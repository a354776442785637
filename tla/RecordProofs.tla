----------------------------- MODULE RecordProofs -----------------------------
(***************************************************************************)
(* For any pages, fields, caps, policies and numbers of readings: what one *)
(* page makes is stored once, failures are explained, and the files of a   *)
(* job say the same.  Loops over sequences are functions on 0 .. n, about  *)
(* which Counting gives the facts.                                         *)
(***************************************************************************)
EXTENDS RecordProperties, FiniteSetTheorems, TLAPS

-----------------------------------------------------------------------------
(* Counting *)

\* A set that holds 0 and every successor holds the naturals.
LEMMA Counting ==
  ASSUME NEW S, 0 \in S, \A n \in Nat : n \in S => n + 1 \in S
  PROVE  Nat \subseteq S
  <1> DEFINE R == {p \in Nat \X Nat : p[1] < p[2]}
  <1>1. IsWellFoundedOn(R, Nat)
    <2> SUFFICES ASSUME NEW f \in [Nat -> Nat], \A n \in Nat : <<f[n + 1], f[n]>> \in R
                 PROVE  FALSE
      BY DEF IsWellFoundedOn
    <2> QED
      BY NatLessThanWellFounded DEF OpToRel, IsWellFoundedOn
  <1>2. ASSUME Nat \ S # {} PROVE FALSE
    <2>1. PICK x \in Nat \ S : \A y \in Nat \ S : ~ (<<y, x>> \in R)
      <3> HIDE DEF R
      <3> QED
        BY <1>1, <1>2, WFMin
    <2>2. x # 0 /\ x - 1 \in Nat /\ x - 1 + 1 = x
      BY <2>1
    <2>3. x - 1 \notin S
      BY <2>1, <2>2
    <2>4. <<x - 1, x>> \in R
      BY <2>1, <2>2
    <2> QED
      BY <2>1, <2>2, <2>3, <2>4
  <1> QED
    BY <1>2

\* The functions on 0 .. L that start with base and go on by step.
Loops(V, base, L, step) ==
  {f \in [0 .. L -> V] : f[0] = base /\ \A n \in 1 .. L : f[n] = step[n][f[n - 1]]}

\* A function on 0 .. L may be defined by its first value and its steps.
LEMMA Recursion ==
  ASSUME NEW V, NEW base \in V, NEW L \in Nat, NEW step \in [1 .. L -> [V -> V]]
  PROVE  Loops(V, base, L, step) # {}
  <1> DEFINE Upto(n) == {f \in [0 .. n -> V] :
                            \A k \in 0 .. n : f[k] = IF k = 0 THEN base ELSE step[k][f[k - 1]]}
             S == {n \in Nat : n <= L => Upto(n) # {}}
  <1>1. 0 \in S
    <2>1. [k \in 0 .. 0 |-> base] \in Upto(0)
      OBVIOUS
    <2> QED
      BY <2>1
  <1>2. ASSUME NEW n \in Nat, n \in S PROVE n + 1 \in S
    <2> SUFFICES ASSUME n + 1 <= L PROVE Upto(n + 1) # {}
      OBVIOUS
    <2>1. PICK f : f \in Upto(n)
      BY <1>2
    <2> DEFINE next == step[n + 1][f[n]]
               g == [k \in 0 .. n + 1 |-> IF k = n + 1 THEN next ELSE f[k]]
    <2>2. f \in [0 .. n -> V] /\ next \in V
      BY <2>1
    <2>3. g \in [0 .. n + 1 -> V]
      BY <2>2
    <2>4. ASSUME NEW k \in 0 .. n + 1
          PROVE  g[k] = IF k = 0 THEN base ELSE step[k][g[k - 1]]
      <3>1. CASE k = n + 1
        <4>1. g[n] = f[n] /\ g[k] = next /\ k - 1 = n /\ k # 0
          BY <3>1
        <4> QED
          BY <3>1, <4>1
      <3>2. CASE k # n + 1
        <4>1. k \in 0 .. n /\ g[k] = f[k] /\ (k # 0 => k - 1 \in 0 .. n /\ g[k - 1] = f[k - 1])
          BY <3>2
        <4>2. f[k] = IF k = 0 THEN base ELSE step[k][f[k - 1]]
          BY <2>1, <4>1
        <4> QED
          BY <4>1, <4>2
      <3> QED
        BY <3>1, <3>2
    <2>5. g \in Upto(n + 1)
      <3> HIDE DEF g
      <3> QED
        BY <2>3, <2>4
    <2> QED
      BY <2>5
  <1>3. L \in S
    <2> HIDE DEF S
    <2> QED
      BY <1>1, <1>2, Counting
  <1>4. PICK f : f \in Upto(L)
    BY <1>3
  <1>5. f[0] = base
    BY <1>4
  <1>6. ASSUME NEW n \in 1 .. L PROVE f[n] = step[n][f[n - 1]]
    BY <1>4
  <1> QED
    BY <1>4, <1>5, <1>6 DEF Loops

-----------------------------------------------------------------------------
(* What a page makes *)

\* The records the pages can make.
Made == {RecordFrom(p, s) : p \in Pages, s \in PageSource}

\* The records of a list of sources are made of them.
LEMMA MeaningfulMade ==
  ASSUME NEW p \in Pages, NEW sources \in Seq(PageSource)
  PROVE  Meaningful(p, sources) \in Seq(Made)
  <1> DEFINE L == Len(sources)
             record(n) == RecordFrom(p, sources[n])
             step == [n \in 1 .. L |-> [rows \in Seq(Made) |->
                         IF HasValue(record(n)) THEN Append(rows, record(n)) ELSE rows]]
             IsLoop(f) == f = [n \in 0 .. L |->
                                  IF n = 0 THEN <<>>
                                  ELSE IF HasValue(record(n)) THEN Append(f[n - 1], record(n))
                                       ELSE f[n - 1]]
             kept == CHOOSE f : IsLoop(f)
  <1>1. L \in Nat /\ \A n \in 1 .. L : record(n) \in Made
    BY DEF Made
  <1>2. step \in [1 .. L -> [Seq(Made) -> Seq(Made)]]
    <2> HIDE DEF record
    <2> QED
      BY <1>1
  <1>3. PICK f \in [0 .. L -> Seq(Made)] :
            f[0] = <<>> /\ \A n \in 1 .. L : f[n] = step[n][f[n - 1]]
    <2> DEFINE V == Seq(Made)
               empty == <<>>
    <2>1. empty \in V /\ step \in [1 .. L -> [V -> V]] /\ L \in Nat
      BY <1>1, <1>2
    <2> HIDE DEF step, L, V, empty
    <2>2. Loops(V, empty, L, step) # {}
      BY <2>1, Recursion
    <2> QED
      BY <2>2 DEF V, empty, Loops
  <1>4. IsLoop(f)
    <2>1. ASSUME NEW n \in 1 .. L
          PROVE  f[n] = IF HasValue(record(n)) THEN Append(f[n - 1], record(n)) ELSE f[n - 1]
      <3>1. n - 1 \in 0 .. L
        BY <1>1
      <3>2. f[n - 1] \in Seq(Made) /\ f[n] = step[n][f[n - 1]]
        BY <1>3, <3>1
      <3> HIDE DEF record
      <3> QED
        BY <3>2
    <2>2. f = [n \in 0 .. L |-> f[n]]
      BY <1>3
    <2> HIDE DEF step, record, L
    <2>3. ASSUME NEW n \in 0 .. L
          PROVE  f[n] = IF n = 0 THEN <<>>
                        ELSE IF HasValue(record(n)) THEN Append(f[n - 1], record(n)) ELSE f[n - 1]
      <3>1. CASE n = 0
        BY <1>3, <3>1
      <3>2. CASE n # 0
        <4>1. n \in 1 .. L
          BY <1>1, <3>2
        <4> QED
          BY <2>1, <3>2, <4>1
      <3> QED
        BY <3>1, <3>2
    <2> QED
      BY <2>2, <2>3
  <1>5. IsLoop(kept)
    BY <1>4
  <1>6. Meaningful(p, sources) = kept[L]
    BY DEF Meaningful
  <1> DEFINE S == {n \in Nat : n <= L => kept[n] \in Seq(Made)}
  <1> HIDE DEF kept
  <1>7. ASSUME NEW n \in 0 .. L
         PROVE  kept[n] = IF n = 0 THEN <<>>
                          ELSE IF HasValue(record(n)) THEN Append(kept[n - 1], record(n))
                          ELSE kept[n - 1]
    BY <1>5
  <1>8. 0 \in S
    BY <1>1, <1>5
  <1>9. ASSUME NEW n \in Nat, n \in S PROVE n + 1 \in S
    <2> SUFFICES ASSUME n + 1 <= L PROVE kept[n + 1] \in Seq(Made)
      OBVIOUS
    <2>1. kept[n] \in Seq(Made) /\ n + 1 \in 1 .. L /\ n + 1 - 1 = n
      BY <1>1, <1>9
    <2>2. kept[n + 1] = IF HasValue(record(n + 1)) THEN Append(kept[n], record(n + 1)) ELSE kept[n]
      <3>1. n + 1 \in 0 .. L /\ n + 1 # 0
        BY <1>1, <2>1
      <3> HIDE DEF record, L
      <3>2. kept[n + 1] = IF n + 1 = 0 THEN <<>>
                          ELSE IF HasValue(record(n + 1)) THEN Append(kept[n + 1 - 1], record(n + 1))
                          ELSE kept[n + 1 - 1]
        BY <1>7, <3>1
      <3> QED
        BY <2>1, <3>1, <3>2
    <2>3. record(n + 1) \in Made
      BY <1>1, <2>1
    <2> HIDE DEF record
    <2> QED
      BY <2>1, <2>2, <2>3
  <1>10. L \in S
    <2> HIDE DEF S
    <2> QED
      BY <1>1, <1>8, <1>9, Counting
  <1> QED
    BY <1>1, <1>6, <1>10

\* A prefix of a list of records is one.
LEMMA Prefix ==
  ASSUME NEW R, NEW s \in Seq(R), NEW n \in Nat, n <= Len(s)
  PROVE  /\ SubSeq(s, 1, n) \in Seq(R)
         /\ Len(SubSeq(s, 1, n)) = n
         /\ \A i \in 1 .. n : SubSeq(s, 1, n)[i] = s[i]
  OBVIOUS

\* So are those extract() returns.
LEMMA ExtractMade ==
  ASSUME NEW p \in Pages, NEW d \in Document
  PROVE  Extract(p, d) \in Seq(Made)
  <1> DEFINE structured == Meaningful(p, d.entities)
             table == Meaningful(p, d.rows)
             blocks == BlockRecords(p, d.blocks)
             found == IF structured # <<>> THEN structured
                      ELSE IF table # <<>> THEN table
                      ELSE IF blocks # <<>> THEN blocks
                      ELSE <<RecordFrom(p, d.detail)>>
             n == IF Len(found) < MaxRecords THEN Len(found) ELSE MaxRecords
  <1>1. structured \in Seq(Made) /\ table \in Seq(Made) /\ Meaningful(p, d.blocks) \in Seq(Made)
    BY MeaningfulMade DEF Document
  <1>2. blocks \in Seq(Made)
    BY <1>1 DEF BlockRecords
  <1>3. RecordFrom(p, d.detail) \in Made
    BY DEF Document, Made
  <1>4. found \in Seq(Made)
    <2> HIDE DEF structured, table, blocks
    <2> QED
      BY <1>1, <1>2, <1>3
  <1>5. Extract(p, d) = SubSeq(found, 1, n)
    BY DEF Extract
  <1>6. n \in Nat /\ n <= Len(found)
    BY <1>4, CapAssumption
  <1> HIDE DEF found, n
  <1> QED
    BY <1>4, <1>5, <1>6, Prefix

-----------------------------------------------------------------------------
(* Rows and identities *)

Distinct(rows) == \A i, j \in DOMAIN rows : rows[i].identity = rows[j].identity => i = j

\* What an insert does: the rows of before stay, and the record is among them.
LEMMA InsertOne ==
  ASSUME NEW R, NEW rows \in Seq(R), NEW r \in R, Distinct(rows)
  PROVE  /\ Insert(rows, r) \in Seq(R)
         /\ Distinct(Insert(rows, r))
         /\ Len(rows) <= Len(Insert(rows, r)) /\ Len(Insert(rows, r)) <= Len(rows) + 1
         /\ \A i \in 1 .. Len(rows) : Insert(rows, r)[i] = rows[i]
         /\ ~IsNew(r, Insert(rows, r))
         /\ ~IsNew(r, rows) => Insert(rows, r) = rows
  <1>1. CASE ~IsNew(r, rows)
    <2>1. Insert(rows, r) = rows
      BY <1>1 DEF Insert
    <2> QED
      BY <1>1, <2>1
  <1>2. CASE IsNew(r, rows)
    <2>1. Insert(rows, r) = Append(rows, r)
      BY <1>2 DEF Insert
    <2> DEFINE more == Append(rows, r)
    <2>2. /\ more \in Seq(R)
          /\ Len(more) = Len(rows) + 1
          /\ \A i \in 1 .. Len(rows) : more[i] = rows[i]
          /\ more[Len(rows) + 1] = r
          /\ DOMAIN more = 1 .. Len(rows) + 1
          /\ DOMAIN rows = 1 .. Len(rows)
      OBVIOUS
    <2>3. \A i \in 1 .. Len(rows) : rows[i].identity # r.identity
      BY <1>2, <2>2 DEF IsNew
    <2> HIDE DEF more
    <2>4. Distinct(more)
      BY <2>2, <2>3 DEF Distinct
    <2>5. ~IsNew(r, more)
      BY <2>2 DEF IsNew
    <2> QED
      BY <1>2, <2>1, <2>2, <2>4, <2>5 DEF more
  <1> QED
    BY <1>1, <1>2

\* What inserting a list does: every record of it is among the rows then, and
\* nothing happens when all of them were.
LEMMA InsertMany ==
  ASSUME NEW R, NEW rows \in Seq(R), NEW offered \in Seq(R), Distinct(rows)
  PROVE  /\ InsertAll(rows, offered) \in Seq(R)
         /\ Distinct(InsertAll(rows, offered))
         /\ Len(rows) <= Len(InsertAll(rows, offered))
         /\ Len(InsertAll(rows, offered)) <= Len(rows) + Len(offered)
         /\ \A i \in 1 .. Len(rows) : InsertAll(rows, offered)[i] = rows[i]
         /\ \A k \in 1 .. Len(offered) : ~IsNew(offered[k], InsertAll(rows, offered))
         /\ (\A k \in 1 .. Len(offered) : ~IsNew(offered[k], rows)) => InsertAll(rows, offered) = rows
  <1> DEFINE L == Len(offered)
             V == Seq(R)
             step == [n \in 1 .. L |-> [a \in V |-> Insert(a, offered[n])]]
             IsLoop(f) == f = [n \in 0 .. L |-> IF n = 0 THEN rows ELSE Insert(f[n - 1], offered[n])]
             after == CHOOSE f : IsLoop(f)
             Good(n, a) == /\ a \in Seq(R) /\ Distinct(a)
                           /\ Len(rows) <= Len(a) /\ Len(a) <= Len(rows) + n
                           /\ \A i \in 1 .. Len(rows) : a[i] = rows[i]
                           /\ \A k \in 1 .. n : ~IsNew(offered[k], a)
                           /\ (\A k \in 1 .. L : ~IsNew(offered[k], rows)) => a = rows
  <1>1. L \in Nat /\ \A n \in 1 .. L : offered[n] \in R
    OBVIOUS
  <1>2. \E f : IsLoop(f)
    <2>1. ASSUME NEW a \in V, NEW n \in 1 .. L PROVE Insert(a, offered[n]) \in V
      <3>1. a \in Seq(R) /\ offered[n] \in R
        BY <1>1
      <3> QED
        BY <3>1 DEF Insert
    <2>2. step \in [1 .. L -> [V -> V]]
      <3> HIDE DEF V, L
      <3> QED
        BY <2>1
    <2>3. rows \in V
      OBVIOUS
    <2>4. Loops(V, rows, L, step) # {}
      <3> HIDE DEF V, L, step
      <3> QED
        BY <1>1, <2>2, <2>3, Recursion
    <2>5. PICK f \in [0 .. L -> V] : f[0] = rows /\ \A n \in 1 .. L : f[n] = step[n][f[n - 1]]
      <3> HIDE DEF V, L, step
      <3> QED
        BY <2>4 DEF Loops
    <2>6. f = [n \in 0 .. L |-> f[n]]
      BY <2>5
    <2> HIDE DEF V, L
    <2>7. ASSUME NEW n \in 0 .. L
          PROVE  f[n] = IF n = 0 THEN rows ELSE Insert(f[n - 1], offered[n])
      <3>1. CASE n = 0
        BY <2>5, <3>1
      <3>2. CASE n # 0
        <4>1. n \in 1 .. L /\ n - 1 \in 0 .. L
          BY <1>1, <3>2
        <4>2. f[n - 1] \in V /\ f[n] = step[n][f[n - 1]]
          BY <2>5, <4>1
        <4> QED
          BY <3>2, <4>1, <4>2
      <3> QED
        BY <3>1, <3>2
    <2>8. IsLoop(f)
      BY <2>6, <2>7
    <2> QED
      BY <2>8
  <1>3. IsLoop(after)
    BY <1>2
  <1>4. InsertAll(rows, offered) = after[L]
    BY DEF InsertAll
  <1> HIDE DEF after
  <1>5. ASSUME NEW n \in 0 .. L
        PROVE  after[n] = IF n = 0 THEN rows ELSE Insert(after[n - 1], offered[n])
    BY <1>3
  <1> DEFINE S == {n \in Nat : n <= L => Good(n, after[n])}
  <1>6. 0 \in S
    <2>1. after[0] = rows
      BY <1>1, <1>5
    <2>2. Good(0, rows)
      OBVIOUS
    <2> QED
      BY <2>1, <2>2
  <1>7. ASSUME NEW n \in Nat, n \in S PROVE n + 1 \in S
    <2> SUFFICES ASSUME n + 1 <= L PROVE Good(n + 1, after[n + 1])
      OBVIOUS
    <2> DEFINE a == after[n]
               r == offered[n + 1]
    <2>1. Good(n, a) /\ n + 1 \in 1 .. L
      BY <1>1, <1>7
    <2>2. after[n + 1] = Insert(a, r)
      <3>1. n + 1 \in 0 .. L /\ n + 1 # 0 /\ n + 1 - 1 = n
        BY <1>1, <2>1
      <3> HIDE DEF L
      <3> QED
        BY <1>5, <3>1
    <2>3. r \in R
      BY <1>1, <2>1
    <2> HIDE DEF a, r
    <2>4. /\ Insert(a, r) \in Seq(R)
          /\ Distinct(Insert(a, r))
          /\ Len(a) <= Len(Insert(a, r)) /\ Len(Insert(a, r)) <= Len(a) + 1
          /\ \A i \in 1 .. Len(a) : Insert(a, r)[i] = a[i]
          /\ ~IsNew(r, Insert(a, r))
          /\ ~IsNew(r, a) => Insert(a, r) = a
      BY <2>1, <2>3, InsertOne
    <2>5. Len(rows) <= Len(Insert(a, r)) /\ Len(Insert(a, r)) <= Len(rows) + (n + 1)
      BY <2>1, <2>4
    <2>6. \A i \in 1 .. Len(rows) : Insert(a, r)[i] = rows[i]
      BY <2>1, <2>4
    <2>7. ASSUME NEW k \in 1 .. n + 1 PROVE ~IsNew(offered[k], Insert(a, r))
      <3>1. CASE k = n + 1
        BY <2>4, <3>1 DEF r
      <3>2. CASE k # n + 1
        <4>1. ~IsNew(offered[k], a)
          BY <2>1, <3>2
        <4>2. PICK i \in 1 .. Len(a) : a[i].identity = offered[k].identity
          BY <2>1, <4>1 DEF IsNew
        <4>3. i \in DOMAIN Insert(a, r) /\ Insert(a, r)[i] = a[i]
          BY <2>1, <2>4, <4>2
        <4> QED
          BY <4>2, <4>3 DEF IsNew
      <3> QED
        BY <3>1, <3>2
    <2>8. (\A k \in 1 .. L : ~IsNew(offered[k], rows)) => Insert(a, r) = rows
      BY <2>1, <2>4 DEF r
    <2> QED
      BY <2>2, <2>4, <2>5, <2>6, <2>7, <2>8
  <1>8. L \in S
    <2> HIDE DEF S
    <2> QED
      BY <1>1, <1>6, <1>7, Counting
  <1>9. Good(L, after[L])
    BY <1>1, <1>8
  <1> QED
    BY <1>4, <1>9

-----------------------------------------------------------------------------
(* The inductive invariant *)

\* What page p would offer now is stored already.
AllStored(p) == \A k \in 1 .. Len(Offered(p)) : ~IsNew(Offered(p)[k], records)

VerdictsInv ==
  IF stage = "EXPORTING"
  THEN /\ policy \in Policies
       /\ DOMAIN verdicts = {r.identity : r \in Stored}
       /\ \A r \in Stored : verdicts[r.identity] = Verdict(r)
  ELSE verdicts = <<>> /\ files = <<>>

FilesInv == \A a \in DOMAIN files : files[a] = File(Dataset(Stored, verdicts, policy), a)

\* Beside the types: rows are what pages make, a page that was read has nothing
\* left to offer, verdicts and files are those of the rows there are.
FlowInv ==
  /\ RecordsTypeOK
  /\ shown \in [Pages -> Documents]
  /\ records \in Seq(Made)
  /\ \A p \in Pages : reads[p] > 0 => AllStored(p)
  /\ VerdictsInv
  /\ FilesInv

\* What page p with document d offers beside the given rows.
OfferedBeside(p, d, rows) ==
  LET extracted == Extract(p, d)
      room == IF MaxRecords > Len(rows) THEN MaxRecords - Len(rows) ELSE 0
  IN  SubSeq(extracted, 1, IF Len(extracted) < room THEN Len(extracted) ELSE room)

\* A page offers as many of its records as there is room for.
LEMMA OfferedMade ==
  ASSUME NEW p \in Pages, NEW d \in Documents, NEW rows \in Seq(Made), Len(rows) <= MaxRecords,
         NEW offered, offered = OfferedBeside(p, d, rows)
  PROVE  /\ Extract(p, d) \in Seq(Made)
         /\ offered \in Seq(Made)
         /\ Len(offered) <= Len(Extract(p, d))
         /\ Len(offered) <= MaxRecords - Len(rows)
         /\ Len(offered) \in {Len(Extract(p, d)), MaxRecords - Len(rows)}
         /\ \A k \in 1 .. Len(offered) : offered[k] = Extract(p, d)[k]
  <1> DEFINE extracted == Extract(p, d)
             room == IF MaxRecords > Len(rows) THEN MaxRecords - Len(rows) ELSE 0
             n == IF Len(extracted) < room THEN Len(extracted) ELSE room
  <1>1. extracted \in Seq(Made)
    BY ExtractMade, ReadAssumption
  <1>2. Len(rows) \in Nat /\ room = MaxRecords - Len(rows) /\ room \in Nat
    BY CapAssumption
  <1>3. offered = SubSeq(extracted, 1, n)
    BY DEF OfferedBeside
  <1> HIDE DEF extracted, room
  <1>4. Len(extracted) \in Nat
    BY <1>1
  <1>5. n \in Nat /\ n <= Len(extracted) /\ n <= room /\ n \in {Len(extracted), room}
    BY <1>2, <1>4
  <1> HIDE DEF n
  <1>6. /\ offered \in Seq(Made)
        /\ Len(offered) = n
        /\ \A i \in 1 .. n : offered[i] = extracted[i]
    BY <1>1, <1>3, <1>5, Prefix
  <1> QED
    BY <1>1, <1>2, <1>5, <1>6 DEF extracted

\* A job starts with no rows and no files.
LEMMA InitFlow == FlowInit => FlowInv
  <1> SUFFICES ASSUME FlowInit PROVE FlowInv
    OBVIOUS
  <1>1. RecordsTypeOK
    BY CapAssumption, ReadAssumption DEF FlowInit, RecordsTypeOK
  <1>2. \A p \in Pages : ~(reads[p] > 0)
    BY DEF FlowInit
  <1>3. VerdictsInv /\ FilesInv
    BY DEF FlowInit, VerdictsInv, FilesInv
  <1> QED
    BY <1>1, <1>2, <1>3 DEF FlowInit, FlowInv

\* A reading stores what its page offers, and what other pages had stored stays.
LEMMA ReadKeeps ==
  ASSUME FlowInv, NEW p \in Pages, ReadPage(p)
  PROVE  FlowInv'
  <1>1. /\ Distinct(records) /\ records \in Seq(Made) /\ shown \in [Pages -> Documents]
        /\ Len(records) <= MaxRecords /\ Len(records) \in Nat /\ recordsFound = Len(records)
        /\ stage = "EXTRACTING" /\ reads \in [Pages -> 0 .. MaxReads]
    BY DEF FlowInv, RecordsTypeOK, Distinct, ReadPage
  <1>2. records' = InsertAll(records, Offered(p))
    BY DEF ReadPage
  <1>3. Offered(p) \in Seq(Made) /\ Len(Offered(p)) <= MaxRecords - Len(records)
    <2>1. shown[p] \in Documents /\ Offered(p) = OfferedBeside(p, shown[p], records)
      BY <1>1 DEF Offered, OfferedBeside
    <2> QED
      BY <1>1, <2>1, OfferedMade
  <1>4. /\ records' \in Seq(Made)
        /\ Distinct(records')
        /\ Len(records) <= Len(records') /\ Len(records') <= Len(records) + Len(Offered(p))
        /\ \A i \in 1 .. Len(records) : records'[i] = records[i]
        /\ \A k \in 1 .. Len(Offered(p)) : ~IsNew(Offered(p)[k], records')
    BY <1>1, <1>2, <1>3, InsertMany
  <1>5. Len(records') <= MaxRecords /\ Len(records') \in Nat
    BY <1>1, <1>3, <1>4, CapAssumption
  <1>6. recordsFound' = Len(records')
    BY <1>1, <1>2, <1>5 DEF ReadPage, FoundAfter
  <1>7. stage' \in {"EXTRACTING", "VALIDATING"}
    BY <1>1 DEF ReadPage, StageAfter
  <1>8. reads' \in [Pages -> 0 .. MaxReads] /\ \A q \in Pages \ {p} : reads'[q] = reads[q]
    BY <1>1, ReadAssumption DEF ReadPage
  <1>9. UNCHANGED <<shown, verdicts, policy, files>>
    BY DEF ReadPage
  <1>10. RecordsTypeOK'
    BY <1>4, <1>5, <1>6, <1>7, <1>8, <1>9 DEF RecordsTypeOK, Distinct, FlowInv
  <1>11. ASSUME NEW q \in Pages, reads'[q] > 0
         PROVE  AllStored(q)'
    <2> DEFINE now == Offered(q)
               then == Offered(q)'
               made == Extract(q, shown[q])
    <2>1. /\ made \in Seq(Made)
          /\ Len(now) \in Nat
          /\ Len(now) \in {Len(made), MaxRecords - Len(records)}
          /\ \A k \in 1 .. Len(now) : now[k] = made[k]
      <3>1. shown[q] \in Documents /\ now = OfferedBeside(q, shown[q], records)
        BY <1>1 DEF Offered, OfferedBeside
      <3> HIDE DEF now
      <3>2. now \in Seq(Made)
        BY <1>1, <3>1, OfferedMade
      <3> QED
        BY <1>1, <3>1, <3>2, OfferedMade
    <2>2. /\ Len(then) \in Nat
          /\ Len(then) <= Len(made) /\ Len(then) <= MaxRecords - Len(records')
          /\ \A k \in 1 .. Len(then) : then[k] = made[k]
      <3>1. shown[q] \in Documents /\ then = OfferedBeside(q, shown[q], records')
        BY <1>1, <1>9 DEF Offered, OfferedBeside
      <3> HIDE DEF then
      <3>2. then \in Seq(Made)
        BY <1>4, <1>5, <3>1, OfferedMade
      <3> QED
        BY <1>4, <1>5, <3>1, <3>2, OfferedMade
    <2>3. \A k \in 1 .. Len(now) : ~IsNew(now[k], records')
      <3>1. CASE q = p
        BY <1>4, <3>1
      <3>2. CASE q # p
        <4>1. \A k \in 1 .. Len(now) : ~IsNew(now[k], records)
          BY <1>8, <1>11, <3>2 DEF FlowInv, AllStored
        <4> HIDE DEF now
        <4> QED
          BY <1>1, <1>4, <4>1 DEF IsNew
      <3> QED
        BY <3>1, <3>2
    <2>4. Len(then) <= Len(now)
      BY <1>1, <1>4, <1>5, <2>1, <2>2, CapAssumption
    <2>5. ASSUME NEW k \in 1 .. Len(then) PROVE ~IsNew(then[k], records')
      BY <2>1, <2>2, <2>3, <2>4
    <2> QED
      BY <2>5 DEF AllStored
  <1>12. VerdictsInv' /\ FilesInv'
    <2>1. files = <<>> /\ verdicts = <<>>
      BY <1>1 DEF FlowInv, VerdictsInv
    <2> QED
      BY <1>7, <1>9, <2>1 DEF VerdictsInv, FilesInv
  <1> QED
    BY <1>1, <1>4, <1>9, <1>10, <1>11, <1>12 DEF FlowInv

\* The rows one validates are told apart by their identities.
LEMMA StoredApart ==
  ASSUME FlowInv, NEW r \in Stored, NEW s \in Stored, r.identity = s.identity
  PROVE  r = s
  <1>1. PICK i \in DOMAIN records : r = records[i]
    BY DEF Stored
  <1>2. PICK j \in DOMAIN records : s = records[j]
    BY DEF Stored
  <1> QED
    BY <1>1, <1>2 DEF FlowInv, RecordsTypeOK

\* Validation gives every row its verdict.
LEMMA ValidateKeeps ==
  ASSUME FlowInv, Validate
  PROVE  FlowInv'
  <1>1. /\ stage = "VALIDATING" /\ stage' = "EXPORTING" /\ policy' \in Policies
        /\ UNCHANGED <<shown, records, recordsFound, reads, files>>
    BY DEF Validate
  <1>2. files = <<>>
    BY <1>1 DEF FlowInv, VerdictsInv
  <1>3. Stored' = Stored /\ \A p \in Pages : Offered(p)' = Offered(p)
    BY <1>1 DEF Stored, Offered
  <1>4. RecordsTypeOK'
    BY <1>1 DEF FlowInv, RecordsTypeOK
  <1>5. ASSUME NEW r \in Stored PROVE verdicts'[r.identity] = Verdict(r)
    <2> DEFINE same == CHOOSE x \in Stored : x.identity = r.identity
    <2>1. same \in Stored /\ same.identity = r.identity
      OBVIOUS
    <2>2. same = r
      <3> HIDE DEF same
      <3> QED
        BY <2>1, StoredApart
    <2>3. verdicts'[r.identity] = Verdict(same)
      BY DEF Validate
    <2> QED
      BY <2>2, <2>3
  <1>6. DOMAIN verdicts' = {r.identity : r \in Stored}
    BY DEF Validate
  <1>7. VerdictsInv' /\ FilesInv'
    BY <1>1, <1>2, <1>3, <1>5, <1>6 DEF VerdictsInv, FilesInv
  <1>8. \A p \in Pages : reads'[p] > 0 => AllStored(p)'
    BY <1>1, <1>3 DEF FlowInv, AllStored
  <1> QED
    BY <1>1, <1>4, <1>7, <1>8 DEF FlowInv

\* An export adds the file of its format.
LEMMA ExportKeeps ==
  ASSUME FlowInv, NEW format \in Formats, Export(format)
  PROVE  FlowInv'
  <1>1. /\ stage = "EXPORTING"
        /\ UNCHANGED <<shown, stage, records, recordsFound, reads, verdicts, policy>>
    BY DEF Export
  <1>2. Stored' = Stored /\ \A p \in Pages : Offered(p)' = Offered(p)
    BY <1>1 DEF Stored, Offered
  <1> DEFINE file == File(Dataset(Stored, verdicts, policy), format)
  <1>3. /\ DOMAIN files' = DOMAIN files \cup {format}
        /\ files'[format] = file
        /\ \A a \in DOMAIN files : files'[a] = files[a]
    <2>1. /\ files' = [a \in DOMAIN files \cup {format} |-> IF a = format THEN file ELSE files[a]]
          /\ format \notin DOMAIN files
      BY DEF Export
    <2> HIDE DEF file
    <2> QED
      BY <2>1
  <1>4. RecordsTypeOK'
    BY <1>1, <1>3 DEF FlowInv, RecordsTypeOK
  <1>5. FilesInv'
    BY <1>1, <1>2, <1>3 DEF FlowInv, FilesInv
  <1>6. VerdictsInv'
    BY <1>1, <1>2 DEF FlowInv, VerdictsInv
  <1>7. \A p \in Pages : reads'[p] > 0 => AllStored(p)'
    BY <1>1, <1>2 DEF FlowInv, AllStored
  <1> QED
    BY <1>1, <1>4, <1>5, <1>6, <1>7 DEF FlowInv

\* FlowInv is inductive.
LEMMA StepFlow ==
  ASSUME FlowInv, [FlowNext]_flowVars
  PROVE  FlowInv'
  <1>1. CASE UNCHANGED flowVars
    <2>1. /\ Stored' = Stored
          /\ \A p \in Pages : Offered(p)' = Offered(p)
          /\ UNCHANGED <<shown, stage, records, recordsFound, reads, verdicts, policy, files>>
      BY <1>1 DEF flowVars, Stored, Offered
    <2>2. RecordsTypeOK' /\ VerdictsInv' /\ FilesInv'
      BY <2>1 DEF FlowInv, RecordsTypeOK, VerdictsInv, FilesInv
    <2>3. \A p \in Pages : reads'[p] > 0 => AllStored(p)'
      BY <2>1 DEF FlowInv, AllStored
    <2> QED
      BY <2>1, <2>2, <2>3 DEF FlowInv
  <1> QED
    BY <1>1, ReadKeeps, ValidateKeeps, ExportKeeps DEF FlowNext

\* FlowInv holds of every reachable state.
LEMMA FlowInvariant == FlowSpec => []FlowInv
  BY InitFlow, StepFlow, PTL DEF FlowSpec

-----------------------------------------------------------------------------
(* The theorems *)

\* RecordsTypeOK: no identity is stored twice, the cap holds and the counter is
\* the number of rows, for any pages, caps and numbers of readings.
THEOREM RecordsAreStoredOnce == FlowSpec => []RecordsTypeOK
  <1>1. FlowInv => RecordsTypeOK
    BY DEF FlowInv
  <1> QED
    BY <1>1, FlowInvariant, PTL

\* ReadingAgainAddsNothing: a page read before stores nothing, also when the cap
\* cut its first reading or other pages were read since.
THEOREM ReadingIsIdempotent == FlowSpec => ReadingAgainAddsNothing
  <1>1. FlowInv /\ [FlowNext]_flowVars
            => [\A p \in Pages : reads[p] > 0 /\ reads'[p] > reads[p] => records' = records]_flowVars
    <2> SUFFICES ASSUME FlowInv, [FlowNext]_flowVars, NEW p \in Pages,
                        reads[p] > 0, reads'[p] > reads[p]
                 PROVE  records' = records
      OBVIOUS
    <2>1. reads \in [Pages -> 0 .. MaxReads] /\ reads[p] \in Nat
      BY ReadAssumption DEF FlowInv, RecordsTypeOK
    <2>2. PICK q \in Pages : ReadPage(q)
      <3>1. reads' # reads
        BY <2>1
      <3> QED
        BY <3>1 DEF FlowNext, flowVars, Validate, Export
    <2>3. q = p
      BY <2>1, <2>2 DEF ReadPage
    <2>4. \A k \in 1 .. Len(Offered(p)) : ~IsNew(Offered(p)[k], records)
      BY DEF FlowInv, AllStored
    <2>5. /\ Distinct(records) /\ records \in Seq(Made) /\ Len(records) <= MaxRecords
          /\ shown[p] \in Documents /\ Offered(p) = OfferedBeside(p, shown[p], records)
      BY DEF FlowInv, RecordsTypeOK, Distinct, Offered, OfferedBeside
    <2>6. Offered(p) \in Seq(Made)
      BY <2>5, OfferedMade
    <2>7. InsertAll(records, Offered(p)) = records
      BY <2>4, <2>5, <2>6, InsertMany
    <2> QED
      BY <2>2, <2>3, <2>7 DEF ReadPage
  <1> QED
    BY <1>1, FlowInvariant, PTL DEF FlowSpec, ReadingAgainAddsNothing

\* What normalize() makes of a text has a kind of its type, but for a number that
\* is not whole, and the form of its type, but for an address without a host.
LEMMA NormalisedPasses ==
  ASSUME NEW text, NEW f \in Fields, Normalised(text, FieldType[f]) # Missing
  PROVE  /\ \/ Normalised(text, FieldType[f]).kind \in KindsOf(FieldType[f])
            \/ FieldType[f] = "integer" /\ Normalised(text, FieldType[f]).kind = "float"
         /\ \/ HasItsFormat(Normalised(text, FieldType[f]), FieldType[f])
            \/ FieldType[f] = "url" /\ HasNoHost(Normalised(text, FieldType[f]))
  <1> DEFINE type == FieldType[f]
             value == Normalised(text, type)
  <1>1. type \in {"text", "integer", "number", "boolean", "url", "email", "date", "datetime"}
    BY TypeAssumption
  <1>2. value # Missing /\ value = Normalised(text, type) /\ text # ""
    BY DEF Normalised
  <1>3. \A kind, token : Is(kind, token).kind = kind /\ Is(kind, token).of = token
    BY DEF Is
  <1> HIDE DEF type, value
  <1>4. CASE type = "text"
    <2>1. value = Is("str", text)
      BY <1>2, <1>4 DEF Normalised
    <2>2. value.kind = "str" /\ value.of # ""
      BY <1>2, <1>3, <2>1
    <2> QED
      BY <1>4, <2>2 DEF type, value, KindsOf, HasItsFormat
  <1>5. CASE type \in {"integer", "number", "boolean"}
    <2>1. HasItsFormat(value, type)
      BY <1>5 DEF HasItsFormat
    <2>2. CASE type = "integer"
      <3>1. value \in {Is("int", text), Is("float", text)}
        BY <1>2, <2>2 DEF Normalised
      <3>2. value.kind \in {"int", "float"}
        BY <1>3, <3>1
      <3> QED
        BY <2>1, <2>2, <3>2 DEF type, value, KindsOf
    <2>3. CASE type = "number"
      <3>1. value = Is("float", text)
        BY <1>2, <2>3 DEF Normalised
      <3> QED
        BY <1>3, <2>1, <2>3, <3>1 DEF type, value, KindsOf
    <2>4. CASE type = "boolean"
      <3>1. value \in {Is("bool", "False"), Is("bool", "True")}
        BY <1>2, <2>4 DEF Normalised
      <3>2. value.kind = "bool"
        BY <1>3, <3>1
      <3> QED
        BY <2>1, <2>4, <3>2 DEF type, value, KindsOf
    <2> QED
      BY <1>5, <2>2, <2>3, <2>4
  <1>6. CASE type = "url"
    <2>1. value = Is("str", Joined(text))
      BY <1>2, <1>6 DEF Normalised
    <2>2. value.kind \in KindsOf(type)
      BY <1>3, <1>6, <2>1 DEF KindsOf
    <2>3. HasItsFormat(value, type) \/ HasNoHost(value)
      BY <1>6 DEF HasItsFormat
    <2> QED
      BY <1>6, <2>2, <2>3 DEF type, value
  <1>7. CASE type = "email"
    <2>1. value = Is("str", "word@host.net")
      BY <1>2, <1>7 DEF Normalised
    <2> QED
      BY <1>3, <1>7, <2>1 DEF type, value, KindsOf, HasItsFormat
  <1>8. CASE type = "date"
    <2>1. value = Is("str", "2024-05-01")
      BY <1>2, <1>8 DEF Normalised
    <2> QED
      BY <1>3, <1>8, <2>1 DEF type, value, KindsOf, HasItsFormat
  <1>9. CASE type = "datetime"
    <2>1. value \in {Is("str", "2024-05-01T00:00:00"), Is("str", "2024-05-01T10:00:00+00:00")}
      BY <1>2, <1>9 DEF Normalised
    <2>2. value.kind = "str" /\ value.of \in {"2024-05-01T00:00:00", "2024-05-01T10:00:00+00:00"}
      BY <1>3, <2>1
    <2> QED
      BY <1>9, <2>2 DEF type, value, KindsOf, HasItsFormat
  <1> QED
    BY <1>1, <1>4, <1>5, <1>6, <1>7, <1>8, <1>9

\* A value that was kept with its text passes its rules, but for those exceptions:
\* its text gives it again.
LEMMA KeptTextsPass ==
  ASSUME NEW s \in PageSource, NEW f \in Fields, "FAIL" \in FieldOutcomes(f, FieldFrom(s, f))
  PROVE  \/ f \in Required /\ FieldFrom(s, f).value = Missing
         \/ FieldType[f] = "integer" /\ FieldFrom(s, f).value.kind = "float"
         \/ FieldType[f] = "url" /\ HasNoHost(FieldFrom(s, f).value)
         \/ FieldFrom(s, f).raw = "" /\ FieldFrom(s, f).value # Missing
  <1> DEFINE raw == Found(s, f)
             field == FieldFrom(s, f)
             type == FieldType[f]
  <1>1. CASE field.value = Missing
    BY <1>1 DEF FieldOutcomes, IsMissing
  <1>2. CASE field.value # Missing
    <2>1. raw # None /\ field.raw = Squeezed(raw) /\ field.value = Normalised(Printed(raw), type)
      BY <1>2 DEF FieldFrom, KeptRaw
    <2>2. CASE raw \in {"json 0", "json false"}
      BY <1>2, <2>1, <2>2 DEF Squeezed
    <2>3. CASE raw \notin {"json 0", "json false"}
      <3>1. field.raw = raw /\ field.value = Normalised(raw, type)
        BY <2>1, <2>3 DEF Squeezed, Printed
      <3>2. IsReproduced(field, type)
        BY <3>1 DEF IsReproduced
      <3>3. ~HasItsType(field, type) \/ ~HasItsFormat(field.value, type)
        BY <1>2, <3>2 DEF FieldOutcomes, IsMissing
      <3> HIDE DEF field, raw
      <3>4. \/ type = "integer" /\ field.value.kind = "float"
            \/ type = "url" /\ HasNoHost(field.value)
        BY <1>2, <3>1, <3>3, NormalisedPasses DEF HasItsType
      <3> QED
        BY <3>4 DEF field
    <2> QED
      BY <2>2, <2>3
  <1> QED
    BY <1>1, <1>2

\* FailuresAreExplained: of the rules of fields, whatever the types of the plan,
\* only a missing required value, a number that is not whole, an address without a
\* host or the lost text of a JSON scalar fails a record.
THEOREM FailuresHaveReasons == FlowSpec => []FailuresAreExplained
  <1>1. FlowInv => FailuresAreExplained
    <2> SUFFICES ASSUME FlowInv, NEW r \in Stored, r.identity \in DOMAIN verdicts,
                        verdicts[r.identity] = "FAIL"
                 PROVE  \E f \in Fields :
                            \/ f \in Required /\ r.fields[f].value = Missing
                            \/ FieldType[f] = "integer" /\ r.fields[f].value.kind = "float"
                            \/ FieldType[f] = "url" /\ HasNoHost(r.fields[f].value)
                            \/ r.fields[f].raw = "" /\ r.fields[f].value # Missing
      BY DEF FailuresAreExplained
    <2>1. Verdict(r) = "FAIL"
      BY DEF FlowInv, VerdictsInv
    <2>2. "FAIL" \in Outcomes(r)
      BY <2>1 DEF Verdict, Status
    <2>3. PICK f \in Fields : "FAIL" \in FieldOutcomes(f, r.fields[f])
      BY <2>2 DEF Outcomes
    <2>4. r \in Made
      BY DEF FlowInv, Stored
    <2>5. PICK p \in Pages, s \in PageSource : r = RecordFrom(p, s)
      BY <2>4 DEF Made
    <2>6. r.fields[f] = FieldFrom(s, f)
      BY <2>5 DEF RecordFrom
    <2> QED
      BY <2>3, <2>6, KeptTextsPass
  <1> QED
    BY <1>1, FlowInvariant, PTL

-----------------------------------------------------------------------------
(* Files *)

\* The records an export selects.
Chosen ==
  {r \in Stored : r.identity \in DOMAIN verdicts /\ Selected(verdicts[r.identity], policy)}

\* There are as many stored records as rows.
LEMMA StoredCounted ==
  ASSUME FlowInv
  PROVE  IsFiniteSet(Stored) /\ Cardinality(Stored) = Len(records)
  <1>1. Len(records) \in Nat /\ records \in [1 .. Len(records) -> Stored] /\ DOMAIN records = 1 .. Len(records)
    BY DEF FlowInv, Stored
  <1>2. records \in Bijection(1 .. Len(records), Stored)
    BY <1>1 DEF FlowInv, RecordsTypeOK, Stored, Bijection, Injection, Surjection, IsInjective
  <1>3. IsFiniteSet(1 .. Len(records)) /\ Cardinality(1 .. Len(records)) = Len(records)
    BY <1>1, FS_Interval
  <1> QED
    BY <1>2, <1>3, FS_Bijection DEF ExistsBijection

\* The rows of a data set are those of the chosen records, each once.
LEMMA DatasetRows ==
  ASSUME FlowInv
  PROVE  /\ Cardinality(Chosen) \in Nat
         /\ DOMAIN Dataset(Stored, verdicts, policy) = 1 .. Cardinality(Chosen)
         /\ \A i \in 1 .. Cardinality(Chosen) :
                \E r \in Chosen : Dataset(Stored, verdicts, policy)[i] = Row(r)
  <1> DEFINE n == Cardinality(Chosen)
             order == CHOOSE f \in Bijection(1 .. n, Chosen) : TRUE
  <1>1. IsFiniteSet(Chosen)
    BY StoredCounted, FS_Subset DEF Chosen
  <1>2. n \in Nat /\ Bijection(1 .. n, Chosen) # {}
    BY <1>1, FS_CardinalityType DEF ExistsBijection
  <1>3. order \in Bijection(1 .. n, Chosen)
    BY <1>2
  <1>4. order \in [1 .. n -> Chosen]
    BY <1>3 DEF Bijection, Injection
  <1>5. Dataset(Stored, verdicts, policy) = [i \in 1 .. n |-> Row(order[i])]
    BY DEF Dataset, Chosen
  <1> HIDE DEF n, order
  <1> QED
    BY <1>2, <1>4, <1>5 DEF n

\* FilteredRowsAreSound: under a filtering policy no row of a JSON file lacks a
\* required value or has a value of the wrong kind or format.
THEOREM FilteredFilesAreSound == FlowSpec => []FilteredRowsAreSound
  <1>1. FlowInv => FilteredRowsAreSound
    <2> SUFFICES ASSUME FlowInv, "json" \in DOMAIN files, policy # "ALL_RECORDS",
                        NEW i \in DOMAIN files["json"], NEW f \in Fields
                 PROVE  LET cell == files["json"][i][f]
                        IN  IF cell = Missing THEN f \notin Required
                            ELSE cell.kind \in KindsOf(FieldType[f]) /\ HasItsFormat(cell, FieldType[f])
      BY DEF FilteredRowsAreSound
    <2> DEFINE rows == Dataset(Stored, verdicts, policy)
    <2>1. files["json"] = File(rows, "json")
      BY DEF FlowInv, FilesInv
    <2> HIDE DEF rows
    <2>2. i \in DOMAIN rows /\ files["json"][i][f] = rows[i][f]
      BY <2>1 DEF File, Cell
    <2>3. PICK r \in Chosen : rows[i] = Row(r)
      BY <2>2, DatasetRows DEF rows
    <2>4. files["json"][i][f] = r.fields[f].value
      BY <2>2, <2>3 DEF Row
    <2>5. stage = "EXPORTING"
      BY DEF FlowInv, VerdictsInv
    <2>6. Verdict(r) # "FAIL"
      <3>1. policy \in {"VALID_ONLY", "VALID_AND_WARNINGS"}
        BY <2>5, ExportAssumption DEF FlowInv, VerdictsInv
      <3>2. r \in Stored /\ Selected(verdicts[r.identity], policy)
        BY DEF Chosen
      <3>3. verdicts[r.identity] = Verdict(r)
        BY <2>5, <3>2 DEF FlowInv, VerdictsInv
      <3>4. verdicts[r.identity] \in {"PASS", "WARN"}
        BY <3>1, <3>2 DEF Selected
      <3> QED
        BY <3>3, <3>4
    <2>7. "FAIL" \notin FieldOutcomes(f, r.fields[f])
      BY <2>6 DEF Verdict, Status, Outcomes
    <2>8. IF r.fields[f].value = Missing THEN f \notin Required
          ELSE /\ r.fields[f].value.kind \in KindsOf(FieldType[f])
               /\ HasItsFormat(r.fields[f].value, FieldType[f])
      BY <2>7 DEF FieldOutcomes, IsMissing, HasItsType
    <2> QED
      BY <2>4, <2>8
  <1> QED
    BY <1>1, FlowInvariant, PTL

\* The cells of two formats differ by the apostrophe, or where CSV leaves out
\* what is false.
LEMMA CellsAgree ==
  ASSUME NEW value, NEW a \in Formats, NEW b \in Formats
  PROVE  \/ Safe(Cell(value, a)) = Safe(Cell(value, b))
         \/ "csv" \in {a, b} /\ IsFalsy(Cell(value, a))
  <1>1. Safe(Safe(value)) = Safe(value)
    BY DEF Safe, Is
  <1>2. CASE IsFalsy(value)
    <2>1. Safe(value) = value /\ IsFalsy(Missing)
      <3>1. value.kind # "str"
        <4>1. Missing.kind = "none" /\ \A k, t : Is(k, t).kind = k
          BY DEF Missing, Is
        <4> QED
          BY <1>2, <4>1 DEF IsFalsy
      <3>2. value # Is("str", "=word")
        BY <3>1 DEF Is
      <3> QED
        BY <3>2 DEF IsFalsy, Safe
    <2>2. IsFalsy(Cell(value, a))
      BY <1>2, <2>1, ExportAssumption DEF Cell
    <2>3. CASE "csv" \in {a, b}
      BY <2>2, <2>3
    <2>4. CASE "csv" \notin {a, b}
      BY <1>1, <2>1, <2>4, ExportAssumption DEF Cell
    <2> QED
      BY <2>3, <2>4
  <1>3. CASE ~IsFalsy(value)
    <2>1. \A c \in Formats : Safe(Cell(value, c)) = Safe(value)
      BY <1>1, <1>3, ExportAssumption DEF Cell
    <2> QED
      BY <2>1
  <1> QED
    BY <1>2, <1>3

\* FormatsAgree: every format of a job shows the same rows, and those of the
\* default policy show every record.
THEOREM AllFormatsAgree == FlowSpec => []FormatsAgree
  <1>1. FlowInv => FormatsAgree
    <2> SUFFICES ASSUME FlowInv, NEW a \in DOMAIN files, NEW b \in DOMAIN files
                 PROVE  /\ policy = "ALL_RECORDS" => Len(files[a]) = Len(records)
                        /\ DOMAIN files[a] = DOMAIN files[b]
                        /\ \A i \in DOMAIN files[a], f \in Fields :
                               \/ Safe(files[a][i][f]) = Safe(files[b][i][f])
                               \/ "csv" \in {a, b} /\ IsFalsy(files[a][i][f])
      BY DEF FormatsAgree
    <2> DEFINE rows == Dataset(Stored, verdicts, policy)
               n == Cardinality(Chosen)
    <2>1. a \in Formats /\ b \in Formats
      BY DEF FlowInv, RecordsTypeOK
    <2>2. files[a] = File(rows, a) /\ files[b] = File(rows, b)
      BY DEF FlowInv, FilesInv
    <2>3. n \in Nat /\ DOMAIN rows = 1 .. n
      BY DatasetRows
    <2>4. ASSUME policy = "ALL_RECORDS" PROVE Len(files[a]) = Len(records)
      <3>1. stage = "EXPORTING"
        BY DEF FlowInv, VerdictsInv
      <3>2. Chosen = Stored
        BY <2>4, <3>1 DEF FlowInv, VerdictsInv, Chosen, Selected
      <3>3. n = Len(records)
        BY <3>2, StoredCounted
      <3> HIDE DEF rows, n
      <3> DEFINE cells(i) == [f \in Fields |-> Cell(rows[i][f], a)]
      <3>4. files[a] = [i \in 1 .. n |-> cells(i)]
        BY <2>2, <2>3 DEF File
      <3>5. Len(files[a]) = n
        <4> HIDE DEF cells
        <4> QED
          BY <2>3, <3>4
      <3> QED
        BY <3>3, <3>5
    <2> HIDE DEF rows, n
    <2>5. DOMAIN files[a] = DOMAIN rows /\ DOMAIN files[b] = DOMAIN rows
      BY <2>2 DEF File
    <2>6. ASSUME NEW i \in DOMAIN rows, NEW f \in Fields
          PROVE  /\ files[a][i][f] = Cell(rows[i][f], a)
                 /\ files[b][i][f] = Cell(rows[i][f], b)
      BY <2>2 DEF File
    <2> QED
      BY <2>1, <2>4, <2>5, <2>6, CellsAgree
  <1> QED
    BY <1>1, FlowInvariant, PTL

=============================================================================
