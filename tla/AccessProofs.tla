----------------------------- MODULE AccessProofs -----------------------------
(***************************************************************************)
(* For any number of hosts, requests, keys, rotations and failures: the    *)
(* window of a host stays within the limit, a published key is never       *)
(* called unknown, and a withdrawn one is of no use for long.              *)
(***************************************************************************)
EXTENDS AccessProperties, FiniteSetTheorems, SequenceTheorems, TLAPS

\* The deque of a host is the end of what was admitted; what was dropped has
\* left the window.
Dropped(h) == Len(admitted[h]) - Len(hits[h])

LimiterInv ==
    \A h \in Hosts :
        /\ Len(hits[h]) <= Len(admitted[h])
        /\ \A i \in DOMAIN hits[h] : hits[h][i] = admitted[h][Dropped(h) + i]
        /\ \A i \in 1..Dropped(h) : admitted[h][i] <= now - Window

\* One request fetches at a time, and only while the cache is of no use.
LockInv ==
    /\ \A r \in Requests : r \in Fetching <=> lock = r
    /\ Fetching # {} => ~Fresh

Distinct(line) == \A i, j \in DOMAIN line : line[i] = line[j] => i = j

\* What a request that has dropped the cache will find contains its key.
KnownInv ==
    /\ \A r \in Requests : call[r].phase = "look" => call[r].tries = 1
    /\ \A r \in Requests : call[r].steady => call[r].kid \in keys
    /\ \A r \in Requests :
        call[r].phase = "read" /\ call[r].steady => call[r].kid \in call[r].answer
    /\ \A r \in Requests :
        call[r].phase = "waiting" /\ call[r].tries = 2 /\ call[r].steady =>
            /\ jwks = None \/ call[r].kid \in jwks
            /\ \A q \in Requests : call[q].phase = "read" => call[r].kid \in call[q].answer

\* A key that is cached, or about to be, was published a known time ago.
TimeInv ==
    /\ expires <= now + CacheTime
    /\ \A r \in Fetching : call[r].since <= now /\ now <= call[r].since + FetchTime
    /\ \A r \in Requests : call[r].phase = "read" =>
        \A k \in call[r].answer : k \in keys \/ withdrawn[k] >= call[r].since
    /\ jwks = None \/ \A k \in jwks : k \in keys \/ withdrawn[k] + CacheTime + FetchTime >= expires

VerifierInv ==
    /\ AccessTypeOK
    /\ LockInv /\ Distinct(waiters) /\ KnownInv /\ TimeInv /\ PublishedKeyIsKnown

-----------------------------------------------------------------------------
(* The limiter *)

\* The elements of a sequence.
LEMMA Elements ==
  ASSUME NEW T, NEW s \in Seq(T)
  PROVE  Len(s) \in Nat /\ DOMAIN s = 1..Len(s) /\ \A i \in 1..Len(s) : s[i] \in T
  OBVIOUS

\* What is left after the head is a suffix.
LEMMA Suffix ==
  ASSUME NEW T, NEW s \in Seq(T), NEW n \in 0..Len(s)
  PROVE  /\ SubSeq(s, n + 1, Len(s)) \in Seq(T)
         /\ Len(SubSeq(s, n + 1, Len(s))) = Len(s) - n
         /\ \A i \in 1..(Len(s) - n) : SubSeq(s, n + 1, Len(s))[i] = s[n + i]
  <1> DEFINE rest == SubSeq(s, n + 1, Len(s))
             size == Len(s)
  <1>1. size \in Nat /\ size \in Int /\ n + 1 \in Int /\ n \in 0..size
        /\ \A i \in (n + 1)..size : s[i] \in T
    BY Elements
  <1>2. /\ rest \in Seq(T)
        /\ Len(rest) = IF n + 1 <= size THEN size - (n + 1) + 1 ELSE 0
        /\ \A i \in 1..(size - (n + 1) + 1) : rest[i] = s[n + 1 + i - 1]
    BY <1>1, SubSeqProperties
  <1> HIDE DEF rest, size
  <1>3. Len(rest) = size - n
    BY <1>1, <1>2
  <1>4. ASSUME NEW i \in 1..(size - n)
        PROVE  rest[i] = s[n + i]
    <2>1. i \in 1..(size - (n + 1) + 1) /\ n + 1 + i - 1 = n + i
      BY <1>1
    <2> QED
      BY <1>2, <2>1
  <1> QED
    BY <1>2, <1>3, <1>4 DEF rest, size

\* What the loop leaves is the end of what was admitted, and all the rest of it
\* has left the window.
LEMMA AfterDrops ==
  ASSUME LimiterTypeOK, LimiterInv, NEW h \in Hosts,
         NEW n \in 0..Len(hits[h]), Drops(h, n)
  PROVE  /\ Recent(h, n) \in Seq(0..MaxTime)
         /\ Len(Recent(h, n)) <= Len(admitted[h])
         /\ \A i \in DOMAIN Recent(h, n) :
                Recent(h, n)[i] = admitted[h][Len(admitted[h]) - Len(Recent(h, n)) + i]
         /\ \A i \in 1..(Len(admitted[h]) - Len(Recent(h, n))) : admitted[h][i] <= now - Window
  <1> DEFINE a == admitted[h]
             d == hits[h]
  <1>1. /\ a \in Seq(0..MaxTime) /\ d \in Seq(0..MaxTime)
        /\ Len(a) \in Nat /\ Len(d) \in Nat /\ Len(d) <= Len(a) /\ n \in Nat /\ n <= Len(d)
    BY DEF LimiterTypeOK, LimiterInv
  <1>2. /\ \A i \in DOMAIN d : d[i] = a[Len(a) - Len(d) + i]
        /\ \A i \in 1..(Len(a) - Len(d)) : a[i] <= now - Window
        /\ \A i \in 1..n : d[i] <= now - Window
    BY DEF LimiterInv, Dropped, Drops, Expired
  <1> DEFINE rest == Recent(h, n)
  <1> n \in 0..Len(d)
    OBVIOUS
  <1> HIDE DEF a, d
  <1>3. /\ rest \in Seq(0..MaxTime)
        /\ Len(rest) = Len(d) - n
        /\ \A i \in 1..(Len(d) - n) : rest[i] = d[n + i]
    BY <1>1, Suffix DEF Recent, d
  <1> HIDE DEF rest
  <1>4. ASSUME NEW i \in 1..(Len(a) - (Len(d) - n))
        PROVE  a[i] <= now - Window
    <2>1. CASE i <= Len(a) - Len(d)
      BY <1>1, <1>2, <2>1
    <2>2. CASE i > Len(a) - Len(d)
      <3>1. i - (Len(a) - Len(d)) \in 1..n /\ i - (Len(a) - Len(d)) \in DOMAIN d
            /\ Len(a) - Len(d) + (i - (Len(a) - Len(d))) = i
        BY <1>1, <2>2
      <3> QED
        BY <1>2, <3>1
    <2> QED
      BY <1>1, <2>1, <2>2
  <1>5. \A i \in 1..(Len(d) - n) : d[n + i] = a[Len(a) - (Len(d) - n) + i]
    BY <1>1, <1>2
  <1> QED
    <2>1. DOMAIN rest = 1..(Len(d) - n)
      BY <1>3, Elements
    <2>2. Len(a) - Len(rest) = Len(a) - (Len(d) - n) /\ Len(rest) <= Len(a)
      BY <1>1, <1>3
    <2>3. \A i \in DOMAIN rest : rest[i] = a[Len(a) - Len(rest) + i]
      BY <1>3, <1>5, <2>1, <2>2
    <2>4. \A i \in 1..(Len(a) - Len(rest)) : a[i] <= now - Window
      BY <1>4, <2>2
    <2> QED
      BY <1>3, <2>2, <2>3, <2>4 DEF a, rest

\* A refused request admits nothing and keeps the invariant of the limiter.
LEMMA RefuseKeeps ==
  ASSUME LimiterTypeOK, LimiterInv, WindowIsBounded, NEW h \in Hosts, Refuse(h)
  PROVE  LimiterTypeOK' /\ LimiterInv' /\ WindowIsBounded'
  <1>1. PICK n \in 0..Len(hits[h]) :
          Drops(h, n) /\ hits' = [hits EXCEPT ![h] = Recent(h, n)]
    BY DEF Refuse
  <1>2. now' = now /\ admitted' = admitted
    BY DEF Refuse
  <1> DEFINE rest == Recent(h, n)
  <1>3. /\ rest \in Seq(0..MaxTime) /\ Len(rest) <= Len(admitted[h])
        /\ \A i \in DOMAIN rest : rest[i] = admitted[h][Len(admitted[h]) - Len(rest) + i]
        /\ \A i \in 1..(Len(admitted[h]) - Len(rest)) : admitted[h][i] <= now - Window
    BY <1>1, AfterDrops
  <1>4. hits' = [hits EXCEPT ![h] = rest]
    BY <1>1
  <1> HIDE DEF rest
  <1>5. LimiterTypeOK'
    BY <1>2, <1>3, <1>4 DEF LimiterTypeOK
  <1>6. LimiterInv'
    BY <1>2, <1>3, <1>4 DEF LimiterInv, Dropped, LimiterTypeOK
  <1> QED
    BY <1>2, <1>5, <1>6 DEF WindowIsBounded, AdmittedUntil

\* The request itself is the last of a window that had room for it.
LEMMA AdmitKeeps ==
  ASSUME LimiterTypeOK, LimiterInv, WindowIsBounded, NEW h \in Hosts, Admit(h)
  PROVE  LimiterTypeOK' /\ LimiterInv' /\ WindowIsBounded'
  <1>1. PICK n \in 0..Len(hits[h]) :
          /\ Drops(h, n) /\ HasRoom(h, n)
          /\ hits' = [hits EXCEPT ![h] = Append(Recent(h, n), now)]
    BY DEF Admit
  <1> DEFINE rest == Recent(h, n)
             a == admitted[h]
             b == Append(a, now)
             d == Append(rest, now)
  <1>2. /\ rest \in Seq(0..MaxTime) /\ Len(rest) <= Len(a)
        /\ \A i \in DOMAIN rest : rest[i] = a[Len(a) - Len(rest) + i]
        /\ \A i \in 1..(Len(a) - Len(rest)) : a[i] <= now - Window
        /\ Len(rest) < Limit
    BY <1>1, AfterDrops DEF HasRoom
  <1>3. /\ now' = now /\ admitted' = [admitted EXCEPT ![h] = b]
        /\ hits' = [hits EXCEPT ![h] = d]
    BY <1>1 DEF Admit
  <1>4. /\ a \in Seq(0..MaxTime) /\ now \in 0..MaxTime /\ Len(a) \in Nat /\ Len(rest) \in Nat
        /\ hits \in [Hosts -> Seq(0..MaxTime)] /\ admitted \in [Hosts -> Seq(0..MaxTime)]
        /\ Limit \in Nat /\ Window \in Nat \ {0} /\ now \in Int
    BY <1>2, LimiterAssumption DEF LimiterTypeOK
  <1> HIDE DEF rest, a
  <1>5. /\ b \in Seq(0..MaxTime) /\ Len(b) = Len(a) + 1 /\ b[Len(a) + 1] = now
        /\ \A i \in 1..Len(a) : b[i] = a[i]
        /\ d \in Seq(0..MaxTime) /\ Len(d) = Len(rest) + 1 /\ d[Len(rest) + 1] = now
        /\ \A i \in 1..Len(rest) : d[i] = rest[i]
    BY <1>4, <1>2
  <1>5a. /\ DOMAIN a = 1..Len(a) /\ \A i \in 1..Len(a) : a[i] \in Int
         /\ DOMAIN rest = 1..Len(rest) /\ DOMAIN b = 1..(Len(a) + 1) /\ DOMAIN d = 1..(Len(rest) + 1)
    <2>1. DOMAIN a = 1..Len(a) /\ \A i \in 1..Len(a) : a[i] \in 0..MaxTime
      BY <1>4, Elements
    <2>2. DOMAIN rest = 1..Len(rest)
      BY <1>2, Elements
    <2>3. DOMAIN b = 1..(Len(a) + 1) /\ DOMAIN d = 1..(Len(rest) + 1)
      BY <1>5, Elements
    <2> QED
      BY <2>1, <2>2, <2>3
  <1> HIDE DEF b, d
  <1>6. LimiterTypeOK'
    BY <1>3, <1>4, <1>5 DEF LimiterTypeOK
  <1>7. LimiterInv'
    <2>1. /\ Len(d) <= Len(b)
          /\ \A i \in DOMAIN d : d[i] = b[Len(b) - Len(d) + i]
          /\ \A i \in 1..(Len(b) - Len(d)) : b[i] <= now - Window
      <3>1. Len(b) - Len(d) = Len(a) - Len(rest) /\ Len(d) <= Len(b)
        BY <1>2, <1>4, <1>5
      <3>2. ASSUME NEW i \in 1..(Len(rest) + 1)
            PROVE  d[i] = b[Len(a) - Len(rest) + i]
        <4>1. CASE i = Len(rest) + 1
          BY <1>4, <1>5, <4>1
        <4>2. CASE i # Len(rest) + 1
          <5>1. i \in 1..Len(rest) /\ Len(a) - Len(rest) + i \in 1..Len(a)
            BY <1>2, <1>4, <4>2
          <5> QED
            BY <1>2, <1>5, <1>5a, <5>1
        <4> QED
          BY <4>1, <4>2
      <3>3. ASSUME NEW i \in 1..(Len(a) - Len(rest))
            PROVE  b[i] <= now - Window
        <4>1. i \in 1..Len(a)
          BY <1>2, <1>4
        <4> QED
          BY <1>2, <1>5, <4>1
      <3> QED
        BY <1>5a, <3>1, <3>2, <3>3
    <2> QED
      BY <1>3, <1>4, <2>1 DEF LimiterInv, Dropped
  <1>8. ASSUME NEW t \in 0..MaxTime
        PROVE  Cardinality({i \in DOMAIN b : t - Window < b[i] /\ b[i] <= t}) <= Limit
    <2> DEFINE S == {i \in DOMAIN b : t - Window < b[i] /\ b[i] <= t}
    <2>1. CASE t < now
      <3>1. S = {i \in DOMAIN a : t - Window < a[i] /\ a[i] <= t}
        BY <1>4, <1>5, <1>5a, <2>1
      <3> QED
        BY <3>1 DEF WindowIsBounded, AdmittedUntil, a
    <2>2. CASE t >= now
      <3> DEFINE T == (Len(a) - Len(rest) + 1)..(Len(a) + 1)
      <3>1. S \subseteq T
        <4> SUFFICES ASSUME NEW i \in 1..(Len(a) + 1), t - Window < b[i], i <= Len(a) - Len(rest)
                     PROVE  FALSE
          BY <1>2, <1>4, <1>5a
        <4>1. i \in 1..Len(a) /\ i \in 1..(Len(a) - Len(rest))
          BY <1>2, <1>4
        <4>2. b[i] = a[i] /\ a[i] <= now - Window /\ a[i] \in Int
          BY <1>2, <1>5, <1>5a, <4>1
        <4> QED
          BY <1>4, <2>2, <4>2
      <3>2. IsFiniteSet(T) /\ Cardinality(T) = Len(rest) + 1
        BY <1>2, <1>4, FS_Interval
      <3> HIDE DEF S, T
      <3>3. Cardinality(S) <= Cardinality(T) /\ Cardinality(S) \in Nat
        BY <3>1, <3>2, FS_Subset, FS_CardinalityType
      <3>4. Cardinality(S) <= Limit
        BY <1>2, <1>4, <3>2, <3>3
      <3> QED
        BY <3>4 DEF S
    <2> QED
      BY <1>4, <2>1, <2>2
  <1>9. WindowIsBounded'
    <2>1. ASSUME NEW g \in Hosts, NEW t \in 0..MaxTime
          PROVE  Cardinality(AdmittedUntil(g, t)') <= Limit
      <3>1. CASE g = h
        BY <1>3, <1>4, <1>8, <3>1 DEF AdmittedUntil
      <3>2. CASE g # h
        BY <1>3, <3>2 DEF AdmittedUntil, WindowIsBounded
      <3> QED
        BY <3>1, <3>2
    <2> QED
      BY <2>1 DEF WindowIsBounded
  <1> QED
    BY <1>6, <1>7, <1>9

-----------------------------------------------------------------------------
(* The verifier: r leaves the line and the lock *)

Waiting(r) == {q \in Requests \ {r} : call[q].phase = "waiting"}

\* The others that wait, in order.
Line(r, line) == line \in Seq(Waiting(r)) /\ Distinct(line)

\* Nobody but r fetches.
Alone(r) == \A q \in Requests \ {r} : q \notin Fetching

\* The cache a step leaves holds what the others that wait need, and no key
\* that was withdrawn too long ago.
CacheKept(r) ==
    /\ expires' \in 0..(MaxTime + CacheTime) /\ expires' <= now + CacheTime
    /\ \/ jwks' = None
       \/ /\ jwks' \subseteq Kids
          /\ \A k \in jwks' : k \in keys \/ withdrawn[k] + CacheTime + FetchTime >= expires'
          /\ \A q \in Waiting(r) : call[q].tries = 2 /\ call[q].steady => call[q].kid \in jwks'

\* Only the call of r changes.
Local(r) ==
    /\ call' \in [Requests -> Call]
    /\ \A q \in Requests \ {r} : call'[q] = call[q]
    /\ call'[r].kid = call[r].kid

\* Who waits for the lock.
LEMMA LineTypes ==
  ASSUME NEW r \in Requests, NEW line, Line(r, line), Local(r)
  PROVE  line \in Seq({q \in Requests : call'[q].phase = "waiting"}) /\ Distinct(line)
  <1>1. Waiting(r) \subseteq {q \in Requests : call'[q].phase = "waiting"}
    BY DEF Waiting, Local
  <1> HIDE DEF Waiting
  <1> QED
    BY <1>1 DEF Line

\* The place of the other requests in line.
LEMMA OthersQueue ==
  ASSUME VerifierInv, NEW r \in Requests, call[r].phase # "waiting"
  PROVE  Line(r, waiters)
  <1>1. {q \in Requests : call[q].phase = "waiting"} = Waiting(r)
    BY DEF Waiting
  <1> QED
    BY <1>1 DEF VerifierInv, AccessTypeOK, Line

\* The lock goes to the head of the line.
LEMMA HeadOfQueue ==
  ASSUME VerifierInv, NEW r \in Requests, waiters # <<>>, r = Head(waiters)
  PROVE  call[r].phase = "waiting" /\ Line(r, Tail(waiters))
  <1> DEFINE W == {q \in Requests : call[q].phase = "waiting"}
             line == Tail(waiters)
  <1>1. waiters \in Seq(W) /\ Distinct(waiters)
    BY DEF VerifierInv, AccessTypeOK
  <1> HIDE DEF W
  <1>2. /\ r \in W /\ r = waiters[1] /\ line \in Seq(W)
        /\ Len(waiters) \in Nat \ {0} /\ Len(line) = Len(waiters) - 1
        /\ DOMAIN waiters = 1..Len(waiters) /\ DOMAIN line = 1..Len(line)
        /\ \A i \in 1..Len(line) : line[i] = waiters[i + 1] /\ line[i] \in W
    BY <1>1, HeadTailProperties
  <1> HIDE DEF line
  <1>3. \A i \in DOMAIN line : i + 1 \in DOMAIN waiters /\ 1 \in DOMAIN waiters
    BY <1>2
  <1>4. Distinct(line)
    BY <1>1, <1>2, <1>3 DEF Distinct
  <1>5. \A i \in 1..Len(line) : line[i] \in W \ {r}
    BY <1>1, <1>2, <1>3 DEF Distinct
  <1>6. line \in Seq(W \ {r})
    BY <1>2, <1>5
  <1>7. W \ {r} = Waiting(r)
    BY DEF W, Waiting
  <1> QED
    BY <1>2, <1>4, <1>6, <1>7 DEF Line, line, W

\* r has its verdict.
LEMMA EndKeeps ==
  ASSUME VerifierInv, NEW r \in Requests, NEW verdict \in Verdict, NEW line,
         Line(r, line), Alone(r), End(r, verdict, None, line),
         verdict = "unknown" => ~call[r].steady, CacheKept(r),
         UNCHANGED <<limiterVars, keys, withdrawn, rotations>>, failures' \in 0..MaxFailures
  PROVE  VerifierInv'
  <1> USE DEF VerifierInv
  <1>0. call \in [Requests -> Call] /\ call[r] \in Call /\ now \in 0..MaxTime /\ MaxTime \in Nat
    BY LimiterAssumption DEF AccessTypeOK, LimiterTypeOK
  <1>1. call[r].steady \in BOOLEAN /\ 0 \in 0..MaxTime /\ {} \in SUBSET Kids
        /\ verdict \in {"idle", "look", "waiting", "asking", "read"} \cup Verdict
    BY <1>0 DEF Call
  <1>2. lock' = None /\ waiters' = line
    BY DEF End
  <1>3. call' = [call EXCEPT ![r].phase = verdict, ![r].answer = {}, ![r].since = 0,
                                ![r].steady = FALSE]
    <2>1. CASE verdict = "unknown"
      <3> DEFINE steady == call[r].steady
      <3>1. steady = FALSE
        BY <1>1, <2>1
      <3>2. call' = [call EXCEPT ![r].phase = verdict, ![r].answer = {}, ![r].since = 0,
                                    ![r].steady = steady]
        BY <2>1 DEF End
      <3> HIDE DEF steady
      <3> QED
        BY <3>1, <3>2
    <2>2. CASE verdict # "unknown"
      BY <2>2 DEF End
    <2> QED
      BY <2>1, <2>2
  <1>4. [call[r] EXCEPT !.phase = verdict, !.answer = {}, !.since = 0, !.steady = FALSE] \in Call
    BY <1>0, <1>1 DEF Call
  <1>5. /\ call' \in [Requests -> Call]
        /\ call'[r].phase = verdict /\ call'[r].kid = call[r].kid /\ call'[r].steady = FALSE
        /\ \A q \in Requests \ {r} : call'[q] = call[q]
    BY <1>0, <1>3, <1>4
  <1>6. Local(r)
    BY <1>5 DEF Local
  <1>7. Fetching' = {}
    BY <1>5 DEF Alone, Fetching, Verdict
  <1>8. AccessTypeOK'
    <2>1. waiters' \in Seq({q \in Requests : call'[q].phase = "waiting"})
      BY <1>2, <1>6, LineTypes
    <2> QED
      BY <1>2, <1>5, <2>1 DEF AccessTypeOK, CacheKept, LimiterTypeOK, limiterVars
  <1>9. LockInv' /\ Distinct(waiters')
    BY <1>2, <1>6, <1>7, LineTypes, VerifierAssumption DEF LockInv
  <1>10. KnownInv'
    BY <1>5, <1>7 DEF KnownInv, CacheKept, Waiting, Verdict, Fetching
  <1>11. TimeInv'
    BY <1>5, <1>7 DEF TimeInv, CacheKept, Verdict, Fetching, limiterVars
  <1>12. PublishedKeyIsKnown'
    BY <1>5 DEF PublishedKeyIsKnown
  <1> QED
    BY <1>8, <1>9, <1>10, <1>11, <1>12

\* r takes the lock, and begins to fetch.
LEMMA AskKeeps ==
  ASSUME VerifierInv, NEW r \in Requests, NEW tries \in 1..2, NEW line,
         Line(r, line), Alone(r), lock' = r, waiters' = line,
         call' = [call EXCEPT ![r].phase = "asking", ![r].tries = tries, ![r].since = now],
         CacheKept(r), ~Fresh', call[r].phase # "unknown",
         UNCHANGED <<limiterVars, providerVars>>
  PROVE  VerifierInv'
  <1> USE DEF VerifierInv
  <1>0. call \in [Requests -> Call] /\ call[r] \in Call /\ now \in 0..MaxTime /\ now \in Nat
        /\ FetchTime \in Nat
    BY LimiterAssumption, VerifierAssumption DEF AccessTypeOK, LimiterTypeOK
  <1>1. /\ call' \in [Requests -> Call]
        /\ call'[r].phase = "asking" /\ call'[r].kid = call[r].kid
        /\ call'[r].steady = call[r].steady /\ call'[r].since = now
        /\ \A q \in Requests \ {r} : call'[q] = call[q]
    BY <1>0 DEF Call
  <1>2. Local(r)
    BY <1>1 DEF Local
  <1>3. Fetching' = {r}
    BY <1>1 DEF Alone, Fetching
  <1>4. AccessTypeOK'
    <2>1. waiters' \in Seq({q \in Requests : call'[q].phase = "waiting"})
      BY <1>2, LineTypes
    <2> QED
      BY <1>1, <1>3, <2>1 DEF AccessTypeOK, CacheKept, LimiterTypeOK, limiterVars, providerVars
  <1>5. LockInv' /\ Distinct(waiters')
    BY <1>2, <1>3, LineTypes DEF LockInv
  <1>6. KnownInv'
    BY <1>1, <1>3 DEF KnownInv, CacheKept, Waiting, Fetching, providerVars
  <1>7. TimeInv'
    BY <1>0, <1>1, <1>3 DEF TimeInv, CacheKept, Fetching, providerVars, limiterVars
  <1>8. PublishedKeyIsKnown'
    BY <1>1 DEF PublishedKeyIsKnown
  <1> QED
    BY <1>4, <1>5, <1>6, <1>7, <1>8

\* r joins the line; on its second try nobody is fetching.
LEMMA WaitKeeps ==
  ASSUME VerifierInv, NEW r \in Requests, NEW tries \in 1..2, NEW holder, NEW line,
         Line(r, line), holder = None \/ holder \in Requests \ {r},
         \A q \in Requests \ {r} : q \in Fetching <=> holder = q,
         lock' = holder, waiters' = Append(line, r),
         call' = [call EXCEPT ![r].phase = "waiting", ![r].tries = tries],
         CacheKept(r), holder # None => ~Fresh',
         tries = 2 /\ call[r].steady => holder = None /\ jwks' = None,
         UNCHANGED <<limiterVars, providerVars>>
  PROVE  VerifierInv'
  <1> USE DEF VerifierInv
  <1>0. call \in [Requests -> Call] /\ call[r] \in Call
    BY DEF AccessTypeOK
  <1>1. /\ call' \in [Requests -> Call]
        /\ call'[r].phase = "waiting" /\ call'[r].kid = call[r].kid
        /\ call'[r].steady = call[r].steady /\ call'[r].tries = tries
        /\ \A q \in Requests \ {r} : call'[q] = call[q]
    BY <1>0 DEF Call
  <1>2. Local(r)
    BY <1>1 DEF Local
  <1>3. \A q \in Requests : q \in Fetching' <=> holder = q
    BY <1>1, VerifierAssumption DEF Fetching
  <1>4. /\ Append(line, r) \in Seq({q \in Requests : call'[q].phase = "waiting"})
        /\ Distinct(Append(line, r))
    <2> DEFINE W == {q \in Requests : call'[q].phase = "waiting"}
    <2>1. line \in Seq(W) /\ r \in W /\ line \in Seq(Waiting(r)) /\ Distinct(line)
      BY <1>1, <1>2, LineTypes DEF Line
    <2>2. /\ Len(line) \in Nat /\ DOMAIN line = 1..Len(line)
          /\ \A i \in 1..Len(line) : line[i] \in Waiting(r)
      BY <2>1, Elements
    <2>3. \A i \in 1..Len(line) : line[i] # r
      BY <2>2 DEF Waiting
    <2> HIDE DEF W
    <2>4. /\ Append(line, r) \in Seq(W)
          /\ DOMAIN Append(line, r) = 1..(Len(line) + 1)
          /\ \A i \in 1..Len(line) : Append(line, r)[i] = line[i]
          /\ Append(line, r)[Len(line) + 1] = r
      BY <2>1, AppendProperties
    <2>5. ASSUME NEW i \in 1..(Len(line) + 1), NEW j \in 1..(Len(line) + 1),
                 Append(line, r)[i] = Append(line, r)[j]
          PROVE  i = j
      <3>1. CASE i \in 1..Len(line) /\ j \in 1..Len(line)
        BY <2>1, <2>2, <2>4, <2>5, <3>1 DEF Distinct
      <3>2. CASE i = Len(line) + 1 \/ j = Len(line) + 1
        BY <2>2, <2>3, <2>4, <2>5, <3>2
      <3> QED
        BY <2>2, <3>1, <3>2
    <2> QED
      BY <2>4, <2>5 DEF Distinct, W
  <1>5. AccessTypeOK'
    BY <1>1, <1>3, <1>4 DEF AccessTypeOK, CacheKept, LimiterTypeOK, limiterVars, providerVars
  <1>6. LockInv'
    <2>1. Fetching' # {} => holder # None
      BY <1>3, VerifierAssumption DEF Fetching
    <2> QED
      BY <1>3, <2>1 DEF LockInv
  <1>7. KnownInv'
    <2>1. ASSUME NEW q \in Requests, call'[q].phase = "waiting", call'[q].tries = 2,
                 call'[q].steady
          PROVE  /\ jwks' = None \/ call'[q].kid \in jwks'
                 /\ \A p \in Requests : call'[p].phase = "read" => call'[q].kid \in call'[p].answer
      <3>1. CASE q = r
        BY <1>1, <1>3, <2>1, <3>1, VerifierAssumption DEF Fetching
      <3>2. CASE q # r
        BY <1>1, <2>1, <3>2 DEF KnownInv, CacheKept, Waiting
      <3> QED
        BY <3>1, <3>2
    <2> QED
      BY <1>1, <2>1 DEF KnownInv, providerVars
  <1>8. TimeInv'
    BY <1>1 DEF TimeInv, CacheKept, Fetching, providerVars, limiterVars
  <1>9. PublishedKeyIsKnown'
    BY <1>1 DEF PublishedKeyIsKnown
  <1> QED
    BY <1>4, <1>5, <1>6, <1>7, <1>8, <1>9

\* Taking the lock keeps the invariant of the verifier.
LEMMA AcquireKeeps ==
  ASSUME VerifierInv, NEW r \in Requests, NEW tries \in 1..2, NEW holder, NEW line,
         Line(r, line), holder = None \/ holder \in Requests \ {r},
         \A q \in Requests \ {r} : q \in Fetching <=> holder = q,
         Acquire(r, tries, holder, line), call[r].phase # "unknown",
         CacheKept(r), ~Fresh',
         tries = 2 /\ call[r].steady => holder = None /\ jwks' = None,
         UNCHANGED <<limiterVars, providerVars>>
  PROVE  VerifierInv'
  <1>1. CASE holder = None /\ line = <<>>
    <2>1. Alone(r)
      BY <1>1, VerifierAssumption DEF Alone
    <2> QED
      BY <1>1, <2>1, AskKeeps DEF Acquire
  <1>2. CASE ~(holder = None /\ line = <<>>)
    <2>1. /\ lock' = holder /\ waiters' = Append(line, r)
          /\ call' = [call EXCEPT ![r].phase = "waiting", ![r].tries = tries]
      BY <1>2 DEF Acquire
    <2> QED
      BY <2>1, WaitKeeps
  <1> QED
    BY <1>1, <1>2

\* r has a key set that is fresh, or just fetched.
LEMMA ConsiderKeeps ==
  ASSUME VerifierInv, NEW r \in Requests, NEW known, NEW line,
         known \subseteq Kids, Line(r, line), Alone(r),
         Consider(r, known, None, line), call[r].phase # "unknown",
         expires' \in 0..(MaxTime + CacheTime) /\ expires' <= now + CacheTime,
         \A k \in known : k \in keys \/ withdrawn[k] + CacheTime + FetchTime >= expires',
         \A q \in Waiting(r) : call[q].tries = 2 /\ call[q].steady => call[q].kid \in known,
         call[r].tries = 2 /\ call[r].steady => call[r].kid \in known,
         UNCHANGED <<limiterVars, providerVars>>
  PROVE  VerifierInv'
  <1>1. CASE jwks' = known /\ \E verdict \in {"accepted", "unknown"} :
               /\ End(r, verdict, None, line)
               /\ verdict = "unknown" => ~call[r].steady
    <2>1. CacheKept(r)
      BY <1>1 DEF CacheKept
    <2>2. UNCHANGED <<limiterVars, keys, withdrawn, rotations>> /\ failures' \in 0..MaxFailures
      BY DEF VerifierInv, AccessTypeOK, providerVars
    <2> QED
      BY <1>1, <2>1, <2>2, EndKeeps DEF Verdict
  <1>2. CASE jwks' = None /\ Acquire(r, 2, None, line)
    <2>1. CacheKept(r) /\ ~Fresh'
      BY <1>2 DEF CacheKept, Fresh
    <2>2. \A q \in Requests \ {r} : q \in Fetching <=> None = q
      BY VerifierAssumption DEF Alone
    <2> QED
      BY <1>2, <2>1, <2>2, AcquireKeeps
  <1> QED
    BY <1>1, <1>2 DEF Consider, LastTry

-----------------------------------------------------------------------------
(* The steps of a verification *)

\* A step that leaves the cache alone keeps what the other requests know of it.
LEMMA SameCache ==
  ASSUME VerifierInv, NEW r \in Requests, jwks' = jwks, expires' = expires
  PROVE  CacheKept(r)
  BY DEF VerifierInv, AccessTypeOK, KnownInv, TimeInv, CacheKept, Waiting

\* A fresh cache is one nobody is fetching, so it has what the line needs.
LEMMA FreshKeeps ==
  ASSUME VerifierInv, Fresh, NEW r \in Requests, NEW line, Line(r, line),
         Consider(r, jwks, None, line), call[r].phase \in {"look", "waiting"},
         UNCHANGED <<limiterVars, providerVars, expires>>
  PROVE  VerifierInv'
  <1>1. Alone(r)
    BY DEF VerifierInv, LockInv, Alone
  <1>2. /\ jwks \subseteq Kids
        /\ expires \in 0..(MaxTime + CacheTime) /\ expires <= now + CacheTime
        /\ \A k \in jwks : k \in keys \/ withdrawn[k] + CacheTime + FetchTime >= expires
        /\ \A q \in Waiting(r) : call[q].tries = 2 /\ call[q].steady => call[q].kid \in jwks
    BY DEF VerifierInv, AccessTypeOK, KnownInv, TimeInv, Waiting, Fresh
  <1>3. call[r].tries = 2 /\ call[r].steady => call[r].kid \in jwks
    BY DEF VerifierInv, KnownInv, Fresh
  <1> QED
    BY <1>1, <1>2, <1>3, ConsiderKeeps

\* A look at the cache keeps the invariant of the verifier.
LEMMA LookKeeps ==
  ASSUME VerifierInv, NEW r \in Requests, Look(r)
  PROVE  VerifierInv'
  <1>0. call[r].phase = "look" /\ Line(r, waiters)
    BY OthersQueue DEF Look
  <1>1. CASE Fresh
    <2>1. lock = None
      BY <1>1 DEF VerifierInv, AccessTypeOK, LockInv
    <2> QED
      BY <1>0, <1>1, <2>1, FreshKeeps DEF Look
  <1>2. CASE ~Fresh
    <2>1. /\ Acquire(r, 1, lock, waiters) /\ jwks' = jwks /\ expires' = expires /\ now' = now
          /\ UNCHANGED <<limiterVars, providerVars>>
      BY <1>2 DEF Look, limiterVars
    <2>2. CacheKept(r) /\ ~Fresh'
      BY <1>2, <2>1, SameCache DEF Fresh
    <2>3. r \notin Fetching
      BY <1>0 DEF Fetching
    <2>4. lock = None \/ lock \in Requests \ {r}
      BY <2>3 DEF VerifierInv, AccessTypeOK, Fetching
    <2>5. \A q \in Requests \ {r} : q \in Fetching <=> lock = q
      BY DEF VerifierInv, LockInv
    <2> QED
      BY <1>0, <2>1, <2>2, <2>4, <2>5, AcquireKeeps
  <1> QED
    BY <1>1, <1>2

\* So does the lock being granted.
LEMMA GrantedKeeps ==
  ASSUME VerifierInv, NEW r \in Requests, Granted(r)
  PROVE  VerifierInv'
  <1>0. call[r].phase = "waiting" /\ Line(r, Tail(waiters))
    BY HeadOfQueue DEF Granted
  <1>1. CASE Fresh
    BY <1>0, <1>1, FreshKeeps DEF Granted
  <1>2. CASE ~Fresh
    <2>1. /\ lock = None /\ lock' = r /\ waiters' = Tail(waiters)
          /\ call' = [call EXCEPT ![r].phase = "asking", ![r].since = now]
          /\ jwks' = jwks /\ expires' = expires /\ now' = now
          /\ UNCHANGED <<limiterVars, providerVars>>
      BY <1>2 DEF Granted, limiterVars
    <2>2. CacheKept(r) /\ ~Fresh'
      BY <1>2, <2>1, SameCache DEF Fresh
    <2>3. Alone(r)
      BY <2>1, VerifierAssumption DEF VerifierInv, LockInv, Alone
    <2>4. call \in [Requests -> Call] /\ call[r].tries \in 1..2
      BY DEF VerifierInv, AccessTypeOK, Call
    <2>5. call' = [call EXCEPT ![r].phase = "asking", ![r].tries = call[r].tries, ![r].since = now]
      BY <2>1, <2>4 DEF Call
    <2> QED
      BY <1>0, <2>1, <2>2, <2>3, <2>4, <2>5, AskKeeps
  <1> QED
    BY <1>1, <1>2

\* A key that has been published all along is in the answer.
LEMMA ReadKeysKeeps ==
  ASSUME VerifierInv, NEW r \in Requests, ReadKeys(r)
  PROVE  VerifierInv'
  <1> USE DEF VerifierInv
  <1>0. call \in [Requests -> Call] /\ call[r] \in Call /\ keys \in SUBSET Kids
    BY DEF AccessTypeOK
  <1>1. /\ call' \in [Requests -> Call] /\ call[r].phase = "asking"
        /\ call'[r].phase = "read" /\ call'[r].answer = keys
        /\ call'[r].kid = call[r].kid /\ call'[r].steady = call[r].steady
        /\ call'[r].since = call[r].since
        /\ \A q \in Requests \ {r} : call'[q] = call[q]
    BY <1>0 DEF ReadKeys, Call
  <1>2. /\ UNCHANGED <<limiterVars, providerVars, jwks, expires, lock, waiters>>
        /\ now' = now
    BY DEF ReadKeys, limiterVars
  <1>3. Fetching' = Fetching
    BY <1>1 DEF Fetching
  <1>4. {q \in Requests : call'[q].phase = "waiting"} = {q \in Requests : call[q].phase = "waiting"}
    BY <1>1
  <1>5. AccessTypeOK'
    BY <1>1, <1>2, <1>3, <1>4 DEF AccessTypeOK, LimiterTypeOK, limiterVars, providerVars
  <1>6. LockInv' /\ Distinct(waiters')
    BY <1>2, <1>3 DEF LockInv, Fresh
  <1>7. KnownInv'
    BY <1>1, <1>2 DEF KnownInv, providerVars
  <1>8. TimeInv'
    BY <1>1, <1>2, <1>3 DEF TimeInv, providerVars, Fetching
  <1>9. PublishedKeyIsKnown'
    BY <1>1 DEF PublishedKeyIsKnown
  <1> QED
    BY <1>5, <1>6, <1>7, <1>8, <1>9

\* So does a fetch.
LEMMA FetchedKeeps ==
  ASSUME VerifierInv, NEW r \in Requests, Fetched(r)
  PROVE  VerifierInv'
  <1>0. /\ call[r].phase = "read" /\ expires' = now + CacheTime
        /\ Consider(r, call[r].answer, None, waiters)
        /\ UNCHANGED <<limiterVars, providerVars>>
    BY DEF Fetched
  <1>1. call \in [Requests -> Call] /\ call[r].answer \in SUBSET Kids
        /\ now \in 0..MaxTime /\ MaxTime \in Nat /\ CacheTime \in Nat /\ FetchTime \in Nat
        /\ call[r].since \in 0..MaxTime /\ withdrawn \in [Kids -> Int]
    BY LimiterAssumption, VerifierAssumption
       DEF VerifierInv, AccessTypeOK, LimiterTypeOK, Call
  <1>2. Alone(r)
    <2>1. r \in Fetching
      BY <1>0 DEF Fetching
    <2> QED
      BY <2>1 DEF VerifierInv, LockInv, Alone
  <1>3. expires' \in 0..(MaxTime + CacheTime) /\ expires' <= now + CacheTime
    BY <1>0, <1>1
  <1>4. ASSUME NEW k \in call[r].answer
        PROVE  k \in keys \/ withdrawn[k] + CacheTime + FetchTime >= expires'
    <2>1. k \in keys \/ withdrawn[k] >= call[r].since
      BY <1>0 DEF VerifierInv, TimeInv
    <2>2. now <= call[r].since + FetchTime /\ withdrawn[k] \in Int
      BY <1>0, <1>1 DEF VerifierInv, TimeInv, Fetching
    <2> QED
      BY <1>0, <1>1, <2>1, <2>2
  <1>5. \A q \in Waiting(r) :
          call[q].tries = 2 /\ call[q].steady => call[q].kid \in call[r].answer
    BY <1>0 DEF VerifierInv, KnownInv, Waiting
  <1>6. call[r].steady => call[r].kid \in call[r].answer
    BY <1>0 DEF VerifierInv, KnownInv
  <1> QED
    BY <1>0, <1>1, <1>2, <1>3, <1>4, <1>5, <1>6, OthersQueue, ConsiderKeeps

\* So does a failing fetch.
LEMMA FetchFailsKeeps ==
  ASSUME VerifierInv, NEW r \in Requests, FetchFails(r)
  PROVE  VerifierInv'
  <1>0. /\ r \in Fetching /\ call[r].phase # "waiting" /\ End(r, "unavailable", None, waiters)
        /\ jwks' = jwks /\ expires' = expires /\ failures' = failures + 1 /\ failures < MaxFailures
        /\ UNCHANGED <<limiterVars, keys, withdrawn, rotations>>
    BY DEF FetchFails, FreedLock, Fetching
  <1>1. failures' \in 0..MaxFailures
    BY <1>0, VerifierAssumption DEF VerifierInv, AccessTypeOK
  <1>2. Alone(r)
    BY <1>0 DEF VerifierInv, LockInv, Alone
  <1> QED
    BY <1>0, <1>1, <1>2, SameCache, OthersQueue, EndKeeps DEF Verdict

-----------------------------------------------------------------------------
(* Arrivals, rotations and time *)

\* So does a request that arrives.
LEMMA ArriveKeeps ==
  ASSUME VerifierInv, LimiterTypeOK', NEW r \in Requests, NEW kid \in Kids, Arrive(r, kid)
  PROVE  VerifierInv'
  <1> USE DEF VerifierInv
  <1>0. /\ call \in [Requests -> Call] /\ call[r].phase \notin {"look", "waiting", "asking", "read"}
        /\ now' = now /\ UNCHANGED <<providerVars, jwks, expires, lock, waiters>>
    BY DEF AccessTypeOK, Arrive, Admit, Refuse, Verdict
  <1>1. CASE UNCHANGED call
    BY <1>0, <1>1
       DEF AccessTypeOK, LockInv, KnownInv, TimeInv, PublishedKeyIsKnown, Fetching, Fresh,
           providerVars
  <1>2. CASE call' = [call EXCEPT ![r] = [phase |-> "look", kid |-> kid, tries |-> 1,
                                          answer |-> {}, since |-> 0, steady |-> kid \in keys]]
    <2> DEFINE steady == kid \in keys
    <2>1. steady \in BOOLEAN /\ (steady => kid \in keys) /\ 0 \in 0..MaxTime
      BY LimiterAssumption
    <2>2. call' = [call EXCEPT ![r] = [phase |-> "look", kid |-> kid, tries |-> 1,
                                       answer |-> {}, since |-> 0, steady |-> steady]]
      BY <1>2
    <2> HIDE DEF steady
    <2>3. /\ call' \in [Requests -> Call] /\ call'[r].phase = "look" /\ call'[r].kid = kid
          /\ call'[r].tries = 1 /\ call'[r].steady = steady
          /\ \A q \in Requests \ {r} : call'[q] = call[q]
      BY <1>0, <2>1, <2>2 DEF Call
    <2>4. Fetching' = Fetching
      BY <1>0, <2>3 DEF Fetching
    <2>5. {q \in Requests : call'[q].phase = "waiting"}
            = {q \in Requests : call[q].phase = "waiting"}
      BY <1>0, <2>3
    <2>6. AccessTypeOK'
      BY <1>0, <2>3, <2>4, <2>5 DEF AccessTypeOK, providerVars
    <2>7. LockInv' /\ Distinct(waiters')
      BY <1>0, <2>4 DEF LockInv, Fresh
    <2>8. KnownInv'
      BY <1>0, <2>1, <2>3 DEF KnownInv, providerVars
    <2>9. TimeInv'
      BY <1>0, <2>3, <2>4 DEF TimeInv, providerVars, Fetching
    <2>10. PublishedKeyIsKnown'
      BY <2>3 DEF PublishedKeyIsKnown
    <2> QED
      BY <2>6, <2>7, <2>8, <2>9, <2>10
  <1> QED
    BY <1>1, <1>2 DEF Arrive

\* So does a rotation of the keys.
LEMMA RotateKeeps ==
  ASSUME VerifierInv, NEW k \in Kids, Rotate(k)
  PROVE  VerifierInv'
  <1> USE DEF VerifierInv
  <1>0. /\ call \in [Requests -> Call] /\ withdrawn \in [Kids -> Int] /\ keys \subseteq Kids
        /\ now \in 0..MaxTime /\ rotations \in 0..MaxRotations /\ MaxRotations \in Nat
        /\ expires \in 0..(MaxTime + CacheTime)
        /\ CacheTime \in Nat /\ FetchTime \in Nat /\ MaxTime \in Nat
        /\ \A r \in Requests : call[r].since \in Int
    BY LimiterAssumption, VerifierAssumption DEF AccessTypeOK, LimiterTypeOK, Call
  <1>1. /\ keys' = (IF k \in keys THEN keys \ {k} ELSE keys \cup {k})
        /\ withdrawn' = (IF k \in keys THEN [withdrawn EXCEPT ![k] = now] ELSE withdrawn)
        /\ call' = [r \in Requests |->
                      IF call[r].kid = k THEN [call[r] EXCEPT !.steady = FALSE] ELSE call[r]]
        /\ now' = now /\ rotations' = rotations + 1 /\ rotations < MaxRotations
        /\ UNCHANGED <<limiterVars, failures, jwks, expires, lock, waiters>>
    BY DEF Rotate, limiterVars
  <1>2. ASSUME NEW r \in Requests
        PROVE  /\ call'[r] \in Call
               /\ call'[r].phase = call[r].phase /\ call'[r].kid = call[r].kid
               /\ call'[r].tries = call[r].tries /\ call'[r].answer = call[r].answer
               /\ call'[r].since = call[r].since
               /\ call'[r].steady => call[r].steady /\ call[r].kid # k
    BY <1>0, <1>1 DEF Call
  <1>3. call' \in [Requests -> Call]
    BY <1>1, <1>2
  <1>4. Fetching' = Fetching
    BY <1>2 DEF Fetching
  <1>5. {q \in Requests : call'[q].phase = "waiting"} = {q \in Requests : call[q].phase = "waiting"}
    BY <1>2
  <1>6. AccessTypeOK'
    <2>1. keys' \subseteq Kids /\ withdrawn' \in [Kids -> Int] /\ rotations' \in 0..MaxRotations
      BY <1>0, <1>1
    <2> QED
      BY <1>1, <1>3, <1>4, <1>5, <2>1 DEF AccessTypeOK, LimiterTypeOK, limiterVars
  <1>7. LockInv' /\ Distinct(waiters')
    BY <1>1, <1>4 DEF LockInv, Fresh
  <1>8. KnownInv'
    BY <1>1, <1>2 DEF KnownInv
  <1>9. ASSUME NEW i \in Kids, NEW since \in Int, since <= now, i \in keys \/ withdrawn[i] >= since
        PROVE  i \in keys' \/ withdrawn'[i] >= since
    BY <1>0, <1>1, <1>9
  <1>10. TimeInv'
    <2>1. \A r \in Fetching' : call'[r].since <= now' /\ now' <= call'[r].since + FetchTime
      BY <1>1, <1>2, <1>4 DEF TimeInv, Fetching
    <2>2. ASSUME NEW r \in Requests, call'[r].phase = "read", NEW i \in call'[r].answer
          PROVE  i \in keys' \/ withdrawn'[i] >= call'[r].since
      <3>1. i \in Kids /\ r \in Fetching /\ call[r].phase = "read" /\ i \in call[r].answer
        BY <1>0, <1>2, <2>2 DEF Call, Fetching
      <3>2. call[r].since <= now /\ (i \in keys \/ withdrawn[i] >= call[r].since)
        BY <3>1 DEF TimeInv
      <3> QED
        BY <1>0, <1>2, <1>9, <3>1, <3>2
    <2>3. ASSUME jwks # None, NEW i \in jwks
          PROVE  i \in keys' \/ withdrawn'[i] + CacheTime + FetchTime >= expires
      <3> DEFINE since == expires - CacheTime - FetchTime
      <3>1. since \in Int /\ since <= now /\ i \in Kids
        BY <1>0, <2>3 DEF TimeInv, AccessTypeOK
      <3>2. i \in keys \/ withdrawn[i] >= since
        BY <1>0, <2>3, <3>1 DEF TimeInv
      <3>3. withdrawn'[i] \in Int
        BY <1>0, <1>1, <3>1
      <3>4. i \in keys' \/ withdrawn'[i] >= since
        BY <1>9, <3>1, <3>2
      <3> QED
        BY <1>0, <3>3, <3>4
    <2> QED
      BY <1>1, <2>1, <2>2, <2>3 DEF TimeInv
  <1>11. PublishedKeyIsKnown'
    BY <1>2 DEF PublishedKeyIsKnown
  <1> QED
    BY <1>6, <1>7, <1>8, <1>10, <1>11

\* Time passes; a fetch does not outlive its timeout.
LEMMA TickKeeps ==
  ASSUME VerifierInv, LimiterInv, WindowIsBounded, Tick
  PROVE  VerifierInv' /\ LimiterInv' /\ WindowIsBounded'
  <1> USE DEF VerifierInv
  <1>0. /\ now \in 0..MaxTime /\ MaxTime \in Nat /\ now' = now + 1 /\ now < MaxTime
        /\ UNCHANGED <<hits, admitted, providerVars, verifierVars>>
        /\ \A r \in Fetching : now - call[r].since < FetchTime
        /\ \A r \in Requests : call[r].since \in Int
        /\ FetchTime \in Nat /\ CacheTime \in Nat /\ Window \in Nat /\ expires \in Int
    BY LimiterAssumption, VerifierAssumption DEF Tick, AccessTypeOK, LimiterTypeOK, Call
  <1>1. AccessTypeOK'
    BY <1>0 DEF AccessTypeOK, LimiterTypeOK, providerVars, verifierVars, Fetching
  <1>2. LockInv' /\ Distinct(waiters')
    BY <1>0 DEF LockInv, Fetching, Fresh, verifierVars
  <1>3. KnownInv' /\ PublishedKeyIsKnown'
    BY <1>0 DEF KnownInv, PublishedKeyIsKnown, providerVars, verifierVars
  <1>4. TimeInv'
    BY <1>0 DEF TimeInv, Fetching, providerVars, verifierVars
  <1>5. WindowIsBounded'
    BY <1>0 DEF WindowIsBounded, AdmittedUntil
  <1>6. LimiterInv'
    <2>1. ASSUME NEW h \in Hosts, NEW i \in 1..Dropped(h), admitted[h][i] <= now - Window
          PROVE  admitted[h][i] <= now + 1 - Window
      <3>1. /\ admitted[h] \in Seq(0..MaxTime) /\ hits[h] \in Seq(0..MaxTime)
            /\ Len(admitted[h]) \in Nat /\ Len(hits[h]) \in Nat
        BY DEF AccessTypeOK, LimiterTypeOK
      <3>2. admitted[h][i] \in 0..MaxTime
        <4>1. i \in 1..Len(admitted[h])
          BY <3>1 DEF Dropped
        <4> QED
          BY <3>1, <4>1, Elements
      <3> QED
        BY <1>0, <2>1, <3>2
    <2> QED
      BY <1>0, <2>1 DEF LimiterInv, Dropped
  <1> QED
    BY <1>1, <1>2, <1>3, <1>4, <1>5, <1>6

-----------------------------------------------------------------------------
(* The inductive invariant *)

AccessInv == VerifierInv /\ LimiterInv /\ WindowIsBounded

\* AccessInv holds in the beginning.
LEMMA AccessInitInv == AccessInit => AccessInv
  <1> SUFFICES ASSUME AccessInit PROVE AccessInv
    OBVIOUS
  <1> USE DEF AccessInit, LimiterInit
  <1>0. /\ (CHOOSE k \in Kids : TRUE) \in Kids
        /\ MaxTime \in Nat /\ CacheTime \in Nat \ {0}
        /\ FetchTime \in Nat /\ Limit \in Nat /\ MaxRotations \in Nat /\ MaxFailures \in Nat
        /\ None \notin Requests
    BY LimiterAssumption, VerifierAssumption
  <1>1. call \in [Requests -> Call] /\ Fetching = {}
        /\ \A r \in Requests : call[r].phase = "idle" /\ call[r].steady = FALSE
    BY <1>0 DEF Call, Verdict, Fetching
  <1>2. AccessTypeOK
    BY <1>0, <1>1 DEF AccessTypeOK, LimiterTypeOK
  <1>3. LockInv /\ Distinct(waiters)
    BY <1>0, <1>1 DEF LockInv, Distinct
  <1>4. KnownInv /\ TimeInv /\ PublishedKeyIsKnown
    BY <1>0, <1>1 DEF KnownInv, TimeInv, PublishedKeyIsKnown
  <1>5. LimiterInv
    BY DEF LimiterInv, Dropped
  <1>6. WindowIsBounded
    <2>1. ASSUME NEW h \in Hosts, NEW t \in 0..MaxTime
          PROVE  Cardinality(AdmittedUntil(h, t)) <= Limit
      <3>1. AdmittedUntil(h, t) = {}
        BY DEF AdmittedUntil
      <3> QED
        BY <1>0, <3>1, FS_EmptySet
    <2> QED
      BY <2>1 DEF WindowIsBounded
  <1> QED
    BY <1>2, <1>3, <1>4, <1>5, <1>6 DEF AccessInv, VerifierInv

\* AccessInv is inductive.
LEMMA AccessNextInv == AccessInv /\ [AccessNext]_accessVars => AccessInv'
  <1> SUFFICES ASSUME AccessInv, [AccessNext]_accessVars PROVE AccessInv'
    OBVIOUS
  <1> USE DEF AccessInv
  <1>0. LimiterTypeOK
    BY DEF VerifierInv, AccessTypeOK
  <1>1. ASSUME UNCHANGED limiterVars
        PROVE  LimiterInv' /\ WindowIsBounded' /\ LimiterTypeOK'
    BY <1>0, <1>1 DEF limiterVars, LimiterInv, Dropped, WindowIsBounded, AdmittedUntil, LimiterTypeOK
  <1>2. ASSUME NEW r \in Requests, Verify(r) \/ FetchFails(r)
        PROVE  AccessInv'
    <2>1. UNCHANGED limiterVars
      BY <1>2 DEF Verify, Look, Granted, ReadKeys, Fetched, FetchFails
    <2> QED
      BY <1>1, <1>2, <2>1, LookKeeps, GrantedKeeps, ReadKeysKeeps, FetchedKeeps, FetchFailsKeeps
         DEF Verify
  <1>3. ASSUME NEW r \in Requests, NEW kid \in Kids, Arrive(r, kid)
        PROVE  AccessInv'
    <2>1. HostOf[r] \in Hosts /\ (Admit(HostOf[r]) \/ Refuse(HostOf[r]))
      BY <1>3, VerifierAssumption DEF Arrive
    <2>2. LimiterTypeOK' /\ LimiterInv' /\ WindowIsBounded'
      BY <1>0, <2>1, AdmitKeeps, RefuseKeeps
    <2> QED
      BY <1>3, <2>2, ArriveKeeps
  <1>4. ASSUME NEW k \in Kids, Rotate(k)
        PROVE  AccessInv'
    <2>1. UNCHANGED limiterVars
      BY <1>4 DEF Rotate
    <2> QED
      BY <1>1, <1>4, <2>1, RotateKeeps
  <1>5. CASE Tick
    BY <1>5, TickKeeps
  <1>6. CASE UNCHANGED accessVars
    BY <1>1, <1>6
       DEF accessVars, VerifierInv, AccessTypeOK, LimiterTypeOK, LockInv, KnownInv, TimeInv,
           PublishedKeyIsKnown, Fetching, Fresh, Distinct, limiterVars, providerVars, verifierVars
  <1> QED
    BY <1>2, <1>3, <1>4, <1>5, <1>6 DEF AccessNext

\* The strengthened invariant: a deque is the end of what was admitted, only the
\* holder of the lock fetches, and whoever asks again will find its key.
THEOREM AccessInvariant == AccessSpec => []AccessInv
  BY AccessInitInv, AccessNextInv, PTL DEF AccessSpec

\* Every variable of the limiter and the verifier keeps its type: among it, the
\* lock belongs to a request that fetches, and only waiting requests are in line.
THEOREM AccessTypeCorrect == AccessSpec => []AccessTypeOK
  BY AccessInvariant, PTL DEF AccessInv, VerifierInv

\* No window of a host, wherever it ends, holds more requests than the limit.
THEOREM WindowsAreBounded == AccessSpec => []WindowIsBounded
  BY AccessInvariant, PTL DEF AccessInv

\* A token whose key has been published all along is never called unknown.
THEOREM PublishedKeysAreKnown == AccessSpec => []PublishedKeyIsKnown
  BY AccessInvariant, PTL DEF AccessInv, VerifierInv

\* Only a request that considers a set with its key is accepted.
LEMMA Accepting ==
  ASSUME VerifierInv, NEW r \in Requests, [AccessNext]_accessVars,
         call[r].phase # "accepted", call'[r].phase = "accepted"
  PROVE  \/ (Look(r) \/ Granted(r)) /\ Fresh /\ call[r].kid \in jwks
         \/ Fetched(r) /\ call[r].kid \in call[r].answer
  <1>0. call \in [Requests -> Call]
    BY DEF VerifierInv, AccessTypeOK
  <1>1. ASSUME NEW q \in Requests, NEW known, NEW holder, NEW line,
               Consider(q, known, holder, line)
        PROVE  q = r /\ call[r].kid \in known
    <2>1. CASE \E verdict : End(q, verdict, holder, line) /\ verdict # "accepted"
      BY <1>0, <2>1 DEF End, Call
    <2>2. CASE Acquire(q, 2, holder, line)
      BY <1>0, <2>2 DEF Acquire, Call
    <2>3. CASE call[q].kid \in known /\ End(q, "accepted", holder, line)
      BY <1>0, <2>3 DEF End, Call
    <2> QED
      BY <1>1, <2>1, <2>2, <2>3 DEF Consider
  <1>2. ASSUME NEW q \in Requests, Verify(q)
        PROVE  \/ (Look(r) \/ Granted(r)) /\ Fresh /\ call[r].kid \in jwks
               \/ Fetched(r) /\ call[r].kid \in call[r].answer
    <2>1. CASE Look(q)
      <3>1. ~Acquire(q, 1, lock, waiters)
        BY <1>0 DEF Acquire, Call
      <3> QED
        BY <1>1, <2>1, <3>1 DEF Look
    <2>2. CASE Granted(q)
      <3>1. call' # [call EXCEPT ![q].phase = "asking", ![q].since = now]
        BY <1>0 DEF Call
      <3> QED
        BY <1>1, <2>2, <3>1 DEF Granted
    <2>3. CASE ReadKeys(q)
      BY <1>0, <2>3 DEF ReadKeys, Call
    <2>4. CASE Fetched(q)
      BY <1>1, <2>4 DEF Fetched
    <2> QED
      BY <1>2, <2>1, <2>2, <2>3, <2>4 DEF Verify
  <1>3. ASSUME NEW q \in Requests, FetchFails(q)
        PROVE  FALSE
    BY <1>0, <1>3 DEF FetchFails, End, Call
  <1>4. ASSUME NEW q \in Requests, NEW kid \in Kids, Arrive(q, kid)
        PROVE  FALSE
    BY <1>0, <1>4 DEF Arrive
  <1>5. ASSUME NEW k \in Kids, Rotate(k)
        PROVE  FALSE
    BY <1>0, <1>5 DEF Rotate, Call
  <1>6. CASE Tick \/ UNCHANGED accessVars
    BY <1>6 DEF Tick, accessVars, verifierVars
  <1> QED
    BY <1>2, <1>3, <1>4, <1>5, <1>6 DEF AccessNext

\* A key is accepted while it is published, and for the cache time and one fetch
\* after it was withdrawn.
THEOREM WithdrawnKeysExpire == AccessSpec => WithdrawnKeyExpires
  <1>1. ASSUME AccessInv, [AccessNext]_accessVars, NEW r \in Requests,
               call[r].phase # "accepted", call'[r].phase = "accepted"
        PROVE  call[r].kid \in keys \/ now - withdrawn[call[r].kid] < CacheTime + FetchTime
    <2> DEFINE k == call[r].kid
    <2>0. /\ call \in [Requests -> Call] /\ k \in Kids /\ withdrawn[k] \in Int
          /\ now \in Int /\ CacheTime \in Nat \ {0} /\ FetchTime \in Nat \ {0} /\ expires \in Int
          /\ call[r].since \in Int /\ VerifierInv
      BY <1>1, LimiterAssumption, VerifierAssumption
         DEF AccessInv, VerifierInv, AccessTypeOK, LimiterTypeOK, Call
    <2>1. CASE (Look(r) \/ Granted(r)) /\ Fresh /\ k \in jwks
      <3>1. now < expires /\ (k \in keys \/ withdrawn[k] + CacheTime + FetchTime >= expires)
        BY <2>0, <2>1 DEF VerifierInv, TimeInv, Fresh
      <3> QED
        BY <2>0, <3>1
    <2>2. CASE Fetched(r) /\ k \in call[r].answer
      <3>1. call[r].phase = "read" /\ now <= call[r].since + FetchTime
        BY <2>0, <2>2 DEF Fetched, VerifierInv, TimeInv, Fetching
      <3>2. k \in keys \/ withdrawn[k] >= call[r].since
        BY <2>0, <2>2, <3>1 DEF VerifierInv, TimeInv
      <3> QED
        BY <2>0, <3>1, <3>2
    <2> QED
      BY <1>1, <2>0, <2>1, <2>2, Accepting
  <1>2. AccessInv /\ [AccessNext]_accessVars =>
          [\A r \in Requests :
             call[r].phase # "accepted" /\ call'[r].phase = "accepted" =>
               call[r].kid \in keys \/ now - withdrawn[call[r].kid] < CacheTime + FetchTime]_accessVars
    BY <1>1
  <1> QED
    BY <1>2, AccessInvariant, PTL DEF AccessSpec, WithdrawnKeyExpires

=============================================================================
