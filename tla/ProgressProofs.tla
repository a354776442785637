---------------------------- MODULE ProgressProofs ----------------------------
(***************************************************************************)
(* For any number of transactions, clients, refreshes, events and broken   *)
(* connections: the event log has no gap and no repetition, and no client  *)
(* is sent an event out of order, twice, or with one left out before it.   *)
(***************************************************************************)
EXTENDS ProgressProperties, FiniteSetTheorems, TLAPS

\* The row's holder has numbered its events on from the committed ones, and
\* nobody else has written any.
DraftInv ==
    \A w \in Transactions :
        /\ row # w => draft[w] = NoDraft
        /\ \A i \in DOMAIN draft[w].events : draft[w].events[i] = Len(log) + i

\* A stream holds the events that come next for its client, and no others.
InStep(c) ==
    /\ Len(received[c]) + Len(stream[c].batch) <= Len(log)
    /\ \A i \in DOMAIN received[c] : received[c][i] = i
    /\ Connected(c) => stream[c].cursor = Len(received[c])
    /\ stream[c].phase \notin {"checking", "sending"} => stream[c].batch = <<>>
    /\ \A i \in DOMAIN stream[c].batch : stream[c].batch[i] = Len(received[c]) + i

ClientInv == \A c \in Clients : InStep(c)

ProgressInv == ProgressTypeOK /\ LogIsGapless /\ DraftInv /\ ClientInv

-----------------------------------------------------------------------------
(* Numbers and their order *)

\* MAX(sequence_no) of the events 1..n is n.
LEMMA HighestOfGapless ==
  ASSUME NEW s \in Seq(Nat), \A i \in DOMAIN s : s[i] = i
  PROVE  HighestNo(s) = Len(s)
  <1> DEFINE S == {0} \cup ToSet(s)
  <1>1. S = 0..Len(s)
    BY DEF ToSet
  <1>2. Len(s) \in S /\ \A y \in S : Len(s) >= y
    BY <1>1
  <1>3. \A x \in S : (\A y \in S : x >= y) => x = Len(s)
    BY <1>1, <1>2
  <1>4. Max(S) = Len(s)
    BY <1>2, <1>3 DEF Max
  <1> QED
    BY <1>4 DEF HighestNo

\* The numbers after c and up to n, in order.
LEMMA InOrderOfInterval ==
  ASSUME NEW c \in Nat, NEW n \in Nat
  PROVE  InOrder((c + 1)..n) = [i \in 1..(IF c < n THEN n - c ELSE 0) |-> c + i]
  <1> DEFINE S == (c + 1)..n
             size == IF c < n THEN n - c ELSE 0
  <1>1. Cardinality(S) = size
    BY FS_Interval
  <1>2. ASSUME NEW m \in S
        PROVE  Cardinality({k \in S : k <= m}) = m - c
    <2>1. {k \in S : k <= m} = (c + 1)..m
      OBVIOUS
    <2>2. m \in Int /\ c + 1 \in Int /\ c + 1 <= m
      OBVIOUS
    <2>3. Cardinality((c + 1)..m) = m - c
      BY <2>2, FS_Interval
    <2> QED
      BY <2>1, <2>3
  <1>3. ASSUME NEW i \in 1..size
        PROVE  (CHOOSE m \in S : Cardinality({k \in S : k <= m}) = i) = c + i
    <2>1. c + i \in S /\ Cardinality({k \in S : k <= c + i}) = i
      BY <1>2
    <2>2. \A m \in S : Cardinality({k \in S : k <= m}) = i => m = c + i
      BY <1>2
    <2> HIDE DEF S
    <2> QED
      BY <2>1, <2>2
  <1> QED
    BY <1>1, <1>3 DEF InOrder

\* What a poll reads of a log without gaps.
LEMMA EventsAfterCursor ==
  ASSUME LogTypeOK, LogIsGapless, NEW c \in Nat
  PROVE  EventsAfter(c) = [i \in 1..(IF c < Len(log) THEN Len(log) - c ELSE 0) |-> c + i]
  <1>1. ToSet(log) = 1..Len(log)
    BY DEF LogTypeOK, LogIsGapless, ToSet
  <1>2. {n \in ToSet(log) : n > c} = (c + 1)..Len(log)
    BY <1>1 DEF LogTypeOK
  <1>3. Len(log) \in Nat
    BY DEF LogTypeOK
  <1> QED
    BY <1>2, <1>3, InOrderOfInterval DEF EventsAfter

\* The lifecycle leads from statuses to statuses.
LEMMA TransitionsStayInside ==
  ASSUME NEW s \in JobStatus
  PROVE  AllowedTransitions[s] \subseteq JobStatus
  BY DEF AllowedTransitions, JobStatus, Active, Terminal

-----------------------------------------------------------------------------
(* Transactions on the log *)

\* Events that continue n others still do with one more.
LEMMA OneMoreEvent ==
  ASSUME NEW n \in Nat, NEW events \in Seq(Nat \ {0}),
         \A i \in DOMAIN events : events[i] = n + i
  PROVE  \A i \in DOMAIN Append(events, n + Len(events) + 1) :
            Append(events, n + Len(events) + 1)[i] = n + i
  <1> DEFINE next == Append(events, n + Len(events) + 1)
  <1>1. DOMAIN next = 1..(Len(events) + 1) /\ DOMAIN events = 1..Len(events) /\ Len(events) \in Nat
    OBVIOUS
  <1>2. next[Len(events) + 1] = n + Len(events) + 1
    OBVIOUS
  <1>3. \A i \in 1..Len(events) : next[i] = events[i]
    OBVIOUS
  <1> HIDE DEF next
  <1>4. ASSUME NEW i \in DOMAIN next
        PROVE  next[i] = n + i
    <2>1. CASE i = Len(events) + 1
      BY <1>1, <1>2, <2>1
    <2>2. CASE i # Len(events) + 1
      <3>1. i \in 1..Len(events)
        BY <1>1, <2>2
      <3> QED
        BY <1>1, <1>3, <3>1
    <2> QED
      BY <2>1, <2>2
  <1> QED
    BY <1>4 DEF next

\* The number an append takes continues the log.
LEMMA NextNumber ==
  ASSUME LogTypeOK, LogIsGapless, DraftInv, NEW w \in Transactions
  PROVE  NextNo(w) = Len(log) + Len(draft[w].events) + 1
  <1> DEFINE events == draft[w].events
             all == log \o events
  <1>1. log \in Seq(Nat) /\ events \in Seq(Nat)
    BY DEF LogTypeOK, Draft
  <1>2. \A i \in DOMAIN events : events[i] = Len(log) + i
    BY DEF DraftInv
  <1>3. \A i \in DOMAIN log : log[i] = i
    BY DEF LogIsGapless
  <1> HIDE DEF events
  <1>4. all \in Seq(Nat) /\ Len(all) = Len(log) + Len(events)
    BY <1>1
  <1>5. \A i \in DOMAIN all : all[i] = i
    BY <1>1, <1>2, <1>3
  <1>6. HighestNo(all) = Len(all)
    BY <1>4, <1>5, HighestOfGapless
  <1> QED
    BY <1>4, <1>6 DEF NextNo, events

\* Writing events keeps the invariant of the log.
LEMMA LogStepKeeps ==
  ASSUME LogTypeOK, LogIsGapless, DraftInv, LogStep
  PROVE  /\ LogTypeOK' /\ LogIsGapless' /\ DraftInv'
         /\ Len(log) <= Len(log')
  <1> USE DEF LogTypeOK, Draft
  <1>0. NoDraft \in Draft /\ NoDraft.events = <<>>
    BY DEF NoDraft, JobStatus
  <1>1. ASSUME NEW w \in Transactions, NEW seen \in JobStatus, Lock(w, seen)
        PROVE  /\ draft' \in [Transactions -> Draft] /\ row' \in Transactions
               /\ UNCHANGED <<status, log, endings>> /\ DraftInv'
    <2>1. draft' \in [Transactions -> Draft] /\ draft'[w].events = <<>>
      BY <1>0, <1>1 DEF Lock
    <2>2. \A v \in Transactions \ {w} : draft'[v] = draft[v] /\ row # v
      BY <1>1, LogAssumption DEF Lock, RowIsFree
    <2> QED
      BY <1>0, <1>1, <2>1, <2>2 DEF Lock, DraftInv
  <1>2. ASSUME NEW w \in Writers, Begin(w)
        PROVE  LogTypeOK' /\ LogIsGapless' /\ DraftInv' /\ Len(log) <= Len(log')
    <2>1. w \in Transactions /\ Lock(w, status) /\ read' = read
      BY <1>2 DEF Begin, Transactions
    <2> QED
      BY <1>1, <2>1 DEF LogIsGapless
  <1>3. ASSUME NEW k \in Cancels, ReadToCancel(k)
        PROVE  LogTypeOK' /\ LogIsGapless' /\ DraftInv' /\ Len(log) <= Len(log')
    BY <1>3 DEF ReadToCancel, LogIsGapless, DraftInv
  <1>4. ASSUME NEW k \in Cancels, BeginCancel(k)
        PROVE  LogTypeOK' /\ LogIsGapless' /\ DraftInv' /\ Len(log) <= Len(log')
    <2>1. k \in Transactions /\ read[k] \in JobStatus /\ Lock(k, read[k])
      BY <1>4 DEF BeginCancel, Transactions
    <2>2. read' \in [Cancels -> (JobStatus \ Terminal) \cup {None}]
      BY <1>4 DEF BeginCancel
    <2> QED
      BY <1>1, <2>1, <2>2 DEF LogIsGapless
  <1>5. ASSUME NEW w \in Transactions, AppendEvent(w)
        PROVE  LogTypeOK' /\ LogIsGapless' /\ DraftInv' /\ Len(log) <= Len(log')
    <2> DEFINE events == draft[w].events
    <2>0. events \in Seq(Nat \ {0}) /\ draft[w].status \in JobStatus /\ draft[w] \in Draft
      OBVIOUS
    <2>1. draft' = [draft EXCEPT ![w].events = Append(events, Len(log) + Len(events) + 1)]
      BY <1>5, NextNumber DEF AppendEvent
    <2>2. Len(log) + Len(events) + 1 \in Nat \ {0}
      BY <2>0
    <2>3. Append(events, Len(log) + Len(events) + 1) \in Seq(Nat \ {0})
      BY <2>0, <2>2
    <2>4. draft'[w].events = Append(events, Len(log) + Len(events) + 1)
          /\ draft'[w].status = draft[w].status /\ draft' \in [Transactions -> Draft]
      BY <2>1, <2>3
    <2>5. \A i \in DOMAIN draft'[w].events : draft'[w].events[i] = Len(log) + i
      <3>1. \A i \in DOMAIN events : events[i] = Len(log) + i
        BY DEF DraftInv
      <3> DEFINE next == Append(events, Len(log) + Len(events) + 1)
      <3>2. draft'[w].events = next
        BY <2>4
      <3>3. \A i \in DOMAIN next : next[i] = Len(log) + i
        <4>1. Len(log) \in Nat
          OBVIOUS
        <4> HIDE DEF events
        <4> QED
          BY <2>0, <3>1, <4>1, OneMoreEvent
      <3> HIDE DEF next
      <3> QED
        BY <3>2, <3>3
    <2>6. \A v \in Transactions \ {w} : draft'[v] = draft[v]
      BY <2>1
    <2> QED
      BY <1>5, <2>4, <2>5, <2>6 DEF AppendEvent, LogIsGapless, DraftInv
  <1>6. ASSUME NEW w \in Transactions, CommitEvents(w)
        PROVE  LogTypeOK' /\ LogIsGapless' /\ DraftInv' /\ Len(log) <= Len(log')
    <2> DEFINE events == draft[w].events
    <2>0. events \in Seq(Nat \ {0}) /\ draft[w].status \in JobStatus /\ events # <<>>
      BY <1>6 DEF CommitEvents
    <2>1. status' \in JobStatus
      BY <1>6, <2>0, TransitionsStayInside DEF CommitEvents, Outcomes
    <2>2. log' = log \o events /\ draft' = [draft EXCEPT ![w] = NoDraft]
      BY <1>6 DEF CommitEvents
    <2>3. row = w /\ row' = None
      BY <1>0, <1>6 DEF CommitEvents, DraftInv, Release
    <2>4. log' \in Seq(Nat \ {0}) /\ Len(log') = Len(log) + Len(events)
      BY <2>0, <2>2
    <2>5. LogIsGapless'
      <3>1. \A i \in DOMAIN log : log[i] = i
        BY DEF LogIsGapless
      <3>2. \A i \in DOMAIN events : events[i] = Len(log) + i
        BY DEF DraftInv
      <3> HIDE DEF events
      <3>3. \A i \in DOMAIN (log \o events) : (log \o events)[i] = i
        BY <2>0, <3>1, <3>2
      <3> QED
        BY <2>2, <3>3 DEF LogIsGapless
    <2>6. \A v \in Transactions : draft'[v] = NoDraft
      BY <2>2, <2>3 DEF DraftInv
    <2>7. endings' \subseteq Ending
      <3>1. Last(events) \in Nat \ {0}
        BY <2>0 DEF Last
      <3>2. endings' = endings \cup
                (IF status' \in Terminal THEN {[no |-> Last(events), status |-> status']} ELSE {})
        BY <1>6 DEF CommitEvents
      <3> HIDE DEF events
      <3> QED
        BY <3>1, <3>2 DEF Ending
    <2>8. read' = read
      BY <1>6 DEF CommitEvents
    <2>9. draft' \in [Transactions -> Draft]
      BY <1>0, <2>2
    <2>10. LogTypeOK'
      BY <2>1, <2>3, <2>4, <2>7, <2>8, <2>9
    <2>11. DraftInv'
      BY <1>0, <2>6 DEF DraftInv
    <2>12. Len(log) <= Len(log')
      <3> HIDE DEF events
      <3> QED
        BY <2>0, <2>4
    <2> QED
      BY <2>5, <2>10, <2>11, <2>12
  <1>7. ASSUME NEW w \in Transactions, RollBackEvents(w)
        PROVE  LogTypeOK' /\ LogIsGapless' /\ DraftInv' /\ Len(log) <= Len(log')
    <2>1. draft' = [draft EXCEPT ![w] = NoDraft] /\ row = w /\ row' = None
      BY <1>7 DEF RollBackEvents, Release
    <2>2. \A v \in Transactions : draft'[v] = NoDraft
      BY <2>1 DEF DraftInv
    <2> QED
      BY <1>0, <1>7, <2>1, <2>2 DEF RollBackEvents, LogIsGapless, DraftInv
  <1> QED
    BY <1>2, <1>3, <1>4, <1>5, <1>6, <1>7 DEF LogStep

-----------------------------------------------------------------------------
(* Streams *)

\* A poll of the generator keeps stream and client in step.
LEMMA PollKeeps ==
  ASSUME LogTypeOK, LogIsGapless, StreamTypeOK, ClientInv, NEW s \in Streams, Poll(s)
  PROVE  StreamTypeOK' /\ ClientInv'
  <1> USE DEF StreamTypeOK, StreamState, StreamPhase, Connected
  <1>0. stream[s] \in StreamState /\ log' = log /\ Len(log) \in Nat
        /\ \A c \in Clients : c \in Streams /\ received[c] \in Seq(Nat \ {0})
    BY DEF Poll, ReadEvents, ReadStatus, SendEvent, EndPoll, logVars, LogTypeOK, Streams
  <1>1. CASE ReadEvents(s)
    <2> DEFINE c == stream[s].cursor
               after == EventsAfter(c)
               batch == IF s = Web THEN <<>> ELSE after
    <2>1. after = [i \in 1..(IF c < Len(log) THEN Len(log) - c ELSE 0) |-> c + i]
      BY <1>0, EventsAfterCursor
    <2>2. after \in Seq(Nat \ {0}) /\ Len(after) = IF c < Len(log) THEN Len(log) - c ELSE 0
      <3> DEFINE size == IF c < Len(log) THEN Len(log) - c ELSE 0
      <3>1. size \in Nat /\ \A i \in 1..size : c + i \in Nat \ {0}
        BY <1>0
      <3> HIDE DEF size, c
      <3>2. [i \in 1..size |-> c + i] \in Seq(Nat \ {0}) /\ Len([i \in 1..size |-> c + i]) = size
        BY <3>1
      <3> QED
        BY <2>1, <3>2 DEF size, c
    <2>3. stream' = [stream EXCEPT ![s].phase = "checking", ![s].batch = batch]
          /\ received' = received /\ incidents' = incidents /\ stream[s].phase = "polling"
      BY <1>1 DEF ReadEvents
    <2>4. StreamTypeOK'
      <3>1. batch \in Seq(Nat \ {0})
        BY <2>2
      <3> HIDE DEF batch
      <3> QED
        BY <1>0, <2>3, <3>1
    <2>5. ASSUME NEW d \in Clients
          PROVE  InStep(d)'
      <3>1. CASE d = s
        <4>1. batch = after
          BY <3>1, StreamAssumption
        <4> HIDE DEF batch
        <4> QED
          BY <1>0, <2>1, <2>2, <2>3, <3>1, <4>1 DEF ClientInv, InStep
      <3>2. CASE d # s
        BY <1>0, <2>3, <3>2 DEF ClientInv, InStep
      <3> QED
        BY <3>1, <3>2
    <2> QED
      BY <2>4, <2>5 DEF ClientInv
  <1>2. CASE ReadStatus(s)
    BY <1>0, <1>2 DEF ReadStatus, ClientInv, InStep
  <1>3. CASE SendEvent(s)
    <2> DEFINE n == Head(stream[s].batch)
    <2>1. stream' = [stream EXCEPT ![s].batch = Tail(@), ![s].cursor = n]
          /\ received' = [received EXCEPT ![s] = Append(@, n)]
          /\ incidents' = incidents /\ stream[s].phase = "sending" /\ stream[s].batch # <<>>
      BY <1>3 DEF SendEvent
    <2>2. n \in Nat \ {0} /\ n = stream[s].batch[1] /\ Tail(stream[s].batch) \in Seq(Nat \ {0})
          /\ Len(Tail(stream[s].batch)) = Len(stream[s].batch) - 1
      BY <1>0, <2>1
    <2>3. \A i \in DOMAIN Tail(stream[s].batch) : Tail(stream[s].batch)[i] = stream[s].batch[i + 1]
                                                  /\ i + 1 \in DOMAIN stream[s].batch
      BY <1>0, <2>1
    <2>4. StreamTypeOK'
      <3>1. stream' = [stream EXCEPT ![s] = [@ EXCEPT !.batch = Tail(stream[s].batch), !.cursor = n]]
        BY <2>1
      <3>2. [stream[s] EXCEPT !.batch = Tail(stream[s].batch), !.cursor = n] \in StreamState
        BY <1>0, <2>2
      <3>3. stream' \in [Streams -> StreamState]
        BY <3>1, <3>2
      <3>4. CASE s = Web
        <4>1. s \notin Clients
          BY <3>4, StreamAssumption
        <4>2. received' = received
          BY <2>1, <4>1
        <4> QED
          BY <2>1, <3>3, <4>2
      <3>5. CASE s # Web
        <4>1. s \in Clients /\ Append(received[s], n) \in Seq(Nat \ {0})
          BY <1>0, <2>2, <3>5 DEF Streams
        <4> QED
          BY <2>1, <3>3, <3>5, <4>1
      <3> QED
        BY <3>4, <3>5
    <2>5. ASSUME NEW d \in Clients
          PROVE  InStep(d)'
      <3>1. CASE d = s
        <4>1. s # Web
          BY <3>1, StreamAssumption
        <4>2. n = Len(received[d]) + 1
          BY <1>0, <2>1, <2>2, <3>1 DEF ClientInv, InStep
        <4>3. received'[d] = Append(received[d], n) /\ stream'[d].batch = Tail(stream[s].batch)
              /\ stream'[d].cursor = n /\ stream'[d].phase = "sending"
          BY <1>0, <2>1, <3>1, <4>1
        <4>4. Len(received'[d]) = Len(received[d]) + 1
              /\ \A i \in DOMAIN received'[d] : received'[d][i] = i
          BY <1>0, <4>2, <4>3 DEF ClientInv, InStep
        <4>5. \A i \in DOMAIN stream'[d].batch : stream'[d].batch[i] = Len(received'[d]) + i
          BY <1>0, <2>2, <2>3, <3>1, <4>3, <4>4 DEF ClientInv, InStep
        <4> QED
          BY <1>0, <2>2, <3>1, <4>2, <4>3, <4>4, <4>5 DEF ClientInv, InStep
      <3>2. CASE d # s
        BY <1>0, <2>1, <3>2 DEF ClientInv, InStep
      <3> QED
        BY <3>1, <3>2
    <2> QED
      BY <2>4, <2>5 DEF ClientInv
  <1>4. CASE EndPoll(s)
    BY <1>0, <1>4 DEF EndPoll, ClientInv, InStep, JobStatus
  <1> QED
    BY <1>1, <1>2, <1>3, <1>4 DEF Poll

\* Opening a stream where the client left off, and losing one.
LEMMA StreamReset ==
  ASSUME LogTypeOK, StreamTypeOK, ClientInv, NEW s \in Streams,
         NEW phase \in StreamPhase, NEW cursor \in Nat,
         stream' = [stream EXCEPT ![s] = [Closed EXCEPT !.phase = phase, !.cursor = cursor]],
         s \in Clients => phase = "broken" \/ cursor = Len(received[s]),
         received' = received, log' = log, incidents' \in 0..MaxIncidents
  PROVE  StreamTypeOK' /\ ClientInv'
  <1> USE DEF StreamTypeOK, StreamState, Closed
  <1>0. [Closed EXCEPT !.phase = phase, !.cursor = cursor] \in StreamState
    <2>1. <<>> \in Seq(Nat \ {0})
      OBVIOUS
    <2> QED
      BY <2>1
  <1>1. StreamTypeOK'
    BY <1>0
  <1>2. ASSUME NEW d \in Clients
        PROVE  InStep(d)'
    <2>0. d \in Streams /\ received[d] \in Seq(Nat \ {0}) /\ Len(log) \in Nat
          /\ stream[d].batch \in Seq(Nat \ {0})
      BY DEF Streams, LogTypeOK
    <2>1. CASE d = s
      BY <2>0, <2>1 DEF ClientInv, InStep, Connected
    <2>2. CASE d # s
      BY <2>0, <2>2 DEF ClientInv, InStep, Connected
    <2> QED
      BY <2>1, <2>2
  <1> QED
    BY <1>1, <1>2 DEF ClientInv

\* A stream that is not open has cursor 0.
LEMMA NoCursor ==
  ASSUME NEW phase
  PROVE  [Closed EXCEPT !.phase = phase] = [Closed EXCEPT !.phase = phase, !.cursor = 0]
  <1> DEFINE open == [Closed EXCEPT !.phase = phase]
  <1>1. open = [phase |-> phase, cursor |-> 0, batch |-> <<>>, seen |-> "active"]
    BY DEF Closed
  <1>2. [open EXCEPT !.cursor = 0] = open
    BY <1>1
  <1> QED
    BY <1>2

\* Last-Event-ID is the number of events the client has.
LEMMA LastIdOfClient ==
  ASSUME StreamTypeOK, ClientInv, NEW c \in Clients
  PROVE  LastId(c) = Len(received[c]) /\ LastId(c) \in Nat
  BY DEF StreamTypeOK, ClientInv, InStep, LastId, Last

\* A step of a writer keeps stream and client in step: the log only grows.
LEMMA LogGrows ==
  ASSUME LogTypeOK, LogIsGapless, DraftInv, StreamTypeOK, ClientInv,
         LogStep, UNCHANGED streamVars
  PROVE  StreamTypeOK' /\ ClientInv'
  <1>1. Len(log) <= Len(log') /\ Len(log) \in Nat /\ Len(log') \in Nat
    BY LogStepKeeps DEF LogTypeOK
  <1>2. ASSUME NEW c \in Clients
        PROVE  Len(received[c]) \in Nat /\ Len(stream[c].batch) \in Nat
    BY DEF StreamTypeOK, StreamState, Streams
  <1> QED
    BY <1>1, <1>2 DEF streamVars, StreamTypeOK, ClientInv, InStep, Connected

-----------------------------------------------------------------------------
(* The workspace *)

\* The steps of the workspace keep the invariant.
LEMMA WorkspaceStepKeeps ==
  ASSUME ProgressTypeOK, ClientInv, WorkspaceStep
  PROVE  /\ logVars' = logVars
         /\ StreamTypeOK' /\ ClientInv'
         /\ shown' \in JobStatus \cup {None}
         /\ refresh' \in [Refreshes -> RefreshState]
  <1> USE DEF RefreshState, Idle, Wait, workspaceVars
  <1>0. /\ LogTypeOK /\ StreamTypeOK /\ status \in JobStatus
        /\ shown \in JobStatus \cup {None}
        /\ refresh \in [Refreshes -> RefreshState]
        /\ incidents \in 0..MaxIncidents
        /\ Web \in Streams /\ Web \notin Clients /\ 0 \in Nat /\ MaxIncidents \in Nat
        /\ "QUEUED" \in JobStatus
    BY StreamAssumption
       DEF ProgressTypeOK, LogTypeOK, StreamTypeOK, Streams, JobStatus
  <1>1. CASE OpenEventSource
    <2>1. stream' = [stream EXCEPT ![Web] = [Closed EXCEPT !.phase = "polling", !.cursor = 0]]
      BY <1>1 DEF OpenEventSource, OpenStream
    <2>2. StreamTypeOK' /\ ClientInv'
      BY <1>0, <1>1, <2>1, StreamReset DEF OpenEventSource, StreamPhase, logVars
    <2> QED
      BY <1>0, <1>1, <2>2 DEF OpenEventSource
  <1>2. ASSUME NEW r \in Refreshes,
               TimerFires(r) \/ AnswerRefresh(r) \/ ClickCancel(r)
        PROVE  /\ logVars' = logVars
               /\ StreamTypeOK' /\ ClientInv'
               /\ shown' \in JobStatus \cup {None}
               /\ refresh' \in [Refreshes -> RefreshState]
    <2>1. /\ logVars' = logVars /\ stream' = stream /\ received' = received
          /\ incidents' \in 0..MaxIncidents /\ shown' = shown
      BY <1>0, <1>2 DEF TimerFires, AnswerRefresh, ClickCancel, streamVars
    <2>2. StreamTypeOK' /\ ClientInv'
      BY <1>0, <2>1 DEF logVars, StreamTypeOK, ClientInv, InStep, Connected
    <2>3. refresh' \in [Refreshes -> RefreshState]
      BY <1>0, <1>2 DEF TimerFires, AnswerRefresh, ClickCancel
    <2> QED
      BY <1>0, <2>1, <2>2, <2>3
  <1>3. ASSUME NEW r \in Refreshes, ApplyRefresh(r) \/ StreamFails(r)
        PROVE  /\ logVars' = logVars
               /\ StreamTypeOK' /\ ClientInv'
               /\ shown' \in JobStatus \cup {None}
               /\ refresh' \in [Refreshes -> RefreshState]
    <2>1. PICK phase \in {"dropped", "closed"} :
            stream' = [stream EXCEPT ![Web] = [Closed EXCEPT !.phase = phase]]
      BY <1>3 DEF ApplyRefresh, StreamFails, NextStream
    <2>2. stream' = [stream EXCEPT ![Web] = [Closed EXCEPT !.phase = phase, !.cursor = 0]]
      BY <2>1, NoCursor
    <2>3. logVars' = logVars /\ received' = received /\ incidents' = incidents
      BY <1>3 DEF ApplyRefresh, StreamFails
    <2>4. StreamTypeOK' /\ ClientInv'
      BY <1>0, <2>2, <2>3, StreamReset DEF StreamPhase, logVars
    <2>5. refresh' \in [Refreshes -> RefreshState] /\ shown' \in JobStatus \cup {None}
      BY <1>0, <1>3 DEF ApplyRefresh, StreamFails
    <2> QED
      BY <1>0, <2>3, <2>4, <2>5
  <1> QED
    BY <1>1, <1>2, <1>3 DEF WorkspaceStep

-----------------------------------------------------------------------------
(* The inductive invariant *)

\* ProgressInv holds in the beginning.
LEMMA ProgressInitInv == ProgressInit => ProgressInv
  <1> SUFFICES ASSUME ProgressInit PROVE ProgressInv
    OBVIOUS
  <1> USE DEF ProgressInit, LogInit, StreamInit, WorkspaceInit
  <1>0. "QUEUED" \in JobStatus
    BY DEF JobStatus
  <1>1. LogTypeOK /\ LogIsGapless /\ DraftInv
    BY <1>0 DEF LogTypeOK, Draft, NoDraft, LogIsGapless, DraftInv
  <1>2. StreamTypeOK /\ ClientInv
    BY <1>0, StreamAssumption
       DEF StreamTypeOK, StreamState, StreamPhase, Closed, Streams, ClientInv, InStep, Connected
  <1>3. shown \in JobStatus \cup {None}
    OBVIOUS
  <1>4. refresh \in [Refreshes -> RefreshState]
    BY <1>0 DEF RefreshState, Idle
  <1> QED
    BY <1>1, <1>2, <1>3, <1>4 DEF ProgressInv, ProgressTypeOK

\* ProgressInv is inductive.
LEMMA ProgressNextInv == ProgressInv /\ [ProgressNext]_progressVars => ProgressInv'
  <1> SUFFICES ASSUME ProgressInv, [ProgressNext]_progressVars PROVE ProgressInv'
    OBVIOUS
  <1> USE DEF ProgressInv, ProgressTypeOK
  <1>0. /\ shown \in JobStatus \cup {None}
        /\ refresh \in [Refreshes -> RefreshState]
        /\ incidents \in 0..MaxIncidents
    BY DEF StreamTypeOK
  <1>1. ASSUME logVars' = logVars
        PROVE  LogTypeOK' /\ LogIsGapless' /\ DraftInv'
    BY <1>1 DEF logVars, LogTypeOK, LogIsGapless, DraftInv
  <1>2. CASE LogStep /\ UNCHANGED <<streamVars, workspaceVars>>
    BY <1>0, <1>2, LogStepKeeps, LogGrows DEF workspaceVars
  <1>3. ASSUME NEW s \in Streams, Poll(s), UNCHANGED workspaceVars
        PROVE  ProgressInv'
    <2>1. logVars' = logVars
      BY <1>3 DEF Poll, ReadEvents, ReadStatus, SendEvent, EndPoll
    <2> QED
      BY <1>0, <1>1, <1>3, <2>1, PollKeeps DEF workspaceVars
  <1>4. ASSUME NEW s \in Streams, BreakStream(s), UNCHANGED workspaceVars
        PROVE  ProgressInv'
    <2>1. stream' = [stream EXCEPT ![s] = [Closed EXCEPT !.phase = "broken", !.cursor = 0]]
      BY <1>4, NoCursor DEF BreakStream
    <2>3. logVars' = logVars /\ received' = received /\ incidents' \in 0..MaxIncidents
      BY <1>0, <1>4, StreamAssumption DEF BreakStream
    <2>2. StreamTypeOK' /\ ClientInv'
      BY <2>1, <2>3, StreamReset DEF StreamPhase, logVars
    <2> QED
      BY <1>0, <1>1, <1>4, <2>2, <2>3 DEF workspaceVars
  <1>5. ASSUME NEW c \in Clients, Connect(c), UNCHANGED workspaceVars
        PROVE  ProgressInv'
    <2>1. stream' = [stream EXCEPT ![c] = [Closed EXCEPT !.phase = "polling", !.cursor = LastId(c)]]
          /\ logVars' = logVars /\ received' = received /\ incidents' \in 0..MaxIncidents
      BY <1>0, <1>5 DEF Connect, OpenStream
    <2>2. StreamTypeOK' /\ ClientInv'
      BY <2>1, StreamReset, LastIdOfClient DEF StreamPhase, logVars, Streams
    <2> QED
      BY <1>0, <1>1, <1>5, <2>1, <2>2 DEF workspaceVars
  <1>6. CASE WorkspaceStep
    BY <1>1, <1>6, WorkspaceStepKeeps
  <1>7. CASE UNCHANGED progressVars
    BY <1>0, <1>1, <1>7
       DEF progressVars, streamVars, workspaceVars, logVars, StreamTypeOK, ClientInv, InStep, Connected
  <1> QED
    BY <1>2, <1>3, <1>4, <1>5, <1>6, <1>7 DEF ProgressNext

\* The strengthened invariant: drafts belong to the row's holder, and streams
\* are in step with what their clients have.
THEOREM ProgressInvariant == ProgressSpec => []ProgressInv
  BY ProgressInitInv, ProgressNextInv, PTL DEF ProgressSpec

\* Every variable of the log, the streams and the workspace keeps its type.
THEOREM ProgressTypeCorrect == ProgressSpec => []ProgressTypeOK
  BY ProgressInvariant, PTL DEF ProgressInv

\* Events are numbered without a gap and in commit order, however many
\* transactions wait for the row, write several events and roll back.
THEOREM EventsAreNumbered == ProgressSpec => []LogIsGapless
  BY ProgressInvariant, PTL DEF ProgressInv

\* A client gets every event once and in order over all its connections.
THEOREM NothingIsSkipped == ProgressSpec => []NothingIsMissed
  <1>1. ProgressInv => NothingIsMissed
    BY DEF ProgressInv, ClientInv, InStep, NothingIsMissed
  <1> QED
    BY <1>1, ProgressInvariant, PTL

=============================================================================
