------------------------------ MODULE ServerProofs ------------------------------
(***************************************************************************)
(* Theorems about RunServer, for any number of runs, permits, streams and  *)
(* losses of the process: what a permit, a row and a "done" can be trusted *)
(* for.                                                                    *)
(***************************************************************************)
EXTENDS ServerProperties, SequenceTheorems, FiniteSetTheorems, TLAPS

-------------------------------------------------------------------------------
(***************************************************************************)
(* The inductive invariant.                                                *)
(***************************************************************************)
Phases == {"none", "lost"} \cup Live \cup Over
EventTypes == {"run.created", "run.started", "run.terminal", "score.completed"}
Reasons == TerminalReason \cup {NoReason}
Rows == [status : RunStatus \cup {"none"}, reason : Reasons, scored : BOOLEAN]
Streams ==
  [state : {"closed", "open", "sent", "done", "timeout"}, offset : Nat, seen : BOOLEAN, polls : Nat]

Types ==
  /\ phase \in [Runs -> Phases]
  /\ row \in [Runs -> Rows]
  /\ events \in [Runs -> Seq(EventTypes)]
  /\ stream \in [Watched -> Streams]

\* The semaphore and the registry.
PermitInv ==
  /\ permits \in Nat
  /\ IsFiniteSet(Holders)
  /\ permits + Cardinality(Holders) = Capacity
  /\ active = {r \in Runs : phase[r] \in Live}

\* The semaphore's queue names every waiting task once, and no other.
QueueInv ==
  /\ waiters \in Seq(Runs)
  /\ \A i, j \in 1..Len(waiters) : waiters[i] = waiters[j] => i = j
  /\ \A r \in Runs : phase[r] = "waiting" <=> \E i \in 1..Len(waiters) : waiters[i] = r

\* What the row says where the task stands; once the task is over without
\* having ended the run, nobody writes it again.
RowAt(r) ==
  /\ phase[r] \in {"none", "waiting", "building"} =>
       row[r] = [status |-> "none", reason |-> NoReason, scored |-> FALSE]
  /\ phase[r] = "created" =>
       row[r].status = "queued" /\ row[r].reason = NoReason /\ ~row[r].scored
  /\ phase[r] \in {"running", "closing", "scored"} => row[r].status = "running" /\ ~row[r].scored
  /\ phase[r] = "saved" => row[r].status = "running" /\ row[r].scored
  /\ phase[r] = "ended" => row[r].status \in FinalStatus

\* A score is the last event, of a run whose end is not to be stopped.
LogAt(r) ==
  \A i \in 1..Len(events[r]) :
    events[r][i] = "score.completed" =>
      /\ i = Len(events[r])
      /\ phase[r] \in {"scored", "saved", "ended", "lost"}

\* The stream is never ahead of the log, and has seen what it has sent.
StreamAt(r) ==
  /\ stream[r].offset <= Len(events[r])
  /\ stream[r].seen => \E i \in 1..stream[r].offset : events[r][i] = "score.completed"
  /\ stream[r].state = "done" => stream[r].seen /\ phase[r] \notin Live

ServerInv ==
  /\ Types
  /\ PermitInv
  /\ QueueInv
  /\ \A r \in Runs : RowAt(r)
  /\ \A r \in Runs : LogAt(r)
  /\ \A r \in Watched : StreamAt(r)

-------------------------------------------------------------------------------
(***************************************************************************)
(* The steps, as the semaphore sees them.                                  *)
(***************************************************************************)
\* A task that holds its permit goes on.
Moves(r) ==
  /\ phase[r] \in Holding
  /\ \E p \in Holding : phase' = [phase EXCEPT ![r] = p]
  /\ UNCHANGED <<permits, active, waiters>>

\* A task is over, from the queue or with a permit.
Ends(r) == phase[r] \in Live /\ \E p \in Over : EndTask(r, p)

Stays == UNCHANGED <<phase, permits, active, waiters>>

\* What each step is for the semaphore: a task comes, is served, goes on or
\* is over; everything else, a loss of the process apart, leaves it alone.
LEMMA Shapes ==
  ASSUME Next
  PROVE  \/ \E r \in Runs : Spawn(r) \/ Acquire(r) \/ Moves(r) \/ Ends(r)
         \/ Stays
         \/ Crash
<1>1. ASSUME NEW r \in Runs, TaskStep(r)
      PROVE  Acquire(r) \/ Moves(r) \/ Ends(r)
  <2>1. CASE CreateRow(r) \/ StartRow(r) \/ WriteTerminal(r) \/ WriteScore(r) \/ SaveScorecard(r)
    BY <2>1 DEF CreateRow, StartRow, WriteTerminal, WriteScore, SaveScorecard, Enter, Moves, Holding
  <2>2. CASE BuildFails(r) \/ InitialStateFails(r) \/ RunRaises(r) \/ DeliverCancel(r)
    BY <2>2 DEF BuildFails, InitialStateFails, RunRaises, DeliverCancel, Ends, Live, Holding, Over
  <2>3. CASE Complete(r) \/ Fail(r)
    BY <2>3 DEF Complete, Fail, FinishRow, Ends, Live, Holding, Over
  <2>4. QED  BY <1>1, <2>1, <2>2, <2>3 DEF TaskStep
<1>2. ASSUME NEW r \in Runs, CancelRun(r)
      PROVE  Stays
  BY <1>2 DEF CancelRun, Stays
<1>3. ASSUME NEW r \in Watched, OpenStream(r) \/ Poll(r)
      PROVE  Stays
  BY <1>3 DEF OpenStream, Poll, SendNew, CheckDone, Stays
<1>4. QED  BY <1>1, <1>2, <1>3 DEF Next

\* The phase of the run that a step is about changes, and that of no other.
LEMMA OthersStay ==
  ASSUME phase \in [Runs -> Phases], NEW r \in Runs, NEW p \in Phases,
         phase' = [phase EXCEPT ![r] = p]
  PROVE  /\ phase' \in [Runs -> Phases]
         /\ phase'[r] = p
         /\ \A q \in Runs \ {r} : phase'[q] = phase[q]
  OBVIOUS

-------------------------------------------------------------------------------
(***************************************************************************)
(* Permits, the registry and the queue.                                    *)
(***************************************************************************)
LEMMA PermitStep ==
  ASSUME Types, PermitInv, Next
  PROVE  PermitInv'
<1> USE ServerAssumption
<1>1. ASSUME NEW r \in Runs, Spawn(r)
      PROVE  PermitInv'
  <2>1. phase' = [phase EXCEPT ![r] = "waiting"] /\ phase[r] = "none"
    BY <1>1 DEF Spawn, Enter
  <2>2. Holders' = Holders
    BY <2>1 DEF Types, Holders, Holding
  <2>3. active' = {q \in Runs : phase'[q] \in Live}
    BY <1>1, <2>1 DEF Types, PermitInv, Spawn, Live, Holding
  <2>4. QED  BY <1>1, <2>2, <2>3 DEF PermitInv, Spawn
<1>2. ASSUME NEW r \in Runs, Acquire(r)
      PROVE  PermitInv'
  <2>1. phase' = [phase EXCEPT ![r] = "building"] /\ phase[r] = "waiting"
    BY <1>2 DEF Acquire, Enter
  <2>2. Holders' = Holders \cup {r} /\ r \notin Holders
    BY <2>1 DEF Types, Holders, Holding
  <2>3. IsFiniteSet(Holders') /\ Cardinality(Holders') = Cardinality(Holders) + 1
    BY <2>2, FS_AddElement DEF PermitInv
  <2>4. active' = {q \in Runs : phase'[q] \in Live}
    BY <1>2, <2>1 DEF Types, PermitInv, Acquire, Live, Holding
  <2>5. permits' = permits - 1 /\ permits > 0
    BY <1>2 DEF Acquire
  <2>6. Cardinality(Holders) \in Nat
    BY FS_CardinalityType DEF PermitInv
  <2>7. QED  BY <2>3, <2>4, <2>5, <2>6 DEF PermitInv
<1>3. ASSUME NEW r \in Runs, Moves(r)
      PROVE  PermitInv'
  <2>1. PICK p \in Holding : phase' = [phase EXCEPT ![r] = p]
    BY <1>3 DEF Moves
  <2>2. Holders' = Holders
    BY <1>3, <2>1 DEF Types, Holders, Moves
  <2>3. active' = {q \in Runs : phase'[q] \in Live}
    BY <1>3, <2>1 DEF Types, PermitInv, Moves, Live
  <2>4. QED  BY <1>3, <2>2, <2>3 DEF PermitInv, Moves
<1>4. ASSUME NEW r \in Runs, Ends(r)
      PROVE  PermitInv'
  <2>1. PICK p \in Over : EndTask(r, p)
    BY <1>4 DEF Ends
  <2>2. phase' = [phase EXCEPT ![r] = p] /\ phase[r] \in Live
    BY <1>4, <2>1 DEF Ends, EndTask, Enter
  <2>3. Holders' = Holders \ {r}
    BY <2>2 DEF Types, Holders, Holding, Over
  <2>4. r \in Holders <=> phase[r] \in Holding
    BY DEF Holders
  <2>5. /\ IsFiniteSet(Holders')
        /\ Cardinality(Holders') = IF r \in Holders THEN Cardinality(Holders) - 1
                                                    ELSE Cardinality(Holders)
    BY <2>3, FS_RemoveElement DEF PermitInv
  <2>6. active' = {q \in Runs : phase'[q] \in Live}
    BY <2>1, <2>2 DEF Types, PermitInv, EndTask, Live, Holding, Over
  <2>7. permits' = IF phase[r] \in Holding THEN permits + 1 ELSE permits
    BY <2>1 DEF EndTask
  <2>8. Cardinality(Holders) \in Nat
    BY FS_CardinalityType DEF PermitInv
  <2>9. QED  BY <2>4, <2>5, <2>6, <2>7, <2>8 DEF PermitInv
<1>5. CASE Stays
  BY <1>5 DEF Stays, PermitInv, Holders
<1>6. CASE Crash
  <2>1. Holders' = {} /\ {q \in Runs : phase'[q] \in Live} = {}
    BY <1>6 DEF Crash, Holders, Live, Holding
  <2>2. IsFiniteSet(Holders') /\ Cardinality(Holders') = 0
    BY <2>1, FS_EmptySet
  <2>3. permits' = Capacity /\ active' = {} /\ Capacity \in Nat /\ Capacity + 0 = Capacity
    BY <1>6 DEF Crash
  <2>4. QED  BY <2>1, <2>2, <2>3 DEF PermitInv
<1>7. QED  BY <1>1, <1>2, <1>3, <1>4, <1>5, <1>6, Shapes

\* A place in the middle of a sequence is taken away.
LEMMA RemoveAtFacts ==
  ASSUME NEW S, NEW s \in Seq(S), NEW i \in 1..Len(s)
  PROVE  LET t == RemoveAt(s, i)
         IN  /\ t \in Seq(S)
             /\ Len(t) = Len(s) - 1
             /\ \A j \in 1..Len(t) : t[j] = IF j < i THEN s[j] ELSE s[j + 1]
<1> DEFINE a == SubSeq(s, 1, i - 1)
           b == SubSeq(s, i + 1, Len(s))
<1>1. /\ a \in Seq(S) /\ Len(a) = i - 1
      /\ \A j \in 1..Len(a) : a[j] = s[j]
  OBVIOUS
<1>2. /\ b \in Seq(S) /\ Len(b) = Len(s) - i
      /\ \A j \in 1..Len(b) : b[j] = s[i + j]
  OBVIOUS
<1>3. RemoveAt(s, i) = a \o b
  BY DEF RemoveAt
<1> HIDE DEF a, b
<1>4. /\ a \o b \in Seq(S)
      /\ Len(a \o b) = Len(a) + Len(b)
      /\ \A j \in 1..(Len(a) + Len(b)) :
           (a \o b)[j] = IF j <= Len(a) THEN a[j] ELSE b[j - Len(a)]
  BY <1>1, <1>2, ConcatProperties
<1> DEFINE n == Len(s)
<1>5. n \in Nat /\ i \in 1..n
  BY LenProperties
<1>6. /\ Len(a \o b) = n - 1
      /\ \A j \in 1..(n - 1) : (a \o b)[j] = IF j < i THEN a[j] ELSE b[j - (i - 1)]
  <2>1. Len(a) = i - 1 /\ Len(b) = n - i
    BY <1>1, <1>2
  <2> HIDE DEF n
  <2>2. Len(a) + Len(b) = n - 1
    BY <1>5, <2>1
  <2>3. \A j \in 1..(n - 1) : j <= Len(a) <=> j < i
    BY <1>5, <2>1
  <2>4. QED  BY <1>4, <2>1, <2>2, <2>3
<1>7. ASSUME NEW j \in 1..(n - 1)
      PROVE  (a \o b)[j] = IF j < i THEN s[j] ELSE s[j + 1]
  <2>1. CASE j < i
    <3>1. j \in 1..(i - 1)
      BY <1>5, <2>1
    <3>2. QED  BY <1>1, <1>6, <2>1, <3>1
  <2>2. CASE ~(j < i)
    <3>1. j - (i - 1) \in 1..(n - i) /\ i + (j - (i - 1)) = j + 1
      BY <1>5, <2>2
    <3>2. QED  BY <1>2, <1>6, <2>2, <3>1
  <2>3. QED  BY <2>1, <2>2
<1>8. QED  BY <1>3, <1>4, <1>6, <1>7

\* Every step keeps the queue in order: who waits is in it, once, and nobody else.
LEMMA QueueStep ==
  ASSUME Types, QueueInv, Next
  PROVE  QueueInv'
<1>1. ASSUME NEW r \in Runs, Spawn(r)
      PROVE  QueueInv'
  <2>1. phase' = [phase EXCEPT ![r] = "waiting"] /\ phase[r] = "none"
    BY <1>1 DEF Spawn, Enter
  <2>2. /\ waiters' \in Seq(Runs)
        /\ Len(waiters') = Len(waiters) + 1
        /\ \A i \in 1..Len(waiters) : waiters'[i] = waiters[i]
        /\ waiters'[Len(waiters) + 1] = r
    BY <1>1, AppendProperties DEF Spawn, QueueInv
  <2>3. \A i \in 1..Len(waiters) : waiters[i] # r
    BY <2>1 DEF QueueInv
  <2>4. \A i, j \in 1..Len(waiters') : waiters'[i] = waiters'[j] => i = j
    BY <2>2, <2>3 DEF QueueInv
  <2>5. \A q \in Runs : phase'[q] = "waiting" <=> \E i \in 1..Len(waiters') : waiters'[i] = q
    <3>1. SUFFICES ASSUME NEW q \in Runs
                   PROVE  phase'[q] = "waiting" <=> \E i \in 1..Len(waiters') : waiters'[i] = q
      OBVIOUS
    <3> DEFINE n == Len(waiters)
    <3>2. n \in Nat /\ n + 1 \in 1..(n + 1) /\ \A i \in 1..(n + 1) : i \in 1..n \/ i = n + 1
      BY LenProperties DEF QueueInv
    <3>3. 1..n \subseteq 1..(n + 1)
      BY <3>2
    <3>4. CASE q = r
      <4>1. phase'[q] = "waiting"
        BY <2>1, <3>4 DEF Types
      <4>2. QED  BY <2>2, <3>2, <3>4, <4>1
    <3>5. CASE q # r
      <4>1. phase'[q] = phase[q]
        BY <2>1, <3>5 DEF Types
      <4>2. (\E i \in 1..(n + 1) : waiters'[i] = q) <=> \E i \in 1..n : waiters[i] = q
        BY <2>2, <3>2, <3>3, <3>5
      <4>3. QED  BY <2>2, <4>1, <4>2 DEF QueueInv
    <3>6. QED  BY <3>4, <3>5
  <2>6. QED  BY <2>2, <2>4, <2>5 DEF QueueInv
<1>2. ASSUME NEW r \in Runs, Acquire(r)
      PROVE  QueueInv'
  <2>1. phase' = [phase EXCEPT ![r] = "building"] /\ phase[r] = "waiting"
    BY <1>2 DEF Acquire, Enter
  <2>2. waiters \in Seq(Runs) /\ waiters # <<>> /\ waiters[1] = r
    BY <1>2, <2>1 DEF Acquire, QueueInv
  <2>3. /\ waiters' \in Seq(Runs)
        /\ Len(waiters') = Len(waiters) - 1
        /\ \A i \in 1..Len(waiters') : waiters'[i] = waiters[i + 1]
    BY <1>2, <2>2 DEF Acquire
  <2>4. \A i, j \in 1..Len(waiters') : waiters'[i] = waiters'[j] => i = j
    BY <2>2, <2>3 DEF QueueInv
  <2>5. \A q \in Runs : phase'[q] = "waiting" <=> \E i \in 1..Len(waiters') : waiters'[i] = q
    <3>1. SUFFICES ASSUME NEW q \in Runs
                   PROVE  phase'[q] = "waiting" <=> \E i \in 1..Len(waiters') : waiters'[i] = q
      OBVIOUS
    <3>2. CASE q = r
      <4>1. phase'[q] # "waiting"
        BY <2>1, <3>2 DEF Types
      <4>2. \A i \in 1..Len(waiters') : waiters'[i] # r
        <5>1. TAKE i \in 1..Len(waiters')
        <5>2. i + 1 \in 1..Len(waiters) /\ 1 \in 1..Len(waiters) /\ i + 1 # 1
          BY <2>2, <2>3, LenProperties
        <5>3. QED  BY <2>2, <2>3, <5>2 DEF QueueInv
      <4>3. QED  BY <3>2, <4>1, <4>2
    <3>3. CASE q # r
      <4>1. phase'[q] = phase[q]
        BY <2>1, <3>3 DEF Types
      <4>2. ASSUME NEW i \in 1..Len(waiters), waiters[i] = q
            PROVE  i - 1 \in 1..Len(waiters') /\ waiters'[i - 1] = q
        BY <2>2, <2>3, <3>3, <4>2
      <4>3. QED  BY <2>2, <2>3, <4>1, <4>2 DEF QueueInv
    <3>4. QED  BY <3>2, <3>3
  <2>6. QED  BY <2>3, <2>4, <2>5 DEF QueueInv
<1>3. ASSUME NEW r \in Runs, Moves(r)
      PROVE  QueueInv'
  <2>1. PICK p \in Holding : phase' = [phase EXCEPT ![r] = p]
    BY <1>3 DEF Moves
  <2>2. \A q \in Runs : phase'[q] = "waiting" <=> phase[q] = "waiting"
    BY <1>3, <2>1 DEF Types, Moves, Holding
  <2>3. QED  BY <1>3, <2>2 DEF QueueInv, Moves
<1>4. ASSUME NEW r \in Runs, Ends(r)
      PROVE  QueueInv'
  <2>1. PICK p \in Over : EndTask(r, p)
    BY <1>4 DEF Ends
  <2>2. phase' = [phase EXCEPT ![r] = p] /\ LeaveQueue(r) /\ p # "waiting"
    BY <2>1 DEF EndTask, Enter, Over
  <2>3. CASE phase[r] # "waiting"
    <3>1. \A q \in Runs : phase'[q] = "waiting" <=> phase[q] = "waiting"
      BY <2>2, <2>3 DEF Types
    <3>2. UNCHANGED waiters
      BY <2>2, <2>3 DEF LeaveQueue
    <3>3. QED  BY <3>1, <3>2 DEF QueueInv
  <2>4. CASE phase[r] = "waiting"
    <3>1. PICK k \in DOMAIN waiters : waiters[k] = r /\ waiters' = RemoveAt(waiters, k)
      BY <2>2, <2>4 DEF LeaveQueue
    <3>2. waiters \in Seq(Runs) /\ k \in 1..Len(waiters)
      BY <3>1 DEF QueueInv
    <3>3. /\ waiters' \in Seq(Runs)
          /\ Len(waiters') = Len(waiters) - 1
          /\ \A j \in 1..Len(waiters') : waiters'[j] = IF j < k THEN waiters[j] ELSE waiters[j + 1]
      BY <3>1, <3>2, RemoveAtFacts
    <3>4. \A i, j \in 1..Len(waiters') : waiters'[i] = waiters'[j] => i = j
      <4>1. TAKE i, j \in 1..Len(waiters')
      <4> DEFINE was(m) == IF m < k THEN m ELSE m + 1
      <4>2. /\ was(i) \in 1..Len(waiters) /\ was(j) \in 1..Len(waiters)
            /\ was(i) = was(j) => i = j
        BY <3>2, <3>3, LenProperties
      <4>3. waiters'[i] = waiters[was(i)] /\ waiters'[j] = waiters[was(j)]
        BY <3>3
      <4>4. \A x, y \in 1..Len(waiters) : waiters[x] = waiters[y] => x = y
        BY DEF QueueInv
      <4>5. waiters[was(i)] = waiters[was(j)] => was(i) = was(j)
        BY <4>2, <4>4, Zenon
      <4>6. QED  BY <4>2, <4>3, <4>5, Zenon
    <3>5. ASSUME NEW j \in 1..Len(waiters')
          PROVE  waiters'[j] # r
      <4>1. \A x \in 1..Len(waiters) : waiters[x] = r => x = k
        BY <3>1, <3>2 DEF QueueInv
      <4>2. CASE j < k
        <5>1. waiters'[j] = waiters[j] /\ j \in 1..Len(waiters) /\ j # k
          BY <3>2, <3>3, <4>2
        <5>2. QED  BY <4>1, <5>1
      <4>3. CASE ~(j < k)
        <5>1. waiters'[j] = waiters[j + 1] /\ j + 1 \in 1..Len(waiters) /\ j + 1 # k
          BY <3>2, <3>3, <4>3
        <5>2. QED  BY <4>1, <5>1
      <4>4. QED  BY <4>2, <4>3
    <3>6. ASSUME NEW q \in Runs \ {r}, NEW i \in 1..Len(waiters), waiters[i] = q
          PROVE  \E j \in 1..Len(waiters') : waiters'[j] = q
      <4>1. CASE i < k
        <5>1. i \in 1..Len(waiters') /\ waiters'[i] = q
          BY <3>2, <3>3, <3>6, <4>1
        <5>2. QED  BY <5>1
      <4>2. CASE i > k
        <5>1. i - 1 \in 1..Len(waiters') /\ ~(i - 1 < k) /\ (i - 1) + 1 = i
          BY <3>2, <3>3, <4>2
        <5>2. waiters'[i - 1] = q
          BY <3>3, <3>6, <5>1
        <5>3. QED  BY <5>1, <5>2
      <4>3. i # k
        BY <3>1, <3>6
      <4>4. QED  BY <3>2, <4>1, <4>2, <4>3
    <3>7. \A j \in 1..Len(waiters') : \E i \in 1..Len(waiters) : waiters'[j] = waiters[i]
      BY <3>2, <3>3
    <3>8. \A q \in Runs : phase'[q] = "waiting" <=> \E i \in 1..Len(waiters') : waiters'[i] = q
      <4>1. phase'[r] # "waiting" /\ \A q \in Runs \ {r} : phase'[q] = phase[q]
        BY <2>2 DEF Types
      <4>2. QED  BY <3>5, <3>6, <3>7, <4>1 DEF QueueInv
    <3>9. QED  BY <3>3, <3>4, <3>8 DEF QueueInv
  <2>5. QED  BY <2>3, <2>4
<1>5. CASE Stays
  BY <1>5 DEF Stays, QueueInv
<1>6. CASE Crash
  <2>1. \A q \in Runs : phase'[q] # "waiting"
    BY <1>6 DEF Crash, Live
  <2>2. waiters' = <<>>
    BY <1>6 DEF Crash
  <2>3. QED  BY <2>1, <2>2 DEF QueueInv
<1>7. QED  BY <1>1, <1>2, <1>3, <1>4, <1>5, <1>6, Shapes

-------------------------------------------------------------------------------
(***************************************************************************)
(* Rows, logs and streams.                                                 *)
(***************************************************************************)
\* What the writes of the runs table leave in the row, and in no other.
LEMMA StatusWritten ==
  ASSUME row \in [Runs -> Rows], NEW r \in Runs, NEW s \in RunStatus, NEW reason \in Reasons,
         row' = [row EXCEPT ![r].status = s, ![r].reason = reason]
  PROVE  /\ row' \in [Runs -> Rows]
         /\ row'[r].status = s /\ row'[r].reason = reason /\ row'[r].scored = row[r].scored
         /\ row'[r] = [row[r] EXCEPT !.status = s, !.reason = reason]
         /\ \A q \in Runs \ {r} : row'[q] = row[q]
  BY DEF Rows

\* The insert leaves a queued row for the run and the other rows as they are.
LEMMA RowInserted ==
  ASSUME row \in [Runs -> Rows], NEW r \in Runs, row' = [row EXCEPT ![r].status = "queued"]
  PROVE  /\ row' \in [Runs -> Rows]
         /\ row'[r].status = "queued" /\ row'[r].scored = row[r].scored
         /\ row'[r] = [row[r] EXCEPT !.status = "queued"]
         /\ \A q \in Runs \ {r} : row'[q] = row[q]
  BY DEF Rows, RunStatus

\* The score is written beside a terminal status and changes nothing else.
LEMMA ScoreWritten ==
  ASSUME row \in [Runs -> Rows], NEW r \in Runs, row' = [row EXCEPT ![r].scored = TRUE]
  PROVE  /\ row' \in [Runs -> Rows]
         /\ row'[r].status = row[r].status /\ row'[r].scored
         /\ row'[r] = [row[r] EXCEPT !.scored = TRUE]
         /\ \A q \in Runs \ {r} : row'[q] = row[q]
  BY DEF Rows

\* What Emit leaves in the log of a run.
LEMMA Emitted ==
  ASSUME events \in [Runs -> Seq(EventTypes)], NEW r \in Runs, NEW type \in EventTypes, Emit(r, type)
  PROVE  /\ events' \in [Runs -> Seq(EventTypes)]
         /\ Len(events'[r]) = Len(events[r]) + 1
         /\ \A i \in 1..Len(events[r]) : events'[r][i] = events[r][i]
         /\ events'[r][Len(events[r]) + 1] = type
         /\ \A q \in Runs \ {r} : events'[q] = events[q]
<1>1. events'[r] = Append(events[r], type) /\ \A q \in Runs \ {r} : events'[q] = events[q]
  BY DEF Emit
<1>2. events[r] \in Seq(EventTypes)
  OBVIOUS
<1>3. /\ Append(events[r], type) \in Seq(EventTypes)
      /\ Len(Append(events[r], type)) = Len(events[r]) + 1
      /\ \A i \in 1..Len(events[r]) : Append(events[r], type)[i] = events[r][i]
      /\ Append(events[r], type)[Len(events[r]) + 1] = type
  BY <1>2, AppendProperties
<1>4. events' \in [Runs -> Seq(EventTypes)]
  BY <1>3 DEF Emit
<1>5. QED  BY <1>1, <1>3, <1>4

\* The transitions a run of the server makes.
LEMMA Transitions ==
  /\ ValidTransitions["running"] \cap {"running", "none", "queued"} = {}
  /\ {"completed", "failed"} \subseteq ValidTransitions["running"]
  /\ "running" \in ValidTransitions["queued"]
  /\ {"completed", "failed"} \subseteq FinalStatus
  /\ {"queued", "running", "completed", "failed"} \subseteq RunStatus
  BY DEF ValidTransitions, RunStatus, FinalStatus

\* A task that is over lets its row alone or has just ended the run.
FinishedRow(r) ==
  \E s \in {"completed", "failed"}, reason \in TerminalReason :
    /\ phase[r] = IF s = "failed" THEN "closing" ELSE "saved"
    /\ reason \in IF s = "failed" THEN {"infrastructure_failure"}
                                  ELSE {"success", "submitted_unsolved"}
    /\ row' = [row EXCEPT ![r].status = s, ![r].reason = reason]
    /\ EndTask(r, "ended")

\* A run that completes or fails writes one terminal row, and no event.
LEMMA Finishes ==
  ASSUME NEW r \in Runs, Complete(r) \/ Fail(r)
  PROVE  FinishedRow(r) /\ UNCHANGED <<events, stream>>
<1>1. CASE Complete(r)
  <2>1. PICK reason \in {"success", "submitted_unsolved"} : FinishRow(r, "completed", reason)
    BY <1>1 DEF Complete
  <2>2. reason \in TerminalReason
    BY DEF TerminalReason
  <2>3. QED  BY <1>1, <2>1, <2>2 DEF Complete, FinishRow, SetRunStatus, FinishedRow
<1>2. CASE Fail(r)
  BY <1>2 DEF Fail, FinishRow, SetRunStatus, FinishedRow, TerminalReason
<1>3. QED  BY <1>1, <1>2

\* What a step about run r that leaves the table alone does to the phase.
QuietMoves ==
  {<<"none", "waiting">>, <<"waiting", "building">>, <<"running", "closing">>, <<"closing", "scored">>}
    \cup (Live \X {"raised", "canceled", "lost"})

Quiet(r) ==
  /\ UNCHANGED row
  /\ \E p \in Phases : phase' = [phase EXCEPT ![r] = p] /\ <<phase[r], p>> \in QuietMoves

\* Every step is quiet, writes the row of one run, or leaves rows and phases.
Writes(r) == CreateRow(r) \/ StartRow(r) \/ SaveScorecard(r) \/ FinishedRow(r)

\* What a step does to the rows: one run's phase and row, nothing, or the recovery.
LEMMA RowShapes ==
  ASSUME Next
  PROVE  \/ \E r \in Runs : Quiet(r) \/ Writes(r)
         \/ UNCHANGED <<phase, row>>
         \/ Crash
<1>1. ASSUME NEW r \in Runs, Spawn(r) \/ Acquire(r) \/ WriteTerminal(r) \/ WriteScore(r)
      PROVE  Quiet(r)
  BY <1>1 DEF Spawn, Acquire, WriteTerminal, WriteScore, Enter, Quiet, QuietMoves, Phases, Live, Holding
<1>2. ASSUME NEW r \in Runs, BuildFails(r) \/ InitialStateFails(r) \/ RunRaises(r) \/ DeliverCancel(r)
      PROVE  Quiet(r)
  BY <1>2 DEF BuildFails, InitialStateFails, RunRaises, DeliverCancel, EndTask, Enter, Quiet,
              QuietMoves, Phases, Live, Holding, Over
<1>3. ASSUME NEW r \in Runs, TaskStep(r)
      PROVE  Quiet(r) \/ Writes(r)
  BY <1>1, <1>2, <1>3, Finishes DEF TaskStep, Writes
<1>4. ASSUME NEW r \in Runs, CancelRun(r)
      PROVE  UNCHANGED <<phase, row>>
  BY <1>4 DEF CancelRun
<1>5. ASSUME NEW r \in Watched, OpenStream(r) \/ Poll(r)
      PROVE  UNCHANGED <<phase, row>>
  BY <1>5 DEF OpenStream, Poll, SendNew, CheckDone
<1>6. QED  BY <1>1, <1>3, <1>4, <1>5 DEF Next

\* The vocabulary of the lifecycle is the server's.
LEMMA SameWords ==
  ASSUME NEW r \in Runs
  PROVE  /\ Row(r)!NoReason = NoReason
         /\ Row(r)!RunStatus = RunStatus
         /\ Row(r)!ValidTransitions = ValidTransitions
         /\ Row(r)!NoRow = [status |-> "none", reason |-> NoReason, scored |-> FALSE]
         /\ {"completed", "failed"} \subseteq DOMAIN Row(r)!ReasonsFor
         /\ {"success", "submitted_unsolved"} \subseteq Row(r)!ReasonsFor["completed"]
         /\ "infrastructure_failure" \in Row(r)!ReasonsFor["failed"]
<1>1. Row(r)!RunStatus = RunStatus
  BY DEF Row!RunStatus, RunStatus
<1>2. Row(r)!NoReason = NoReason
  BY DEF Row!NoReason, NoReason
<1>3. Row(r)!ValidTransitions = ValidTransitions
  BY <1>1 DEF Row!ValidTransitions, ValidTransitions
<1>4. Row(r)!NoRow = [status |-> "none", reason |-> NoReason, scored |-> FALSE]
  BY <1>2 DEF Row!NoRow
<1>5. /\ {"completed", "failed"} \subseteq DOMAIN Row(r)!ReasonsFor
      /\ {"success", "submitted_unsolved"} \subseteq Row(r)!ReasonsFor["completed"]
      /\ "infrastructure_failure" \in Row(r)!ReasonsFor["failed"]
  BY DEF Row!ReasonsFor, Row!TerminalReason
<1>6. QED  BY <1>1, <1>2, <1>3, <1>4, <1>5

\* Each write is one the row's lifecycle has, where the row is by then.
LEMMA WriteStep ==
  ASSUME Types, NEW r \in Runs, RowAt(r), Writes(r)
  PROVE  /\ phase' \in [Runs -> Phases] /\ row' \in [Runs -> Rows]
         /\ \A q \in Runs \ {r} : phase'[q] = phase[q] /\ row'[q] = row[q]
         /\ RowAt(r)'
         /\ Row(r)!Next
<1> USE DEF Types
<1>1. CASE CreateRow(r)
  <2>1. phase[r] = "building" /\ phase' = [phase EXCEPT ![r] = "created"]
    BY <1>1 DEF CreateRow, Enter
  <2>2. row' = [row EXCEPT ![r].status = "queued"]
    BY <1>1 DEF CreateRow
  <2>3. row[r] = [status |-> "none", reason |-> NoReason, scored |-> FALSE]
    BY <2>1 DEF RowAt
  <2>4. Row(r)!Create
    BY <2>2, <2>3, RowInserted, SameWords DEF Row!Create
  <2>5. phase' \in [Runs -> Phases] /\ phase'[r] = "created" /\ \A q \in Runs \ {r} : phase'[q] = phase[q]
    BY <2>1 DEF Phases, Live, Holding
  <2>6. RowAt(r)'
    BY <2>2, <2>3, <2>5, RowInserted DEF RowAt
  <2>7. Row(r)!Next
    BY <2>4 DEF Row!Next
  <2>8. QED  BY <2>2, <2>5, <2>6, <2>7, RowInserted
<1>2. CASE StartRow(r)
  <2>1. phase[r] = "created" /\ phase' = [phase EXCEPT ![r] = "running"]
    BY <1>2 DEF StartRow, Enter
  <2>2. row' = [row EXCEPT ![r].status = "running", ![r].reason = NoReason]
    BY <1>2 DEF StartRow, SetRunStatus
  <2>3. row[r].status = "queued" /\ ~row[r].scored
    BY <2>1 DEF RowAt
  <2>4. NoReason \in Reasons /\ "running" \in RunStatus
    BY Transitions DEF Reasons
  <2>5. phase' \in [Runs -> Phases] /\ phase'[r] = "running" /\ \A q \in Runs \ {r} : phase'[q] = phase[q]
    BY <2>1 DEF Phases, Live, Holding
  <2>6. /\ row' \in [Runs -> Rows]
        /\ row'[r].status = "running" /\ row'[r].scored = row[r].scored
        /\ row'[r] = [row[r] EXCEPT !.status = "running", !.reason = NoReason]
        /\ \A q \in Runs \ {r} : row'[q] = row[q]
    BY <2>2, <2>4, StatusWritten
  <2>7. RowAt(r)'
    BY <2>3, <2>5, <2>6 DEF RowAt
  <2>8. row'[r] = [row[r] EXCEPT !.status = "running"]
    <3>1. row[r].reason = NoReason
      BY <2>1 DEF RowAt
    <3>2. QED  BY <2>6, <3>1 DEF Rows
  <2>9. Row(r)!Start /\ row[r].status \in RunStatus
    BY <2>3, <2>8, Transitions, SameWords DEF Row!Start
  <2>10. Row(r)!Next
    BY <2>9, SameWords DEF Row!Next
  <2>11. QED  BY <2>5, <2>6, <2>7, <2>10
<1>3. CASE SaveScorecard(r)
  <2>1. phase[r] = "scored" /\ phase' = [phase EXCEPT ![r] = "saved"]
    BY <1>3 DEF SaveScorecard, Enter
  <2>2. row' = [row EXCEPT ![r].scored = TRUE]
    BY <1>3 DEF SaveScorecard
  <2>3. row[r].status = "running" /\ ~row[r].scored
    BY <2>1 DEF RowAt
  <2>4. Row(r)!SaveScorecard /\ row[r].status \in RunStatus
    BY <2>2, <2>3, ScoreWritten, Transitions DEF Row!SaveScorecard
  <2>5. phase' \in [Runs -> Phases] /\ phase'[r] = "saved" /\ \A q \in Runs \ {r} : phase'[q] = phase[q]
    BY <2>1 DEF Phases, Live, Holding
  <2>6. RowAt(r)'
    BY <2>2, <2>3, <2>5, ScoreWritten DEF RowAt
  <2>7. Row(r)!Next
    BY <2>4, SameWords DEF Row!Next
  <2>8. QED  BY <2>2, <2>5, <2>6, <2>7, ScoreWritten
<1>4. CASE FinishedRow(r)
  <2>1. PICK s \in {"completed", "failed"}, reason \in TerminalReason :
          /\ phase[r] = IF s = "failed" THEN "closing" ELSE "saved"
          /\ reason \in IF s = "failed" THEN {"infrastructure_failure"}
                                        ELSE {"success", "submitted_unsolved"}
          /\ row' = [row EXCEPT ![r].status = s, ![r].reason = reason]
          /\ EndTask(r, "ended")
    BY <1>4 DEF FinishedRow
  <2>2. phase' = [phase EXCEPT ![r] = "ended"]
    BY <2>1 DEF EndTask, Enter
  <2>3. row[r].status = "running" /\ row[r].scored = (s # "failed")
    BY <2>1 DEF RowAt, Rows
  <2>4. s \in RunStatus /\ reason \in Reasons /\ s \in ValidTransitions[row[r].status] /\ s \in FinalStatus
    BY <2>1, <2>3, Transitions DEF Reasons
  <2>5. s \in DOMAIN Row(r)!ReasonsFor /\ reason \in Row(r)!ReasonsFor[s]
    BY <2>1, SameWords
  <2>6. /\ row' \in [Runs -> Rows]
        /\ row'[r].status = s
        /\ row'[r] = [row[r] EXCEPT !.status = s, !.reason = reason]
        /\ \A q \in Runs \ {r} : row'[q] = row[q]
    BY <2>1, <2>4, StatusWritten
  <2>7. Row(r)!End(s) /\ row[r].status \in RunStatus
    BY <2>3, <2>4, <2>5, <2>6, Transitions, SameWords DEF Row!End
  <2>8. phase' \in [Runs -> Phases] /\ phase'[r] = "ended" /\ \A q \in Runs \ {r} : phase'[q] = phase[q]
    BY <2>2 DEF Phases, Over
  <2>9. RowAt(r)'
    BY <2>4, <2>6, <2>8 DEF RowAt
  <2>10. Row(r)!Next
    BY <2>5, <2>7, SameWords DEF Row!Next
  <2>11. QED  BY <2>6, <2>8, <2>9, <2>10
<1>5. QED  BY <1>1, <1>2, <1>3, <1>4 DEF Writes

\* Every step keeps each row where its run's phase puts it.
LEMMA RowStep ==
  ASSUME Types, \A r \in Runs : RowAt(r), Next
  PROVE  /\ phase' \in [Runs -> Phases] /\ row' \in [Runs -> Rows]
         /\ \A q \in Runs : RowAt(q)'
         /\ \A q \in Runs : [Row(q)!Next]_(row[q])
<1>1. ASSUME NEW r \in Runs, Quiet(r)
      PROVE  /\ phase' \in [Runs -> Phases] /\ UNCHANGED row
             /\ \A q \in Runs : RowAt(q)'
  <2>1. PICK p \in Phases : phase' = [phase EXCEPT ![r] = p] /\ <<phase[r], p>> \in QuietMoves
    BY <1>1 DEF Quiet
  <2>2. phase' \in [Runs -> Phases] /\ phase'[r] = p /\ \A q \in Runs \ {r} : phase'[q] = phase[q]
    BY <2>1, OthersStay DEF Types
  <2>3. UNCHANGED row
    BY <1>1 DEF Quiet
  <2>4. RowAt(r)'
    BY <2>1, <2>2, <2>3 DEF RowAt, QuietMoves
  <2>5. \A q \in Runs \ {r} : RowAt(q)'
    BY <2>2, <2>3 DEF RowAt
  <2>6. QED  BY <2>2, <2>3, <2>4, <2>5
<1>2. ASSUME NEW r \in Runs, Writes(r)
      PROVE  /\ phase' \in [Runs -> Phases] /\ row' \in [Runs -> Rows]
             /\ \A q \in Runs : RowAt(q)'
             /\ \A q \in Runs : [Row(q)!Next]_(row[q])
  <2>1. /\ phase' \in [Runs -> Phases] /\ row' \in [Runs -> Rows]
        /\ \A q \in Runs \ {r} : phase'[q] = phase[q] /\ row'[q] = row[q]
        /\ RowAt(r)'
        /\ Row(r)!Next
    BY <1>2, WriteStep
  <2>2. \A q \in Runs \ {r} : RowAt(q)'
    BY <2>1 DEF RowAt
  <2>3. QED  BY <2>1, <2>2
<1>3. CASE UNCHANGED <<phase, row>>
  BY <1>3 DEF Types, RowAt
<1>4. CASE Crash
  <2>1. /\ \A q \in Runs : phase'[q] = IF phase[q] \in Live THEN "lost" ELSE phase[q]
        /\ phase' \in [Runs -> Phases]
        /\ UNCHANGED row
    BY <1>4 DEF Crash, store, Types, Phases
  <2>2. QED  BY <2>1 DEF Types, RowAt
<1>5. QED  BY <1>1, <1>2, <1>3, <1>4, RowShapes DEF Types

-------------------------------------------------------------------------------
(***************************************************************************)
(* What a step does to the log, and what the stream has read of it.        *)
(***************************************************************************)
\* A step about r emits no score, or emits it as r passes from closing to
\* scored, or leaves every log alone and undoes no score.
Scores(r) ==
  /\ phase[r] = "closing"
  /\ phase' = [phase EXCEPT ![r] = "scored"]
  /\ Emit(r, "score.completed")

Logs(r) ==
  /\ phase[r] \in {"building", "created", "running"}
  /\ \E p \in {"created", "running", "closing"} : phase' = [phase EXCEPT ![r] = p]
  /\ \E type \in EventTypes \ {"score.completed"} : Emit(r, type)

Silent ==
  /\ UNCHANGED events
  /\ \A q \in Runs : phase[q] \in {"scored", "saved", "ended", "lost"} =>
                       phase'[q] \in {"scored", "saved", "ended", "lost"}

\* What a step does to the logs: one run scores or writes, or nothing is logged.
LEMMA LogShapes ==
  ASSUME Types, Next
  PROVE  (\E r \in Runs : Scores(r) \/ Logs(r)) \/ Silent
<1>1. ASSUME NEW r \in Runs, Spawn(r) \/ Acquire(r) \/ CancelRun(r) \/ SaveScorecard(r)
      PROVE  Silent
  BY <1>1 DEF Spawn, Acquire, CancelRun, SaveScorecard, Enter, Silent, Types
<1>2. ASSUME NEW r \in Runs, BuildFails(r) \/ InitialStateFails(r) \/ RunRaises(r) \/ DeliverCancel(r)
      PROVE  Silent
  BY <1>2 DEF BuildFails, InitialStateFails, RunRaises, DeliverCancel, EndTask, Enter, Silent, Types
<1>3. ASSUME NEW r \in Runs, Complete(r) \/ Fail(r)
      PROVE  Silent
  BY <1>3, Finishes DEF FinishedRow, EndTask, Enter, Silent, Types
<1>4. ASSUME NEW r \in Runs, CreateRow(r) \/ StartRow(r) \/ WriteTerminal(r)
      PROVE  Logs(r)
  BY <1>4 DEF CreateRow, StartRow, WriteTerminal, Enter, Logs, EventTypes
<1>5. ASSUME NEW r \in Runs, WriteScore(r)
      PROVE  Scores(r)
  BY <1>5 DEF WriteScore, Enter, Scores
<1>6. ASSUME NEW r \in Watched, OpenStream(r) \/ Poll(r)
      PROVE  Silent
  BY <1>6 DEF OpenStream, Poll, SendNew, CheckDone, Silent
<1>7. CASE Crash
  BY <1>7 DEF Crash, store, Silent, Types, Live, Holding
<1>8. QED  BY <1>1, <1>2, <1>3, <1>4, <1>5, <1>6, <1>7 DEF Next, TaskStep

\* Every step keeps each log where its run's phase puts it.
LEMMA LogStep ==
  ASSUME Types, \A r \in Runs : LogAt(r), Next
  PROVE  /\ events' \in [Runs -> Seq(EventTypes)]
         /\ \A q \in Runs : LogAt(q)'
         /\ \A q \in Runs : /\ Len(events[q]) <= Len(events'[q])
                            /\ \A i \in 1..Len(events[q]) : events'[q][i] = events[q][i]
<1>1. ASSUME NEW r \in Runs, NEW type \in EventTypes, Emit(r, type),
             NEW p \in Phases, phase' = [phase EXCEPT ![r] = p],
             phase[r] \in {"building", "created", "running", "closing"},
             type = "score.completed" => p = "scored"
      PROVE  /\ events' \in [Runs -> Seq(EventTypes)]
             /\ \A q \in Runs : LogAt(q)'
             /\ \A q \in Runs : /\ Len(events[q]) <= Len(events'[q])
                                /\ \A i \in 1..Len(events[q]) : events'[q][i] = events[q][i]
  <2>1. /\ events' \in [Runs -> Seq(EventTypes)]
        /\ Len(events'[r]) = Len(events[r]) + 1
        /\ \A i \in 1..Len(events[r]) : events'[r][i] = events[r][i]
        /\ events'[r][Len(events[r]) + 1] = type
        /\ \A q \in Runs \ {r} : events'[q] = events[q]
    BY <1>1, Emitted DEF Types
  <2>2. phase'[r] = p /\ \A q \in Runs \ {r} : phase'[q] = phase[q]
    BY <1>1 DEF Types
  <2>3. \A q \in Runs : Len(events[q]) \in Nat
    BY DEF Types
  <2>4. \A i \in 1..Len(events[r]) : events[r][i] # "score.completed"
    BY <1>1 DEF LogAt
  <2>5. LogAt(r)'
    <3>1. SUFFICES ASSUME NEW i \in 1..Len(events'[r]), events'[r][i] = "score.completed"
                   PROVE  i = Len(events'[r]) /\ phase'[r] = "scored"
      BY DEF LogAt
    <3>2. i \notin 1..Len(events[r])
      BY <2>1, <2>4, <3>1
    <3>3. i = Len(events[r]) + 1
      BY <2>1, <2>3, <3>2
    <3>4. QED  BY <1>1, <2>1, <2>2, <3>1, <3>3
  <2>6. \A q \in Runs \ {r} : LogAt(q)'
    BY <2>1, <2>2 DEF LogAt
  <2>7. QED  BY <2>1, <2>3, <2>5, <2>6
<1>2. ASSUME NEW r \in Runs, Scores(r) \/ Logs(r)
      PROVE  \E type \in EventTypes, p \in Phases :
               /\ Emit(r, type)
               /\ phase' = [phase EXCEPT ![r] = p]
               /\ phase[r] \in {"building", "created", "running", "closing"}
               /\ type = "score.completed" => p = "scored"
  BY <1>2 DEF Scores, Logs, EventTypes, Phases, Live, Holding
<1>3. CASE Silent
  BY <1>3 DEF Silent, Types, LogAt
<1>4. QED  BY <1>1, <1>2, <1>3, LogShapes

\* A task that is over stays over.
LEMMA OverIsFinal ==
  ASSUME Types, Next, NEW q \in Runs, phase[q] \in {"ended", "lost"}
  PROVE  phase'[q] = phase[q]
<1>1. ASSUME NEW r \in Runs, Spawn(r) \/ Acquire(r) \/ Moves(r) \/ Ends(r)
      PROVE  phase'[q] = phase[q]
  BY <1>1 DEF Types, Spawn, Acquire, Moves, Ends, EndTask, Enter, Live, Holding
<1>2. QED  BY <1>1, Shapes DEF Stays, Crash, Live, Holding

\* What the streams do: nothing, one step of one of them, or a new start.
StreamStep(r) ==
  \/ stream' = [stream EXCEPT ![r].state = "open"]
  \/ SendNew(r)
  \/ CheckDone(r)

\* What a step does to the streams: nothing, a step of one stream, or all are closed.
LEMMA StreamShapes ==
  ASSUME Next
  PROVE  \/ UNCHANGED stream
         \/ \E r \in Watched : StreamStep(r) /\ UNCHANGED <<phase, events>>
         \/ stream' = [r \in Watched |-> ClosedStream]
<1>1. ASSUME NEW r \in Runs, TaskStep(r) \/ Spawn(r) \/ CancelRun(r)
      PROVE  UNCHANGED stream
  <2>1. CASE Complete(r) \/ Fail(r)
    BY <2>1, Finishes
  <2>2. CASE ~(Complete(r) \/ Fail(r))
    BY <1>1, <2>2 DEF TaskStep, Spawn, CancelRun, Acquire, CreateRow, BuildFails, StartRow,
                      InitialStateFails, RunRaises, WriteTerminal, WriteScore, SaveScorecard,
                      DeliverCancel
  <2>3. QED  BY <2>1, <2>2
<1>2. ASSUME NEW r \in Watched, OpenStream(r) \/ Poll(r)
      PROVE  StreamStep(r) /\ UNCHANGED <<phase, events>>
  BY <1>2 DEF OpenStream, Poll, SendNew, CheckDone, StreamStep
<1>3. CASE Crash
  BY <1>3 DEF Crash
<1>4. QED  BY <1>1, <1>2, <1>3 DEF Next

\* Every step keeps the streams behind their logs.
LEMMA StreamInvStep ==
  ASSUME Types, PermitInv, \A r \in Runs : LogAt(r), \A r \in Watched : StreamAt(r), Next
  PROVE  stream' \in [Watched -> Streams] /\ \A r \in Watched : StreamAt(r)'
<1> USE ServerAssumption
<1>1. \A r \in Watched : r \in Runs /\ stream[r] \in Streams /\ Len(events[r]) \in Nat
  BY DEF Types
<1>2. \A r \in Watched : /\ Len(events[r]) <= Len(events'[r])
                         /\ \A i \in 1..Len(events[r]) : events'[r][i] = events[r][i]
                         /\ Len(events'[r]) \in Nat
  BY <1>1, LogStep
\* Who has seen a score has seen the last event of a run that is ending.
<1>3. ASSUME NEW r \in Watched, stream[r].seen
      PROVE  /\ stream[r].offset = Len(events[r])
             /\ phase[r] \in {"scored", "saved", "ended", "lost"}
  <2>1. PICK i \in 1..stream[r].offset : events[r][i] = "score.completed"
    BY <1>3 DEF StreamAt
  <2>2. stream[r].offset \in Nat /\ stream[r].offset <= Len(events[r])
    BY <1>1 DEF StreamAt, Streams
  <2>3. i \in 1..Len(events[r])
    BY <1>1, <2>2
  <2>4. i = Len(events[r]) /\ phase[r] \in {"scored", "saved", "ended", "lost"}
    BY <1>1, <2>1, <2>3 DEF LogAt
  <2>5. QED  BY <1>1, <2>2, <2>4
<1>4. ASSUME NEW r \in Watched, stream'[r] = stream[r]
      PROVE  StreamAt(r)'
  <2>1. stream[r].offset \in Nat /\ stream[r].offset <= Len(events'[r])
    BY <1>1, <1>2 DEF StreamAt, Streams
  <2>2. stream[r].seen => \E i \in 1..stream[r].offset : events'[r][i] = "score.completed"
    <3>1. 1..stream[r].offset \subseteq 1..Len(events[r])
      BY <1>1, <2>1 DEF StreamAt
    <3>2. QED  BY <1>2, <3>1 DEF StreamAt
  <2>3. stream[r].state = "done" => stream[r].seen /\ phase'[r] \notin Live
    BY <1>1, <1>3, OverIsFinal DEF StreamAt, Live, Holding
  <2>4. QED  BY <1>4, <2>1, <2>2, <2>3 DEF StreamAt
<1>5. CASE UNCHANGED stream
  BY <1>4, <1>5 DEF Types
<1>6. ASSUME NEW r \in Watched, StreamStep(r), UNCHANGED <<phase, events>>
      PROVE  stream' \in [Watched -> Streams] /\ \A q \in Watched : StreamAt(q)'
  <2> DEFINE s == stream[r]
             n == Len(events[r])
  <2>1. s \in Streams /\ n \in Nat /\ stream \in [Watched -> Streams] /\ s.offset <= n
    BY <1>1 DEF Types, StreamAt
  <2>2. CASE stream' = [stream EXCEPT ![r].state = "open"]
    <3>1. /\ stream' \in [Watched -> Streams]
          /\ stream'[r].state = "open" /\ stream'[r].offset = s.offset /\ stream'[r].seen = s.seen
          /\ \A q \in Watched \ {r} : stream'[q] = stream[q]
      BY <2>1, <2>2 DEF Streams
    <3>2. StreamAt(r)'
      BY <1>6, <3>1 DEF StreamAt
    <3>3. QED  BY <1>4, <3>1, <3>2
  <2>3. CASE SendNew(r)
    <3> DEFINE new == SubSeq(events[r], s.offset + 1, n)
               seen == s.seen \/ Contains(new, "score.completed")
    <3>1. stream' = [stream EXCEPT ![r].state = "sent", ![r].offset = n, ![r].seen = seen]
      BY <2>3 DEF SendNew
    <3>2. s.seen \in BOOLEAN
      BY <2>1 DEF Streams
    <3>3. seen \in BOOLEAN
      BY <3>2 DEF Contains
    <3>4. seen => \E i \in 1..n : events[r][i] = "score.completed"
      <4>1. CASE s.seen
        <5>1. 1..s.offset \subseteq 1..n
          BY <2>1 DEF Streams
        <5>2. QED  BY <4>1, <5>1 DEF StreamAt
      <4>2. CASE Contains(new, "score.completed")
        <5>1. s.offset + 1 \in 1..(n + 1)
          BY <2>1 DEF Streams
        <5>2. events[r] \in Seq(EventTypes)
          BY <1>1 DEF Types
        <5>3. PICK i \in 1..Len(new) : new[i] = "score.completed"
          BY <4>2, <5>1, <5>2 DEF Contains
        <5>4. Len(new) = n - s.offset /\ new[i] = events[r][s.offset + i]
          <6>1. s.offset \in Nat /\ s.offset <= n
            BY <2>1 DEF Streams
          <6> DEFINE e == events[r]
                     o == s.offset
          <6>2. e \in Seq(EventTypes) /\ o \in Nat /\ o <= n /\ n = Len(e)
            BY <5>2, <6>1
          <6>3. new = SubSeq(e, o + 1, n)
            OBVIOUS
          <6> HIDE DEF s, n, e, o, new
          <6>4. Len(new) = n - o
            BY <6>2, <6>3
          <6>5. new[i] = e[o + i]
            BY <5>3, <6>2, <6>3, <6>4
          <6>6. QED  BY <6>4, <6>5 DEF e, o
        <5>5. \A o, m \in Nat : \A j \in 1..(m - o) : o + j \in 1..m
          OBVIOUS
        <5>6. s.offset \in Nat /\ i \in 1..(n - s.offset)
          BY <2>1, <5>4 DEF Streams
        <5> HIDE DEF s, n
        <5>7. s.offset + i \in 1..n
          BY <2>1, <5>5, <5>6
        <5>8. QED  BY <5>3, <5>4, <5>7 DEF s
      <4>3. QED  BY <4>1, <4>2
    <3> HIDE DEF seen
    <3>5. /\ stream' \in [Watched -> Streams]
          /\ stream'[r].state = "sent" /\ stream'[r].offset = n /\ stream'[r].seen = seen
          /\ \A q \in Watched \ {r} : stream'[q] = stream[q]
      BY <2>1, <3>1, <3>3 DEF Streams
    <3>6. StreamAt(r)'
      BY <1>6, <2>1, <3>4, <3>5 DEF StreamAt
    <3>7. QED  BY <1>4, <3>5, <3>6
  <2>4. CASE CheckDone(r)
    <3> DEFINE done == s.seen /\ r \notin active
               state == IF done THEN "done"
                        ELSE IF s.polls + 1 = MaxPolls THEN "timeout" ELSE "open"
    <3>1. stream' = [stream EXCEPT ![r].state = state, ![r].polls = @ + 1]
      BY <2>4 DEF CheckDone
    <3>2. state \in {"done", "timeout", "open"}
      OBVIOUS
    <3>3. state = "done" => s.seen /\ phase[r] \notin Live
      BY <1>1 DEF PermitInv
    <3> HIDE DEF state
    <3>4. /\ stream' \in [Watched -> Streams]
          /\ stream'[r].state = state /\ stream'[r].offset = s.offset /\ stream'[r].seen = s.seen
          /\ \A q \in Watched \ {r} : stream'[q] = stream[q]
      BY <2>1, <3>1, <3>2 DEF Streams
    <3>5. StreamAt(r)'
      BY <1>6, <3>3, <3>4 DEF StreamAt
    <3>6. QED  BY <1>4, <3>4, <3>5
  <2>5. QED  BY <1>6, <2>2, <2>3, <2>4 DEF StreamStep
<1>7. CASE stream' = [r \in Watched |-> ClosedStream]
  <2>1. ClosedStream \in Streams
    BY DEF ClosedStream, Streams
  <2>2. QED  BY <1>1, <1>2, <1>7, <2>1 DEF StreamAt, ClosedStream
<1>8. QED  BY <1>5, <1>6, <1>7, StreamShapes

-------------------------------------------------------------------------------
(***************************************************************************)
(* The invariant, and what follows from it.                                *)
(***************************************************************************)
LEMMA InitServer == Init => ServerInv
<1>1. SUFFICES ASSUME Init
               PROVE  ServerInv
  OBVIOUS
<1> USE <1>1, ServerAssumption DEF Init
<1>2. Types
  BY DEF Types, Phases, Live, Holding, Over, Rows, Reasons, Streams, ClosedStream
<1>3. PermitInv
  <2>1. Holders = {} /\ {r \in Runs : phase[r] \in Live} = {}
    BY DEF Holders, Holding, Live
  <2>2. IsFiniteSet(Holders) /\ Cardinality(Holders) = 0
    BY <2>1, FS_EmptySet
  <2>3. permits = Capacity /\ Capacity \in Nat /\ Capacity + 0 = Capacity /\ active = {}
    OBVIOUS
  <2>4. QED  BY <2>1, <2>2, <2>3 DEF PermitInv
<1>4. QueueInv
  BY DEF QueueInv
<1>5. \A r \in Runs : RowAt(r) /\ LogAt(r)
  BY DEF RowAt, LogAt
<1>6. \A r \in Watched : StreamAt(r)
  BY DEF StreamAt, ClosedStream
<1>7. QED  BY <1>2, <1>3, <1>4, <1>5, <1>6 DEF ServerInv

\* Every step, and every stutter, keeps the invariant.
LEMMA NextServer == ServerInv /\ [Next]_vars => ServerInv'
<1>1. SUFFICES ASSUME ServerInv, [Next]_vars
               PROVE  ServerInv'
  OBVIOUS
<1>2. CASE Next
  <2>1. Types'
    BY <1>1, <1>2, RowStep, LogStep, StreamInvStep DEF ServerInv, Types
  <2>2. PermitInv' /\ QueueInv'
    BY <1>1, <1>2, PermitStep, QueueStep DEF ServerInv
  <2>3. (\A r \in Runs : RowAt(r)') /\ (\A r \in Runs : LogAt(r)')
    BY <1>1, <1>2, RowStep, LogStep DEF ServerInv
  <2>4. \A r \in Watched : StreamAt(r)'
    BY <1>1, <1>2, StreamInvStep DEF ServerInv
  <2>5. QED  BY <2>1, <2>2, <2>3, <2>4 DEF ServerInv
<1>3. CASE UNCHANGED vars
  BY <1>1, <1>3 DEF vars, ServerInv, Types, PermitInv, Holders, QueueInv, RowAt, LogAt, StreamAt
<1>4. QED  BY <1>1, <1>2, <1>3

\* Permits, queue, rows, logs and streams agree with the phase of each run, always.
THEOREM ServerInvariant == Spec => []ServerInv
  BY InitServer, NextServer, PTL DEF Spec

\* Permits, registry and queue are accounted for, however many runs there are,
\* however they end and however often the process is lost.
THEOREM PermitsAreAccounted == Spec => []PermitsAccounted
<1>1. ServerInv => PermitsAccounted
  <2>1. SUFFICES ASSUME ServerInv
                 PROVE  PermitsAccounted
    OBVIOUS
  <2>2. Cardinality(Holders) \in Nat
    BY <2>1, FS_CardinalityType DEF ServerInv, PermitInv
  <2>3. permits \in 0..Capacity
    BY <2>1, <2>2, ServerAssumption DEF ServerInv, PermitInv
  <2>4. waiters \in Seq(Runs) /\ DOMAIN waiters = 1..Len(waiters) /\ Len(waiters) \in Nat
    BY <2>1 DEF ServerInv, QueueInv
  <2>5. ToSet(waiters) = {r \in Runs : phase[r] = "waiting"}
    BY <2>1, <2>4 DEF ServerInv, QueueInv, ToSet
  <2>6. Cardinality(ToSet(waiters)) = Len(waiters)
    <3>1. waiters \in Bijection(1..Len(waiters), ToSet(waiters))
      BY <2>1, <2>4 DEF ServerInv, QueueInv, ToSet, Bijection, Injection, Surjection, IsInjective
    <3>2. ExistsBijection(1..Len(waiters), ToSet(waiters))
      BY <3>1 DEF ExistsBijection
    <3>3. IsFiniteSet(1..Len(waiters)) /\ Cardinality(1..Len(waiters)) = Len(waiters)
      BY <2>4, FS_Interval
    <3>4. QED  BY <3>2, <3>3, FS_Bijection
  <2>7. QED  BY <2>1, <2>3, <2>5, <2>6 DEF PermitsAccounted, ServerInv, PermitInv
<1>2. QED  BY <1>1, ServerInvariant, PTL

\* A stream that says "done" has sent everything of a run that is over.
THEOREM DoneIsFinal == Spec => []StreamDoneIsFinal
<1>1. ServerInv => StreamDoneIsFinal
  <2>1. SUFFICES ASSUME ServerInv, NEW r \in Watched, stream[r].state = "done"
                 PROVE  /\ stream[r].offset = Len(events[r])
                        /\ row[r].status \in FinalStatus \/ phase[r] = "lost"
    BY DEF StreamDoneIsFinal
  <2>2. r \in Runs /\ stream[r].offset \in Nat /\ Len(events[r]) \in Nat
    BY <2>1, ServerAssumption DEF ServerInv, Types, Streams
  <2>3. /\ stream[r].offset <= Len(events[r])
        /\ stream[r].seen
        /\ phase[r] \notin Live
    BY <2>1 DEF ServerInv, StreamAt
  <2>4. PICK i \in 1..stream[r].offset : events[r][i] = "score.completed"
    BY <2>1, <2>3 DEF ServerInv, StreamAt
  <2>5. i \in 1..Len(events[r])
    BY <2>2, <2>3
  <2>6. i = Len(events[r]) /\ phase[r] \in {"scored", "saved", "ended", "lost"}
    BY <2>1, <2>2, <2>4, <2>5 DEF ServerInv, LogAt
  <2>7. phase[r] \in {"ended", "lost"}
    BY <2>3, <2>6 DEF Live, Holding
  <2>8. phase[r] = "ended" => row[r].status \in FinalStatus
    BY <2>1, <2>2 DEF ServerInv, RowAt
  <2>9. stream[r].offset = Len(events[r])
    BY <2>2, <2>3, <2>6
  <2>10. QED  BY <2>7, <2>8, <2>9
<1>2. QED  BY <1>1, ServerInvariant, PTL

\* The rows of all runs follow the lifecycle of the table, each step one of
\* RunLifecycle's or none.
THEOREM RowsAreLifecycles == Spec => RowsFollowLifecycle
<1>1. Init => \A r \in Runs : Row(r)!Init
  BY SameWords DEF Init, Row!Init
<1>2. ServerInv /\ [Next]_vars => [\A r \in Runs : [Row(r)!Next]_(row[r])]_row
  <2>1. SUFFICES ASSUME ServerInv, [Next]_vars
                 PROVE  [\A r \in Runs : [Row(r)!Next]_(row[r])]_row
    OBVIOUS
  <2>2. CASE Next
    BY <2>1, <2>2, RowStep DEF ServerInv
  <2>3. CASE UNCHANGED vars
    BY <2>3 DEF vars
  <2>4. QED  BY <2>1, <2>2, <2>3
<1>3. QED  BY <1>1, <1>2, ServerInvariant, PTL DEF Spec, RowsFollowLifecycle

===============================================================================
