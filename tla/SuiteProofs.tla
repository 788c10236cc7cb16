------------------------------ MODULE SuiteProofs ------------------------------
(***************************************************************************)
(* Theorems, for any jobs, suites, pool sizes, thresholds and labels: the  *)
(* summary of a suite and the runs table agree, and the gate that reads    *)
(* the table weighs every pair of runs by the first run of its key.        *)
(***************************************************************************)
EXTENDS SuiteProperties, SequenceTheorems, FiniteSetTheorems, TLAPS

(***************************************************************************)
(* The invariant.  A job has at most one row: none while it waits, one     *)
(* once it is open, and none or one when it ended in an error; the row     *)
(* says how a job that returned ended, and else nothing yet.               *)
(***************************************************************************)
Row ==
  [job : Jobs, key : {KeyOf[j] : j \in Jobs},
   status : {"queued", "running", "completed", "failed"},
   reason : TerminalReason \cup {NoReason}, scored : BOOLEAN, violations : Nat]

RowFits(s, r) ==
  IF s = "returned"
  THEN r.status = "completed" \/ (r.status = "failed" /\ r.reason # "success")
  ELSE r.status \in {"queued", "running"} /\ r.reason = NoReason

JobFits(j) ==
  /\ \A i, k \in RowsOfJob(j) : i = k
  /\ state[j] = "waiting" => RowsOfJob(j) = {}
  /\ state[j] \in {"open", "returned"} => RowsOfJob(j) # {}
  /\ \A i \in RowsOfJob(j) : RowFits(state[j], rows[Rev(j)][i])

SuiteInv ==
  /\ state \in [Jobs -> {"waiting", "open"} \cup Ended]
  /\ rows \in [Revisions -> Seq(Row)]
  /\ \A j \in Jobs : JobFits(j)

-------------------------------------------------------------------------------
(***************************************************************************)
(* The two ways a table changes: a row is added to a waiting job, and the  *)
(* row of an open job is overwritten.                                      *)
(***************************************************************************)
\* The revision of a job has a list of rows.
LEMMA RevisionOfAJob ==
  ASSUME NEW j \in Jobs
  PROVE  Rev(j) \in Revisions
  BY SuiteAssumption DEF Rev, Revisions

\* A waiting job gets its row.
LEMMA RowAdded ==
  ASSUME SuiteInv, NEW j \in Jobs, state[j] = "waiting", NEW r \in Row, r.job = j,
         RowFits("open", r),
         rows' = [rows EXCEPT ![Rev(j)] = Append(@, r)],
         state' = [state EXCEPT ![j] = "open"]
  PROVE  SuiteInv'
<1> DEFINE old == rows[Rev(j)]
           new == Append(old, r)
           n == Len(old) + 1
<1>1. Rev(j) \in Revisions
  BY RevisionOfAJob
<1>2. old \in Seq(Row)
  BY <1>1 DEF SuiteInv
<1> HIDE DEF old
<1>3. /\ new \in Seq(Row)
      /\ DOMAIN new = DOMAIN old \cup {n} /\ n \notin DOMAIN old
      /\ \A i \in DOMAIN old : new[i] = old[i]
      /\ new[n] = r
  BY <1>2, AppendProperties
<1> HIDE DEF new, n
<1>4. rows' = [rows EXCEPT ![Rev(j)] = new]
  BY DEF new, old
<1>5. rows' \in [Revisions -> Seq(Row)] /\ rows'[Rev(j)] = new
  <2>1. rows \in [Revisions -> Seq(Row)] /\ new \in Seq(Row)
    BY <1>3 DEF SuiteInv
  <2>2. QED
    BY <1>1, <1>4, <2>1
<1>6. state' \in [Jobs -> {"waiting", "open"} \cup Ended] /\ state'[j] = "open"
  BY DEF SuiteInv
<1>7. ASSUME NEW k \in Jobs
      PROVE  JobFits(k)'
  <2>1. Rev(k) \in Revisions /\ JobFits(k)
    BY RevisionOfAJob DEF SuiteInv
  <2>2. CASE k = j
    <3>1. RowsOfJob(j) = {}
      BY <2>1, <2>2 DEF JobFits
    <3>2. RowsOfJob(j)' = {n}
      BY <1>3, <1>5, <3>1 DEF RowsOfJob, old
    <3>3. QED  BY <1>3, <1>5, <1>6, <2>2, <3>2 DEF JobFits
  <2>3. CASE k # j
    <3>1. state'[k] = state[k]
      BY <2>3 DEF SuiteInv
    <3>2. CASE Rev(k) = Rev(j)
      <4>1. RowsOfJob(k)' = RowsOfJob(k)
        BY <1>3, <1>5, <2>3, <3>2 DEF RowsOfJob, old
      <4>2. \A i \in RowsOfJob(k) : rows'[Rev(k)][i] = rows[Rev(k)][i]
        BY <1>3, <1>5, <3>2 DEF RowsOfJob, old
      <4>3. QED  BY <2>1, <3>1, <4>1, <4>2 DEF JobFits
    <3>3. CASE Rev(k) # Rev(j)
      <4>1. rows'[Rev(k)] = rows[Rev(k)]
        BY <1>4, <2>1, <3>3 DEF SuiteInv
      <4>2. RowsOfJob(k)' = RowsOfJob(k)
        BY <4>1 DEF RowsOfJob
      <4>3. QED  BY <2>1, <3>1, <4>1, <4>2 DEF JobFits
    <3>4. QED  BY <3>2, <3>3
  <2>4. QED  BY <2>2, <2>3
<1>8. QED  BY <1>5, <1>6, <1>7 DEF SuiteInv

\* The row of an open job is overwritten.
LEMMA RowRevised ==
  ASSUME SuiteInv, NEW j \in Jobs, NEW i \in RowsOfJob(j), NEW s \in {"open", "returned"},
         NEW r \in Row, r.job = j, RowFits(s, r),
         rows' = [rows EXCEPT ![Rev(j)] = [rows[Rev(j)] EXCEPT ![i] = r]],
         state' = [state EXCEPT ![j] = s]
  PROVE  SuiteInv'
<1> DEFINE old == rows[Rev(j)]
           new == [old EXCEPT ![i] = r]
<1>1. Rev(j) \in Revisions
  BY RevisionOfAJob
<1>2. old \in Seq(Row) /\ i \in 1..Len(old) /\ DOMAIN old = 1..Len(old) /\ old[i].job = j
  BY <1>1 DEF SuiteInv, RowsOfJob
<1> HIDE DEF old
<1>3. /\ new \in Seq(Row) /\ DOMAIN new = DOMAIN old
      /\ new[i] = r /\ \A k \in DOMAIN old : k # i => new[k] = old[k]
  BY <1>2, ExceptSeq
<1> HIDE DEF new
<1>4. rows' = [rows EXCEPT ![Rev(j)] = new]
  BY DEF new, old
<1>5. rows' \in [Revisions -> Seq(Row)] /\ rows'[Rev(j)] = new
  <2>1. rows \in [Revisions -> Seq(Row)] /\ new \in Seq(Row)
    BY <1>3 DEF SuiteInv
  <2>2. QED
    BY <1>1, <1>4, <2>1
<1>6. state' \in [Jobs -> {"waiting", "open"} \cup Ended] /\ state'[j] = s
  BY DEF SuiteInv, Ended
<1>7. ASSUME NEW k \in Jobs
      PROVE  JobFits(k)'
  <2>1. Rev(k) \in Revisions /\ JobFits(k)
    BY RevisionOfAJob DEF SuiteInv
  <2>2. CASE k = j
    <3>1. RowsOfJob(j)' = RowsOfJob(j)
      BY <1>2, <1>3, <1>5 DEF RowsOfJob, old
    <3>2. \A m \in RowsOfJob(j) : m = i
      BY <2>1, <2>2 DEF JobFits
    <3>3. QED  BY <1>3, <1>5, <1>6, <2>2, <3>1, <3>2 DEF JobFits
  <2>3. CASE k # j
    <3>1. state'[k] = state[k]
      BY <2>3 DEF SuiteInv
    <3>2. CASE Rev(k) = Rev(j)
      <4>1. RowsOfJob(k)' = RowsOfJob(k) /\ i \notin RowsOfJob(k)
        BY <1>2, <1>3, <1>5, <2>3, <3>2 DEF RowsOfJob, old
      <4>2. \A m \in RowsOfJob(k) : rows'[Rev(k)][m] = rows[Rev(k)][m]
        BY <1>3, <1>5, <3>2, <4>1 DEF RowsOfJob, old
      <4>3. QED  BY <2>1, <3>1, <4>1, <4>2 DEF JobFits
    <3>3. CASE Rev(k) # Rev(j)
      <4>1. rows'[Rev(k)] = rows[Rev(k)]
        BY <1>4, <2>1, <3>3 DEF SuiteInv
      <4>2. RowsOfJob(k)' = RowsOfJob(k)
        BY <4>1 DEF RowsOfJob
      <4>3. QED  BY <2>1, <3>1, <4>1, <4>2 DEF JobFits
    <3>4. QED  BY <3>2, <3>3
  <2>4. QED  BY <2>2, <2>3
<1>8. QED  BY <1>5, <1>6, <1>7 DEF SuiteInv

-------------------------------------------------------------------------------
(***************************************************************************)
(* The steps.                                                              *)
(***************************************************************************)
\* The row of an open job says nothing yet of how it ends.
LEMMA OpenRow ==
  ASSUME SuiteInv, NEW j \in Jobs, NEW i \in RowsOfJob(j), state[j] = "open"
  PROVE  /\ rows[Rev(j)][i] \in Row /\ rows[Rev(j)][i].job = j
         /\ RowFits("open", rows[Rev(j)][i])
<1>1. Rev(j) \in Revisions
  BY RevisionOfAJob
<1>2. rows[Rev(j)][i] \in Row
  BY <1>1 DEF SuiteInv, RowsOfJob
<1>3. QED  BY <1>2 DEF RowsOfJob, SuiteInv, JobFits

\* A row that is revised is still a row of its job.
LEMMA RevisedRows ==
  ASSUME NEW q \in Row
  PROVE  /\ LET r == [q EXCEPT !.status = "running"]
            IN  r \in Row /\ r.job = q.job /\ (RowFits("open", q) => RowFits("open", r))
         /\ \A n \in Nat :
              LET r == [q EXCEPT !.scored = TRUE, !.violations = n]
              IN  r \in Row /\ r.job = q.job /\ (RowFits("open", q) => RowFits("open", r))
         /\ \A reason \in TerminalReason :
              LET r == [q EXCEPT !.status = "completed", !.reason = reason]
              IN  r \in Row /\ r.job = q.job /\ RowFits("returned", r)
         /\ LET r == [q EXCEPT !.status = "failed", !.reason = "infrastructure_failure"]
            IN  r \in Row /\ r.job = q.job /\ RowFits("returned", r)
<1>1. "infrastructure_failure" \in TerminalReason
  BY DEF TerminalReason
<1>2. LET r == [q EXCEPT !.status = "running"]
      IN  r \in Row /\ r.job = q.job /\ (RowFits("open", q) => RowFits("open", r))
  BY DEF Row, RowFits
<1>3. ASSUME NEW n \in Nat
      PROVE  LET r == [q EXCEPT !.scored = TRUE, !.violations = n]
             IN  r \in Row /\ r.job = q.job /\ (RowFits("open", q) => RowFits("open", r))
  BY DEF Row, RowFits
<1>4. ASSUME NEW reason \in TerminalReason
      PROVE  LET r == [q EXCEPT !.status = "completed", !.reason = reason]
             IN  r \in Row /\ r.job = q.job /\ RowFits("returned", r)
  BY DEF Row, RowFits
<1>5. LET r == [q EXCEPT !.status = "failed", !.reason = "infrastructure_failure"]
      IN  r \in Row /\ r.job = q.job /\ RowFits("returned", r)
  BY <1>1 DEF Row, RowFits
<1>6. QED  BY <1>2, <1>3, <1>4, <1>5

\* A step of one job keeps the invariant.
LEMMA JobStep ==
  ASSUME SuiteInv, NEW j \in Jobs, Begin(j) \/ Advance(j)
  PROVE  SuiteInv'
<1>1. Rev(j) \in Revisions /\ SuiteOf[j] \in Suites
  BY RevisionOfAJob, SuiteAssumption
<1>2. CASE CreateRun(j)
  <2> DEFINE r == [job |-> j, key |-> KeyOf[j], status |-> "queued",
                   reason |-> NoReason, scored |-> FALSE, violations |-> 0]
  <2>1. r \in Row /\ r.job = j /\ RowFits("open", r)
    BY DEF Row, RowFits
  <2>2. /\ state[j] = "waiting" /\ state' = [state EXCEPT ![j] = "open"]
        /\ rows' = [rows EXCEPT ![Rev(j)] = Append(@, r)]
    BY <1>2 DEF CreateRun, CanAcquire, Become
  <2> HIDE DEF r
  <2>3. QED  BY <2>1, <2>2, RowAdded
<1>3. CASE \/ BuildFails(j)
           \/ Raise(j)
  <2>1. /\ state' = [state EXCEPT ![j] = "error"] /\ UNCHANGED rows
        /\ state[j] \in {"waiting", "open"}
    BY <1>3 DEF BuildFails, CanAcquire, Raise, Become, Open
  <2>2. \A k \in Jobs : state'[k] = (IF k = j THEN "error" ELSE state[k])
    BY <2>1 DEF SuiteInv
  <2>3. \A k : RowsOfJob(k)' = RowsOfJob(k)
    BY <2>1 DEF RowsOfJob
  <2>4. ASSUME NEW k \in Jobs
        PROVE  JobFits(k)'
    BY <2>1, <2>2, <2>3 DEF SuiteInv, JobFits, RowFits
  <2>5. QED  BY <2>1, <2>4 DEF SuiteInv, Ended
<1>4. ASSUME NEW i \in RowsOfJob(j), NEW s \in {"open", "returned"}, NEW r \in Row, r.job = j, RowFits(s, r),
             rows' = [rows EXCEPT ![Rev(j)] = [rows[Rev(j)] EXCEPT ![i] = r]],
             state' = [state EXCEPT ![j] = s]
      PROVE  SuiteInv'
  BY <1>4, RowRevised
<1>5. state[j] = "open" => [state EXCEPT ![j] = "open"] = state
  BY DEF SuiteInv
<1>6. CASE Start(j)
  <2>1. PICK i \in Open(j, "queued", FALSE) :
          /\ rows' = [rows EXCEPT ![Rev(j)][i] = [@ EXCEPT !.status = "running"]]
          /\ UNCHANGED state
    BY <1>6 DEF Start
  <2> DEFINE q == rows[Rev(j)][i]
             r == [q EXCEPT !.status = "running"]
  <2>2. i \in RowsOfJob(j) /\ state[j] = "open" /\ q \in Row /\ q.job = j /\ RowFits("open", q)
    <3>1. i \in RowsOfJob(j) /\ state[j] = "open"
      BY DEF Open
    <3>2. QED  BY <3>1, OpenRow
  <2>3. rows' = [rows EXCEPT ![Rev(j)] = [rows[Rev(j)] EXCEPT ![i] = r]]
    BY <2>1
  <2> HIDE DEF q
  <2>4. r \in Row /\ r.job = j /\ RowFits("open", r)
    BY <2>2, RevisedRows
  <2> HIDE DEF r
  <2>5. QED  BY <1>4, <1>5, <2>1, <2>2, <2>3, <2>4
<1>7. CASE SaveScorecard(j)
  <2>1. PICK i \in Open(j, "running", FALSE), o \in Outcomes[SuiteOf[j]] :
          /\ rows' = [rows EXCEPT ![Rev(j)][i] = [@ EXCEPT !.scored = TRUE, !.violations = o[2]]]
          /\ UNCHANGED state
    BY <1>7 DEF SaveScorecard
  <2> DEFINE q == rows[Rev(j)][i]
             r == [q EXCEPT !.scored = TRUE, !.violations = o[2]]
  <2>2. i \in RowsOfJob(j) /\ state[j] = "open" /\ q \in Row /\ q.job = j /\ RowFits("open", q)
    <3>1. i \in RowsOfJob(j) /\ state[j] = "open"
      BY DEF Open
    <3>2. QED  BY <3>1, OpenRow
  <2>3. rows' = [rows EXCEPT ![Rev(j)] = [rows[Rev(j)] EXCEPT ![i] = r]]
    BY <2>1
  <2> HIDE DEF q
  <2>4. o[2] \in Nat
    BY <1>1, SuiteAssumption
  <2>5. r \in Row /\ r.job = j /\ RowFits("open", r)
    BY <2>2, <2>4, RevisedRows
  <2> HIDE DEF r
  <2>6. QED  BY <1>4, <1>5, <2>1, <2>2, <2>3, <2>5
<1>8. CASE Complete(j)
  <2>1. PICK i \in Open(j, "running", TRUE), o \in Outcomes[SuiteOf[j]] :
          /\ rows' = [rows EXCEPT ![Rev(j)][i] = [@ EXCEPT !.status = "completed", !.reason = o[1]]]
          /\ state' = [state EXCEPT ![j] = "returned"]
    BY <1>8 DEF Complete, Become
  <2> DEFINE q == rows[Rev(j)][i]
             r == [q EXCEPT !.status = "completed", !.reason = o[1]]
  <2>2. i \in RowsOfJob(j) /\ state[j] = "open" /\ q \in Row /\ q.job = j /\ RowFits("open", q)
    <3>1. i \in RowsOfJob(j) /\ state[j] = "open"
      BY DEF Open
    <3>2. QED  BY <3>1, OpenRow
  <2>3. rows' = [rows EXCEPT ![Rev(j)] = [rows[Rev(j)] EXCEPT ![i] = r]]
    BY <2>1
  <2> HIDE DEF q
  <2>4. o[1] \in TerminalReason
    BY <1>1, SuiteAssumption
  <2>5. r \in Row /\ r.job = j /\ RowFits("returned", r)
    BY <2>2, <2>4, RevisedRows
  <2> HIDE DEF r
  <2>6. QED  BY <1>4, <2>1, <2>2, <2>3, <2>5
<1>9. CASE Fail(j)
  <2>1. PICK i \in Open(j, "running", FALSE) :
          /\ rows' = [rows EXCEPT ![Rev(j)][i] =
                        [@ EXCEPT !.status = "failed", !.reason = "infrastructure_failure"]]
          /\ state' = [state EXCEPT ![j] = "returned"]
    BY <1>9 DEF Fail, Become
  <2> DEFINE q == rows[Rev(j)][i]
             r == [q EXCEPT !.status = "failed", !.reason = "infrastructure_failure"]
  <2>2. i \in RowsOfJob(j) /\ state[j] = "open" /\ q \in Row /\ q.job = j /\ RowFits("open", q)
    <3>1. i \in RowsOfJob(j) /\ state[j] = "open"
      BY DEF Open
    <3>2. QED  BY <3>1, OpenRow
  <2>3. rows' = [rows EXCEPT ![Rev(j)] = [rows[Rev(j)] EXCEPT ![i] = r]]
    BY <2>1
  <2> HIDE DEF q
  <2>4. r \in Row /\ r.job = j /\ RowFits("returned", r)
    BY <2>2, RevisedRows
  <2> HIDE DEF r
  <2>5. QED  BY <1>4, <2>1, <2>2, <2>3, <2>4
<1>10. QED  BY <1>2, <1>3, <1>6, <1>7, <1>8, <1>9 DEF Begin, Advance

-------------------------------------------------------------------------------
(***************************************************************************)
(* Counting.  The rows of a suite and their jobs are as many, since a job  *)
(* has at most one row.                                                    *)
(***************************************************************************)
RowsOf(s) == UNION {RowOf(j) : j \in JobsOf(s)}

\* What a row of the suite is.
LEMMA RowsAre ==
  ASSUME SuiteInv, NEW s, NEW r \in RowsOf(s)
  PROVE  /\ r.job \in JobsOf(s) /\ RowOf(r.job) = {r} /\ RowFits(state[r.job], r)
         /\ state[r.job] # "waiting"
<1>1. PICK j \in JobsOf(s) : r \in RowOf(j)
  BY DEF RowsOf
<1>2. PICK i \in RowsOfJob(j) : r = rows[Rev(j)][i]
  BY <1>1 DEF RowOf
<1>3. r.job = j /\ j \in Jobs
  BY <1>1, <1>2 DEF RowsOfJob, JobsOf
<1>4. JobFits(j)
  BY <1>3 DEF SuiteInv
<1>5. RowOf(j) = {r}
  BY <1>2, <1>4 DEF RowOf, JobFits
<1>6. QED  BY <1>1, <1>2, <1>3, <1>4, <1>5 DEF JobFits

\* A job that returned has a row.
LEMMA ReturnedHaveRows ==
  ASSUME SuiteInv, NEW j \in Jobs, state[j] = "returned"
  PROVE  \E r : RowOf(j) = {r} /\ r.job = j /\ RowFits("returned", r)
<1>1. JobFits(j)
  BY DEF SuiteInv
<1>2. PICK i \in RowsOfJob(j) : TRUE
  BY <1>1 DEF JobFits
<1>3. RowOf(j) = {rows[Rev(j)][i]}
  BY <1>1, <1>2 DEF RowOf, JobFits
<1>4. QED  BY <1>1, <1>2, <1>3 DEF JobFits, RowsOfJob

\* As many rows as jobs that have one of them.
LEMMA AsManyJobs ==
  ASSUME SuiteInv, NEW s, NEW M, M \subseteq RowsOf(s), NEW T, T \subseteq JobsOf(s),
         \A r \in M : r.job \in T, \A j \in T : \E r \in M : r.job = j
  PROVE  IsFiniteSet(T) /\ Cardinality(T) \in Nat /\ Cardinality(M) = Cardinality(T)
<1> DEFINE f == [r \in M |-> r.job]
<1>1. IsFiniteSet(T)
  <2>1. T \subseteq Jobs
    BY DEF JobsOf
  <2>2. QED  BY <2>1, SuiteAssumption, FS_Subset
<1>2. f \in [M -> T]
  OBVIOUS
<1>3. ASSUME NEW q \in M, NEW r \in M, f[q] = f[r]
      PROVE  q = r
  <2>1. q.job = r.job
    BY <1>3
  <2>2. RowOf(q.job) = {q} /\ RowOf(r.job) = {r}
    BY RowsAre
  <2>3. QED  BY <2>1, <2>2
<1>4. f \in Injection(M, T)
  BY <1>2, <1>3 DEF Injection, IsInjective
<1>5. f \in Surjection(M, T)
  BY <1>2 DEF Surjection
<1> HIDE DEF f
<1>6. Cardinality(M) = Cardinality(T)
  BY <1>1, <1>4, <1>5, FS_Injection
<1>7. QED  BY <1>1, <1>6, FS_CardinalityType

\* The counts of a suite whose jobs have all ended.
LEMMA EndedSuitesCount ==
  ASSUME SuiteInv, NEW s \in Suites, \A j \in JobsOf(s) : state[j] \in Ended
  PROVE  LET mine == RowsOf(s)
             sum == Summary(s)
         IN  /\ sum.total = sum.failures + Cardinality({r \in mine : r.status = "completed"})
             /\ sum.succeeded = Cardinality({r \in mine : r.reason = "success"})
             /\ Cardinality(mine) <= sum.total
<1> DEFINE mine == RowsOf(s)
           all == JobsOf(s)
           returned == {j \in all : state[j] = "returned"}
           failed == {j \in returned : \E r \in RowOf(j) : r.status = "failed"}
           errors == {j \in all : state[j] = "error"}
           solved == {j \in returned : \E r \in RowOf(j) : r.reason = "success"}
           completed == {j \in returned : \E r \in RowOf(j) : r.status = "completed"}
<1>1. /\ Summary(s).total = Cardinality(all)
      /\ Summary(s).failures = Cardinality(errors \cup failed)
      /\ Summary(s).succeeded = Cardinality(solved)
  BY DEF Summary
<1>2. all \subseteq Jobs /\ IsFiniteSet(all)
  <2>1. all \subseteq Jobs
    BY DEF JobsOf
  <2>2. QED  BY <2>1, SuiteAssumption, FS_Subset
<1>3. ASSUME NEW j \in all
      PROVE  \/ j \in errors /\ j \notin returned
             \/ j \in failed /\ j \notin completed
             \/ j \in completed /\ j \notin failed
  <2>1. CASE state[j] = "error"
    BY <2>1
  <2>2. CASE state[j] = "returned"
    <3>1. PICK r : RowOf(j) = {r} /\ RowFits("returned", r)
      BY <1>2, <2>2, ReturnedHaveRows
    <3>2. QED  BY <2>2, <3>1 DEF RowFits
  <2>3. QED  BY <2>1, <2>2 DEF Ended
<1>4. /\ all = (errors \cup failed) \cup completed
      /\ (errors \cup failed) \cap completed = {}
  BY <1>3
<1>5. ASSUME NEW j \in returned
      PROVE  \E r \in mine : RowOf(j) = {r} /\ r.job = j
  <2>1. PICK r : RowOf(j) = {r} /\ r.job = j
    BY <1>2, ReturnedHaveRows
  <2>2. r \in mine
    BY <2>1 DEF RowsOf
  <2>3. QED  BY <2>1, <2>2
<1>6. Cardinality({r \in mine : r.status = "completed"}) = Cardinality(completed)
  <2> DEFINE M == {r \in mine : r.status = "completed"}
  <2>1. ASSUME NEW r \in M
        PROVE  r.job \in completed
    BY RowsAre DEF RowFits
  <2>2. \A j \in completed : \E r \in M : r.job = j
    BY <1>5
  <2>3. M \subseteq RowsOf(s) /\ completed \subseteq JobsOf(s)
    OBVIOUS
  <2> HIDE DEF M, completed
  <2>4. QED  BY <2>1, <2>2, <2>3, AsManyJobs DEF M
<1>7. Cardinality({r \in mine : r.reason = "success"}) = Cardinality(solved)
  <2> DEFINE M == {r \in mine : r.reason = "success"}
  <2>1. ASSUME NEW r \in M
        PROVE  r.job \in solved
    BY RowsAre DEF RowFits, NoReason
  <2>2. \A j \in solved : \E r \in M : r.job = j
    BY <1>5
  <2>3. M \subseteq RowsOf(s) /\ solved \subseteq JobsOf(s)
    OBVIOUS
  <2> HIDE DEF M, solved
  <2>4. QED  BY <2>1, <2>2, <2>3, AsManyJobs DEF M
<1>8. Cardinality(mine) <= Cardinality(all)
  <2> DEFINE T == {j \in all : \E r \in mine : r.job = j}
  <2>1. T \subseteq JobsOf(s) /\ \A j \in T : \E r \in mine : r.job = j
    OBVIOUS
  <2>2. \A r \in mine : r.job \in T
    BY RowsAre
  <2> HIDE DEF T
  <2>3. Cardinality(mine) = Cardinality(T)
    BY <2>1, <2>2, AsManyJobs
  <2>4. QED  BY <1>2, <2>1, <2>3, FS_Subset
<1>9. Cardinality(all) = Cardinality(errors \cup failed) + Cardinality(completed)
  <2>1. IsFiniteSet(errors \cup failed) /\ IsFiniteSet(completed)
    BY <1>2, <1>4, FS_Subset
  <2> HIDE DEF errors, failed, completed, all
  <2>2. Cardinality((errors \cup failed) \cup completed) =
          Cardinality(errors \cup failed) + Cardinality(completed)
            - Cardinality((errors \cup failed) \cap completed)
    BY <2>1, FS_Union
  <2>3. Cardinality(errors \cup failed) \in Nat /\ Cardinality(completed) \in Nat
    BY <2>1, FS_CardinalityType
  <2>4. QED  BY <1>4, <2>2, <2>3, FS_EmptySet
<1>10. QED
  <2> HIDE DEF errors, failed, completed, all, solved, mine
  <2>1. QED  BY <1>1, <1>6, <1>7, <1>8, <1>9 DEF mine

-------------------------------------------------------------------------------
\* The folds of the model, as FoldProofs reasons about them.
NoRows(s) == <<>>

\* The rows of a suite are collected as a fold of FoldProofs.
C == INSTANCE FoldProofs WITH Base <- NoRows, Step <- Collect

\* The instance's finite sets are the finite sets.
LEMMA FiniteIsFinite ==
  ASSUME NEW S
  PROVE  IsFiniteSet(S) <=> C!IsFiniteSet(S)
BY DEF IsFiniteSet, C!IsFiniteSet

-------------------------------------------------------------------------------
(***************************************************************************)
(* What the gate reads.                                                    *)
(***************************************************************************)
\* A label stands for a list of rows.
LEMMA RowsForAreRows ==
  ASSUME SuiteInv, NEW label
  PROVE  RowsFor(label) \in Seq(Row)
<1>1. ASSUME NEW s \in Suites
      PROVE  RowsOfSuite(s) \in Seq(Row)
  <2> DEFINE found == rows[RevisionOf[s]]
             n == Len(found)
  <2>1. found \in Seq(Row) /\ n \in Nat /\ DOMAIN found = 1..n
    BY DEF SuiteInv, Revisions
  <2> HIDE DEF found, n
  <2>2. RowsOfSuite(s) = C!FoldOf(found, s, n)
    BY <2>1 DEF RowsOfSuite, NoRows, FoldLeft, MapThenFoldSet, Max, C!Max, C!FoldOf, C!IsFold, found
  <2>3. <<>> \in Seq(Row)
    OBVIOUS
  <2>4. ASSUME NEW i \in 1..n, NEW acc \in Seq(Row)
        PROVE  Collect(acc, found[i], s) \in Seq(Row)
    <3>1. found[i] \in Row
      BY <2>1
    <3>2. QED
      BY <3>1 DEF Collect
  <2>5. C!FoldOf(found, s, n) \in Seq(Row)
    BY <2>1, <2>3, <2>4, C!FoldKeeps DEF NoRows
  <2>6. QED
    BY <2>2, <2>5
<1>2. \A r \in Revisions : rows[r] \in Seq(Row)
  BY DEF SuiteInv
<1>3. <<>> \in Seq(Row)
  OBVIOUS
<1>4. QED
  BY <1>1, <1>2, <1>3 DEF RowsFor

\* The greatest and the least of a set of indices.
LEMMA Extremes ==
  ASSUME NEW n \in Nat, NEW I \in SUBSET (1..n), I # {}
  PROVE  /\ Max(I) \in I /\ \A i \in I : i <= Max(I)
         /\ Min(I) \in I /\ \A i \in I : Min(I) <= i
<1>1. \E m \in I : \A i \in I : i <= m
  BY C!LastIndex
<1>2. \E m \in I : \A i \in I : m <= i
  <2> DEFINE J == {j \in 1..n : n + 1 - j \in I}
  <2>1. J \in SUBSET (1..n) /\ \A i \in I : n + 1 - i \in J
    OBVIOUS
  <2>2. J # {}
    BY <2>1
  <2> HIDE DEF J
  <2>3. PICK m \in J : \A j \in J : j <= m
    BY <2>1, <2>2, C!LastIndex
  <2>4. n + 1 - m \in I /\ m \in 1..n
    BY <2>1, <2>3 DEF J
  <2>5. ASSUME NEW i \in I
        PROVE  n + 1 - m <= i
    <3>1. n + 1 - i <= m /\ i \in 1..n
      BY <2>1, <2>3
    <3>2. QED
      BY <2>4, <3>1
  <2>6. QED
    BY <2>4, <2>5
<1>3. \A i \in I : i \in Int
  OBVIOUS
<1>4. PICK m \in I : \A i \in I : m >= i
  BY <1>1, <1>3
<1>5. PICK l \in I : \A i \in I : l =< i
  BY <1>2, <1>3
<1>6. QED
  BY <1>3, <1>4, <1>5 DEF Max, Min

\* Unless the limit cuts it, the listing is all the rows, newest first.
LEMMA ListingIsReversed ==
  ASSUME SuiteInv, NEW label, Listed(label)
  PROVE  RunSet(label) = Reverse(RowsFor(label))
<1> DEFINE found == RowsFor(label)
           n == Len(found)
<1>1. found \in Seq(Row) /\ n \in Nat /\ n <= ListLimit /\ ListLimit \in Nat
  BY RowsForAreRows, SuiteAssumption DEF Listed
<1> HIDE DEF found, n
<1>2. Min({n, ListLimit}) = n
  <2>1. \A x \in {n, ListLimit} : (\A y \in {n, ListLimit} : x <= y) <=> x = n
    BY <1>1
  <2>2. QED
    BY <2>1 DEF Min
<1>3. RunSet(label) = SubSeq(Reverse(found), 1, n)
  BY <1>2 DEF RunSet, ListRuns, found, n
<1>4. Reverse(found) \in Seq(Row) /\ Len(Reverse(found)) = n
  BY <1>1 DEF Reverse, n
<1>5. SubSeq(Reverse(found), 1, n) = Reverse(found)
  BY <1>1, <1>4
<1>6. QED
  BY <1>3, <1>5 DEF found

\* The run that stands for a key in the listing is the key's oldest row.
LEMMA IndexIsOldest ==
  ASSUME SuiteInv, NEW label, Listed(label)
  PROVE  /\ DOMAIN IndexRuns(RunSet(label)) = KeysOf(RowsFor(label))
         /\ \A k \in KeysOf(RowsFor(label)) :
               /\ IndexRuns(RunSet(label))[k] = Oldest(label, k)
               /\ Oldest(label, k) \in Row
<1> DEFINE found == RowsFor(label)
           n == Len(found)
           back == Reverse(found)
<1>1. found \in Seq(Row) /\ n \in Nat /\ DOMAIN found = 1..n
  BY RowsForAreRows
<1>2. RunSet(label) = back /\ DOMAIN back = 1..n /\ \A i \in 1..n : back[i] = found[n + 1 - i]
  <2>1. RunSet(label) = back
    BY ListingIsReversed
  <2>2. \A i \in 1..n : (n - i) + 1 = n + 1 - i
    BY <1>1
  <2>3. QED
    BY <1>1, <2>1, <2>2 DEF Reverse
<1> HIDE DEF found, n, back
<1>3. \A i \in 1..n : n + 1 - i \in 1..n /\ n + 1 - (n + 1 - i) = i
  BY <1>1
<1>4. KeysOf(back) = KeysOf(found)
  <2>1. DOMAIN back = 1..n /\ DOMAIN found = 1..n
    BY <1>1, <1>2
  <2>2. \A i \in 1..n : back[i] = found[n + 1 - i] /\ found[i] = back[n + 1 - i]
    BY <1>2, <1>3
  <2>3. KeysOf(back) \subseteq KeysOf(found)
    BY <1>3, <2>1, <2>2 DEF KeysOf
  <2>4. KeysOf(found) \subseteq KeysOf(back)
    BY <1>3, <2>1, <2>2 DEF KeysOf
  <2>5. QED
    BY <2>3, <2>4
<1>5. ASSUME NEW k \in KeysOf(found)
      PROVE  IndexRuns(back)[k] = Oldest(label, k) /\ Oldest(label, k) \in Row
  <2> DEFINE I == {i \in DOMAIN found : found[i].key = k}
             J == {i \in DOMAIN back : back[i].key = k}
  <2>1. I \in SUBSET (1..n) /\ J \in SUBSET (1..n) /\ I # {} /\ J # {}
    BY <1>1, <1>2, <1>4, <1>5 DEF KeysOf
  <2>2. \A i \in I : n + 1 - i \in J
    BY <1>1, <1>2, <1>3
  <2>3. \A j \in J : n + 1 - j \in I
    BY <1>1, <1>2, <1>3
  <2>4. Oldest(label, k) = found[Min(I)] /\ IndexRuns(back)[k] = back[Max(J)]
    BY <1>4, <1>5 DEF Oldest, IndexRuns, found
  <2> HIDE DEF I, J
  <2>5. /\ Max(J) \in J /\ \A j \in J : j <= Max(J)
        /\ Min(I) \in I /\ \A i \in I : Min(I) <= i
    BY <1>1, <2>1, Extremes
  <2>6. Min(I) <= n + 1 - Max(J) /\ n + 1 - Min(I) <= Max(J)
    BY <2>2, <2>3, <2>5
  <2>7. Min(I) \in 1..n /\ Max(J) \in 1..n
    BY <2>1, <2>5
  <2>8. Min(I) = n + 1 - Max(J)
    BY <1>1, <2>6, <2>7
  <2>9. QED
    BY <1>1, <1>2, <2>4, <2>7, <2>8
<1>6. DOMAIN IndexRuns(back) = KeysOf(back)
  BY DEF IndexRuns
<1>7. QED
  BY <1>2, <1>4, <1>5, <1>6 DEF found

\* The keys of a list of rows are finitely many.
LEMMA KeysAreFinite ==
  ASSUME SuiteInv, NEW label
  PROVE  IsFiniteSet(KeysOf(RowsFor(label)))
<1> DEFINE found == RowsFor(label)
           keyAt == [i \in DOMAIN found |-> found[i].key]
<1>1. IsFiniteSet(DOMAIN found)
  <2>1. found \in Seq(Row)
    BY RowsForAreRows
  <2> HIDE DEF found
  <2>2. DOMAIN found = 1..Len(found) /\ Len(found) \in Nat
    BY <2>1
  <2>3. QED
    BY <2>2, FS_Interval
<1>2. keyAt \in Surjection(DOMAIN found, KeysOf(found))
  BY DEF KeysOf, Surjection
<1>3. QED
  <2> HIDE DEF keyAt, found
  <2>1. IsFiniteSet(KeysOf(found))
    BY <1>1, <1>2, FS_Surjection
  <2>2. QED
    BY <2>1 DEF found

-------------------------------------------------------------------------------
(***************************************************************************)
(* The verdict.                                                            *)
(***************************************************************************)
\* What the gate's exit codes say of the two sets, while none is cut off.
LEMMA GateVerdicts ==
  ASSUME SuiteInv, Listed(Baseline), Listed(Candidate), NEW g, g = Gate(Baseline, Candidate)
  PROVE  LET base == IndexRuns(RunSet(Baseline))
             cand == IndexRuns(RunSet(Candidate))
             added == AddedViolations(base, cand, SharedKeys)
             drop == Rate(base, SharedKeys) - Rate(cand, SharedKeys)
         IN  added \in Int =>
               /\ g \in {0, 10} => added < MaxAdded
               /\ SharedKeys # {} /\ g # 11 => (g = 10 <=> drop >= 100 * DropPercent)
<1> DEFINE base == IndexRuns(RunSet(Baseline))
           cand == IndexRuns(RunSet(Candidate))
           c == CompareRunSets(RunSet(Baseline), RunSet(Candidate))
<1>1. DOMAIN base \cap DOMAIN cand = SharedKeys
  BY IndexIsOldest DEF SharedKeys
<1>2. /\ c.added = AddedViolations(base, cand, SharedKeys)
      /\ c.drop = Rate(base, SharedKeys) - Rate(cand, SharedKeys)
  BY <1>1 DEF CompareRunSets
<1>3. g = IF RunSet(Baseline) = <<>> \/ RunSet(Candidate) = <<>> THEN 20
          ELSE EvaluateRegression(c)
  BY DEF Gate
<1>4. SharedKeys # {} => RunSet(Baseline) # <<>> /\ RunSet(Candidate) # <<>>
  <2>1. KeysOf(<<>>) = {}
    BY DEF KeysOf
  <2>2. \A runs : DOMAIN IndexRuns(runs) = KeysOf(runs)
    BY DEF IndexRuns
  <2>3. /\ KeysOf(RunSet(Baseline)) = KeysOf(RowsFor(Baseline))
        /\ KeysOf(RunSet(Candidate)) = KeysOf(RowsFor(Candidate))
    BY <2>2, IndexIsOldest
  <2>4. QED
    BY <2>1, <2>3 DEF SharedKeys
<1> HIDE DEF c, base, cand
<1>5. EvaluateRegression(c) =
        CASE c.added >= MaxAdded -> 11
          [] c.added < MaxAdded /\ c.drop >= 100 * DropPercent -> 10
          [] OTHER -> 0
  BY DEF EvaluateRegression
<1>6. c.added \in Int => (c.added < MaxAdded <=> ~(c.added >= MaxAdded))
  BY ThresholdsAssumption
<1>7. ASSUME c.added \in Int
      PROVE  /\ g \in {0, 10} => c.added < MaxAdded
             /\ SharedKeys # {} /\ g # 11 => (g = 10 <=> c.drop >= 100 * DropPercent)
  <2>1. CASE c.added >= MaxAdded
    BY <1>3, <1>4, <1>5, <1>6, <1>7, <2>1
  <2>2. CASE c.added < MaxAdded
    BY <1>3, <1>4, <1>5, <1>6, <1>7, <2>2
  <2>3. QED
    BY <1>6, <1>7, <2>1, <2>2
<1>8. QED
  BY <1>2, <1>7 DEF base, cand

\* What each pair adds is an integer, and no more than all of them add.
LEMMA EachPairCounts ==
  ASSUME NEW keys, IsFiniteSet(keys), NEW base, NEW cand,
         \A k \in keys : base[k].violations \in Nat /\ cand[k].violations \in Nat
  PROVE  /\ AddedViolations(base, cand, keys) \in Nat
         /\ \A k \in keys :
              cand[k].violations - base[k].violations <= AddedViolations(base, cand, keys)
<1> DEFINE gain(k) == cand[k].violations - base[k].violations
           f == [k \in keys |-> Max({0, gain(k)})]
           Adds(it) == it = [t \in SUBSET keys |->
                         IF t = {} THEN 0
                         ELSE Max({0, gain(C!Some(t))}) + it[t \ {C!Some(t)}]]
<1>1. ASSUME NEW k \in keys
      PROVE  Max({0, gain(k)}) \in Nat /\ gain(k) <= Max({0, gain(k)})
  <2>1. gain(k) \in Int
    BY <1>1
  <2> HIDE DEF gain
  <2>2. PICK m \in {0, gain(k)} : \A y \in {0, gain(k)} : m >= y
    BY <2>1
  <2>3. /\ Max({0, gain(k)}) \in {0, gain(k)}
        /\ \A y \in {0, gain(k)} : Max({0, gain(k)}) >= y
    BY <2>2 DEF Max
  <2>4. QED
    BY <2>1, <2>3
<1>2. f \in [keys -> Nat]
  BY <1>1
<1>3. AddedViolations(base, cand, keys) = (CHOOSE it : Adds(it))[keys]
  BY DEF AddedViolations, MapThenSumSet, MapThenFoldSet, C!Some
<1>4. \A it : Adds(it) <=> C!IsSum(it, f, keys)
  <2>1. ASSUME NEW t \in SUBSET keys, t # {}
        PROVE  f[C!Some(t)] = Max({0, gain(C!Some(t))})
    <3>1. C!Some(t) \in keys
      BY <2>1 DEF C!Some
    <3>2. QED
      BY <3>1
  <2> HIDE DEF f, gain
  <2>2. QED
    BY <2>1 DEF C!IsSum
<1> HIDE DEF f, gain, Adds
<1>5. Adds(CHOOSE it : Adds(it))
  BY <1>4, FiniteIsFinite, C!SumExists
<1>6. C!IsSum(CHOOSE it : Adds(it), f, keys)
  BY <1>4, <1>5
<1>7. AddedViolations(base, cand, keys) = C!SumOf(f, keys)
  BY <1>3, <1>6, FiniteIsFinite, C!SumUnique
<1>8. C!SumOf(f, keys) \in Nat /\ \A k \in keys : f[k] <= C!SumOf(f, keys)
  BY <1>2, FiniteIsFinite, C!TermsOfSum
<1>9. ASSUME NEW k \in keys
       PROVE  gain(k) <= C!SumOf(f, keys)
  <2>1. f[k] = Max({0, gain(k)})
    BY DEF f
  <2>2. gain(k) \in Int
    BY DEF gain
  <2>3. QED
    BY <1>1, <1>8, <2>1, <2>2
<1>10. QED
  BY <1>7, <1>8, <1>9 DEF gain

\* While no list is cut off, the gate weighs every pair's gain alone.
LEMMA PairsAreWeighed ==
  ASSUME SuiteInv
  PROVE  SafetyIsNotAveraged
<1> DEFINE base == IndexRuns(RunSet(Baseline))
           cand == IndexRuns(RunSet(Candidate))
           added == AddedViolations(base, cand, SharedKeys)
<1>1. SUFFICES ASSUME Gate(Baseline, Candidate) \in {0, 10}, Listed(Baseline), Listed(Candidate),
                      NEW k \in SharedKeys
               PROVE  Oldest(Candidate, k).violations < Oldest(Baseline, k).violations + MaxAdded
  BY DEF SafetyIsNotAveraged
<1>2. \A q \in SharedKeys : /\ base[q] = Oldest(Baseline, q) /\ Oldest(Baseline, q) \in Row
                            /\ cand[q] = Oldest(Candidate, q) /\ Oldest(Candidate, q) \in Row
  BY <1>1, IndexIsOldest DEF SharedKeys
<1>3. IsFiniteSet(SharedKeys)
  BY KeysAreFinite, FS_Intersection DEF SharedKeys
<1>4. added \in Int => added < MaxAdded
  BY <1>1, GateVerdicts
<1> HIDE DEF base, cand
<1>5. \A q \in SharedKeys : base[q].violations \in Nat /\ cand[q].violations \in Nat
  BY <1>2 DEF Row
<1>6. added \in Nat /\ cand[k].violations - base[k].violations <= added
  BY <1>3, <1>5, EachPairCounts
<1>7. QED
  <2> HIDE DEF added
  <2>1. cand[k].violations < base[k].violations + MaxAdded
    BY <1>4, <1>5, <1>6, ThresholdsAssumption
  <2>2. QED
    BY <1>2, <2>1

-------------------------------------------------------------------------------
(***************************************************************************)
(* The rates, rounded.                                                     *)
(***************************************************************************)
\* The instance rounds as the model does.
LEMMA RoundedAlike ==
  ASSUME NEW w, NEW n
  PROVE  Rounded(w, n) = C!Rounded(w, n)
BY DEF Rounded, C!Rounded

\* What a drop of rates, rounded to hundredths of a percent, says of the runs.
LEMMA DropsOfRates ==
  ASSUME NEW n \in Nat \ {0}, NEW x \in Nat, NEW y \in Nat
  PROVE  LET drop == Rounded(10000 * x, n) - Rounded(10000 * y, n)
         IN  /\ 100 * (x - y) >= DropPercent * n => drop >= 100 * DropPercent
             /\ drop >= 100 * DropPercent => 100 * (x - y) + (n \div 100) >= DropPercent * n
<1> DEFINE a == 10000 * x
           b == 10000 * y
           d == 100 * DropPercent
           R == Rounded(a, n)
           S == Rounded(b, n)
<1>1. DropPercent \in Nat /\ a \in Nat /\ b \in Nat /\ d \in Nat /\ d % 2 = 0
  BY ThresholdsAssumption
<1>2. d * n = 100 * (DropPercent * n) /\ DropPercent * n \in Nat
  BY <1>1
<1>3. /\ R \in Nat /\ S \in Nat
      /\ 2 * (n * R) <= 2 * a + n /\ 2 * (n * S) >= 2 * b - n
  <2> HIDE DEF a, b
  <2> QED BY <1>1, C!RoundingMovesByAHalf, RoundedAlike
<1>4. ASSUME 100 * (x - y) >= DropPercent * n
      PROVE  R - S >= d
  <2>1. a >= b + d * n
    BY <1>2, <1>4
  <2>2. R >= S + d
    <3> HIDE DEF a, b, d, R, S
    <3> QED BY <1>1, <2>1, C!RoundingKeepsOrder, RoundedAlike DEF R, S
  <2> HIDE DEF R, S
  <2>3. QED
    BY <1>1, <1>3, <2>2
<1>5. ASSUME R - S >= d
      PROVE  100 * (x - y) + (n \div 100) >= DropPercent * n
  <2> HIDE DEF R, S
  <2>1. n * R >= n * (S + d)
    <3>1. R >= S + d
      BY <1>1, <1>3, <1>5
    <3> HIDE DEF d
    <3>2. QED
      BY <1>1, <1>3, <3>1
  <2>2. n * (S + d) = n * S + d * n
    <3> HIDE DEF d
    <3> QED BY <1>1, <1>3
  <2>3. n * R \in Nat /\ n * S \in Nat
    BY <1>3
  <2>4. 100 * (DropPercent * n) <= 10000 * (x - y) + n
    BY <1>2, <1>3, <2>1, <2>2, <2>3
  <2> DEFINE p == DropPercent * n
  <2>5. p \in Nat
    BY <1>2
  <2> HIDE DEF p
  <2>6. 100 * p <= 10000 * (x - y) + n
    BY <2>4 DEF p
  <2>7. 100 * (x - y) + (n \div 100) >= p
    BY <2>5, <2>6
  <2>8. QED
    BY <2>7 DEF p
<1>6. QED
  BY <1>4, <1>5

\* The first runs of the pairs decide.
LEMMA FirstRunsDecide ==
  ASSUME SuiteInv
  PROVE  TheFirstRunsDecide
<1> DEFINE base == IndexRuns(RunSet(Baseline))
           cand == IndexRuns(RunSet(Candidate))
           keys == SharedKeys
           solvedBy(label) == {k \in keys : Oldest(label, k).reason = "success"}
           n == Cardinality(keys)
           x == Cardinality(solvedBy(Baseline))
           y == Cardinality(solvedBy(Candidate))
<1>1. SUFFICES ASSUME Listed(Baseline), Listed(Candidate), keys # {}, Gate(Baseline, Candidate) # 11
               PROVE  /\ 100 * (x - y) >= DropPercent * n => Gate(Baseline, Candidate) = 10
                      /\ Gate(Baseline, Candidate) = 10 =>
                           100 * (x - y) + (n \div 100) >= DropPercent * n
  BY DEF TheFirstRunsDecide
<1>2. \A k \in keys : /\ base[k] = Oldest(Baseline, k) /\ Oldest(Baseline, k) \in Row
                      /\ cand[k] = Oldest(Candidate, k) /\ Oldest(Candidate, k) \in Row
  BY <1>1, IndexIsOldest DEF SharedKeys
<1>3. IsFiniteSet(keys)
  BY KeysAreFinite, FS_Intersection DEF SharedKeys
<1>4. n \in Nat \ {0} /\ x \in Nat /\ y \in Nat
  <2>1. n \in Nat /\ n # 0
    BY <1>1, <1>3, FS_CardinalityType, FS_EmptySet
  <2>2. solvedBy(Baseline) \subseteq keys /\ solvedBy(Candidate) \subseteq keys
    OBVIOUS
  <2>3. QED
    BY <1>3, <2>1, <2>2, FS_Subset, FS_CardinalityType
<1>5. AddedViolations(base, cand, keys) \in Int
  <2>1. \A k \in keys : base[k].violations \in Nat /\ cand[k].violations \in Nat
    BY <1>2 DEF Row
  <2> HIDE DEF base, cand, keys
  <2>2. QED
    BY <1>3, <2>1, EachPairCounts
<1>6. Gate(Baseline, Candidate) = 10 <=> Rate(base, keys) - Rate(cand, keys) >= 100 * DropPercent
  BY <1>1, <1>5, GateVerdicts
<1>7. Solved(base, keys) = solvedBy(Baseline) /\ Solved(cand, keys) = solvedBy(Candidate)
  <2> HIDE DEF base, cand, keys
  <2> QED BY <1>2 DEF Solved
<1>8. Rate(base, keys) = Rounded(10000 * x, n) /\ Rate(cand, keys) = Rounded(10000 * y, n)
  <2> HIDE DEF base, cand, keys
  <2> QED BY <1>4, <1>7 DEF Rate
<1> HIDE DEF base, cand, keys, n, x, y
<1>9. QED
  BY <1>4, <1>6, <1>8, DropsOfRates

-------------------------------------------------------------------------------
\* The invariant holds of every state of a specification of suites.
LEMMA SuiteInvariant == Spec => []SuiteInv
<1>1. Init => SuiteInv
  <2>1. SUFFICES ASSUME Init
                 PROVE  SuiteInv
    OBVIOUS
  <2>2. rows \in [Revisions -> Seq(Row)]
    BY <2>1 DEF Init
  <2>3. \A j \in Jobs : RowsOfJob(j) = {}
    BY <2>1, RevisionOfAJob DEF Init, RowsOfJob
  <2>4. QED  BY <2>1, <2>2, <2>3 DEF Init, SuiteInv, JobFits
<1>2. SuiteInv /\ [Next]_vars => SuiteInv'
  <2>1. SUFFICES ASSUME SuiteInv, [Next]_vars
                 PROVE  SuiteInv'
    OBVIOUS
  <2>2. CASE Next
    BY <2>1, <2>2, JobStep DEF Next
  <2>3. CASE UNCHANGED vars
    BY <2>1, <2>3 DEF vars, SuiteInv, JobFits, RowsOfJob
  <2>4. QED  BY <2>1, <2>2, <2>3
<1>3. QED  BY <1>1, <1>2, PTL DEF Spec

\* The summary a suite prints when its last job has ended agrees with the runs
\* table, whatever the order in which the pool finished, failed or lost runs.
THEOREM SummariesMatchRows == Spec => []SummaryMatchesRows
<1>1. SuiteInv => SummaryMatchesRows
  BY EndedSuitesCount DEF SummaryMatchesRows, RowsOf
<1>2. QED  BY <1>1, SuiteInvariant, PTL

\* A pair of runs that gains violations is reported as a safety regression,
\* whatever the other pairs lost, at every moment the gate may read the table.
THEOREM SafetyIsWeighedPairByPair == Spec => []SafetyIsNotAveraged
<1>1. SuiteInv => SafetyIsNotAveraged
  BY PairsAreWeighed
<1>2. QED  BY <1>1, SuiteInvariant, PTL

\* The gate's verdict on the success rate is that of the first run of each pair,
\* up to the rounding of the two rates, however often and in whatever order the
\* pool ran the keys.
THEOREM LaterRunsDoNotCount == Spec => []TheFirstRunsDecide
<1>1. SuiteInv => TheFirstRunsDecide
  BY FirstRunsDecide
<1>2. QED  BY <1>1, SuiteInvariant, PTL

===============================================================================
