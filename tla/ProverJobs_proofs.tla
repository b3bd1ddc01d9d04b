------------------------- MODULE ProverJobs_proofs -------------------------
(***************************************************************************)
(* Safety of the prover jobs, for any number of jobs, workers and attempts. *)
(***************************************************************************)
EXTENDS ProverJobs, TLAPS

\* A worker that is busy has a job, and while it still owns the row, the attempts it
\* claimed are those of the row: #retry and the sweep count from the same number.
ClaimsAgree ==
  \A w \in Worker :
    /\ worker[w].phase = "RESTING" <=> worker[w] = Resting
    /\ worker[w].phase # "RESTING" =>
         /\ worker[w].job \in Job
         /\ job[worker[w].job].owner = w => job[worker[w].job].attempts = worker[w].attempts

\* Where a worker is says what it has seen, of states nothing takes back.
StagesAgree ==
  \A w \in Worker :
    /\ worker[w].phase \notin {"RESTING", "SUBMIT"} => remote[worker[w].job] # "UNKNOWN"
    /\ worker[w].phase = "FAILED" => remote[worker[w].job] = "FAILED"
    /\ worker[w].phase = "RECEIPT" => worker[w].job \in accepted

\* external_job_id is set by the first submission and only then.
SubmissionsAgree ==
  \A j \in Job :
    /\ job[j].submitted => remote[j] # "UNKNOWN"
    /\ job[j].state \in {"NONE", "QUEUED", "SUBMITTING"} => ~job[j].submitted
    /\ job[j].state \in {"REMOTE_PENDING", "VERIFYING"} => job[j].submitted

JInv ==
  TypeOK /\ ClaimsAgree /\ StagesAgree /\ SubmissionsAgree /\ VerifiedIsAccepted /\ BudgetIsExact

Row == [state : State, owner : Worker \cup {None}, submitted : BOOLEAN, attempts : 0..MaxAttempts]

\* What JInv says of a single row that nobody holds.
FreeRow(j, row) ==
  /\ row \in Row
  /\ row.owner = None
  /\ ~Leased(row)
  /\ row.submitted => remote[j] # "UNKNOWN"
  /\ row.state \in {"NONE", "QUEUED"} => ~row.submitted
  /\ row.state = "REMOTE_PENDING" => row.submitted
  /\ row.state = "VERIFIED" => j \in accepted
  /\ row.state = "FAILED" => row.attempts = MaxAttempts \/ remote[j] = "FAILED"
  /\ row.state # "FAILED" => row.attempts < MaxAttempts

-----------------------------------------------------------------------------
\* A leased row that fails becomes a free row, and has an attempt left or is FAILED.
LEMMA FailedRow ==
  ASSUME JInv, NEW j \in Job, Leased(job[j])
  PROVE  /\ FreeRow(j, Failed(job[j], job[j].attempts + 1))
         /\ Failed(job[j], job[j].attempts + 1).state \in {"FAILED", "RETRYABLE"}
         /\ Failed(job[j], job[j].attempts + 1).submitted = job[j].submitted
<1> USE DEF JInv
<1>1. job[j] \in Row /\ job[j].state # "FAILED"
  BY DEF TypeOK, Row, Leased
<1>2. job[j].attempts < MaxAttempts /\ (job[j].submitted => remote[j] # "UNKNOWN")
  BY <1>1 DEF BudgetIsExact, SubmissionsAgree
<1> DEFINE failed == Failed(job[j], job[j].attempts + 1)
<1>3. failed = [state |-> IF job[j].attempts + 1 >= MaxAttempts THEN "FAILED" ELSE "RETRYABLE",
                owner |-> None, submitted |-> job[j].submitted,
                attempts |-> job[j].attempts + 1]
  BY DEF Failed, Spent
<1>4. job[j].attempts \in Nat /\ MaxAttempts \in Nat /\ job[j].submitted \in BOOLEAN
  BY <1>1, AttemptsAssumption DEF Row
<1>5. failed \in Row
  BY <1>2, <1>3, <1>4 DEF Row, State
<1>6. failed.state = "FAILED" => failed.attempts = MaxAttempts
  BY <1>2, <1>3, <1>4
<1>7. failed.state # "FAILED" => failed.attempts < MaxAttempts
  BY <1>2, <1>3, <1>4
<1>8. failed.state \in {"FAILED", "RETRYABLE"} /\ failed.owner = None
        /\ failed.submitted = job[j].submitted
  BY <1>3
<1> HIDE DEF failed
<1>9. FreeRow(j, failed)
  BY <1>2, <1>5, <1>6, <1>7, <1>8 DEF FreeRow, Leased
<1> QED BY <1>8, <1>9 DEF failed

\* The sweep frees every row it touches and leaves the others as they are.
LEMMA SweptRow ==
  ASSUME JInv, NEW j \in Job
  PROVE  /\ Abandoned(j) => FreeRow(j, Swept[j]) /\ Swept[j].state \in {"FAILED", "RETRYABLE"}
                             /\ Swept[j].submitted = job[j].submitted
         /\ ~Abandoned(j) => Swept[j] = job[j]
BY FailedRow DEF Swept, Abandoned

\* The initial state satisfies the inductive invariant.
LEMMA InitJInv == Init => JInv
<1> SUFFICES ASSUME Init PROVE JInv
  OBVIOUS
<1>1. TypeOK
  BY AttemptsAssumption DEF Init, TypeOK, NoJob, Resting, State, Phase, Leased
<1> QED
  BY <1>1, AttemptsAssumption
  DEF Init, JInv, ClaimsAgree, StagesAgree, SubmissionsAgree, VerifiedIsAccepted,
      BudgetIsExact, NoJob, Resting

\* Steps of the broker, the clock and the prover.
LEMMA EnvironmentStep ==
  ASSUME JInv, NEW j \in Job,
         \/ Request(j) \/ AcceptDirectly(j) \/ ExpireLease(j)
         \/ \E state \in {"SUCCEEDED", "FAILED"} : RemoteEnds(j, state)
  PROVE  JInv'
<1> USE DEF JInv
<1>1. CASE Request(j)
  <2>1. TypeOK'
    BY <1>1 DEF Request, TypeOK, State, Leased
  <2>2. ClaimsAgree'
    BY <1>1 DEF Request, TypeOK, ClaimsAgree
  <2>3. SubmissionsAgree' /\ VerifiedIsAccepted' /\ BudgetIsExact' /\ StagesAgree'
    BY <1>1 DEF Request, TypeOK, SubmissionsAgree, VerifiedIsAccepted, BudgetIsExact, StagesAgree
  <2> QED BY <2>1, <2>2, <2>3
<1>2. CASE AcceptDirectly(j)
  BY <1>2 DEF AcceptDirectly, TypeOK, ClaimsAgree, StagesAgree, SubmissionsAgree,
              VerifiedIsAccepted, BudgetIsExact
<1>3. CASE ExpireLease(j)
  BY <1>3 DEF ExpireLease, TypeOK, ClaimsAgree, StagesAgree, SubmissionsAgree,
              VerifiedIsAccepted, BudgetIsExact
<1>4. CASE \E state \in {"SUCCEEDED", "FAILED"} : RemoteEnds(j, state)
  BY <1>4 DEF RemoteEnds, TypeOK, ClaimsAgree, StagesAgree, SubmissionsAgree,
              VerifiedIsAccepted, BudgetIsExact
<1> QED BY <1>1, <1>2, <1>3, <1>4

\* The sweep, with or without the claim that follows it.
LEMMA SweepStep ==
  ASSUME JInv, NEW w \in Worker, SweepOnly(w)
  PROVE  JInv'
<1> USE DEF JInv
<1>1. /\ DOMAIN job' = Job /\ job' = Swept
      /\ UNCHANGED <<lease, worker, remote, accepted>>
  BY DEF SweepOnly, Swept
<1>2. ASSUME NEW j \in Job
      PROVE  \/ FreeRow(j, job'[j]) /\ Abandoned(j) /\ job'[j].state \in {"FAILED", "RETRYABLE"}
             \/ job'[j] = job[j] /\ ~Abandoned(j)
  BY <1>1, SweptRow
<1>3. TypeOK'
  <2>1. \A j \in Job : job'[j] \in Row
    BY <1>2 DEF FreeRow, TypeOK, Row
  <2>2. job' \in [Job -> Row]
    BY <1>1, <2>1 DEF Swept
  <2>3. \A j \in Job : job'[j].owner # None <=> Leased(job'[j])
    BY <1>2 DEF FreeRow, TypeOK
  <2>4. lease' \subseteq {j \in Job : Leased(job'[j])}
    BY <1>1, <1>2 DEF TypeOK, Abandoned
  <2> QED BY <1>1, <2>2, <2>3, <2>4 DEF TypeOK, Row
<1>4. ClaimsAgree'
  BY <1>1, <1>2, NoneAssumption DEF ClaimsAgree, FreeRow
<1>5. StagesAgree'
  BY <1>1 DEF StagesAgree
<1>6. SubmissionsAgree' /\ VerifiedIsAccepted' /\ BudgetIsExact'
  BY <1>1, <1>2 DEF SubmissionsAgree, VerifiedIsAccepted, BudgetIsExact, FreeRow
<1> QED BY <1>3, <1>4, <1>5, <1>6

\* The owner of a row ends an attempt and gives the row back.
LEMMA EndStep ==
  ASSUME JInv, NEW w \in Worker, worker[w].phase # "RESTING", NEW row,
         FreeRow(worker[w].job, row), EndAttempt(w, row)
  PROVE  JInv'
<1> USE DEF JInv
<1> DEFINE k == worker[w].job
<1>1. k \in Job
  BY DEF ClaimsAgree
<1>2. /\ job' = [job EXCEPT ![k] = row] /\ lease' = lease \ {k}
      /\ worker' = [worker EXCEPT ![w] = Resting]
      /\ UNCHANGED <<remote, accepted>>
  BY DEF EndAttempt
<1>3. FreeRow(k, row) /\ row \in Row
  BY DEF FreeRow
<1> HIDE DEF k
<1>4. TypeOK'
  <2>1. job' \in [Job -> Row]
    BY <1>1, <1>2, <1>3 DEF TypeOK, Row
  <2>2. \A j \in Job : job'[j].owner # None <=> Leased(job'[j])
    BY <1>1, <1>2, <1>3 DEF TypeOK, FreeRow
  <2>3. lease' \subseteq {j \in Job : Leased(job'[j])}
    BY <1>1, <1>2 DEF TypeOK
  <2>4. worker' \in [Worker -> [phase : Phase, job : Job \cup {None},
                               attempts : 0..(MaxAttempts - 1)]]
    BY <1>2, AttemptsAssumption DEF TypeOK, Resting, Phase
  <2> QED BY <1>2, <2>1, <2>2, <2>3, <2>4 DEF TypeOK, Row
<1>5. ClaimsAgree'
  BY <1>1, <1>2, <1>3, NoneAssumption DEF TypeOK, ClaimsAgree, FreeRow, Resting
<1>6. StagesAgree'
  BY <1>2 DEF TypeOK, StagesAgree, Resting
<1>7. SubmissionsAgree' /\ VerifiedIsAccepted' /\ BudgetIsExact'
  BY <1>1, <1>2, <1>3
  DEF TypeOK, SubmissionsAgree, VerifiedIsAccepted, BudgetIsExact, FreeRow, Leased
<1> QED BY <1>4, <1>5, <1>6, <1>7

\* A worker moves on to its next stage; the rows stay as they are.
LEMMA StageStep ==
  ASSUME JInv, NEW w \in Worker, worker[w].phase # "RESTING", NEW phase \in Phase,
         phase # "RESTING", GoTo(w, phase),
         remote'[worker[w].job] # "UNKNOWN",
         phase = "FAILED" => remote'[worker[w].job] = "FAILED",
         phase = "RECEIPT" => worker[w].job \in accepted',
         UNCHANGED <<job, lease>>,
         accepted \subseteq accepted', accepted' \subseteq Job,
         remote' \in [Job -> {"UNKNOWN", "RUNNING", "SUCCEEDED", "FAILED"}],
         \A j \in Job : remote[j] # "UNKNOWN" => remote'[j] = remote[j]
  PROVE  JInv'
<1> USE DEF JInv
<1>1. /\ worker'[w].phase = phase /\ worker'[w].job = worker[w].job
      /\ worker'[w].attempts = worker[w].attempts
      /\ \A v \in Worker : v # w => worker'[v] = worker[v]
      /\ worker' \in [Worker -> [phase : Phase, job : Job \cup {None},
                                attempts : 0..(MaxAttempts - 1)]]
  BY DEF GoTo, TypeOK
<1>2. TypeOK'
  BY <1>1 DEF TypeOK
<1>3. ClaimsAgree'
  BY <1>1 DEF ClaimsAgree, Resting
<1>4. StagesAgree'
  BY <1>1 DEF StagesAgree, ClaimsAgree, Resting
<1>5. SubmissionsAgree' /\ VerifiedIsAccepted' /\ BudgetIsExact'
  BY DEF SubmissionsAgree, VerifiedIsAccepted, BudgetIsExact
<1> QED BY <1>2, <1>3, <1>4, <1>5

\* The sweep and the claim of one row, which nobody else holds.
LEMMA ClaimStep ==
  ASSUME JInv, NEW w \in Worker, NEW j \in Job, ClaimJob(w, j)
  PROVE  JInv'
<1> USE DEF JInv
<1> DEFINE row == Claimed(Swept[j], w)
<1>1. /\ worker[w] = Resting /\ Claimable(Swept[j])
      /\ job' = [Swept EXCEPT ![j] = row] /\ lease' = lease \cup {j}
      /\ worker' = [worker EXCEPT ![w] =
                      [phase |-> IF job[j].submitted THEN "POLL" ELSE "SUBMIT", job |-> j,
                       attempts |-> Swept[j].attempts]]
      /\ UNCHANGED <<remote, accepted>>
  BY DEF ClaimJob
<1>2. ASSUME NEW i \in Job
      PROVE  \/ FreeRow(i, Swept[i]) /\ Abandoned(i) /\ Swept[i].submitted = job[i].submitted
             \/ Swept[i] = job[i] /\ ~Abandoned(i)
  BY SweptRow
<1>3. /\ Swept[j] \in Row /\ Swept[j].attempts < MaxAttempts
      /\ Swept[j].submitted = job[j].submitted
      /\ Swept[j].submitted => remote[j] # "UNKNOWN"
  BY <1>1, <1>2 DEF Claimable, FreeRow, TypeOK, Row, BudgetIsExact, SubmissionsAgree
<1>4. /\ row.state = IF Swept[j].submitted THEN "VERIFYING" ELSE "SUBMITTING"
      /\ row.owner = w /\ row.submitted = Swept[j].submitted
      /\ row.attempts = Swept[j].attempts
      /\ row \in Row
  BY <1>3 DEF Claimed, Row, State
<1>5. DOMAIN Swept = Job
  BY DEF Swept
<1> HIDE DEF row
<1>6. /\ job'[j] = row
      /\ \A i \in Job : i # j => job'[i] = Swept[i]
  BY <1>1, <1>5
<1>7. TypeOK'
  <2>1. \A i \in Job : Swept[i] \in Row
    BY <1>2 DEF FreeRow, TypeOK, Row
  <2>2. job' \in [Job -> Row]
    BY <1>1, <1>4, <1>5, <2>1
  <2>3. \A i \in Job : job'[i].owner # None <=> Leased(job'[i])
    BY <1>2, <1>4, <1>6, NoneAssumption DEF FreeRow, TypeOK, Leased
  <2>4. lease' \subseteq {i \in Job : Leased(job'[i])}
    BY <1>1, <1>2, <1>4, <1>6 DEF TypeOK, Abandoned, Leased
  <2>5. Swept[j].attempts \in 0..(MaxAttempts - 1)
    BY <1>3, AttemptsAssumption DEF Row
  <2>6. worker' \in [Worker -> [phase : Phase, job : Job \cup {None},
                               attempts : 0..(MaxAttempts - 1)]]
    BY <1>1, <2>5 DEF TypeOK, Phase
  <2> QED BY <1>1, <2>2, <2>3, <2>4, <2>6 DEF TypeOK, Row
<1>8. ClaimsAgree'
  <2>1. worker'[w].phase # "RESTING" /\ worker'[w] # Resting /\ worker'[w].job = j
          /\ worker'[w].attempts = job'[j].attempts
    BY <1>1, <1>4, <1>6, NoneAssumption DEF TypeOK, Resting
  <2>2. \A v \in Worker : v # w => worker'[v] = worker[v]
    BY <1>1 DEF TypeOK
  <2>3. ASSUME NEW v \in Worker, v # w, worker[v].phase # "RESTING",
               job'[worker[v].job].owner = v
        PROVE  job'[worker[v].job] = job[worker[v].job]
    BY <1>2, <1>4, <1>6, <2>3, NoneAssumption DEF ClaimsAgree, FreeRow
  <2> QED BY <2>1, <2>2, <2>3 DEF ClaimsAgree
<1>9. StagesAgree'
  BY <1>1, <1>3 DEF TypeOK, StagesAgree
<1>10. SubmissionsAgree' /\ VerifiedIsAccepted' /\ BudgetIsExact'
  <2>1. ASSUME NEW i \in Job
        PROVE  /\ job'[i].submitted => remote[i] # "UNKNOWN"
               /\ job'[i].state \in {"NONE", "QUEUED", "SUBMITTING"} => ~job'[i].submitted
               /\ job'[i].state \in {"REMOTE_PENDING", "VERIFYING"} => job'[i].submitted
    <3>1. CASE i = j
      BY <1>3, <1>4, <1>6, <3>1
    <3>2. CASE i # j
      BY <1>2, <1>6, <3>2 DEF FreeRow, SubmissionsAgree, Leased
    <3> QED BY <3>1, <3>2
  <2>2. VerifiedIsAccepted'
    BY <1>1, <1>2, <1>4, <1>6 DEF VerifiedIsAccepted, FreeRow
  <2>3. BudgetIsExact'
    BY <1>1, <1>2, <1>3, <1>4, <1>6 DEF BudgetIsExact, FreeRow
  <2> QED BY <1>1, <2>1, <2>2, <2>3 DEF SubmissionsAgree
<1> QED BY <1>7, <1>8, <1>9, <1>10

\* A row its owner ends without a failed attempt is free, if the worker has reason to.
LEMMA EndedRow ==
  ASSUME JInv, NEW w \in Worker, worker[w].phase # "RESTING",
         NEW held \in {"SUBMITTING", "VERIFYING"}, HoldsJob(w, held),
         NEW state \in {"REMOTE_PENDING", "FAILED", "VERIFIED"},
         state = "REMOTE_PENDING" => remote[worker[w].job] # "UNKNOWN",
         state = "FAILED" => remote[worker[w].job] = "FAILED",
         state = "VERIFIED" => worker[w].job \in accepted
  PROVE  FreeRow(worker[w].job, Ended(job[worker[w].job], state))
<1> USE DEF JInv
<1> DEFINE k == worker[w].job
           row == Ended(job[k], state)
<1>1. k \in Job /\ job[k] \in Row /\ job[k].state = held
  BY DEF ClaimsAgree, TypeOK, HoldsJob, Row
<1>2. job[k].attempts < MaxAttempts /\ (job[k].submitted => remote[k] # "UNKNOWN")
  BY <1>1 DEF BudgetIsExact, SubmissionsAgree
<1>3. /\ row.state = state /\ row.owner = None /\ row.attempts = job[k].attempts
      /\ row.submitted = (job[k].submitted \/ state = "REMOTE_PENDING")
      /\ row \in Row
  BY <1>1 DEF Ended, Row, State
<1> HIDE DEF row
<1>4. FreeRow(k, row)
  BY <1>1, <1>2, <1>3 DEF FreeRow, Leased
<1> QED BY <1>4 DEF row

\* Every step of an attempt, its failure and its abandonment.
LEMMA AttemptStep ==
  ASSUME JInv, NEW w \in Worker, Attempt(w) \/ Retry(w) \/ Abandon(w)
  PROVE  JInv'
<1> USE DEF JInv
<1>1. CASE SubmitRemotely(w)
  <2>1. worker[w].phase = "SUBMIT" /\ worker[w].job \in Job
    BY <1>1 DEF SubmitRemotely, At, ClaimsAgree
  <2>2. /\ remote'[worker[w].job] # "UNKNOWN"
        /\ remote' \in [Job -> {"UNKNOWN", "RUNNING", "SUCCEEDED", "FAILED"}]
        /\ \A j \in Job : remote[j] # "UNKNOWN" => remote'[j] = remote[j]
    BY <1>1, <2>1 DEF SubmitRemotely, TypeOK
  <2>3. GoTo(w, "SUBMITTED") /\ UNCHANGED <<job, lease, accepted>> /\ accepted' \subseteq Job
    BY <1>1 DEF SubmitRemotely, TypeOK
  <2> QED BY <2>1, <2>2, <2>3, StageStep DEF Phase
<1>2. CASE RecordSubmission(w)
  <2>1. worker[w].phase = "SUBMITTED" /\ remote[worker[w].job] # "UNKNOWN"
    BY <1>2 DEF RecordSubmission, At, StagesAgree
  <2> QED BY <1>2, <2>1, EndedRow, EndStep DEF RecordSubmission
<1>3. CASE PollRemotely(w)
  <2>1. /\ worker[w].phase = "POLL" /\ worker[w].job \in Job
        /\ remote[worker[w].job] # "UNKNOWN"
    BY <1>3 DEF PollRemotely, At, ClaimsAgree, StagesAgree
  <2>2. /\ GoTo(w, remote[worker[w].job]) /\ UNCHANGED <<job, lease, remote, accepted>>
    BY <1>3 DEF PollRemotely
  <2>3. /\ remote[worker[w].job] \in Phase \ {"RESTING", "RECEIPT"} /\ accepted' \subseteq Job
        /\ remote' \in [Job -> {"UNKNOWN", "RUNNING", "SUCCEEDED", "FAILED"}]
    BY <2>1, <2>2 DEF TypeOK, Phase
  <2> QED BY <2>1, <2>2, <2>3, StageStep
<1>4. CASE RecordPending(w)
  <2>1. worker[w].phase = "RUNNING" /\ remote[worker[w].job] # "UNKNOWN"
    BY <1>4 DEF RecordPending, At, StagesAgree
  <2> QED BY <1>4, <2>1, EndedRow, EndStep DEF RecordPending
<1>5. CASE RecordRemoteFailure(w)
  <2>1. worker[w].phase = "FAILED" /\ remote[worker[w].job] = "FAILED"
    BY <1>5 DEF RecordRemoteFailure, At, StagesAgree
  <2> QED BY <1>5, <2>1, EndedRow, EndStep DEF RecordRemoteFailure
<1>6. CASE AcceptRead(w)
  <2>1. /\ worker[w].phase = "SUCCEEDED" /\ remote[worker[w].job] # "UNKNOWN"
    BY <1>6 DEF AcceptRead, At, StagesAgree
  <2>2. UNCHANGED <<job, lease, remote, accepted>> /\ accepted' \subseteq Job
          /\ remote' \in [Job -> {"UNKNOWN", "RUNNING", "SUCCEEDED", "FAILED"}]
    BY <1>6 DEF AcceptRead, TypeOK
  <2>3. CASE worker[w].job \in accepted
    <3>1. GoTo(w, "RECEIPT")
      BY <1>6, <2>3 DEF AcceptRead
    <3> QED BY <2>1, <2>2, <2>3, <3>1, StageStep DEF Phase
  <2>4. CASE worker[w].job \notin accepted
    <3>1. GoTo(w, "ACCEPT")
      BY <1>6, <2>4 DEF AcceptRead
    <3> QED BY <2>1, <2>2, <3>1, StageStep DEF Phase
  <2> QED BY <2>3, <2>4
<1>7. CASE AcceptCommit(w)
  <2>1. /\ worker[w].phase = "ACCEPT" /\ worker[w].job \in Job
        /\ remote[worker[w].job] # "UNKNOWN"
    BY <1>7 DEF AcceptCommit, At, StagesAgree, ClaimsAgree
  <2>2. /\ GoTo(w, "RECEIPT") /\ UNCHANGED <<job, lease, remote>>
        /\ accepted' = accepted \cup {worker[w].job} /\ accepted' \subseteq Job
        /\ remote' \in [Job -> {"UNKNOWN", "RUNNING", "SUCCEEDED", "FAILED"}]
    BY <1>7, <2>1 DEF AcceptCommit, TypeOK
  <2> QED BY <2>1, <2>2, StageStep DEF Phase
<1>8. CASE RecordVerified(w)
  <2>1. worker[w].phase = "RECEIPT" /\ worker[w].job \in accepted
    BY <1>8 DEF RecordVerified, At, StagesAgree
  <2> QED BY <1>8, <2>1, EndedRow, EndStep DEF RecordVerified
<1>9. CASE Retry(w)
  <2> DEFINE k == worker[w].job
  <2>1. worker[w].phase # "RESTING" /\ k \in Job
    BY <1>9 DEF Retry, ClaimsAgree
  <2>2. Leased(job[k]) /\ worker[w].attempts = job[k].attempts
    BY <1>9, <2>1 DEF Retry, HoldsJob, Leased, ClaimsAgree
  <2>3. FreeRow(k, Failed(job[k], worker[w].attempts + 1))
    BY <2>1, <2>2, FailedRow
  <2> QED BY <1>9, <2>1, <2>3, EndStep DEF Retry
<1>10. CASE Abandon(w)
  <2>1. worker' = [worker EXCEPT ![w] = Resting] /\ UNCHANGED <<job, lease, remote, accepted>>
    BY <1>10 DEF Abandon
  <2>2. TypeOK'
    BY <2>1, AttemptsAssumption DEF TypeOK, Resting, Phase
  <2>3. ClaimsAgree' /\ StagesAgree'
    BY <2>1 DEF TypeOK, ClaimsAgree, StagesAgree, Resting
  <2> QED BY <2>1, <2>2, <2>3 DEF SubmissionsAgree, VerifiedIsAccepted, BudgetIsExact
<1> QED
  BY <1>1, <1>2, <1>3, <1>4, <1>5, <1>6, <1>7, <1>8, <1>9, <1>10 DEF Attempt

-----------------------------------------------------------------------------
\* The inductive invariant holds in every reachable state of the prover jobs.
THEOREM JobInvariance == Spec => []JInv
<1>1. JInv /\ [Next]_vars => JInv'
  <2> SUFFICES ASSUME JInv, [Next]_vars PROVE JInv'
    OBVIOUS
  <2>1. CASE UNCHANGED vars
    BY <2>1 DEF vars, JInv, TypeOK, ClaimsAgree, StagesAgree, SubmissionsAgree,
                VerifiedIsAccepted, BudgetIsExact
  <2>2. CASE Next
    BY <2>2, EnvironmentStep, AttemptStep, SweepStep, ClaimStep DEF Next
  <2> QED BY <2>1, <2>2
<1> QED BY <1>1, InitJInv, PTL DEF Spec

\* Rows keep the shape of migration 017, and have an owner exactly while leased.
THEOREM JobTypeCorrect == Spec => []TypeOK
BY JobInvariance, PTL DEF JInv

\* A VERIFIED job's transfer has been accepted by the settlement gate.
THEOREM VerifiedJobsAreAccepted == Spec => []VerifiedIsAccepted
BY JobInvariance, PTL DEF JInv

\* A job fails with its last attempt or by the prover's word, never before or after.
THEOREM RetryBudget == Spec => []BudgetIsExact
BY JobInvariance, PTL DEF JInv

\* A step that changes a row under a live lease is a step of its owner.
THEOREM OwnerFencing == Spec => LeaseProtectsJob
<1> DEFINE A == \A j \in lease : job'[j] # job[j] => worker'[job[j].owner] # worker[job[j].owner]
<1>1. JInv /\ [Next]_vars => [A]_vars
  <2> SUFFICES ASSUME JInv, Next, NEW j \in lease, job'[j] # job[j]
               PROVE  worker'[job[j].owner] # worker[job[j].owner]
    BY DEF vars
  <2> USE DEF JInv
  <2>1. j \in Job /\ Leased(job[j]) /\ ~Abandoned(j)
    BY DEF TypeOK, Abandoned
  <2>2. CASE \E i \in Job : Request(i)
    BY <2>1, <2>2 DEF Request, TypeOK, Leased
  <2>3. ASSUME NEW w \in Worker, worker[w].phase # "RESTING",
               HoldsJob(w, "SUBMITTING") \/ HoldsJob(w, "VERIFYING"),
               NEW row, EndAttempt(w, row)
        PROVE  worker'[job[j].owner] # worker[job[j].owner]
    <3>1. worker[w].job = j
      BY <2>1, <2>3 DEF EndAttempt, TypeOK
    <3> QED BY <2>3, <3>1 DEF HoldsJob, EndAttempt, TypeOK, Resting
  <2>4. ASSUME NEW w \in Worker, Attempt(w) \/ Retry(w)
        PROVE  worker'[job[j].owner] # worker[job[j].owner]
    <3>1. worker[w].phase # "RESTING"
      BY <2>4 DEF Attempt, Retry, SubmitRemotely, RecordSubmission, PollRemotely, RecordPending,
                  RecordRemoteFailure, AcceptRead, AcceptCommit, RecordVerified, At, ClaimsAgree
    <3>2. CASE RecordSubmission(w) \/ RecordPending(w) \/ RecordRemoteFailure(w)
                 \/ RecordVerified(w) \/ Retry(w)
      BY <2>3, <3>1, <3>2
      DEF RecordSubmission, RecordPending, RecordRemoteFailure, RecordVerified, Retry
    <3>3. CASE UNCHANGED job
      BY <3>3
    <3> QED
      BY <2>4, <3>2, <3>3 DEF Attempt, SubmitRemotely, PollRemotely, AcceptRead, AcceptCommit
  <2>5. CASE \E w \in Worker : SweepOnly(w)
    BY <2>1, <2>5, SweptRow DEF SweepOnly
  <2>6. ASSUME NEW w \in Worker, NEW i \in Job, ClaimJob(w, i)
        PROVE  FALSE
    <3>1. Swept[j] = job[j] /\ ~Claimable(Swept[j])
      BY <2>1, SweptRow DEF Leased, Claimable
    <3>2. i # j
      BY <2>6, <3>1 DEF ClaimJob
    <3> QED BY <2>1, <2>6, <3>1, <3>2 DEF ClaimJob, Swept
  <2> QED
    BY <2>2, <2>4, <2>5, <2>6
    DEF Next, AcceptDirectly, ExpireLease, RemoteEnds, Abandon
<1> QED BY <1>1, JobInvariance, PTL DEF Spec, LeaseProtectsJob

\* Every change of a row is one that migration 017's trigger lets through.
THEOREM TriggerConformance == Spec => TriggerNeverFires
<1> DEFINE Allowed(j) == \/ <<job[j].state, job'[j].state>> \in Permitted
                         \/ /\ Leased(job[j])
                            /\ <<job[j].state, "RETRYABLE">> \in Permitted
                            /\ <<"RETRYABLE", job'[j].state>> \in Permitted
<1>1. JInv /\ [Next]_vars => [\A j \in Job : job'[j] # job[j] => Allowed(j)]_vars
  <2> SUFFICES ASSUME JInv, Next, NEW j \in Job, job'[j] # job[j]
               PROVE  Allowed(j)
    BY DEF vars
  <2> USE DEF JInv
  <2>1. CASE \E i \in Job : Request(i)
    BY <2>1 DEF Request, TypeOK, Permitted
  <2>2. ASSUME NEW w \in Worker, worker[w].phase # "RESTING", NEW row, EndAttempt(w, row)
        PROVE  worker[w].job = j /\ job'[j] = row
    BY <2>2 DEF EndAttempt, TypeOK
  <2>3. ASSUME NEW w \in Worker, Attempt(w) \/ Retry(w)
        PROVE  Allowed(j)
    <3>1. worker[w].phase # "RESTING"
      BY <2>3 DEF Attempt, Retry, SubmitRemotely, RecordSubmission, PollRemotely, RecordPending,
                  RecordRemoteFailure, AcceptRead, AcceptCommit, RecordVerified, At, ClaimsAgree
    <3>2. CASE RecordSubmission(w)
      BY <2>2, <3>1, <3>2 DEF RecordSubmission, HoldsJob, Ended, Permitted
    <3>3. CASE RecordPending(w)
      BY <2>2, <3>1, <3>3 DEF RecordPending, HoldsJob, Ended, Permitted
    <3>4. CASE RecordRemoteFailure(w)
      BY <2>2, <3>1, <3>4 DEF RecordRemoteFailure, HoldsJob, Ended, Permitted
    <3>5. CASE RecordVerified(w)
      BY <2>2, <3>1, <3>5 DEF RecordVerified, HoldsJob, Ended, Permitted
    <3>6. CASE Retry(w)
      <4>1. worker[w].job = j /\ job'[j] = Failed(job[j], worker[w].attempts + 1)
              /\ Leased(job[j])
        BY <2>2, <3>1, <3>6 DEF Retry, HoldsJob, Leased
      <4>2. job'[j].state \in {"FAILED", "RETRYABLE"}
        BY <4>1 DEF Failed
      <4> QED BY <4>1, <4>2 DEF Leased, Permitted
    <3> QED
      BY <2>3, <3>2, <3>3, <3>4, <3>5, <3>6
      DEF Attempt, SubmitRemotely, PollRemotely, AcceptRead, AcceptCommit
  <2>4. Abandoned(j) => Leased(job[j])
    BY DEF Abandoned
  <2>5. CASE \E w \in Worker : SweepOnly(w)
    BY <2>4, <2>5, SweptRow DEF SweepOnly, Leased, Permitted
  <2>6. ASSUME NEW w \in Worker, NEW i \in Job, ClaimJob(w, i)
        PROVE  Allowed(j)
    <3>1. CASE i # j
      <4>1. job'[j] = Swept[j]
        BY <2>6, <3>1 DEF ClaimJob, Swept
      <4> QED BY <2>4, <4>1, SweptRow DEF Leased, Permitted
    <3>2. CASE i = j
      <4>1. /\ job'[j].state = IF Swept[j].submitted THEN "VERIFYING" ELSE "SUBMITTING"
            /\ Claimable(Swept[j])
        BY <2>6, <3>2 DEF ClaimJob, Swept, Claimed
      <4>2. CASE Abandoned(j)
        BY <2>4, <4>1, <4>2 DEF Leased, Permitted
      <4>3. CASE ~Abandoned(j)
        BY <4>1, <4>3, SweptRow DEF Claimable, SubmissionsAgree, Permitted
      <4> QED BY <4>2, <4>3
    <3> QED BY <3>1, <3>2
  <2> QED
    BY <2>1, <2>3, <2>5, <2>6
    DEF Next, AcceptDirectly, ExpireLease, RemoteEnds, Abandon
<1> QED BY <1>1, JobInvariance, PTL DEF Spec, TriggerNeverFires
=============================================================================
