---------------------------- MODULE ProverJobs ----------------------------
(***************************************************************************)
(* Durable proof generation: a job per authorized transfer                 *)
(* (ProverJobService), workers that claim a job under a lease, submit it   *)
(* to the isolated prover, poll it and hand the proof to the settlement    *)
(* gate, and the sweep that takes a job away from a worker whose lease has *)
(* expired.                                                                *)
(*                                                                         *)
(* A worker holds no transaction between its claim and its last update: it *)
(* awaits the prover, the verifier and the gate, and other workers, the    *)
(* clock and the broker act meanwhile. Of the gate only the two ends of    *)
(* `accept` remain, its unlocked read and its transaction; the module      *)
(* ConfidentialSettlement has the rest.                                    *)
(***************************************************************************)
EXTENDS Naturals, FiniteSets

CONSTANTS
  Job,          \* jobs, each with the transfer it belongs to
  Worker,
  MaxAttempts,  \* MAX_ATTEMPTS
  None

ASSUME AttemptsAssumption == MaxAttempts \in Nat \ {0}
ASSUME NoneAssumption == None \notin Job /\ None \notin Worker

VARIABLES
  job,       \* prover_jobs
  lease,     \* jobs whose lease_expires_at lies ahead
  worker,    \* runOnce of each worker: where it is, and the row it has claimed
  remote,    \* the isolated prover's state of a job
  accepted   \* transfers with a proof receipt: `accept` has committed

vars == <<job, lease, worker, remote, accepted>>

NoJob == [state |-> "NONE", owner |-> None, submitted |-> FALSE, attempts |-> 0]
Resting == [phase |-> "RESTING", job |-> None, attempts |-> 0]

Init ==
  /\ job = [j \in Job |-> NoJob]
  /\ lease = {}
  /\ worker = [w \in Worker |-> Resting]
  /\ remote = [j \in Job |-> "UNKNOWN"]
  /\ accepted = {}

Leased(row) == row.state \in {"SUBMITTING", "VERIFYING"}

-----------------------------------------------------------------------------
(* The broker, the clock and the prover.                                   *)

\* request: a second one for the same transfer answers with the stored job.
Request(j) ==
  /\ j \notin accepted
  /\ job[j].state = "NONE"
  /\ job' = [job EXCEPT ![j].state = "QUEUED"]
  /\ UNCHANGED <<lease, worker, remote, accepted>>

\* The broker has a proof of its own and calls the gate itself.
AcceptDirectly(j) ==
  /\ j \notin accepted
  /\ accepted' = accepted \cup {j}
  /\ UNCHANGED <<job, lease, worker, remote>>

ExpireLease(j) ==
  /\ j \in lease
  /\ lease' = lease \ {j}
  /\ UNCHANGED <<job, worker, remote, accepted>>

RemoteEnds(j, state) ==
  /\ remote[j] = "RUNNING"
  /\ remote' = [remote EXCEPT ![j] = state]
  /\ UNCHANGED <<job, lease, worker, accepted>>

-----------------------------------------------------------------------------
(* The transaction that begins runOnce.                                    *)

\* Mutant: there is no sweep (before migration 023).
Abandoned_Never(j) == job[j].state = "ABANDONED"

\* A worker crashed or stalled past its lease.
Abandoned(j) == Leased(job[j]) /\ j \notin lease

\* Mutant: the last attempt is not the last.
Spent_OffByOne(attempts) == attempts > MaxAttempts

Spent(attempts) == attempts >= MaxAttempts

\* A row after one more failed attempt.
Failed(row, attempts) ==
  [state |-> IF Spent(attempts) THEN "FAILED" ELSE "RETRYABLE", owner |-> None,
   submitted |-> row.submitted, attempts |-> row.attempts + 1]

Swept == [j \in Job |-> IF Abandoned(j) THEN Failed(job[j], job[j].attempts + 1) ELSE job[j]]

Claimable(row) == row.state \in {"QUEUED", "REMOTE_PENDING", "RETRYABLE"}

Claimed(row, w) ==
  [state |-> IF row.submitted THEN "VERIFYING" ELSE "SUBMITTING", owner |-> w,
   submitted |-> row.submitted, attempts |-> row.attempts]

\* The sweep, then one due row: a worker that has been swept may take its own job
\* again. next_attempt_at passes sooner or later.
ClaimJob(w, j) ==
  /\ worker[w] = Resting
  /\ Claimable(Swept[j])
  /\ job' = [Swept EXCEPT ![j] = Claimed(@, w)]
  /\ lease' = lease \cup {j}
  /\ worker' = [worker EXCEPT ![w] =
                  [phase |-> IF job[j].submitted THEN "POLL" ELSE "SUBMIT", job |-> j,
                   attempts |-> Swept[j].attempts]]
  /\ UNCHANGED <<remote, accepted>>

\* The sweep alone, when nothing is due.
SweepOnly(w) ==
  /\ worker[w] = Resting
  /\ job' = Swept
  /\ UNCHANGED <<lease, worker, remote, accepted>>

-----------------------------------------------------------------------------
(* What a worker does with its claim.                                      *)

At(w, phase) == worker[w].phase = phase

GoTo(w, phase) == worker' = [worker EXCEPT ![w].phase = phase]

\* Mutant: the update looks at the state of the row and not at its owner.
HoldsJob_AnyOwner(w, state) == job[worker[w].job].state = state

\* WHERE id=$1 AND lease_owner=$2 AND state=...
HoldsJob(w, state) == job[worker[w].job].owner = w /\ job[worker[w].job].state = state

\* The row of an attempt that has not failed.
Ended(row, state) ==
  [state |-> state, owner |-> None, submitted |-> row.submitted \/ state = "REMOTE_PENDING",
   attempts |-> row.attempts]

\* The update that ends an attempt and gives the row back.
EndAttempt(w, row) ==
  /\ job' = [job EXCEPT ![worker[w].job] = row]
  /\ lease' = lease \ {worker[w].job}
  /\ worker' = [worker EXCEPT ![w] = Resting]
  /\ UNCHANGED <<remote, accepted>>

\* submitJob: the job's id is the request's, so a repetition is the same request.
SubmitRemotely(w) ==
  /\ At(w, "SUBMIT")
  /\ remote' = [remote EXCEPT ![worker[w].job] = IF @ = "UNKNOWN" THEN "RUNNING" ELSE @]
  /\ GoTo(w, "SUBMITTED")
  /\ UNCHANGED <<job, lease, accepted>>

RecordSubmission(w) ==
  /\ At(w, "SUBMITTED")
  /\ HoldsJob(w, "SUBMITTING")
  /\ EndAttempt(w, Ended(job[worker[w].job], "REMOTE_PENDING"))

\* getJob answers; its answer is used when the remote job may have moved on.
PollRemotely(w) ==
  /\ At(w, "POLL")
  /\ GoTo(w, remote[worker[w].job])
  /\ UNCHANGED <<job, lease, remote, accepted>>

RecordPending(w) ==
  /\ At(w, "RUNNING")
  /\ HoldsJob(w, "VERIFYING")
  /\ EndAttempt(w, Ended(job[worker[w].job], "REMOTE_PENDING"))

RecordRemoteFailure(w) ==
  /\ At(w, "FAILED")
  /\ HoldsJob(w, "VERIFYING")
  /\ EndAttempt(w, Ended(job[worker[w].job], "FAILED"))

\* Mutant: the gate's first read is taken for its commit.
AcceptRead_Optimistic(w) ==
  /\ At(w, "SUCCEEDED")
  /\ GoTo(w, "RECEIPT")
  /\ UNCHANGED <<job, lease, remote, accepted>>

\* The unlocked read of `accept`: when the authorization is no longer PENDING, the
\* receipt is looked up instead.
AcceptRead(w) ==
  /\ At(w, "SUCCEEDED")
  /\ GoTo(w, IF worker[w].job \in accepted THEN "RECEIPT" ELSE "ACCEPT")
  /\ UNCHANGED <<job, lease, remote, accepted>>

\* The transaction of `accept`; it refuses a transfer accepted since the read.
AcceptCommit(w) ==
  /\ At(w, "ACCEPT")
  /\ worker[w].job \notin accepted
  /\ accepted' = accepted \cup {worker[w].job}
  /\ GoTo(w, "RECEIPT")
  /\ UNCHANGED <<job, lease, remote>>

RecordVerified(w) ==
  /\ At(w, "RECEIPT")
  /\ HoldsJob(w, "VERIFYING")
  /\ EndAttempt(w, Ended(job[worker[w].job], "VERIFIED"))

\* #retry, after any error of the attempt: of the cipher, the prover, the verifier
\* (PROOF_VERIFIER_BUSY), the gate (a paused product, a lost race) or the database.
\* Whether the attempt was the last is decided by the row as it was claimed.
Retry(w) ==
  /\ worker[w] # Resting
  /\ \E state \in {"SUBMITTING", "VERIFYING"} : HoldsJob(w, state)
  /\ EndAttempt(w, Failed(job[worker[w].job], worker[w].attempts + 1))

\* PROVER_JOB_LEASE_LOST, or #retry finds its row taken away, or the process dies.
\* The row stays as it is.
Abandon(w) ==
  /\ worker[w] # Resting
  /\ worker' = [worker EXCEPT ![w] = Resting]
  /\ UNCHANGED <<job, lease, remote, accepted>>

-----------------------------------------------------------------------------
Attempt(w) ==
  \/ SubmitRemotely(w) \/ RecordSubmission(w)
  \/ PollRemotely(w) \/ RecordPending(w) \/ RecordRemoteFailure(w)
  \/ AcceptRead(w) \/ AcceptCommit(w) \/ RecordVerified(w)

Next ==
  \/ \E j \in Job : \/ Request(j) \/ AcceptDirectly(j) \/ ExpireLease(j)
                    \/ \E state \in {"SUCCEEDED", "FAILED"} : RemoteEnds(j, state)
  \/ \E w \in Worker : \/ Attempt(w) \/ Retry(w) \/ Abandon(w) \/ SweepOnly(w)
                       \/ \E j \in Job : ClaimJob(w, j)

Spec == Init /\ [][Next]_vars

\* The worker loop goes on, leases run out, the prover ends what it began, every cycle
\* sweeps, and a due row is not passed over for ever (ORDER BY next_attempt_at).
\* Errors, crashes and lost leases stay as frequent as they like.
LiveSpec ==
  /\ Spec
  /\ SF_vars(\E w \in Worker : SweepOnly(w))
  /\ \A w \in Worker : WF_vars(Attempt(w) \/ Retry(w) \/ Abandon(w))
  /\ \A j \in Job : /\ WF_vars(ExpireLease(j))
                    /\ WF_vars(\E state \in {"SUCCEEDED", "FAILED"} : RemoteEnds(j, state))
                    /\ SF_vars(\E w \in Worker : ClaimJob(w, j))

-----------------------------------------------------------------------------
(* Properties.                                                             *)

State == {"NONE", "QUEUED", "SUBMITTING", "REMOTE_PENDING", "VERIFYING", "VERIFIED",
          "RETRYABLE", "FAILED"}
Phase == {"RESTING", "SUBMIT", "SUBMITTED", "POLL", "RUNNING", "FAILED", "SUCCEEDED",
          "ACCEPT", "RECEIPT"}

\* The rows keep the shape migration 017 gives them, and a row has an owner exactly
\* while it is leased out.
TypeOK ==
  /\ job \in [Job -> [state : State, owner : Worker \cup {None}, submitted : BOOLEAN,
                      attempts : 0..MaxAttempts]]
  /\ \A j \in Job : job[j].owner # None <=> Leased(job[j])
  /\ lease \subseteq {j \in Job : Leased(job[j])}
  /\ worker \in [Worker -> [phase : Phase, job : Job \cup {None},
                            attempts : 0..(MaxAttempts - 1)]]
  /\ remote \in [Job -> {"UNKNOWN", "RUNNING", "SUCCEEDED", "FAILED"}]
  /\ accepted \subseteq Job

\* A job is VERIFIED only for a transfer the gate has accepted, by this worker, an
\* earlier one that died, or the broker (receipt recovery of #poll).
VerifiedIsAccepted == \A j \in Job : job[j].state = "VERIFIED" => j \in accepted

\* docs/PROVER_OPERATIONS.md:24-28: a job fails when the prover says so or with the
\* last of its attempts, and until then it has one left, although #retry counts from
\* the row as it was claimed and the sweep from the row as it is.
BudgetIsExact ==
  \A j \in Job :
    /\ job[j].state = "FAILED" => job[j].attempts = MaxAttempts \/ remote[j] = "FAILED"
    /\ job[j].state # "FAILED" => job[j].attempts < MaxAttempts

\* While a lease runs, nobody but its owner changes the row: "the stalled worker can
\* no longer overwrite the recovered job" (docs/PROVER_OPERATIONS.md:31-32).
LeaseProtectsJob ==
  [][\A j \in lease : job'[j] # job[j] => worker'[job[j].owner] # worker[job[j].owner]]_vars

\* The transitions guard_prover_job_lifecycle lets through.
Permitted ==
     {"NONE"} \X {"QUEUED"}
  \cup {"QUEUED"} \X {"SUBMITTING"}
  \cup {"SUBMITTING"} \X {"REMOTE_PENDING", "RETRYABLE", "FAILED"}
  \cup {"REMOTE_PENDING"} \X {"VERIFYING", "REMOTE_PENDING", "RETRYABLE", "FAILED"}
  \cup {"VERIFYING"} \X {"VERIFIED", "REMOTE_PENDING", "RETRYABLE", "FAILED"}
  \cup {"RETRYABLE"} \X {"SUBMITTING", "VERIFYING", "FAILED"}

\* No handler, in whatever order they run, meets the trigger of migration 017: each
\* change of a row is permitted, or is the sweep and then the claim of one transaction.
TriggerNeverFires ==
  [][\A j \in Job : job'[j] # job[j] =>
       \/ <<job[j].state, job'[j].state>> \in Permitted
       \/ /\ Leased(job[j])
          /\ <<job[j].state, "RETRYABLE">> \in Permitted
          /\ <<"RETRYABLE", job'[j].state>> \in Permitted]_vars

\* Every requested job is decided in the end, however its workers crash and stall.
JobIsDecided ==
  \A j \in Job : job[j].state = "QUEUED" ~> job[j].state \in {"VERIFIED", "FAILED"}
=============================================================================
