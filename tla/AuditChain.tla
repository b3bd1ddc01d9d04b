---------------------------- MODULE AuditChain ----------------------------
(***************************************************************************)
(* The audit log of one tenant: the hash chain of every aggregate          *)
(* (PostgresStore.recordAuditEvent) and the checkpoints folded over all    *)
(* of them (AuditChainCheckpointService).                                  *)
(*                                                                         *)
(* Both run in SERIALIZABLE transactions, which read the database as it    *)
(* was at their first statement. The advisory locks are taken later, so a  *)
(* transaction that waited for one still reads its old snapshot. Sequence  *)
(* numbers are handed out at the insert and are lost by an abort.          *)
(*                                                                         *)
(* A hash does not collide: the hash of an event stands for its sequence   *)
(* number, the digest of a checkpoint for everything folded so far.        *)
(***************************************************************************)
EXTENDS Naturals, Sequences, FiniteSets, FiniteSetsExt

CONSTANTS
  Writer,        \* transactions that record audit events
  Aggregate,
  Plan,          \* what one transaction may record: aggregates, in order
  Checkpointer,  \* concurrent calls of createCheckpoint
  MaxSeq         \* bound on the sequence numbers handed out

ASSUME PlanAssumption == Plan \subseteq Seq(Aggregate)
ASSUME MaxSeqAssumption == MaxSeq \in Nat

VARIABLES
  events,       \* committed rows of audit_events
  nextSeq,      \* the identity of sequence_id
  txn,          \* each writer's transaction
  shared,       \* holders of the tenant lock in shared mode
  aggLock,      \* holders of each aggregate's lock
  ck,           \* each checkpointer's transaction
  checkpoints   \* audit_chain_checkpoints, by checkpoint_number

writerVars == <<events, nextSeq, txn, shared, aggLock>>
checkpointVars == <<ck, checkpoints>>
auditVars == <<writerVars, checkpointVars>>

NoTxn == [phase |-> "IDLE", snapshot |-> {}, rows |-> {}, todo |-> << >>]
NoCheckpoint == [phase |-> "IDLE", snapshot |-> {}, last |-> 0]

AuditInit ==
  /\ events = {}
  /\ nextSeq = 1
  /\ txn = [w \in Writer |-> NoTxn]
  /\ shared = {}
  /\ aggLock = [a \in Aggregate |-> {}]
  /\ ck = [k \in Checkpointer |-> NoCheckpoint]
  /\ checkpoints = << >>

-----------------------------------------------------------------------------
(* recordAuditEvent.                                                       *)

\* The first statement of the transaction takes the snapshot.
Begin(w, plan) ==
  /\ txn[w].phase = "IDLE"
  /\ txn' = [txn EXCEPT ![w] = [phase |-> "OPEN", snapshot |-> events, rows |-> {},
                                todo |-> plan]]
  /\ UNCHANGED <<events, nextSeq, shared, aggLock, checkpointVars>>

\* pg_advisory_xact_lock_shared: queued behind a checkpoint that waits already.
LockTenant(w) ==
  /\ txn[w].phase = "OPEN" /\ txn[w].todo # << >>
  /\ w \in shared \/ \A k \in Checkpointer : ck[k].phase = "IDLE"
  /\ shared' = shared \cup {w}
  /\ txn' = [txn EXCEPT ![w].phase = "SHARED"]
  /\ UNCHANGED <<events, nextSeq, aggLock, checkpointVars>>

\* pg_advisory_xact_lock of the aggregate.
LockAggregate(w) ==
  LET a == Head(txn[w].todo) IN
  /\ txn[w].phase = "SHARED"
  /\ aggLock[a] \subseteq {w}
  /\ aggLock' = [aggLock EXCEPT ![a] = {w}]
  /\ txn' = [txn EXCEPT ![w].phase = "LOCKED"]
  /\ UNCHANGED <<events, nextSeq, shared, checkpointVars>>

\* ORDER BY sequence_id DESC LIMIT 1, 0 when the aggregate has no event.
LastOf(a, S) == Max({e.seq : e \in {x \in S : x.agg = a}} \cup {0})

\* Mutant: no unique index on (aggregate, previous_hash).
SuccessorFree_Unchecked(a, prev) == prev \in Nat

\* audit_chain_single_successor.
SuccessorFree(a, prev) == ~ \E e \in events : e.agg = a /\ e.prev = prev

Insert(w) ==
  LET a == Head(txn[w].todo)
      prev == LastOf(a, txn[w].snapshot \cup txn[w].rows)
  IN
  /\ txn[w].phase = "LOCKED"
  /\ nextSeq <= MaxSeq
  /\ SuccessorFree(a, prev)
  /\ nextSeq' = nextSeq + 1
  /\ txn' = [txn EXCEPT ![w].rows = @ \cup {[seq |-> nextSeq, agg |-> a, prev |-> prev]},
                        ![w].todo = Tail(@),
                        ![w].phase = "OPEN"]
  /\ UNCHANGED <<events, shared, aggLock, checkpointVars>>

Unlocked(w) == [a \in Aggregate |-> aggLock[a] \ {w}]

\* Rolled back: an error of the caller, 40001, 40P01 or a lost connection. A retry
\* is a new transaction.
Abort(w) ==
  /\ txn[w].phase # "IDLE"
  /\ shared' = shared \ {w}
  /\ aggLock' = Unlocked(w)
  /\ txn' = [txn EXCEPT ![w] = NoTxn]
  /\ UNCHANGED <<events, nextSeq, checkpointVars>>

\* 23505: the snapshot missed the last event. The number is taken and lost.
InsertRejected(w) ==
  LET a == Head(txn[w].todo) IN
  /\ txn[w].phase = "LOCKED"
  /\ nextSeq <= MaxSeq
  /\ ~SuccessorFree(a, LastOf(a, txn[w].snapshot \cup txn[w].rows))
  /\ nextSeq' = nextSeq + 1
  /\ shared' = shared \ {w}
  /\ aggLock' = Unlocked(w)
  /\ txn' = [txn EXCEPT ![w] = NoTxn]
  /\ UNCHANGED <<events, checkpointVars>>

\* Mutant: the tenant lock is a session lock and outlives the transaction.
Commit_SessionLock(w) ==
  /\ txn[w].phase = "OPEN" /\ txn[w].todo = << >>
  /\ events' = events \cup txn[w].rows
  /\ aggLock' = Unlocked(w)
  /\ txn' = [txn EXCEPT ![w] = NoTxn]
  /\ UNCHANGED <<nextSeq, shared, checkpointVars>>

Commit(w) ==
  /\ txn[w].phase = "OPEN" /\ txn[w].todo = << >>
  /\ events' = events \cup txn[w].rows
  /\ shared' = shared \ {w}
  /\ aggLock' = Unlocked(w)
  /\ txn' = [txn EXCEPT ![w] = NoTxn]
  /\ UNCHANGED <<nextSeq, checkpointVars>>

-----------------------------------------------------------------------------
(* createCheckpoint, recordExternalAnchor and verifyCheckpoints.           *)

\* Its first statement asks for the exclusive tenant lock: the snapshot is taken
\* before the wait, of the events and of the checkpoints.
StartCheckpoint(k) ==
  /\ ck[k].phase = "IDLE"
  /\ ck' = [ck EXCEPT ![k] = [phase |-> "WAITING", snapshot |-> events,
                              last |-> Len(checkpoints)]]
  /\ UNCHANGED <<writerVars, checkpoints>>

Through(n) == IF n = 0 THEN 0 ELSE checkpoints[n].through
Count(n) == IF n = 0 THEN 0 ELSE checkpoints[n].count
Digest(n) == IF n = 0 THEN << >> ELSE checkpoints[n].digest

EventRange(S, from, until) == {e.seq : e \in {x \in S : from <= x.seq /\ x.seq <= until}}

\* digestOf
DigestOf(prev, through, count, folded) ==
  Append(prev, [through |-> through, count |-> count, folded |-> folded])

\* Mutant: the checkpoint does not wait for the writers.
Exclusive_Unlocked == shared \subseteq Writer

\* The exclusive lock is granted when no writer holds the shared one.
Exclusive == shared = {}

\* NO_NEW_AUDIT_EVENTS
Foldable(folded) == folded # {}

\* Mutant: the number of a checkpoint is not a key.
NumberFree_Unchecked(n) == n \in Nat

\* Primary key (tenant_id, checkpoint_number).
NumberFree(n) == n > Len(checkpoints)

\* The lock is granted, the snapshot folded and the row committed: the lock keeps
\* every other writer and checkpointer out until then.
FoldAndRecord(k) ==
  LET last == ck[k].last
      folded == EventRange(ck[k].snapshot, Through(last) + 1, MaxSeq)
      through == Max(folded \cup {Through(last)})
      count == Count(last) + Cardinality(folded)
  IN
  /\ ck[k].phase = "WAITING"
  /\ Exclusive
  /\ Foldable(folded)
  /\ NumberFree(last + 1)
  /\ checkpoints' = Append(checkpoints,
       [through |-> through, count |-> count, prev |-> Digest(last), anchored |-> FALSE,
        digest |-> DigestOf(Digest(last), through, count, folded)])
  /\ ck' = [ck EXCEPT ![k] = NoCheckpoint]
  /\ UNCHANGED writerVars

\* Nothing to fold, the number is taken, or the connection is lost.
CheckpointFails(k) ==
  /\ ck[k].phase = "WAITING"
  /\ ck' = [ck EXCEPT ![k] = NoCheckpoint]
  /\ UNCHANGED <<writerVars, checkpoints>>

\* recordExternalAnchor: written once.
Anchor(n) ==
  /\ ~checkpoints[n].anchored
  /\ checkpoints' = [checkpoints EXCEPT ![n].anchored = TRUE]
  /\ UNCHANGED <<writerVars, ck>>

\* What verifyCheckpoints recomputes for the n-th checkpoint.
Reproduces(n) ==
  LET folded == EventRange(events, Through(n - 1) + 1, Through(n))
      count == Cardinality(EventRange(events, 1, Through(n)))
  IN
  /\ checkpoints[n].prev = Digest(n - 1)
  /\ checkpoints[n].count = count
  /\ checkpoints[n].digest = DigestOf(Digest(n - 1), Through(n), count, folded)

\* It stops at the first mismatch.
Verifies(n) == \A i \in 1..n : Reproduces(i)

-----------------------------------------------------------------------------
Record ==
  \E w \in Writer :
    \/ \E plan \in Plan : Begin(w, plan)
    \/ LockTenant(w) \/ LockAggregate(w)
    \/ Insert(w) \/ InsertRejected(w) \/ Commit(w) \/ Abort(w)

Checkpoint ==
  \/ \E k \in Checkpointer : StartCheckpoint(k) \/ FoldAndRecord(k) \/ CheckpointFails(k)
  \/ \E n \in DOMAIN checkpoints : Anchor(n)

AuditNext == Record \/ Checkpoint

AuditSpec == AuditInit /\ [][AuditNext]_auditVars

\* PostgreSQL runs on a transaction that can run and ends one that cannot (deadlock
\* detection, the caller's error): no transaction stays open for ever.
WriterEnds(w) == LockTenant(w) \/ LockAggregate(w) \/ Insert(w) \/ Commit(w) \/ Abort(w)
CheckpointEnds(k) == Exclusive /\ (FoldAndRecord(k) \/ CheckpointFails(k))

AuditLiveSpec ==
  /\ AuditSpec
  /\ \A w \in Writer : WF_auditVars(WriterEnds(w))
  /\ \A k \in Checkpointer : WF_auditVars(CheckpointEnds(k))

-----------------------------------------------------------------------------
(* Properties.                                                             *)

AuditEvent == [seq : Nat \ {0}, agg : Aggregate, prev : Nat]

\* The rows keep their shape and their CHECK constraints (migrations 001 and 032).
AuditTypeOK ==
  /\ events \subseteq AuditEvent
  /\ nextSeq \in Nat \ {0}
  /\ \A w \in Writer : /\ txn[w].phase \in {"IDLE", "OPEN", "SHARED", "LOCKED"}
                       /\ txn[w].snapshot \subseteq events
                       /\ txn[w].rows \subseteq AuditEvent
                       /\ txn[w].todo \in Seq(Aggregate)
  /\ shared \subseteq Writer
  /\ \A a \in Aggregate : aggLock[a] \subseteq Writer
  /\ \A k \in Checkpointer : /\ ck[k].phase \in {"IDLE", "WAITING"}
                             /\ ck[k].snapshot \subseteq events
                             /\ ck[k].last \in 0..Len(checkpoints)
  /\ \A n \in DOMAIN checkpoints : checkpoints[n].through > 0 /\ checkpoints[n].count > 0

\* Each aggregate's events form one chain in sequence order, although a writer that
\* waited for the aggregate's lock looks its predecessor up in a snapshot taken
\* before the wait (recordAuditEvent, audit_chain_single_successor).
AuditChainIsLinear ==
  \A e \in events : e.prev = LastOf(e.agg, {x \in events : x.seq < e.seq})

\* The checkpoints are one chain of digests over adjacent ranges, although two
\* checkpointers may have read the same last one (createCheckpoint).
CheckpointsFormOneChain ==
  \A n \in DOMAIN checkpoints :
    checkpoints[n].prev = Digest(n - 1) /\ Through(n) > Through(n - 1)

\* Once a checkpoint is recorded its verdict is final: a history that verified goes
\* on verifying whatever is appended later (the exclusive lock of createCheckpoint).
VerdictIsFinal ==
  [][\A n \in DOMAIN checkpoints : Verifies(n) => Verifies(n)']_auditVars

\* A checkpoint that waits for the writers gets its turn: those that come later
\* queue behind it (transaction-scoped advisory locks).
CheckpointCompletes ==
  \A k \in Checkpointer : ck[k].phase = "WAITING" ~> ck[k].phase = "IDLE"

\* audit-checkpoint-service.js:14-17: a checkpoint waits for the writers "so the
\* boundary it reads is final". Then verifyCheckpoints reproduces each of them.
EveryCheckpointVerifies == Verifies(Len(checkpoints))
=============================================================================
