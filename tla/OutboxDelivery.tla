-------------------------- MODULE OutboxDelivery --------------------------
(***************************************************************************)
(* The transactional outbox: rows in the database (PostgresStore), the     *)
(* workers that claim them under a lease and publish them one by one       *)
(* (OutboxDispatcher), the endpoint that receives them at least once, and  *)
(* the replay of dead letters by a maker and a checker.                    *)
(*                                                                         *)
(* Each statement of the store is atomic; a worker holds no transaction    *)
(* while it publishes, so leases expire, workers crash and copies of an    *)
(* event linger in the network between any two statements.                 *)
(***************************************************************************)
EXTENDS Naturals, FiniteSets

CONSTANTS
  NEvents,      \* events are numbered by enqueue_sequence
  OutboxAggregate,
  AggregateOf,
  Worker,
  Operator,
  MaxAttempts,  \* OutboxDispatcher.maxAttempts
  None

OutboxEvent == 1..NEvents

ASSUME EventAssumption == NEvents \in Nat /\ AggregateOf \in [OutboxEvent -> OutboxAggregate]
ASSUME AttemptsAssumption == MaxAttempts \in Nat \ {0}
ASSUME NoneAssumption == None \notin OutboxEvent /\ None \notin Worker /\ None \notin Operator

VARIABLES
  row,       \* outbox_events
  lease,     \* events whose lease_expires_at lies ahead
  worker,    \* dispatchBatch of each worker
  flight,    \* copies on their way to the endpoint, with the worker that sent them
  consumed,  \* inbox_consumptions
  request    \* PENDING rows of dead_letter_replay_requests

outboxVars == <<row, lease, worker, flight, consumed, request>>

NoRow == [status |-> "NONE", by |-> None, attempts |-> 0]
Resting == [batch |-> {}, current |-> None, acked |-> FALSE]

OutboxInit ==
  /\ row = [e \in OutboxEvent |-> NoRow]
  /\ lease = {}
  /\ worker = [w \in Worker |-> Resting]
  /\ flight = {}
  /\ consumed = {}
  /\ request = {}

Predecessors(e) == {p \in OutboxEvent : p < e /\ AggregateOf[p] = AggregateOf[e]}

\* enqueueOutbox: every caller holds the aggregate's audit lock until it commits, so
\* the events of an aggregate become visible in the order of their numbers.
Enqueue(e) ==
  /\ row[e].status = "NONE"
  /\ \A p \in Predecessors(e) : row[p].status # "NONE"
  /\ row' = [row EXCEPT ![e].status = "PENDING"]
  /\ UNCHANGED <<lease, worker, flight, consumed, request>>

-----------------------------------------------------------------------------
(* dispatchBatch.                                                          *)

\* Mutant: only a claimed predecessor holds an event back.
HeldBack_ByClaims(e) == \E p \in Predecessors(e) : row[p].status = "CLAIMED"

\* A predecessor that is not PUBLISHED holds an event back.
HeldBack(e) == \E p \in Predecessors(e) : row[p].status # "PUBLISHED"

\* Mutant: a claim whose lease has expired is not taken over.
Claimable_Once(e) == row[e].status \in {"PENDING", "FAILED"} /\ ~HeldBack(e)

\* available_at passes sooner or later, so a FAILED row is claimable at any time.
Claimable(e) ==
  /\ \/ row[e].status \in {"PENDING", "FAILED"}
     \/ row[e].status = "CLAIMED" /\ e \notin lease
  /\ ~HeldBack(e)

\* Attempts are only compared with MaxAttempts, so they are counted up to it.
NextAttempt(n) == IF n < MaxAttempts THEN n + 1 ELSE n

\* claimOutboxBatch; SKIP LOCKED and LIMIT may leave any of the rows out.
Claim(w, S) ==
  /\ worker[w] = Resting
  /\ S # {} /\ \A e \in S : Claimable(e)
  /\ row' = [e \in OutboxEvent |->
               IF e \in S
               THEN [status |-> "CLAIMED", by |-> w, attempts |-> NextAttempt(row[e].attempts)]
               ELSE row[e]]
  /\ lease' = lease \cup S
  /\ worker' = [worker EXCEPT ![w].batch = S]
  /\ UNCHANGED <<flight, consumed, request>>

ExpireLease(e) ==
  /\ e \in lease
  /\ lease' = lease \ {e}
  /\ UNCHANGED <<row, worker, flight, consumed, request>>

\* The loop sends the next event of the batch, whatever has become of its lease.
StartPublish(w, e) ==
  /\ worker[w].current = None
  /\ e \in worker[w].batch
  /\ worker' = [worker EXCEPT ![w] = [batch |-> @.batch \ {e}, current |-> e,
                                      acked |-> FALSE]]
  /\ flight' = flight \cup {<<e, w>>}
  /\ UNCHANGED <<row, lease, consumed, request>>

\* Mutant: the update of a settled event does not look at the claim.
HoldsClaim_Unfenced(w) == worker[w].current # None

\* WHERE status='CLAIMED' AND claimed_by=$2 AND lease_expires_at > now.
HoldsClaim(w) ==
  LET e == worker[w].current IN
  /\ e # None
  /\ row[e].status = "CLAIMED" /\ row[e].by = w
  /\ e \in lease

\* The row of the current event gets a new status, and the loop goes on.
Settle(w, status) ==
  LET e == worker[w].current IN
  /\ row' = [row EXCEPT ![e].status = status, ![e].by = None]
  /\ lease' = lease \ {e}
  /\ worker' = [worker EXCEPT ![w].current = None, ![w].acked = FALSE]
  /\ UNCHANGED <<flight, consumed, request>>

\* Mutant: the event is marked without waiting for publish.
Answered_NotAwaited(w) == worker[w].current # None

\* `publish` has resolved: the endpoint answered.
Answered(w) == worker[w].acked

MarkPublished(w) ==
  /\ HoldsClaim(w)
  /\ Answered(w)
  /\ Settle(w, "PUBLISHED")

Exhausted(e) == row[e].attempts >= MaxAttempts

\* `publish` threw: it was refused, timed out or its answer was lost.
MarkFailed(w) ==
  /\ HoldsClaim(w)
  /\ Settle(w, IF Exhausted(worker[w].current) THEN "DEAD" ELSE "FAILED")

\* OUTBOX_CLAIM_MISMATCH ends the loop: the rest of the batch waits for its leases.
AbandonBatch(w) ==
  /\ worker[w].current # None
  /\ ~HoldsClaim(w)
  /\ worker' = [worker EXCEPT ![w] = Resting]
  /\ UNCHANGED <<row, lease, flight, consumed, request>>

\* The process dies; what it sent may still arrive.
Crash(w) ==
  /\ worker[w] # Resting
  /\ worker' = [worker EXCEPT ![w] = Resting]
  /\ UNCHANGED <<row, lease, flight, consumed, request>>

-----------------------------------------------------------------------------
(* The endpoint: consumeOutboxOnce in the sandbox, a provider elsewhere.   *)

\* A copy arrives. It counts once (the inbox) and is answered if its sender waits.
Deliver(e, w) ==
  /\ <<e, w>> \in flight
  /\ flight' = flight \ {<<e, w>>}
  /\ consumed' = consumed \cup {e}
  /\ worker' = [worker EXCEPT ![w].acked = (@ \/ worker[w].current = e)]
  /\ UNCHANGED <<row, lease, request>>

LoseCopy(e, w) ==
  /\ <<e, w>> \in flight
  /\ flight' = flight \ {<<e, w>>}
  /\ UNCHANGED <<row, lease, worker, consumed, request>>

-----------------------------------------------------------------------------
(* Dead letters.                                                           *)

\* Mutant: an event may have several pending requests.
RequestFree_Many(e) == e \in OutboxEvent

\* dead_letter_one_pending_request
RequestFree(e) == \A r \in request : r.event # e

ProposeDeadLetterReplay(e, maker) ==
  /\ row[e].status = "DEAD"
  /\ RequestFree(e)
  /\ request' = request \cup {[event |-> e, maker |-> maker]}
  /\ UNCHANGED <<row, lease, worker, flight, consumed>>

RejectReplay(r, checker) ==
  /\ r.maker # checker
  /\ request' = request \ {r}
  /\ UNCHANGED <<row, lease, worker, flight, consumed>>

Replayed == [NoRow EXCEPT !.status = "PENDING"]

ApproveReplay(r, checker) ==
  /\ r.maker # checker
  /\ row[r.event].status = "DEAD"
  /\ row' = [row EXCEPT ![r.event] = Replayed]
  /\ request' = request \ {r}
  /\ UNCHANGED <<lease, worker, flight, consumed>>

-----------------------------------------------------------------------------
Dispatch ==
  \E w \in Worker :
    \/ \E S \in SUBSET OutboxEvent : Claim(w, S)
    \/ \E e \in OutboxEvent : StartPublish(w, e)
    \/ MarkPublished(w) \/ MarkFailed(w) \/ AbandonBatch(w) \/ Crash(w)

Endpoint == \E e \in OutboxEvent, w \in Worker : Deliver(e, w) \/ LoseCopy(e, w)

Replay ==
  \/ \E e \in OutboxEvent, m \in Operator : ProposeDeadLetterReplay(e, m)
  \/ \E r \in request, c \in Operator : RejectReplay(r, c) \/ ApproveReplay(r, c)

OutboxNext ==
  \/ \E e \in OutboxEvent : Enqueue(e) \/ ExpireLease(e)
  \/ Dispatch
  \/ Endpoint
  \/ Replay

OutboxSpec == OutboxInit /\ [][OutboxNext]_outboxVars

-----------------------------------------------------------------------------
(* Properties.                                                             *)

\* The rows keep the shape migrations 001, 004 and 005 give them.
OutboxTypeOK ==
  /\ row \in [OutboxEvent ->
               [status : {"NONE", "PENDING", "CLAIMED", "PUBLISHED", "FAILED", "DEAD"},
                by : Worker \cup {None}, attempts : 0..MaxAttempts]]
  /\ lease \subseteq OutboxEvent
  /\ worker \in [Worker -> [batch : SUBSET OutboxEvent, current : OutboxEvent \cup {None},
                            acked : BOOLEAN]]
  /\ flight \subseteq OutboxEvent \X Worker
  /\ consumed \subseteq OutboxEvent
  /\ request \subseteq [event : OutboxEvent, maker : Operator]

\* Through retries, takeovers, crashes and dead letters, the endpoint gets the events
\* of an aggregate for the first time in enqueue order (claimOutboxBatch).
FirstDeliveriesInOrder == \A e \in consumed : Predecessors(e) \subseteq consumed

\* No event is written off as published unless the endpoint has it (dispatchBatch).
PublishedWasDelivered == \A e \in OutboxEvent : row[e].status = "PUBLISHED" => e \in consumed

\* While an event is not published, nothing has happened to a later one of its
\* aggregate, and what is published stays so: a worker that lost its claim cannot
\* disturb its successor (markOutboxPublished, markOutboxFailed).
NeverOvertaken ==
  \A e \in OutboxEvent : \A p \in Predecessors(e) :
    row[p].status # "PUBLISHED" => row[e] \in {NoRow, [NoRow EXCEPT !.status = "PENDING"]}

\* A pending replay is about an event that is still dead, so that approving it puts
\* no live event back to the start (migration 005).
PendingReplayIsDead == \A r \in request : row[r.event].status = "DEAD"

Owns(w, e) == row[e].status = "CLAIMED" /\ row[e].by = w /\ e \in lease

\* Workers loop, time passes, and for no aggregate does a stage of the way fail for
\* ever: a claim, a sending, a delivery, a mark and the two steps of a replay each
\* succeed if they can be tried again and again.
Diligence ==
  /\ \A w \in Worker :
       WF_outboxVars(\/ MarkPublished(w) \/ MarkFailed(w) \/ AbandonBatch(w)
                     \/ \E e \in OutboxEvent : StartPublish(w, e))
  /\ \A a \in OutboxAggregate :
       LET Stream == {e \in OutboxEvent : AggregateOf[e] = a} IN
       /\ WF_outboxVars(\E e \in Stream : ExpireLease(e))
       /\ SF_outboxVars(\E e \in Stream, w \in Worker : Claim(w, {e}))
       /\ SF_outboxVars(\E e \in Stream, w \in Worker : Owns(w, e) /\ StartPublish(w, e))
       /\ SF_outboxVars(\E e \in Stream, w \in Worker :
                          Owns(w, e) /\ worker[w].current = e /\ Deliver(e, w))
       /\ SF_outboxVars(\E e \in Stream, w \in Worker :
                          worker[w].current = e /\ MarkPublished(w))
       /\ SF_outboxVars(\E e \in Stream, m \in Operator : ProposeDeadLetterReplay(e, m))
       /\ SF_outboxVars(\E r \in request, c \in Operator :
                          r.event \in Stream /\ ApproveReplay(r, c))

OutboxLiveSpec == OutboxSpec /\ Diligence

\* Every event is published in the end, dead letters ahead of it included.
EveryEventIsPublished ==
  \A e \in OutboxEvent : row[e].status # "NONE" ~> row[e].status = "PUBLISHED"
=============================================================================
