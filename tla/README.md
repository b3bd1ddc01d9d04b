# A TLA+ development of the RWA control plane

This directory specifies and verifies the concurrent and persistent core of the
control plane: the confidential note rail, its prover jobs, the audit log with its
checkpoints, the transactional outbox, the callbacks of institutions with the
incidents they open, the registered rail with its exception cases, the product
catalogue with its activations, the sessions of the people who govern and the ZK
parameters they govern, and the in-memory kernel of the sandbox. The modules are
checked with TLC on small instances; the safety of each of them is proved with TLAPS
for every value of its constants. `PROJECT.json` maps each definition to the source
lines it stands for.

## 1. Inventory

Everything durable lives in one PostgreSQL database. A service method is, with few
exceptions, one `SERIALIZABLE` transaction (`postgres-store.js`, `withSerializableTransaction`,
which runs again on 40001 and 40P01 only). The processes are a web server, an
outbox worker and a prover worker; each may run several times and die at any moment.

| Component | State | Operations | Hard behaviour | What makes it correct |
|---|---|---|---|---|
| **Confidential transfer service** `storage/confidential-transfer-service.js` | intents, execution instructions, owner keys | `prepare`, `registerOwnerKey`, `revokeOwnerKey` | the party, product and key may change after a transfer is prepared | nothing is consumed for a party that is no longer eligible |
| **Settlement gate** `storage/zk-settlement-gate.js` | authorizations, spent nullifiers, output commitments, settlements, proposals, Merkle roots | `authorize`, `accept`, `proposeFinalization`, `cancelFinalization`, `finalize` | `accept` reads, awaits a verifier outside any transaction, then commits; concurrent checkers; stale proposals | no double spend, no burned value, one tree, four eyes, eventual publication |
| **Note tree** `security/poseidon-merkle.js` | frontier of an append-only tree | append, verify an extension | arithmetic at the borders of a subtree | the incremental root is the root of the leaves |
| **Prover jobs** `storage/prover-job-service.js` | jobs, leases, attempts | `request`, `runOnce` (sweep, claim, submit or poll, accept, record, retry) | lease expiry racing `accept`, receipt recovery, attempts burned by a pause | a settled transfer's job is not reported as failed for good, no transfer is stuck |
| **Audit log and checkpoints** `storage/postgres-store.js`, `storage/audit-checkpoint-service.js` | event chains per aggregate, checkpoint chain per tenant | `recordAuditEvent`, `createCheckpoint`, `recordExternalAnchor`, `verifyCheckpoints` | advisory locks taken after the snapshot, sequence numbers lost by aborts | chains do not fork; a checkpoint verifies as long as nobody tampers |
| **Outbox** `storage/postgres-store.js`, `storage/outbox-dispatcher.js` | outbox rows, leases, inbox, replay requests | enqueue, claim, publish, mark, replay by maker and checker | crashes, expired leases, late duplicates, dead letters | nothing is lost, nothing overtakes within an aggregate |
| **Institution callbacks** `storage/institution-callback-service.js` | streams, positions, buffered messages | receive, buffer, drain, revoke keys | early and duplicate messages, a drain that blocks, keys revoked meanwhile | applied in order, once, by a key that is valid then |
| **External incidents** `storage/external-incident-service.js` | incidents, approvals | `propose`, `decide` | several rounds of proposal and rejection | every failure has its incident; maker and checker of the round that resolves differ |
| **Durable workflows** `storage/durable-workflow-service.js` | products, credentials, NAV evidence, intents, cash, unit and register batches, exception cases, approvals | subscribe, transfer, redeem, propose, approve, restrict, pause, reset | a retry in a savepoint under the rules of that moment, a replacement id that others use | each obligation is settled once; ledgers and register are the effects of what settled; restrictions hold for retries too |
| **Product catalogue** `storage/product-catalog-service.js` | institutions, keys, roles, evidence, activations, and the triggers of migrations 019 and 021 on them | review, register, revoke, create, assign, attach, propose, decide | roles change and keys are revoked while a decision is pending | four eyes in the last round, no evidence of a revoked key, one activation at a time |
| **ZK governance** `storage/zk-governance-service.js` | proposals, circuits, contexts, the pinned artifact of the process | propose, decide | a redeployment or another approval between proposal and decision | what is in force is what two people approved, the pinned artifact goes into force, contexts are disjoint |
| **Identity** `security/production-auth.js` | login challenges, consumed tokens, sessions, memberships, grants | challenge, login, authenticate, authorize, revoke | the same challenge or token presented twice; authority withdrawn after a login | each is used once; authority is read anew by every request |
| **Rate limiter** `security/rate-limiter.js` | windows per key | `consume` | the limit of keys, window borders | never more than the limit within a window |
| **Demonstration kernel** `src/control-plane.js` | in-memory maps: NAV evidence, credentials, cash, units, register, transactions, cases, receipts | submit evidence, subscribe, transfer, redeem, fail, propose, approve, pause, restrict, reconcile | long sequences of legal calls: a retry under changed rules, two cases and one new id, packages recomputed after a review | books are the effects of what settled, one key for each transaction, receipts stay verifiable, a failure is made good once |

The remaining components (HTTP routing, envelope encryption, read model, monitors,
start-up checks and release tooling, browser UI) are I/O, data conversion or
queries; they are listed in `PROJECT.json` with the reason they are left out.

**Interactions.** The transfer service and the gate share the intent and
instruction rows; the gate calls the verifier and, in the same transaction as each
state change, `recordAuditEvent` and `enqueueOutbox`. Both of these first take the
aggregate's advisory lock, which is why an outbox sequence is visible in order
within an aggregate. `accept` is called by the web server and by the prover
worker, each with a gate object and a concurrency counter of its own. A
checkpointer and the writers of audit events meet only in the tenant lock. The
catalogue's roles and keys authorize callbacks (modelled again, as their environment, in
`InstitutionCallbacks`), and its triggers pause products that `DurableWorkflowService`
resumes. Every HTTP route authenticates a session, authorizes the action, reads the body
and then calls a service: `GovernedParameters` composes that with ZK governance.

## 2. Modules

| Module | What it is |
|---|---|
| `NoteLedger` | abstract specification: what the rail promises, with no database in sight |
| `ConfidentialSettlement` | transfer service and settlement gate of one product, down to each handler |
| `MCConfidentialSettlement` | instances of it for TLC |
| `ConfidentialSettlement_proofs` | theorems about it, and that it implements `NoteLedger` |
| `ProverJobs`, `MCProverJobs` | proof jobs, their workers, the remote prover, the two ends of `accept` |
| `ProverJobs_proofs` | theorems about it |
| `InstitutionCallbacks`, `MCInstitutionCallbacks` | callback streams of a product, the roles and keys that authorize them, the incidents they open |
| `DurableWorkflow`, `MCDurableWorkflow` | the registered rail of one product: settlements, balances, exception cases, demo reset |
| `DurableWorkflow_proofs` | theorems about it |
| `AuditChain`, `MCAuditChain` | audit chains and checkpoints of one tenant |
| `OutboxDelivery`, `MCOutboxDelivery` | outbox rows, workers, network, endpoint, replay |
| `OrderedLogs_proofs` | theorems about the callback streams, the outbox and the audit log, the three logs whose order matters |
| `ProductActivation`, `MCProductActivation` | institutions, keys, roles, evidence and the activation of products |
| `ProductActivation_proofs` | theorems about it |
| `LoginSessions` | login challenges, tokens, sessions and requests |
| `ZkGovernance` | proposals of circuits and contexts, the artifact pinned by the process |
| `GovernedParameters`, `MCGovernedParameters` | the two composed: the routes of the ZK parameters |
| `GovernedParameters_proofs` | theorems about the composition |
| `ControlPlane`, `MCControlPlane` | the in-memory kernel of the sandbox |
| `ControlPlane_proofs` | theorems about it |
| `FiniteSetLemmas` | least and greatest elements of sets of numbers, and sums over finite sets, for the proofs |

### ConfidentialSettlement

| Variable | Code |
|---|---|
| `product`, `policy` | `products.status`; status of the proof context and of the circuit |
| `eligible`, `ownerKey` | outcome of `assertEligibleCredential`; `confidential_note_owner_keys` |
| `tx`, `instr`, `authz` | `transaction_intents.current_state`, `zk_execution_instructions`, `zk_transaction_authorizations` |
| `call` | the local variables of every `accept` in flight, across its `await` |
| `spentBy`, `outputs`, `settlement` | `zk_spent_nullifiers`, `zk_output_commitments`, `zk_settlements` |
| `proposal`, `tree`, `historical`, `expiredRoots` | `zk_finalization_proposals` (latest row), `zk_merkle_roots` by status |
| `outbox` | topics enqueued for the transfer |

Each handler is one action, because it is one serializable transaction. `accept`
is three: `AcceptRead` (the unlocked read and the slot), `VerifyProof` (the await)
and `AcceptCommit` (its transaction); `AcceptAbandon` is every exit in between, a
crash included. `finalize` has two outcomes: `FinalizePublish`, and `FinalizeStale`
when the tree has moved on, which commits the cancellation of the proposal before
the error is thrown.

Abstractions. A note stands for its commitment and its nullifier; a root for
the sequence of leaves it commits to, since Poseidon is taken to be free of
collisions. A verified proof is `ProofHolds`: both inputs are leaves of the
root it names; the circuit's arithmetic is not modelled. `eligible` shrinks: a
restricted party stays restricted. The database operator may retire a policy,
although no handler does; nothing sets the root status `REVOKED`, so there is no
such status here. `Genesis` is the content of the first CURRENT root. The
governance service installs an empty tree (`zk-governance-service.js:110-115`)
while a JoinSplit consumes two members, so the leaves a product starts with are a
parameter and not a constant of the code.

### ProverJobs

`ClaimJob` and `SweepOnly` are the one transaction that begins `runOnce`: all
expired rows are swept, then one due row is claimed, possibly one just
swept. From there on a worker is a program counter (`worker[w].phase`) and the row as it
was claimed; each await is a step of its own, with the answer of `getJob`
used after the remote job may have moved on. `lease` holds the rows
whose lease lies ahead; the updates of `prover-job-service.js` compare the owner and
the state but not the lease, so a late worker may still record its result as long as
nobody has swept the row. `Abandon` is a crash as well as `PROVER_JOB_LEASE_LOST`. Of the
settlement gate there are only the unlocked read (`AcceptRead`, with the recovery
of an existing receipt) and the commit, which the broker may reach first
(`AcceptDirectly`). `CANCELLED` is a state of the schema that no code enters.

### InstitutionCallbacks

| Variable | Code |
|---|---|
| `draft`, `holder`, `keyState` | `products.status`, `product_role_assignments` in force, `institution_signing_keys` |
| `received`, `applied`, `adverse` | `callback_receipts`, those whose application is APPLIED, those of them that are a mismatch or not CONFIRMED |
| `next` | `callback_stream_positions` |
| `incident`, `round`, `approvals` | `external_reconciliation_incidents`, `external_incident_approvals` |

`Receive` is the whole transaction of `receive`, the drain included: `Drains(e, stop)` says
what the loop of lines 241-268 has found when it ends, `OpenIncidents` what it and
`#recordEvidenceAndReconciliation` insert (a plain insert for an adverse callback, one
that tolerates a row for a blocked one). A rejected or repeated callback changes nothing and is
therefore no step; `Envelope` holds well-formed, correctly signed callbacks, two
of which may share an id or a place. Whether a payload agrees with the
transaction it names is a free choice for each application. Expiry is checked on receipt and
not when a buffered callback is applied; refusing an expired callback is a step
that does not happen, so every behaviour with expiry is among those checked. The status of an
institution is ACTIVE throughout, since no handler changes it. Roles move only while the product is
a DRAFT; receipt does not look at the product's status. The reset of the demonstration data is
left out.

### DurableWorkflow

| Variable | Code |
|---|---|
| `product`, `nav`, `credential` | `products.status`; price of the latest NAV evidence in force; `credentials.status` |
| `clock` | time, compared with `expiresAt` of a transfer and `valid_until` of a credential |
| `cash`, `units`, `register` | `accountBalance` of the accounts, sums over `ledger_entries` and `register_entries` |
| `state`, `request`, `amount` | `transaction_intents`: state, encrypted request, amount in its economic commitment |
| `case`, `round`, `replacement` | `exception_cases` |
| `approvals` | `approval_records` |

Every operation is one serializable transaction and one action; the transitions inside
`#settleInTransaction` are never visible, only the state it commits. `Settle` is the three
paths that succeed: `Executable` holds the checks of `#productContext`, `Eligible` and
`Funded`, and `Unrecorded` says that neither the id nor the idempotency key exists (primary key, unique
key). `Post` is the cash and unit batches and the register. `RegisterFailure` is a
transfer whose register does not confirm: same checks, no entries, an open case. A refused
request rolls back, and a repeated one is answered from its receipt; neither is a step.

`Reject`, `Cancel`, `Retry` and `RetryBlocked` are the outcomes of
`approveExceptionResolution`, with `Check` for what precedes them. `Retry` evaluates
`Executable` again, with the original request under the replacement's id. `RetryBlocked` is
*any* error inside the savepoint, so it is possible at every approval; the checker's row,
written before the savepoint, stays. Since `Post` is evaluated on the rules of the moment, a
`REDEEM` is paid at the current NAV, a `SUBSCRIBE` at a price that must equal it and a
`TRANSFER` at one within the band.

Abstractions. There is one credential per investor; integers are unbounded (the
code uses `BigInt` over `NUMERIC`). `Treasury` and `Fee` stand for the other ends of the double entries.
`ResetSandboxDemo` deletes nothing whenever a transaction exists, because the foreign
key of `transaction_party_index` (migration 031) refuses it: finding 2.

### AuditChain

A transaction's snapshot is taken by its first statement, the advisory locks by
later ones (or, in `createCheckpoint`, *by the first one itself*, after the snapshot).
So `Begin` stores `events`, `LockTenant` and `LockAggregate` may wait, and `Insert`
looks its predecessor up in the stored snapshot. `audit_chain_single_successor`
rejects the insert of a stale writer (`InsertRejected`); the identity number is
gone. A writer of several events locks and inserts once for each, which may close a
cycle of waiting writers: PostgreSQL breaks it (40P01), which is `Abort`. A shared
request queues behind a waiting exclusive one, except for a transaction that
holds the lock already. What PostgreSQL additionally aborts because of
read/write conflicts (SSI) is not computed: the model admits those schedules too. The
schedule of the boundary run is serializable, so SSI need not prevent it.

### OutboxDelivery

`Claim`, `MarkPublished`, `MarkFailed` are the three statements; a worker is the loop
of `dispatchBatch` with its local batch. `flight` holds copies on their way: a
copy can arrive after its sender died or lost its lease. `Deliver` is the arrival and
the answer; a lost answer is a `MarkFailed` after it. `available_at`, backoff and
`LIMIT` are nondeterministic; attempts are counted to `MaxAttempts`, which is all
they are compared with. The audit lock behind `Enqueue` is taken from every caller
of `enqueueOutbox`, which records its audit event first.

### ProductActivation

| Variable | Code |
|---|---|
| `onboarding`, `reviews` | `tenant_institutions.onboarding_status`, `institution_onboarding_approvals` |
| `key` | `institution_signing_keys.status` |
| `status`, `config` | `products.status`, `product_configurations.configuration_status` |
| `assigned`, `evidence` | open rows of `product_role_assignments`; `product_evidence_requirements` with the evidence each rests on |
| `approvals` | `product_activation_approvals` |

`RevokeSigningKey` is the service's update and what the triggers of migration 021 do with
it in the same transaction: `Withdrawn` (requirements), `Suspended` (configurations),
`Paused` (products), in that order. `AssignRole` ends with `Refreshed`, as the code calls
`#refreshConfigurationStatus`, and so overwrites ACTIVATION_PENDING. `ActivationReady` does
not compare the source of the evidence with who holds the role now, since
`#assertActivationReady` does not. `SetProductStatus` is the pause and resume of another
service, which looks at `products.status` alone. Validity windows of keys are left out (a
key inside its window is ACTIVE), and so are the templates' terms.

### GovernedParameters

`LoginSessions` splits a login at its reads: `VerifyToken` reads the providers and verifies
the token, `OpenSession` is the transaction, `DenyLogin` every failure. A request is
`Authenticate` (the first query of `authenticate`), `Authorize` (its last query, the grants,
and `authorizeAction`), then an action when the body has arrived, then `Answer`. `withheld` is what
operators have taken away with SQL, which no code in the repository does: the provider, a
member's standing or a grant of the role. `overtaken` is a history variable: it remembers
clients whose authority was withdrawn during their request, the only interval in which the code
acts on what it read before.

`ZkGovernance` has one action for each outcome of `propose` and `decide`; the availability
checks are operators that both call, because the code asks them again at the decision. `Redeploy` is
a restart with another build, whose adapter pins another artifact; artifacts are
records of a version and a hash, so that two builds may share a version. `RetireContext` is
SQL under the guard trigger. `GovernedParameters` joins them: the actor of a
proposal or a decision is the member of the session that was authorized.

### ControlPlane

The variables are the maps of the class; the log of events is left out, as nothing inside
reads it. JavaScript runs a call to its end, so each method is an action, and a call that
throws is no step. The exception is `BlockRetry`: the approval of a retry catches the error
of the transfer and commits the return of the case to OPEN. `Keep` is `#idempotent` with
what a settled transaction writes; a repetition under its key is answered from the map and
changes nothing. Requests carry what their fingerprint covers: `transfer` and
`simulateRegisterFailure` build the same one, so one key cannot do both.
`Package` is what the hash of an evidence package covers, as `transactionEvidencePackage`
computes it at every read; `Receipt` what was handed out. `LatestNav` takes the statement
that became effective last and only then looks at its expiry, so an expired statement
hides an older one that is valid. The demo's role views, market draft and confidential demo are
not modelled; `lastExceptionCaseId`, which forgets an earlier open case, is the demo's choice
of which case to act on and leaves the kernel as it is.

## 3. Runs

| Run | Instance | Question | Result |
|---|---|---|---|
| `settlement_chain` | 3 transfers, 4 JoinSplits (two in conflict, one spending another's outputs, two creating one commitment), 2 operators, 2 calls; nobody is restricted | double spends, one tree of settled outputs, one chain of roots, refinement of `NoteLedger` | hold, 0.4 million states |
| `settlement_live` | 2 independent transfers, every administrative action, 2 operators, 1 call | four eyes, checks after the await, eventual publication | hold, 0.1 million states |
| `prover_jobs` | 1 job, 2 workers, 3 attempts | fencing, retry budget, no verification without acceptance; is every requested job decided? | hold, 3445 states |
| `callbacks` | 6 envelopes of 2 institutions on one channel, 2 keys, 2 people, 2 proposals | strict order, failures and stops reported, stopped streams stay stopped, attested resolutions | hold, 0.2 million states |
| `workflow` | a subscription, 2 transfers, a redemption; 2 investors, 5 ids, 2 people, 2 proposals, clock 0..1, NAV 10, 12 or none | balances are what settled, one settlement per case, two people, restrictions | hold, 0.2 million states |
| `workflow_reset` | as above | does the demo reset succeed? | **violated**, finding 2 |
| `audit_chain` | 2 writers, 2 aggregates, 2 checkpointers, 2 numbers; a transaction records one event of either aggregate or one of each | linear chains, final verdicts, one checkpoint chain; does a waiting checkpoint get its turn? | hold, 0.1 million states |
| `audit_boundary` | as above, 3 numbers | does every checkpoint verify? | **violated**, finding 1 |
| `outbox_delivery` | 2 events of one aggregate, 2 workers, 2 operators, 2 attempts | order of first deliveries, no loss, no overtaking, replay; is every event published in the end? | hold, 8,863 states |
| `activation` | 2 institutions, 3 keys, a product with 2 roles and 2 mandatory requirements, 2 people, 1 review round, 2 activation rounds | four eyes, evidence of live keys, one activation at a time | hold, 77 thousand states |
| `access` | 2 members, 2 clients, 3 tokens for 2 challenges, 3 artifacts of 2 versions, 2 products, 1 context id, 2 proposals | single use of logins, current authority, attested and disjoint parameters, the pinned artifact | hold, 1.4 million states |
| `kernel` | 2 investors, 4 ids, 3 keys, 2 NAV statements, clock 0..2, 2 proposals for each case | books, idempotency, receipts, cases | hold, 62 thousand states |

**Bounds.** Three transfers are a spend, a conflicting spend and the spend of a
pending output in one behaviour, and two proposals over one base with the stale
one proposed again. Two calls of `accept` are the race; a third adds nothing,
as calls interact only through the rows. `MaxTreeSize = 9` leaves room for two
publications (the code requires the new size to stay below the limit): in
`settlement_chain` a third transfer finds the tree full, in `settlement_live`
both fit. `MaxSeq = 2` gives an event that commits late and one
that commits early, with a checkpoint between the two commits or two checkpoints over
the pair; with a second aggregate a writer holds one lock
and waits for the other. With three numbers and two plans the run gives the same result
(0.8 million states), in minutes. Two workers and two events of an aggregate
are a takeover, a late copy and an overtaking. Aggregates meet nowhere but in a
worker's batch, which publishes one event after the other, so a second one only
multiplies the states (it was run: 2.9 million of them and the same result).
Symmetry is used in safety runs only, over transfers, calls, operators or workers,
which the modules treat alike.

With three attempts a prover job sees a crash, a takeover, a failure and the last
attempt. Jobs meet only in `ORDER BY next_attempt_at`, which is the fairness assumed, so
one job is enough; the theorems hold for any number.

In `workflow`, investor `b` may hold one unit and has cash for one transfer, so two
transfers compete for both and a redemption makes room; two proposals are two rounds of
one case or one round of two cases, under the same new id or under each other's. The
clock separates a transfer that expires from one that does not, and a credential from
the other. Three proposals were run too: no other result, minutes instead of seconds.

Three places of a stream are a gap, a buffered run behind it and a drain that stops in
its middle; the second institution shows that a role that moves leaves a stream behind. Two
proposals are two rounds of one incident or one round of two. Streams meet nowhere but
in ids, roles and keys, so more of them add nothing.

In `activation` two people and two rounds are a rejection and an approval by exchanged
people; the first institution has two keys, so evidence loses one and rests again on the
other, and either institution may hold either role. Reviews of institutions have one round: the
rounds of both kinds go by the same operators. In `access` two tokens answer one challenge, two
products want one context id, and two builds share a version, so each uniqueness rule meets its
rival; operators withhold one thing at a time, which is the interval between two queries. In
`kernel` the investors' funds, limits and credentials end at different times: a transfer
that was agreed is refused at its retry for each of the reasons there are, and four ids
are two failed transfers with the two replacements they may share or not.

**Deadlock.** `CHECK_DEADLOCK FALSE` where the instance may come to rest: each instance has a finite amount of
work (every instruction expired, every number handed out, every event
published, every round used), after which the system rests.

**Fairness.** `OperatorDiligence`: the product is resumed (weakly fair); the proposal and
the finalization of a transfer that are possible again and again happen in the end
(strongly fair). People are behind both, so the assumption is a promise of
operations, not of the code; it says nothing of `CancelFinalization`, which may
happen any number of times in between. `AuditLiveSpec`: PostgreSQL runs or ends what it has begun and grants a free lock; writers need not
begin, checkpoints need not start. `LiveSpec` of `ProverJobs`: worker
loops go on, leases run out, the prover ends what it has begun, each cycle sweeps, and a
due row is not passed over for ever; errors, crashes and lost leases may be as
frequent as they like, since each one costs an attempt. `Diligence` of the outbox: the worker loop goes on
and time passes (weakly fair); a claim, a sending, a delivery, a mark and the
replay of dead letters, each for an aggregate as a whole, do not fail for ever
(strongly fair). Without the last no at-least-once transport delivers anything.

## 4. Proofs

`ConfidentialSettlement_proofs` proves, for every set of transfers, notes, parties,
operators, calls and gates, and from the assumptions in `ConfidentialSettlement` only:

1. `Invariance`: `IInv` is inductive. `NoDoubleSpend` is not, for it says nothing
   of the interval between the read of `accept` and its transaction. `IInv` adds that
   the row a call has read is bound to the authorization (which is immutable but for
   its status), that an accepted transfer is the one `spentBy` names for both its
   inputs, and that its outputs are recorded, i.e. that the tables written by
   `AcceptCommit` agree.
   `TypeCorrect`, `DoubleSpendFree` and `ValueIsNeverBurned` follow.
2. `ConsumptionRechecked`: the action property, by the same invariant.
3. `PublicationInvariance`: `PInv` is inductive. It relates the finality tables
   (`tx`, `settlement`, `proposal`), orders every root, base and verified call's root as a
   prefix of the tree, and says that an accepted transfer's inputs are leaves of
   it. `OneChainOfRoots`, `SpendingFollowsPublication` and `FourEyes` follow.
4. `TreeIsExact`: `TInv` adds that the settled transfers are finitely many, which a
   cardinality needs; a publication appends two leaves and settles one transfer more, and
   every other step leaves the tree, the settled ones and their outputs alone
   (`OnlyFinalizePublishes`, by the cases of `Next`).
5. `Refinement`: initial states map to initial states, and each step to
   `AcceptTransfer`, `PublishTransfer` or a stutter of `NoteLedger`.

`ProverJobs_proofs` proves, for any number of jobs, workers and attempts, that `JInv` is
inductive (`JobInvariance`). `BudgetIsExact` is not inductive alone, because `#retry`
decides with the attempts of the row *as it was claimed* and the sweep with those of
the row as it is; `ClaimsAgree` says they are equal while the worker owns the row, and
`StagesAgree` and `SubmissionsAgree` tie a worker's stage and `external_job_id` to
what the prover and the gate have really done. The state invariants and two action
properties, `OwnerFencing` and `TriggerConformance`, follow from it.

`OrderedLogs_proofs` has three parts, which share no state. Their modules name their
specifications apart (`CallbackSpec`, `OutboxSpec`, `AuditSpec`) so that one module can speak of
all three. It proves, for any set of envelopes, institutions, channels, keys
and people, and any bound on sequences, that `CInv` is inductive (`CallbackInvariance`).
`StreamIsPrefix` needs that a place of a stream has one receipt (`OnePerPlace`), or a drain could
apply one callback of a place and leave another behind the position. `FailureIsReported` is the
reason why the plain insert of an incident never meets a row: the only callback that has an
incident before it is applied is the one its stream stands still at, and `StopIsFinal` shows it
is never applied. `ResolutionIsAttested` needs `OpenIsUnapproved`: nothing of an earlier round
has been approved. All six properties of the run are theorems.

Of the outbox it proves, for any number of events, aggregates, workers, operators and
attempts, that `OInv` is inductive (`OutboxInvariance`). `NeverOvertaken` and
`FirstDeliveriesInOrder` speak of rows and of the endpoint, and say nothing of a worker that lost
its lease, or died, with copies under way. `Released` does: whatever is in anybody's batch,
current or in flight has only published predecessors, and keeps them, because nothing that is
published is ever reopened. An expired claim that is taken over therefore cannot matter to the order.
`PublishedWasDelivered` needs `AnswersAreDeliveries`, `PendingReplayIsDead` that there is
one request for each event (`OneRequest`), or approving one would revive the subject of another.
`PublicationIsFinal` is the action property behind all this.

Of the audit log it proves, for any number of writers, aggregates and checkpointers, any
transactions and any bound on the numbers, that `AInv` is inductive (`AuditInvariance`).
The argument for `AuditChainIsLinear` follows a row from its insert to its commit: a snapshot is
a prefix of each aggregate's committed events (`SnapshotsArePrefixes`), so a stale writer's
predecessor is one that has a successor already and the unique index refuses it (`StaleIsRejected`),
and a writer that is not stale finds the last one (`PredecessorIsLast`). From then on the lock of the
aggregate keeps others out (`LocksAreHeld`), so that its rows come after all that is
committed (`RowsComeLast`) and are chained as they will be after the commit (`RowsAreChained`).
`CheckpointsFormOneChain` follows from the number's primary key. For `VerdictsAreFinal` the open rows
of a writer have numbers above every boundary (`BoundariesArePassed`): the writer holds the shared lock, so
the exclusive one was not granted since its first insert. This is also why finding 1 is about
the *snapshot* of the checkpoint and not about its boundary: what has verified cannot be spoiled,
but a checkpoint may be recorded wrong. That finite sets of numbers have a greatest element is
shown by a smallest counterexample (`LeastExists`).

`DurableWorkflow_proofs` proves, for any set of investors, transactions, requests, prices and
limits, that `IInv` is inductive (`WorkflowInvariance`). `WithinLimits` needs the register
to be the unit ledger, because the limit is checked against the register and the holding
against the ledger, and `Kept`: what a retry runs is a request that was checked when it was submitted.
`ExceptionSettlesOnce` is inductive because a retry's id must be free (`Unrecorded`); the
keys of retries are disjoint from those of callers by `KeyAssumption`. `ResolutionIsAttested` needs
`ProposalsFit`, which ties a decision to its replacement id. `OnlyExits` is proved in the same
case analysis, since a retry posts under the checks of its own moment. `BooksAreExact` is the
theorem about the sums (`BalancesAreSettledEffects`): `BooksGrow` is the step that settles one
more transaction, a submission or a retry, and `BooksStay` every other, which changes neither
the settled ids nor their requests and amounts. `FiniteSetLemmas` characterises the fold of the
library first (`SumIs`, `SumAdd`, `SumSame`). That needs an induction over finite sets, which the library
offers only with an operator as parameter; it is done with a minimal counterexample
instead (`SmallestSet`: strict inclusion of finite sets is well founded).

`ProductActivation_proofs` proves, for any number of institutions, keys, products, people and
rounds, that `IInv` is inductive (`ActivationInvariance`). `OneOpenActivation` needs that rounds
are numbered without a gap (`RoundsAreDense`): the round of a proposal is one more than one
that exists, and only then later than all. `ActivationIsAttested` needs it in turn, because the open row
that is approved must be the latest. `EvidenceIsAlive` is inductive once `StatusesAgree`
says that a draft is never in force. All three invariants of the run are theorems.

`GovernedParameters_proofs` proves two invariants of the composition, `SInv` of the sessions and
`GInv` of the parameters (`AccessInvariance`). `AuthorityIsCurrent` follows from
`AuthorityHolds`, which says of every moment of a request, and not only of the last, that what it
was let in for is still granted unless it was overtaken. `LoginsAreSingleUse` compares
cardinalities, so `SInv` says that a login under way has no session yet and that both sets are finite.
`PinnedWhenActivated` needs `VersionsAreUnique`, of the inherited artifacts too
(`InheritedAssumption`: the version is a primary key). All five properties of the run are theorems.

`ControlPlane_proofs` proves, for any accounts, ids, keys, people, statements, amounts and
limits, that `IInv` is inductive (`ControlPlaneInvariance`). None of the four invariants of the
run is inductive alone:

- `BooksAreSettledEffects` needs `Booked`, which says of every transaction the state of its cash, that the
  settled ones are finitely many, and that the register is the unit ledger. The sums use `FiniteSetLemmas`: `BooksGrow`
  for the steps that settle one more transaction (a subscription, a redemption, a transfer, a
  retry), `BooksStay` for the others. That no balance falls below zero is part of `TypeOK`, and
  follows from what each call checks before it moves anything.
- `OneKeyPerTransaction` needs `RetryKeysFit`: a retry stores its receipt under `exception-retry:<case>:<id>`
  without looking whether one is there, and would return it if there were. The key can only hold a
  receipt of that id, and the id is new, so it is free. `KeyAssumption` says that callers do not
  use such keys themselves; the code reserves no prefix.
- `ReceiptsStayTrue` compares a package that was computed at the time with one that is computed from the
  longer history now, so the filter of a history must be shown to pass over what a review adds.
  `CoreSteps` is a recursive function for this reason: `CoreStepsAre` says that any function that
  collects the core steps has its value, `CoreStepsStay` that review steps at the end change nothing. Both
  use smallest counterexamples in place of induction. Every step of an existing
  transaction is then a `Continues`, which keeps a receipt true.
- `ExceptionsSettleOnce` needs `CasesFit`: only a retried case has a replacement, which is settled, and
  a new replacement is an id that nothing has used.

`NoneAssumption` says that `None` is no row and no value of a field, as `null` is in the code.

Only model-checked: `AcceptedIsPublished`, `JobIsDecided`, `CheckpointCompletes` and
`EveryEventIsPublished`; liveness under fairness is beyond the proof system. All other properties
of the passing runs are theorems.

Proved and not checked by a run of their own, because a stronger or related property of a run
shows the same code: the type invariants, `NoValueBurned`, `SpentNotesArePublished`,
`TriggerNeverFires`, `AppliedUnderAuthority`, `WithinLimits` and `PublishedIsFinal`.

## 5. Findings

1. *The boundary of a checkpoint is not final* (`audit-checkpoint-service.js:57`). The
   exclusive lock is the first statement of a `SERIALIZABLE` transaction, so the
   snapshot is older than the wait. An event with a smaller number that
   commits during the wait is below the recorded boundary and missing in the digest,
   and `verifyCheckpoints` reports `EVENT_COUNT_MISMATCH` for a history nobody
   touched. What has verified goes on verifying (`VerdictIsFinal`), but a checkpoint recorded
   in this way never does. When the events share
   an index page, SSI may abort one of the transactions and hide the case.
2. *The demo reset fails once there is a transaction* (`durable-workflow-service.js:332`). It
   deletes `transaction_intents` but not `transaction_party_index`, whose rows refer to
   them since migration 031; the foreign key stops it, and everything is rolled back.

Met while modelling, and in the modules as the code has it, without a run that refutes a property:

- *A late duplicate may arrive out of order* (`outbox-dispatcher.js:38`). `README.md:54` speaks of strict
  enqueue order. First deliveries are in order (`FirstDeliveriesInOrder`), but a worker whose lease expired
  during `publish` can deliver its copy after the next event of the aggregate.
- *Resume revives a suspended product* (`durable-workflow-service.js:170`). Revocation of a key
  suspends a configuration and pauses its product (`docs/PRODUCT_EVIDENCE_SIGNATURES.md:72`);
  `setProductStatus` looks at `products.status` alone and makes it ACTIVE again. The
  configuration itself has no way back from SUSPENDED.
- *A role assigned during a pending activation strands it* (`product-catalog-service.js:406`): the
  configuration leaves ACTIVATION_PENDING, the maker's row stays open, and from then on neither a
  decision (not pending) nor a proposal (already pending) is possible.
- *A context may be approved for a version that is no longer pinned* (`zk-governance-service.js:102`):
  only CIRCUIT_ACTIVATION compares the payload with the process's artifact.

## 6. Not modelled

The arithmetic of the Merkle frontier, of Poseidon and of the circuits, and the Groth16 verifier
with its child process: data conversions without a protocol, represented by what they guarantee (`ProofHolds`,
roots as sequences of leaves). Envelope encryption and commitments, parsing of tokens and HTTP, cookies,
configuration and migrations: functions of their input. Read model, monitors and telemetry: queries. The rate
limiter: one synchronous counter per client. The browser UI. In the sandbox, the role
views, the market draft and the confidential demo of `demo-runtime.js`.

## 7. Plan

All components with a protocol of their own have their modules. Left for later: the frontier of the
Merkle tree as a pure algorithm, against the root of its leaves.
