---------------------- MODULE ConfidentialSettlement ----------------------
(***************************************************************************)
(* The confidential note rail of one product: a transfer is prepared       *)
(* (ConfidentialTransferService), bound to its public inputs, proved and   *)
(* accepted, and its two outputs are published into the note tree by a     *)
(* maker and a checker (ZkSettlementGate).                                 *)
(*                                                                         *)
(* Every handler runs in one SERIALIZABLE transaction and is one action,   *)
(* except `accept`, which reads the authorization, awaits the verifier     *)
(* outside any transaction and only then opens its transaction: it is the  *)
(* three actions AcceptRead, VerifyProof and AcceptCommit of a Call, and   *)
(* other handlers run in between.                                          *)
(*                                                                         *)
(* A note is identified with its commitment, and its nullifier with it; a  *)
(* Merkle root is the sequence of leaves it commits to (Poseidon does not  *)
(* collide), so the tree size is the length of the sequence.               *)
(***************************************************************************)
EXTENDS Naturals, Sequences, FiniteSets

CONSTANTS
  Tx,             \* confidential transfer transactions
  Note,           \* note commitments
  Party,          \* investors that hold a credential of the product
  Key,            \* note owner public keys
  Operator,       \* members of the operations role
  Call,           \* concurrent calls of ZkSettlementGate.accept
  Gate,           \* processes that own a gate (web server, prover worker)
  GateOf,         \* the gate a call runs in
  MaxConcurrent,  \* verifications one gate runs at a time
  MaxTreeSize,    \* 2^32 in the code: the note tree stays below it
  JoinSplit,      \* the JoinSplits clients may ask for
  Genesis,        \* leaves of the first CURRENT root
  None

JoinSplits == [in0 : Note, in1 : Note, out0 : Note, out1 : Note]

ASSUME GateAssumption == GateOf \in [Call -> Gate] /\ MaxConcurrent \in Nat \ {0}
ASSUME TreeAssumption == MaxTreeSize \in Nat /\ Genesis \in Seq(Note)
ASSUME JoinSplitAssumption == JoinSplit \subseteq JoinSplits
ASSUME NoneAssumption ==
  None \notin Tx /\ None \notin JoinSplits /\ None \notin Party
    /\ None \notin Key /\ None \notin Operator

VARIABLES
  product,      \* products.status of an activated product
  policy,       \* the product's proof context and circuit: in force or retired
  eligible,     \* parties whose credential is ACTIVE, current and in the rules
  ownerKey,     \* confidential_note_owner_keys
  tx,           \* transaction_intents.current_state
  instr,        \* zk_execution_instructions
  authz,        \* zk_transaction_authorizations
  call,         \* accept calls in flight and the row each has read
  spentBy,      \* zk_spent_nullifiers: the transaction that spent a note
  outputs,      \* zk_output_commitments of a transaction's receipt
  settlement,   \* zk_settlements.finality_status
  proposal,     \* the latest zk_finalization_proposals row of a transaction
  tree,         \* zk_merkle_roots: the CURRENT root
  historical,   \* zk_merkle_roots: the HISTORICAL roots
  expiredRoots, \* those of them whose hour has passed
  outbox        \* topics enqueued for a transaction

partyVars == <<product, policy, eligible, ownerKey>>
gateVars == <<tx, instr, authz, spentBy, outputs, settlement>>
finalityVars == <<proposal, tree, historical, expiredRoots>>
vars == <<partyVars, gateVars, finalityVars, call, outbox>>

Topic == {"prepared", "root_requested", "finality_proposed", "finality_cancelled", "settled"}

NoInstruction == [sender |-> None, recipient |-> None, key |-> None, expired |-> FALSE]
NoAuthorization == [status |-> "NONE", js |-> None, root |-> << >>]
NoProposal == [status |-> "NONE", base |-> << >>, output |-> << >>, by |-> None, approver |-> None]
Idle == [phase |-> "IDLE", tx |-> None, js |-> None, root |-> << >>]

Inputs(js) == {js.in0, js.in1}
Outputs(js) == <<js.out0, js.out1>>
Leaves(s) == {s[i] : i \in DOMAIN s}

Init ==
  /\ product = "ACTIVE"
  /\ policy = "ACTIVE"
  /\ eligible = Party
  /\ ownerKey = [k \in Key |-> [status |-> "NONE", owner |-> None]]
  /\ tx = [t \in Tx |-> "NONE"]
  /\ instr = [t \in Tx |-> NoInstruction]
  /\ authz = [t \in Tx |-> NoAuthorization]
  /\ call = [c \in Call |-> Idle]
  /\ spentBy = [n \in Note |-> None]
  /\ outputs = [t \in Tx |-> << >>]
  /\ settlement = [t \in Tx |-> "NONE"]
  /\ proposal = [t \in Tx |-> NoProposal]
  /\ tree = Genesis
  /\ historical = {}
  /\ expiredRoots = {}
  /\ outbox = [t \in Tx |-> {}]

-----------------------------------------------------------------------------
(* The product, its parties and the clock.                                 *)

\* DurableWorkflowService.setProductStatus.
SetProductStatus(status) ==
  /\ product # status
  /\ product' = status
  /\ UNCHANGED <<policy, eligible, ownerKey, gateVars, finalityVars, call, outbox>>

\* The database operator retires the context or the circuit; no code path does.
RetirePolicy ==
  /\ policy = "ACTIVE"
  /\ policy' = "RETIRED"
  /\ UNCHANGED <<product, eligible, ownerKey, gateVars, finalityVars, call, outbox>>

\* DurableWorkflowService.restrictCredential; reaching valid_until is the same step.
RestrictCredential(p) ==
  /\ p \in eligible
  /\ eligible' = eligible \ {p}
  /\ UNCHANGED <<product, policy, ownerKey, gateVars, finalityVars, call, outbox>>

RegisterOwnerKey(k, p) ==
  /\ p \in eligible
  /\ ownerKey[k].status = "NONE"
  /\ ownerKey' = [ownerKey EXCEPT ![k] = [status |-> "ACTIVE", owner |-> p]]
  /\ UNCHANGED <<product, policy, eligible, gateVars, finalityVars, call, outbox>>

RevokeOwnerKey(k) ==
  /\ ownerKey[k].status = "ACTIVE"
  /\ ownerKey' = [ownerKey EXCEPT ![k].status = "REVOKED"]
  /\ UNCHANGED <<product, policy, eligible, gateVars, finalityVars, call, outbox>>

\* expires_at of an instruction, or of a HISTORICAL root, passes.
ExpireInstruction(t) ==
  /\ tx[t] # "NONE"
  /\ ~instr[t].expired
  /\ instr' = [instr EXCEPT ![t].expired = TRUE]
  /\ UNCHANGED <<partyVars, tx, authz, spentBy, outputs, settlement, finalityVars, call, outbox>>

ExpireRoot(r) ==
  /\ r \in historical \ expiredRoots
  /\ expiredRoots' = expiredRoots \cup {r}
  /\ UNCHANGED <<partyVars, gateVars, proposal, tree, historical, call, outbox>>

-----------------------------------------------------------------------------
(* Preparing and authorizing a transfer.                                   *)

\* assertEligibleCredential of both parties and assertRegisteredRecipientKey.
PartiesEligible(s, r, k) ==
  /\ s \in eligible
  /\ r \in eligible
  /\ ownerKey[k] = [status |-> "ACTIVE", owner |-> r]

InstructionInForce(t) ==
  /\ ~instr[t].expired
  /\ PartiesEligible(instr[t].sender, instr[t].recipient, instr[t].key)

\* A root a proof may still refer to. Nothing in the code sets REVOKED.
RootLive(r) == r = tree \/ r \in historical \ expiredRoots

\* A repeated idempotency key answers with the stored intent and changes nothing.
Prepare(t, s, r, k) ==
  /\ tx[t] = "NONE"
  /\ product = "ACTIVE"
  /\ policy = "ACTIVE"
  /\ PartiesEligible(s, r, k)
  /\ tx' = [tx EXCEPT ![t] = "PROOF_PENDING"]
  /\ instr' = [instr EXCEPT ![t] = [sender |-> s, recipient |-> r, key |-> k, expired |-> FALSE]]
  /\ outbox' = [outbox EXCEPT ![t] = @ \cup {"prepared"}]
  /\ UNCHANGED <<partyVars, authz, spentBy, outputs, settlement, finalityVars, call>>

Authorize(t, js, r) ==
  /\ js.in0 # js.in1
  /\ tx[t] = "PROOF_PENDING"
  /\ product = "ACTIVE"
  /\ policy = "ACTIVE"
  /\ InstructionInForce(t)
  /\ RootLive(r)
  /\ authz[t].status = "NONE"
  /\ authz' = [authz EXCEPT ![t] = [status |-> "PENDING", js |-> js, root |-> r]]
  /\ UNCHANGED <<partyVars, tx, instr, spentBy, outputs, settlement, finalityVars, call, outbox>>

-----------------------------------------------------------------------------
(* ZkSettlementGate.accept, by concurrent calls.                           *)

Verifying(g) == {c \in Call : GateOf[c] = g /\ call[c].phase = "VERIFYING"}

\* The unlocked read, and the slot taken before the verifier is awaited.
AcceptRead(c, t) ==
  /\ call[c] = Idle
  /\ authz[t].status = "PENDING"
  /\ tx[t] = "PROOF_PENDING"
  /\ product = "ACTIVE"
  /\ Cardinality(Verifying(GateOf[c])) < MaxConcurrent
  /\ call' = [call EXCEPT ![c] = [phase |-> "VERIFYING", tx |-> t,
                                  js |-> authz[t].js, root |-> authz[t].root]]
  /\ UNCHANGED <<partyVars, gateVars, finalityVars, outbox>>

\* What the circuit proves of its inputs: both are leaves of the root.
ProofHolds(js, r) == Inputs(js) \subseteq Leaves(r)

\* The verifier accepts; the slot is given back.
VerifyProof(c) ==
  /\ call[c].phase = "VERIFYING"
  /\ ProofHolds(call[c].js, call[c].root)
  /\ call' = [call EXCEPT ![c].phase = "VERIFIED"]
  /\ UNCHANGED <<partyVars, gateVars, finalityVars, outbox>>

\* The proof is refused, a check of the transaction throws, or the process dies.
AcceptAbandon(c) ==
  /\ call[c] # Idle
  /\ call' = [call EXCEPT ![c] = Idle]
  /\ UNCHANGED <<partyVars, gateVars, finalityVars, outbox>>

\* Mutant: nullifiers are keyed by transaction, not by context.
NullifiersUnspent_PerTransaction(js) == js.in0 # js.in1

\* Primary key (context_id, nullifier).
NullifiersUnspent(js) ==
  /\ js.in0 # js.in1
  /\ \A n \in Inputs(js) : spentBy[n] = None

\* Mutant: commitments are unique within a receipt only.
CommitmentsFresh_PerReceipt(js) == js.out0 # js.out1

\* Unique (context_id, commitment_x, commitment_y).
CommitmentsFresh(js) ==
  /\ js.out0 # js.out1
  /\ \A u \in Tx : Leaves(outputs[u]) \cap Leaves(Outputs(js)) = {}

\* Mutant: the parties are only checked before the proof is verified.
AcceptRecheck_Once(t, r) ==
  /\ tx[t] = "PROOF_PENDING"
  /\ product = "ACTIVE"
  /\ authz[t].status = "PENDING"
  /\ RootLive(r)

\* What the transaction checks again before it consumes the notes.
AcceptRecheck(t, r) ==
  /\ tx[t] = "PROOF_PENDING"
  /\ product = "ACTIVE"
  /\ policy = "ACTIVE"
  /\ InstructionInForce(t)
  /\ authz[t].status = "PENDING"
  /\ RootLive(r)

AcceptCommit(c) ==
  LET t == call[c].tx
      js == call[c].js
  IN
  /\ call[c].phase = "VERIFIED"
  /\ AcceptRecheck(t, call[c].root)
  /\ NullifiersUnspent(js)
  /\ CommitmentsFresh(js)
  /\ spentBy' = [n \in Note |-> IF n \in Inputs(js) THEN t ELSE spentBy[n]]
  /\ outputs' = [outputs EXCEPT ![t] = Outputs(js)]
  /\ authz' = [authz EXCEPT ![t].status = "VERIFIED"]
  /\ tx' = [tx EXCEPT ![t] = "ROOT_PENDING"]
  /\ settlement' = [settlement EXCEPT ![t] = "ROOT_PENDING"]
  /\ outbox' = [outbox EXCEPT ![t] = @ \cup {"root_requested"}]
  /\ call' = [call EXCEPT ![c] = Idle]
  /\ UNCHANGED <<partyVars, instr, finalityVars>>

-----------------------------------------------------------------------------
(* Publishing the outputs: a maker proposes, a checker finalizes.          *)

\* Mutant: the two outputs are appended in the wrong order.
Extension_Swapped(t) == tree \o <<outputs[t][2], outputs[t][1]>>

\* verifiedTreeExtension: the CURRENT tree with the receipt's two outputs.
Extension(t) == tree \o outputs[t]

\* The frontier has no form for a tree of MaxTreeSize leaves.
Extendable(t) ==
  /\ Len(outputs[t]) = 2
  /\ Len(Extension(t)) < MaxTreeSize

AwaitingFinality(t) == tx[t] = "ROOT_PENDING" /\ settlement[t] = "ROOT_PENDING"

\* The submitted root must equal the extension, so the proposal pins both.
ProposeFinalization(t, p) ==
  /\ AwaitingFinality(t)
  /\ product = "ACTIVE"
  /\ Extendable(t)
  /\ proposal[t].status \notin {"PENDING", "APPROVED"}
  /\ proposal' = [proposal EXCEPT ![t] = [status |-> "PENDING", base |-> tree,
                    output |-> Extension(t), by |-> p, approver |-> None]]
  /\ outbox' = [outbox EXCEPT ![t] = @ \cup {"finality_proposed"}]
  /\ UNCHANGED <<partyVars, gateVars, tree, historical, expiredRoots, call>>

\* cancelProposal.
Withdraw(t) ==
  /\ proposal' = [proposal EXCEPT ![t].status = "CANCELLED"]
  /\ outbox' = [outbox EXCEPT ![t] = @ \cup {"finality_cancelled"}]

CancelFinalization(t) ==
  /\ proposal[t].status = "PENDING"
  /\ Withdraw(t)
  /\ UNCHANGED <<partyVars, gateVars, tree, historical, expiredRoots, call>>

\* Mutant: the maker may finalize.
FinalizeAllowed_OneEye(t, q) ==
  /\ AwaitingFinality(t)
  /\ proposal[t].status = "PENDING"
  /\ product = "ACTIVE"
  /\ Extendable(t)

FinalizeAllowed(t, q) ==
  /\ AwaitingFinality(t)
  /\ proposal[t].status = "PENDING"
  /\ product = "ACTIVE"
  /\ proposal[t].by # q
  /\ Extendable(t)

BaseIsCurrent(t) == proposal[t].base = tree

\* Mutant: a stale proposal is refused and stays pending.
FinalizeStale_Refuses(t, q) ==
  /\ FinalizeAllowed(t, q)
  /\ ~BaseIsCurrent(t)
  /\ UNCHANGED vars

\* The tree advanced since the proposal: cancelled by system:stale-base-root.
FinalizeStale(t, q) ==
  /\ FinalizeAllowed(t, q)
  /\ ~BaseIsCurrent(t)
  /\ Withdraw(t)
  /\ UNCHANGED <<partyVars, gateVars, tree, historical, expiredRoots, call>>

\* Mutant: the pinned output root is published whatever the tree has become.
FinalizePublish_Pinned(t, q) ==
  /\ FinalizeAllowed(t, q)
  /\ historical' = historical \cup {tree}
  /\ tree' = proposal[t].output
  /\ proposal' = [proposal EXCEPT ![t].status = "APPROVED", ![t].approver = q]
  /\ settlement' = [settlement EXCEPT ![t] = "FINAL"]
  /\ tx' = [tx EXCEPT ![t] = "SETTLED"]
  /\ outbox' = [outbox EXCEPT ![t] = @ \cup {"settled"}]
  /\ UNCHANGED <<partyVars, instr, authz, spentBy, outputs, expiredRoots, call>>

FinalizePublish(t, q) ==
  /\ FinalizeAllowed(t, q)
  /\ BaseIsCurrent(t)
  /\ proposal[t].output = Extension(t)
  /\ historical' = historical \cup {tree}
  /\ tree' = proposal[t].output
  /\ proposal' = [proposal EXCEPT ![t].status = "APPROVED", ![t].approver = q]
  /\ settlement' = [settlement EXCEPT ![t] = "FINAL"]
  /\ tx' = [tx EXCEPT ![t] = "SETTLED"]
  /\ outbox' = [outbox EXCEPT ![t] = @ \cup {"settled"}]
  /\ UNCHANGED <<partyVars, instr, authz, spentBy, outputs, expiredRoots, call>>

-----------------------------------------------------------------------------
Administration ==
  \/ \E s \in {"ACTIVE", "PAUSED"} : SetProductStatus(s)
  \/ RetirePolicy
  \/ \E p \in Party : RestrictCredential(p)
  \/ \E k \in Key, p \in Party : RegisterOwnerKey(k, p)
  \/ \E k \in Key : RevokeOwnerKey(k)

Clock ==
  \/ \E t \in Tx : ExpireInstruction(t)
  \/ \E r \in historical : ExpireRoot(r)

\* Roots a client has seen and may name: published ones and proposed ones.
KnownRoots == historical \cup {tree} \cup {proposal[t].output : t \in Tx}

Broker ==
  \/ \E t \in Tx, s, r \in Party, k \in Key : Prepare(t, s, r, k)
  \/ \E t \in Tx, js \in JoinSplit, r \in KnownRoots : Authorize(t, js, r)

Accept ==
  \/ \E c \in Call, t \in Tx : AcceptRead(c, t)
  \/ \E c \in Call : VerifyProof(c) \/ AcceptAbandon(c) \/ AcceptCommit(c)

Operations ==
  \/ \E t \in Tx, p \in Operator : ProposeFinalization(t, p)
  \/ \E t \in Tx : CancelFinalization(t)
  \/ \E t \in Tx, q \in Operator : FinalizeStale(t, q) \/ FinalizePublish(t, q)

Next == Administration \/ Clock \/ Broker \/ Accept \/ Operations

Spec == Init /\ [][Next]_vars

-----------------------------------------------------------------------------
(* Properties.                                                             *)

Authorization ==
  [status : {"NONE", "PENDING", "VERIFIED"}, js : JoinSplit \cup {None}, root : Seq(Note)]
Instruction ==
  [sender : Party \cup {None}, recipient : Party \cup {None}, key : Key \cup {None},
   expired : BOOLEAN]
AcceptCall ==
  [phase : {"IDLE", "VERIFYING", "VERIFIED"}, tx : Tx \cup {None},
   js : JoinSplit \cup {None}, root : Seq(Note)]
Proposal ==
  [status : {"NONE", "PENDING", "APPROVED", "CANCELLED"}, base : Seq(Note), output : Seq(Note),
   by : Operator \cup {None}, approver : Operator \cup {None}]
OwnerKey == [status : {"NONE", "ACTIVE", "REVOKED"}, owner : Party \cup {None}]

\* The rows keep the shape their tables and CHECK constraints give them.
TypeOK ==
  /\ product \in {"ACTIVE", "PAUSED"}
  /\ policy \in {"ACTIVE", "RETIRED"}
  /\ eligible \subseteq Party
  /\ ownerKey \in [Key -> OwnerKey]
  /\ tx \in [Tx -> {"NONE", "PROOF_PENDING", "ROOT_PENDING", "SETTLED"}]
  /\ instr \in [Tx -> Instruction]
  /\ authz \in [Tx -> Authorization]
  /\ call \in [Call -> AcceptCall]
  /\ spentBy \in [Note -> Tx \cup {None}]
  /\ outputs \in [Tx -> Seq(Note)]
  /\ settlement \in [Tx -> {"NONE", "ROOT_PENDING", "FINAL"}]
  /\ proposal \in [Tx -> Proposal]
  /\ tree \in Seq(Note)
  /\ historical \subseteq Seq(Note)
  /\ expiredRoots \subseteq historical
  /\ outbox \in [Tx -> SUBSET Topic]

Accepted(t) == tx[t] \in {"ROOT_PENDING", "SETTLED"}

\* No two accepted transfers consume the same note, whatever calls of `accept`,
\* roots and retries ran concurrently (zk-settlement-gate.js accept).
NoDoubleSpend ==
  \A t, u \in Tx : t # u /\ Accepted(t) /\ Accepted(u)
                    => Inputs(authz[t].js) \cap Inputs(authz[u].js) = {}

\* M2 of migration 025: a consumed note always has a transfer that is published or
\* still owed publication, and both of whose outputs are recorded: no value is burned.
NoValueBurned ==
  \A n \in Note : spentBy[n] # None =>
    LET t == spentBy[n] IN
      /\ Accepted(t)
      /\ n \in Inputs(authz[t].js)
      /\ outputs[t] = Outputs(authz[t].js)

\* The CURRENT tree is the genesis leaves and then, for every settled transfer and
\* for no other, its two outputs side by side, once (verifiedTreeExtension, finalize).
TreeIsSettledOutputs ==
  LET settled == {t \in Tx : tx[t] = "SETTLED"} IN
    /\ Len(tree) = Len(Genesis) + 2 * Cardinality(settled)
    /\ SubSeq(tree, 1, Len(Genesis)) = Genesis
    /\ \A t \in settled : \E i \in 1..Cardinality(settled) :
         /\ tree[Len(Genesis) + 2 * i - 1] = outputs[t][1]
         /\ tree[Len(Genesis) + 2 * i] = outputs[t][2]

\* A note is spent only after it is published: the outputs of a transfer that is
\* still ROOT_PENDING are not spendable (root lookup of authorize and accept).
SpentNotesArePublished ==
  \A n \in Note : spentBy[n] # None => n \in Leaves(tree)

IsPrefixOf(r, s) == Len(r) <= Len(s) /\ \A i \in 1..Len(r) : r[i] = s[i]

\* Every root a proof may name, and every base a proposal is pinned to, is an
\* earlier state of the one CURRENT tree: publication never forks the tree.
RootsFormOneChain ==
  /\ \A r \in historical : IsPrefixOf(r, tree) /\ r # tree
  /\ \A t \in Tx : proposal[t].status = "PENDING" =>
       IsPrefixOf(proposal[t].base, tree)

\* Four eyes (migrations 015 and 016): a SETTLED transfer has FINAL settlement and
\* an APPROVED proposal of another operator whose very root was published.
FinalityIsAttested ==
  \A t \in Tx : tx[t] = "SETTLED" =>
    /\ settlement[t] = "FINAL"
    /\ proposal[t].status = "APPROVED"
    /\ proposal[t].by # proposal[t].approver
    /\ proposal[t].output \in historical \cup {tree}

\* However long the verifier took, notes are consumed only in a state in which the
\* product is open, both parties are eligible, the recipient key is registered and
\* the proof's root is live (accept checks again after its await).
ConsumedOnlyWhileEligible ==
  [][\A t \in Tx : tx[t] = "PROOF_PENDING" /\ tx'[t] = "ROOT_PENDING" =>
       /\ product = "ACTIVE"
       /\ InstructionInForce(t)
       /\ RootLive(authz[t].root)]_vars

Ledger == INSTANCE NoteLedger WITH
  ledger <- tree,
  accepted <- [t \in Tx |-> IF Accepted(t) THEN authz[t].js ELSE None],
  published <- {t \in Tx : tx[t] = "SETTLED"}

\* The rail implements the abstract note ledger: acceptance consumes published,
\* unspent notes in one step, an accepted transfer is never dropped, and every
\* change of the tree is the publication of one accepted transfer.
ImplementsNoteLedger == Ledger!LedgerSpec

\* Operators keep at it: the product is resumed, a proposal is made again whenever
\* none is live, and a checker who may finalize does. Cancellation stays free.
OperatorDiligence ==
  /\ WF_vars(SetProductStatus("ACTIVE"))
  /\ \A t \in Tx : /\ SF_vars(\E p \in Operator : ProposeFinalization(t, p))
                    /\ SF_vars(\E q \in Operator : FinalizeStale(t, q) \/ FinalizePublish(t, q))

LiveSpec == Spec /\ OperatorDiligence

\* M2 of migration 025: consumed value is always published in the end, through
\* pauses, withdrawn proposals and proposals made stale by other transfers.
AcceptedIsPublished == \A t \in Tx : tx[t] = "ROOT_PENDING" ~> tx[t] = "SETTLED"
=============================================================================
