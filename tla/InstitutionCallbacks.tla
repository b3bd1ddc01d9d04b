------------------------ MODULE InstitutionCallbacks ------------------------
(***************************************************************************)
(* Signed callbacks of institutions (InstitutionCallbackService) and the   *)
(* incidents they open (ExternalIncidentService).                          *)
(*                                                                         *)
(* The callbacks of one institution on one channel of a product form a     *)
(* stream. They arrive in any order, several times or never; what is early *)
(* is buffered, and the callback that fills the gap applies the buffered   *)
(* ones behind it in the same transaction. Between receipt and application *)
(* a key may be revoked and a role may move to another institution: the    *)
(* drain then stops at that callback and reports it.                       *)
(*                                                                         *)
(* Every handler is one serializable transaction, hence one action. A      *)
(* rejected or repeated callback leaves everything alone and is no step:   *)
(* an envelope that is malformed, expired or badly signed never appears.   *)
(***************************************************************************)
EXTENDS Naturals

CONSTANTS
  Id,           \* callback ids
  Institution,
  Channel,      \* channels of the product, each with its role
  Key,          \* rows of institution_signing_keys
  Envelope,     \* what institutions sign; one id may be used for two of them
  MaxSequence,  \* highest sequence an envelope carries
  Actor,        \* makers and checkers
  MaxProposals, \* bound on maker proposals, over all incidents
  Unassigned    \* no institution holds the role

ASSUME SequenceAssumption == MaxSequence \in Nat
ASSUME ProposalsAssumption == MaxProposals \in Nat
ASSUME EnvelopeAssumption ==
  Envelope \subseteq [id : Id, institution : Institution, channel : Channel,
                      sequence : 1 .. MaxSequence, key : Key]

VARIABLES
  draft,      \* the product is still DRAFT
  holder,     \* institution assigned to the role of a channel
  keyState,   \* life of a signing key
  received,   \* callback_receipts
  applied,    \* receipts whose application is APPLIED; the others are BUFFERED
  adverse,    \* applied: MISMATCH, or an outcome other than CONFIRMED
  next,       \* next_sequence of a stream
  incident,   \* external_reconciliation_incidents, by their callback
  round,      \* approval_round of an incident
  approvals,  \* external_incident_approvals
  proposals   \* number of proposals, for the bound

authority == <<draft, holder, keyState>>
stream == <<received, applied, adverse, next>>
review == <<round, approvals, proposals>>
callbackVars == <<authority, stream, incident, review>>

Stream == Institution \X Channel
StreamOf(e) == <<e.institution, e.channel>>
Buffered(s) == {b \in received \ applied : StreamOf(b) = s}

Approval == [incident : Envelope, round : Nat, role : {"MAKER", "CHECKER"}, actor : Actor,
             decision : {"ACKNOWLEDGE", "REMEDIATE", "APPROVE", "REJECT"}]

CallbackInit ==
  /\ draft = TRUE
  /\ holder = [c \in Channel |-> Unassigned]
  /\ keyState = [k \in Key |-> "UNREGISTERED"]
  /\ received = {}
  /\ applied = {}
  /\ adverse = {}
  /\ next = [s \in Stream |-> 1]
  /\ incident = [e \in Envelope |-> "NONE"]
  /\ round = [e \in Envelope |-> 0]
  /\ approvals = {}
  /\ proposals = 0

-----------------------------------------------------------------------------
(* The catalogue: what callbacks are authorized by.                        *)

\* assignRole ends the role of the previous holder.
AssignRole(c, i) ==
  /\ draft
  /\ holder' = [holder EXCEPT ![c] = i]
  /\ UNCHANGED <<draft, keyState, stream, incident, review>>

\* Once the product is activated its roles are frozen.
Activate ==
  /\ draft
  /\ \A c \in Channel : holder[c] # Unassigned
  /\ draft' = FALSE
  /\ UNCHANGED <<holder, keyState, stream, incident, review>>

RegisterKey(k) ==
  /\ keyState[k] = "UNREGISTERED"
  /\ keyState' = [keyState EXCEPT ![k] = "ACTIVE"]
  /\ UNCHANGED <<draft, holder, stream, incident, review>>

\* Revocation, or the end of its validity window: both are final.
EndKey(k) ==
  /\ keyState[k] = "ACTIVE"
  /\ keyState' = [keyState EXCEPT ![k] = "ENDED"]
  /\ UNCHANGED <<draft, holder, stream, incident, review>>

Authorized(e) == holder[e.channel] = e.institution /\ keyState[e.key] = "ACTIVE"

-----------------------------------------------------------------------------
(* The receipt of a callback.                                              *)

\* Mutant: the unique constraint on the stream sequence is missing.
Unused_IdOnly(e) == \A r \in received : r.id # e.id

\* Neither the id nor the place in the stream has been used.
Unused(e) ==
  \A r \in received :
    /\ r.id # e.id
    /\ StreamOf(r) = StreamOf(e) => r.sequence # e.sequence

\* Mutant: the loop takes the next buffered callback, whatever its sequence.
Drains_AcrossGaps(e, stop) ==
  LET waiting == Buffered(StreamOf(e)) IN
  /\ \A b \in waiting : b.sequence < stop => Authorized(b)
  /\ \A b \in waiting : b.sequence = stop => ~Authorized(b)

\* The buffered callbacks that follow e without a gap and are still
\* authorized, up to (not including) the sequence `stop`.
Drains(e, stop) ==
  LET waiting == Buffered(StreamOf(e)) IN
  /\ \A n \in e.sequence + 1 .. stop - 1 :
       \E b \in waiting : b.sequence = n /\ Authorized(b)
  /\ \A b \in waiting : b.sequence = stop => ~Authorized(b)

\* Mutant: a drain that stops says so to its caller only.
OpenIncidents_Silent(wrong, blocking) ==
  /\ \A r \in wrong : incident[r] = "NONE"
  /\ incident' = [r \in Envelope |-> IF r \in wrong THEN "OPEN" ELSE incident[r]]

\* Incidents of one transaction: a plain insert for each adverse callback, and
\* an insert that tolerates an existing row for the one that blocks the drain.
OpenIncidents(wrong, blocking) ==
  /\ \A r \in wrong : incident[r] = "NONE"
  /\ incident' = [r \in Envelope |->
       IF r \in wrong \/ (r \in blocking /\ incident[r] = "NONE") THEN "OPEN" ELSE incident[r]]

Buffer(e) ==
  /\ e.sequence > next[StreamOf(e)]
  /\ UNCHANGED <<applied, adverse, next, incident>>

Apply(e) ==
  /\ e.sequence = next[StreamOf(e)]
  /\ \E stop \in e.sequence + 1 .. MaxSequence + 1 :
       LET waiting == Buffered(StreamOf(e))
           batch == {e} \cup {b \in waiting : b.sequence < stop}
       IN /\ Drains(e, stop)
          /\ applied' = applied \cup batch
          /\ next' = [next EXCEPT ![StreamOf(e)] = stop]
          /\ \E wrong \in SUBSET batch :
               /\ adverse' = adverse \cup wrong
               /\ OpenIncidents(wrong, {b \in waiting : b.sequence = stop})

Receive(e) ==
  /\ Authorized(e)
  /\ Unused(e)
  /\ received' = received \cup {e}
  /\ Buffer(e) \/ Apply(e)
  /\ UNCHANGED <<authority, review>>

-----------------------------------------------------------------------------
(* Maker/checker resolution of an incident.                                *)

Propose(e, maker, decision) ==
  /\ incident[e] = "OPEN"
  /\ proposals < MaxProposals
  /\ incident' = [incident EXCEPT ![e] = "PENDING_APPROVAL"]
  /\ round' = [round EXCEPT ![e] = round[e] + 1]
  /\ approvals' = approvals \cup {[incident |-> e, round |-> round[e] + 1, role |-> "MAKER",
                                   actor |-> maker, decision |-> decision]}
  /\ proposals' = proposals + 1
  /\ UNCHANGED <<authority, stream>>

\* Mutant: the maker is looked up without the round.
Proposal_AnyRound(e) == {a \in approvals : a.incident = e /\ a.role = "MAKER"}

\* The proposal that waits for its checker.
Proposal(e) == {a \in approvals : a.incident = e /\ a.round = round[e] /\ a.role = "MAKER"}

Resolution(proposal) ==
  IF proposal.decision = "REMEDIATE" THEN "RESOLVED_REMEDIATED" ELSE "RESOLVED_ACKNOWLEDGED"

Decide(e, checker, decision) ==
  /\ incident[e] = "PENDING_APPROVAL"
  /\ \E m \in Proposal(e) :
       /\ m.actor # checker
       /\ incident' = [incident EXCEPT ![e] =
            IF decision = "REJECT" THEN "OPEN" ELSE Resolution(m)]
  /\ approvals' = approvals \cup {[incident |-> e, round |-> round[e], role |-> "CHECKER",
                                   actor |-> checker, decision |-> decision]}
  /\ UNCHANGED <<authority, stream, round, proposals>>

-----------------------------------------------------------------------------
CallbackNext ==
  \/ \E c \in Channel, i \in Institution : AssignRole(c, i)
  \/ Activate
  \/ \E k \in Key : RegisterKey(k) \/ EndKey(k)
  \/ \E e \in Envelope : Receive(e)
  \/ \E e \in Envelope, a \in Actor :
       \/ \E d \in {"ACKNOWLEDGE", "REMEDIATE"} : Propose(e, a, d)
       \/ \E d \in {"APPROVE", "REJECT"} : Decide(e, a, d)

CallbackSpec == CallbackInit /\ [][CallbackNext]_callbackVars

-----------------------------------------------------------------------------
(* Type invariant: what is applied was received, and every row belongs to  *)
(* an incident that was opened.                                            *)
CallbackTypeOK ==
  /\ draft \in BOOLEAN
  /\ holder \in [Channel -> Institution \cup {Unassigned}]
  /\ keyState \in [Key -> {"UNREGISTERED", "ACTIVE", "ENDED"}]
  /\ received \subseteq Envelope
  /\ applied \subseteq received
  /\ adverse \subseteq applied
  /\ next \in [Stream -> 1 .. MaxSequence + 1]
  /\ incident \in [Envelope -> {"NONE", "OPEN", "PENDING_APPROVAL",
                                "RESOLVED_ACKNOWLEDGED", "RESOLVED_REMEDIATED"}]
  /\ round \in [Envelope -> Nat]
  /\ approvals \subseteq Approval
  /\ proposals \in Nat

\* Callbacks apply strictly in stream order, each once: what has been applied
\* of a stream is exactly the sequences below its position, one callback for
\* each, and all that waits lies at the position or behind it. Buffering, the
\* drain and a drain that stops half way must agree on this.
StreamIsPrefix ==
  \A s \in Stream :
    /\ \A n \in 1 .. next[s] - 1 : \E r \in applied : StreamOf(r) = s /\ r.sequence = n
    /\ \A r \in applied : StreamOf(r) = s => r.sequence < next[s]
    /\ \A b \in Buffered(s) : b.sequence >= next[s]
    /\ \A r1, r2 \in applied :
         (StreamOf(r1) = s /\ StreamOf(r2) = s /\ r1.sequence = r2.sequence) => r1 = r2

\* Mismatch, failure and a stream that stands still are never silent, and no
\* incident is opened for anything else: a callback has an incident exactly
\* when it was applied with an adverse result, or is buffered at the very
\* position of its stream.
Blocking(e) == e \in received \ applied /\ e.sequence = next[StreamOf(e)]
FailureIsReported ==
  \A e \in Envelope : incident[e] # "NONE" <=> (e \in adverse \/ Blocking(e))

\* A key revoked or a role ended after the receipt must not let a callback that
\* was sent ahead apply: whatever a step applies is authorized in that step.
AppliedUnderAuthority ==
  [][\A e \in Envelope : (e \in applied' /\ e \notin applied) => Authorized(e)]_callbackVars

\* A stream that a withdrawn authority has stopped stays where it is: no other
\* callback takes the blocked place, whatever keys are registered, roles given
\* back or incidents resolved afterwards.
BlockedStreamStops ==
  [][\A e \in Envelope : Blocking(e) =>
       /\ next'[StreamOf(e)] = next[StreamOf(e)]
       /\ e \notin applied']_callbackVars

\* An incident is resolved the way the maker of its last round proposed and a
\* different checker approved; every earlier round was rejected.
ResolutionIsAttested ==
  \A e \in Envelope : incident[e] \in {"RESOLVED_ACKNOWLEDGED", "RESOLVED_REMEDIATED"} =>
    \E m, c \in approvals :
      /\ m.incident = e /\ m.role = "MAKER" /\ m.round = round[e]
      /\ c.incident = e /\ c.role = "CHECKER" /\ c.round = round[e]
      /\ m.actor # c.actor /\ c.decision = "APPROVE"
      /\ incident[e] = Resolution(m)
      /\ \A a \in approvals :
           (a.incident = e /\ a.role = "CHECKER" /\ a.round # round[e]) => a.decision = "REJECT"
=============================================================================
