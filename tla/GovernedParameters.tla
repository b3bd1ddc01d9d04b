------------------------ MODULE GovernedParameters ------------------------
(***************************************************************************)
(* The routes of the ZK parameters: the sessions of the people who govern, *)
(* composed with what they govern. A request that is authorized acts when  *)
(* its body has arrived, as the member of its session; its answer ends it. *)
(***************************************************************************)
EXTENDS LoginSessions, ZkGovernance

ASSUME PeopleAreMembers == Person = Member
ASSUME GovernancePermissions == Permission = {"propose", "approve"}

vars == <<access, parameters>>

Init == SessionsInit /\ GovernanceInit

Holds(b, permission) == request[b].stage = "AUTHORIZED" /\ request[b].permission = permission

ActorOf(b) == session[b].member

PostProposal(b) ==
  /\ Holds(b, "propose")
  /\ \/ Propose(ActorOf(b), CircuitPayload)
     \/ \E p \in Product, x \in Context : Propose(ActorOf(b), ContextPayload(p, x))
  /\ Answer(b)

PostDecision(b) ==
  /\ Holds(b, "approve")
  /\ \E i \in DOMAIN proposals :
       \/ ApproveCircuit(i, ActorOf(b))
       \/ ApproveContext(i, ActorOf(b))
       \/ RejectProposal(i, ActorOf(b))
  /\ Answer(b)

Operate ==
  /\ \/ \E artifact \in Artifact : Redeploy(artifact)
     \/ \E c \in contexts : RetireContext(c)
  /\ UNCHANGED access

Next ==
  \/ SessionsNext /\ UNCHANGED parameters
  \/ \E b \in Client : PostProposal(b) \/ PostDecision(b)
  \/ Operate

Spec == Init /\ [][Next]_vars

-----------------------------------------------------------------------------
\* The client's request has just changed the proposals.
Acted(b) == request[b].stage = "AUTHORIZED" /\ request'[b] = Idle /\ proposals' # proposals

\* Authority is never older than the request: unless it was withdrawn while the request
\* ran, whoever proposes or decides has an open session, is a member in good standing
\* and has the permission when the change is made (authenticate reads memberships and
\* grants anew; what the session row says of them is not used).
AuthorityIsCurrent ==
  [][\A b \in Client : Acted(b) /\ b \notin overtaken =>
       /\ session[b].open
       /\ session[b].member \notin withheld
       /\ request[b].permission \notin withheld]_vars
=============================================================================
