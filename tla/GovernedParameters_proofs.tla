---------------------- MODULE GovernedParameters_proofs ----------------------
(***************************************************************************)
(* Safety of sessions and of the governed parameters, for any number of    *)
(* clients, members, tokens, artifacts, products and proposals.            *)
(***************************************************************************)
EXTENDS GovernedParameters, FiniteSetTheorems, TLAPS

Requests ==
  {Idle, [stage |-> "AUTHENTICATED"]}
    \cup [stage : {"VERIFIED"}, token : Token]
    \cup [stage : {"AUTHORIZED"}, permission : Permission]

\* The rows of the identity tables keep the shape of migrations 010 and 027.
SessionTypes ==
  /\ challenge \in [Challenge -> {"NONE", "ISSUED", "EXPIRED", "CONSUMED"}]
  /\ consumed \subseteq Token
  /\ session \in [Client -> [member : Member, open : BOOLEAN] \cup {None}]
  /\ request \in [Client -> Requests]

\* A login under way has no session yet, and a request has one.
RequestsAgree ==
  \A b \in Client :
    /\ request[b].stage = "VERIFIED" => session[b] = None
    /\ b \in Running => session[b] # None

\* Unless overtaken, a running request may still do what it was let in for.
AuthorityHolds ==
  \A b \in Running \ overtaken :
    /\ session[b].open
    /\ session[b].member \notin withheld
    /\ request[b].stage = "AUTHORIZED" => request[b].permission \notin withheld

LoginsAreFinite == IsFiniteSet(consumed) /\ IsFiniteSet(Opened)

SInv == SessionTypes /\ RequestsAgree /\ AuthorityHolds /\ LoginsAreFinite /\ LoginsAreSingleUse

-----------------------------------------------------------------------------
(* Sessions.                                                               *)

LEMMA InitSInv == Init => SInv
<1> SUFFICES ASSUME Init PROVE SInv
  OBVIOUS
<1> USE DEF Init, SessionsInit
<1>1. SessionTypes
  BY DEF SessionTypes, Requests
<1>2. Running = {} /\ RequestsAgree /\ AuthorityHolds
  BY DEF Running, RequestsAgree, AuthorityHolds, Idle
<1>3. Opened = {} /\ consumed = {}
  BY DEF Opened
<1>4. LoginsAreFinite
  BY <1>3, FS_EmptySet DEF LoginsAreFinite
<1>5. LoginsAreSingleUse
  BY <1>3 DEF LoginsAreSingleUse, Answered
<1> QED BY <1>1, <1>2, <1>4, <1>5 DEF SInv

\* A step that opens no session and consumes nothing leaves the logins as they are.
LEMMA LoginsStay ==
  ASSUME SInv, SessionTypes', UNCHANGED consumed,
         \A b \in Client : session'[b] = None <=> session[b] = None,
         \A b \in Client : session[b] # None => session'[b].member = session[b].member,
         \A c \in Challenge : challenge'[c] = "CONSUMED" <=> challenge[c] = "CONSUMED"
  PROVE  LoginsAreFinite' /\ LoginsAreSingleUse'
<1>1. Opened' = Opened /\ Answered' = Answered
  BY DEF Opened, Answered
<1>2. \A b \in Opened' : session'[b].member = session[b].member
  BY <1>1 DEF Opened
<1> QED BY <1>1, <1>2 DEF SInv, LoginsAreFinite, LoginsAreSingleUse

\* The transaction of a login adds one session, one token and one answered challenge.
LEMMA OpenSessionStep == ASSUME SInv, NEW b \in Client, OpenSession(b) PROVE SInv'
<1> USE DEF SInv
<1> DEFINE t == request[b].token
<1>1. request[b].stage = "VERIFIED" /\ t \in Token
  BY DEF OpenSession, SessionTypes, Requests, Idle
<1>2. /\ challenge[NonceOf[t]] = "ISSUED" /\ t \notin consumed
      /\ challenge' = [challenge EXCEPT ![NonceOf[t]] = "CONSUMED"]
      /\ consumed' = consumed \cup {t}
      /\ session' = [session EXCEPT ![b] = [member |-> SubjectOf[t], open |-> TRUE]]
      /\ request' = [request EXCEPT ![b] = Idle]
      /\ UNCHANGED <<withheld, overtaken>>
  BY DEF OpenSession, Redeemable
<1> HIDE DEF t
<1>3. SubjectOf[t] \in Member /\ NonceOf[t] \in Challenge
  BY <1>1, TokenAssumption
<1>4. SessionTypes'
  BY <1>1, <1>2, <1>3 DEF SessionTypes, Requests
<1>5. session[b] = None /\ session'[b] # None
  <2>1. [member |-> SubjectOf[t], open |-> TRUE] # None
    <3>1. [member |-> SubjectOf[t], open |-> TRUE] \in [member : Member, open : BOOLEAN]
      BY <1>3
    <3> QED BY <3>1, NoSession
  <2>2. session'[b] = [member |-> SubjectOf[t], open |-> TRUE]
    BY <1>2 DEF SessionTypes
  <2> QED BY <1>1, <2>1, <2>2 DEF RequestsAgree
<1>6. Opened' = Opened \cup {b} /\ b \notin Opened
  BY <1>2, <1>5 DEF Opened, SessionTypes
<1>7. Running' = Running /\ b \notin Running
  BY <1>1, <1>2 DEF Running, SessionTypes, Idle
<1>8. \A c \in Client : c # b => session'[c] = session[c] /\ request'[c] = request[c]
  BY <1>2 DEF SessionTypes
<1>9. RequestsAgree' /\ AuthorityHolds'
  <2>1. request'[b].stage # "VERIFIED"
    BY <1>2 DEF SessionTypes, Idle
  <2>2. RequestsAgree'
    BY <1>7, <1>8, <2>1 DEF RequestsAgree
  <2>3. \A c \in Running : c \in Client /\ c # b
    BY <1>7 DEF Running
  <2>4. AuthorityHolds'
    BY <1>2, <1>7, <1>8, <2>3 DEF AuthorityHolds
  <2> QED BY <2>2, <2>4
<1>10. LoginsAreFinite' /\ Cardinality(Opened') = Cardinality(consumed')
  <2>1. IsFiniteSet(consumed) /\ IsFiniteSet(Opened) /\ Cardinality(Opened) = Cardinality(consumed)
    BY DEF LoginsAreFinite, LoginsAreSingleUse
  <2>2. IsFiniteSet(consumed \cup {t}) /\ Cardinality(consumed \cup {t}) = Cardinality(consumed) + 1
    BY <1>2, <2>1, FS_AddElement
  <2>3. IsFiniteSet(Opened \cup {b}) /\ Cardinality(Opened \cup {b}) = Cardinality(Opened) + 1
    BY <1>6, <2>1, FS_AddElement
  <2>4. IsFiniteSet(consumed') /\ Cardinality(consumed') = Cardinality(consumed) + 1
    BY <1>2, <2>2
  <2>5. IsFiniteSet(Opened') /\ Cardinality(Opened') = Cardinality(Opened) + 1
    BY <1>6, <2>3
  <2> QED BY <2>1, <2>4, <2>5 DEF LoginsAreFinite
<1>11. Answered' = Answered \cup {NonceOf[t]} /\ NonceOf[t] \notin Answered
  BY <1>2, <1>3 DEF Answered, SessionTypes
<1>12. LoginsAreSingleUse'
  <2>1. Answered' = {NonceOf[u] : u \in consumed'}
    BY <1>2, <1>11 DEF LoginsAreSingleUse
  <2>2. \A u, v \in consumed' : NonceOf[u] = NonceOf[v] => u = v
    BY <1>2, <1>11 DEF LoginsAreSingleUse
  <2>3. ASSUME NEW c \in Opened' PROVE \E u \in consumed' : SubjectOf[u] = session'[c].member
    <3>1. CASE c = b
      BY <1>2, <1>4, <3>1 DEF SessionTypes
    <3>2. CASE c # b
      BY <1>2, <1>6, <1>8, <3>2 DEF LoginsAreSingleUse, Opened
    <3> QED BY <3>1, <3>2
  <2> QED BY <1>10, <2>1, <2>2, <2>3 DEF LoginsAreSingleUse
<1> QED BY <1>4, <1>9, <1>10, <1>12

\* A step of one client that writes its request alone.
LEMMA RequestStep ==
  ASSUME SInv, NEW b \in Client, NEW r \in Requests,
         request' = [request EXCEPT ![b] = r], UNCHANGED <<withheld, session, consumed>>,
         challenge' = challenge,
         \/ overtaken' = overtaken
         \/ r = Idle /\ overtaken' = overtaken \ {b},
         r.stage = "VERIFIED" => session[b] = None,
         r.stage \in {"AUTHENTICATED", "AUTHORIZED"} =>
           /\ session[b] # None
           /\ b \notin overtaken => session[b].open /\ session[b].member \notin withheld,
         r.stage = "AUTHORIZED" => r.permission \notin withheld
  PROVE  SInv'
<1> USE DEF SInv
<1>1. \A c \in Client : request'[c] = IF c = b THEN r ELSE request[c]
  BY DEF SessionTypes
<1>2. SessionTypes'
  BY DEF SessionTypes
<1>3. RequestsAgree'
  BY <1>1 DEF RequestsAgree, Running
<1>4. AuthorityHolds'
  BY <1>1 DEF AuthorityHolds, Running, Idle
<1>5. LoginsAreFinite' /\ LoginsAreSingleUse'
  BY <1>2, LoginsStay
<1> QED BY <1>2, <1>3, <1>4, <1>5

\* A request ends; what else the step changes is not the sessions' business.
LEMMA AnswerStep == ASSUME SInv, NEW b \in Client, Answer(b) PROVE SInv'
<1>1. Idle \in Requests /\ Idle.stage = "IDLE"
  BY DEF Requests, Idle
<1> QED BY <1>1, RequestStep DEF Answer, logins

\* Operators withhold and restore, and sessions are closed, at any time.
LEMMA WithdrawalStep ==
  ASSUME SInv,
         \/ \E b \in Client : CloseSession(b)
         \/ \E x \in Member \cup Permission \cup {Provider} : Withhold(x) \/ Restore(x)
  PROVE  SInv'
<1> USE DEF SInv
<1>1. ASSUME NEW b \in Client, CloseSession(b) PROVE SInv'
  <2>1. session[b] \in [member : Member, open : BOOLEAN]
    BY <1>1 DEF CloseSession, SessionTypes
  <2> DEFINE row == [member |-> session[b].member, open |-> FALSE]
  <2>2. /\ session' = [session EXCEPT ![b] = row]
        /\ overtaken' = overtaken \cup (Running \cap {b})
        /\ UNCHANGED <<withheld, challenge, consumed, request>>
    BY <1>1 DEF CloseSession, logins
  <2>3. row \in [member : Member, open : BOOLEAN] /\ row # None /\ row.member = session[b].member
    <3>1. row \in [member : Member, open : BOOLEAN]
      BY <2>1
    <3> QED BY <3>1, NoSession
  <2>4. session[b] # None
    BY <1>1 DEF CloseSession
  <2> HIDE DEF row
  <2>5. \A c \in Client : session'[c] = IF c = b THEN row ELSE session[c]
    BY <2>2 DEF SessionTypes
  <2>6. SessionTypes'
    BY <2>2, <2>3 DEF SessionTypes
  <2>7. RequestsAgree'
    BY <2>2, <2>3, <2>4, <2>5 DEF RequestsAgree, Running
  <2>8. AuthorityHolds'
    BY <2>2, <2>5 DEF AuthorityHolds, Running
  <2>9. LoginsAreFinite' /\ LoginsAreSingleUse'
    BY <2>2, <2>3, <2>4, <2>5, <2>6, LoginsStay
  <2> QED BY <2>6, <2>7, <2>8, <2>9
<1>2. ASSUME NEW x \in Member \cup Permission \cup {Provider}, Withhold(x) \/ Restore(x) PROVE SInv'
  <2>1. UNCHANGED <<challenge, consumed, session, request>>
    BY <1>2 DEF Withhold, Restore, logins
  <2>2. SessionTypes' /\ RequestsAgree'
    BY <2>1 DEF SessionTypes, RequestsAgree, Running
  <2>3. AuthorityHolds'
    <3>1. CASE Withhold(x)
      <4>1. /\ withheld' = withheld \cup {x}
            /\ overtaken' = overtaken \cup {b \in Running : x \in Permission \cup {session[b].member}}
        BY <3>1 DEF Withhold
      <4>2. ASSUME NEW b \in Running, request[b].stage = "AUTHORIZED" PROVE request[b].permission \in Permission
        BY <4>2 DEF SessionTypes, Requests, Running, Idle
      <4> QED BY <2>1, <4>1, <4>2 DEF AuthorityHolds, Running
    <3>2. CASE Restore(x)
      BY <2>1, <3>2 DEF Restore, AuthorityHolds, Running
    <3> QED BY <1>2, <3>1, <3>2
  <2>4. LoginsAreFinite' /\ LoginsAreSingleUse'
    BY <2>1, <2>2, LoginsStay
  <2> QED BY <2>2, <2>3, <2>4
<1> QED BY <1>1, <1>2

LEMMA SessionsStep == SInv /\ SessionsNext => SInv'
<1> SUFFICES ASSUME SInv, SessionsNext PROVE SInv'
  OBVIOUS
<1>1. ASSUME NEW c \in Challenge, CreateLoginChallenge(c) \/ ExpireChallenge(c) PROVE SInv'
  <2>1. /\ challenge[c] \in {"NONE", "ISSUED"}
        /\ \E s \in {"ISSUED", "EXPIRED"} : challenge' = [challenge EXCEPT ![c] = s]
        /\ UNCHANGED <<withheld, consumed, session, request, overtaken>>
    BY <1>1 DEF CreateLoginChallenge, ExpireChallenge
  <2>2. SessionTypes' /\ RequestsAgree' /\ AuthorityHolds'
    BY <2>1 DEF SInv, SessionTypes, RequestsAgree, AuthorityHolds, Running
  <2>3. \A d \in Challenge : challenge'[d] = "CONSUMED" <=> challenge[d] = "CONSUMED"
    BY <2>1 DEF SInv, SessionTypes
  <2>4. LoginsAreFinite' /\ LoginsAreSingleUse'
    BY <2>1, <2>2, <2>3, LoginsStay
  <2> QED BY <2>2, <2>4 DEF SInv
<1>2. ASSUME NEW b \in Client, NEW t \in Token, VerifyToken(b, t) PROVE SInv'
  <2> DEFINE r == [stage |-> "VERIFIED", token |-> t]
  <2>1. r \in Requests /\ r.stage = "VERIFIED"
    BY DEF Requests
  <2>2. /\ request' = [request EXCEPT ![b] = r] /\ session[b] = None
        /\ UNCHANGED <<withheld, challenge, consumed, session, overtaken>>
    BY <1>2 DEF VerifyToken, logins
  <2> HIDE DEF r
  <2> QED BY <2>1, <2>2, RequestStep
<1>3. ASSUME NEW b \in Client, DenyLogin(b) PROVE SInv'
  <2>1. Idle \in Requests /\ Idle.stage = "IDLE"
    BY DEF Requests, Idle
  <2> QED BY <1>3, <2>1, RequestStep DEF DenyLogin, logins
<1>4. ASSUME NEW b \in Client, Authenticate(b) PROVE SInv'
  <2> DEFINE r == [stage |-> "AUTHENTICATED"]
  <2>1. r \in Requests /\ r.stage = "AUTHENTICATED"
    BY DEF Requests
  <2>2. /\ request' = [request EXCEPT ![b] = r] /\ Usable(b)
        /\ UNCHANGED <<withheld, challenge, consumed, session, overtaken>>
    BY <1>4 DEF Authenticate, logins
  <2> HIDE DEF r
  <2> QED BY <2>1, <2>2, RequestStep DEF Usable
<1>5. ASSUME NEW b \in Client, NEW permission \in Permission, Authorize(b, permission) PROVE SInv'
  <2> DEFINE r == [stage |-> "AUTHORIZED", permission |-> permission]
  <2>1. r \in Requests /\ r.stage = "AUTHORIZED" /\ r.permission = permission
    BY DEF Requests
  <2>2. /\ request' = [request EXCEPT ![b] = r] /\ permission \notin withheld
        /\ request[b].stage = "AUTHENTICATED"
        /\ UNCHANGED <<withheld, challenge, consumed, session, overtaken>>
    BY <1>5 DEF Authorize, logins
  <2>3. b \in Running
    BY <2>2 DEF Running
  <2>4. session[b] # None /\ (b \notin overtaken => session[b].open /\ session[b].member \notin withheld)
    BY <2>3 DEF SInv, RequestsAgree, AuthorityHolds, Running
  <2> HIDE DEF r
  <2> QED BY <2>1, <2>2, <2>4, RequestStep
<1> QED BY <1>1, <1>2, <1>3, <1>4, <1>5, OpenSessionStep, AnswerStep, WithdrawalStep DEF SessionsNext

-----------------------------------------------------------------------------
(* Parameters.                                                             *)

Payload ==
  [kind : {"CIRCUIT_ACTIVATION"}, artifact : Artifact]
    \cup [kind : {"PRODUCT_CONTEXT"}, product : Product, context : Context, version : Versions]

Proposal ==
  [payload : Payload, status : {"PENDING", "APPROVED", "REJECTED"}, maker : Person,
   checker : Person \cup {Nobody}]

\* The rows keep the shape of migrations 011, 013 and 029.
ParameterTypes ==
  /\ pinned \in Artifact
  /\ proposals \in Seq(Proposal)
  /\ circuits \subseteq Artifact
  /\ contexts \subseteq [product : Product, context : Context, version : Versions, retired : BOOLEAN]

\* proof_circuit_versions.circuit_version is a primary key.
VersionsAreUnique == \A c, d \in circuits : c.version = d.version => c = d

GInv == ParameterTypes /\ VersionsAreUnique /\ ParametersAreAttested /\ ContextsAreDisjoint

LEMMA InitGInv == Init => GInv
<1> SUFFICES ASSUME Init PROVE GInv
  OBVIOUS
<1>1. /\ pinned \in Artifact /\ proposals = << >> /\ circuits = Inherited /\ contexts = {}
  BY DEF Init, GovernanceInit
<1>2. DOMAIN proposals = {} /\ proposals \in Seq(Proposal)
  BY <1>1
<1>3. ApprovedOf("CIRCUIT_ACTIVATION") = {} /\ ApprovedOf("PRODUCT_CONTEXT") = {}
  BY <1>2 DEF ApprovedOf
<1>4. ParametersAreAttested
  BY <1>1, <1>2, <1>3 DEF ParametersAreAttested
<1> QED BY <1>1, <1>2, <1>4, InheritedAssumption DEF GInv, ParameterTypes, VersionsAreUnique, ContextsAreDisjoint

\* Rows that stay as they are have the same payloads.
LEMMA SamePayloads ==
  ASSUME NEW S, NEW f, NEW g, \A j \in S : g[j] = f[j]
  PROVE  /\ {g[j].payload.artifact : j \in S} = {f[j].payload.artifact : j \in S}
         /\ {<<g[j].payload.product, g[j].payload.context, g[j].payload.version>> : j \in S} =
              {<<f[j].payload.product, f[j].payload.context, f[j].payload.version>> : j \in S}
OBVIOUS

\* A proposal is added; the approved ones are what they were.
LEMMA ProposeStep ==
  ASSUME GInv, NEW maker \in Person, NEW payload \in Payload, Propose(maker, payload)
  PROVE  GInv'
<1> USE DEF GInv
<1> DEFINE row == [payload |-> payload, status |-> "PENDING", maker |-> maker, checker |-> Nobody]
<1>1. /\ proposals' = Append(proposals, row) /\ row \in Proposal /\ row.status = "PENDING"
      /\ UNCHANGED <<pinned, circuits, contexts>>
  BY DEF Propose, Proposal
<1> HIDE DEF row
<1>2. /\ proposals' \in Seq(Proposal)
      /\ DOMAIN proposals' = DOMAIN proposals \cup {Len(proposals) + 1}
      /\ \A i \in DOMAIN proposals : proposals'[i] = proposals[i]
      /\ proposals'[Len(proposals) + 1] = row
      /\ Len(proposals) + 1 \notin DOMAIN proposals
  BY <1>1 DEF ParameterTypes
<1>3. \A kind : ApprovedOf(kind)' = ApprovedOf(kind)
  BY <1>1, <1>2 DEF ApprovedOf
<1>4. \A kind : \A i \in ApprovedOf(kind) : proposals'[i] = proposals[i]
  BY <1>2 DEF ApprovedOf
<1>5. ParametersAreAttested'
  <2>1. \A j \in DOMAIN proposals' : proposals'[j].status # "PENDING" =>
          proposals'[j].checker \in Person \ {proposals'[j].maker}
    BY <1>1, <1>2 DEF ParametersAreAttested
  <2> DEFINE C == ApprovedOf("CIRCUIT_ACTIVATION")
             P == ApprovedOf("PRODUCT_CONTEXT")
  <2>2. C' = C /\ P' = P /\ (\A j \in C : proposals'[j] = proposals[j])
          /\ \A j \in P : proposals'[j] = proposals[j]
    BY <1>3, <1>4
  <2>3. /\ circuits = Inherited \cup {proposals[j].payload.artifact : j \in C}
        /\ {<<c.product, c.context, c.version>> : c \in contexts} =
             {<<proposals[j].payload.product, proposals[j].payload.context,
                proposals[j].payload.version>> : j \in P}
    BY DEF ParametersAreAttested
  <2> HIDE DEF C, P
  <2>4. circuits' = Inherited \cup {proposals'[j].payload.artifact : j \in C'}
    BY <1>1, <2>2, <2>3, SamePayloads
  <2>5. {<<c.product, c.context, c.version>> : c \in contexts'} =
          {<<proposals'[j].payload.product, proposals'[j].payload.context,
             proposals'[j].payload.version>> : j \in P'}
    BY <1>1, <2>2, <2>3, SamePayloads
  <2> QED BY <2>1, <2>4, <2>5 DEF ParametersAreAttested, C, P
<1>6. VersionsAreUnique' /\ ContextsAreDisjoint'
  BY <1>1 DEF VersionsAreUnique, ContextsAreDisjoint, Activated
<1>7. ParameterTypes'
  BY <1>1, <1>2 DEF ParameterTypes
<1> QED BY <1>5, <1>6, <1>7

\* A decision touches one row, which was pending.
LEMMA Concluded ==
  ASSUME GInv, NEW i, NEW checker \in Person, NEW status \in {"APPROVED", "REJECTED"},
         MayDecide(i, checker), Conclude(i, checker, status)
  PROVE  /\ i \in DOMAIN proposals /\ proposals[i] \in Proposal
         /\ proposals' \in Seq(Proposal) /\ DOMAIN proposals' = DOMAIN proposals
         /\ \A j \in DOMAIN proposals : j # i => proposals'[j] = proposals[j]
         /\ proposals'[i].payload = proposals[i].payload /\ proposals'[i].status = status
         /\ proposals'[i].checker = checker /\ proposals'[i].maker = proposals[i].maker
         /\ \A kind : ApprovedOf(kind)' =
              IF status = "APPROVED" /\ proposals[i].payload.kind = kind
              THEN ApprovedOf(kind) \cup {i} ELSE ApprovedOf(kind)
         /\ \A kind : i \notin ApprovedOf(kind)
         /\ \A j \in DOMAIN proposals : proposals'[j].status # "PENDING" =>
              proposals'[j].checker \in Person \ {proposals'[j].maker}
<1>1. i \in DOMAIN proposals /\ proposals[i].status = "PENDING" /\ proposals[i].maker # checker
  BY DEF MayDecide, Pending
<1>2. proposals \in Seq(Proposal) /\ proposals[i] \in Proposal
  BY <1>1 DEF GInv, ParameterTypes
<1> DEFINE row == [payload |-> proposals[i].payload, status |-> status, maker |-> proposals[i].maker,
                   checker |-> checker]
<1>3. row \in Proposal
  BY <1>2 DEF Proposal
<1>4. proposals' = [proposals EXCEPT ![i] = row]
  BY DEF Conclude
<1>5. row.payload = proposals[i].payload /\ row.status = status /\ row.checker = checker
        /\ row.maker = proposals[i].maker
  OBVIOUS
<1> HIDE DEF row
<1>6. /\ proposals' \in Seq(Proposal) /\ DOMAIN proposals' = DOMAIN proposals
      /\ \A j \in DOMAIN proposals : proposals'[j] = IF j = i THEN row ELSE proposals[j]
  BY <1>1, <1>2, <1>3, <1>4
<1>7. \A kind : ApprovedOf(kind)' =
         IF status = "APPROVED" /\ proposals[i].payload.kind = kind
         THEN ApprovedOf(kind) \cup {i} ELSE ApprovedOf(kind)
  BY <1>1, <1>5, <1>6 DEF ApprovedOf
<1>8. \A kind : i \notin ApprovedOf(kind)
  BY <1>1 DEF ApprovedOf
<1>9. \A j \in DOMAIN proposals : proposals'[j].status # "PENDING" =>
         proposals'[j].checker \in Person \ {proposals'[j].maker}
  BY <1>1, <1>5, <1>6 DEF GInv, ParametersAreAttested
<1> QED BY <1>1, <1>2, <1>5, <1>6, <1>7, <1>8, <1>9

\* What the approved proposals of a kind say is not changed by a decision of another.
LEMMA Kept ==
  ASSUME GInv, NEW i, NEW checker \in Person, NEW status \in {"APPROVED", "REJECTED"},
         MayDecide(i, checker), Conclude(i, checker, status), NEW kind,
         status = "REJECTED" \/ proposals[i].payload.kind # kind
  PROVE  /\ ApprovedOf(kind)' = ApprovedOf(kind)
         /\ \A j \in ApprovedOf(kind) : proposals'[j] = proposals[j]
<1>1. ApprovedOf(kind)' = ApprovedOf(kind) /\ i \notin ApprovedOf(kind)
  BY Concluded
<1>2. \A j \in ApprovedOf(kind) : j \in DOMAIN proposals
  BY DEF ApprovedOf
<1> QED BY <1>1, <1>2, Concluded

LEMMA CircuitStep ==
  ASSUME GInv, NEW i, NEW checker \in Person, ApproveCircuit(i, checker)
  PROVE  GInv'
<1> USE DEF GInv
<1> DEFINE payload == proposals[i].payload
<1>1. /\ MayDecide(i, checker) /\ Conclude(i, checker, "APPROVED")
      /\ payload.kind = "CIRCUIT_ACTIVATION" /\ payload.artifact = pinned
      /\ CircuitAvailable(payload)
      /\ circuits' = circuits \cup {pinned}
      /\ UNCHANGED <<pinned, contexts>>
  BY DEF ApproveCircuit, StillPinned
<1>2. ParameterTypes'
  BY <1>1, Concluded DEF ParameterTypes
<1>3. VersionsAreUnique'
  BY <1>1 DEF VersionsAreUnique, CircuitAvailable
<1>4. ContextsAreDisjoint'
  BY <1>1 DEF ContextsAreDisjoint, Activated
<1>5. ParametersAreAttested'
  <2>1. \A j \in DOMAIN proposals' : proposals'[j].status # "PENDING" =>
          proposals'[j].checker \in Person \ {proposals'[j].maker}
    BY <1>1, Concluded
  <2>2. /\ ApprovedOf("CIRCUIT_ACTIVATION")' = ApprovedOf("CIRCUIT_ACTIVATION") \cup {i}
        /\ i \notin ApprovedOf("CIRCUIT_ACTIVATION")
        /\ proposals'[i].payload.artifact = pinned
    BY <1>1, Concluded
  <2>3. \A j \in ApprovedOf("CIRCUIT_ACTIVATION") : proposals'[j] = proposals[j]
    <3>1. \A j \in ApprovedOf("CIRCUIT_ACTIVATION") : j \in DOMAIN proposals
      BY DEF ApprovedOf
    <3> QED BY <1>1, <2>2, <3>1, Concluded
  <2>4. circuits' = Inherited \cup
          {proposals'[j].payload.artifact : j \in ApprovedOf("CIRCUIT_ACTIVATION")'}
    BY <1>1, <2>2, <2>3 DEF ParametersAreAttested
  <2>5. {<<c.product, c.context, c.version>> : c \in contexts'} =
          {<<proposals'[j].payload.product, proposals'[j].payload.context, proposals'[j].payload.version>> :
             j \in ApprovedOf("PRODUCT_CONTEXT")'}
    BY <1>1, Kept DEF ParametersAreAttested
  <2> QED BY <2>1, <2>4, <2>5 DEF ParametersAreAttested
<1> QED BY <1>2, <1>3, <1>4, <1>5

LEMMA ContextStep ==
  ASSUME GInv, NEW i, NEW checker \in Person, ApproveContext(i, checker)
  PROVE  GInv'
<1> USE DEF GInv
<1> DEFINE payload == proposals[i].payload
           row == [product |-> payload.product, context |-> payload.context,
                   version |-> payload.version, retired |-> FALSE]
<1>1. /\ MayDecide(i, checker) /\ Conclude(i, checker, "APPROVED")
      /\ payload.kind = "PRODUCT_CONTEXT" /\ ContextAvailable(payload)
      /\ contexts' = contexts \cup {row}
      /\ UNCHANGED <<pinned, circuits>>
  BY DEF ApproveContext, StillAvailable, ContextOf
<1>2. payload \in [kind : {"PRODUCT_CONTEXT"}, product : Product, context : Context, version : Versions]
  BY <1>1, Concluded DEF Proposal, Payload
<1>3. row \in [product : Product, context : Context, version : Versions, retired : BOOLEAN]
  BY <1>2
<1>4. row.product = payload.product /\ row.context = payload.context /\ row.version = payload.version
  OBVIOUS
<1> HIDE DEF payload, row
<1>5. ParameterTypes'
  BY <1>1, <1>3, Concluded DEF ParameterTypes
<1>6. VersionsAreUnique'
  BY <1>1 DEF VersionsAreUnique
<1>7. ContextsAreDisjoint'
  BY <1>1, <1>4 DEF ContextsAreDisjoint, ContextAvailable, Activated
<1>8. ParametersAreAttested'
  <2>1. \A j \in DOMAIN proposals' : proposals'[j].status # "PENDING" =>
          proposals'[j].checker \in Person \ {proposals'[j].maker}
    BY <1>1, Concluded
  <2>2. /\ ApprovedOf("PRODUCT_CONTEXT")' = ApprovedOf("PRODUCT_CONTEXT") \cup {i}
        /\ i \notin ApprovedOf("PRODUCT_CONTEXT")
        /\ proposals'[i].payload = payload
    BY <1>1, Concluded DEF payload
  <2>3. \A j \in ApprovedOf("PRODUCT_CONTEXT") : proposals'[j] = proposals[j]
    <3>1. \A j \in ApprovedOf("PRODUCT_CONTEXT") : j \in DOMAIN proposals
      BY DEF ApprovedOf
    <3> QED BY <1>1, <2>2, <3>1, Concluded
  <2>4. {<<c.product, c.context, c.version>> : c \in contexts'} =
          {<<proposals'[j].payload.product, proposals'[j].payload.context, proposals'[j].payload.version>> :
             j \in ApprovedOf("PRODUCT_CONTEXT")'}
    BY <1>1, <1>4, <2>2, <2>3 DEF ParametersAreAttested
  <2>5. circuits' = Inherited \cup
          {proposals'[j].payload.artifact : j \in ApprovedOf("CIRCUIT_ACTIVATION")'}
    BY <1>1, Kept DEF ParametersAreAttested, payload
  <2> QED BY <2>1, <2>4, <2>5 DEF ParametersAreAttested
<1> QED BY <1>5, <1>6, <1>7, <1>8

LEMMA RejectStep ==
  ASSUME GInv, NEW i, NEW checker \in Person, RejectProposal(i, checker)
  PROVE  GInv'
<1> USE DEF GInv
<1>1. /\ MayDecide(i, checker) /\ Conclude(i, checker, "REJECTED")
      /\ UNCHANGED <<pinned, circuits, contexts>>
  BY DEF RejectProposal
<1>2. ParameterTypes'
  BY <1>1, Concluded DEF ParameterTypes
<1>3. VersionsAreUnique' /\ ContextsAreDisjoint'
  BY <1>1 DEF VersionsAreUnique, ContextsAreDisjoint, Activated
<1>4. ParametersAreAttested'
  <2>1. \A j \in DOMAIN proposals' : proposals'[j].status # "PENDING" =>
          proposals'[j].checker \in Person \ {proposals'[j].maker}
    BY <1>1, Concluded
  <2>2. circuits' = Inherited \cup
          {proposals'[j].payload.artifact : j \in ApprovedOf("CIRCUIT_ACTIVATION")'}
    BY <1>1, Kept DEF ParametersAreAttested
  <2>3. {<<c.product, c.context, c.version>> : c \in contexts'} =
          {<<proposals'[j].payload.product, proposals'[j].payload.context, proposals'[j].payload.version>> :
             j \in ApprovedOf("PRODUCT_CONTEXT")'}
    BY <1>1, Kept DEF ParametersAreAttested
  <2> QED BY <2>1, <2>2, <2>3 DEF ParametersAreAttested
<1> QED BY <1>2, <1>3, <1>4

\* Redeployment, and the retirement of a context by SQL.
LEMMA OperateStep == ASSUME GInv, Operate PROVE GInv'
<1> USE DEF GInv
<1>1. ASSUME NEW artifact \in Artifact, Redeploy(artifact) PROVE GInv'
  <2>1. pinned' \in Artifact /\ UNCHANGED <<proposals, circuits, contexts>>
    BY <1>1 DEF Redeploy
  <2> QED
    BY <2>1 DEF ParameterTypes, VersionsAreUnique, ParametersAreAttested, ContextsAreDisjoint,
                Activated, ApprovedOf
<1>2. ASSUME NEW c \in contexts, RetireContext(c) PROVE GInv'
  <2> DEFINE row == [product |-> c.product, context |-> c.context, version |-> c.version, retired |-> TRUE]
  <2>1. c \in [product : Product, context : Context, version : Versions, retired : BOOLEAN]
    BY DEF ParameterTypes
  <2>2. row = ContextOf(c, TRUE)
          /\ row \in [product : Product, context : Context, version : Versions, retired : BOOLEAN]
    BY <2>1 DEF ContextOf
  <2>3. contexts' = (contexts \ {c}) \cup {row} /\ UNCHANGED <<pinned, proposals, circuits>>
    BY <1>2, <2>2 DEF RetireContext
  <2>4. row.product = c.product /\ row.context = c.context /\ row.version = c.version /\ row.retired
    OBVIOUS
  <2> HIDE DEF row
  <2>5. ParameterTypes' /\ VersionsAreUnique'
    BY <2>2, <2>3 DEF ParameterTypes, VersionsAreUnique
  <2>6. ContextsAreDisjoint'
    BY <2>3, <2>4 DEF ContextsAreDisjoint, Activated
  <2>7. {<<d.product, d.context, d.version>> : d \in contexts'} =
          {<<d.product, d.context, d.version>> : d \in contexts}
    BY <2>3, <2>4
  <2>8. ParametersAreAttested'
    BY <2>3, <2>7 DEF ParametersAreAttested, ApprovedOf
  <2> QED BY <2>5, <2>6, <2>8
<1> QED BY <1>1, <1>2 DEF Operate

-----------------------------------------------------------------------------
(* The composition.                                                        *)

LEMMA InitInv == Init => SInv /\ GInv
BY InitSInv, InitGInv

LEMMA NextInv == SInv /\ GInv /\ [Next]_vars => SInv' /\ GInv'
<1> SUFFICES ASSUME SInv, GInv, [Next]_vars PROVE SInv' /\ GInv'
  OBVIOUS
<1>1. ASSUME UNCHANGED parameters PROVE GInv'
  BY <1>1 DEF parameters, GInv, ParameterTypes, VersionsAreUnique, ParametersAreAttested,
              ContextsAreDisjoint, Activated, ApprovedOf
<1>2. ASSUME UNCHANGED access PROVE SInv'
  BY <1>2 DEF access, logins, SInv, SessionTypes, RequestsAgree, AuthorityHolds, LoginsAreFinite,
              LoginsAreSingleUse, Running, Opened, Answered
<1>3. CASE SessionsNext /\ UNCHANGED parameters
  BY <1>1, <1>3, SessionsStep
<1>4. ASSUME NEW b \in Client, PostProposal(b) \/ PostDecision(b) PROVE SInv' /\ GInv'
  <2>1. SInv'
    BY <1>4, AnswerStep DEF PostProposal, PostDecision
  <2>2. ActorOf(b) \in Person
    <3>1. b \in Running
      BY <1>4 DEF PostProposal, PostDecision, Holds, Running
    <3>2. session[b] \in [member : Member, open : BOOLEAN]
      BY <3>1 DEF SInv, SessionTypes, RequestsAgree
    <3> QED BY <3>2, PeopleAreMembers DEF ActorOf
  <2>3. ASSUME Propose(ActorOf(b), CircuitPayload) PROVE GInv'
    <3>1. CircuitPayload \in Payload
      BY DEF CircuitPayload, Payload, GInv, ParameterTypes
    <3> QED BY <2>2, <2>3, <3>1, ProposeStep
  <2>4. ASSUME NEW p \in Product, NEW x \in Context, Propose(ActorOf(b), ContextPayload(p, x)) PROVE GInv'
    <3>1. ContextPayload(p, x) \in Payload
      BY DEF ContextPayload, Payload, GInv, ParameterTypes, Versions
    <3> QED BY <2>2, <2>4, <3>1, ProposeStep
  <2>5. CASE PostProposal(b)
    BY <2>1, <2>3, <2>4, <2>5 DEF PostProposal
  <2>6. CASE PostDecision(b)
    BY <2>1, <2>2, <2>6, CircuitStep, ContextStep, RejectStep DEF PostDecision
  <2> QED BY <1>4, <2>5, <2>6
<1>5. CASE Operate
  BY <1>2, <1>5, OperateStep DEF Operate
<1>6. CASE UNCHANGED vars
  BY <1>1, <1>2, <1>6 DEF vars
<1> QED BY <1>3, <1>4, <1>5, <1>6 DEF Next

\* The inductive invariants of the sessions and of the parameters: rows keep their shape, a
\* running request still has its authority unless it was withdrawn meanwhile, and the
\* parameters are those of the approved proposals.
THEOREM AccessInvariance == Spec => [](SInv /\ GInv)
BY InitInv, NextInv, PTL DEF Spec

\* A challenge and a token open one session, which speaks for the token's subject, however
\* the logins interleave (the transaction of #login).
THEOREM OneSessionPerToken == Spec => []LoginsAreSingleUse
<1>1. SInv => LoginsAreSingleUse
  BY DEF SInv
<1> QED BY <1>1, AccessInvariance, PTL

\* A change is made only by a member in good standing with an open session and the
\* permission, unless these were withdrawn during the request itself (authenticate).
THEOREM NoStaleAuthority == Spec => AuthorityIsCurrent
<1>1. ASSUME SInv, NEW b \in Client, Acted(b), b \notin overtaken
      PROVE  session[b].open /\ session[b].member \notin withheld /\ request[b].permission \notin withheld
  <2>1. b \in Running \ overtaken /\ request[b].stage = "AUTHORIZED"
    BY <1>1 DEF Acted, Running
  <2> QED BY <1>1, <2>1 DEF SInv, AuthorityHolds
<1>2. SInv => \A b \in Client : Acted(b) /\ b \notin overtaken =>
                /\ session[b].open
                /\ session[b].member \notin withheld
                /\ request[b].permission \notin withheld
  BY <1>1
<1> QED BY <1>2, AccessInvariance, PTL DEF AuthorityIsCurrent

\* The active circuits and the contexts are exactly what proposals say that one person made
\* and another approved, over any number of rounds and redeployments (decide).
THEOREM ParametersFourEyes == Spec => []ParametersAreAttested
<1>1. GInv => ParametersAreAttested
  BY DEF GInv
<1> QED BY <1>1, AccessInvariance, PTL

\* No context id is used twice and no product has two live contexts, whichever proposals
\* were pending together (#assertContextAvailable, asked again at the decision).
THEOREM ContextsStayDisjoint == Spec => []ContextsAreDisjoint
<1>1. GInv => ContextsAreDisjoint
  BY DEF GInv
<1> QED BY <1>1, AccessInvariance, PTL

\* Only the artifact that the deciding process has loaded is ever activated, and no version
\* twice (ZK_ARTIFACT_CHANGED, #assertCircuitAvailable).
THEOREM ActivationIsPinned == Spec => PinnedWhenActivated
<1> DEFINE Pinned == /\ circuits' \ circuits \subseteq {pinned}
                     /\ \A c, d \in circuits' : c.version = d.version => c = d
<1>1. ASSUME SInv /\ GInv, SInv' /\ GInv', [Next]_vars PROVE [Pinned]_parameters
  <2>1. \A c, d \in circuits' : c.version = d.version => c = d
    BY <1>1 DEF GInv, VersionsAreUnique
  <2>2. circuits' \ circuits \subseteq {pinned} \/ UNCHANGED circuits
    BY <1>1 DEF Next, vars, parameters, PostProposal, PostDecision, Propose, ApproveCircuit, StillPinned,
                ApproveContext, RejectProposal, Operate, Redeploy, RetireContext
  <2> QED BY <2>1, <2>2
<1> QED BY <1>1, AccessInvariance, PTL DEF Spec, PinnedWhenActivated
=============================================================================
