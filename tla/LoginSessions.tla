--------------------------- MODULE LoginSessions ---------------------------
(***************************************************************************)
(* Sign-in and sessions of the production profile (ProductionAuthService). *)
(* A login exchanges an ID token for a session: it reads the providers and *)
(* verifies the token outside any transaction, then consumes the challenge *)
(* and the token and opens the session in one. A request reads the session *)
(* with the standing of its member, then the grants of the role, and acts  *)
(* later, when its body has arrived. What it read may be withdrawn         *)
(* meanwhile.                                                              *)
(*                                                                         *)
(* A client is a browser: it signs in once, and has one login or one       *)
(* request under way at a time; its session may be closed from elsewhere.  *)
(* A module that EXTENDS this one says what a request does.                *)
(***************************************************************************)
EXTENDS Naturals, FiniteSets

CONSTANTS
  Client, Member, Permission, Challenge, Token,
  SubjectOf,   \* member an ID token speaks of
  NonceOf,     \* challenge an ID token answers
  Provider,    \* the identity provider
  MaxWithheld, \* bound on what operators withhold at one time
  None

ASSUME TokenAssumption == SubjectOf \in [Token -> Member] /\ NonceOf \in [Token -> Challenge]
ASSUME WithheldBound == MaxWithheld \in Nat
ASSUME NoSession == None \notin [member : Member, open : BOOLEAN]

VARIABLES
  withheld,   \* what operators have suspended: the provider (identity_providers),
              \* members (principals, institution_memberships), grants (role_permissions)
  challenge,  \* oidc_login_challenges
  consumed,   \* oidc_consumed_tokens
  session,    \* production_sessions: of a client, open until revoked or expired
  request,    \* what a client has under way
  overtaken   \* history: clients whose authority was withdrawn during their request

logins == <<challenge, consumed>>
access == <<withheld, logins, session, request, overtaken>>

Idle == [stage |-> "IDLE"]

SessionsInit ==
  /\ withheld = {}
  /\ challenge = [c \in Challenge |-> "NONE"]
  /\ consumed = {}
  /\ session = [b \in Client |-> None]
  /\ request = [b \in Client |-> Idle]
  /\ overtaken = {}

-----------------------------------------------------------------------------
(* Logins.                                                                 *)

CreateLoginChallenge(c) ==
  /\ challenge[c] = "NONE"
  /\ challenge' = [challenge EXCEPT ![c] = "ISSUED"]
  /\ UNCHANGED <<withheld, consumed, session, request, overtaken>>

ExpireChallenge(c) ==
  /\ challenge[c] = "ISSUED"
  /\ challenge' = [challenge EXCEPT ![c] = "EXPIRED"]
  /\ UNCHANGED <<withheld, consumed, session, request, overtaken>>

\* The providers are read and the token is verified against one of them and against
\* the nonce of the client's cookie.
VerifyToken(b, t) ==
  /\ request[b] = Idle /\ session[b] = None
  /\ Provider \notin withheld
  /\ challenge[NonceOf[t]] # "NONE"
  /\ request' = [request EXCEPT ![b] = [stage |-> "VERIFIED", token |-> t]]
  /\ UNCHANGED <<withheld, logins, session, overtaken>>

\* Mutant: the challenge is looked up, its consumption is not conditional.
Redeemable_Known(t) == challenge[NonceOf[t]] \in {"ISSUED", "CONSUMED"} /\ t \notin consumed

\* The conditional update of the challenge and the primary key of the consumed tokens.
Redeemable(t) == challenge[NonceOf[t]] = "ISSUED" /\ t \notin consumed

\* The transaction of a login.
OpenSession(b) ==
  /\ request[b].stage = "VERIFIED"
  /\ LET t == request[b].token IN
       /\ Redeemable(t)
       /\ SubjectOf[t] \notin withheld
       /\ challenge' = [challenge EXCEPT ![NonceOf[t]] = "CONSUMED"]
       /\ consumed' = consumed \cup {t}
       /\ session' = [session EXCEPT ![b] = [member |-> SubjectOf[t], open |-> TRUE]]
  /\ request' = [request EXCEPT ![b] = Idle]
  /\ UNCHANGED <<withheld, overtaken>>

\* The transaction fails, and with it the consumption of challenge and token.
DenyLogin(b) ==
  /\ request[b].stage = "VERIFIED"
  /\ ~(Redeemable(request[b].token) /\ SubjectOf[request[b].token] \notin withheld)
  /\ request' = [request EXCEPT ![b] = Idle]
  /\ UNCHANGED <<withheld, logins, session, overtaken>>

-----------------------------------------------------------------------------
(* Requests.                                                               *)

\* Mutant: the membership is not read again after the login.
Usable_AsIssued(b) == session[b] # None /\ session[b].open

Usable(b) == session[b] # None /\ session[b].open /\ session[b].member \notin withheld

\* First query of authenticate.
Authenticate(b) ==
  /\ request[b] = Idle
  /\ Usable(b)
  /\ request' = [request EXCEPT ![b] = [stage |-> "AUTHENTICATED"]]
  /\ UNCHANGED <<withheld, logins, session, overtaken>>

\* Its last query, and authorizeAction.
Authorize(b, permission) ==
  /\ request[b].stage = "AUTHENTICATED"
  /\ permission \notin withheld
  /\ request' = [request EXCEPT ![b] = [stage |-> "AUTHORIZED", permission |-> permission]]
  /\ UNCHANGED <<withheld, logins, session, overtaken>>

Running == {b \in Client : request[b].stage \in {"AUTHENTICATED", "AUTHORIZED"}}

\* The request is answered, with an error too, or its client goes away.
Answer(b) ==
  /\ b \in Running
  /\ request' = [request EXCEPT ![b] = Idle]
  /\ overtaken' = overtaken \ {b}
  /\ UNCHANGED <<withheld, logins, session>>

\* revoke after a logout, also from another tab, and the passing of expires_at.
CloseSession(b) ==
  /\ session[b] # None /\ session[b].open
  /\ session' = [session EXCEPT ![b] = [member |-> @.member, open |-> FALSE]]
  /\ overtaken' = overtaken \cup (Running \cap {b})
  /\ UNCHANGED <<withheld, logins, request>>

-----------------------------------------------------------------------------
(* Operators administer members, grants and providers with SQL.            *)

Withhold(x) ==
  /\ x \notin withheld
  /\ Cardinality(withheld) < MaxWithheld
  /\ withheld' = withheld \cup {x}
  /\ overtaken' = overtaken \cup {b \in Running : x \in Permission \cup {session[b].member}}
  /\ UNCHANGED <<logins, session, request>>

Restore(x) ==
  /\ x \in withheld
  /\ withheld' = withheld \ {x}
  /\ UNCHANGED <<logins, session, request, overtaken>>

SessionsNext ==
  \/ \E c \in Challenge : CreateLoginChallenge(c) \/ ExpireChallenge(c)
  \/ \E b \in Client : OpenSession(b) \/ DenyLogin(b) \/ Authenticate(b) \/ Answer(b) \/ CloseSession(b)
  \/ \E b \in Client, t \in Token : VerifyToken(b, t)
  \/ \E b \in Client, permission \in Permission : Authorize(b, permission)
  \/ \E x \in Member \cup Permission \cup {Provider} : Withhold(x) \/ Restore(x)

-----------------------------------------------------------------------------
Opened == {b \in Client : session[b] # None}
Answered == {c \in Challenge : challenge[c] = "CONSUMED"}

\* A login is all or nothing, and once: the challenges that are consumed, the tokens
\* that are, and the sessions that were opened are in one-to-one correspondence, and a
\* session speaks for the subject of a token that was consumed (#login).
LoginsAreSingleUse ==
  /\ Cardinality(Opened) = Cardinality(consumed)
  /\ Answered = {NonceOf[t] : t \in consumed}
  /\ \A t, u \in consumed : NonceOf[t] = NonceOf[u] => t = u
  /\ \A b \in Opened : \E t \in consumed : SubjectOf[t] = session[b].member
=============================================================================
