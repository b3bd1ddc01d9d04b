---------------------------- MODULE NoteLedger ----------------------------
(***************************************************************************)
(* What the confidential rail promises, without its database: a ledger of  *)
(* notes in which a transfer consumes two published, unspent notes in one  *)
(* step, is owed the publication of its two outputs from then on, and is   *)
(* published once, as the next two leaves.                                 *)
(***************************************************************************)
EXTENDS Naturals, Sequences

CONSTANTS Tx, Note, JoinSplit, Genesis, None

VARIABLES
  ledger,    \* the published notes, in the order of their publication
  accepted,  \* the JoinSplit each accepted transfer consumed its notes for
  published  \* the transfers whose outputs are in the ledger

ledgerVars == <<ledger, accepted, published>>

NotesOf(s) == {s[i] : i \in DOMAIN s}
In(js) == {js.in0, js.in1}
Out(js) == {js.out0, js.out1}
Accepted == {t \in Tx : accepted[t] # None}

LedgerInit ==
  /\ ledger = Genesis
  /\ accepted = [t \in Tx |-> None]
  /\ published = {}

\* Notes are consumed at most once, and no commitment is created twice.
AcceptTransfer(t, js) ==
  /\ accepted[t] = None
  /\ js.in0 # js.in1 /\ js.out0 # js.out1
  /\ In(js) \subseteq NotesOf(ledger)
  /\ \A u \in Accepted : /\ In(js) \cap In(accepted[u]) = {}
                         /\ Out(js) \cap Out(accepted[u]) = {}
  /\ accepted' = [accepted EXCEPT ![t] = js]
  /\ UNCHANGED <<ledger, published>>

PublishTransfer(t) ==
  /\ t \in Accepted \ published
  /\ ledger' = ledger \o <<accepted[t].out0, accepted[t].out1>>
  /\ published' = published \cup {t}
  /\ UNCHANGED accepted

LedgerNext ==
  \E t \in Tx : PublishTransfer(t) \/ \E js \in JoinSplit : AcceptTransfer(t, js)

LedgerSpec == LedgerInit /\ [][LedgerNext]_ledgerVars
=============================================================================
