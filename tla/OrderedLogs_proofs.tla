------------------------- MODULE OrderedLogs_proofs -------------------------
(***************************************************************************)
(* Safety of the three logs whose order matters: the streams of signed     *)
(* callbacks, the outbox and the audit log, each for any value of its      *)
(* constants.                                                              *)
(***************************************************************************)
EXTENDS InstitutionCallbacks, OutboxDelivery, AuditChain, FiniteSetLemmas

-----------------------------------------------------------------------------
(***************************************************************************)
(* Callbacks and the incidents they open.                                  *)
(***************************************************************************)
\* UNIQUE (tenant_id, institution_id, product_id, channel, stream_sequence).
OnePerPlace ==
  \A r1, r2 \in received :
    (StreamOf(r1) = StreamOf(r2) /\ r1.sequence = r2.sequence) => r1 = r2

\* A checker has approved only what is resolved.
OpenIsUnapproved ==
  \A e \in Envelope : incident[e] \in {"NONE", "OPEN", "PENDING_APPROVAL"} =>
    \A a \in approvals : (a.incident = e /\ a.role = "CHECKER") => a.decision = "REJECT"

CInv ==
  /\ CallbackTypeOK
  /\ OnePerPlace
  /\ StreamIsPrefix
  /\ FailureIsReported
  /\ OpenIsUnapproved
  /\ ResolutionIsAttested

-----------------------------------------------------------------------------
\* An envelope names a stream and a place in it.
LEMMA EnvelopeType ==
  ASSUME NEW e \in Envelope
  PROVE  /\ StreamOf(e) \in Stream
         /\ e.sequence \in 1 .. MaxSequence
         /\ e.institution \in Institution /\ e.channel \in Channel /\ e.key \in Key
BY EnvelopeAssumption DEF StreamOf, Stream

\* The initial state satisfies the inductive invariant.
LEMMA InitCInv == CallbackInit => CInv
<1> SUFFICES ASSUME CallbackInit PROVE CInv
  OBVIOUS
<1> USE DEF CallbackInit
<1>1. CallbackTypeOK
  BY SequenceAssumption DEF CallbackTypeOK, Stream
<1>2. OnePerPlace /\ OpenIsUnapproved /\ ResolutionIsAttested
  BY DEF OnePerPlace, OpenIsUnapproved, ResolutionIsAttested
<1>3. StreamIsPrefix
  BY DEF StreamIsPrefix, Buffered
<1>4. FailureIsReported
  BY DEF FailureIsReported, Blocking
<1> QED BY <1>1, <1>2, <1>3, <1>4 DEF CInv

\* A place that Unused accepts is held by nobody, so an envelope that is not
\* yet received has no incident.
LEMMA FreshEnvelope ==
  ASSUME CInv, NEW e \in Envelope, Unused(e)
  PROVE  e \notin received /\ incident[e] = "NONE"
<1>1. e \notin received
  BY DEF Unused
<1>2. e \notin adverse /\ ~Blocking(e)
  BY <1>1 DEF CInv, CallbackTypeOK, Blocking
<1> QED BY <1>1, <1>2 DEF CInv, FailureIsReported

\* The unique constraint survives the insertion of an unused envelope.
LEMMA ReceiptIsUnique ==
  ASSUME CInv, NEW e \in Envelope, Unused(e), received' = received \cup {e}
  PROVE  OnePerPlace'
BY DEF CInv, OnePerPlace, Unused, StreamOf

-----------------------------------------------------------------------------
\* A callback that is early waits behind its stream's position.
LEMMA BufferPreserves ==
  ASSUME CInv, NEW e \in Envelope, Receive(e), Buffer(e)
  PROVE  CallbackTypeOK' /\ StreamIsPrefix' /\ FailureIsReported'
<1> USE DEF CInv, Receive, Buffer, authority, review
<1>0. e \notin received /\ incident[e] = "NONE" /\ StreamOf(e) \in Stream
  BY FreshEnvelope, EnvelopeType
<1>1. CallbackTypeOK'
  BY DEF CallbackTypeOK
<1>2. StreamIsPrefix'
  <2> SUFFICES ASSUME NEW s \in Stream
               PROVE  /\ \A n \in 1 .. next[s] - 1 :
                           \E r \in applied : StreamOf(r) = s /\ r.sequence = n
                      /\ \A r \in applied : StreamOf(r) = s => r.sequence < next[s]
                      /\ \A b \in Buffered(s)' : b.sequence >= next[s]
                      /\ \A r1, r2 \in applied :
                           (StreamOf(r1) = s /\ StreamOf(r2) = s /\ r1.sequence = r2.sequence)
                             => r1 = r2
    BY DEF StreamIsPrefix, StreamOf
  <2>1. \A b \in Buffered(s)' : b \in Buffered(s) \/ (b = e /\ s = StreamOf(e))
    BY DEF Buffered, StreamOf
  <2>2. next[s] \in Nat /\ e.sequence \in Nat
    BY EnvelopeType, SequenceAssumption DEF CallbackTypeOK
  <2>3. \A b \in Buffered(s)' : b.sequence >= next[s]
    BY <2>1, <2>2 DEF StreamIsPrefix
  <2> QED BY <2>3 DEF StreamIsPrefix
<1>3. FailureIsReported'
  <2> SUFFICES ASSUME NEW r \in Envelope
               PROVE  incident[r] # "NONE" <=> (r \in adverse \/ Blocking(r)')
    BY DEF FailureIsReported
  <2>1. e.sequence # next[StreamOf(e)]
    BY EnvelopeType, SequenceAssumption, <1>0 DEF CallbackTypeOK
  <2>2. Blocking(r)' <=> Blocking(r)
    BY <2>1, <1>0 DEF Blocking, StreamOf
  <2> QED BY <2>2 DEF FailureIsReported
<1> QED BY <1>1, <1>2, <1>3

\* The callback that is due moves its stream to the first place that is empty
\* or no longer authorized.
LEMMA ApplyPreserves ==
  ASSUME CInv, NEW e \in Envelope, Receive(e), Apply(e)
  PROVE  /\ CallbackTypeOK' /\ StreamIsPrefix' /\ FailureIsReported'
         /\ \A r \in Envelope : r \in applied' /\ r \notin applied => Authorized(r)
         /\ \A r \in Envelope : incident'[r] = incident[r]
                                  \/ (incident[r] = "NONE" /\ incident'[r] = "OPEN")
<1> DEFINE s == StreamOf(e)
           waiting == Buffered(s)
<1>1. /\ Authorized(e) /\ Unused(e) /\ received' = received \cup {e}
      /\ UNCHANGED <<authority, review>> /\ e.sequence = next[s]
  BY DEF Receive, Apply
<1>2. PICK stop \in e.sequence + 1 .. MaxSequence + 1 :
        LET batch == {e} \cup {b \in waiting : b.sequence < stop}
        IN /\ Drains(e, stop)
           /\ applied' = applied \cup batch
           /\ next' = [next EXCEPT ![s] = stop]
           /\ \E wrong \in SUBSET batch :
                /\ adverse' = adverse \cup wrong
                /\ OpenIncidents(wrong, {b \in waiting : b.sequence = stop})
  BY DEF Apply
<1> DEFINE batch == {e} \cup {b \in waiting : b.sequence < stop}
<1>3. /\ Drains(e, stop)
      /\ applied' = applied \cup batch
      /\ next' = [next EXCEPT ![s] = stop]
  BY <1>2
<1>4. PICK wrong \in SUBSET batch :
        /\ adverse' = adverse \cup wrong
        /\ OpenIncidents(wrong, {b \in waiting : b.sequence = stop})
  BY <1>2
<1>5. e \notin received /\ incident[e] = "NONE" /\ s \in Stream
  BY <1>1, FreshEnvelope, EnvelopeType
<1>6. /\ waiting \subseteq received \ applied
      /\ \A b \in waiting : StreamOf(b) = s /\ b.sequence >= next[s]
      /\ \A b \in waiting : b \in Envelope /\ b.sequence \in Nat
  <2>1. \A b \in waiting : b \in received \ applied /\ StreamOf(b) = s
    BY DEF Buffered
  <2>2. \A b \in waiting : b.sequence >= next[s]
    BY <1>5 DEF CInv, StreamIsPrefix
  <2>3. \A b \in waiting : b \in Envelope
    BY <2>1 DEF CInv, CallbackTypeOK
  <2> QED BY <2>1, <2>2, <2>3, EnvelopeType, SequenceAssumption
<1>7. stop \in Nat /\ e.sequence \in Nat \ {0} /\ e.sequence < stop
      /\ stop \in 1 .. MaxSequence + 1
  BY EnvelopeType, SequenceAssumption
<1>8. next'[s] = stop /\ \A t \in Stream : t # s => next'[t] = next[t]
  BY <1>3, <1>5 DEF CInv, CallbackTypeOK
<1>9. batch \subseteq received' /\ batch \subseteq Envelope /\ \A b \in batch : StreamOf(b) = s
  BY <1>1, <1>6
<1>10. CallbackTypeOK'
  <2>1. next' \in [Stream -> 1 .. MaxSequence + 1]
    BY <1>3, <1>7 DEF CInv, CallbackTypeOK
  <2>2. received' \subseteq Envelope /\ applied' \subseteq received'
        /\ adverse' \subseteq applied'
    BY <1>1, <1>3, <1>4, <1>9 DEF CInv, CallbackTypeOK
  <2>3. incident' \in [Envelope -> {"NONE", "OPEN", "PENDING_APPROVAL",
                                    "RESOLVED_ACKNOWLEDGED", "RESOLVED_REMEDIATED"}]
    BY <1>4 DEF CInv, CallbackTypeOK, OpenIncidents
  <2> QED BY <1>1, <2>1, <2>2, <2>3 DEF CInv, CallbackTypeOK, authority, review
<1>11. StreamIsPrefix'
  <2>1. ASSUME NEW t \in Stream, NEW n \in 1 .. next'[t] - 1
        PROVE  \E r \in applied' : StreamOf(r) = t /\ r.sequence = n
    <3>1. CASE t # s
      BY <1>3, <1>8, <3>1 DEF CInv, StreamIsPrefix
    <3>2. CASE t = s /\ n < e.sequence
      <4>1. n \in 1 .. next[s] - 1
        BY <1>1, <1>7, <3>2
      <4> QED BY <4>1, <1>3, <1>5, <3>2 DEF CInv, StreamIsPrefix
    <3>3. CASE t = s /\ n = e.sequence
      BY <1>3, <3>3
    <3>4. CASE t = s /\ n > e.sequence
      <4>1. n \in e.sequence + 1 .. stop - 1
        BY <1>7, <1>8, <3>4
      <4>2. PICK b \in waiting : b.sequence = n
        BY <4>1, <1>3 DEF Drains
      <4>3. b.sequence < stop
        BY <4>1, <4>2, <1>7
      <4> QED BY <4>2, <4>3, <1>3, <1>6, <3>4
    <3> QED BY <3>1, <3>2, <3>3, <3>4, <1>7
  <2>2. ASSUME NEW t \in Stream, NEW r \in applied', StreamOf(r) = t
        PROVE  r.sequence < next'[t]
    <3>1. CASE r \in applied
      <4>1. r.sequence < next[t] /\ r.sequence \in Nat
        BY <2>2, <3>1, EnvelopeType, SequenceAssumption
           DEF CInv, StreamIsPrefix, CallbackTypeOK
      <4> QED BY <4>1, <1>1, <1>7, <1>8
    <3>2. CASE r \in batch
      BY <2>2, <3>2, <1>7, <1>8, <1>9
    <3> QED BY <3>1, <3>2, <1>3
  <2>3. ASSUME NEW t \in Stream, NEW b \in Buffered(t)' PROVE b.sequence >= next'[t]
    <3>1. b \in received \ applied /\ StreamOf(b) = t /\ b \notin batch
      BY <1>1, <1>3 DEF Buffered, StreamOf
    <3>2. b \in Buffered(t)
      BY <3>1 DEF Buffered
    <3>3. CASE t # s
      BY <1>8, <3>2, <3>3 DEF CInv, StreamIsPrefix
    <3>4. CASE t = s
      BY <1>6, <1>7, <1>8, <3>1, <3>2, <3>4
    <3> QED BY <3>3, <3>4
  <2>4. OnePerPlace'
    BY <1>1, ReceiptIsUnique
  <2>5. applied' \subseteq received'
    BY <1>10 DEF CallbackTypeOK
  <2>6. ASSUME NEW t \in Stream, NEW r1 \in applied', NEW r2 \in applied',
               StreamOf(r1) = t, StreamOf(r2) = t, r1.sequence = r2.sequence
        PROVE  r1 = r2
    BY <2>4, <2>5, <2>6 DEF OnePerPlace, StreamOf
  <2> QED BY <2>1, <2>2, <2>3, <2>6 DEF StreamIsPrefix, StreamOf
<1>12. FailureIsReported'
  <2> SUFFICES ASSUME NEW r \in Envelope
               PROVE  incident'[r] # "NONE" <=> (r \in adverse' \/ Blocking(r)')
    BY DEF FailureIsReported
  <2>1. incident'[r] # "NONE" <=>
          (r \in wrong \/ (r \in waiting /\ r.sequence = stop) \/ incident[r] # "NONE")
    BY <1>4 DEF OpenIncidents
  <2>2. CASE StreamOf(r) # s
    <3>1. r \notin batch /\ r \notin waiting /\ r # e
      BY <1>6, <1>9, <2>2
    <3>2. Blocking(r)' <=> Blocking(r)
      BY <1>1, <1>3, <1>8, <2>2, <3>1, EnvelopeType DEF Blocking, StreamOf
    <3> QED BY <1>4, <2>1, <3>1, <3>2 DEF CInv, FailureIsReported
  <2>3. CASE StreamOf(r) = s
    <3>1. ~Blocking(r)
      BY <1>1, <2>3 DEF Blocking, Unused
    <3>2. Blocking(r)' <=> (r \in received' \ applied' /\ r.sequence = stop)
      BY <1>8, <2>3 DEF Blocking, StreamOf
    <3>3. r \in received' \ applied' <=> (r \in waiting /\ r \notin batch)
      BY <1>1, <1>3, <1>6, <2>3 DEF Buffered
    <3>4. r \in waiting /\ r.sequence = stop => r \notin batch
      BY <1>5, <1>6, <1>7
    <3>5. Blocking(r)' <=> (r \in waiting /\ r.sequence = stop)
      BY <3>2, <3>3, <3>4
    <3> QED BY <1>4, <2>1, <3>1, <3>5 DEF CInv, FailureIsReported
  <2> QED BY <2>2, <2>3
<1>13. ASSUME NEW r \in Envelope, r \in applied', r \notin applied PROVE Authorized(r)
  <2>1. CASE r = e
    BY <1>1, <2>1
  <2>2. CASE r # e
    <3>1. r \in waiting /\ r.sequence < stop
      BY <1>3, <1>13, <2>2
    <3>2. r.sequence # e.sequence
      BY <1>1, <1>6, <3>1 DEF Unused
    <3>3. r.sequence \in e.sequence + 1 .. stop - 1
      BY <1>1, <1>6, <1>7, <3>1, <3>2
    <3>4. PICK b \in waiting : b.sequence = r.sequence /\ Authorized(b)
      BY <1>3, <3>3 DEF Drains
    <3>5. b = r
      BY <1>6, <3>1, <3>4 DEF CInv, OnePerPlace
    <3> QED BY <3>4, <3>5
  <2> QED BY <2>1, <2>2
<1>14. ASSUME NEW r \in Envelope
       PROVE  incident'[r] = incident[r] \/ (incident[r] = "NONE" /\ incident'[r] = "OPEN")
  BY <1>4 DEF OpenIncidents
<1> QED BY <1>10, <1>11, <1>12, <1>13, <1>14

-----------------------------------------------------------------------------
\* A receipt opens incidents and touches neither approvals nor rounds.
LEMMA ReceivePreserves ==
  ASSUME CInv, NEW e \in Envelope, Receive(e)
  PROVE  CInv'
<1>1. OnePerPlace'
  BY ReceiptIsUnique DEF Receive
<1>2. CallbackTypeOK' /\ StreamIsPrefix' /\ FailureIsReported'
  BY BufferPreserves, ApplyPreserves DEF Receive
<1>3. \A r \in Envelope : incident'[r] = incident[r]
                            \/ (incident[r] = "NONE" /\ incident'[r] = "OPEN")
  BY ApplyPreserves DEF Receive, Buffer
<1>4. OpenIsUnapproved'
  BY <1>3 DEF CInv, OpenIsUnapproved, Receive, review
<1>5. ResolutionIsAttested'
  BY <1>3 DEF CInv, ResolutionIsAttested, Receive, review
<1> QED BY <1>1, <1>2, <1>4, <1>5 DEF CInv

\* What the maker does leaves the streams alone.
LEMMA ProposePreserves ==
  ASSUME CInv, NEW e \in Envelope, NEW a \in Actor, NEW d \in {"ACKNOWLEDGE", "REMEDIATE"},
         Propose(e, a, d)
  PROVE  CInv'
<1> DEFINE approval == [incident |-> e, round |-> round[e] + 1, role |-> "MAKER",
                        actor |-> a, decision |-> d]
<1>1. /\ incident[e] = "OPEN"
      /\ incident' = [incident EXCEPT ![e] = "PENDING_APPROVAL"]
      /\ round' = [round EXCEPT ![e] = round[e] + 1]
      /\ approvals' = approvals \cup {approval}
      /\ proposals' = proposals + 1
      /\ UNCHANGED <<authority, stream>>
  BY DEF Propose
<1>2. approval \in Approval /\ approval.role = "MAKER" /\ approval.incident = e
  BY DEF CInv, CallbackTypeOK, Approval
<1> HIDE DEF approval
<1>3. CallbackTypeOK'
  BY <1>1, <1>2 DEF CInv, CallbackTypeOK, authority, stream
<1>4. OnePerPlace' /\ StreamIsPrefix'
  BY <1>1 DEF CInv, OnePerPlace, StreamIsPrefix, Buffered, StreamOf, stream
<1>5. FailureIsReported'
  BY <1>1 DEF CInv, CallbackTypeOK, FailureIsReported, Blocking, StreamOf, stream
<1>6. OpenIsUnapproved'
  BY <1>1, <1>2 DEF CInv, CallbackTypeOK, OpenIsUnapproved
<1>7. ResolutionIsAttested'
  <2> SUFFICES ASSUME NEW r \in Envelope,
                      incident'[r] \in {"RESOLVED_ACKNOWLEDGED", "RESOLVED_REMEDIATED"}
               PROVE  \E m, c \in approvals' :
                        /\ m.incident = r /\ m.role = "MAKER" /\ m.round = round'[r]
                        /\ c.incident = r /\ c.role = "CHECKER" /\ c.round = round'[r]
                        /\ m.actor # c.actor /\ c.decision = "APPROVE"
                        /\ incident'[r] = Resolution(m)
                        /\ \A x \in approvals' :
                             (x.incident = r /\ x.role = "CHECKER" /\ x.round # round'[r])
                               => x.decision = "REJECT"
    BY DEF ResolutionIsAttested, Resolution
  <2>1. r # e /\ incident'[r] = incident[r] /\ round'[r] = round[r]
    BY <1>1 DEF CInv, CallbackTypeOK
  <2>2. PICK m, c \in approvals :
          /\ m.incident = r /\ m.role = "MAKER" /\ m.round = round[r]
          /\ c.incident = r /\ c.role = "CHECKER" /\ c.round = round[r]
          /\ m.actor # c.actor /\ c.decision = "APPROVE"
          /\ incident[r] = Resolution(m)
          /\ \A x \in approvals : (x.incident = r /\ x.role = "CHECKER" /\ x.round # round[r])
                                    => x.decision = "REJECT"
    BY <2>1 DEF CInv, ResolutionIsAttested
  <2> QED BY <1>1, <1>2, <2>1, <2>2
<1> QED BY <1>3, <1>4, <1>5, <1>6, <1>7 DEF CInv

\* The checker of the last round resolves the incident or reopens it.
LEMMA DecidePreserves ==
  ASSUME CInv, NEW e \in Envelope, NEW a \in Actor, NEW d \in {"APPROVE", "REJECT"},
         Decide(e, a, d)
  PROVE  CInv'
<1> DEFINE approval == [incident |-> e, round |-> round[e], role |-> "CHECKER",
                        actor |-> a, decision |-> d]
<1>1. /\ incident[e] = "PENDING_APPROVAL"
      /\ approvals' = approvals \cup {approval}
      /\ UNCHANGED <<authority, stream, round, proposals>>
  BY DEF Decide
<1>2. PICK m \in Proposal(e) :
        /\ m.actor # a
        /\ incident' = [incident EXCEPT ![e] = IF d = "REJECT" THEN "OPEN" ELSE Resolution(m)]
  BY DEF Decide
<1>3. m \in approvals /\ m.incident = e /\ m.round = round[e] /\ m.role = "MAKER"
  BY DEF Proposal
<1>4. Resolution(m) \in {"RESOLVED_ACKNOWLEDGED", "RESOLVED_REMEDIATED"}
  BY DEF Resolution
<1>5. /\ approval \in Approval /\ approval.incident = e /\ approval.round = round[e]
      /\ approval.role = "CHECKER"
      /\ approval.actor = a /\ approval.decision = d
  BY DEF CInv, CallbackTypeOK, Approval
<1> HIDE DEF approval
<1>6. /\ incident'[e] = IF d = "REJECT" THEN "OPEN" ELSE Resolution(m)
      /\ \A r \in Envelope : r # e => incident'[r] = incident[r]
  BY <1>2 DEF CInv, CallbackTypeOK
<1>7. \A x \in approvals : (x.incident = e /\ x.role = "CHECKER") => x.decision = "REJECT"
  BY <1>1 DEF CInv, OpenIsUnapproved
<1>8. CallbackTypeOK'
  BY <1>1, <1>2, <1>4, <1>5 DEF CInv, CallbackTypeOK, authority, stream
<1>9. OnePerPlace' /\ StreamIsPrefix'
  BY <1>1 DEF CInv, OnePerPlace, StreamIsPrefix, Buffered, StreamOf, stream
<1>10. FailureIsReported'
  <2>1. \A r \in Envelope : incident'[r] # "NONE" <=> incident[r] # "NONE"
    BY <1>1, <1>4, <1>6
  <2> QED BY <1>1, <2>1 DEF CInv, FailureIsReported, Blocking, StreamOf, stream
<1>11. OpenIsUnapproved'
  <2>1. incident'[e] \in {"NONE", "OPEN", "PENDING_APPROVAL"} => d = "REJECT"
    BY <1>4, <1>6
  <2> QED BY <1>1, <1>5, <1>6, <1>7, <2>1 DEF CInv, OpenIsUnapproved
<1>12. ResolutionIsAttested'
  <2> SUFFICES ASSUME NEW r \in Envelope,
                      incident'[r] \in {"RESOLVED_ACKNOWLEDGED", "RESOLVED_REMEDIATED"}
               PROVE  \E p, c \in approvals' :
                        /\ p.incident = r /\ p.role = "MAKER" /\ p.round = round'[r]
                        /\ c.incident = r /\ c.role = "CHECKER" /\ c.round = round'[r]
                        /\ p.actor # c.actor /\ c.decision = "APPROVE"
                        /\ incident'[r] = Resolution(p)
                        /\ \A x \in approvals' :
                             (x.incident = r /\ x.role = "CHECKER" /\ x.round # round'[r])
                               => x.decision = "REJECT"
    BY DEF ResolutionIsAttested, Resolution
  <2>1. CASE r = e
    <3>1. d = "APPROVE" /\ incident'[e] = Resolution(m)
      BY <1>6, <2>1
    <3>2. \A x \in approvals' : (x.incident = r /\ x.role = "CHECKER" /\ x.round # round'[r])
                                  => x.decision = "REJECT"
      BY <1>1, <1>5, <1>7, <2>1
    <3>3. m \in approvals' /\ approval \in approvals' /\ round'[r] = round[e]
      BY <1>1, <1>3, <2>1
    <3> QED BY <1>2, <1>3, <1>5, <2>1, <3>1, <3>2, <3>3
  <2>2. CASE r # e
    <3>1. incident[r] \in {"RESOLVED_ACKNOWLEDGED", "RESOLVED_REMEDIATED"}
            /\ incident'[r] = incident[r]
      BY <1>6, <2>2
    <3>2. PICK p, c \in approvals :
            /\ p.incident = r /\ p.role = "MAKER" /\ p.round = round[r]
            /\ c.incident = r /\ c.role = "CHECKER" /\ c.round = round[r]
            /\ p.actor # c.actor /\ c.decision = "APPROVE"
            /\ incident[r] = Resolution(p)
            /\ \A x \in approvals : (x.incident = r /\ x.role = "CHECKER"
                                    /\ x.round # round[r])
                                      => x.decision = "REJECT"
      BY <3>1 DEF CInv, ResolutionIsAttested
    <3> QED BY <1>1, <1>5, <2>2, <3>1, <3>2
  <2> QED BY <2>1, <2>2
<1> QED BY <1>8, <1>9, <1>10, <1>11, <1>12 DEF CInv

\* The catalogue changes whom to trust and nothing that has been recorded.
LEMMA AuthorityPreserves ==
  ASSUME CInv, UNCHANGED <<stream, incident, review>>,
         draft' \in BOOLEAN, holder' \in [Channel -> Institution \cup {Unassigned}],
         keyState' \in [Key -> {"UNREGISTERED", "ACTIVE", "ENDED"}]
  PROVE  CInv'
<1> USE DEF CInv, stream, review
<1>1. CallbackTypeOK'
  BY DEF CallbackTypeOK
<1>2. OnePerPlace' /\ StreamIsPrefix'
  BY DEF OnePerPlace, StreamIsPrefix, Buffered, StreamOf
<1>3. FailureIsReported'
  BY DEF FailureIsReported, Blocking, StreamOf
<1>4. OpenIsUnapproved'
  BY DEF OpenIsUnapproved
<1>5. ResolutionIsAttested'
  BY DEF ResolutionIsAttested, Resolution
<1> QED BY <1>1, <1>2, <1>3, <1>4, <1>5

\* Every step preserves the inductive invariant.
LEMMA NextCInv == CInv /\ [CallbackNext]_callbackVars => CInv'
<1> SUFFICES ASSUME CInv, [CallbackNext]_callbackVars PROVE CInv'
  OBVIOUS
<1>1. CASE \E c \in Channel, i \in Institution : AssignRole(c, i)
  <2>1. PICK c \in Channel, i \in Institution : AssignRole(c, i)
    BY <1>1
  <2> QED BY <2>1, AuthorityPreserves DEF AssignRole, CInv, CallbackTypeOK
<1>2. CASE Activate
  BY <1>2, AuthorityPreserves DEF Activate, CInv, CallbackTypeOK
<1>3. CASE \E k \in Key : RegisterKey(k) \/ EndKey(k)
  <2>1. PICK k \in Key : RegisterKey(k) \/ EndKey(k)
    BY <1>3
  <2> QED BY <2>1, AuthorityPreserves DEF RegisterKey, EndKey, CInv, CallbackTypeOK
<1>4. CASE \E e \in Envelope : Receive(e)
  BY <1>4, ReceivePreserves
<1>5. CASE \E e \in Envelope, a \in Actor, d \in {"ACKNOWLEDGE", "REMEDIATE"} :
             Propose(e, a, d)
  BY <1>5, ProposePreserves
<1>6. CASE \E e \in Envelope, a \in Actor, d \in {"APPROVE", "REJECT"} : Decide(e, a, d)
  BY <1>6, DecidePreserves
<1>7. CASE UNCHANGED callbackVars
  BY <1>7, AuthorityPreserves DEF callbackVars, authority, CInv, CallbackTypeOK
<1> QED BY <1>1, <1>2, <1>3, <1>4, <1>5, <1>6, <1>7 DEF CallbackNext

-----------------------------------------------------------------------------
\* The inductive invariant of the callback streams: uniqueness of a place, the
\* position of a stream, and what an open or a resolved incident has seen.
THEOREM CallbackInvariance == CallbackSpec => []CInv
BY InitCInv, NextCInv, PTL DEF CallbackSpec

\* Rows keep their shape: what is applied was received, what is adverse applied.
THEOREM CallbackTypeCorrect == CallbackSpec => []CallbackTypeOK
<1>1. CInv => CallbackTypeOK
  BY DEF CInv
<1> QED BY <1>1, CallbackInvariance, PTL

\* Callbacks apply in stream order and once, whatever the order they arrive in
\* and wherever the drain stops.
THEOREM StreamOrder == CallbackSpec => []StreamIsPrefix
<1>1. CInv => StreamIsPrefix
  BY DEF CInv
<1> QED BY <1>1, CallbackInvariance, PTL

\* Exactly the adverse callbacks and the one a stream stands still at have an
\* incident; in particular no application meets an incident that exists.
THEOREM FailuresAreReported == CallbackSpec => []FailureIsReported
<1>1. CInv => FailureIsReported
  BY DEF CInv
<1> QED BY <1>1, CallbackInvariance, PTL

\* An incident is resolved as its last maker proposed and another person approved.
THEOREM IncidentsAreAttested == CallbackSpec => []ResolutionIsAttested
<1>1. CInv => ResolutionIsAttested
  BY DEF CInv
<1> QED BY <1>1, CallbackInvariance, PTL

\* Only a callback authorized at that moment is ever applied.
THEOREM RevocationIsImmediate == CallbackSpec => AppliedUnderAuthority
<1>1. CInv /\ [CallbackNext]_callbackVars =>
        [\A e \in Envelope : (e \in applied' /\ e \notin applied)
                              => Authorized(e)]_callbackVars
  <2> SUFFICES ASSUME CInv, CallbackNext, NEW r \in Envelope, r \in applied', r \notin applied
               PROVE  Authorized(r)
    OBVIOUS
  <2>1. CASE \E e \in Envelope : Receive(e)
    <3>1. PICK e \in Envelope : Receive(e)
      BY <2>1
    <3>2. CASE Buffer(e)
      BY <3>2 DEF Buffer
    <3>3. CASE Apply(e)
      BY <3>1, <3>3, ApplyPreserves
    <3> QED BY <3>1, <3>2, <3>3 DEF Receive
  <2>2. CASE UNCHANGED stream
    BY <2>2 DEF stream
  <2> QED BY <2>1, <2>2
             DEF CallbackNext, AssignRole, Activate, RegisterKey, EndKey, Propose, Decide
<1> QED BY <1>1, CallbackInvariance, PTL DEF CallbackSpec, AppliedUnderAuthority

\* A stream stopped by a withdrawn authority never moves again, because nothing
\* else can be received at the place it stands at.
THEOREM StopIsFinal == CallbackSpec => BlockedStreamStops
<1>1. CInv /\ [CallbackNext]_callbackVars =>
        [\A e \in Envelope : Blocking(e) =>
           /\ next'[StreamOf(e)] = next[StreamOf(e)]
           /\ e \notin applied']_callbackVars
  <2> SUFFICES ASSUME CInv, CallbackNext, NEW r \in Envelope, Blocking(r)
               PROVE  next'[StreamOf(r)] = next[StreamOf(r)] /\ r \notin applied'
    OBVIOUS
  <2>1. CASE \E e \in Envelope : Receive(e)
    <3>1. PICK e \in Envelope : Receive(e)
      BY <2>1
    <3>2. CASE Buffer(e)
      BY <3>2 DEF Buffer, Blocking
    <3>3. CASE Apply(e)
      <4>1. StreamOf(r) # StreamOf(e)
        BY <3>1, <3>3 DEF Receive, Unused, Apply, Blocking
      <4>2. next'[StreamOf(r)] = next[StreamOf(r)]
        BY <3>3, <4>1, EnvelopeType DEF Apply, CInv, CallbackTypeOK
      <4>3. r # e
        BY <4>1
      <4>4. r \notin applied'
        BY <3>3, <4>1, <4>3 DEF Apply, Buffered, Blocking
      <4> QED BY <4>2, <4>4
    <3> QED BY <3>1, <3>2, <3>3 DEF Receive
  <2>2. CASE UNCHANGED stream
    BY <2>2 DEF stream, Blocking
  <2> QED BY <2>1, <2>2
             DEF CallbackNext, AssignRole, Activate, RegisterKey, EndKey, Propose, Decide
<1> QED BY <1>1, CallbackInvariance, PTL DEF CallbackSpec, BlockedStreamStops

-----------------------------------------------------------------------------
(***************************************************************************)
(* The outbox.                                                             *)
(***************************************************************************)
\* What a worker holds in its batch, publishes or has sent.
InHand(w, e) == e \in worker[w].batch \/ e = worker[w].current \/ <<e, w>> \in flight

\* Whatever is in anybody's hands was released: every predecessor is published. It
\* outlives the claim, since a worker without a lease, or a dead one, has copies out.
Released == \A e \in OutboxEvent, w \in Worker : InHand(w, e) => ~HeldBack(e)

\* An answer is about the current event, and the endpoint has it.
AnswersAreDeliveries ==
  \A w \in Worker : worker[w].acked => worker[w].current \in consumed

\* dead_letter_one_pending_request
OneRequest == \A r, q \in request : r.event = q.event => r = q

OInv ==
  /\ OutboxTypeOK
  /\ NeverOvertaken
  /\ Released
  /\ AnswersAreDeliveries
  /\ PublishedWasDelivered
  /\ FirstDeliveriesInOrder
  /\ OneRequest
  /\ PendingReplayIsDead

Row == [status : {"NONE", "PENDING", "CLAIMED", "PUBLISHED", "FAILED", "DEAD"},
        by : Worker \cup {None}, attempts : 0..MaxAttempts]
Fresh == [NoRow EXCEPT !.status = "PENDING"]

-----------------------------------------------------------------------------
(* Rows.                                                                   *)

\* A step that publishes more, and gives no row a history before its predecessors
\* are published, keeps what depends on the rows.
PublishedStays ==
  \A e \in OutboxEvent : row[e].status = "PUBLISHED" => row'[e].status = "PUBLISHED"
DeadStays == \A r \in request : row'[r.event].status = "DEAD"

\* Published predecessors do not hold an event back any more.
LEMMA ReleasedStays ==
  ASSUME PublishedStays, NEW e \in OutboxEvent, ~HeldBack(e) PROVE ~HeldBack(e)'
BY DEF PublishedStays, HeldBack, Predecessors

\* An event with a history has no unpublished predecessor.
LEMMA HistoryIsReleased ==
  ASSUME NeverOvertaken, NEW e \in OutboxEvent, row[e].status \notin {"NONE", "PENDING"}
  PROVE  ~HeldBack(e)
BY DEF NeverOvertaken, HeldBack, Predecessors, NoRow

\* Rows change in one event: what NeverOvertaken asks of the others is unaffected.
LEMMA RowStep ==
  ASSUME NeverOvertaken, PublishedStays,
         \A e \in OutboxEvent : row'[e] = row[e] \/ row'[e] \in {NoRow, Fresh} \/ ~HeldBack(e)
  PROVE  NeverOvertaken'
<1> SUFFICES ASSUME NEW e \in OutboxEvent, NEW p \in Predecessors(e),
                    row'[p].status # "PUBLISHED"
             PROVE  row'[e] \in {NoRow, Fresh}
  BY DEF NeverOvertaken, Predecessors, Fresh
<1>1. p \in OutboxEvent /\ row[p].status # "PUBLISHED"
  BY DEF Predecessors, PublishedStays
<1>2. HeldBack(e)
  BY <1>1 DEF HeldBack
<1>3. row[e] \in {NoRow, Fresh}
  BY <1>1 DEF NeverOvertaken, Fresh
<1> QED BY <1>2, <1>3

-----------------------------------------------------------------------------
(* The inductive invariant.                                                *)

\* The empty outbox satisfies the inductive invariant.
LEMMA InitOInv == OutboxInit => OInv
<1> SUFFICES ASSUME OutboxInit PROVE OInv
  OBVIOUS
<1>1. NoRow \in Row /\ Resting \in [batch : SUBSET OutboxEvent,
                                    current : OutboxEvent \cup {None}, acked : BOOLEAN]
  BY AttemptsAssumption DEF Row, NoRow, Resting
<1>2. OutboxTypeOK
  BY <1>1 DEF OutboxInit, OutboxTypeOK, Row
<1>3. \A e \in OutboxEvent, w \in Worker : ~InHand(w, e)
  BY NoneAssumption DEF OutboxInit, InHand, Resting
<1>4. NeverOvertaken /\ PublishedWasDelivered /\ FirstDeliveriesInOrder
  BY DEF OutboxInit, NeverOvertaken, PublishedWasDelivered, FirstDeliveriesInOrder, NoRow
<1>5. AnswersAreDeliveries /\ OneRequest /\ PendingReplayIsDead
  BY DEF OutboxInit, AnswersAreDeliveries, OneRequest, PendingReplayIsDead, Resting
<1> QED BY <1>2, <1>3, <1>4, <1>5 DEF OInv, Released

\* A new row of an aggregate waits for what came before.
LEMMA EnqueueStep == ASSUME OInv, NEW e \in OutboxEvent, Enqueue(e) PROVE OInv'
<1> USE DEF OInv
<1>1. /\ row[e].status = "NONE" /\ row' = [row EXCEPT ![e].status = "PENDING"]
      /\ UNCHANGED <<lease, worker, flight, consumed, request>>
  BY DEF Enqueue
<1>2. /\ row'[e] = [row[e] EXCEPT !.status = "PENDING"] /\ row[e] \in Row
      /\ \A o \in OutboxEvent : o # e => row'[o] = row[o]
  BY <1>1 DEF OutboxTypeOK, Row
<1>3. OutboxTypeOK'
  BY <1>1, <1>2 DEF OutboxTypeOK, Row
<1>4. row'[e].status = "PENDING"
  BY <1>2 DEF Row
<1>5. PublishedStays /\ DeadStays
  BY <1>1, <1>2 DEF PublishedStays, DeadStays, PendingReplayIsDead
<1>6. HeldBack(e) => row[e] = NoRow
  BY <1>1 DEF NeverOvertaken, HeldBack, Predecessors, NoRow
<1>7. NeverOvertaken'
  BY <1>2, <1>5, <1>6, RowStep DEF Fresh
<1>8. Released'
  BY <1>1, <1>5, ReleasedStays DEF Released, InHand
<1>9. PublishedWasDelivered' /\ FirstDeliveriesInOrder'
  BY <1>1, <1>2, <1>4 DEF PublishedWasDelivered, FirstDeliveriesInOrder
<1> QED BY <1>1, <1>3, <1>5, <1>7, <1>8, <1>9
           DEF AnswersAreDeliveries, OneRequest, PendingReplayIsDead, DeadStays

\* Steps that leave the rows, the endpoint and the requests alone, and take no event
\* into anybody's hands.
LEMMA LettingGo ==
  ASSUME OInv, OutboxTypeOK', UNCHANGED <<row, consumed, request>>,
         \A w \in Worker : worker'[w].acked => worker[w].acked
                           /\ worker'[w].current = worker[w].current,
         \A e \in OutboxEvent, w \in Worker : InHand(w, e)' => InHand(w, e)
  PROVE  OInv'
<1>1. AnswersAreDeliveries'
  BY DEF OInv, AnswersAreDeliveries
<1>2. Released'
  BY DEF OInv, Released, HeldBack
<1> QED BY <1>1, <1>2
        DEF OInv, NeverOvertaken, PublishedWasDelivered, FirstDeliveriesInOrder, OneRequest,
            PendingReplayIsDead

\* An expired lease, a worker that sends, gives up or dies, and a copy that is lost.
LEMMA LettingGoStep ==
  ASSUME OInv,
         \/ \E e \in OutboxEvent : ExpireLease(e)
         \/ \E w \in Worker : AbandonBatch(w) \/ Crash(w)
         \/ \E e \in OutboxEvent, w \in Worker : StartPublish(w, e) \/ LoseCopy(e, w)
  PROVE  OInv'
<1>1. ASSUME NEW e \in OutboxEvent, ExpireLease(e) PROVE OInv'
  <2>1. OutboxTypeOK'
    BY <1>1 DEF ExpireLease, OInv, OutboxTypeOK
  <2> QED BY <1>1, <2>1, LettingGo DEF ExpireLease, InHand
<1>2. ASSUME NEW w \in Worker, worker' = [worker EXCEPT ![w] = Resting],
             UNCHANGED <<row, lease, flight, consumed, request>>
      PROVE  OInv'
  <2>1. Resting \in [batch : SUBSET OutboxEvent, current : OutboxEvent \cup {None},
                     acked : BOOLEAN]
    BY DEF Resting
  <2>2. OutboxTypeOK'
    BY <1>2, <2>1 DEF OInv, OutboxTypeOK
  <2>3. \A v \in Worker : v # w => worker'[v] = worker[v]
    BY <1>2 DEF OInv, OutboxTypeOK
  <2>4. worker'[w].batch = {} /\ worker'[w].current = None /\ ~worker'[w].acked
    BY <1>2 DEF OInv, OutboxTypeOK, Resting
  <2>5. \A e \in OutboxEvent, v \in Worker : InHand(v, e)' => InHand(v, e)
    BY <1>2, <2>3, <2>4, NoneAssumption DEF InHand
  <2> QED BY <1>2, <2>2, <2>3, <2>4, <2>5, LettingGo
<1>3. ASSUME NEW e \in OutboxEvent, NEW w \in Worker, StartPublish(w, e) PROVE OInv'
  <2>1. /\ e \in worker[w].batch
        /\ worker' = [worker EXCEPT ![w] = [batch |-> worker[w].batch \ {e}, current |-> e,
                                                             acked |-> FALSE]]
        /\ flight' = flight \cup {<<e, w>>}
        /\ UNCHANGED <<row, lease, consumed, request>>
    BY <1>3 DEF StartPublish
  <2>2. OutboxTypeOK'
    BY <2>1 DEF OInv, OutboxTypeOK
  <2>3. \A v \in Worker : v # w => worker'[v] = worker[v]
    BY <2>1 DEF OInv, OutboxTypeOK
  <2>4. /\ worker'[w].batch = worker[w].batch \ {e} /\ worker'[w].current = e
        /\ ~worker'[w].acked
    BY <2>1 DEF OInv, OutboxTypeOK
  <2>5. \A o \in OutboxEvent, v \in Worker : InHand(v, o)' => InHand(v, o)
    BY <2>1, <2>3, <2>4 DEF InHand
  <2> QED BY <2>1, <2>2, <2>3, <2>4, <2>5, LettingGo
<1>4. ASSUME NEW e \in OutboxEvent, NEW w \in Worker, LoseCopy(e, w) PROVE OInv'
  <2>1. OutboxTypeOK'
    BY <1>4 DEF LoseCopy, OInv, OutboxTypeOK
  <2> QED BY <1>4, <2>1, LettingGo DEF LoseCopy, InHand
<1> QED BY <1>1, <1>2, <1>3, <1>4 DEF AbandonBatch, Crash

\* Only what no predecessor holds back is claimed, and no dead or published row is.
LEMMA ClaimStep ==
  ASSUME OInv, NEW w \in Worker, NEW S \in SUBSET OutboxEvent, Claim(w, S) PROVE OInv'
<1> USE DEF OInv
<1> DEFINE claimed(e) == [status |-> "CLAIMED", by |-> w,
                          attempts |-> NextAttempt(row[e].attempts)]
<1>1. /\ \A e \in S : Claimable(e)
      /\ row' = [e \in OutboxEvent |-> IF e \in S THEN claimed(e) ELSE row[e]]
      /\ lease' = lease \cup S /\ worker' = [worker EXCEPT ![w].batch = S]
      /\ UNCHANGED <<flight, consumed, request>>
  BY DEF Claim
<1>2. \A e \in OutboxEvent : row[e] \in Row
  BY DEF OutboxTypeOK, Row
<1>3. \A e \in OutboxEvent : claimed(e) \in Row
  BY <1>2, AttemptsAssumption DEF Row, NextAttempt
<1>4. \A e \in OutboxEvent : claimed(e).status = "CLAIMED"
  OBVIOUS
<1>5. \A e \in S : /\ ~HeldBack(e) /\ row[e].status \notin {"DEAD", "PUBLISHED"}
  BY <1>1 DEF Claimable
<1> HIDE DEF claimed
<1>6. OutboxTypeOK'
  BY <1>1, <1>2, <1>3 DEF OutboxTypeOK, Row
<1>7. PublishedStays /\ DeadStays
  BY <1>1, <1>5 DEF PublishedStays, DeadStays, PendingReplayIsDead, OutboxTypeOK
<1>8. NeverOvertaken'
  BY <1>1, <1>5, <1>7, RowStep
<1>9. Released'
  <2>1. \A v \in Worker : worker'[v].current = worker[v].current
                          /\ worker'[v].batch \subseteq worker[v].batch \cup S
    BY <1>1 DEF OutboxTypeOK
  <2>2. \A e \in OutboxEvent, v \in Worker : InHand(v, e)' => InHand(v, e) \/ e \in S
    BY <1>1, <2>1 DEF InHand
  <2>3. \A e \in OutboxEvent, v \in Worker : InHand(v, e)' => ~HeldBack(e)
    BY <1>5, <2>2 DEF Released
  <2> QED BY <1>7, <2>3, ReleasedStays DEF Released
<1>10. PublishedWasDelivered'
  BY <1>1, <1>4 DEF PublishedWasDelivered
<1>11. AnswersAreDeliveries'
  <2>1. \A v \in Worker : worker'[v].current = worker[v].current
                          /\ worker'[v].acked = worker[v].acked
    BY <1>1 DEF OutboxTypeOK
  <2> QED BY <1>1, <2>1 DEF AnswersAreDeliveries
<1> QED BY <1>1, <1>6, <1>7, <1>8, <1>9, <1>10, <1>11
        DEF FirstDeliveriesInOrder, OneRequest, PendingReplayIsDead, DeadStays

\* The owner of a claim settles it: its row alone changes, and it had a history.
LEMMA SettleStep ==
  ASSUME OInv, NEW w \in Worker, NEW status \in {"PUBLISHED", "FAILED", "DEAD"},
         HoldsClaim(w), Settle(w, status), status = "PUBLISHED" => Answered(w)
  PROVE  OInv'
<1> USE DEF OInv
<1> DEFINE e == worker[w].current
<1>1. /\ e # None /\ row[e].status = "CLAIMED"
      /\ row' = [row EXCEPT ![e] = [[row[e] EXCEPT !.status = status] EXCEPT !.by = None]]
      /\ lease' = lease \ {e}
      /\ worker' = [worker EXCEPT ![w] = [[worker[w] EXCEPT !.current = None] EXCEPT !.acked = FALSE]]
      /\ UNCHANGED <<flight, consumed, request>>
  BY DEF HoldsClaim, Settle, OutboxTypeOK
<1>2. worker[w] \in [batch : SUBSET OutboxEvent, current : OutboxEvent \cup {None},
                     acked : BOOLEAN]
  BY DEF OutboxTypeOK
<1>3. e \in OutboxEvent
  BY <1>1, <1>2
<1>4. status = "PUBLISHED" => e \in consumed
  BY DEF Answered, AnswersAreDeliveries
<1>5. /\ worker'[w].batch = worker[w].batch /\ worker'[w].current = None /\ ~worker'[w].acked
      /\ worker'[w] \in [batch : SUBSET OutboxEvent, current : OutboxEvent \cup {None},
                         acked : BOOLEAN]
      /\ \A v \in Worker : v # w => worker'[v] = worker[v]
  BY <1>1, <1>2 DEF OutboxTypeOK
<1> HIDE DEF e
<1>6. row[e] \in Row /\ \A o \in OutboxEvent : o # e => row'[o] = row[o]
  BY <1>1, <1>3 DEF OutboxTypeOK, Row
<1>7. row'[e] = [[row[e] EXCEPT !.status = status] EXCEPT !.by = None]
  BY <1>1, <1>3 DEF OutboxTypeOK
<1>8. row'[e] \in Row /\ row'[e].status = status
  BY <1>6, <1>7 DEF Row
<1>9. OutboxTypeOK'
  <2>1. row' \in [OutboxEvent -> Row]
    BY <1>1, <1>6, <1>8 DEF OutboxTypeOK, Row
  <2>2. worker' \in [Worker -> [batch : SUBSET OutboxEvent,
                                current : OutboxEvent \cup {None}, acked : BOOLEAN]]
    BY <1>1, <1>5 DEF OutboxTypeOK
  <2> QED BY <1>1, <2>1, <2>2 DEF OutboxTypeOK, Row
<1>10. PublishedStays /\ DeadStays
  BY <1>1, <1>6 DEF PublishedStays, DeadStays, PendingReplayIsDead, OutboxTypeOK
<1>11. ~HeldBack(e)
  BY <1>1, <1>3, HistoryIsReleased
<1>12. NeverOvertaken'
  BY <1>6, <1>10, <1>11, RowStep
<1>13. Released'
  <2>1. \A o \in OutboxEvent, v \in Worker : InHand(v, o)' => InHand(v, o)
    BY <1>1, <1>5, NoneAssumption DEF InHand
  <2> QED BY <1>10, <2>1, ReleasedStays DEF Released
<1>14. PublishedWasDelivered'
  BY <1>1, <1>4, <1>6, <1>8 DEF PublishedWasDelivered
<1>15. AnswersAreDeliveries'
  BY <1>1, <1>5 DEF AnswersAreDeliveries
<1> QED BY <1>1, <1>9, <1>10, <1>12, <1>13, <1>14, <1>15
        DEF FirstDeliveriesInOrder, OneRequest, PendingReplayIsDead, DeadStays

\* A copy that arrives was in somebody's hands: what comes before it has arrived.
LEMMA DeliverStep ==
  ASSUME OInv, NEW e \in OutboxEvent, NEW w \in Worker, Deliver(e, w) PROVE OInv'
<1> USE DEF OInv
<1>1. /\ <<e, w>> \in flight /\ flight' = flight \ {<<e, w>>} /\ consumed' = consumed \cup {e}
      /\ worker' = [worker EXCEPT ![w] =
                      [worker[w] EXCEPT !.acked = (worker[w].acked \/ worker[w].current = e)]]
      /\ UNCHANGED <<row, lease, request>>
  BY DEF Deliver, OutboxTypeOK
<1>2. worker[w] \in [batch : SUBSET OutboxEvent, current : OutboxEvent \cup {None},
                     acked : BOOLEAN]
  BY DEF OutboxTypeOK
<1>3. /\ worker'[w].batch = worker[w].batch /\ worker'[w].current = worker[w].current
      /\ worker'[w].acked = (worker[w].acked \/ worker[w].current = e)
      /\ worker'[w] \in [batch : SUBSET OutboxEvent, current : OutboxEvent \cup {None},
                         acked : BOOLEAN]
      /\ \A v \in Worker : v # w => worker'[v] = worker[v]
  BY <1>1, <1>2 DEF OutboxTypeOK
<1>4. OutboxTypeOK'
  <2>1. worker' \in [Worker -> [batch : SUBSET OutboxEvent,
                                current : OutboxEvent \cup {None}, acked : BOOLEAN]]
    BY <1>1, <1>3 DEF OutboxTypeOK
  <2> QED BY <1>1, <2>1 DEF OutboxTypeOK
<1>5. Released'
  <2>1. \A o \in OutboxEvent, v \in Worker : InHand(v, o)' => InHand(v, o)
    BY <1>1, <1>3 DEF InHand
  <2> QED BY <1>1, <2>1 DEF Released, HeldBack
<1>6. AnswersAreDeliveries'
  BY <1>1, <1>3 DEF AnswersAreDeliveries
<1>7. FirstDeliveriesInOrder'
  <2>1. ~HeldBack(e)
    BY <1>1 DEF Released, InHand
  <2>2. Predecessors(e) \subseteq consumed
    BY <2>1 DEF HeldBack, PublishedWasDelivered, Predecessors
  <2> QED BY <1>1, <2>2 DEF FirstDeliveriesInOrder
<1> QED BY <1>1, <1>4, <1>5, <1>6, <1>7
        DEF NeverOvertaken, PublishedWasDelivered, OneRequest, PendingReplayIsDead

\* Requests come and go about rows that stay dead.
LEMMA RequestStep ==
  ASSUME OInv, UNCHANGED <<row, lease, worker, flight, consumed>>, OutboxTypeOK',
         OneRequest', PendingReplayIsDead'
  PROVE  OInv'
BY DEF OInv, NeverOvertaken, Released, InHand, HeldBack, AnswersAreDeliveries,
       PublishedWasDelivered, FirstDeliveriesInOrder

\* The only way out of DEAD; no other request is about the event.
LEMMA ApproveStep ==
  ASSUME OInv, NEW r \in request, NEW c \in Operator, ApproveReplay(r, c) PROVE OInv'
<1> USE DEF OInv
<1> DEFINE e == r.event
<1>1. e \in OutboxEvent
  BY DEF OutboxTypeOK
<1>2. /\ row[e].status = "DEAD" /\ row' = [row EXCEPT ![e] = Replayed]
      /\ request' = request \ {r} /\ UNCHANGED <<lease, worker, flight, consumed>>
  BY DEF ApproveReplay
<1>3. \A q \in request' : q \in request /\ q.event # e
  BY <1>2 DEF OneRequest
<1> HIDE DEF e
<1>4. Replayed = Fresh /\ Replayed \in Row /\ Replayed.status = "PENDING"
  BY AttemptsAssumption DEF Replayed, Fresh, Row, NoRow
<1>5. row'[e] = Replayed /\ \A o \in OutboxEvent : o # e => row'[o] = row[o]
  BY <1>1, <1>2 DEF OutboxTypeOK
<1>6. OutboxTypeOK'
  BY <1>2, <1>4 DEF OutboxTypeOK, Row
<1>7. PublishedStays
  BY <1>2, <1>5 DEF PublishedStays
<1>8. NeverOvertaken'
  BY <1>4, <1>5, <1>7, RowStep
<1>9. Released'
  BY <1>2, <1>7, ReleasedStays DEF Released, InHand
<1>10. PublishedWasDelivered'
  BY <1>2, <1>4, <1>5 DEF PublishedWasDelivered
<1>11. PendingReplayIsDead' /\ OneRequest'
  <2>1. \A q \in request' : q.event \in OutboxEvent
    BY <1>3 DEF OutboxTypeOK
  <2> QED BY <1>3, <1>5, <2>1 DEF PendingReplayIsDead, OneRequest
<1> QED BY <1>2, <1>6, <1>8, <1>9, <1>10, <1>11
           DEF AnswersAreDeliveries, FirstDeliveriesInOrder

\* The three steps of a replay.
LEMMA ReplayStep == ASSUME OInv, Replay PROVE OInv'
<1>1. ASSUME NEW e \in OutboxEvent, NEW m \in Operator, ProposeDeadLetterReplay(e, m)
      PROVE OInv'
  <2>1. [event |-> e, maker |-> m].event = e
    OBVIOUS
  <2>2. OutboxTypeOK'
    BY <1>1 DEF ProposeDeadLetterReplay, OInv, OutboxTypeOK
  <2>3. OneRequest' /\ PendingReplayIsDead'
    BY <1>1, <2>1
       DEF ProposeDeadLetterReplay, RequestFree, OInv, OneRequest, PendingReplayIsDead
  <2> QED BY <1>1, <2>2, <2>3, RequestStep DEF ProposeDeadLetterReplay
<1>2. ASSUME NEW r \in request, NEW c \in Operator, RejectReplay(r, c) PROVE OInv'
  <2>1. OutboxTypeOK' /\ OneRequest' /\ PendingReplayIsDead'
    BY <1>2 DEF RejectReplay, OInv, OutboxTypeOK, OneRequest, PendingReplayIsDead
  <2> QED BY <1>2, <2>1, RequestStep DEF RejectReplay
<1> QED BY <1>1, <1>2, ApproveStep DEF Replay

\* Every step of the outbox preserves the inductive invariant.
LEMMA NextOInv == OInv /\ [OutboxNext]_outboxVars => OInv'
<1> SUFFICES ASSUME OInv, [OutboxNext]_outboxVars PROVE OInv'
  OBVIOUS
<1>1. CASE \E e \in OutboxEvent : Enqueue(e) \/ ExpireLease(e)
  BY <1>1, EnqueueStep, LettingGoStep
<1>2. CASE Dispatch
  <2>1. ASSUME NEW w \in Worker, MarkPublished(w) PROVE OInv'
    BY <2>1, SettleStep DEF MarkPublished
  <2>2. ASSUME NEW w \in Worker, MarkFailed(w) PROVE OInv'
    BY <2>2, SettleStep DEF MarkFailed
  <2> QED BY <1>2, <2>1, <2>2, ClaimStep, LettingGoStep DEF Dispatch
<1>3. CASE Endpoint
  BY <1>3, DeliverStep, LettingGoStep DEF Endpoint
<1>4. CASE Replay
  BY <1>4, ReplayStep
<1>5. CASE UNCHANGED outboxVars
  <2>1. OutboxTypeOK' /\ \A e \in OutboxEvent, w \in Worker : InHand(w, e)' => InHand(w, e)
    BY <1>5 DEF outboxVars, OInv, OutboxTypeOK, InHand
  <2> QED BY <1>5, <2>1, LettingGo DEF outboxVars
<1> QED BY <1>1, <1>2, <1>3, <1>4, <1>5 DEF OutboxNext

-----------------------------------------------------------------------------
(* Theorems.                                                               *)

\* The inductive invariant of rows, hands, endpoint and requests.
THEOREM OutboxInvariance == OutboxSpec => []OInv
BY InitOInv, NextOInv, PTL DEF OutboxSpec

\* Rows, leases, batches and requests keep their shape (migrations 001, 004, 005).
THEOREM OutboxTypeCorrect == OutboxSpec => []OutboxTypeOK
<1>1. OInv => OutboxTypeOK
  BY DEF OInv
<1> QED BY <1>1, OutboxInvariance, PTL

\* The endpoint gets the events of every aggregate for the first time in the order of
\* their numbers (claimOutboxBatch), although late copies may follow in any order.
THEOREM FirstDeliveryOrder == OutboxSpec => []FirstDeliveriesInOrder
<1>1. OInv => FirstDeliveriesInOrder
  BY DEF OInv
<1> QED BY <1>1, OutboxInvariance, PTL

\* No event is marked published before the endpoint has it (dispatchBatch).
THEOREM NothingIsLost == OutboxSpec => []PublishedWasDelivered
<1>1. OInv => PublishedWasDelivered
  BY DEF OInv
<1> QED BY <1>1, OutboxInvariance, PTL

\* No row gets a history before its predecessors are published (markOutboxPublished,
\* markOutboxFailed, claimOutboxBatch).
THEOREM NothingOvertakes == OutboxSpec => []NeverOvertaken
<1>1. OInv => NeverOvertaken
  BY DEF OInv
<1> QED BY <1>1, OutboxInvariance, PTL

\* A pending replay is about a dead event (dead_letter_one_pending_request).
THEOREM ReplaysAreOfTheDead == OutboxSpec => []PendingReplayIsDead
<1>1. OInv => PendingReplayIsDead
  BY DEF OInv
<1> QED BY <1>1, OutboxInvariance, PTL

\* Once published an event is left alone by every worker, sweep and operator: its row
\* never changes again (the claims in the WHERE of every update).
PublishedIsFinal ==
  [][\A e \in OutboxEvent : row[e].status = "PUBLISHED" => row'[e] = row[e]]_outboxVars

\* A worker that lost its claim, or an operator, cannot reopen what is published.
THEOREM PublicationIsFinal == OutboxSpec => PublishedIsFinal
<1> DEFINE Final == \A e \in OutboxEvent : row[e].status = "PUBLISHED" => row'[e] = row[e]
<1>1. OutboxTypeOK /\ PendingReplayIsDead /\ [OutboxNext]_outboxVars => [Final]_outboxVars
  <2> SUFFICES ASSUME OutboxTypeOK, PendingReplayIsDead, OutboxNext,
                      NEW e \in OutboxEvent, row[e].status = "PUBLISHED"
               PROVE  row'[e] = row[e]
    OBVIOUS
  <2>2. ASSUME NEW o \in OutboxEvent, Enqueue(o) PROVE row'[e] = row[e]
    BY <2>2 DEF Enqueue, OutboxTypeOK
  <2>3. ASSUME NEW w \in Worker, NEW S \in SUBSET OutboxEvent, Claim(w, S)
        PROVE row'[e] = row[e]
    BY <2>3 DEF Claim, Claimable
  <2>4. ASSUME NEW w \in Worker, NEW status, HoldsClaim(w), Settle(w, status)
        PROVE row'[e] = row[e]
    BY <2>4 DEF HoldsClaim, Settle, OutboxTypeOK
  <2>5. ASSUME NEW r \in request, NEW c \in Operator, ApproveReplay(r, c)
        PROVE row'[e] = row[e]
    BY <2>5 DEF ApproveReplay, OutboxTypeOK
  <2>6. CASE Dispatch
    BY <2>3, <2>4, <2>6
       DEF Dispatch, MarkPublished, MarkFailed, StartPublish, AbandonBatch, Crash
  <2>7. CASE Replay
    BY <2>5, <2>7 DEF Replay, ProposeDeadLetterReplay, RejectReplay
  <2>8. CASE Endpoint
    BY <2>8 DEF Endpoint, Deliver, LoseCopy
  <2> QED BY <2>2, <2>6, <2>7, <2>8 DEF OutboxNext, ExpireLease
<1>2. OInv => OutboxTypeOK /\ PendingReplayIsDead
  BY DEF OInv
<1> QED BY <1>1, <1>2, OutboxInvariance, PTL DEF OutboxSpec, PublishedIsFinal

-----------------------------------------------------------------------------
(***************************************************************************)
(* The audit log and its checkpoints.                                      *)
(***************************************************************************)
\* A bounded set of naturals has a greatest element, which Max returns.
LEMMA MaxIsGreatest ==
  ASSUME NEW S \in SUBSET Nat, S # {}, NEW b \in Nat, \A x \in S : x <= b
  PROVE  Max(S) \in S /\ \A x \in S : x <= Max(S)
<1>0. \A x \in S : x \in Nat
  OBVIOUS
<1>1. \E x \in S : \A y \in S : x >= y
  BY <1>0, GreatestExists
<1>2. Max(S) \in S /\ \A y \in S : Max(S) >= y
  BY <1>1, Zenon DEF Max
<1>3. Max(S) \in Nat
  BY <1>0, <1>2
<1> HIDE DEF Max
<1> QED BY <1>0, <1>2, <1>3

\* The greatest element is determined by what it is greater than.
LEMMA MaxIsUnique ==
  ASSUME NEW S \in SUBSET Nat, NEW m \in S, \A x \in S : x <= m
  PROVE  Max(S) = m
<1>1. m \in Nat /\ S # {}
  OBVIOUS
<1>2. Max(S) \in S /\ \A x \in S : x <= Max(S)
  BY <1>1, MaxIsGreatest
<1>3. Max(S) \in Nat /\ Max(S) <= m /\ m <= Max(S)
  BY <1>2
<1> HIDE DEF Max
<1> QED BY <1>1, <1>3

-----------------------------------------------------------------------------
(* The inductive invariant.                                                *)

Transaction == [phase : {"IDLE", "OPEN", "SHARED", "LOCKED"}, snapshot : SUBSET AuditEvent,
                rows : SUBSET AuditEvent, todo : Seq(Aggregate)]
Fold == [phase : {"IDLE", "WAITING"}, snapshot : SUBSET AuditEvent, last : Nat]
Folded == [through : Nat, count : Nat, folded : SUBSET Nat]
Recorded == [through : Nat \ {0}, count : Nat \ {0}, prev : Seq(Folded), anchored : BOOLEAN,
             digest : Seq(Folded)]

\* The variables are functions and rows of these shapes.
Shape ==
  /\ events \subseteq AuditEvent
  /\ nextSeq \in Nat \ {0}
  /\ txn \in [Writer -> Transaction]
  /\ shared \subseteq Writer
  /\ aggLock \in [Aggregate -> SUBSET Writer]
  /\ ck \in [Checkpointer -> Fold]
  /\ checkpoints \in Seq(Recorded)

\* Numbers are handed out once and in order.
NumbersAreFresh ==
  /\ \A e \in events : e.seq < nextSeq
  /\ \A w \in Writer : \A r \in txn[w].rows : r.seq < nextSeq

\* A snapshot holds a prefix of every aggregate's committed events.
SnapshotsArePrefixes ==
  \A w \in Writer :
    /\ txn[w].snapshot \subseteq events
    /\ \A s \in txn[w].snapshot, e \in events \ txn[w].snapshot :
         s.agg = e.agg => s.seq < e.seq

\* Who has written holds the tenant lock, and alone the lock of each aggregate written.
LocksAreHeld ==
  \A w \in Writer :
    /\ txn[w].rows # {} => w \in shared
    /\ \A r \in txn[w].rows : aggLock[r.agg] = {w}
    /\ txn[w].phase \in {"SHARED", "LOCKED"} => w \in shared /\ txn[w].todo # << >>
    /\ txn[w].phase = "LOCKED" => aggLock[Head(txn[w].todo)] = {w}

\* What is written and not committed comes after all that is committed.
RowsComeLast ==
  \A w \in Writer : \A r \in txn[w].rows : \A e \in events : e.agg = r.agg => e.seq < r.seq

\* It is chained already as it will be once it is committed.
RowsAreChained ==
  \A w \in Writer : \A r \in txn[w].rows :
    r.prev = LastOf(r.agg, {x \in events \cup txn[w].rows : x.seq < r.seq})

\* What a checkpointer read is in the past; what a checkpoint covers is committed.
BoundariesArePassed ==
  /\ \A k \in Checkpointer : ck[k].snapshot \subseteq events /\ ck[k].last <= Len(checkpoints)
  /\ \A n \in DOMAIN checkpoints :
       /\ checkpoints[n].through < nextSeq
       /\ \A w \in Writer : \A r \in txn[w].rows : checkpoints[n].through < r.seq

AInv ==
  /\ Shape
  /\ NumbersAreFresh
  /\ SnapshotsArePrefixes
  /\ LocksAreHeld
  /\ RowsComeLast
  /\ RowsAreChained
  /\ AuditChainIsLinear
  /\ BoundariesArePassed
  /\ CheckpointsFormOneChain

-----------------------------------------------------------------------------
(* The last event of an aggregate.                                         *)

\* Its number is that of the event of the aggregate which no other follows, or 0.
LEMMA LastOfIsLast ==
  ASSUME NEW S \in SUBSET AuditEvent, NEW a, NEW b \in Nat, \A x \in S : x.seq <= b
  PROVE  /\ LastOf(a, S) \in Nat
         /\ \A x \in S : x.agg = a => x.seq <= LastOf(a, S)
         /\ LastOf(a, S) = 0 \/ \E x \in S : x.agg = a /\ x.seq = LastOf(a, S)
<1> DEFINE T == {x.seq : x \in {y \in S : y.agg = a}} \cup {0}
<1>1. T \in SUBSET Nat /\ T # {}
  BY DEF AuditEvent
<1>2. \A t \in T : t <= b
  OBVIOUS
<1>3. /\ \A x \in S : x.agg = a => x.seq \in T
      /\ \A t \in T : t = 0 \/ \E x \in S : x.agg = a /\ x.seq = t
  OBVIOUS
<1>4. LastOf(a, S) = Max(T)
  BY DEF LastOf
<1> HIDE DEF T
<1>5. Max(T) \in T /\ \A t \in T : t <= Max(T)
  BY <1>1, <1>2, MaxIsGreatest
<1>6. Max(T) \in Nat
  BY <1>1, <1>5
<1> QED BY <1>3, <1>4, <1>5, <1>6

\* A number that no event of the aggregate exceeds, and one of them has, is the last.
LEMMA LastOfIs ==
  ASSUME NEW S \in SUBSET AuditEvent, NEW a, NEW m \in Nat,
         \A x \in S : x.agg = a => x.seq <= m,
         m = 0 \/ \E x \in S : x.agg = a /\ x.seq = m
  PROVE  LastOf(a, S) = m
<1> DEFINE T == {x.seq : x \in {y \in S : y.agg = a}} \cup {0}
<1>1. T \in SUBSET Nat /\ m \in T
  BY DEF AuditEvent
<1>2. \A t \in T : t <= m
  OBVIOUS
<1>3. LastOf(a, S) = Max(T)
  BY DEF LastOf
<1> HIDE DEF T
<1> QED BY <1>1, <1>2, <1>3, MaxIsUnique

\* The events of other aggregates do not count.
LEMMA LastOfIsLocal ==
  ASSUME NEW S, NEW T, NEW a, \A x \in S \cup T : x.agg = a => (x \in S <=> x \in T)
  PROVE  LastOf(a, S) = LastOf(a, T)
<1>1. {x \in S : x.agg = a} = {x \in T : x.agg = a}
  OBVIOUS
<1> QED BY <1>1 DEF LastOf

\* A nonempty bounded set of numbers with a floor has a maximum above it.
LEMMA MaxAbove ==
  ASSUME NEW S \in SUBSET Nat, S # {}, NEW f \in Nat, \A x \in S : f < x,
         NEW b \in Nat, \A x \in S : x < b, f < b
  PROVE  Max(S \cup {f}) \in Nat /\ f < Max(S \cup {f}) /\ Max(S \cup {f}) < b
<1> DEFINE T == S \cup {f}
<1>1. T \in SUBSET Nat /\ T # {} /\ \A x \in T : x < b
  OBVIOUS
<1>2. \A x \in T : x <= b
  BY <1>1
<1> HIDE DEF T
<1>3. Max(T) \in T /\ \A x \in T : x <= Max(T)
  BY <1>1, <1>2, MaxIsGreatest
<1>4. Max(T) \in Nat /\ Max(T) < b
  BY <1>1, <1>3
<1>5. PICK x \in S : x \in T /\ f < x
  BY DEF T
<1>6. x \in Nat /\ x <= Max(T)
  BY <1>3, <1>5
<1> HIDE DEF Max
<1>7. f < Max(T)
  BY <1>4, <1>5, <1>6
<1> QED BY <1>4, <1>7 DEF T

-----------------------------------------------------------------------------
(* The initial state, and the writer's steps.                              *)

\* What the shape says of the fields.
LEMMA FieldTypes ==
  ASSUME Shape
  PROVE  /\ \A e \in events : e.seq \in Nat /\ e.seq > 0 /\ e.agg \in Aggregate
         /\ \A v \in Writer :
              /\ txn[v].snapshot \in SUBSET AuditEvent /\ txn[v].rows \in SUBSET AuditEvent
              /\ \A r \in txn[v].rows : r.seq \in Nat /\ r.seq > 0 /\ r.agg \in Aggregate
              /\ txn[v].todo \in Seq(Aggregate)
              /\ txn[v].todo # << >> =>
                   Head(txn[v].todo) \in Aggregate /\ Tail(txn[v].todo) \in Seq(Aggregate)
         /\ Len(checkpoints) \in Nat /\ DOMAIN checkpoints = 1..Len(checkpoints)
         /\ \A n \in DOMAIN checkpoints : /\ checkpoints[n] \in Recorded
                                          /\ checkpoints[n].through \in Nat
<1>1. \A e \in AuditEvent : e.seq \in Nat /\ e.seq > 0 /\ e.agg \in Aggregate
  BY DEF AuditEvent
<1>2. \A v \in Writer : txn[v] \in Transaction
  BY DEF Shape
<1>3. \A v \in Writer : /\ txn[v].snapshot \in SUBSET AuditEvent
                        /\ txn[v].rows \in SUBSET AuditEvent
                        /\ txn[v].todo \in Seq(Aggregate)
  BY <1>2 DEF Transaction
<1>4. \A todo \in Seq(Aggregate) :
        todo # << >> => Head(todo) \in Aggregate /\ Tail(todo) \in Seq(Aggregate)
  OBVIOUS
<1>5. /\ Len(checkpoints) \in Nat /\ DOMAIN checkpoints = 1..Len(checkpoints)
      /\ \A n \in DOMAIN checkpoints : checkpoints[n] \in Recorded
  BY DEF Shape
<1>6. \A c \in Recorded : c.through \in Nat
  BY DEF Recorded
<1>7. events \subseteq AuditEvent
  BY DEF Shape
<1> QED BY <1>1, <1>3, <1>4, <1>5, <1>6, <1>7

\* A step of w changes the transaction of w.
LEMMA TxnUpdate ==
  ASSUME Shape, NEW w \in Writer, NEW t \in Transaction, txn' = [txn EXCEPT ![w] = t]
  PROVE  /\ txn' \in [Writer -> Transaction]
         /\ txn'[w] = t
         /\ \A v \in Writer \ {w} : txn'[v] = txn[v]
BY DEF Shape

\* A step of w that takes a lock changes its phase.
LEMMA PhaseUpdate ==
  ASSUME Shape, NEW w \in Writer, NEW p \in {"IDLE", "OPEN", "SHARED", "LOCKED"},
         txn' = [txn EXCEPT ![w].phase = p]
  PROVE  /\ txn' \in [Writer -> Transaction]
         /\ \A v \in Writer : /\ txn'[v].rows = txn[v].rows
                              /\ txn'[v].snapshot = txn[v].snapshot
                              /\ txn'[v].todo = txn[v].todo
                              /\ txn'[v].phase = IF v = w THEN p ELSE txn[v].phase
<1> DEFINE t == [txn[w] EXCEPT !.phase = p]
<1>1. txn[w] \in Transaction
  BY DEF Shape
<1>2. /\ t \in Transaction /\ t.phase = p /\ t.rows = txn[w].rows
      /\ t.snapshot = txn[w].snapshot /\ t.todo = txn[w].todo
  BY <1>1 DEF Transaction
<1>3. txn' = [txn EXCEPT ![w] = t]
  OBVIOUS
<1> HIDE DEF t
<1>4. /\ txn' \in [Writer -> Transaction]
      /\ txn'[w] = t
      /\ \A v \in Writer \ {w} : txn'[v] = txn[v]
  BY <1>2, <1>3, TxnUpdate
<1> QED BY <1>2, <1>4

\* No transaction.
LEMMA NoTxnType ==
  /\ NoTxn \in Transaction
  /\ NoTxn.phase = "IDLE" /\ NoTxn.rows = {} /\ NoTxn.snapshot = {} /\ NoTxn.todo = << >>
BY DEF NoTxn, Transaction

\* The empty log satisfies the inductive invariant.
LEMMA InitAInv ==
  ASSUME AuditInit PROVE AInv
<1>1. Shape
  BY DEF AuditInit, Shape, NoTxn, NoCheckpoint, Transaction, Fold
<1>2. \A w \in Writer : txn[w] = NoTxn
  BY DEF AuditInit
<1>3. NumbersAreFresh /\ SnapshotsArePrefixes /\ LocksAreHeld /\ RowsComeLast /\ RowsAreChained
  BY <1>2
     DEF AuditInit, NoTxn, NumbersAreFresh, SnapshotsArePrefixes, LocksAreHeld, RowsComeLast,
              RowsAreChained
<1>4. AuditChainIsLinear /\ CheckpointsFormOneChain
  BY DEF AuditInit, AuditChainIsLinear, CheckpointsFormOneChain
<1>5. BoundariesArePassed
  BY DEF AuditInit, BoundariesArePassed, NoCheckpoint
<1> QED BY <1>1, <1>3, <1>4, <1>5 DEF AInv

\* The chain of checkpoints concerns the checkpoints alone.
LEMMA SameCheckpoints ==
  ASSUME CheckpointsFormOneChain, checkpoints' = checkpoints PROVE CheckpointsFormOneChain'
BY DEF CheckpointsFormOneChain, Digest, Through

\* The chain of an aggregate concerns the committed events alone.
LEMMA SameEvents ==
  ASSUME AuditChainIsLinear, events' = events PROVE AuditChainIsLinear'
BY DEF AuditChainIsLinear, LastOf

\* A transaction begins with the snapshot of what is committed.
LEMMA BeginInv ==
  ASSUME AInv, NEW w \in Writer, NEW plan \in Plan, Begin(w, plan) PROVE AInv'
<1> DEFINE t == [phase |-> "OPEN", snapshot |-> events, rows |-> {}, todo |-> plan]
<1>1. /\ t \in Transaction /\ t.rows = {} /\ t.snapshot = events
      /\ t.phase \notin {"SHARED", "LOCKED"}
  BY PlanAssumption DEF AInv, Shape, Transaction
<1>2. txn' = [txn EXCEPT ![w] = t]
  BY DEF Begin
<1>3. UNCHANGED <<events, nextSeq, shared, aggLock, ck, checkpoints>>
  BY DEF Begin, checkpointVars
<1> HIDE DEF t
<1>4. /\ txn' \in [Writer -> Transaction]
      /\ txn'[w] = t
      /\ \A v \in Writer \ {w} : txn'[v] = txn[v]
  BY <1>1, <1>2, TxnUpdate DEF AInv
<1>5. Shape'
  BY <1>3, <1>4 DEF AInv, Shape
<1>6. NumbersAreFresh' /\ SnapshotsArePrefixes'
  BY <1>1, <1>3, <1>4 DEF AInv, NumbersAreFresh, SnapshotsArePrefixes
<1>7. LocksAreHeld'
  BY <1>1, <1>3, <1>4 DEF AInv, LocksAreHeld
<1>8. RowsComeLast'
  BY <1>1, <1>3, <1>4 DEF AInv, RowsComeLast
<1>9. RowsAreChained'
  BY <1>1, <1>3, <1>4 DEF AInv, RowsAreChained, LastOf
<1>10. BoundariesArePassed'
  BY <1>1, <1>3, <1>4 DEF AInv, BoundariesArePassed
<1> QED BY <1>3, <1>5, <1>6, <1>7, <1>8, <1>9, <1>10, SameCheckpoints, SameEvents DEF AInv

\* The shared lock is granted.
LEMMA LockTenantInv ==
  ASSUME AInv, NEW w \in Writer, LockTenant(w) PROVE AInv'
<1>1. /\ txn' \in [Writer -> Transaction]
      /\ \A v \in Writer : /\ txn'[v].rows = txn[v].rows
                           /\ txn'[v].snapshot = txn[v].snapshot
                           /\ txn'[v].todo = txn[v].todo
                           /\ txn'[v].phase = IF v = w THEN "SHARED" ELSE txn[v].phase
  BY PhaseUpdate DEF AInv, LockTenant
<1>2. /\ UNCHANGED <<events, nextSeq, aggLock, ck, checkpoints>>
      /\ shared' = shared \cup {w} /\ txn[w].todo # << >>
  BY DEF LockTenant, checkpointVars
<1>3. Shape'
  BY <1>1, <1>2 DEF AInv, Shape
<1>4. NumbersAreFresh' /\ SnapshotsArePrefixes'
  BY <1>1, <1>2 DEF AInv, NumbersAreFresh, SnapshotsArePrefixes
<1>5. LocksAreHeld'
  BY <1>1, <1>2 DEF AInv, LocksAreHeld
<1>6. RowsComeLast' /\ BoundariesArePassed'
  BY <1>1, <1>2 DEF AInv, RowsComeLast, BoundariesArePassed
<1>7. RowsAreChained'
  BY <1>1, <1>2 DEF AInv, RowsAreChained, LastOf
<1> QED BY <1>2, <1>3, <1>4, <1>5, <1>6, <1>7, SameCheckpoints, SameEvents DEF AInv

\* The lock of the aggregate is granted.
LEMMA LockAggregateInv ==
  ASSUME AInv, NEW w \in Writer, LockAggregate(w) PROVE AInv'
<1> DEFINE a == Head(txn[w].todo)
<1>0. /\ txn[w].phase = "SHARED" /\ aggLock[a] \subseteq {w}
      /\ aggLock' = [aggLock EXCEPT ![a] = {w}]
      /\ UNCHANGED <<events, nextSeq, shared, ck, checkpoints>>
  BY DEF LockAggregate, checkpointVars
<1>1. w \in shared /\ txn[w].todo # << >>
  BY <1>0 DEF AInv, LocksAreHeld
<1>2. a \in Aggregate
  BY <1>1, FieldTypes DEF AInv
<1>3. /\ txn' \in [Writer -> Transaction]
      /\ \A v \in Writer : /\ txn'[v].rows = txn[v].rows
                           /\ txn'[v].snapshot = txn[v].snapshot
                           /\ txn'[v].todo = txn[v].todo
                           /\ txn'[v].phase = IF v = w THEN "LOCKED" ELSE txn[v].phase
  BY PhaseUpdate DEF AInv, LockAggregate
<1>4. aggLock \in [Aggregate -> SUBSET Writer]
  BY DEF AInv, Shape
<1> HIDE DEF a
<1>5. /\ aggLock' \in [Aggregate -> SUBSET Writer] /\ aggLock'[a] = {w}
      /\ \A b \in Aggregate \ {a} : aggLock'[b] = aggLock[b]
  BY <1>0, <1>2, <1>4
<1>6. \A b \in Aggregate, v \in Writer : aggLock[b] = {v} => aggLock'[b] = {v}
  BY <1>0, <1>5
<1>7. Shape'
  BY <1>0, <1>3, <1>5 DEF AInv, Shape
<1>8. NumbersAreFresh' /\ SnapshotsArePrefixes'
  BY <1>0, <1>3 DEF AInv, NumbersAreFresh, SnapshotsArePrefixes
<1>9. LocksAreHeld'
  <2> SUFFICES ASSUME NEW v \in Writer
               PROVE  /\ txn[v].rows # {} => v \in shared
                      /\ \A r \in txn[v].rows : aggLock'[r.agg] = {v}
                      /\ txn'[v].phase \in {"SHARED", "LOCKED"} =>
                           v \in shared /\ txn[v].todo # << >>
                      /\ txn'[v].phase = "LOCKED" => aggLock'[Head(txn[v].todo)] = {v}
    BY <1>0, <1>3 DEF LocksAreHeld
  <2>1. \A r \in txn[v].rows : aggLock'[r.agg] = {v}
    <3>1. \A r \in txn[v].rows : r.agg \in Aggregate /\ aggLock[r.agg] = {v}
      BY FieldTypes DEF AInv, LocksAreHeld
    <3> QED BY <1>6, <3>1
  <2>2. (txn[v].rows # {} => v \in shared)
        /\ (txn'[v].phase \in {"SHARED", "LOCKED"} => v \in shared /\ txn[v].todo # << >>)
    BY <1>1, <1>3 DEF AInv, LocksAreHeld
  <2>3. CASE v = w
    BY <1>5, <2>1, <2>2, <2>3 DEF a
  <2>4. CASE v # w
    <3>1. txn'[v].phase = "LOCKED" =>
            Head(txn[v].todo) \in Aggregate /\ aggLock[Head(txn[v].todo)] = {v}
      BY <1>3, <2>4, FieldTypes DEF AInv, LocksAreHeld
    <3> QED BY <1>6, <2>1, <2>2, <3>1
  <2> QED BY <2>3, <2>4
<1>10. RowsComeLast' /\ BoundariesArePassed'
  BY <1>0, <1>3 DEF AInv, RowsComeLast, BoundariesArePassed
<1>11. RowsAreChained'
  BY <1>0, <1>3 DEF AInv, RowsAreChained, LastOf
<1> QED BY <1>0, <1>7, <1>8, <1>9, <1>10, <1>11, SameCheckpoints, SameEvents DEF AInv

\* Abort and InsertRejected: the rows are gone, a number may be lost, the locks free.
LEMMA RollBackInv ==
  ASSUME AInv, NEW w \in Writer, nextSeq' \in {nextSeq, nextSeq + 1},
         txn' = [txn EXCEPT ![w] = NoTxn], shared' = shared \ {w}, aggLock' = Unlocked(w),
         UNCHANGED <<events, ck, checkpoints>>
  PROVE  AInv'
<1>1. /\ txn' \in [Writer -> Transaction]
      /\ txn'[w] = NoTxn
      /\ \A v \in Writer \ {w} : txn'[v] = txn[v]
  BY NoTxnType, TxnUpdate DEF AInv
<1>2. aggLock' \in [Aggregate -> SUBSET Writer]
  BY DEF AInv, Shape, Unlocked
<1>3. \A b \in Aggregate, v \in Writer \ {w} : aggLock[b] = {v} => aggLock'[b] = {v}
  BY DEF Unlocked
<1>4. nextSeq \in Nat /\ nextSeq' \in Nat \ {0} /\ nextSeq <= nextSeq'
  BY DEF AInv, Shape
<1>5. Shape'
  BY <1>1, <1>2, <1>4 DEF AInv, Shape
<1>6. NumbersAreFresh'
  <2>1. \A e \in events : e.seq \in Nat /\ e.seq < nextSeq
    BY FieldTypes DEF AInv, NumbersAreFresh
  <2>2. \A v \in Writer : \A r \in txn[v].rows : r.seq \in Nat /\ r.seq < nextSeq
    BY FieldTypes DEF AInv, NumbersAreFresh
  <2> QED BY <1>1, <1>4, <2>1, <2>2, NoTxnType DEF NumbersAreFresh
<1>7. SnapshotsArePrefixes' /\ RowsComeLast'
  BY <1>1, NoTxnType DEF AInv, SnapshotsArePrefixes, RowsComeLast
<1>8. LocksAreHeld'
  <2> SUFFICES ASSUME NEW v \in Writer
               PROVE  /\ txn'[v].rows # {} => v \in shared'
                      /\ \A r \in txn'[v].rows : aggLock'[r.agg] = {v}
                      /\ txn'[v].phase \in {"SHARED", "LOCKED"} =>
                           v \in shared' /\ txn'[v].todo # << >>
                      /\ txn'[v].phase = "LOCKED" => aggLock'[Head(txn'[v].todo)] = {v}
    BY DEF LocksAreHeld
  <2>1. CASE v = w
    BY <1>1, <2>1, NoTxnType
  <2>2. CASE v # w
    <3>1. \A r \in txn[v].rows : r.agg \in Aggregate /\ aggLock[r.agg] = {v}
      BY FieldTypes DEF AInv, LocksAreHeld
    <3>2. txn[v].phase = "LOCKED" =>
            Head(txn[v].todo) \in Aggregate /\ aggLock[Head(txn[v].todo)] = {v}
      BY FieldTypes DEF AInv, LocksAreHeld
    <3>3. (txn[v].rows # {} => v \in shared')
          /\ (txn[v].phase \in {"SHARED", "LOCKED"} => v \in shared' /\ txn[v].todo # << >>)
      BY <2>2 DEF AInv, LocksAreHeld
    <3>4. v \in Writer \ {w} /\ txn'[v] = txn[v]
      BY <1>1, <2>2
    <3>5. \A r \in txn[v].rows : aggLock'[r.agg] = {v}
      BY <1>3, <3>1, <3>4
    <3>6. txn[v].phase = "LOCKED" => aggLock'[Head(txn[v].todo)] = {v}
      BY <1>3, <3>2, <3>4
    <3> QED BY <3>3, <3>4, <3>5, <3>6
  <2> QED BY <2>1, <2>2
<1>9. RowsAreChained'
  BY <1>1, NoTxnType DEF AInv, RowsAreChained, LastOf
<1>10. BoundariesArePassed'
  <2>1. \A n \in DOMAIN checkpoints : checkpoints[n].through \in Nat
    BY FieldTypes DEF AInv
  <2> QED BY <1>1, <1>4, <2>1, NoTxnType DEF AInv, BoundariesArePassed
<1> QED BY <1>5, <1>6, <1>7, <1>8, <1>9, <1>10, SameCheckpoints, SameEvents DEF AInv

-----------------------------------------------------------------------------
(* The insert: the unique index rejects exactly the stale predecessors.    *)

\* If the snapshot missed an event of the aggregate, the first that it missed follows
\* the predecessor that the snapshot shows.
LEMMA StaleIsRejected ==
  ASSUME AInv, NEW w \in Writer, NEW a \in Aggregate,
         \A r \in txn[w].rows : r.agg # a,
         SuccessorFree(a, LastOf(a, txn[w].snapshot \cup txn[w].rows))
  PROVE  \A e \in events : e.agg = a => e \in txn[w].snapshot
<1> DEFINE Missed == {e \in events : e.agg = a /\ e \notin txn[w].snapshot}
           N == {e.seq : e \in Missed}
<1>1. SUFFICES ASSUME Missed # {} PROVE FALSE
  OBVIOUS
<1>2. N \in SUBSET Nat /\ N # {}
  BY <1>1, FieldTypes DEF AInv
<1>3. PICK n \in N : \A m \in N : n <= m
  <2> HIDE DEF N
  <2> QED BY <1>2, LeastExists
<1>4. PICK x \in Missed : x.seq = n
  OBVIOUS
<1>5. x \in events /\ x.agg = a /\ x \notin txn[w].snapshot /\ x.seq \in Nat
  BY <1>4, FieldTypes DEF AInv
<1>6. \A y \in events : y.agg = a => (y.seq < x.seq <=> y \in txn[w].snapshot)
  <2> SUFFICES ASSUME NEW y \in events, y.agg = a
               PROVE  y.seq < x.seq <=> y \in txn[w].snapshot
    OBVIOUS
  <2>1. y.seq \in Nat
    BY FieldTypes DEF AInv
  <2>2. y \in txn[w].snapshot => y.seq < x.seq
    BY <1>5 DEF AInv, SnapshotsArePrefixes
  <2>3. y \notin txn[w].snapshot => x.seq <= y.seq
    BY <1>3, <1>4
  <2> QED BY <1>5, <2>1, <2>2, <2>3
<1>7. txn[w].snapshot \subseteq events
  BY DEF AInv, SnapshotsArePrefixes
<1>8. LastOf(a, {y \in events : y.seq < x.seq}) = LastOf(a, txn[w].snapshot \cup txn[w].rows)
  BY <1>6, <1>7, LastOfIsLocal
<1>9. x.prev = LastOf(a, txn[w].snapshot \cup txn[w].rows)
  BY <1>5, <1>8 DEF AInv, AuditChainIsLinear
<1> QED BY <1>5, <1>9 DEF SuccessorFree

\* What the insert takes for the predecessor is the last event of the aggregate.
LEMMA PredecessorIsLast ==
  ASSUME AInv, NEW w \in Writer, NEW a \in Aggregate,
         SuccessorFree(a, LastOf(a, txn[w].snapshot \cup txn[w].rows))
  PROVE  LastOf(a, txn[w].snapshot \cup txn[w].rows) = LastOf(a, events \cup txn[w].rows)
<1> DEFINE S == txn[w].snapshot \cup txn[w].rows
           T == events \cup txn[w].rows
           m == LastOf(a, S)
<1>1. txn[w].snapshot \subseteq events
  BY DEF AInv, SnapshotsArePrefixes
<1>2. CASE \A r \in txn[w].rows : r.agg # a
  <2>1. \A e \in events : e.agg = a => e \in txn[w].snapshot
    BY <1>2, StaleIsRejected
  <2> QED BY <1>1, <2>1, LastOfIsLocal
<1>3. CASE \E r \in txn[w].rows : r.agg = a
  <2>1. S \in SUBSET AuditEvent /\ T \in SUBSET AuditEvent
    BY FieldTypes DEF AInv, Shape
  <2>2. nextSeq \in Nat
    BY DEF AInv, Shape
  <2>3. \A x \in T : x.seq \in Nat /\ x.seq <= nextSeq
    BY <2>2, FieldTypes DEF AInv, NumbersAreFresh
  <2>4. S \subseteq T
    BY <1>1
  <2>5. /\ m \in Nat
        /\ \A x \in S : x.agg = a => x.seq <= m
        /\ m = 0 \/ \E x \in S : x.agg = a /\ x.seq = m
    <3> HIDE DEF S
    <3> QED BY <2>1, <2>2, <2>3, <2>4, LastOfIsLast
  <2>6. PICK r \in txn[w].rows : r.agg = a
    BY <1>3
  <2>7. r.seq \in Nat /\ r.seq <= m /\ \A e \in events : e.agg = a => e.seq < r.seq
    BY <2>3, <2>5, <2>6 DEF AInv, RowsComeLast
  <2>8. \A x \in events : x.agg = a => x.seq <= m
    <3> HIDE DEF m, S
    <3> QED BY <2>3, <2>5, <2>7
  <2>9. \A x \in T : x.agg = a => x.seq <= m
    BY <2>5, <2>8
  <2>10. m = 0 \/ \E x \in T : x.agg = a /\ x.seq = m
    BY <2>4, <2>5
  <2> HIDE DEF S, T, m
  <2>11. LastOf(a, T) = m
    BY <2>1, <2>5, <2>9, <2>10, LastOfIs
  <2> QED BY <2>11 DEF S, T, m
<1> QED BY <1>2, <1>3

\* An event is inserted behind the last one its transaction sees.
LEMMA InsertInv ==
  ASSUME AInv, NEW w \in Writer, Insert(w) PROVE AInv'
<1> DEFINE a == Head(txn[w].todo)
           prev == LastOf(a, txn[w].snapshot \cup txn[w].rows)
           r == [seq |-> nextSeq, agg |-> a, prev |-> prev]
           t == [txn[w] EXCEPT !.rows = @ \cup {r}, !.todo = Tail(@), !.phase = "OPEN"]
<1>1. /\ txn[w].phase = "LOCKED" /\ SuccessorFree(a, prev) /\ nextSeq' = nextSeq + 1
      /\ txn' = [txn EXCEPT ![w] = t]
      /\ UNCHANGED <<events, shared, aggLock, ck, checkpoints>>
  BY DEF Insert, checkpointVars
<1>2. w \in shared /\ txn[w].todo # << >> /\ aggLock[a] = {w}
  BY <1>1 DEF AInv, LocksAreHeld
<1>3. a \in Aggregate /\ Tail(txn[w].todo) \in Seq(Aggregate)
  BY <1>2, FieldTypes DEF AInv
<1>4. nextSeq \in Nat \ {0}
  BY DEF AInv, Shape
<1>5. prev = LastOf(a, events \cup txn[w].rows) /\ prev \in Nat
  <2> HIDE DEF a
  <2>1. prev = LastOf(a, events \cup txn[w].rows)
    BY <1>1, <1>3, PredecessorIsLast
  <2>2. events \cup txn[w].rows \in SUBSET AuditEvent
    BY FieldTypes DEF AInv, Shape
  <2>3. \A x \in events \cup txn[w].rows : x.seq <= nextSeq
    BY <1>4, FieldTypes DEF AInv, NumbersAreFresh
  <2>4. LastOf(a, events \cup txn[w].rows) \in Nat
    BY <1>4, <2>2, <2>3, LastOfIsLast
  <2> QED BY <2>1, <2>4
<1> HIDE DEF prev, a
<1>6. r \in AuditEvent /\ r.seq = nextSeq /\ r.agg = a /\ r.prev = prev
  BY <1>3, <1>4, <1>5 DEF AuditEvent
<1> HIDE DEF r
<1>7. txn[w] \in Transaction
  BY DEF AInv, Shape
<1>8. /\ t \in Transaction /\ t.rows = txn[w].rows \cup {r} /\ t.snapshot = txn[w].snapshot
      /\ t.phase = "OPEN"
  BY <1>3, <1>6, <1>7 DEF Transaction, a
<1> HIDE DEF t
<1>9. /\ txn' \in [Writer -> Transaction]
      /\ txn'[w] = t
      /\ \A v \in Writer \ {w} : txn'[v] = txn[v]
  BY <1>1, <1>8, TxnUpdate DEF AInv
<1>10. Shape'
  BY <1>1, <1>4, <1>9 DEF AInv, Shape
<1>11. \A x \in events : x.seq \in Nat /\ x.seq < nextSeq
  BY FieldTypes DEF AInv, NumbersAreFresh
<1>12. \A v \in Writer : \A x \in txn[v].rows : x.seq \in Nat /\ x.seq < nextSeq
  BY FieldTypes DEF AInv, NumbersAreFresh
<1>13. NumbersAreFresh'
  BY <1>1, <1>4, <1>6, <1>8, <1>9, <1>11, <1>12 DEF NumbersAreFresh
<1>14. SnapshotsArePrefixes'
  BY <1>1, <1>8, <1>9 DEF AInv, SnapshotsArePrefixes
<1>15. LocksAreHeld'
  BY <1>1, <1>2, <1>6, <1>8, <1>9 DEF AInv, LocksAreHeld
<1>16. RowsComeLast'
  BY <1>1, <1>6, <1>8, <1>9, <1>11 DEF AInv, RowsComeLast
<1>17. RowsAreChained'
  <2> SUFFICES ASSUME NEW v \in Writer, NEW x \in txn'[v].rows
               PROVE  x.prev = LastOf(x.agg, {y \in events \cup txn'[v].rows : y.seq < x.seq})
    BY <1>1 DEF RowsAreChained, LastOf
  <2>1. CASE v # w
    <3>1. txn'[v] = txn[v] /\ x \in txn[v].rows
      BY <1>9, <2>1
    <3> QED BY <3>1 DEF AInv, RowsAreChained
  <2>2. CASE v = w /\ x \in txn[w].rows
    <3>1. {y \in events \cup txn'[w].rows : y.seq < x.seq}
            = {y \in events \cup txn[w].rows : y.seq < x.seq}
      <4>1. x.seq \in Nat /\ ~(r.seq < x.seq)
        BY <1>4, <1>6, <1>12, <2>2
      <4> QED BY <1>8, <1>9, <4>1
    <3> QED BY <2>2, <3>1 DEF AInv, RowsAreChained
  <2>3. CASE v = w /\ x = r
    <3>1. {y \in events \cup txn'[w].rows : y.seq < nextSeq} = events \cup txn[w].rows
      <4>1. ~(r.seq < nextSeq)
        BY <1>4, <1>6
      <4> QED BY <1>8, <1>9, <1>11, <1>12, <4>1
    <3> QED BY <1>5, <1>6, <2>3, <3>1
  <2> QED BY <1>8, <1>9, <2>1, <2>2, <2>3
<1>18. BoundariesArePassed'
  <2>1. \A n \in DOMAIN checkpoints : /\ checkpoints[n].through \in Nat
                                      /\ checkpoints[n].through < nextSeq
    BY FieldTypes DEF AInv, BoundariesArePassed
  <2>2. \A n \in DOMAIN checkpoints : checkpoints[n].through < nextSeq + 1
    BY <1>4, <2>1
  <2> QED BY <1>1, <1>6, <1>8, <1>9, <2>1, <2>2 DEF AInv, BoundariesArePassed
<1> QED BY <1>1, <1>10, <1>13, <1>14, <1>15, <1>16, <1>17, <1>18, SameCheckpoints, SameEvents
        DEF AInv

-----------------------------------------------------------------------------
(* The commit.                                                             *)

\* The rows of a transaction become events.
LEMMA CommitInv ==
  ASSUME AInv, NEW w \in Writer, Commit(w) PROVE AInv'
<1> DEFINE R == txn[w].rows
<1>1. /\ events' = events \cup R
      /\ shared' = shared \ {w} /\ aggLock' = Unlocked(w)
      /\ txn' = [txn EXCEPT ![w] = NoTxn]
      /\ UNCHANGED <<nextSeq, ck, checkpoints>>
  BY DEF Commit, checkpointVars
<1>2. /\ txn' \in [Writer -> Transaction]
      /\ txn'[w] = NoTxn
      /\ \A v \in Writer \ {w} : txn'[v] = txn[v]
  BY <1>1, NoTxnType, TxnUpdate DEF AInv
<1>3. aggLock' \in [Aggregate -> SUBSET Writer]
  BY <1>1 DEF AInv, Shape, Unlocked
<1>4. \A b \in Aggregate, v \in Writer \ {w} : aggLock[b] = {v} => aggLock'[b] = {v}
  BY <1>1 DEF Unlocked
<1>5. R \in SUBSET AuditEvent /\ \A r \in R : r.agg \in Aggregate /\ aggLock[r.agg] = {w}
  BY FieldTypes DEF AInv, LocksAreHeld
<1>6. \A r \in R, e \in events : e.agg = r.agg => e.seq < r.seq
  BY DEF AInv, RowsComeLast
<1>7. \A x \in events \cup R : x.seq \in Nat
  BY FieldTypes DEF AInv
<1> HIDE DEF R
<1>8. Shape'
  BY <1>1, <1>2, <1>3, <1>5 DEF AInv, Shape
<1>9. NumbersAreFresh'
  BY <1>1, <1>2, NoTxnType DEF AInv, NumbersAreFresh, R
<1>10. SnapshotsArePrefixes'
  <2> SUFFICES ASSUME NEW v \in Writer
               PROVE  /\ txn'[v].snapshot \subseteq events'
                      /\ \A s \in txn'[v].snapshot, e \in events' \ txn'[v].snapshot :
                           s.agg = e.agg => s.seq < e.seq
    BY DEF SnapshotsArePrefixes
  <2>1. CASE v = w
    BY <1>2, <2>1, NoTxnType
  <2>2. CASE v # w
    <3>1. /\ txn[v].snapshot \subseteq events
          /\ \A s \in txn[v].snapshot, e \in events \ txn[v].snapshot :
               s.agg = e.agg => s.seq < e.seq
      BY DEF AInv, SnapshotsArePrefixes
    <3> QED BY <1>1, <1>2, <1>6, <2>2, <3>1
  <2> QED BY <2>1, <2>2
\* Other writers' rows belong to other aggregates.
<1>11. \A v \in Writer \ {w} : \A x \in txn[v].rows, r \in R : x.agg # r.agg
  <2>1. \A v \in Writer : \A x \in txn[v].rows : aggLock[x.agg] = {v}
    BY DEF AInv, LocksAreHeld
  <2> QED BY <1>5, <2>1
<1>12. LocksAreHeld'
  <2> SUFFICES ASSUME NEW v \in Writer
               PROVE  /\ txn'[v].rows # {} => v \in shared'
                      /\ \A r \in txn'[v].rows : aggLock'[r.agg] = {v}
                      /\ txn'[v].phase \in {"SHARED", "LOCKED"} =>
                           v \in shared' /\ txn'[v].todo # << >>
                      /\ txn'[v].phase = "LOCKED" => aggLock'[Head(txn'[v].todo)] = {v}
    BY DEF LocksAreHeld
  <2>1. CASE v = w
    BY <1>2, <2>1, NoTxnType
  <2>2. CASE v # w
    <3>1. \A r \in txn[v].rows : r.agg \in Aggregate /\ aggLock[r.agg] = {v}
      BY FieldTypes DEF AInv, LocksAreHeld
    <3>2. txn[v].phase = "LOCKED" =>
            Head(txn[v].todo) \in Aggregate /\ aggLock[Head(txn[v].todo)] = {v}
      BY FieldTypes DEF AInv, LocksAreHeld
    <3>3. (txn[v].rows # {} => v \in shared')
          /\ (txn[v].phase \in {"SHARED", "LOCKED"} => v \in shared' /\ txn[v].todo # << >>)
      BY <1>1, <2>2 DEF AInv, LocksAreHeld
    <3>4. v \in Writer \ {w} /\ txn'[v] = txn[v]
      BY <1>2, <2>2
    <3>5. \A r \in txn[v].rows : aggLock'[r.agg] = {v}
      BY <1>4, <3>1, <3>4
    <3>6. txn[v].phase = "LOCKED" => aggLock'[Head(txn[v].todo)] = {v}
      BY <1>4, <3>2, <3>4
    <3> QED BY <3>3, <3>4, <3>5, <3>6
  <2> QED BY <2>1, <2>2
<1>13. RowsComeLast'
  <2>1. \A v \in Writer : \A r \in txn[v].rows : \A e \in events : e.agg = r.agg
                          => e.seq < r.seq
    BY DEF AInv, RowsComeLast
  <2> QED BY <1>1, <1>2, <1>11, <2>1, NoTxnType DEF RowsComeLast
<1>14. RowsAreChained'
  <2> SUFFICES ASSUME NEW v \in Writer, NEW x \in txn'[v].rows
               PROVE  x.prev = LastOf(x.agg, {y \in events' \cup txn'[v].rows : y.seq < x.seq})
    BY DEF RowsAreChained, LastOf
  <2>1. v # w /\ txn'[v] = txn[v] /\ x \in txn[v].rows
    BY <1>2, NoTxnType
  <2> DEFINE S == {y \in events' \cup txn[v].rows : y.seq < x.seq}
             T == {y \in events \cup txn[v].rows : y.seq < x.seq}
  <2>2. \A y \in S \cup T : y.agg = x.agg => (y \in S <=> y \in T)
    BY <1>1, <1>11, <2>1
  <2>3. x.prev = LastOf(x.agg, T)
    BY <2>1 DEF AInv, RowsAreChained
  <2> HIDE DEF S, T
  <2>4. LastOf(x.agg, S) = LastOf(x.agg, T)
    BY <2>2, LastOfIsLocal
  <2> QED BY <2>1, <2>3, <2>4 DEF S
<1>15. AuditChainIsLinear'
  <2> SUFFICES ASSUME NEW e \in events'
               PROVE  e.prev = LastOf(e.agg, {x \in events' : x.seq < e.seq})
    BY DEF AuditChainIsLinear, LastOf
  <2>1. CASE e \in R
    <3>1. e.prev = LastOf(e.agg, {x \in events \cup R : x.seq < e.seq})
      BY <2>1 DEF AInv, RowsAreChained, R
    <3> QED BY <1>1, <3>1
  <2>2. CASE e \in events /\ e \notin R
    <3> DEFINE S == {x \in events' : x.seq < e.seq}
               T == {x \in events : x.seq < e.seq}
    <3>1. \A r \in R : r.agg = e.agg => ~(r.seq < e.seq)
      BY <1>6, <1>7, <2>2
    <3>2. \A x \in S \cup T : x.agg = e.agg => (x \in S <=> x \in T)
      BY <1>1, <3>1
    <3>3. e.prev = LastOf(e.agg, T)
      BY <2>2 DEF AInv, AuditChainIsLinear
    <3> HIDE DEF S, T
    <3>4. LastOf(e.agg, S) = LastOf(e.agg, T)
      BY <3>2, LastOfIsLocal
    <3> QED BY <3>3, <3>4 DEF S
  <2> QED BY <1>1, <2>1, <2>2
<1>16. BoundariesArePassed'
  BY <1>1, <1>2, NoTxnType DEF AInv, BoundariesArePassed
<1> QED BY <1>1, <1>8, <1>9, <1>10, <1>12, <1>13, <1>14, <1>15, <1>16, SameCheckpoints DEF AInv

-----------------------------------------------------------------------------
(* The checkpoints.                                                        *)

\* A step that leaves the writers alone keeps what is said of them alone.
LEMMA SameWriters ==
  ASSUME AInv, UNCHANGED writerVars
  PROVE  /\ NumbersAreFresh' /\ SnapshotsArePrefixes' /\ LocksAreHeld' /\ RowsComeLast'
         /\ RowsAreChained' /\ AuditChainIsLinear'
<1>1. UNCHANGED <<events, nextSeq, txn, shared, aggLock>>
  BY DEF writerVars
<1>2. NumbersAreFresh' /\ SnapshotsArePrefixes' /\ LocksAreHeld' /\ RowsComeLast'
  BY <1>1 DEF AInv, NumbersAreFresh, SnapshotsArePrefixes, LocksAreHeld, RowsComeLast
<1>3. RowsAreChained'
  BY <1>1 DEF AInv, RowsAreChained, LastOf
<1> QED BY <1>1, <1>2, <1>3, SameEvents DEF AInv

\* A checkpoint takes its snapshot and waits.
LEMMA StartCheckpointInv ==
  ASSUME AInv, NEW k \in Checkpointer, StartCheckpoint(k) PROVE AInv'
<1> DEFINE f == [phase |-> "WAITING", snapshot |-> events, last |-> Len(checkpoints)]
<1>1. f \in Fold /\ f.snapshot = events /\ f.last = Len(checkpoints)
  BY FieldTypes DEF AInv, Shape, Fold
<1>2. ck' = [ck EXCEPT ![k] = f] /\ UNCHANGED writerVars /\ UNCHANGED checkpoints
  BY DEF StartCheckpoint
<1> HIDE DEF f
<1>3. /\ ck' \in [Checkpointer -> Fold] /\ ck'[k] = f
      /\ \A j \in Checkpointer \ {k} : ck'[j] = ck[j]
  BY <1>1, <1>2 DEF AInv, Shape
<1>4. Shape'
  BY <1>2, <1>3 DEF AInv, Shape, writerVars
<1>5. BoundariesArePassed'
  BY <1>1, <1>2, <1>3, FieldTypes DEF AInv, BoundariesArePassed, writerVars
<1> QED BY <1>2, <1>4, <1>5, SameWriters, SameCheckpoints DEF AInv

\* A checkpoint that fails leaves nothing behind.
LEMMA CheckpointFailsInv ==
  ASSUME AInv, NEW k \in Checkpointer, CheckpointFails(k) PROVE AInv'
<1>1. NoCheckpoint \in Fold /\ NoCheckpoint.snapshot = {} /\ NoCheckpoint.last = 0
  BY DEF NoCheckpoint, Fold
<1>2. ck' = [ck EXCEPT ![k] = NoCheckpoint] /\ UNCHANGED writerVars /\ UNCHANGED checkpoints
  BY DEF CheckpointFails
<1>3. /\ ck' \in [Checkpointer -> Fold] /\ ck'[k] = NoCheckpoint
      /\ \A j \in Checkpointer \ {k} : ck'[j] = ck[j]
  BY <1>1, <1>2 DEF AInv, Shape
<1>4. Shape'
  BY <1>2, <1>3 DEF AInv, Shape, writerVars
<1>5. BoundariesArePassed'
  BY <1>1, <1>2, <1>3, FieldTypes DEF AInv, BoundariesArePassed, writerVars
<1> QED BY <1>2, <1>4, <1>5, SameWriters, SameCheckpoints DEF AInv

\* An anchor changes nothing a digest covers.
LEMMA AnchorInv ==
  ASSUME AInv, NEW n \in DOMAIN checkpoints, Anchor(n) PROVE AInv'
<1>1. checkpoints' = [checkpoints EXCEPT ![n].anchored = TRUE] /\ UNCHANGED <<writerVars, ck>>
  BY DEF Anchor
<1>2. checkpoints \in Seq(Recorded) /\ checkpoints[n] \in Recorded
  BY FieldTypes DEF AInv, Shape
<1> DEFINE c == [checkpoints[n] EXCEPT !.anchored = TRUE]
<1>3. /\ c \in Recorded /\ c.through = checkpoints[n].through
      /\ c.prev = checkpoints[n].prev /\ c.digest = checkpoints[n].digest
  BY <1>2 DEF Recorded
<1>4. checkpoints' = [checkpoints EXCEPT ![n] = c]
  BY <1>1
<1> HIDE DEF c
<1>5. /\ checkpoints' \in Seq(Recorded) /\ Len(checkpoints') = Len(checkpoints)
      /\ DOMAIN checkpoints' = DOMAIN checkpoints
      /\ checkpoints'[n] = c
      /\ \A m \in DOMAIN checkpoints \ {n} : checkpoints'[m] = checkpoints[m]
  BY <1>2, <1>3, <1>4
<1>6. \A m \in DOMAIN checkpoints : /\ checkpoints'[m].through = checkpoints[m].through
                                    /\ checkpoints'[m].prev = checkpoints[m].prev
                                    /\ checkpoints'[m].digest = checkpoints[m].digest
  BY <1>3, <1>5
<1>7. Shape'
  BY <1>1, <1>5 DEF AInv, Shape, writerVars
<1>8. BoundariesArePassed'
  BY <1>1, <1>5, <1>6 DEF AInv, BoundariesArePassed, writerVars
<1>9. CheckpointsFormOneChain'
  <2> SUFFICES ASSUME NEW m \in DOMAIN checkpoints
               PROVE  /\ checkpoints'[m].prev = Digest(m - 1)'
                      /\ Through(m)' > Through(m - 1)'
    BY <1>5 DEF CheckpointsFormOneChain
  <2>1. m \in Nat \ {0} /\ (m - 1 = 0 \/ m - 1 \in DOMAIN checkpoints)
    BY FieldTypes DEF AInv
  <2>2. Digest(m - 1)' = Digest(m - 1) /\ Through(m - 1)' = Through(m - 1)
    BY <1>6, <2>1 DEF Digest, Through
  <2>3. Through(m)' = Through(m) /\ checkpoints'[m].prev = checkpoints[m].prev
    BY <1>6 DEF Through
  <2> QED BY <2>2, <2>3 DEF AInv, CheckpointsFormOneChain
<1> QED BY <1>1, <1>7, <1>8, <1>9, SameWriters DEF AInv

\* The range folded is a finite set of numbers above the previous boundary and below
\* the next one to be handed out.
LEMMA FoldedRange ==
  ASSUME AInv, NEW k \in Checkpointer
  PROVE  LET last == ck[k].last
             folded == EventRange(ck[k].snapshot, Through(last) + 1, MaxSeq)
         IN  /\ Through(last) \in Nat /\ Through(last) < nextSeq
             /\ folded \in SUBSET Nat
             /\ \A x \in folded : Through(last) < x /\ x < nextSeq
             /\ Cardinality(folded) \in Nat
             /\ folded # {} => Cardinality(folded) # 0
<1> DEFINE last == ck[k].last
           folded == EventRange(ck[k].snapshot, Through(last) + 1, MaxSeq)
<1>1. last \in Nat /\ last <= Len(checkpoints) /\ ck[k].snapshot \subseteq events
  BY DEF AInv, Shape, Fold, BoundariesArePassed
<1>2. nextSeq \in Nat \ {0}
  BY DEF AInv, Shape
<1>3. Through(last) \in Nat /\ Through(last) < nextSeq
  <2>1. CASE last = 0
    BY <1>2, <2>1 DEF Through
  <2>2. CASE last # 0
    <3>1. last \in DOMAIN checkpoints
      BY <1>1, <2>2, FieldTypes DEF AInv
    <3> QED BY <2>2, <3>1, FieldTypes DEF AInv, BoundariesArePassed, Through
  <2> QED BY <2>1, <2>2
<1> HIDE DEF last
<1>4. \A e \in ck[k].snapshot : e.seq \in Nat /\ e.seq < nextSeq
  BY <1>1, FieldTypes DEF AInv, NumbersAreFresh
<1>5. \A x \in folded : \E e \in ck[k].snapshot : x = e.seq /\ Through(last) + 1 <= e.seq
  BY DEF EventRange
<1> HIDE DEF folded
<1>6. \A x \in folded : x \in Nat /\ Through(last) < x /\ x < nextSeq
  BY <1>3, <1>4, <1>5
<1>7. folded \in SUBSET Nat /\ \A x \in folded : x <= nextSeq
  BY <1>2, <1>6
<1>8. IsFiniteSet(folded)
  BY <1>2, <1>7, FS_BoundedSetOfNaturals
<1>9. Cardinality(folded) \in Nat /\ (folded # {} => Cardinality(folded) # 0)
  BY <1>8, FS_CardinalityType, FS_EmptySet
<1> QED BY <1>3, <1>6, <1>7, <1>9 DEF folded, last

\* A checkpoint is recorded while it holds the lock of the tenant alone.
LEMMA FoldAndRecordInv ==
  ASSUME AInv, NEW k \in Checkpointer, FoldAndRecord(k) PROVE AInv'
<1> DEFINE last == ck[k].last
           folded == EventRange(ck[k].snapshot, Through(last) + 1, MaxSeq)
           through == Max(folded \cup {Through(last)})
           count == Count(last) + Cardinality(folded)
           c == [through |-> through, count |-> count, prev |-> Digest(last),
                 anchored |-> FALSE,
                 digest |-> DigestOf(Digest(last), through, count, folded)]
           len == Len(checkpoints)
<1>1. /\ shared = {} /\ folded # {} /\ last + 1 > len
      /\ checkpoints' = Append(checkpoints, c)
      /\ ck' = [ck EXCEPT ![k] = NoCheckpoint]
      /\ UNCHANGED writerVars
  BY DEF FoldAndRecord, Exclusive, Foldable, NumberFree
<1>2. last \in Nat /\ last <= len /\ len \in Nat /\ DOMAIN checkpoints = 1..len
  BY FieldTypes DEF AInv, Shape, Fold, BoundariesArePassed
<1>3. last = len
  BY <1>1, <1>2
<1>4. /\ Through(last) \in Nat /\ Through(last) < nextSeq
      /\ folded \in SUBSET Nat
      /\ \A x \in folded : Through(last) < x /\ x < nextSeq
      /\ Cardinality(folded) \in Nat /\ Cardinality(folded) # 0
  BY <1>1, FoldedRange
<1>5. nextSeq \in Nat
  BY DEF AInv, Shape
<1>6. through \in Nat /\ Through(last) < through /\ through < nextSeq
  <2> HIDE DEF folded, last
  <2> QED BY <1>1, <1>4, <1>5, MaxAbove
<1>7. Count(last) \in Nat /\ Digest(last) \in Seq(Folded)
  <2>1. CASE last = 0
    BY <2>1 DEF Count, Digest
  <2>2. CASE last # 0
    <3>1. last \in DOMAIN checkpoints
      BY <1>2, <2>2
    <3>2. checkpoints[last] \in Recorded
      BY <3>1, FieldTypes DEF AInv
    <3> QED BY <2>2, <3>2 DEF Count, Digest, Recorded
  <2> QED BY <2>1, <2>2
<1> HIDE DEF through, folded
<1>8. through # 0 /\ count \in Nat \ {0}
  BY <1>4, <1>6, <1>7
<1> HIDE DEF count
<1>9. DigestOf(Digest(last), through, count, folded) \in Seq(Folded)
  BY <1>4, <1>6, <1>7, <1>8 DEF DigestOf, Folded
<1>10. c \in Recorded /\ c.through = through /\ c.prev = Digest(last)
  BY <1>6, <1>7, <1>8, <1>9 DEF Recorded
<1>11. checkpoints \in Seq(Recorded)
  BY DEF AInv, Shape
<1> HIDE DEF c
<1>12. /\ checkpoints' \in Seq(Recorded) /\ Len(checkpoints') = len + 1
       /\ DOMAIN checkpoints' = 1..(len + 1)
       /\ checkpoints'[len + 1] = c
       /\ \A n \in 1..len : checkpoints'[n] = checkpoints[n]
  BY <1>1, <1>2, <1>10, <1>11
<1>13. NoCheckpoint \in Fold /\ NoCheckpoint.snapshot = {} /\ NoCheckpoint.last = 0
  BY DEF NoCheckpoint, Fold
<1>14. /\ ck' \in [Checkpointer -> Fold] /\ ck'[k] = NoCheckpoint
       /\ \A j \in Checkpointer \ {k} : ck'[j] = ck[j]
  BY <1>1, <1>13 DEF AInv, Shape
<1>15. Shape'
  BY <1>1, <1>12, <1>14 DEF AInv, Shape, writerVars
<1>16. \A w \in Writer : txn[w].rows = {}
  BY <1>1 DEF AInv, LocksAreHeld
<1>17. BoundariesArePassed'
  <2>1. \A j \in Checkpointer : ck'[j].snapshot \subseteq events /\ ck'[j].last <= len + 1
    <3>1. \A j \in Checkpointer : ck[j].last \in Nat
      BY DEF AInv, Shape, Fold
    <3> QED BY <1>2, <1>13, <1>14, <3>1 DEF AInv, BoundariesArePassed
  <2>2. \A n \in 1..(len + 1) : checkpoints'[n].through < nextSeq
    <3>1. \A n \in 1..len : checkpoints'[n].through < nextSeq
      BY <1>2, <1>12 DEF AInv, BoundariesArePassed
    <3>2. checkpoints'[len + 1].through < nextSeq
      BY <1>6, <1>10, <1>12
    <3>3. \A n \in 1..(len + 1) : n \in 1..len \/ n = len + 1
      BY <1>2
    <3> QED BY <3>1, <3>2, <3>3
  <2> QED BY <1>1, <1>12, <1>16, <2>1, <2>2 DEF BoundariesArePassed, writerVars
<1>18. CheckpointsFormOneChain'
  <2>1. \A n \in 0..len : Digest(n)' = Digest(n) /\ Through(n)' = Through(n)
    BY <1>2, <1>12 DEF Digest, Through
  <2> SUFFICES ASSUME NEW n \in 1..(len + 1)
               PROVE  /\ checkpoints'[n].prev = Digest(n - 1)'
                      /\ Through(n)' > Through(n - 1)'
    BY <1>12 DEF CheckpointsFormOneChain
  <2>2. CASE n \in 1..len
    <3>1. n \in 0..len /\ n - 1 \in 0..len /\ n \in DOMAIN checkpoints
      BY <1>2, <2>2
    <3>2. checkpoints'[n].prev = checkpoints[n].prev
      BY <1>12, <2>2
    <3>3. checkpoints[n].prev = Digest(n - 1) /\ Through(n) > Through(n - 1)
      BY <3>1 DEF AInv, CheckpointsFormOneChain
    <3> QED BY <2>1, <3>1, <3>2, <3>3
  <2>3. CASE n = len + 1
    <3>1. n - 1 = last /\ last \in 0..len /\ n # 0
      BY <1>2, <1>3, <2>3
    <3>2. Through(n)' = through
      BY <1>10, <1>12, <2>3, <3>1 DEF Through
    <3>3. checkpoints'[n].prev = Digest(last)
      BY <1>10, <1>12, <2>3
    <3> QED BY <1>4, <1>6, <2>1, <3>1, <3>2, <3>3
  <2> QED BY <1>2, <2>2, <2>3
<1> QED BY <1>1, <1>15, <1>17, <1>18, SameWriters DEF AInv

-----------------------------------------------------------------------------
(* The theorems.                                                           *)

\* Every step of the audit log preserves the inductive invariant.
LEMMA NextAInv ==
  ASSUME AInv, AuditNext PROVE AInv'
<1>1. ASSUME NEW w \in Writer, Abort(w) PROVE AInv'
  BY <1>1, RollBackInv DEF Abort, checkpointVars
<1>2. ASSUME NEW w \in Writer, InsertRejected(w) PROVE AInv'
  BY <1>2, RollBackInv DEF InsertRejected, checkpointVars
<1>3. CASE Record
  BY <1>1, <1>2, <1>3, BeginInv, LockTenantInv, LockAggregateInv, InsertInv, CommitInv
     DEF Record
<1>4. CASE Checkpoint
  BY <1>4, StartCheckpointInv, FoldAndRecordInv, CheckpointFailsInv, AnchorInv DEF Checkpoint
<1> QED BY <1>3, <1>4 DEF AuditNext

\* So does a step that changes nothing of it.
LEMMA StutterAInv ==
  ASSUME AInv, UNCHANGED auditVars PROVE AInv'
<1>1. UNCHANGED writerVars /\ UNCHANGED <<ck, checkpoints>>
  BY DEF auditVars, checkpointVars
<1>2. Shape' /\ BoundariesArePassed'
  BY <1>1 DEF AInv, Shape, BoundariesArePassed, writerVars
<1> QED BY <1>1, <1>2, SameWriters, SameCheckpoints DEF AInv

\* The invariant holds of every state that recordAuditEvent, createCheckpoint and
\* recordExternalAnchor can reach, whatever the transactions record.
THEOREM AuditInvariance == AuditSpec => []AInv
<1>1. AInv /\ [AuditNext]_auditVars => AInv'
  BY NextAInv, StutterAInv
<1> QED BY <1>1, InitAInv, PTL DEF AuditSpec

\* The tables keep their shape and their CHECK constraints; a snapshot holds committed
\* rows alone.
THEOREM AuditTypeCorrect == AuditSpec => []AuditTypeOK
<1>1. AInv => AuditTypeOK
  <2> SUFFICES ASSUME AInv PROVE AuditTypeOK
    OBVIOUS
  <2>1. /\ events \subseteq AuditEvent /\ nextSeq \in Nat \ {0} /\ shared \subseteq Writer
        /\ \A a \in Aggregate : aggLock[a] \subseteq Writer
    BY DEF AInv, Shape
  <2>2. \A w \in Writer : txn[w] \in Transaction /\ txn[w].snapshot \subseteq events
    BY DEF AInv, Shape, SnapshotsArePrefixes
  <2>3. \A w \in Writer : /\ txn[w].phase \in {"IDLE", "OPEN", "SHARED", "LOCKED"}
                          /\ txn[w].rows \subseteq AuditEvent /\ txn[w].todo \in Seq(Aggregate)
    BY <2>2 DEF Transaction
  <2>4. \A k \in Checkpointer : /\ ck[k].phase \in {"IDLE", "WAITING"}
                                /\ ck[k].snapshot \subseteq events
                                /\ ck[k].last \in 0..Len(checkpoints)
    BY FieldTypes DEF AInv, Shape, Fold, BoundariesArePassed
  <2>5. \A n \in DOMAIN checkpoints : checkpoints[n].through > 0 /\ checkpoints[n].count > 0
    <3>1. \A c \in Recorded : c.through > 0 /\ c.count > 0
      BY DEF Recorded
    <3> QED BY <3>1, FieldTypes DEF AInv
  <2> QED BY <2>1, <2>2, <2>3, <2>4, <2>5 DEF AuditTypeOK
<1> QED BY <1>1, AuditInvariance, PTL

\* The events of every aggregate form one chain in sequence order, although each
\* predecessor is looked up in a snapshot older than the lock: the unique index
\* audit_chain_single_successor refuses every insert behind a missed event.
THEOREM OneChainPerAggregate == AuditSpec => []AuditChainIsLinear
<1>1. AInv => AuditChainIsLinear
  BY DEF AInv
<1> QED BY <1>1, AuditInvariance, PTL

\* The checkpoints are one chain of digests over adjacent ranges, however many calls of
\* createCheckpoint read the same last one.
THEOREM OneChainOfCheckpoints == AuditSpec => []CheckpointsFormOneChain
<1>1. AInv => CheckpointsFormOneChain
  BY DEF AInv
<1> QED BY <1>1, AuditInvariance, PTL

\* A boundary that is read is final: no commit adds an event at or below it.
LEMMA BoundaryIsFinal ==
  ASSUME AInv, NEW w \in Writer, Commit(w), NEW n \in 0..Len(checkpoints), NEW m \in Nat
  PROVE  EventRange(events', m, Through(n)) = EventRange(events, m, Through(n))
<1>1. events' = events \cup txn[w].rows
  BY DEF Commit
<1>2. Through(n) \in Nat /\ \A r \in txn[w].rows : r.seq \in Nat /\ Through(n) < r.seq
  <2>1. \A r \in txn[w].rows : r.seq \in Nat /\ r.seq > 0
    BY FieldTypes DEF AInv
  <2>2. CASE n = 0
    BY <2>1, <2>2 DEF Through
  <2>3. CASE n # 0
    <3>1. n \in DOMAIN checkpoints
      BY <2>3, FieldTypes DEF AInv
    <3> QED BY <2>1, <2>3, <3>1, FieldTypes DEF AInv, BoundariesArePassed, Through
  <2> QED BY <2>2, <2>3
<1>3. \A r \in txn[w].rows : ~(r.seq <= Through(n))
  BY <1>2
<1>4. {x \in events' : m <= x.seq /\ x.seq <= Through(n)}
        = {x \in events : m <= x.seq /\ x.seq <= Through(n)}
  BY <1>1, <1>3
<1> QED BY <1>4 DEF EventRange

\* So a history that verifies verifies again, if no checkpoint of it is rewritten.
LEMMA VerdictKept ==
  ASSUME AInv, NEW n \in DOMAIN checkpoints, Verifies(n),
         \A i \in DOMAIN checkpoints : /\ checkpoints'[i].through = checkpoints[i].through
                                       /\ checkpoints'[i].count = checkpoints[i].count
                                       /\ checkpoints'[i].prev = checkpoints[i].prev
                                       /\ checkpoints'[i].digest = checkpoints[i].digest,
         \A i \in 0..Len(checkpoints), m \in Nat :
           EventRange(events', m, Through(i)) = EventRange(events, m, Through(i))
  PROVE  Verifies(n)'
<1>1. Len(checkpoints) \in Nat /\ DOMAIN checkpoints = 1..Len(checkpoints)
  BY FieldTypes DEF AInv
<1>2. \A i \in 0..Len(checkpoints) : Through(i)' = Through(i) /\ Digest(i)' = Digest(i)
  BY <1>1 DEF Through, Digest
<1>3. \A i \in 0..Len(checkpoints) : Through(i) \in Nat
  BY <1>1, FieldTypes DEF AInv, Through
<1> SUFFICES ASSUME NEW i \in 1..n PROVE Reproduces(i)'
  BY DEF Verifies
<1>4. i \in DOMAIN checkpoints /\ i \in 0..Len(checkpoints) /\ i - 1 \in 0..Len(checkpoints)
  BY <1>1
<1>5. Reproduces(i)
  BY DEF Verifies
<1>6. EventRange(events', Through(i - 1) + 1, Through(i))
        = EventRange(events, Through(i - 1) + 1, Through(i))
  <2>1. Through(i - 1) + 1 \in Nat
    BY <1>3, <1>4
  <2> QED BY <1>4, <2>1
<1>7. EventRange(events', 1, Through(i)) = EventRange(events, 1, Through(i))
  BY <1>4
<1>8. /\ Through(i)' = Through(i) /\ Through(i - 1)' = Through(i - 1)
      /\ Digest(i - 1)' = Digest(i - 1)
  BY <1>2, <1>4
<1>9. /\ checkpoints[i].prev = Digest(i - 1)
      /\ checkpoints[i].count = Cardinality(EventRange(events, 1, Through(i)))
      /\ checkpoints[i].digest
           = DigestOf(Digest(i - 1), Through(i),
                      Cardinality(EventRange(events, 1, Through(i))),
                      EventRange(events, Through(i - 1) + 1, Through(i)))
  BY <1>5 DEF Reproduces
<1>10. /\ checkpoints'[i].prev = Digest(i - 1)'
       /\ checkpoints'[i].count = Cardinality(EventRange(events', 1, Through(i)'))
       /\ checkpoints'[i].digest
            = DigestOf(Digest(i - 1)', Through(i)',
                       Cardinality(EventRange(events', 1, Through(i)')),
                       EventRange(events', Through(i - 1)' + 1, Through(i)'))
  BY <1>4, <1>6, <1>7, <1>8, <1>9
<1> QED BY <1>10 DEF Reproduces, DigestOf, EventRange

\* No step changes the verdict about a checkpoint that verifies.
LEMMA VerdictStep ==
  ASSUME AInv, [AuditNext]_auditVars, NEW n \in DOMAIN checkpoints, Verifies(n)
  PROVE Verifies(n)'
<1>1. Len(checkpoints) \in Nat /\ DOMAIN checkpoints = 1..Len(checkpoints)
      /\ checkpoints \in Seq(Recorded)
  BY FieldTypes DEF AInv, Shape
<1>2. CASE UNCHANGED <<events, checkpoints>>
  BY <1>2, VerdictKept
<1>3. ASSUME NEW w \in Writer, Commit(w) PROVE Verifies(n)'
  <2>1. UNCHANGED checkpoints
    BY <1>3 DEF Commit, checkpointVars
  <2> QED BY <1>3, <2>1, BoundaryIsFinal, VerdictKept
<1>4. ASSUME NEW k \in Checkpointer, FoldAndRecord(k) PROVE Verifies(n)'
  <2>1. UNCHANGED events /\ \E c : checkpoints' = Append(checkpoints, c)
    BY <1>4 DEF FoldAndRecord, writerVars
  <2>2. \A i \in DOMAIN checkpoints : checkpoints'[i] = checkpoints[i]
    BY <1>1, <2>1
  <2> QED BY <2>1, <2>2, VerdictKept
<1>5. ASSUME NEW m \in DOMAIN checkpoints, Anchor(m) PROVE Verifies(n)'
  <2>1. UNCHANGED events /\ checkpoints' = [checkpoints EXCEPT ![m].anchored = TRUE]
    BY <1>5 DEF Anchor, writerVars
  <2>2. \A i \in DOMAIN checkpoints : checkpoints[i] \in Recorded
    BY <1>1
  <2>3. \A i \in DOMAIN checkpoints : /\ checkpoints'[i].through = checkpoints[i].through
                                      /\ checkpoints'[i].count = checkpoints[i].count
                                      /\ checkpoints'[i].prev = checkpoints[i].prev
                                      /\ checkpoints'[i].digest = checkpoints[i].digest
    BY <2>1, <2>2 DEF Recorded
  <2> QED BY <2>1, <2>3, VerdictKept
<1>6. CASE Record
  <2>1. ASSUME NEW w \in Writer,
               \/ \E plan \in Plan : Begin(w, plan)
               \/ LockTenant(w) \/ LockAggregate(w) \/ Insert(w) \/ InsertRejected(w)
               \/ Abort(w)
        PROVE  UNCHANGED <<events, checkpoints>>
    BY <2>1 DEF Begin, LockTenant, LockAggregate, Insert, InsertRejected, Abort, checkpointVars
  <2> QED BY <1>2, <1>3, <1>6, <2>1 DEF Record
<1>7. CASE Checkpoint
  <2>1. ASSUME NEW k \in Checkpointer, StartCheckpoint(k) \/ CheckpointFails(k)
        PROVE  UNCHANGED <<events, checkpoints>>
    BY <2>1 DEF StartCheckpoint, CheckpointFails, writerVars
  <2> QED BY <1>2, <1>4, <1>5, <1>7, <2>1 DEF Checkpoint
<1>8. CASE UNCHANGED auditVars
  BY <1>2, <1>8 DEF auditVars, writerVars, checkpointVars
<1> QED BY <1>6, <1>7, <1>8 DEF AuditNext

\* Once verifyCheckpoints reproduces a checkpoint it reproduces it for ever, whatever is
\* recorded, rolled back, folded or anchored: the exclusive lock of createCheckpoint and
\* the writers' shared one keep every commit above the boundaries recorded.
THEOREM VerdictsAreFinal == AuditSpec => VerdictIsFinal
<1>1. AInv /\ [AuditNext]_auditVars =>
        [\A n \in DOMAIN checkpoints : Verifies(n) => Verifies(n)']_auditVars
  BY VerdictStep
<1> QED BY <1>1, AuditInvariance, PTL DEF AuditSpec, VerdictIsFinal
=============================================================================
