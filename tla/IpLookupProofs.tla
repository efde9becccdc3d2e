--------------------------- MODULE IpLookupProofs ---------------------------
(***************************************************************************)
(* Proofs about the HTTP lookup of IpLookup, for every number of URLs,     *)
(* every quorum the configuration accepts and every set of addresses.      *)
(***************************************************************************)
EXTENDS IpLookup, FiniteSetTheorems, TLAPS

\* What the loop has counted is what the joined tasks returned.
JoinedWith(a) == {u \in joined : reply[u] = a}

LInv ==
    /\ TypeOK
    /\ \A a \in Addr : votes[a] = Cardinality(JoinedWith(a))
    /\ \A u \in joined : reply[u] # Pending
    /\ ip \in held
    /\ \A u \in Url \ Liar : reply[u] \in Addr => reply[u] \in held
    /\ result \in Addr => votes[result] >= Threshold
    /\ result \notin Addr => \A a \in Addr : votes[a] < Threshold
    /\ result = Failure => joined = Url

LEMMA FiniteUrls ==
    ASSUME NEW S \in SUBSET Url
    PROVE  IsFiniteSet(S) /\ Cardinality(S) \in Nat
  BY LookupAssumption, FS_Subset, FS_CardinalityType

LEMMA OutcomeOf ==
    ASSUME NEW response \in Response
    PROVE  parse_ip_lookup_response(response) \in Outcome
  BY DEF parse_ip_lookup_response, parse_ip_for_version, Outcome

\* Where nothing has a quorum, resolve_ip_quorum() finds none.
LEMMA ResolveFails ==
    ASSUME TypeOK, \A a \in Addr : votes[a] < Threshold
    PROVE  resolve_ip_quorum = Failure
  BY LookupAssumption DEF resolve_ip_quorum, Leads, TypeOK

LEMMA LookupInit == Init => LInv
<1> SUFFICES ASSUME Init
             PROVE  LInv
  OBVIOUS
<1>1. TypeOK
  BY LookupAssumption DEF Init, TypeOK, Outcome
<1>2. \A a \in Addr : JoinedWith(a) = {}
  BY DEF Init, JoinedWith
<1> QED
  BY <1>1, <1>2, FS_EmptySet, LookupAssumption DEF Init, LInv

LEMMA LookupNext == LInv /\ [Next]_vars => LInv'
<1> SUFFICES ASSUME LInv, [Next]_vars
             PROVE  LInv'
  OBVIOUS
<1> USE LookupAssumption
<1>1. ASSUME NEW u \in Url, Retry(u)
      PROVE  LInv'
  BY <1>1 DEF Retry, Running, LInv, TypeOK, JoinedWith
<1>2. ASSUME NEW u \in Url, Respond(u) \/ Fail(u)
      PROVE  LInv'
  <2>1. PICK outcome \in Outcome :
             /\ Running(u) /\ Return(u, outcome)
             /\ outcome \in Addr => (outcome = ip \/ u \in Liar)
    BY <1>2, OutcomeOf
       DEF Respond, Fail, CanSend, Response, parse_ip_lookup_response,
           parse_ip_for_version, Outcome
  <2>2. TypeOK'
    BY <2>1 DEF Return, LInv, TypeOK, Outcome
  <2>3. /\ u \notin joined
        /\ \A w \in Url : reply'[w] = IF w = u THEN outcome ELSE reply[w]
        /\ UNCHANGED <<ip, held, joined, votes, result>>
    BY <2>1 DEF Running, Return, LInv, TypeOK
  <2>4. \A a \in Addr : JoinedWith(a)' = JoinedWith(a)
    BY <2>3 DEF JoinedWith, LInv, TypeOK
  <2> QED
    BY <2>1, <2>2, <2>3, <2>4 DEF LInv, TypeOK
<1>3. ASSUME NEW u \in Url, JoinVote(u)
      PROVE  LInv'
  <2> DEFINE a == reply[u]
  <2>1. a \in Addr /\ u \notin joined /\ result = Pending
    BY <1>3 DEF JoinVote, CountVote, CanJoin
  <2>2. /\ joined' = joined \cup {u}
        /\ UNCHANGED <<ip, held, attempts, reply, failures>>
        /\ \A b \in Addr : votes'[b] = IF b = a THEN votes[b] + 1 ELSE votes[b]
        /\ result' = IF votes'[a] >= Threshold THEN a ELSE Pending
    BY <1>3 DEF JoinVote, CountVote, LInv, TypeOK
  <2>3. TypeOK'
    BY <1>3, <2>1, <2>2 DEF JoinVote, CountVote, LInv, TypeOK, Outcome
  <2>4. JoinedWith(a)' = JoinedWith(a) \cup {u}
    BY <2>2 DEF JoinedWith
  <2>5. Cardinality(JoinedWith(a)') = Cardinality(JoinedWith(a)) + 1
    <3>1. IsFiniteSet(JoinedWith(a)) /\ u \notin JoinedWith(a)
      BY <2>1, FiniteUrls DEF JoinedWith, LInv, TypeOK
    <3> QED
      BY <2>4, <3>1, FS_AddElement
  <2>6. \A b \in Addr : b # a => JoinedWith(b)' = JoinedWith(b)
    BY <2>2 DEF JoinedWith
  <2>7. \A b \in Addr : votes'[b] = Cardinality(JoinedWith(b)')
    BY <2>1, <2>2, <2>5, <2>6 DEF LInv
  <2>8. \A b \in Addr : b # a => votes'[b] < Threshold
    BY <2>1, <2>2 DEF LInv
  <2> QED
    BY <2>1, <2>2, <2>3, <2>7, <2>8 DEF LInv, TypeOK
<1>4. ASSUME NEW u \in Url, JoinFailure(u)
      PROVE  LInv'
  <2>1. /\ joined' = joined \cup {u} /\ reply[u] = Failure /\ result = Pending
        /\ UNCHANGED <<ip, held, attempts, reply, votes, result>>
    BY <1>4 DEF JoinFailure, CanJoin
  <2>2. TypeOK'
    BY <1>4, <2>1 DEF JoinFailure, LInv, TypeOK
  <2>3. \A a \in Addr : JoinedWith(a)' = JoinedWith(a)
    BY <2>1 DEF JoinedWith
  <2> QED
    BY <2>1, <2>2, <2>3 DEF LInv
<1>5. CASE Resolve
  <2>1. result = Pending /\ result' = Failure
    BY <1>5, ResolveFails DEF Resolve, LInv
  <2> QED
    BY <1>5, <2>1 DEF Resolve, LInv, TypeOK, Outcome, JoinedWith
<1>6. ASSUME NEW a \in Addr, ChangeIp(a)
      PROVE  LInv'
  BY <1>6 DEF ChangeIp, LInv, TypeOK, JoinedWith
<1>7. CASE UNCHANGED vars
  BY <1>7 DEF vars, LInv, TypeOK, JoinedWith
<1> QED
  BY <1>1, <1>2, <1>3, <1>4, <1>5, <1>6, <1>7 DEF Next, Task, Join

LEMMA LookupAlways == Spec => []LInv
  BY LookupInit, LookupNext, PTL DEF Spec

\* Every variable of a lookup keeps its type.
THEOREM LookupTypeCorrect == Spec => []TypeOK
  BY LookupAlways, PTL DEF LInv

\* An accepted address was reported by a quorum of the URLs.
LEMMA QuorumReports ==
    ASSUME LInv, result \in Addr
    PROVE  Cardinality(Reporting(result)) >= Threshold
<1>1. JoinedWith(result) \subseteq Reporting(result)
  BY DEF JoinedWith, Reporting, LInv, TypeOK
<1>2. Reporting(result) \in SUBSET Url
  BY DEF Reporting
<1>3. IsFiniteSet(Reporting(result))
  BY <1>2, FiniteUrls
<1>4. Cardinality(JoinedWith(result)) <= Cardinality(Reporting(result))
  BY <1>1, <1>3, FS_Subset
<1>5. JoinedWith(result) \in SUBSET Url
  BY <1>1, <1>2
<1>6. Cardinality(JoinedWith(result)) \in Nat
  BY <1>5, FiniteUrls
<1>7. Cardinality(Reporting(result)) \in Nat
  BY <1>2, FiniteUrls
<1> QED
  BY <1>4, <1>6, <1>7, LookupAssumption DEF LInv

\* Fewer liars than the quorum cannot impose an address on the client: one of
\* the URLs that reported it is honest, and saw the host have it.
THEOREM AcceptedIsHeld == Spec => []AcceptedWasHeld
<1>1. LInv => AcceptedWasHeld
  <2> SUFFICES ASSUME LInv, Cardinality(Liar) < Threshold, result \in Addr
               PROVE  result \in held
    BY DEF AcceptedWasHeld
  <2>1. PICK u \in Reporting(result) : u \notin Liar
    <3> SUFFICES ASSUME Reporting(result) \subseteq Liar
                 PROVE  FALSE
      OBVIOUS
    <3>1. IsFiniteSet(Liar) /\ Cardinality(Liar) \in Nat
      BY FiniteUrls, LookupAssumption
    <3>2. Cardinality(Reporting(result)) <= Cardinality(Liar)
      BY <3>1, FS_Subset
    <3>3. Reporting(result) \in SUBSET Url
      BY DEF Reporting
    <3>4. Cardinality(Reporting(result)) \in Nat
      BY <3>3, FiniteUrls
    <3> QED
      BY <3>1, <3>2, <3>4, QuorumReports, LookupAssumption
  <2> QED
    BY <2>1 DEF Reporting, LInv
<1> QED
  BY <1>1, LookupAlways, PTL

\* A quorum is more than half of the URLs, so its address has no rival, and
\* the order in which the tasks end cannot change what is accepted.
THEOREM QuorumIsUnique == Spec => []NoRival
<1>1. LInv => NoRival
  <2> SUFFICES ASSUME LInv, NEW a \in Addr, result \in Addr \ {a}
               PROVE  Cardinality(Reporting(a) \cup Reporting(Pending))
                          < Threshold
    BY DEF NoRival
  <2> DEFINE R == Reporting(result)
             Q == Reporting(a) \cup Reporting(Pending)
  <2>1. R \in SUBSET Url /\ Q \in SUBSET Url /\ R \cap Q = {}
    BY LookupAssumption DEF Reporting
  <2>2. /\ IsFiniteSet(R) /\ Cardinality(R) \in Nat
        /\ IsFiniteSet(Q) /\ Cardinality(Q) \in Nat
        /\ IsFiniteSet(Url) /\ Cardinality(Url) \in Nat
    BY <2>1, FiniteUrls
  <2>3. Cardinality(R) >= Threshold
    BY QuorumReports
  <2>4. Cardinality(R \cup Q) = Cardinality(R) + Cardinality(Q)
    <3>1. Cardinality(R \cup Q) = Cardinality(R) + Cardinality(Q)
                                      - Cardinality(R \cap Q)
      BY <2>2, FS_Union
    <3> QED
      BY <2>1, <2>2, <3>1, FS_EmptySet
  <2>5. Cardinality(R \cup Q) <= Cardinality(Url)
    BY <2>1, <2>2, FS_Subset
  <2>6. Threshold + Threshold > Cardinality(Url)
    BY <2>2, QuorumAssumption, LookupAssumption
       DEF ensure_http_lookup_quorum, http_lookup_majority
  <2> HIDE DEF R, Q
  <2>7. Cardinality(Q) < Threshold
    BY <2>2, <2>3, <2>4, <2>5, <2>6, LookupAssumption
  <2> QED
    BY <2>7 DEF Q
<1> QED
  BY <1>1, LookupAlways, PTL

\* Without a quorum among the joined tasks, which are all of them, there is
\* none among all the answers.
LEMMA NoQuorumReports ==
    ASSUME LInv, result \notin Addr, joined = Url, NEW a \in Addr
    PROVE  Cardinality(Reporting(a)) < Threshold
<1>1. JoinedWith(a) = Reporting(a)
  BY DEF JoinedWith, Reporting
<1> QED
  BY <1>1 DEF LInv

\* A failed lookup overlooked no quorum.
THEOREM FailureIsRight == Spec => []FailsOnlyWithoutQuorum
<1>1. LInv => FailsOnlyWithoutQuorum
  BY NoQuorumReports, LookupAssumption DEF LInv, FailsOnlyWithoutQuorum
<1> QED
  BY <1>1, LookupAlways, PTL

\* resolve_ip_quorum() never finds a quorum that the loop has not found.
THEOREM LoopAlwaysDecides == Spec => []LoopDecides
<1>1. LInv => LoopDecides
  BY ResolveFails, LookupAssumption DEF LInv, LoopDecides
<1> QED
  BY <1>1, LookupAlways, PTL

-----------------------------------------------------------------------------
(* The lookup implements LookupDecision.                                   *)

LEMMA SameQuorum ==
    \A a : Decision!HasQuorum(a) <=> Cardinality(Reporting(a)) >= Threshold
  BY DEF Decision!HasQuorum, Decision!Reports, Reporting, Quorum

LEMMA DecisionStep ==
    ASSUME LInv, LInv', [Next]_vars
    PROVE  [Decision!Next]_<<reply, result>>
<1> USE LookupAssumption
<1>1. ASSUME NEW u \in Url, Respond(u) \/ Fail(u)
      PROVE  Decision!Next
  <2>1. PICK outcome \in Outcome : Running(u) /\ Return(u, outcome)
    BY <1>1, OutcomeOf DEF Respond, Fail, Outcome
  <2>2. Decision!Say(u, outcome)
    BY <2>1 DEF Running, Return, Decision!Say
  <2> QED
    BY <2>2 DEF Decision!Next, Outcome
<1>2. ASSUME NEW u \in Url, JoinVote(u)
      PROVE  [Decision!Next]_<<reply, result>>
  <2>1. CASE result' = Pending
    BY <1>2, <2>1 DEF JoinVote, CountVote, CanJoin
  <2>2. CASE result' # Pending
    <3>1. PICK a \in Addr : /\ result' = a /\ result = Pending
                            /\ reply' = reply
      BY <1>2, <2>2 DEF JoinVote, CountVote, CanJoin
    <3> DEFINE J == {w \in joined' : reply[w] = a}
    <3>2. votes'[a] >= Threshold /\ votes'[a] \in Nat
      BY <3>1 DEF LInv, TypeOK
    <3>3. votes'[a] = Cardinality(J)
      BY <3>1 DEF LInv, JoinedWith
    <3>4. J \subseteq Reporting(a)
      BY DEF LInv, TypeOK, Reporting
    <3>5. Reporting(a) \in SUBSET Url
      BY DEF Reporting
    <3>6. IsFiniteSet(Reporting(a)) /\ Cardinality(Reporting(a)) \in Nat
      BY <3>5, FiniteUrls
    <3>7. Cardinality(J) <= Cardinality(Reporting(a))
      BY <3>4, <3>6, FS_Subset
    <3> HIDE DEF J
    <3>8. Cardinality(Reporting(a)) >= Threshold
      BY <3>2, <3>3, <3>6, <3>7
    <3>9. Decision!Accept(a)
      BY <3>1, <3>8, SameQuorum DEF Decision!Accept
    <3> QED
      BY <3>9 DEF Decision!Next
  <2> QED
    BY <2>1, <2>2
<1>3. CASE Resolve
  <2>1. /\ result = Pending /\ joined = Url /\ result' = Failure
        /\ reply' = reply
    BY <1>3, ResolveFails DEF Resolve, LInv
  <2>2. \A a \in Addr : Cardinality(Reporting(a)) < Threshold
    BY <2>1, NoQuorumReports
  <2>3. \A a \in Addr : ~Decision!HasQuorum(a)
    <3> SUFFICES ASSUME NEW a \in Addr
                 PROVE  ~(Cardinality(Reporting(a)) >= Threshold)
      BY SameQuorum
    <3>1. Reporting(a) \in SUBSET Url
      BY DEF Reporting
    <3>2. Cardinality(Reporting(a)) \in Nat
      BY <3>1, FiniteUrls
    <3> QED
      BY <2>2, <3>2
  <2>4. Decision!GiveUp
    BY <2>1, <2>3 DEF Decision!GiveUp, LInv
  <2> QED
    BY <2>4 DEF Decision!Next
<1>4. ASSUME NEW u \in Url, Retry(u) \/ JoinFailure(u)
      PROVE  UNCHANGED <<reply, result>>
  BY <1>4 DEF Retry, JoinFailure
<1>5. ASSUME NEW a \in Addr, ChangeIp(a)
      PROVE  UNCHANGED <<reply, result>>
  BY <1>5 DEF ChangeIp
<1>6. CASE UNCHANGED vars
  BY <1>6 DEF vars
<1> QED
  BY <1>1, <1>2, <1>3, <1>4, <1>5, <1>6 DEF Next, Task, Join

\* fetch_ip_http() keeps the promise of LookupDecision, whatever the URLs
\* answer and in whatever order the tasks end.
THEOREM LookupIsDecision == Spec => ImplementsDecision
<1>1. Init => Decision!Init
  BY DEF Init, Decision!Init
<1>2. LInv /\ LInv' /\ [Next]_vars => [Decision!Next]_<<reply, result>>
  BY DecisionStep
<1> QED
  BY <1>1, <1>2, LookupAlways, PTL DEF Spec, ImplementsDecision, Decision!Spec
=============================================================================
