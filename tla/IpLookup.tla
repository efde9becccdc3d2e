------------------------------ MODULE IpLookup ------------------------------
(***************************************************************************)
(* One HTTP lookup of the public address, for one IP version               *)
(* (src/ip_lookup.rs): a task per URL, which retries transient failures    *)
(* and parses the answer, and the loop that joins the tasks in whatever    *)
(* order they end, counts votes, and stops at the quorum.                  *)
(***************************************************************************)
EXTENDS Config, FiniteSets

CONSTANTS
    Url,        \* one element per entry of http_ipv4 (or http_ipv6)
    Addr,       \* the addresses of this IP version
    Threshold,  \* http_lookup_quorum
    Retries,    \* the retries of the HTTP client, per request
    Liar,       \* URLs that may report an address the host does not have
    Failure,    \* an Err
    Pending     \* not ended yet

ASSUME LookupAssumption ==
    /\ IsFiniteSet(Url)
    /\ Threshold \in Nat \ {0}
    /\ Retries \in Nat
    /\ Liar \subseteq Url
    /\ Failure \notin Addr
    /\ Pending \notin Addr
    /\ Pending # Failure

\* Every other configuration is refused (config.rs).
ASSUME QuorumAssumption ==
    ensure_http_lookup_quorum(Cardinality(Url), Threshold)

VARIABLES
    ip,         \* the host's address
    held,       \* history: the addresses it has had since the lookup began
    attempts,   \* [Url -> requests that failed and were retried]
    reply,      \* [Url -> what its task returned]
    joined,     \* tasks whose result join_next() has returned
    votes,      \* the BTreeMap of votes; 0 stands for an absent key
    failures,   \* the number of tasks that returned no address
    result      \* what fetch_ip_http() returned

vars == <<ip, held, attempts, reply, joined, votes, failures, result>>

Outcome == Addr \cup {Failure}

Init == /\ ip \in Addr
        /\ held = {ip}
        /\ attempts = [u \in Url |-> 0]
        /\ reply = [u \in Url |-> Pending]
        /\ joined = {}
        /\ votes = [a \in Addr |-> 0]
        /\ failures = 0
        /\ result = Pending

-----------------------------------------------------------------------------
(* The tasks.                                                              *)

\* The task of u is running: it has not ended and was not aborted.
Running(u) == result = Pending /\ reply[u] = Pending

\* What a response holds, as far as the parser tells bodies apart.
Body == Addr \cup {"oversized", "not an address of this version"}
Response == [success: BOOLEAN, body: Body]

parse_ip_for_version(body) == IF body \in Addr THEN body ELSE Failure

parse_ip_lookup_response(response) ==
    IF response.success THEN parse_ip_for_version(response.body) ELSE Failure

\* An honest URL reports the address the request came from.
CanSend(u, response) ==
    response.body \in Addr => (response.body = ip \/ u \in Liar)

Return(u, outcome) == /\ reply' = [reply EXCEPT ![u] = outcome]
                      /\ UNCHANGED <<ip, held, attempts, joined, votes,
                                     failures, result>>

\* Mutant: the retries are not counted against their limit.
RetryForever(u) == /\ Running(u)
                   /\ attempts' = [attempts EXCEPT ![u] = @ + 1]
                   /\ UNCHANGED <<ip, held, reply, joined, votes, failures,
                                  result>>

\* A connection error, a timeout or a status the middleware retries.
Retry(u) == /\ Running(u)
            /\ attempts[u] < Retries
            /\ attempts' = [attempts EXCEPT ![u] = @ + 1]
            /\ UNCHANGED <<ip, held, reply, joined, votes, failures, result>>

Respond(u) == /\ Running(u)
              /\ \E response \in Response :
                     /\ CanSend(u, response)
                     /\ Return(u, parse_ip_lookup_response(response))

\* The last attempt got no response, or the task panicked.
Fail(u) == /\ Running(u)
           /\ Return(u, Failure)

-----------------------------------------------------------------------------
(* The loop.                                                               *)

CanJoin(u) == /\ result = Pending
              /\ reply[u] # Pending
              /\ u \notin joined

CountVote(u) == /\ CanJoin(u)
                /\ reply[u] \in Addr
                /\ joined' = joined \cup {u}
                /\ votes' = [votes EXCEPT ![reply[u]] = @ + 1]
                /\ UNCHANGED <<ip, held, attempts, reply, failures>>

\* Mutant: one vote too few is enough.
JoinVoteEarly(u) == /\ CountVote(u)
                    /\ result' = IF votes'[reply[u]] >= Threshold - 1
                                 THEN reply[u]
                                 ELSE Pending

\* Mutant: one vote too many is required.
JoinVoteLate(u) == /\ CountVote(u)
                   /\ result' = IF votes'[reply[u]] > Threshold
                                THEN reply[u]
                                ELSE Pending

\* Mutant: all the answers are counted, whatever the address.
JoinVoteAnswers(u) == /\ CountVote(u)
                      /\ result' = IF Cardinality(joined') >= Threshold
                                   THEN reply[u]
                                   ELSE Pending

\* Ok(Ok(ip)): the vote is counted, and the quorum ends the lookup; abort_all()
\* stops the other tasks.
JoinVote(u) == /\ CountVote(u)
               /\ result' = IF votes'[reply[u]] >= Threshold
                            THEN reply[u]
                            ELSE Pending

\* Mutant: the first task that fails ends the lookup.
JoinFailureFatal(u) == /\ CanJoin(u)
                       /\ reply[u] = Failure
                       /\ joined' = joined \cup {u}
                       /\ failures' = failures + 1
                       /\ result' = Failure
                       /\ UNCHANGED <<ip, held, attempts, reply, votes>>

\* Ok(Err(_)) and Err(_).
JoinFailure(u) == /\ CanJoin(u)
                  /\ reply[u] = Failure
                  /\ joined' = joined \cup {u}
                  /\ failures' = failures + 1
                  /\ UNCHANGED <<ip, held, attempts, reply, votes, result>>

\* max_by_key() over the votes, refused when tied or short of the threshold.
Leads(a) == /\ votes[a] > 0
            /\ votes[a] >= Threshold
            /\ \A b \in Addr \ {a} : votes[b] < votes[a]

resolve_ip_quorum == IF \E a \in Addr : Leads(a)
                     THEN CHOOSE a \in Addr : Leads(a)
                     ELSE Failure

\* Mutant: an empty map of votes is not resolved.
ResolveVotes == /\ result = Pending
                /\ joined = Url
                /\ \E a \in Addr : votes[a] > 0
                /\ result' = resolve_ip_quorum
                /\ UNCHANGED <<ip, held, attempts, reply, joined, votes,
                               failures>>

\* join_next() returns None.
Resolve == /\ result = Pending
           /\ joined = Url
           /\ result' = resolve_ip_quorum
           /\ UNCHANGED <<ip, held, attempts, reply, joined, votes, failures>>

\* The host's address may change while the lookup is under way.
ChangeIp(a) == /\ result = Pending
               /\ ip' = a
               /\ held' = held \cup {a}
               /\ UNCHANGED <<attempts, reply, joined, votes, failures, result>>

Task(u) == Retry(u) \/ Respond(u) \/ Fail(u)
Join == \E u \in Url : JoinVote(u) \/ JoinFailure(u)

Next == \/ \E u \in Url : Task(u)
        \/ Join \/ Resolve
        \/ \E a \in Addr : ChangeIp(a)

\* Requests end by their timeout, and the loop is polled.
Fairness == /\ \A u \in Url : WF_vars(Task(u))
            /\ WF_vars(Join \/ Resolve)

Spec == Init /\ [][Next]_vars
FairSpec == Spec /\ Fairness

-----------------------------------------------------------------------------
(* Properties.                                                             *)

\* The type invariant: what every variable of a lookup may hold.
TypeOK == /\ ip \in Addr
          /\ held \in SUBSET Addr
          /\ attempts \in [Url -> 0..Retries]
          /\ reply \in [Url -> Outcome \cup {Pending}]
          /\ joined \in SUBSET Url
          /\ votes \in [Addr -> Nat]
          /\ failures \in Nat
          /\ result \in Outcome \cup {Pending}

Reporting(a) == {u \in Url : reply[u] = a}

\* Fewer URLs that lie than the quorum cannot make the client accept an
\* address the host did not have at some moment of the lookup.
AcceptedWasHeld == Cardinality(Liar) < Threshold /\ result \in Addr
                       => result \in held

\* The order in which answers arrive does not matter: whatever the aborted
\* tasks would have said, no other address could have been accepted
\* (fetch_ip_http() returns at the first quorum, ip_lookup.rs:49-56).
NoRival ==
    \A a \in Addr : result \in Addr \ {a} =>
        Cardinality(Reporting(a) \cup Reporting(Pending)) < Threshold

\* A lookup fails only when no address has a quorum among all the answers.
FailsOnlyWithoutQuorum ==
    result = Failure => \A a \in Addr : Cardinality(Reporting(a)) < Threshold

\* The quorum is always found by the loop: once all the tasks are joined,
\* resolve_ip_quorum() can only report that there is none (ip_lookup.rs:71-75).
LoopDecides == result = Pending /\ joined = Url => resolve_ip_quorum = Failure

Quorum == {Q \in SUBSET Url : Cardinality(Q) >= Threshold}

Decision == INSTANCE LookupDecision

\* The lookup implements its promise.
ImplementsDecision == Decision!Spec

\* Every lookup ends, so that a pass of the client cannot hang in it.
Terminates == <>(result # Pending)
=============================================================================
