-------------------------------- MODULE Push --------------------------------
(***************************************************************************)
(* update_providers() with the providers themselves: one task per entry,   *)
(* of whatever type, all at work at the same time.                         *)
(***************************************************************************)
EXTENDS RecordSync

CONSTANTS MaxLines      \* see DuckDns

ASSUME PushAssumption == MaxLines \in Nat

CF == INSTANCE Cloudflare
PB == INSTANCE Porkbun
DD == INSTANCE DuckDns

Step(t) == \/ config.type[t] = "cloudflare" /\ CF!Step(t)
           \/ config.type[t] = "porkbun" /\ PB!Step(t)
           \/ config.type[t] = "duckdns" /\ DD!Step(t)

Next == \/ \E u \in Updates : Call(u)
        \/ \E t \in Task : Step(t)
        \/ CarryOutLate

Spec == Init /\ [][Next]_vars

\* Requests end by their timeout and the runtime polls every task.
FairSpec == Spec /\ \A t \in Task : WF_vars(Step(t))

-----------------------------------------------------------------------------
(* Properties.                                                             *)

Requests == [task : Task, step : Writes, id : Nat, attempt : Nat,
             slots : SUBSET Slot]

\* The type invariant; a request is only ever made for a record that exists.
TypeOK == /\ config \in Configs
          /\ update \in IpUpdates
          /\ step \in [Task -> Ended \cup Writes \cup {"zone", "list"}]
          /\ todo \in [Task -> Seq(Slot)]
          /\ id \in [Task -> Nat]
          /\ \A t \in Task : /\ Running(t) => todo[t] # <<>>
                             /\ step[t] = "edit" =>
                                    id[t] \in DOMAIN records[Head(todo[t])]
          /\ attempts \in [Task -> 0..config.retries]
          /\ records \in [Slot -> Seq(Addr)]
          /\ late \subseteq Requests

Contents(s) == {records[s][i] : i \in DOMAIN records[s]}

\* What an Ok of task t is about.
Asked(t) == {s \in NamesIn(config.domains[t]) \X IpVersion : update[s[2]] # None}

\* While update()'s Ok stands, every name it covers has a record with the
\* address that was sent, in spite of errors, repeated and late requests and
\* other entries at work on the same names (client.rs:161-166 stores the
\* cache on the strength of it).
OkMeansPublished ==
    \A t \in Task : step[t] = "ok" =>
        \A s \in Asked(t) : update[s[2]] \in Contents(s)

\* And no record of the name is left with another address, where requests
\* are not repeated and no other entry covers the name.
OkMeansOnly ==
    \A t \in Task : \A s \in Asked(t) :
        /\ step[t] = "ok"
        /\ config.retries = 0
        /\ \A o \in Task \ {t} : s[1] \notin NamesIn(config.domains[o])
        => Contents(s) = {update[s[2]]}

\* Repeated creates and entries that overlap may leave a name with several
\* records, but no more than one push can make: they do not add up over
\* pushes (cloudflare.rs:276-292, porkbun.rs:276-286).
DuplicatesBounded ==
    \A s \in Slot :
        LET creators == {t \in Task : s[1] \in NamesIn(config.domains[t])} IN
        Len(records[s]) <= Cardinality(creators) * (config.retries + 1)

\* A push ends, whatever the services do: the loop awaits every task.
UpdateEnds == \A t \in Task : Running(t) ~> ~Running(t)

\* The requests a task may still make, their repetitions apart: for each name
\* and version a list and a write, and before them the list of zones.
Left(t) == IF ~Running(t) THEN 0
           ELSE 2 * Len(todo[t]) + (IF step[t] = "zone" THEN 1
                                    ELSE IF step[t] = "list" THEN 0 ELSE -1)

Remaining(t) == Left(t) * (config.retries + 1) - attempts[t]

\* Every request brings its task closer to the end, and nothing that other
\* tasks or late requests do to the records in between sets it back: the
\* number of requests of a push is bounded from its start (client.rs:184).
RequestsRunOut ==
    [][\A t \in Task : Step(t) =>
           /\ Remaining(t) \in Nat
           /\ Remaining(t)' < Remaining(t)
           /\ \A o \in Task \ {t} : Remaining(o)' = Remaining(o)]_vars

\* The result of the push, as update_providers() joins it.
Status == IF \E t \in Task : Running(t) THEN "running"
          ELSE IF \E t \in Task : step[t] = "err" THEN "err"
          ELSE IF \E t \in Task : step[t] = "ok" THEN "ok"
          ELSE "idle"

Abstract == INSTANCE UpdateTask WITH
                status <- Status,
                published <- [s \in Slot |-> Contents(s)]

\* The providers together do what the update loop expects of them.
ImplementsUpdateTask == Abstract!Spec
=============================================================================
