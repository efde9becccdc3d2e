----------------------------- MODULE RecordSync -----------------------------
(***************************************************************************)
(* The tasks of one push (update_providers() of src/client.rs) and the     *)
(* services that keep the records: what the three providers share.  One    *)
(* element of Task per [[providers]] entry; entries of one type may cover  *)
(* the same names.  The HTTP client repeats requests, and a service may    *)
(* carry a request out without its answer ever arriving.                   *)
(***************************************************************************)
EXTENDS Integers, FiniteSets, IpUpdate

CONSTANTS
    Task,       \* the [[providers]] entries
    Name,       \* domain names
    Configs,    \* what is configured: types, domains and retries
    Updates,    \* the arguments update() may be called with
    Stored      \* what a service may keep under a name at first

Type == {"cloudflare", "porkbun", "duckdns"}

NamesIn(domains) == {domains[i] : i \in DOMAIN domains}

\* try_from() refuses a configuration without entries, and validate_config()
\* an entry without domains.
ASSUME RecordAssumption ==
    /\ IsFiniteSet(Task) /\ Task # {}
    /\ Configs \subseteq [type : [Task -> Type],
                          domains : [Task -> Seq(Name) \ {<<>>}],
                          retries : Nat]
    /\ \A c \in Configs : Name = UNION {NamesIn(c.domains[t]) : t \in Task}
    /\ \A c \in Configs : \A t, o \in Task :
           NamesIn(c.domains[t]) \cap NamesIn(c.domains[o]) # {}
               => c.type[t] = c.type[o]
    /\ Updates \subseteq IpUpdates \ {NoAddress}
    /\ Stored \subseteq Seq(Addr)

VARIABLES
    config,     \* the configuration, which stays
    update,     \* the argument of the calls of this push
    step,       \* [Task -> the request it makes next, or how it ended]
    todo,       \* [Task -> the <<name, version>> pairs still to be written]
    id,         \* [Task -> the id of the record found; 0 if none was]
    attempts,   \* [Task -> how often the present request was repeated]
    records,    \* the services: [name, version -> contents; indexes are ids]
    late        \* requests they received and may still carry out

local == <<step, todo, id, attempts>>
vars == <<config, update, local, records, late>>

Slot == Name \X IpVersion
Ended == {"idle", "ok", "err"}
Running(t) == step[t] \notin Ended

Init == /\ config \in Configs
        /\ update = NoAddress
        /\ step = [t \in Task |-> "idle"]
        /\ todo = [t \in Task |-> <<>>]
        /\ id = [t \in Task |-> 0]
        /\ attempts = [t \in Task |-> 0]
        /\ records \in [Slot -> Stored]
        /\ late = {}

-----------------------------------------------------------------------------
(* The services.                                                           *)

Writes == {"edit", "create", "send"}

Request(t) == [task |-> t, step |-> step[t], id |-> id[t],
               attempt |-> attempts[t],
               slots |-> IF step[t] = "send" THEN NamesIn(todo[t])
                                             ELSE {Head(todo[t])}]

Put(r, contents, addr) ==
    CASE r.step = "create" -> Append(contents, addr)
      [] r.step = "edit" -> [contents EXCEPT ![r.id] = addr]
      [] r.step = "send" -> <<addr>>

CarriedOut(r) ==
    records' = [s \in Slot |-> IF s \in r.slots
                               THEN Put(r, records[s], update[s[2]])
                               ELSE records[s]]

\* A service does not claim to have done what it has not done.
AnswersWrite(t, claims) ==
    \/ CarriedOut(Request(t))
    \/ ~claims /\ UNCHANGED records

\* A request that timed out: what the service does of it, now or later.
LosesWrite(t) ==
    \/ CarriedOut(Request(t)) /\ UNCHANGED late
    \/ UNCHANGED <<records, late>>
    \/ late' = late \cup {Request(t)} /\ UNCHANGED records

CarryOutLate == \E r \in late : /\ late' = late \ {r}
                                /\ CarriedOut(r) \/ UNCHANGED records
                                /\ UNCHANGED <<config, update, local>>

-----------------------------------------------------------------------------
(* The tasks.                                                              *)

\* for domain in &self.domains { for (version, addr) in update.iter() { .. } }
Work(domains, u) ==
    LET n == Len(iter(u)) IN
    [i \in 1..(Len(domains) * n) |->
        <<domains[((i - 1) \div n) + 1], iter(u)[((i - 1) % n) + 1]>>]

FirstStep(type) == CASE type = "cloudflare" -> "zone"
                     [] type = "porkbun" -> "list"
                     [] type = "duckdns" -> "send"

\* update_providers() spawns every task once the last push has ended.  What
\* the services have not done by then, an interval later, they never do.
Call(u) ==
    /\ \A t \in Task : ~Running(t)
    /\ late = {}
    /\ update' = u
    /\ step' = [t \in Task |-> FirstStep(config.type[t])]
    /\ todo' = [t \in Task |-> Work(config.domains[t], u)]
    /\ id' = [t \in Task |-> 0]
    /\ attempts' = [t \in Task |-> 0]
    /\ UNCHANGED <<config, records, late>>

Goto(t, s) == /\ step' = [step EXCEPT ![t] = s]
              /\ attempts' = [attempts EXCEPT ![t] = 0]

End(t, s) == /\ Goto(t, s)
             /\ todo' = [todo EXCEPT ![t] = <<>>]
             /\ id' = [id EXCEPT ![t] = 0]

\* Mutant: a record is tried again for as long as it fails.
StartOver(t) == /\ Goto(t, IF step[t] = "send" THEN "send" ELSE "list")
                /\ UNCHANGED <<todo, id>>

\* An error of any request ends update() by `?`.
Fail(t) == End(t, "err")

\* Mutant: a record is created without a look at the list.
ListedNone(t) == /\ Goto(t, "create")
                 /\ UNCHANGED <<todo, id>>

\* The answer to the list, which is in any order; its first() is changed.
Listed(t) == LET found == DOMAIN records[Head(todo[t])] IN
             /\ \/ /\ found = {}
                   /\ Goto(t, "create")
                   /\ UNCHANGED id
                \/ /\ Goto(t, "edit")
                   /\ \E i \in found : id' = [id EXCEPT ![t] = i]
             /\ UNCHANGED todo

\* The next iteration of the loops, or Ok(true).
Advance(t) == IF Len(todo[t]) = 1 THEN End(t, "ok")
              ELSE /\ Goto(t, "list")
                   /\ todo' = [todo EXCEPT ![t] = Tail(@)]
                   /\ id' = [id EXCEPT ![t] = 0]

\* Mutant: the repetitions are not counted against their limit.
RetryForever(t) == /\ Running(t)
                   /\ IF step[t] \in Writes THEN LosesWrite(t)
                                            ELSE UNCHANGED <<records, late>>
                   /\ attempts' = [attempts EXCEPT ![t] = config.retries + 1]
                   /\ UNCHANGED <<config, update, step, todo, id>>

\* A timeout, a lost connection, or a status like 503 or 429: the middleware
\* repeats any request, also one that creates a record, and then gives up.
NoAnswer(t) == /\ Running(t)
               /\ IF step[t] \in Writes THEN LosesWrite(t)
                                        ELSE UNCHANGED <<records, late>>
               /\ \/ /\ attempts[t] < config.retries
                     /\ attempts' = [attempts EXCEPT ![t] = @ + 1]
                     /\ UNCHANGED <<step, todo, id>>
                  \/ /\ attempts[t] = config.retries
                     /\ Fail(t)
               /\ UNCHANGED <<config, update>>
=============================================================================
