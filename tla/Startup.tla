------------------------------ MODULE Startup ------------------------------
(***************************************************************************)
(* One run of the process (src/main.rs): the configuration is read and     *)
(* checked, the client task is spawned, and main() waits for a signal or   *)
(* for the end of the task, and then for the rest of the pass.             *)
(***************************************************************************)
EXTENDS Config, FiniteSets

CONSTANTS
    Files,      \* the configurations the file may hold
    None        \* no such file, no content read yet

ASSUME StartupAssumption == Files \subseteq RawConfig /\ None \notin Files

Signal == {"SIGINT", "SIGTERM"}

VARIABLES
    given,      \* whether --config was given
    file,       \* the content of the file
    place,      \* where main() is
    config,     \* what it has read
    status,     \* how the process ended; "invalid" is a failure too
    handled,    \* the signals that have a handler
    received,   \* the signals the handlers were called for
    shutdown,   \* the cancellation token
    task        \* the client task

vars == <<given, file, place, config, status, handled, received, shutdown,
          task>>

Alive == task \in {"sleeping", "select", "pass"}

Init == /\ given \in BOOLEAN
        /\ file \in Files \cup {None}
        /\ place = "args"
        /\ config = None
        /\ status = "none"
        /\ handled = {}
        /\ received = {}
        /\ shutdown = FALSE
        /\ task = "none"

\* Mutant: the task goes on by itself.
ExitDetached(s) == /\ place' = "exited"
                   /\ status' = s
                   /\ UNCHANGED <<given, file, config, handled, received,
                                  shutdown, task>>

\* The process ends, and the task with it, be it in the middle of a pass.
Exit(s) == /\ place' = "exited"
           /\ status' = s
           /\ task' = IF task = "pass" THEN "cut"
                      ELSE IF Alive THEN "dropped" ELSE task
           /\ UNCHANGED <<given, file, config, handled, received, shutdown>>

Goto(p) == /\ place' = p
           /\ UNCHANGED <<given, file, status, handled, received, shutdown>>

-----------------------------------------------------------------------------
(* main().                                                                 *)

\* canonicalize() fails if the file of --config does not exist.
Args == /\ place = "args"
        /\ IF given /\ file = None
           THEN Exit("failure")
           ELSE Goto("load") /\ UNCHANGED <<config, task>>

\* The file cannot be read, or is not TOML.
LoadErr == /\ place = "load"
           /\ Exit("failure")

Load == /\ place = "load"
        /\ file # None
        /\ config' = file
        /\ Goto("parse")
        /\ UNCHANGED task

Invalid == \/ /\ place = "parse"
              /\ ~(Deserialize(config) /\ try_from(config))
           \/ /\ place = "validate"
              /\ \E i \in DOMAIN config.providers :
                     ~validate_config(config.providers[i])

Refuse == Invalid /\ Exit("invalid")

Parse == /\ place = "parse"
         /\ ~Invalid
         /\ Goto("validate")
         /\ UNCHANGED <<config, task>>

\* Client::new() and run().
Run == /\ place = "validate"
       /\ ~Invalid
       /\ Goto("select")
       /\ task' = "sleeping"
       /\ UNCHANGED config

NewErr == /\ place = "validate"
          /\ ~Invalid
          /\ Exit("failure")

\* The futures of select! install the handlers when they are first polled.
Listen(s) == /\ place = "select"
             /\ s \notin handled
             /\ handled' = handled \cup {s}
             /\ UNCHANGED <<given, file, place, config, status, received,
                            shutdown, task>>

ListenErr(s) == /\ place = "select"
                /\ s \notin handled
                /\ Exit("failure")

\* Mutant: the token is not cancelled.
SignalledOnly == /\ place = "select"
                 /\ received # {}
                 /\ place' = "drain"
                 /\ UNCHANGED <<given, file, config, status, handled,
                                received, shutdown, task>>

Signalled == /\ place = "select"
             /\ received # {}
             /\ shutdown' = TRUE
             /\ place' = "drain"
             /\ UNCHANGED <<given, file, config, status, handled, received,
                            task>>

\* Mutant: the select! does not wait for the task.
TaskUnwatched == FALSE /\ UNCHANGED vars

\* The branch of client_handle; the select! takes any branch that is ready.
TaskEnded == /\ place = "select"
             /\ task \in {"ended", "panicked"}
             /\ Exit("failure")

\* Mutant: main() returns after shutdown().
DrainNothing == /\ place = "drain"
                /\ Exit(IF task = "panicked" THEN "failure" ELSE "success")

\* client_handle.await??
Drain == /\ place = "drain"
         /\ ~Alive
         /\ Exit(IF task = "panicked" THEN "failure" ELSE "success")

Main == \/ Args \/ LoadErr \/ Load \/ Refuse \/ Parse \/ Run \/ NewErr
        \/ \E s \in Signal : Listen(s) \/ ListenErr(s)
        \/ Signalled \/ TaskEnded \/ Drain

-----------------------------------------------------------------------------
(* The client task, as main() sees it, and the world.                      *)

Become(t) == /\ task' = t
             /\ UNCHANGED <<given, file, place, config, status, handled,
                            received, shutdown>>

\* A biased select!: the token comes first.
Task == \/ task \in {"sleeping", "pass"} /\ Become("select")
        \/ task = "select" /\ shutdown /\ Become("ended")
        \/ task = "select" /\ ~shutdown /\ Become("pass")

Panic == task = "pass" /\ Become("panicked")

\* The file is replaced between canonicalize() and the read.
Edit == /\ place = "load"
        /\ file' \in Files \cup {None}
        /\ UNCHANGED <<given, place, config, status, handled, received,
                       shutdown, task>>

\* A signal without a handler kills the process; the handlers are never
\* uninstalled, so a second signal changes nothing.
Deliver(s) == /\ place # "exited"
              /\ IF s \in handled
                 THEN /\ received' = received \cup {s}
                      /\ UNCHANGED <<given, file, place, config, status,
                                     handled, shutdown, task>>
                 ELSE Exit("killed")

Done == place = "exited" /\ UNCHANGED vars

Next == \/ Main \/ Task \/ Panic \/ Edit \/ Done
        \/ \E s \in Signal : Deliver(s)

Spec == Init /\ [][Next]_vars

\* main() and the task are scheduled; every pass ends by its timeouts.
FairSpec == Spec /\ WF_vars(Main) /\ WF_vars(Task)

-----------------------------------------------------------------------------
(* Properties.                                                             *)

\* The type invariant; a process that has ended has no task any more.
TypeOK == /\ given \in BOOLEAN
          /\ file \in Files \cup {None}
          /\ place \in {"args", "load", "parse", "validate", "select",
                        "drain", "exited"}
          /\ config \in Files \cup {None}
          /\ status \in {"none", "success", "invalid", "failure", "killed"}
          /\ handled \subseteq Signal
          /\ received \subseteq handled
          /\ shutdown \in BOOLEAN
          /\ Alive => place \in {"select", "drain"}

Quorums(raw, v) == {Q \in SUBSET DOMAIN raw.urls[v] :
                        Cardinality(Q) = raw.http_lookup_quorum}

Selected(raw) == {raw.versions[i] : i \in DOMAIN raw.versions}

\* A quorum can be found, and not two of them for different addresses.
LookupsSound(raw) ==
    \A v \in Selected(raw) :
        /\ Quorums(raw, v) # {}
        /\ \A P, Q \in Quorums(raw, v) : P \cap Q # {}

ProvidersSound(raw) ==
    /\ Len(raw.providers) > 0
    /\ \A i \in DOMAIN raw.providers :
           LET p == raw.providers[i] IN
           /\ Len(p.domains) > 0
           /\ p.type = "duckdns" =>
                  /\ p.token # "blank"
                  /\ {p.domains[j] : j \in DOMAIN p.domains} = {"plain"}

\* The limits of each field by itself, which hold whether a lookup uses the
\* field or not (config.rs:95-108).
WithinLimits(raw) ==
    /\ raw.interval > 0 /\ raw.connect_timeout \in 1..raw.timeout
    /\ raw.retries <= 10 /\ raw.http_lookup_quorum > 0
    /\ Cardinality(Selected(raw)) = Len(raw.versions)
    /\ Selected(raw) # {}
    /\ \A v \in Version : \A i \in DOMAIN raw.urls[v] : raw.urls[v][i] # "other"

\* What the fields in use have to be for each other.
SourceSound(raw) ==
    IF raw.source = "http" THEN LookupsSound(raw) ELSE raw.name # "blank"

\* What a configuration has to be, without the order of the checks.
Sound(raw) == WithinLimits(raw) /\ SourceSound(raw) /\ ProvidersSound(raw)

\* No client runs on a configuration whose lookups could never succeed, or
\* could accept two addresses from the same answers (config.rs:112-130), or
\* whose providers have nothing to update.
OnlySoundRuns == task # "none" => Sound(config)

\* Every refusal has a cause, whatever the order of the checks: a field
\* outside its own limits, lookups that could fail always or be split, an
\* interface without a name, or a provider that is not sound.  A URL that is
\* not HTTP(S) and a quorum of zero are such a cause even where no lookup uses
\* them (config.rs:105-108); how many URLs there are for the quorum is one
\* only for the selected versions of the source "http" (config.rs:110-127).
RefusedForCause ==
    status = "invalid" => \/ ~WithinLimits(config)
                          \/ ~SourceSound(config)
                          \/ ~ProvidersSound(config)

\* A process that reports success was asked to stop and has finished its
\* pass: the service manager need not restart it, and no push was cut short
\* (main.rs:74-88).
SuccessMeansDrained ==
    status = "success" => received # {} /\ task = "ended"

\* A task that panics ends the process, and not with success, whatever main()
\* is waiting for: the service manager restarts on failure.
PanicIsReported == task = "panicked" ~> status \in {"failure", "killed"}

\* Every signal ends the process, a pass or a second signal notwithstanding.
SignalEnds == received # {} ~> place = "exited"
=============================================================================
