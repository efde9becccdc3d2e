------------------------------- MODULE Ticker -------------------------------
(***************************************************************************)
(* When the update loop runs its passes (src/client.rs, run()): tokio's    *)
(* Interval with MissedTickBehavior::Skip, the sleep before the first      *)
(* pass, passes that may take longer than the interval, and a shutdown     *)
(* that is requested at any moment.  Time is counted in whole units from   *)
(* the creation of the interval, up to MaxTime.                            *)
(***************************************************************************)
EXTENDS Integers

CONSTANTS
    Interval,   \* the configured interval
    StartDelay, \* the two seconds before the loop
    Tolerance,  \* up to this lateness (5 ms) tokio takes a tick for timely
    MaxPass,    \* the longest pass: its lookups and updates have timeouts
    MaxTime     \* a bound for the model checker

ASSUME TickerAssumption ==
    /\ Interval \in Nat \ {0}
    /\ {StartDelay, Tolerance, MaxPass, MaxTime} \subseteq Nat
    /\ Tolerance < Interval

Never == -1

VARIABLES
    now,
    deadline,   \* when the next tick is due
    phase,      \* where the task is
    since,      \* when it came there
    last,       \* history: when the last pass began
    asked       \* when the token was cancelled

vars == <<now, deadline, phase, since, last, asked>>

Init == /\ now = 0
        /\ deadline = 0
        /\ phase = "sleeping"
        /\ since = 0
        /\ last = Never
        /\ asked = Never

Enter(p) == phase' = p /\ since' = now

\* Mutant: MissedTickBehavior::Burst, tokio's default.
next_burst == deadline + Interval

\* Mutant: MissedTickBehavior::Delay.
next_delay == IF now > deadline + Tolerance THEN now + Interval
                                            ELSE deadline + Interval

\* Mutant: the lateness is added where it should be taken off.
next_too_far == IF now > deadline + Tolerance
                THEN now + Interval + ((now - deadline) % Interval)
                ELSE deadline + Interval

\* MissedTickBehavior::Skip: the next multiple of the interval.
next_timeout == IF now > deadline + Tolerance
                THEN now + Interval - ((now - deadline) % Interval)
                ELSE deadline + Interval

WakeUp == /\ phase = "sleeping"
          /\ now >= StartDelay
          /\ Enter("select")
          /\ UNCHANGED <<now, deadline, last, asked>>

\* The select! is biased: the token is looked at before the tick.
Stop == /\ phase = "select"
        /\ asked # Never
        /\ Enter("stopped")
        /\ UNCHANGED <<now, deadline, last, asked>>

\* Mutant: the select! is not biased.
TickUnbiased == /\ phase = "select"
                /\ now >= deadline
                /\ Enter("pass")
                /\ deadline' = next_timeout
                /\ last' = now
                /\ UNCHANGED <<now, asked>>

\* A tick is due, and a pass begins.
Tick == /\ phase = "select"
        /\ asked = Never
        /\ now >= deadline
        /\ Enter("pass")
        /\ deadline' = next_timeout
        /\ last' = now
        /\ UNCHANGED <<now, asked>>

\* Mutant: the interval begins at the end of the pass.
EndPassReset == /\ phase = "pass"
                /\ Enter("select")
                /\ deadline' = now + Interval
                /\ UNCHANGED <<now, last, asked>>

EndPass == /\ phase = "pass"
           /\ Enter("select")
           /\ UNCHANGED <<now, deadline, last, asked>>

Shutdown == /\ asked = Never
            /\ phase # "stopped"
            /\ asked' = now
            /\ UNCHANGED <<now, deadline, phase, since, last>>

\* The task is polled as soon as what it waits for is ready.
Patient == \/ phase = "sleeping" /\ now < StartDelay
           \/ phase = "select" /\ asked = Never /\ now < deadline
           \/ phase = "pass" /\ now < since + MaxPass

Elapse == /\ Patient
          /\ now < MaxTime
          /\ now' = now + 1
          /\ UNCHANGED <<deadline, phase, since, last, asked>>

Next == WakeUp \/ Stop \/ Tick \/ EndPass \/ Shutdown \/ Elapse

Spec == Init /\ [][Next]_vars

-----------------------------------------------------------------------------
(* Properties.                                                             *)

Longest(m, n) == IF m >= n THEN m ELSE n

\* The type invariant; in the loop the next tick is never further away than
\* an interval.
TypeOK == /\ now \in 0..MaxTime
          /\ deadline \in 0..(now + Interval)
          /\ phase \in {"sleeping", "select", "pass", "stopped"}
          /\ since \in 0..now
          /\ last \in Never..now
          /\ asked \in Never..now

\* However long the passes before it took, no two passes begin in the same
\* period, counted from the start of the client: the services are never
\* asked in a burst to make up for missed ticks (client.rs:71-72).
OnePassPerPeriod ==
    [][last' # last /\ last # Never =>
          last' \div Interval > last \div Interval]_vars

\* The passes do not drift away from the grid of the interval.
KeepsGrid == [][deadline' # deadline => deadline' % Interval = 0]_vars

\* The loop does not fall silent: while it runs, the last pass began no
\* longer ago than the interval, or than one overlong pass.
NeverSilent ==
    phase \in {"select", "pass"} =>
        now - Longest(last, StartDelay) <= Longest(Interval, MaxPass)

\* A shutdown waits for the first sleep or for one pass, and never for
\* another, although a tick is pending after every overlong pass.
StopsInTime ==
    asked # Never /\ phase # "stopped" =>
        now - asked <= Longest(StartDelay, MaxPass)
=============================================================================
