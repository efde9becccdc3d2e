----------------------------- MODULE UpdateTask -----------------------------
(***************************************************************************)
(* What Provider::update() (src/providers.rs) promises the update loop,    *)
(* abstracted from requests and services: it touches only the records it   *)
(* was asked to change, gives them only the address it was asked for, and  *)
(* returns Ok only when all of them have it.  Two records of one name are  *)
(* not told apart: published is the set of addresses found under a name.   *)
(***************************************************************************)
EXTENDS IpUpdate

CONSTANTS Slot      \* the <<domain, version>> pairs the provider covers

VARIABLES
    update,     \* the argument of update()
    status,     \* what has become of the call
    published   \* [Slot -> the addresses of the records of that name]

vars == <<update, status, published>>

Asked == {s \in Slot : update[s[2]] # None}

Init == /\ update = NoAddress
        /\ status = "idle"
        /\ published \in [Slot -> SUBSET Addr]

Call(u) == /\ status # "running"
           /\ ~is_empty(u)
           /\ update' = u
           /\ status' = "running"
           /\ UNCHANGED published

\* A record is given the address, or one that has it is added.
Given(s) == /\ s \in Asked
            /\ update[s[2]] \in published'[s]
            /\ published'[s] \subseteq published[s] \cup {update[s[2]]}

\* Requests take effect, if need be after the task has given them up.
Publish == /\ status # "idle"
           /\ published' \in [Slot -> SUBSET Addr]
           /\ \A s \in Slot : published'[s] # published[s] => Given(s)
           /\ UNCHANGED update

Work == Publish /\ UNCHANGED status

Fail == /\ status = "running"
        /\ Publish
        /\ status' = "err"

Succeed == /\ status = "running"
           /\ Publish
           /\ \A s \in Asked : update[s[2]] \in published'[s]
           /\ status' = "ok"

Next == \/ \E u \in IpUpdates : Call(u)
        \/ Work \/ Fail \/ Succeed

Spec == Init /\ [][Next]_vars
=============================================================================
