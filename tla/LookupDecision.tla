--------------------------- MODULE LookupDecision ---------------------------
(***************************************************************************)
(* What an HTTP lookup of one IP version promises (README: "Number of      *)
(* matching HTTP lookup responses required before accepting an IP          *)
(* address"): it accepts an address only when enough of the URLs have      *)
(* reported it, and gives up only when every URL has spoken and no address *)
(* has enough reports.                                                     *)
(***************************************************************************)
CONSTANTS
    Url,        \* the lookup URLs of one IP version
    Addr,       \* addresses
    Quorum,     \* the sets of URLs whose agreement is enough
    Failure,    \* what a URL that reports no address says
    Pending     \* nothing yet

VARIABLES reply, result

Reports(a) == {u \in Url : reply[u] = a}

HasQuorum(a) == Reports(a) \in Quorum

Init == /\ reply = [u \in Url |-> Pending]
        /\ result = Pending

Say(u, x) == /\ result = Pending
             /\ reply[u] = Pending
             /\ reply' = [reply EXCEPT ![u] = x]
             /\ UNCHANGED result

Accept(a) == /\ result = Pending
             /\ HasQuorum(a)
             /\ result' = a
             /\ UNCHANGED reply

GiveUp == /\ result = Pending
          /\ \A u \in Url : reply[u] # Pending
          /\ \A a \in Addr : ~HasQuorum(a)
          /\ result' = Failure
          /\ UNCHANGED reply

Next == \/ \E u \in Url, x \in Addr \cup {Failure} : Say(u, x)
        \/ \E a \in Addr : Accept(a)
        \/ GiveUp

Spec == Init /\ [][Next]_<<reply, result>>
=============================================================================
