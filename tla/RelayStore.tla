----------------------------- MODULE RelayStore -----------------------------
(***************************************************************************)
(* What the event store promises, without tables: a relay is the set of    *)
(* events it has received, and what it shows is a function of that set, so *)
(* the order of arrival and repetitions do not matter.  An event is shown  *)
(* unless its author deleted it or published a newer version at the same   *)
(* address.                                                                *)
(***************************************************************************)
EXTENDS Events

VARIABLES
    received,   \* every event received so far
    shown       \* the events a query can return

Current(S) ==
    {e \in S : \A g \in S : ~Supersedes(g, e) /\ ~HiddenBy(e, g)}

Init == received = {} /\ shown = {}

Receive(n) ==
    /\ received' = received \cup {n}
    /\ shown' = Current(received')

Next == \E n \in Id : Receive(n)

Spec == Init /\ [][Next]_<<received, shown>>

=============================================================================
