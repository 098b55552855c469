------------------------------ MODULE HeardOnce ------------------------------
(***************************************************************************)
(* What the /we lane promises: a sibling hears a message at most once, at  *)
(* one instant, and what the author knows about it is true. It says        *)
(* nothing about carriers, retries, leases or crashes.                     *)
(***************************************************************************)
CONSTANTS Messages, Siblings, Instants, None

VARIABLES heard, known

vars == <<heard, known>>

Init ==
    /\ heard = [m \in Messages |-> [s \in Siblings |-> None]]
    /\ known = [m \in Messages |-> [s \in Siblings |-> None]]

Hear(m, s, t) ==
    /\ heard[m][s] = None
    /\ heard' = [heard EXCEPT ![m][s] = t]
    /\ UNCHANGED known

Learn(m, s) ==
    /\ heard[m][s] # None
    /\ known' = [known EXCEPT ![m][s] = heard[m][s]]
    /\ UNCHANGED heard

Next ==
    \E m \in Messages, s \in Siblings :
        Learn(m, s) \/ \E t \in Instants : Hear(m, s, t)

Spec == Init /\ [][Next]_vars
=============================================================================
