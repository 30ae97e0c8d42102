----------------------------- MODULE Accumulators -----------------------------
(* What a module's accumulators promise its user: every register powers up   *)
(* as its RTL says and then follows its RTL, edge by edge.  Nothing is said  *)
(* of how many cells do it.                                                  *)
EXTENDS AccLoops

VARIABLES
    design,   \* the RTL
    on,       \* the module is powered
    q,        \* what is seen of each register
    in        \* the inputs of the next edge

vars == <<design, on, q, in>>

Init ==
    /\ design \in Designs
    /\ on = FALSE
    /\ q = [l \in Acc |-> 0]
    /\ in \in Inputs

PowerUp ==
    /\ ~on /\ on' = TRUE
    /\ q' \in [Acc -> Value]
    /\ \A l \in Acc : PowersUpAt(design.flop[l], q'[l])
    /\ in' \in Inputs
    /\ UNCHANGED design

Edge ==
    /\ on
    /\ q' = [l \in Acc |-> Clocked(design.flop[l], in, q[l],
                                   Of(q, in, design.a[l]),
                                   Of(q, in, design.b[l]))]
    /\ in' \in Inputs
    /\ UNCHANGED <<design, on>>

Next == PowerUp \/ Edge

Spec == Init /\ [][Next]_vars
===============================================================================
