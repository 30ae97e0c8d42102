------------------------------- MODULE AccLoops -------------------------------
(* Registers fed by an adder, as merge_accumulators() of                     *)
(* src/ql-qlf-plugin/ql-dspv4.cc finds them, and what they compute.          *)
(*                                                                           *)
(* An accumulator Acc is a flop whose D is the whole sum of an $add or $sub  *)
(* of its own; it stands for the two cells, and for the net of its Q.  A     *)
(* control net is taken with its polarity.  Every other net is Free: it may  *)
(* have any value in any cycle.  Combinational logic behind registers is     *)
(* Free too: the pass changes none of it, and equal inputs give it equal     *)
(* values.  The value arithmetic is that of a register that wraps around.    *)
EXTENDS Integers

CONSTANTS
    Acc,      \* the accumulators
    Free,     \* the other data nets
    Control,  \* clock, enable and reset nets
    NoNet,    \* no such port
    Modulus,  \* two to the width of a register
    Designs,  \* the modules
    Inputs    \* what may arrive with an edge

Value == 0..(Modulus - 1)
X     == -1            \* power-up value that is not given
Net   == Acc \cup Free

(* The flop has an enable and a synchronous reset, or not; `init' is the     *)
(* power-up value of Q.                                                      *)
Flop == [op : {"add", "sub"}, clk : Control, en : Control \cup {NoNet},
         rst : Control \cup {NoNet}, resetTo : Value, init : Value \cup {X}]

(* Ports A and B of each adder; `sum' names the net of its sum if another    *)
(* adder may read it; `read' are the accumulators whose sum something else   *)
(* reads, `keep' those whose flop or adder is marked keep.                   *)
DesignType ==
    [flop : [Acc -> Flop], a : [Acc -> Net], b : [Acc -> Net],
     sum : [Acc -> Free \cup {NoNet}], read : SUBSET Acc, keep : SUBSET Acc]

(* The control nets that are active at an edge -- clocks that tick, enables, *)
(* resets -- and the values of the Free nets.                                *)
Input == [on : SUBSET Control, free : [Free -> Value]]

ASSUME AccAssumption ==
    /\ Acc \cap Free = {} /\ NoNet \notin Net \cup Control
    /\ Modulus \in Nat \ {0}
    /\ Designs \subseteq DesignType
    /\ Inputs \subseteq Input

------------------------------------------------------------------------------
(* One clock edge of a module whose registers have the values q.             *)

Of(q, i, n) == IF n \in Acc THEN q[n] ELSE i.free[n]

Alu(op, x, y) == IF op = "add" THEN (x + y) % Modulus ELSE (x - y) % Modulus

(* $sdff and $sdffe: the reset needs the clock and goes before the enable.   *)
Clocked(f, i, old, x, y) ==
    IF f.clk \notin i.on THEN old
    ELSE IF f.rst \in i.on THEN f.resetTo
    ELSE IF f.en # NoNet /\ f.en \notin i.on THEN old
    ELSE Alu(f.op, x, y)

PowersUpAt(f, v) == f.init = X \/ v = f.init
===============================================================================
