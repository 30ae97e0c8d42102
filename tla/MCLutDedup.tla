------------------------------ MODULE MCLutDedup ------------------------------
EXTENDS LutDedup, FiniteSets

CONSTANTS n1, n2, n3

MCNet == {n1, n2, n3}

(* n2 is another wire of net n1.                                             *)
MCRoot == [n \in MCNet |-> IF n = n2 THEN n1 ELSE n]

MCLut == {"x", "y"}

Parity == [S \in SUBSET Inputs(4) |-> Cardinality(S) % 2 = 1]

(* A cell that needs three rounds, or none, next to every LUT of 1 to 3      *)
(* inputs.                                                                   *)
Others == {[width |-> 4, a |-> [i \in Inputs(4) |-> CASE i = 1 -> n3 [] OTHER -> n1],
            lut |-> [Parity EXCEPT ![{0, 2}] = ~@]],
           [width |-> 1, a |-> [i \in Inputs(1) |-> n3], lut |-> [S \in SUBSET Inputs(1) |-> S = {}]]}

Tables(w) == [width : {w}, a : [Inputs(w) -> {n1, n2, n3}], lut : [SUBSET Inputs(w) -> BOOLEAN]]
Small == Tables(1) \cup Tables(2)
           \cup {l \in Tables(3) : ~l.lut[{}]}

MCDesigns == {[c \in MCLut |-> IF c = "x" THEN s ELSE o] : s \in Small, o \in Others}
=============================================================================
