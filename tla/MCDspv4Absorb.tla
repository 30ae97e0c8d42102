---------------------------- MODULE MCDspv4Absorb ----------------------------
(* Dspv4Absorb with two multiplies, two adders and three registers.  The     *)
(* adder T and the register F are two bits wide, so an operand can be all of *)
(* a sum or of a register, or a part of it.                                  *)
EXTENDS Dspv4Absorb, TLC

MCMul  == {"m1", "m2"}
MCAdd  == {"s", "T"}
MCFlop == {"F", "G", "H"}
MCBit  == {"m1", "m2", "s", "T0", "T1", "F0", "F1", "G", "H", "in"}
MCY    == [c \in MCMul \cup MCAdd \cup MCFlop |->
             CASE c = "T" -> {"T0", "T1"} [] c = "F" -> {"F0", "F1"}
               [] OTHER -> {c}]
MCCtl  == {"k", "j"}
In     == {"in"}

------------------------------------------------------------------------------
(* Registers that are shared.  An operand can take part of F or mix it with  *)
(* another register; H can be a second stage of F and G, an operand of its   *)
(* own, or the result register of a multiply, and may be unfit for a bank or *)
(* have controls of its own.  The adders read inputs only.                   *)
SharedWire(a1, a2, b2, f0, g, h, out, pad, bank, k) ==
    [a |-> "m1" :> a1 @@ "m2" :> a2, b |-> "m1" :> In @@ "m2" :> b2,
     x |-> [s \in MCAdd |-> In], y |-> [s \in MCAdd |-> In],
     next |-> "F0" :> f0 @@ "F1" :> "G" @@ "G" :> g @@ "H" :> h,
     out |-> out \cup {"s", "T0", "T1"}, padded |-> pad, bankable |-> bank, plain |-> MCFlop,
     ctl |-> [f \in MCFlop |-> IF f = "H" THEN k ELSE "k"]]

MCShared ==
    {SharedWire(a1, a2, b2, f0, g, h, out, fit[1], fit[2], fit[3]) :
       a1 \in {{"F0", "F1"}, {"G"}, {"F0", "G"}},
       a2 \in {{"F0", "F1"}, {"F1"}, {"G"}, {"H"}, {"m1"}},
       b2 \in {In, {"H"}}, f0 \in {"G", "H"},
       g \in {"H", "in", "m1"}, h \in {"in", "m1", "m2"},
       out \in {{"m1", "m2"}, {"m2", "H"}},
       fit \in {<<{}, MCFlop, "k">>, <<{"G"}, MCFlop, "k">>, <<{}, MCFlop \ {"H"}, "k">>,
                <<{}, MCFlop, "j">>}}

------------------------------------------------------------------------------
(* Registers that can play several roles.                                    *)
Sum == MCY["T"]
Reg == MCY["F"]

(* Bits nothing reads are outputs; `extra' are outputs that are read as well.*)
RolesWire(a, b, x, y, g, h, f, extra) ==
    [a |-> a, b |-> b, x |-> x, y |-> y,
     next |-> "G" :> g @@ "H" :> h @@ "F0" :> f[1] @@ "F1" :> f[2],
     out |-> (MCBit \ (UNION {a[m] \cup b[m] : m \in MCMul}
                         \cup UNION {x[s] \cup y[s] : s \in MCAdd}
                         \cup {g, h, f[1], f[2], "in"})) \cup extra,
     padded |-> {}, bankable |-> MCFlop, plain |-> MCFlop,
     ctl |-> [r \in MCFlop |-> "k"]]

(* Chains of multiplies and adders: a register can be the M, P, C or operand *)
(* register of either.                                                       *)
MCChains ==
    {RolesWire("m1" :> a1 @@ "m2" :> a2, "m1" :> In @@ "m2" :> In,
               "s" :> x1 @@ "T" :> x2, "s" :> y1 @@ "T" :> y2, g, h, f, extra) :
       a1 \in {In, {"H"}}, a2 \in {In, {"G"}, Reg},
       x1 \in {{"m1"}, {"G"}}, y1 \in {In, {"m2"}, {"H"}, Reg},
       x2 \in {{"s"}, {"m2"}}, y2 \in {In, {"H"}, Reg},
       g \in {"m1", "s", "in"}, h \in {"T0", "s", "G"},
       f \in {<<"T0", "T1">>, <<"H", "H">>}, extra \in {{}, {"G"}}}

(* Pre-adders with and without the AD register F, next to an operand that is *)
(* the sum T, a part of it, or a register T reads.                           *)
MCPreadders ==
    {RolesWire("m1" :> a1 @@ "m2" :> a2, "m1" :> b1 @@ "m2" :> In,
               "T" :> x @@ "s" :> {"m1"}, "T" :> y @@ "s" :> c, g, h, f, {}) :
       a1 \in {Sum, Reg}, b1 \in {In, {"H"}, {"T1"}, Sum, {"F1"}},
       a2 \in {{"H"}, In}, x \in {{"H"}, In}, y \in {In, {"G"}},
       c \in {{"H"}, {"G"}}, g \in {"s", "m2"}, h \in {"in", "G"},
       f \in {<<"T0", "T1">>, <<"H", "G">>}}

(* The adder s is before and behind the same multiply, with a register in    *)
(* the loop: read by nothing else, or by an output as well.                  *)
MCLoops ==
    {RolesWire("m1" :> w[1] @@ "m2" :> In, "m1" :> In @@ "m2" :> b,
               "s" :> w[2] @@ "T" :> In, "s" :> y @@ "T" :> {"m2"}, w[3], h,
               <<"s", "in">>, extra) :
       w \in {<<{"s"}, {"G"}, "m1">>, <<Reg, {"m1"}, "in">>}, b \in {In, {"H"}},
       y \in {In, {"H"}}, h \in {"in", "G"}, extra \in {{}, Reg, {"s"}}}

MCDesigns == MCShared \cup MCChains \cup MCPreadders \cup MCLoops
=============================================================================
