----------------------------- MODULE MCDspv4Merge -----------------------------
(* Dspv4Merge on modules with three accumulators of values 0, 1 and 2.       *)
EXTENDS Dspv4Merge, TLC

MCAcc     == {"p", "q", "r"}
MCFree    == {"x", "s"}
MCControl == {"clk", "clk2", "en", "rst"}
MCInputs  == [on : {{"clk"}, {"clk", "en"}, {"clk", "clk2", "rst"}},
              free : {[n \in MCFree |-> v] : v \in {0, 1}}]

Reg(op, clk, en, rst, to, init) ==
    [op |-> op, clk |-> clk, en |-> en, rst |-> rst, resetTo |-> to,
     init |-> init]
Plain(op) == Reg(op, "clk", NoNet, "rst", 0, X)

(* Who adds what: q beside p, r behind either of them, in any order of ports.*)
MCWirings ==
    {[flop |-> [l \in MCAcc |-> IF l = "r" THEN Plain(op) ELSE Plain("sub")],
      a |-> "p" :> pa @@ "q" :> qa @@ "r" :> ra,
      b |-> "p" :> pb @@ "q" :> qb @@ "r" :> rb,
      sum |-> [l \in MCAcc |-> NoNet], read |-> {}, keep |-> {}] :
       op \in {"add", "sub"}, pa \in {"p", "q"}, pb \in {"x", "q", "p"},
       qa \in {"q", "x"}, qb \in {"x", "q", "p", "r"}, ra \in {"r", "q"},
       rb \in {"x", "p", "q", "r"}}

(* Two accumulators of one input that differ in a control, a reset or a      *)
(* power-up value, and a third that reads one of them.                       *)
MCControls ==
    {[flop |-> [l \in MCAcc |-> IF l = "p" THEN Reg("add", "clk", e, s, t, i)
                                ELSE IF l = "q" THEN Reg("add", c, f, s, 0, j)
                                ELSE Plain("add")],
      a |-> [l \in MCAcc |-> l],
      b |-> "p" :> "x" @@ "q" :> "x" @@ "r" :> "q",
      sum |-> [l \in MCAcc |-> NoNet], read |-> {}, keep |-> k] :
       c \in {"clk", "clk2"}, e \in {NoNet, "en"}, f \in {NoNet, "en"},
       s \in {NoNet, "rst"},
       t \in {0, 1}, i \in {X, 0, 1}, j \in {X, 0, 1}, k \in {{}, {"q"}}}

(* The sum of p, net s, is read by r, which may go first, or elsewhere.      *)
MCSums ==
    {[flop |-> [l \in MCAcc |-> Plain("add")],
      a |-> "p" :> "p" @@ "q" :> "q" @@ "r" :> "r",
      b |-> "p" :> "x" @@ "q" :> qb @@ "r" :> "s",
      sum |-> "p" :> "s" @@ "q" :> NoNet @@ "r" :> NoNet,
      read |-> k, keep |-> {}] :
       qb \in {"x", "s"}, k \in {{}, {"p"}, {"q"}, {"r"}}}

MCDesigns == MCWirings \cup MCControls \cup MCSums
===============================================================================
