----------------------------- MODULE MCPackFlow -----------------------------
(* PackFlow on three and four DSP halves in one or two configurations, on    *)
(* block RAMs of either kind, and on two registers between ports.            *)
EXTENDS PackFlow, TLC

MCOpen == "open"
MCNothing == "none"
MCTie == [vcc |-> "1", gnd |-> "0"]
MCPad(p, i) == p \o ToString(i)
MCNewFlop(p, i) == "ff_" \o p \o ToString(i)
MCSimdNumbered(n) == "simd" \o ToString(n)
MCMergedName(x, y) == x \o "+" \o y
MCSplitName(x, y) == "bram_" \o x \o "_" \o y
MCBlockType(t, m, i, o) ==
    t \o "_" \o m \o (IF i THEN "_REGIN" ELSE "") \o (IF o THEN "_REGOUT" ELSE "")

------------------------------------------------------------------------------
(* DSP halves.  Net ck2 is connected with ck.                                *)
MCClocks == {"ck", "ck2", "cl", "open"}
MCRoot == [n \in MCClocks |-> IF n = "ck2" THEN "ck" ELSE n]

Fb(ones, may) == [ones |-> ones, may |-> may]
Control(clk, fb) == [clk |-> clk, load_acc |-> "ld", subtract |-> "sb", feedback |-> fb]
Words(osel, regin) ==
    [output_select |-> osel, register_inputs |-> IF regin THEN 1 ELSE 0, post |-> "ps"]

Half(x, type, clk, fb, osel, regin, fir, dly, keep, inferred) ==
    [type |-> type, own |-> "coeff_" \o x, keep |-> keep, split |-> FALSE, inferred |-> inferred,
     conf |-> IF type = DspPorts THEN Control(clk, fb) @@ Words(osel, regin) ELSE Control(clk, fb),
     mode |-> IF type = DspPorts THEN <<>> ELSE Words(osel, regin),
     in |-> [a |-> "a" \o x, b |-> "b" \o x, acc_fir |-> fir],
     out |-> [z |-> "z" \o x, dly_b |-> IF dly THEN "d" \o x ELSE MCOpen]]

(* What ql_dsp_macc and dsp_map.v infer.                                     *)
Inferred(x, type, k) ==
    CASE k = "mul" -> Half(x, type, MCOpen, Fb(0, {0}), 0, FALSE, "0", FALSE, FALSE, TRUE)
      [] k = "acc" -> Half(x, type, "ck", Fb(0, {0}), 1, FALSE, "0", FALSE, FALSE, TRUE)
      [] k = "sum" -> Half(x, type, "ck2", Fb(0, {0, 1}), 3, FALSE, "0", FALSE, FALSE, TRUE)

Explicit(x, type, k, fir, dly, keep) ==
    Half(x, type, k.clk, k.fb, k.osel, k.regin, fir, dly, keep, FALSE)
Kind(clk, fb, osel, regin) == [clk |-> clk, fb |-> fb, osel |-> osel, regin |-> regin]
Kinds ==
    {Kind(clk, fb, osel, FALSE) :
       clk \in {"ck", "cl"}, fb \in {Fb(0, {0}), Fb(1, {1}), Fb(2, {2})}, osel \in {0, 3, 5, 6}}
      \cup {Kind("ck2", Fb(0, {0}), 3, FALSE), Kind("ck", Fb(0, {0}), 0, TRUE)}

MCNone == [i |-> [dir |-> "in", bits |-> <<"i0">>]]
OfCells(cs, s) == [cells |-> cs, flops |-> <<>>, ports |-> MCNone, ioFF |-> TRUE, step |-> s]

Dsps ==
    {OfCells("u" :> Inferred("u", t, k) @@ "v" :> Inferred("v", t, l) @@ "w" :> Inferred("w", s, m),
             "simd") : t \in {DspPorts, DspParams}, s \in {DspPorts, DspParams},
                       k \in {"mul", "acc", "sum"}, l \in {"mul", "acc", "sum"},
                       m \in {"mul", "acc", "sum"}}
      \cup
    {OfCells("u" :> Explicit("u", t, k, "f", d, FALSE) @@ "v" :> Explicit("v", t, l, "f", d, kp)
               @@ (IF third THEN "w" :> Inferred("w", t, "acc") ELSE <<>>), "simd") :
       t \in {DspPorts, DspParams}, k \in Kinds, l \in Kinds, d \in BOOLEAN, kp \in BOOLEAN,
       third \in BOOLEAN}
      \cup
    {OfCells("u" :> Inferred("u", t, k) @@ "v" :> Inferred("v", t, k)
               @@ "w" :> Explicit("w", t, Kind("ck", Fb(0, {0}), o, FALSE), "f", d, FALSE)
               @@ "x" :> Explicit("x", t, Kind("ck2", Fb(0, {0}), 1, FALSE), "f", d, FALSE), "simd") :
       t \in {DspPorts, DspParams}, k \in {"mul", "acc", "sum"}, o \in {1, 3}, d \in BOOLEAN}

(* Two pairs of DSPs that ql_dsp_macc and dsp_map.v infer: two multiplies    *)
(* and two accumulators.                                                     *)
TwoPairs ==
    {OfCells("u" :> Inferred("u", t, "mul") @@ "v" :> Inferred("v", t, "mul")
               @@ "w" :> Inferred("w", t, "acc") @@ "x" :> Inferred("x", t, "acc"), "simd") :
       t \in {DspPorts, DspParams}}

(* A pair, and another cell that has its name.                               *)
Named ==
    {OfCells("u" :> Inferred("u", t, "mul") @@ "v" :> Inferred("v", t, "mul")
               @@ "simd0" :> Inferred("w", t, k), "simd") :
       t \in {DspPorts, DspParams}, k \in {"mul", "acc"}}

------------------------------------------------------------------------------
(* Block RAMs.                                                               *)
Ram(x, type, mode, split, keep, open) ==
    [type |-> type, conf |-> <<>>, mode |-> mode, own |-> "init_" \o x,
     in |-> [wr |-> "w" \o x, addr |-> IF open THEN MCOpen ELSE "a" \o x],
     out |-> [rd |-> "r" \o x], keep |-> keep, split |-> split, inferred |-> FALSE]

Rams ==
    {OfCells("u" :> Ram("u", SdpMerge, <<>>, TRUE, FALSE, FALSE)
               @@ "v" :> Ram("v", t, <<>>, s, FALSE, o) @@ "w" :> Ram("w", SdpMerge, <<>>, r, FALSE, FALSE)
               @@ "x" :> Ram("x", t, <<>>, TRUE, k, FALSE), "brams") :
       t \in {SdpMerge, TdpMerge}, s \in BOOLEAN, o \in BOOLEAN, r \in BOOLEAN, k \in BOOLEAN}
      \cup
    {OfCells("u" :> Ram("u", SdpSplit, "m", FALSE, FALSE, o)
               @@ "v" :> Ram("v", t, m, FALSE, FALSE, o) @@ "w" :> Ram("w", SdpSplit, "m", FALSE, k, FALSE)
               @@ "x" :> Ram("x", t, m, FALSE, FALSE, FALSE), "split") :
       t \in {SdpSplit, TdpSplit}, m \in {"m", "n"}, o \in BOOLEAN, k \in BOOLEAN}

------------------------------------------------------------------------------
(* Registers and ports.                                                      *)
Register(type, d, q, e, r) == [type |-> type, c |-> "ck", d |-> d, q |-> q, e |-> e, r |-> r]
Lut(in, out) == "L" :> [type |-> "lut", in |-> in, out |-> out]

IoPorts(o1, o2, p, dir) ==
    [i |-> [dir |-> "in", bits |-> <<"i0", "r">>], o |-> [dir |-> "out", bits |-> <<o1, o2>>],
     p |-> [dir |-> dir, bits |-> <<p>>]]

Registered ==
    {[cells |-> <<>>,
      flops |-> "F" :> Register(f, "i0", "qF", ef, rf) @@ "G" :> Register(g, dg, "qG", "vcc", rg)
                  @@ Lut({li}, "l"),
      ports |-> IoPorts(o1, o2, p, dir), ioFF |-> io, step |-> "ioff"] :
       f \in {"dffre", "sdffnre"}, g \in {"sdffre", "dffnre"}, ef \in {"1", "e"}, rf \in {"vcc", "r"},
       rg \in {"1", "r"}, dg \in {"l", "i0", "qF"}, li \in {"i0", "qF", "qG", "r"},
       o1 \in {"qF", "qG"}, o2 \in {"qG", "l", "i0"}, p \in {"qG", "i0"},
       dir \in {"out", "inout", "in"}, io \in BOOLEAN}

(* A flip-flop of the IO cell is there before, at an input that is read      *)
(* elsewhere as well.                                                        *)
Placed ==
    {[d EXCEPT !.flops = [@ EXCEPT !["F"] = [@ EXCEPT !.type = "dff", !.e = MCNothing, !.r = MCNothing]]] :
       d \in {d \in Registered : ~d.ioFF /\ d.flops["F"].e = "1" /\ d.flops["F"].r = "vcc"
                                /\ d.flops["F"].type = "dffre" /\ d.flops["G"].d = "i0"}}

MCDesigns == Dsps \cup TwoPairs \cup Named \cup Rams
               \cup {d \in Registered \cup Placed : d.ports.p.dir = "in" => d.ports.p.bits # <<"qG">>}
=============================================================================
