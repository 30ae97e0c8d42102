-------------------------- MODULE MCSynthQuicklogic --------------------------
(* SynthQuicklogic on sources of each front end under combinations of        *)
(* options, and on IPs that link and that do not.                            *)
EXTENDS SynthQuicklogic, TLC

MCTop == "top"
MCCopyName(t, i) == t \o "$" \o i
MCMetrics == {[nd |-> n, lev |-> l] : n \in 1 .. 3, l \in 1 .. 3} \cup {[nd |-> 0, lev |-> 0]}

Default ==
    [family |-> "qlf_k6n10f", nodsp |-> FALSE, inferBram |-> TRUE,
     bramTypes |-> FALSE, bramecc |-> FALSE, notdpram |-> FALSE,
     inferAdder |-> TRUE, synplify |-> FALSE, dspv2 |-> FALSE, dspv4 |-> FALSE,
     noOpt |-> FALSE, abcOpt |-> TRUE, abc9 |-> TRUE, de |-> "", noffmap |-> FALSE,
     nosdff |-> FALSE, noffenable |-> FALSE, v3 |-> FALSE, blif |-> TRUE,
     edif |-> FALSE, verilog |-> FALSE]

(* What the two front ends bring.                                            *)
Products == {<<"$mul", w>> : w \in {"macc", "fits", "small", "narrow", "wide"}}
Logic    == {<<"$dff", "plain">>, <<"$dff", "en">>, <<"$dff", "sr">>, <<"$gate", "or">>,
             <<"$add", "sum">>}
Memories == {<<"$mem", "large">>, <<"$mem", "tiny">>}
Placed   == {<<"QL_DSP4", "inst">>, <<"QL_DSPV2", "inst">>}
Netlists == {<<"LUT6", "or">>, <<"dffre", "plain">>, <<"OBUF_FF", "pad">>}

Plain(opts, things) ==
    [o |-> opts, items |-> things, ips |-> <<>>,
     module |-> MCTop :> [box |-> FALSE, ports |-> "t", clk |-> FALSE, cells |-> <<>>]]

Blocks ==
    {Plain([Default EXCEPT !.dspv2 = v2, !.dspv4 = v4, !.nodsp = no, !.synplify = syn],
           (IF syn THEN Netlists ELSE Logic \cup s) \cup p) :
       v2 \in BOOLEAN, v4 \in BOOLEAN, no \in BOOLEAN, syn \in BOOLEAN,
       s \in SUBSET Products, p \in SUBSET Placed}

Ram ==
    {Plain([Default EXCEPT !.inferBram = bram, !.bramTypes = types, !.bramecc = ecc,
                           !.notdpram = no, !.synplify = syn, !.v3 = v3],
           IF syn THEN Netlists \cup {<<"RAMB36E2", "ram">>} ELSE Logic \cup Memories) :
       bram \in BOOLEAN, types \in BOOLEAN, ecc \in BOOLEAN, no \in BOOLEAN,
       syn \in BOOLEAN, v3 \in BOOLEAN}

Ffs ==
    {Plain([Default EXCEPT !.noffmap = map, !.nosdff = sd, !.noffenable = en,
                           !.noOpt = opt, !.inferAdder = add, !.family = fam],
           Logic \cup (IF fam = "qlf_k4n8" THEN {} ELSE {<<"$mem", "tiny">>})) :
       map \in BOOLEAN, sd \in BOOLEAN, en \in BOOLEAN, opt \in BOOLEAN,
       add \in BOOLEAN, fam \in {"qlf_k6n10f", "qlf_k4n8"}}

Luts ==
    {Plain([Default EXCEPT !.abc9 = nine, !.abcOpt = opt, !.de = de, !.synplify = syn],
           IF syn THEN Netlists ELSE Logic) :
       nine \in BOOLEAN, opt \in BOOLEAN, de \in {"delay", "area", "mixed"},
       syn \in BOOLEAN}

------------------------------------------------------------------------------
(* IPs: two files, two instances of one of them.                             *)
Def(box, clk, ports, cells) == [box |-> box, clk |-> clk, ports |-> ports, cells |-> cells]
Cell(type, rel) == [type |-> type, rel |-> rel, macro |-> "", net |-> ""]
Inst(type, net) == [type |-> type, rel |-> "none", macro |-> "", net |-> net]
NoCells == <<>>

FfBox == Def(TRUE, FALSE, "q", NoCells)
IpCells(rel) == "l" :> Cell("$lut", rel) @@ "f" :> Cell("dffre", "full")

MCIpFile ==
    [f \in {"a", "again", "b", "partial", "plain", "two", "ports", "prim", "nested"} |->
       "dffre" :> [FfBox EXCEPT !.ports = IF f = "prim" THEN "p" ELSE "q"]
       @@ (CASE f \in {"a", "again"} -> "A" :> Def(FALSE, TRUE, "i", IpCells("full"))
             [] f = "b"       -> "B" :> Def(FALSE, TRUE, "i", IpCells("none"))
             [] f = "partial" -> "A" :> Def(FALSE, TRUE, "i", IpCells("partial"))
             [] f = "plain"   -> "A" :> Def(FALSE, TRUE, "i", "l" :> Cell("$lut", "none"))
             [] f = "two"     -> "A" :> Def(FALSE, TRUE, "i", IpCells("full"))
                                 @@ "B" :> Def(FALSE, TRUE, "i", IpCells("full"))
             [] f = "ports"   -> "A" :> Def(FALSE, TRUE, "o", IpCells("full"))
             [] f = "prim"    -> "A" :> Def(FALSE, TRUE, "i", IpCells("full"))
             [] f = "nested"  -> "A" :> Def(FALSE, TRUE, "i",
                                   IpCells("full") @@ "b" :> Cell("B", "none"))
                                 @@ "B" :> Def(TRUE, FALSE, "i", NoCells))]

Library == "dffre" :> Def(TRUE, TRUE, "q", NoCells) @@ "$lut" :> Def(TRUE, FALSE, "l", NoCells)
Stub    == Def(TRUE, FALSE, "i", NoCells)

Ips ==
    {[o |-> [Default EXCEPT !.dspv4 = v4, !.edif = edif, !.verilog = TRUE, !.blif = blif],
      items |-> Logic \cup (IF v4 THEN {<<"$mul", "fits">>} ELSE {}), ips |-> files,
      module |->
        MCTop :> Def(FALSE, FALSE, "t", insts) @@ "A" :> stub @@ "B" :> Stub
          @@ "sub" :> Def(FALSE, FALSE, "s", inside) @@ Library] :
       v4 \in BOOLEAN, edif \in BOOLEAN, blif \in BOOLEAN,
       files \in {<<"a">>, <<"a", "b">>, <<"b", "a">>, <<"a", "again">>, <<"two">>,
                  <<"partial">>, <<"plain">>, <<"ports">>, <<"prim">>,
                  <<"nested">>, <<"b", "nested">>},
       insts \in {"x" :> Inst("A", "ck1") @@ "y" :> Inst("A", "ck2")
                    @@ "z" :> Inst("B", "clk"),
                  "x" :> Inst("A", "ck1"), NoCells},
       inside \in {NoCells, "w" :> Inst("B", "clk")},
       stub \in {Stub, [Stub EXCEPT !.box = FALSE]}}

MCClockedTypes == {"dffre"}

MCSources == Blocks \cup Ram \cup Ffs \cup Luts \cup Ips
==============================================================================
