------------------------------- MODULE MCDspFf -------------------------------
(* DspFf on two DSP cells with three flops, with rules in the form of those  *)
(* for nexus, and the reading of files that are like them.                   *)
EXTENDS DspFf, TLC

MCCell    == {"u", "v"}
MCFlop    == {"f", "g", "h"}
MCConst   == {"0", "1", Unset}
MCNet     == MCConst \cup {"i", "u1", "v1", "fq", "gq", "hq", "c", "d", "r", "e"}
MCOutputs == {"Z", "Q"}
MCShared  == {"GSR", "MODE"}
MCIdle    == "clk" :> "0" @@ "rst" :> "0" @@ "ena" :> "1"

------------------------------------------------------------------------------
Line(kw, args, val) == [kw |-> kw, args |-> args, val |-> val]
Words(kw, args) == Line(kw, args, Nothing)
Pairs(kw, val)  == Line(kw, <<>>, val)
Port(p)         == [port |-> p, bits |-> 1 .. 2]

PortLines(ports, rst, ena, on) ==
    <<Words("port", ports), Words("clk", <<"CLK", "0">>),
      Words("rst", <<rst, "0">>), Words("ena", <<ena, "1">>),
      Pairs("set", on :> "REG"), Pairs("map", "GSR" :> "GSR"),
      Words("endport", <<>>)>>

FlopLines(name, mode) ==
    <<Words("ff", <<name>>), Words("clk", <<"CK">>), Words("rst", <<"CD">>),
      Words("ena", <<"SP">>), Words("d", <<"D">>), Words("q", <<"Q">>),
      Words("match", <<"GSR">>), Pairs("set", "MODE" :> mode),
      Words("endff", <<>>)>>

Rules ==
    <<Words("dsp", <<"MULT", "MULT2">>)>>
      \o PortLines(<<Port("A"), Port("SA")>>, "RSTAB", "CEAB", "REGA")
      \o PortLines(<<Port("B")>>, "RSTAB", "CEAB", "REGB")
      \o PortLines(<<Port("Z")>>, "RSTZ", "CEZ", "REGZ")
      \o <<Words("enddsp", <<>>)>>
      \o FlopLines("FI", "SYNC") \o FlopLines("FA", "ASYNC")
      \o <<Words("ff", <<"FN">>), Words("clk", <<"CK">>), Words("d", <<"D">>),
           Words("q", <<"Q">>), Pairs("require", "INV" :> "NO"),
           Pairs("set", "MODE" :> "SYNC"), Words("endff", <<>>)>>

(* Ports that differ or agree in what they say of their register.            *)
Sections ==
    {<<Words("dsp", <<"MULT", "MULT2">>), Words("port", <<Port("A"), Port("SA")>>)>>
       \o sets \o maps \o cons
       \o <<Words("endport", <<>>), Words("port", <<Port("B")>>)>>
       \o maps \o <<Words("endport", <<>>), Words("enddsp", <<>>)>> :
       sets \in {<<>>, <<Pairs("set", "REG" :> "A")>>,
                 <<Pairs("set", "REG" :> "A"), Pairs("set", "REG" :> "B")>>},
       maps \in {<<>>, <<Pairs("map", "GSR" :> "GSR")>>},
       cons \in {<<>>, <<Pairs("con", "E" :> "0"), Pairs("con", "E" :> "1")>>}}

(* The rules with a line missing or written twice: some load, most do not.   *)
Missing == {[i \in 1 .. Len(Rules) - 1 |-> Rules[IF i < k THEN i ELSE i + 1]] :
              k \in DOMAIN Rules}
Doubled == {[i \in 1 .. Len(Rules) + 1 |-> Rules[IF i <= k THEN i ELSE i - 1]] :
              k \in DOMAIN Rules}

------------------------------------------------------------------------------
(* A module.  Flops take d; u reads a, sa, b at its ports and both cells     *)
(* drive Z.                                                                  *)
Ff(q, d, clk, rst, ena) ==
    "D" :> <<d>> @@ "Q" :> <<q>> @@ "CK" :> <<clk>> @@ "CD" :> <<rst>>
      @@ "SP" :> <<ena>>
PlainFf(q, d)  == Ff(q, d, "c", "r", "e")
FfParam(gsr)   == "GSR" :> gsr @@ "INV" :> "NO"
Off == [k \in {"REGA", "REGB", "REGZ"} |-> "BYPASS"] @@ "GSR" :> "ON" @@ "MODE" :> "SYNC"

Module(types, u, v, f, g, h, set, out) ==
    [type |-> "u" :> "MULT" @@ "v" :> "MULT2" @@ types,
     pins |-> "u" :> u @@ "v" :> v @@ "f" :> f @@ "g" :> g @@ "h" :> h,
     param |-> set, keep |-> {}, read |-> {"fq"} \cap out, drive |-> {},
     in |-> {"i", "c", "d", "r", "e"}, out |-> out]

AllFI == [f \in MCFlop |-> "FI"]
AllOn == [c \in MCCell |-> Off] @@ [f \in MCFlop |-> FfParam("ON")]

(* Who feeds whom.                                                           *)
Wirings ==
    {Module(AllFI, "A" :> a @@ "SA" :> <<sa>> @@ "B" :> b @@ "Z" :> <<"u1">>,
            "A" :> c @@ "Z" :> <<"v1">>,
            PlainFf("fq", fd), PlainFf("gq", gd), PlainFf("hq", hd), AllOn, out) :
       a \in {<<"fq">>, <<"fq", "gq">>, <<"fq", "0">>}, sa \in {"0", "gq"},
       b \in {<<"gq">>, <<"fq">>}, c \in {<<"u1">>, <<"hq">>},
       fd \in {"i", "u1", "gq"}, gd \in {"i", "v1"}, hd \in {"v1", "fq", "u1"},
       out \in {{"hq"}, {"v1", "hq", "fq"}}}

Before == {Nothing, "CLK" :> <<"d">>, "RSTAB" :> <<"0">>, "CEAB" :> <<Unset>>}
UsedControls == "CLK" :> <<"c">> @@ "RSTAB" :> <<"r">> @@ "CEAB" :> <<"e">>

(* Which flops work alike, and what the cell has connected and set before.   *)
Works ==
    {Module("f" :> "FI" @@ "g" :> t @@ "h" :> s,
            "A" :> <<"fq", "0">> @@ "B" :> <<"gq">> @@ "Z" :> <<"u1">> @@ pre[on],
            "A" :> <<"i">> @@ "Z" :> <<"v1">>,
            PlainFf("fq", "i"), Ff("gq", "i", k, r, e), Ff("hq", "u1", "c", r, "e"),
            [AllOn EXCEPT !["g"] = FfParam(gsr), !["u"]["REGA"] = on],
            {"hq", "v1"}) :
       t \in {"FI", "FA"}, s \in {"FI", "FA"}, k \in {"c", "d"},
       r \in {"r", "0"}, e \in {"e", "1"}, gsr \in {"ON", "OFF"},
       on \in {"BYPASS", "REG"},
       pre \in {[o \in {"BYPASS", "REG"} |->
                   IF o = "REG" THEN UsedControls @@ p ELSE p] : p \in Before}}

(* Flops without reset and enable, and some that nothing but their own rule  *)
(* keeps out.                                                                *)
Simple ==
    {[Module([x \in MCFlop |-> IF x = "h" THEN "FX" ELSE "FN"],
             "A" :> <<"fq">> @@ "B" :> <<b>> @@ "Z" :> <<"u1">> @@ pre,
             "A" :> <<c>> @@ "Z" :> <<"v1">>,
             PlainFf("fq", "i"), PlainFf("gq", gd), PlainFf("hq", "gq"),
             [AllOn EXCEPT !["g"]["INV"] = inv], {"u1", "v1"})
        EXCEPT !.keep = keep] :
       b \in {"gq", "0"}, c \in {"hq", "gq"}, gd \in {"i", "u1"},
       inv \in {"NO", "YES"}, keep \in {{}, {"f"}},
       pre \in {Nothing, "RSTAB" :> <<"r">>}}

MCDesigns ==
    Rules :> Wirings \cup Works \cup Simple
      @@ [f \in Sections \cup Missing \cup Doubled |-> {}]
==============================================================================
