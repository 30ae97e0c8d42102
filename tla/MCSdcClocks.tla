----------------------------- MODULE MCSdcClocks -----------------------------
(* SdcClocks on a pad, an input buffer, global buffers in front of a PLL and *)
(* behind it, and a second PLL.                                              *)
EXTENDS SdcClocks

MCWire == {"pad", "i", "b", "c", "p", "q", "r", "s", "t"}
MCName == MCWire \cup {"clk"}

Buf(v, w)  == [in |-> v, out |-> w]
Pll(v, k, o) == [in |-> v, pin |-> "CLKIN1", pll |-> TRUE, clkin |-> k,
                 mult |-> 2, outs |-> o]
Out(w, d)  == [wire |-> w, div |-> d]
Mmcm(v, p) == [in |-> v, pin |-> p, pll |-> FALSE, clkin |-> 0, mult |-> 1,
               outs |-> {}]

MCDesigns ==
    {[ibuf |-> ibuf, bufg |-> first \cup behind,
      dividers |-> {Pll(in, 8, {Out("p", 1)} \cup more)} \cup other] :
       ibuf \in {{}, {Buf("pad", "i")}},
       first \in {{Buf("i", "b")}, {Buf("i", "b"), Buf("b", "c")},
                  {Buf("i", "b"), Buf("i", "c")}},
       behind \in {{}, {Buf("p", "q"), Buf("q", "t")}},
       in \in {"b", "c"}, more \in {{}, {Out("r", 4)}},
       other \in {{}, {Mmcm("b", "CLKIN1")}, {Mmcm("b", "CLKIN2")},
                  {[Pll("b", 8, {Out("s", 2)}) EXCEPT !.pin = "CLKIN2"]},
                  {Pll("q", 4, {Out("s", 8)})}}}

Create(n, p, t) == [name |-> n, period |-> p, rise |-> 0, fall |-> p \div 2,
                    targets |-> t]

MCCommand ==
    {Create("clk", 8, {"pad"}), Create("i", 8, {"i"}), Create("b", 16, {"b"}),
     Create("q", 4, {"q"}), Create("i", 16, {"i"}), Create("b", 8, {"b", "c"}),
     [Create("i", 8, {"i"}) EXCEPT !.rise = 2, !.fall = 6],
     Create("clk", 8, {})}
=============================================================================
