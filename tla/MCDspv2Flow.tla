---------------------------- MODULE MCDspv2Flow ----------------------------
(* Dspv2Flow on running sums with and without a multiplexer, on one cell in  *)
(* every mode with every register, and on two and three cells in cascades.   *)
EXTENDS Dspv2Flow

MCTie == [vcc |-> "1", gnd |-> "0"]
MCFresh(x, i) == x \o "_" \o ToString(i)
MCV4Name(x) == x \o "_DSP4"
MCExtra(x) == x \o "_new"
MCClass(x) == IF x = "Mw" THEN "wide" ELSE "fits"
MCMixedSigns == {"Ms"}

------------------------------------------------------------------------------
(* Running sums.                                                             *)
Mul(a, b, y) == [kind |-> "mul", a |-> a, b |-> b, y |-> y]
Adder(kind, a, b, y) == [kind |-> kind, a |-> a, b |-> b, y |-> y]
Mux(a, b, s, y) == [kind |-> "mux", a |-> a, b |-> b, s |-> s, y |-> y]
Ff(x, d, q, en, rst) ==
    [kind |-> "ff", origin |-> x, d |-> d, q |-> q, clk |-> "clk", rst |-> rst, en |-> en,
     posedge |-> x # "Fn"]

Swapped(kind, a, b, y, swap) == Adder(kind, IF swap THEN b ELSE a, IF swap THEN a ELSE b, y)

Loop(m, f, kind, swap, muxed, s, en) ==
    (m :> Mul("a", "b", "y"))
      @@ ("A" :> Swapped(kind, "y", "q", "t", swap))
      @@ (IF muxed = "none" THEN <<>>
          ELSE "X" :> IF muxed = "a" THEN Mux("y", "t", s, "d") ELSE Mux("t", "y", s, "d"))
      @@ (f :> Ff(f, IF muxed = "none" THEN "t" ELSE "d", "q", en, Sig("0")))

Sums ==
    {[cells |-> Loop(m, f, kind, swap, muxed, s, en), reads |-> r, v2 |-> two, step |-> "macc"] :
       m \in {"M", "Mw", "Ms"}, f \in {"F", "Fn"}, kind \in {"add", "sub"}, swap \in BOOLEAN,
       muxed \in {"none", "a", "b"}, s \in {"s", "gnd", "1"}, en \in {Sig("1"), Inverted(Sig("e"))},
       r \in {{"q"}, {"t"}, {"d"}, {"q", "t"}, {"q", "y"}, {"t", "y"}}, two \in BOOLEAN}

(* Two sums, the second of products of the first.                            *)
TwoLoops(muxed, other) ==
    Loop("M", "F", "add", FALSE, muxed, "s", Sig("1"))
      @@ ("M2" :> Mul(other, "b2", "y2")) @@ ("A2" :> Adder("add", "q2", "y2", "t2"))
      @@ ("F2" :> Ff("F2", "t2", "q2", Sig("e"), Sig("r")))
Nested ==
    {[cells |-> TwoLoops(muxed, other), reads |-> r, v2 |-> two, step |-> "macc"] :
       muxed \in {"none", "b"}, other \in {"q", "t", "y", "a"},
       r \in {{"q2"}, {"q2", "q"}, {"t2"}}, two \in BOOLEAN}

------------------------------------------------------------------------------
(* QL_DSPV2 cells.                                                           *)
Cell(x, m, osel) ==
    [kind |-> "v2", type |-> "QL_DSPV2", origin |-> x,
     a |-> "a" \o x, acin |-> "ac" \o x, b |-> "b" \o x, c |-> "c" \o x,
     z |-> "z" \o x, zcout |-> "o" \o x, zcin |-> "gnd",
     clk |-> "clk", reset |-> Sig("0"), accrst |-> Sig("0"), load |-> Sig("1"),
     fb |-> m.fb, fsel |-> Sig("0"), osel |-> osel,
     asel |-> FALSE, areg |-> {}, breg |-> {}, creg |-> FALSE, bcreg |-> FALSE,
     mreg |-> FALSE, zsel |-> m.zsel, pre |-> m.pre, sub |-> m.sub,
     rss |-> FALSE, v2only |-> FALSE]

ModeBits(fb, zsel, pre, sub) == [fb |-> fb, zsel |-> zsel, pre |-> pre, sub |-> sub]
Modes ==
    {<<ModeBits(0, FALSE, p, s), o>> : p \in BOOLEAN, s \in BOOLEAN, o \in {0, 1, 4, 5}}
      \cup {<<ModeBits(2, FALSE, FALSE, FALSE), o>> : o \in {2, 3, 7}}
      \cup {<<ModeBits(3, z, p, s), o>> : z \in BOOLEAN, p \in BOOLEAN, s \in BOOLEAN, o \in {2, 3, 7}}

Regs == {{}, {"R"}, {"1"}, {"2"}, {"1", "2"}, {"R", "2"}}

One ==
    {[Cell("U", m[1], m[2]) EXCEPT !.areg = ar, !.breg = br, !.mreg = mr, !.zcin = "k"] :
       m \in Modes, ar \in Regs, br \in {{}, {"R"}}, mr \in BOOLEAN}
    \cup {[Cell("U", m[1], m[2]) EXCEPT !.creg = cr, !.bcreg = bc, !.mreg = mr, !.zcin = "k"] :
       m \in {n \in Modes : n[1].pre}, cr \in BOOLEAN, bc \in BOOLEAN, mr \in BOOLEAN}
    \cup {[Cell("U", m[1], m[2]) EXCEPT !.reset = Sig("r"), !.accrst = Sig(ar), !.load = Sig(l),
                                   !.mreg = mr, !.rss = rs, !.zcout = o] :
       m \in Modes, ar \in {"0", "r", "ra"}, l \in {"vcc", "e"}, mr \in BOOLEAN, rs \in BOOLEAN,
       o \in {"oU", "zU"}}
    \cup {[Cell("U", m[1], m[2]) EXCEPT !.asel = as, !.fb = IF as THEN @ ELSE 8,
                                   !.zcout = o] : m \in Modes, as \in BOOLEAN, o \in {"oU", Open}}

Singles ==
    {[cells |-> "U" :> c, reads |-> {"zU"}, v2 |-> TRUE, step |-> s] :
       c \in One, s \in {"types", "decode"}}

(* Cascades.                                                                 *)
Heads == {<<ModeBits(0, FALSE, FALSE, FALSE), 0>>, <<ModeBits(0, FALSE, FALSE, FALSE), 5>>,
          <<ModeBits(2, FALSE, FALSE, FALSE), 2>>, <<ModeBits(2, FALSE, FALSE, FALSE), 7>>,
          <<ModeBits(3, TRUE, FALSE, TRUE), 7>>}
Followers == {<<ModeBits(3, TRUE, FALSE, FALSE), 3>>, <<ModeBits(3, TRUE, TRUE, FALSE), 6>>,
              <<ModeBits(3, TRUE, FALSE, TRUE), 2>>}
Ends == {<<ModeBits(3, TRUE, FALSE, FALSE), 7>>, <<ModeBits(0, FALSE, TRUE, FALSE), 0>>}

Cascade(u, w, x, from, ra, rb, rs, m, one) ==
    ("U" :> [Cell("U", u[1], u[2]) EXCEPT !.areg = ra, !.breg = rb, !.rss = rs,
                                          !.zcout = IF one THEN "zU" ELSE @])
      @@ ("W" :> [Cell("W", w[1], w[2]) EXCEPT !.zcin = IF one THEN "zU" ELSE "oU", !.mreg = m,
                                               !.areg = {"2"}, !.clk = IF rs THEN "clk2" ELSE @])
      @@ ("X" :> [Cell("X", x[1], x[2]) EXCEPT !.zcin = IF one /\ from = "oU" THEN "zU" ELSE from])

Cascades ==
    {[cells |-> Cascade(u, w, x, from, ra, rb, h = "rss", h = "m", one),
      reads |-> IF one THEN {"zW", "zX"} ELSE {"zU", "zW", "zX"}, v2 |-> TRUE, step |-> s] :
       u \in Heads, w \in Followers, x \in Ends, from \in {"oU", "zU", "oW", "gnd"},
       ra \in {{}, {"R"}}, rb \in {{}, {"1", "2"}}, h \in {"none", "rss", "m"},
       one \in BOOLEAN, s \in {"types", "decode"}}

(* A cell that feeds two by its two outputs, and takes a cascade or not.     *)
BothOutputs ==
    {[cells |-> ("G" :> Cell("G", g[1], g[2])) @@ ("U" :> [Cell("U", u[1], u[2]) EXCEPT !.zcin = k])
                  @@ ("W" :> [Cell("W", w[1], w[2]) EXCEPT !.zcin = "zU"])
                  @@ ("X" :> [Cell("X", x[1], x[2]) EXCEPT !.zcin = "oU"]),
      reads |-> {"zW", "zX"}, v2 |-> TRUE, step |-> "decode"] :
       g \in Heads, u \in Followers, w \in Followers, x \in Followers, k \in {"gnd", "oG"}}

(* The same where another cell is fed by what feeds the cell.                *)
TwoChains ==
    {[cells |-> ("G" :> Cell("G", g[1], g[2]))
                  @@ ("U" :> [Cell("U", f[1], f[2]) EXCEPT !.zcin = "oG"])
                  @@ ("V" :> [Cell("V", f[1], f[2]) EXCEPT !.zcin = k])
                  @@ ("W" :> [Cell("W", f[1], f[2]) EXCEPT !.zcin = "oU"])
                  @@ ("X" :> [Cell("X", f[1], f[2]) EXCEPT !.zcin = "oU"]),
      reads |-> {"zV", "zW", "zX"}, v2 |-> TRUE, step |-> "decode"] :
       g \in Heads, f \in Followers, k \in {"zG", "gnd", "zW"}}

MCDesigns == BothOutputs \cup TwoChains \cup Sums \cup Nested \cup Singles \cup Cascades
=============================================================================
