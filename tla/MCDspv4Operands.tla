--------------------------- MODULE MCDspv4Operands ---------------------------
EXTENDS Dspv4Operands

(* w bits of the inputs from bit i.                                          *)
In(i, w) == [j \in 1 .. w |-> <<"in", i + j - 1>>]
Bit(k)   == <<"const", k>>
Run(b, n) == [j \in 1 .. n |-> b]

(* An operand of w bits, with up to n zeros, copies of its top bit, or a one *)
(* above it.                                                                 *)
Extended(i, w, n) ==
    {In(i, w) \o Run(Zero, m) : m \in 0 .. n}
      \cup {In(i, w) \o Run(Top(In(i, w)), m) : m \in 0 .. n}
      \cup (IF n > 0 THEN {In(i, w) \o <<Bit(1)>>} ELSE {})

Above(net) == {net, net \o <<Top(net)>>, net \o <<Zero>>}

NoPre == [s \in {"sa", "sb"} |-> None]

(* A multiply alone, and with a register on it.                              *)
Multiplies ==
    UNION {{[a |-> a, b |-> b, signed |-> g, y |-> y, pre |-> NoPre, add |-> None, q |-> q] :
              a \in UNION {Extended(0, w, 2) : w \in 1 .. 4}, b \in Extended(4, 2, 2),
              g \in BOOLEAN, q \in {None} \cup Above(Bits("y", y))} :
              y \in {3, 4}}

(* A sum before the first port against operands of every width, before the   *)
(* second, before both, and with an adder behind.                            *)
Sum(i, x, j, y, g, w, sub) ==
    [sub |-> sub, x |-> In(i, x), y |-> In(j, y), signed |-> g, w |-> w]

Sums(i, j) ==
    UNION {{Sum(i, x, j, y, g, w, sub) :
             sub \in BOOLEAN, g \in BOOLEAN, w \in {Max({x, y}), Max({x, y}) + 1, 4}} :
             x \in 1 .. 3, y \in 1 .. 3}

Presums ==
    UNION {{[a |-> a, b |-> b, signed |-> g, y |-> y,
             pre |-> [sa |-> p, sb |-> None], add |-> None, q |-> None] :
              a \in Above(Bits("sa", p.w)), b \in {In(3, w) : w \in 1 .. 3},
              g \in BOOLEAN, y \in {3, 5}} :
              p \in Sums(0, 2)}

BothSums ==
    {[a |-> IF p = None THEN In(0, 3) ELSE Bits("sa", p.w), b |-> Bits("sb", q.w),
      signed |-> g, y |-> y, pre |-> [sa |-> p, sb |-> q], add |-> add, q |-> None] :
        p \in {None} \cup {Sum(0, x, 1, y, g, Max({x, y}) + 1, FALSE) :
                             x \in 1 .. 2, y \in 1 .. 2, g \in BOOLEAN},
        q \in {Sum(3, x, 4, 1, g, Max({x, 1}) + 1, sub) :
                             x \in 1 .. 3, g \in BOOLEAN, sub \in BOOLEAN},
        g \in BOOLEAN, y \in {3, 5},
        add \in {None} \cup {[kind |-> k, op |-> Bits("y", 5), c |-> In(4, 2), signed |-> TRUE,
                               w |-> 6] : k \in {"add", "rsub"}}}

(* Product, adder and register.                                              *)
Adders ==
    UNION {{[a |-> In(0, 3), b |-> In(3, 2), signed |-> g, y |-> y, pre |-> NoPre,
             add |-> [kind |-> k, op |-> op, c |-> c, signed |-> h, w |-> w],
             q |-> q] :
              k \in {"add", "sub", "rsub"}, op \in Above(Bits("y", y)),
              c \in {In(4, 2), In(4, 2) \o Run(Bit(1), 2), Run(Bit(1), 3) \o In(4, 2)},
              h \in BOOLEAN, q \in {None} \cup Above(Bits("s", w))} :
              g \in BOOLEAN, y \in {4, 5}, w \in 3 .. 6}

(* A product read k bits up, of a constant or of none.                       *)
Shiftings ==
    UNION {{[a |-> a, b |-> b, signed |-> g, y |-> y, pre |-> NoPre,
             add |-> [kind |-> k, op |-> Run(Zero, n) \o op, c |-> c, signed |-> h, w |-> w],
             q |-> None] :
              a \in {In(0, 1), In(0, 2), In(0, 3), <<Bit(1), Bit(1), Bit(0)>>},
              b \in {In(3, 2), <<Bit(1)>>, <<Bit(1), Bit(1)>>, <<Bit(1), Bit(0)>>},
              k \in {"add", "sub"}, op \in Above(Bits("y", y)), n \in 1 .. 2,
              c \in {In(4, 2), In(4, 1) \o Bits("y", 1)}, w \in {5, 6}} :
              g \in BOOLEAN, h \in BOOLEAN, y \in 2 .. 4}

MCDesigns ==
    {d \in Multiplies \cup Presums \cup BothSums \cup Adders \cup Shiftings :
       /\ d.y <= Len(d.a) + Len(d.b)
       /\ d.add # None => d.y <= Len(d.add.op)}
==============================================================================
