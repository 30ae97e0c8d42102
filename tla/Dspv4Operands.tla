---------------------------- MODULE Dspv4Operands ----------------------------
(* The numbers a QL_DSP4 computes: which operand goes to which port, what is *)
(* stripped from it, when the pre-adder and the adder are folded in, and the *)
(* coefficients that are widened first.  src/ql-qlf-plugin/ql-dspv4.cc       *)
(*                                                                           *)
(* A design is one $mul, with a $add or $sub before either port ("sa", "sb"),*)
(* behind it ("s") and a register at the end, each of them or none.  A bit   *)
(* is <<net, index>>, a signal a sequence of bits from the lowest.  The bits *)
(* of net "const" are 0 and 1, those of "in" are the module's inputs.  An M  *)
(* register between "y" and the adder only delays and is left out.           *)
EXTENDS Integers, Sequences, SequencesExt, FiniteSetsExt

CONSTANTS
    AWidth, BWidth, CWidth, DWidth, PWidth,  \* widths of the ports
    Inputs,   \* number of input bits
    Designs,
    None

Signal == Seq({"const", "in", "sa", "sb", "y", "s"} \X Nat)

(* One expression has one sign.  A pre-adder, an adder and a register may be *)
(* missing.                                                                  *)
DesignType ==
    [a : Signal, b : Signal, signed : BOOLEAN, y : Nat \ {0},
     pre : [{"sa", "sb"} ->
              {None} \cup [x : Signal, y : Signal, signed : BOOLEAN, sub : BOOLEAN, w : Nat]],
     add : {None} \cup [kind : {"add", "sub", "rsub"}, op : Signal, c : Signal,
                        signed : BOOLEAN, w : Nat],
     q : {None} \cup Signal]

(* P has room for a whole product, 32 + 18 bits, and a product is no wider   *)
(* than its operands make it.                                                *)
ASSUME OperandsAssumption ==
    /\ {AWidth, BWidth, CWidth, DWidth, PWidth, Inputs} \subseteq Nat \ {0}
    /\ AWidth + BWidth <= PWidth
    /\ Designs \subseteq DesignType
    /\ \A d \in Designs : d.y <= Len(d.a) + Len(d.b)

VARIABLES
    given,   \* the design before the pass
    design,  \* the design the matcher sees
    refused, \* the offers refused; None before the coefficient is looked at
    cell     \* the QL_DSP4, or None

operandsVars == <<given, design, refused, cell>>

Bits(n, w) == [i \in 1 .. w |-> <<n, i - 1>>]
Zero      == <<"const", 0>>
Top(sig)  == sig[Len(sig)]
Zeros(k)  == [i \in 1 .. k |-> Zero]

(* What wreduce and the RTL put above a value: its sign, or zeros.           *)
Pad(sig, signed) == IF signed THEN Top(sig) ELSE Zero

(* dspv4_extends_cleanly(), and the three loops that are written out.        *)
ExtendsCleanly(wide, narrow, signed) ==
    /\ IsPrefix(narrow, wide)
    /\ \A i \in Len(narrow) + 1 .. Len(wide) : wide[i] = Pad(narrow, signed)

PortsOf(d) == [sa |-> d.a, sb |-> d.b]
Other(s)  == IF s = "sa" THEN "sb" ELSE "sa"
Product(d) == Bits("y", d.y)

------------------------------------------------------------------------------
(* What the nets are worth when the inputs are v: a value for each net.      *)

BitOf(x, i) == (x \div 2 ^ i) % 2

Value(sig, signed, at) ==
    LET n == Len(sig)
        From[i \in 1 .. n + 1] ==
          IF i > n THEN 0 ELSE BitOf(at[sig[i][1]], sig[i][2]) + 2 * From[i + 1]
        x == From[1]
    IN  IF signed /\ n > 0 /\ x >= 2 ^ (n - 1) THEN x - 2 ^ n ELSE x

PlusMinus(x, y, sub) == IF sub THEN x - y ELSE x + y

Values(d, v) ==
    LET in == [const |-> 2, in |-> v]
        Sum(p) == IF p = None THEN 0
                  ELSE PlusMinus(Value(p.x, p.signed, in), Value(p.y, p.signed, in), p.sub)
                         % 2 ^ p.w
        pre == [const |-> 2, in |-> v, sa |-> Sum(d.pre.sa), sb |-> Sum(d.pre.sb)]
        y   == (Value(d.a, d.signed, pre) * Value(d.b, d.signed, pre)) % 2 ^ d.y
        mul == [const |-> 2, in |-> v, sa |-> pre.sa, sb |-> pre.sb, y |-> y]
        add == d.add
        op  == Value(add.op, add.signed, mul)
        c   == Value(add.c, add.signed, mul)
        s   == IF add = None THEN 0
               ELSE (CASE add.kind = "add"  -> op + c
                       [] add.kind = "sub"  -> c - op
                       [] add.kind = "rsub" -> op - c) % 2 ^ add.w
    IN  [const |-> 2, in |-> v, sa |-> pre.sa, sb |-> pre.sb, y |-> y, s |-> s]

(* The cell: two's complement at every port, AD wraps (preadd_path.v and     *)
(* pmult of dspv4_sim.v).                                                    *)
Wrapped(x, w) ==
    LET m == x % 2 ^ w
    IN  IF m >= 2 ^ (w - 1) THEN m - 2 ^ w ELSE m

P(c, at) ==
    LET port(sig) == Value(sig, TRUE, at)
        x  == IF c.pre = "sb" THEN port(c.B) ELSE port(c.A)
        ad == Wrapped(PlusMinus(port(c.D), x, c.sub), AWidth)
        a  == IF c.pre = "sa" THEN ad ELSE port(c.A)
        b  == IF c.pre = "sb" THEN Wrapped(ad, BWidth) ELSE port(c.B)
    IN  (CASE c.alu = "mult" -> a * b
           [] c.alu = "add"  -> port(c.C) + a * b
           [] c.alu = "sub"  -> port(c.C) - a * b
           [] c.alu = "rsub" -> a * b - port(c.C)) % 2 ^ PWidth

------------------------------------------------------------------------------
(* Helpers on operands.                                                      *)

(* The multiplier is signed: an unsigned operand needs a spare bit.          *)
Fits(w, signed, port) == w <= IF signed THEN port ELSE port - 1

(* The first n bits, n the least such that all bits above bit n - 1 + keep   *)
(* are `bit'.                                                                *)
RunBegins(sig, bit) ==
    LET others == {i \in 1 .. Len(sig) : sig[i] # bit}
    IN  IF others = {} THEN 0 ELSE Max(others)

(* Faulty form of Strip: what was extended with zeros stays signed.          *)
StripAsIs(sig, signed) ==
    LET n == IF Top(sig) = Zero THEN RunBegins(sig, Zero) ELSE Len(sig)
    IN  [sig |-> SubSeq(sig, 1, IF n = 0 THEN 1 ELSE n), signed |-> signed]

(* dspv4_strip_extension(): zeros at the top go, and with them the sign; of  *)
(* equal bits of a wire one stays.                                           *)
Strip(sig, signed) ==
    LET zeros == RunBegins(sig, Zero)
        signs == RunBegins(sig, Top(sig)) + 1
    IN  CASE Len(sig) < 2 -> [sig |-> sig, signed |-> signed]
          [] Len(sig) >= 2 /\ Top(sig) = Zero ->
               [sig |-> SubSeq(sig, 1, IF zeros = 0 THEN 1 ELSE zeros), signed |-> FALSE]
          [] Len(sig) >= 2 /\ Top(sig)[1] # "const" ->
               [sig |-> SubSeq(sig, 1, signs), signed |-> signed]
          [] OTHER -> [sig |-> sig, signed |-> signed]

SignedWidth(sig) == IF Len(sig) <= 1 THEN Len(sig) ELSE RunBegins(sig, Top(sig)) + 1

(* preadder_sum_width(): one more than the wider operand.                    *)
SumWidth(p) == 1 + Max({SignedWidth(p.x), SignedWidth(p.y)})

(* dspv4_fit().                                                              *)
Fit(op, w) ==
    IF Len(op.sig) > w THEN SubSeq(op.sig, 1, w)
    ELSE op.sig \o [i \in 1 .. w - Len(op.sig) |-> Pad(op.sig, op.signed)]

------------------------------------------------------------------------------
(* refold_shifted_coefficients().                                            *)

IsConst(sig) == \A i \in DOMAIN sig : sig[i][1] = "const"

(* Where the adder reads the product: k zeros below it and its padding above.*)
(* A bit read twice stops it, the padding of a signed product included.      *)
Shifts(d) ==
    {k \in 1 .. Len(d.add.op) - d.y :
       /\ \A i \in 1 .. k : d.add.op[i] = Zero
       /\ ExtendsCleanly(SubSeq(d.add.op, k + 1, Len(d.add.op)), Product(d), d.signed)
       /\ ~d.signed \/ Len(d.add.op) = k + d.y
       /\ \A i \in DOMAIN d.add.c : d.add.c[i][1] # "y"}

(* Faulty form of Roomy: only the wider port is asked.                       *)
RoomyAtA(wc, wo, signed) == Fits(wc, signed, AWidth) \/ Fits(wo, signed, AWidth)

Roomy(wc, wo, signed) ==
    \/ Fits(wc, signed, AWidth) /\ Fits(wo, signed, BWidth)
    \/ Fits(wc, signed, BWidth) /\ Fits(wo, signed, AWidth)

(* Faulty form of Shifted: the constant is widened at the top.               *)
ShiftedAbove(d, k, port) ==
    LET wide == [d EXCEPT ![port] = @ \o Zeros(k), !.y = @ + k]
    IN  [wide EXCEPT !.add.op = Product(wide) \o SubSeq(d.add.op, wide.y + 1, Len(d.add.op))]

Shifted(d, k, port) ==
    LET wide == [d EXCEPT ![port] = Zeros(k) \o @, !.y = @ + k]
        rest == Len(d.add.op) - wide.y
    IN  [wide EXCEPT !.add.op = Product(wide)
                                  \o [i \in 1 .. rest |-> Pad(Product(wide), d.signed)]]

Refolded(d) ==
    LET port  == IF IsConst(d.b) THEN "b" ELSE "a"
        const == d[port]
        other == IF port = "b" THEN d.a ELSE d.b
        k     == Min(Shifts(d))
    IN  IF /\ d.add # None /\ Shifts(d) # {}
           /\ IsConst(const) /\ Roomy(Len(const) + k, Len(other), d.signed)
        THEN Shifted(d, k, port) ELSE d

Refold ==
    /\ refused = None
    /\ design' = Refolded(design)
    /\ refused' = {}
    /\ UNCHANGED <<given, cell>>

------------------------------------------------------------------------------
(* What the pattern offers: the optional cells it found, or fewer.           *)

Result(d, add) == IF add THEN Bits("s", d.add.w) ELSE Product(d)

PresAt(d) ==
    {s \in {"sa", "sb"} : /\ d.pre[s] # None
                          /\ IsPrefix(Bits(s, d.pre[s].w), PortsOf(d)[s])}

OffersOf(d) ==
    {o \in [pre : SUBSET PresAt(d), add : BOOLEAN, q : BOOLEAN] :
       /\ o.add => d.add # None /\ IsPrefix(Product(d), d.add.op)
       /\ o.q => d.q # None /\ IsPrefix(Result(d, o.add), d.q)}

(* The last optional cell is varied first.                                   *)
Rank(o) ==
    LET without(b, n) == IF b THEN 0 ELSE n
    IN  without("sa" \in o.pre, 8) + without("sb" \in o.pre, 4)
          + without(o.add, 2) + without(o.q, 1)

Left == OffersOf(design) \ refused
Offer == CHOOSE o \in Left : \A p \in Left : Rank(o) <= Rank(p)

------------------------------------------------------------------------------
(* emit(): the pre-adder.                                                    *)

Unsafe(d, s) ==
    LET p    == d.pre[s]
        port == PortsOf(d)[s]
    IN  \/ p.w < SumWidth(p)
        \/ p.signed # d.signed
        \/ p.sub /\ ~d.signed /\ d.y > p.w
        \/ ~ExtendsCleanly(port, Bits(s, p.w), d.signed)

(* Which operand is on D: the written order, or for a sum the other one if   *)
(* only that fits or, of two that fit, it takes more registers (a choice).   *)
Orders(p, width) ==
    LET fits(x, y) == Fits(Len(x), p.signed, DWidth) /\ Fits(Len(y), p.signed, width)
        written    == fits(p.x, p.y)
        swapped    == ~p.sub /\ fits(p.y, p.x)
    IN  (IF written THEN {<<p.x, p.y>>} ELSE {}) \cup (IF swapped THEN {<<p.y, p.x>>} ELSE {})

Path(d, s, to, width, otherWidth) ==
    LET p == d.pre[s]
        o == PortsOf(d)[Other(s)]
    IN  IF SumWidth(p) <= width /\ Fits(Len(o), d.signed, otherWidth)
        THEN {[pre |-> to, sub |-> p.sub, d |-> x[1], x |-> x[2], other |-> o] :
                x \in Orders(p, width)}
        ELSE {}

(* The A path, and if it does not take the sum the B path.                   *)
Folds(d, s, add) ==
    LET onA == Path(d, s, "sa", AWidth, BWidth)
    IN  IF Unsafe(d, s) \/ (add /\ d.add.kind # "add") THEN {}
        ELSE IF onA # {} THEN onA ELSE Path(d, s, "sb", BWidth, AWidth)

(* The wider of two sums is tried first.                                     *)
Folded(d, o) ==
    LET first == IF \/ o.pre = {"sb"}
                    \/ o.pre = {"sa", "sb"} /\ SumWidth(d.pre.sb) > SumWidth(d.pre.sa)
                 THEN "sb" ELSE "sa"
        f == Folds(d, first, o.add)
    IN  CASE o.pre = {} -> {}
          [] o.pre # {} /\ f = {} /\ Cardinality(o.pre) = 2 -> Folds(d, Other(first), o.add)
          [] OTHER -> f

------------------------------------------------------------------------------
(* emit(): result, product and operands.                                     *)

(* The register is taken if it holds the result, extended with its sign.     *)
Registers(d, o) ==
    /\ o.q /\ Len(d.q) <= PWidth
    /\ ExtendsCleanly(d.q, Result(d, o.add), IF o.add THEN d.add.signed ELSE d.signed)

Out(d, o) == IF Registers(d, o) THEN d.q ELSE Result(d, o.add)

(* The RTL drops bits of the product and reads the result above the cut.     *)
Cut(d, o) == d.y < Len(d.a) + Len(d.b) /\ Len(Out(d, o)) > d.y

Refuses(d, o) ==
    \/ Len(Result(d, o.add)) > PWidth
    \/ Cut(d, o)
    \/ o.add /\ ~ExtendsCleanly(d.add.op, Product(d), d.signed)
    \/ o.add /\ Len(d.add.c) > CWidth
    \/ o.add /\ \E i \in DOMAIN d.add.c : d.add.c[i][1] = "y"

Signed(sig, signed) == [sig |-> sig, signed |-> signed]

Cell(d, o, a, b, f) ==
    [A |-> Fit(Strip(a, d.signed), AWidth),
     B |-> Fit(Strip(b, d.signed), BWidth),
     C |-> IF o.add THEN Fit(Signed(d.add.c, d.add.signed), CWidth) ELSE <<>>,
     D |-> IF f = None THEN <<>> ELSE Fit(Strip(f.d, d.signed), DWidth),
     pre |-> IF f = None THEN "none" ELSE f.pre,
     sub |-> f # None /\ f.sub,
     alu |-> IF o.add THEN d.add.kind ELSE "mult",
     out |-> Out(d, o)]

(* Without a pre-adder both assignments are tried; of two that fit, the      *)
(* wider operand goes to A.  The pre-adder has its own.                      *)
ByWidth(d, o) ==
    LET fits(a, b) == Fits(Len(a), d.signed, AWidth) /\ Fits(Len(b), d.signed, BWidth)
        swap == ~fits(d.a, d.b) \/ (fits(d.b, d.a) /\ Len(d.b) > Len(d.a))
    IN  IF ~fits(d.a, d.b) /\ ~fits(d.b, d.a) THEN {}
        ELSE {IF swap THEN Cell(d, o, d.b, d.a, None) ELSE Cell(d, o, d.a, d.b, None)}

Cells(d, o) ==
    IF Refuses(d, o) THEN {}
    ELSE IF Folded(d, o) = {} THEN ByWidth(d, o)
    ELSE {IF f.pre = "sa" THEN Cell(d, o, f.x, f.other, f) ELSE Cell(d, o, f.other, f.x, f) :
            f \in Folded(d, o)}

Emit ==
    /\ refused # None /\ cell = None /\ Left # {}
    /\ \/ /\ cell' \in Cells(design, Offer)
          /\ UNCHANGED refused
       \/ /\ Cells(design, Offer) = {}
          /\ refused' = refused \cup {Offer}
          /\ UNCHANGED cell
    /\ UNCHANGED <<given, design>>

Done == refused # None /\ (cell # None \/ Left = {})

Resting == Done /\ UNCHANGED operandsVars

OperandsInit ==
    /\ given \in Designs
    /\ design = given
    /\ refused = None /\ cell = None

OperandsNext == Refold \/ Emit \/ Resting

OperandsSpec == OperandsInit /\ [][OperandsNext]_operandsVars
------------------------------------------------------------------------------
(* Folding a shift into the coefficient changes neither the sum nor, on the  *)
(* net that held it, the product (ql-dspv4.cc:2279-2294).                    *)
RefoldKeepsValues ==
    refused # None =>
      \A v \in 0 .. 2 ^ Inputs - 1 :
        LET old == Values(given, v)
            new == Values(design, v)
        IN  new.s = old.s /\ new.y \div 2 ^ (design.y - given.y) = old.y

(* What the cell drives is worth what it is in the RTL.                      *)
ResultKept ==
    cell # None =>
      \A v \in 0 .. 2 ^ Inputs - 1 :
        LET at == Values(design, v)
        IN  P(cell, at) % 2 ^ Len(cell.out) = Value(cell.out, FALSE, at)

(* Four cases the code does not tell apart.  An unsigned operand whose top   *)
(* bits are one wire is no extension of the bits below;                      *)
SignsAreSigns(d) ==
    LET wide(sig) == ~d.signed /\ Top(sig)[1] # "const" /\ SignedWidth(sig) < Len(sig)
    IN  /\ ~wide(d.a) /\ ~wide(d.b)
        /\ \A s \in PresAt(d) : ~wide(d.pre[s].x) /\ ~wide(d.pre[s].y)

(* an unsigned sum as wide as the port has its top bit read as a sign;       *)
SumsHaveRoom(d, c) ==
    LET width == IF c.pre = "sa" THEN AWidth ELSE BWidth
    IN  c.pre # "none" /\ ~c.sub /\ ~d.signed =>
          \A s \in PresAt(d) : SumWidth(d.pre[s]) < width

(* an adder of another sign reads more than the product, and the multiplier  *)
(* extends it with the product's;                                            *)
AdderReadsProduct(d, c) ==
    c.alu # "mult" =>
      \/ d.add.signed = d.signed
      \/ Len(d.add.op) >= Len(c.out)
      \/ ~d.signed /\ Len(d.add.op) > d.y

(* a register reads an adder above a sum that wrapped.                       *)
RegisterReadsSum(d, c) ==
    c.alu # "mult" =>
      \/ Len(c.out) = d.add.w
      \/ /\ d.add.w > Max({Len(d.add.op), Len(d.add.c)})
         /\ d.add.signed \/ c.alu = "add"

Regular(d, c) ==
    SignsAreSigns(d) /\ SumsHaveRoom(d, c) /\ AdderReadsProduct(d, c) /\ RegisterReadsSum(d, c)

(* Away from these four the cell is worth what the RTL is.                   *)
ResultKeptIfRegular == cell # None /\ Regular(design, cell) => ResultKept

(* A multiply that fits the ports reaches a cell: neither what is refused of *)
(* the cells around it nor a wider coefficient leaves it in fabric.          *)
FitMeansPlaced ==
    LET a == Len(given.a)  b == Len(given.b)  g == given.signed
    IN  /\ Done
        /\ \/ Fits(a, g, AWidth) /\ Fits(b, g, BWidth)
           \/ Fits(a, g, BWidth) /\ Fits(b, g, AWidth)
        => cell # None
==============================================================================
