---------------------------- MODULE Dspv2Values ----------------------------
(* What the nets of a module of DSPs carry, as symbolic sums: the reference  *)
(* the three passes over DSPv2 cells are compared with.                      *)
(* src/ql-qlf-plugin/qlf_k6n10f/dspv2_sim.v (the QL_DSPV2 cell) and          *)
(* dspv4_sim.v (the QL_DSP4 cell).                                           *)
(*                                                                           *)
(* A value is a set of terms to be added.  A term is a product (or a         *)
(* concatenation) of operands, negated or not, under operations that are not *)
(* linear.  Widths are left out.  A register delays every signal below it,   *)
(* so a delay is kept at the operands, where it does not matter which side   *)
(* of an adder or a multiplier the register is on.                           *)
EXTENDS Naturals, Sequences, FiniteSets, SequencesExt

CONSTANT Tie   \* Tie[n]: what a VCC or GND cell drives net n with

ASSUME TieAssumption == \A n \in DOMAIN Tie : Tie[n] \in {"0", "1"}

VARIABLES
    cells,    \* the cells of the module: name -> cell
    reads,    \* the nets the ports of the module read
    left,     \* the cells the loop of a pass has still to visit
    verdict   \* "ok", or why a pass stopped

Open == "open"  \* a port with nothing connected

(* A signal: a net or its inverse.                                           *)
Sig(n) == [net |-> n, inv |-> FALSE]
Inverted(s) == [s EXCEPT !.inv = ~@]

Const(n) == IF n \in DOMAIN Tie THEN Tie[n] ELSE n
IsConst(n) == Const(n) \in {"0", "1"}

(* The signal an inverter of a constant makes is that constant's inverse.    *)
Normal(s) ==
    IF ~IsConst(s.net) THEN s
    ELSE [net |-> IF (Const(s.net) = "1") # s.inv THEN "1" ELSE "0", inv |-> FALSE]

Live(sigs) == {Normal(s) : s \in sigs} \ {Sig("0")}

------------------------------------------------------------------------------
(* Operands and terms                                                        *)

Operand(role, s) == [role |-> role, neg |-> FALSE, sig |-> Normal(s), by |-> <<>>]

Input(n) ==
    IF IsConst(n) \/ n = Open THEN {}
    ELSE {[neg |-> FALSE, args |-> {Operand("x", Sig(n))}, ops |-> <<>>]}

As(value, role) ==
    UNION {{[g EXCEPT !.role = role, !.neg = t.neg] : g \in t.args} : t \in value}
Term(args) == {[neg |-> FALSE, args |-> args, ops |-> <<>>]}
Product(a, b) == Term(As(a, "a") \cup As(b, "b"))
Concatenated(a, b) == Term(As(a, "high") \cup As(b, "low"))
Negated(value) == {[t EXCEPT !.neg = ~@] : t \in value}
Under(value, op) == {[t EXCEPT !.ops = Append(@, op)] : t \in value}

(* A register: its clock and what clears it.                                 *)
Register(clk, resets) == [clk |-> clk, rst |-> Live(resets)]

(* A constant is not delayed, nor a clear that clears the register as well.  *)
LateOperand(g, reg) ==
    IF IsConst(g.sig.net) \/ (g.role = "clear" /\ g.sig \in reg.rst) THEN g
    ELSE [g EXCEPT !.by = Append(@, reg)]
LateOp(op, reg) == [op EXCEPT !.ctl = {LateOperand(g, reg) : g \in @}]
Delayed(value, reg) ==
    {[t EXCEPT !.args = {LateOperand(g, reg) : g \in @},
               !.ops = [i \in DOMAIN @ |-> LateOp(@[i], reg)]] : t \in value}
DelayedIf(on, value, reg) == IF on THEN Delayed(value, reg) ELSE value
DelayedBy(k, value, reg) ==
    IF k = 0 THEN value ELSE IF k = 1 THEN Delayed(value, reg)
    ELSE Delayed(Delayed(value, reg), reg)

(* An accumulator: while load is on it adds to what it holds or, with sel,   *)
(* replaces it.                                                              *)
Accumulated(value, cell, clk, clears, load, sel) ==
    Under(value, [op |-> "acc", cell |-> cell, clk |-> clk,
                  ctl |-> {Operand("load", load), Operand("sel", sel)}
                            \cup {Operand("clear", s) : s \in Live(clears)}])
Rounded(on, value, cell) ==
    IF on THEN Under(value, [op |-> "rss", cell |-> cell, clk |-> Open, ctl |-> {}]) ELSE value
OnlyIf(value, s) ==
    IF Normal(s) = Sig("1") THEN value
    ELSE IF Normal(s) = Sig("0") THEN {}
    ELSE Under(value, [op |-> "if", cell |-> Open, clk |-> Open, ctl |-> {Operand("sel", s)}])

------------------------------------------------------------------------------
(* QL_DSPV2, as dspv2_sim_cfg_ports                                          *)

(* The stages an operand passes: r_1 if R is set, else r_2, which is fed by  *)
(* r_1 if bit 1 is set.                                                      *)
Stages(regs) ==
    IF "R" \in regs THEN 1 ELSE IF "2" \notin regs THEN 0
    ELSE IF "1" \in regs THEN 2 ELSE 1

(* feedback = 8: the port is {0, 0, fsel} with fsel not constant.            *)
Select(c) == IF c.fb = 8 THEN c.fsel ELSE Sig(IF c.fb = 0 THEN "0" ELSE "1")

V2Out(c, val) ==
    LET reg == Register(c.clk, {c.reset})
        a == DelayedBy(Stages(c.areg), val[IF c.asel THEN c.acin ELSE c.a], reg)
        b == DelayedBy(Stages(c.breg), val[c.b], reg)
        sum == b \cup DelayedIf(c.creg, val[c.c], reg)
        m == DelayedIf(c.mreg, Product(a, IF c.pre THEN DelayedIf(c.bcreg, sum, reg) ELSE b), reg)
        addA == IF c.fb = 2 THEN Concatenated(a, b) ELSE IF c.sub THEN Negated(m) ELSE m
        acc == Accumulated(addA, c.origin, c.clk, {c.reset, c.accrst}, c.load, Select(c))
        addB == IF c.fb \in {0, 8} THEN OnlyIf(acc, Inverted(Select(c)))
                ELSE IF c.zsel THEN val[c.zcin] ELSE {}
        z2 == Rounded(c.rss, IF c.osel % 4 \in {2, 3} THEN addA \cup addB ELSE acc, c.origin)
    IN  IF c.osel = 0 THEN m
        ELSE IF c.osel < 4 THEN z2
        ELSE Delayed(IF c.osel = 4 THEN m ELSE z2, reg)

------------------------------------------------------------------------------
(* QL_DSP4, as dsp4_top.  The P register clears on ACCRSTN alone.            *)

V4Out(c, val) ==
    LET reg == Register(c.clk, {c.reset})
        preg == Register(c.clk, {c.accrst})
        a == DelayedBy(c.areg, val[c.a], reg)
        b == DelayedBy(c.breg, val[c.b], reg)
        d == DelayedIf(c.dreg, val[c.d], reg)
        ad == DelayedIf(c.adreg, d \cup (IF c.dsub THEN Negated(b) ELSE b), reg)
        m == DelayedIf(c.mreg, Product(a, IF c.bmult THEN ad ELSE b), reg)
        xy == IF c.neg THEN Negated(m) ELSE m
        addend == IF c.addend = "pcin" THEN val[c.pcin]
                  ELSE IF c.addend = "c"
                  THEN DelayedIf(c.creg, Concatenated(val[c.chigh], val[c.clow]), reg)
                  ELSE {}
        p == IF c.addend = "p"
             THEN Accumulated(xy, c.origin, c.clk, {c.accrst}, c.cep, Sig("0"))
             ELSE DelayedIf(c.preg, xy \cup addend, preg)
    IN  Rounded(c.rss, p, c.origin)

------------------------------------------------------------------------------
(* Modules: name -> cell.                                                    *)

(* A net the cell drives, by the kind of the cell.                           *)
Drives(c) ==
    CASE c.kind = "v2" -> {c.z, c.zcout}
      [] c.kind = "v4" -> {c.p, c.pcout}
      [] c.kind = "ff" -> {c.q}
      [] OTHER         -> {c.y}

Reads(c) ==
    CASE c.kind = "v2"  -> {c.a, c.acin, c.b, c.c, c.zcin, c.load.net, c.accrst.net, c.reset.net}
      [] c.kind = "v4"  -> {c.a, c.b, c.d, c.chigh, c.clow, c.pcin}
      [] c.kind = "ff"  -> {c.d, c.en.net, c.rst.net}
      [] c.kind = "mux" -> {c.a, c.b, c.s}
      [] OTHER          -> {c.a, c.b}

Drivers(mod, n) == {x \in DOMAIN mod : n \in Drives(mod[x]) \ {Open}}
Readers(mod, n) == {x \in DOMAIN mod : n \in Reads(mod[x])}
Nets(mod) ==
    (UNION {Drives(mod[x]) \cup Reads(mod[x]) : x \in DOMAIN mod}) \cup {Open}

(* A register and an adder that feed each other accumulate.                  *)
LoopAdders(mod, f) ==
    {x \in DOMAIN mod :
       /\ mod[x].kind \in {"add", "sub"} /\ f.q \in {mod[x].a, mod[x].b}
       /\ \/ mod[x].y = f.d
          \/ \E m \in DOMAIN mod : /\ mod[m].kind = "mux" /\ mod[m].y = f.d
                                     /\ mod[x].y \in {mod[m].a, mod[m].b}}

(* The multiplexer before the register, if there is one, its select as "take *)
(* what is loaded", and what that is.                                        *)
LoopMuxes(mod, f) == {mod[x] : x \in {y \in DOMAIN mod : mod[y].kind = "mux" /\ mod[y].y = f.d}}
LoopSelect(mod, f) ==
    IF LoopMuxes(mod, f) = {} THEN Sig("0")
    ELSE LET m == CHOOSE c \in LoopMuxes(mod, f) : TRUE
         IN  IF m.b \in {mod[x].y : x \in LoopAdders(mod, f)} THEN Inverted(Sig(m.s))
             ELSE Sig(m.s)
Loaded(mod, f, val) ==
    LET m == CHOOSE c \in LoopMuxes(mod, f) : TRUE
    IN  val[IF m.b \in {mod[x].y : x \in LoopAdders(mod, f)} THEN m.a ELSE m.b]

(* The terms the register adds, and those it is loaded with if they are      *)
(* others.                                                                   *)
Added(mod, f, val) ==
    LET add == mod[CHOOSE x \in LoopAdders(mod, f) : TRUE]
        other == val[IF f.q = add.a THEN add.b ELSE add.a]
    IN  IF add.kind = "add" THEN other
        ELSE IF f.q = add.a THEN Negated(other)
        ELSE OnlyIf(other, Sig("minus held"))
Taken(mod, f, val) ==
    LET sel == Normal(LoopSelect(mod, f))
        added == Added(mod, f, val)
    IN  IF sel = Sig("0") \/ Loaded(mod, f, val) = added THEN added
        ELSE IF sel = Sig("1") THEN Loaded(mod, f, val)
        ELSE OnlyIf(added, Sig("added")) \cup OnlyIf(Loaded(mod, f, val), Sig("loaded"))

FlopOut(mod, f, val) ==
    IF LoopAdders(mod, f) = {} THEN Delayed(val[f.d], Register(f.clk, {f.rst}))
    ELSE Accumulated(Taken(mod, f, val), f.origin, f.clk, {f.rst}, f.en, LoopSelect(mod, f))

MuxOut(c, val) ==
    (val[c.a] \cap val[c.b])
      \cup OnlyIf(val[c.a] \ val[c.b], Inverted(Sig(c.s)))
      \cup OnlyIf(val[c.b] \ val[c.a], Sig(c.s))

Out(mod, x, val) ==
    LET c == mod[x]
    IN  CASE c.kind = "v2"  -> V2Out(c, val)
          [] c.kind = "v4"  -> V4Out(c, val)
          [] c.kind = "ff"  -> FlopOut(mod, c, val)
          [] c.kind = "mul" -> Product(val[c.a], val[c.b])
          [] c.kind = "add" -> val[c.a] \cup val[c.b]
          [] c.kind = "sub" -> val[c.a] \cup Negated(val[c.b])
          [] c.kind = "mux" -> MuxOut(c, val)

(* A net without a driver is an input, or stands for what was lost.          *)
NetOut(mod, n, val) ==
    IF Drivers(mod, n) = {} THEN Input(n)
    ELSE UNION {Out(mod, x, val) : x \in Drivers(mod, n)}

(* As many rounds as there are cells settle every net.                       *)
Values(mod) ==
    FoldLeft(LAMBDA val, i : [n \in DOMAIN val |-> NetOut(mod, n, val)],
             [n \in Nets(mod) |-> {}],
             [i \in 1 .. Cardinality(DOMAIN mod) + 1 |-> i])

=============================================================================
