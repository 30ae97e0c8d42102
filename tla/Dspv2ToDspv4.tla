---------------------------- MODULE Dspv2ToDspv4 ----------------------------
(* ql_dspv2_to_dspv4: QL_DSPV2 cells become QL_DSP4 cells, a concatenation   *)
(* and the cell it cascades into become one, and a cell that feeds several   *)
(* cascades is replicated.                                                   *)
(* src/ql-qlf-plugin/ql-dspv2-to-dspv4.cc.                                   *)
EXTENDS Dspv2Values

CONSTANTS
    V4Name(_),   \* the name of the QL_DSP4 made from a cell
    Extra(_)     \* a fresh name, of a wire or a copy, from a name

VARIABLES
    step,     \* "decode", "fuse", "convert", "legalize" or "done"
    consumed, \* the cells that are part of a fused pair
    made,     \* the cells the pass has added
    cons      \* the groups that legalize_cascade_fanout() works on

------------------------------------------------------------------------------
(* Decoding                                                                  *)

Multiply == {"MULT", "PREADDER_MULT"}
Accumulate == {"MULTACC", "MULTACC_NEG"}
CascadeModes == {"MULTADD", "MULTADD_NEG", "PREADDER_MULTADD"}
PreAdd == {"PREADDER_MULT", "PREADDER_MULTADD"}

(* classify() of the control word.  A subtracting pre-adder is a mode of its *)
(* own only here.                                                            *)
Mode(c) ==
    CASE c.fb = 0 /\ c.osel % 4 = 0 /\ ~c.zsel /\ ~c.pre /\ ~c.sub -> "MULT"
      [] c.fb = 0 /\ c.osel % 4 = 0 /\ ~c.zsel /\ c.pre -> "PREADDER_MULT"
      [] c.fb = 0 /\ c.osel % 4 = 1 /\ ~c.zsel /\ ~c.pre ->
           IF c.sub THEN "MULTACC_NEG" ELSE "MULTACC"
      [] c.fb = 2 /\ c.osel % 4 \in {2, 3} /\ ~c.zsel /\ ~c.pre /\ ~c.sub -> "CONCAT_CASCADE"
      [] c.fb = 3 /\ c.osel % 4 \in {2, 3} /\ c.zsel /\ ~c.pre ->
           IF c.sub THEN "MULTADD_NEG" ELSE "MULTADD"
      [] c.fb = 3 /\ c.osel % 4 \in {2, 3} /\ c.zsel /\ c.pre /\ ~c.sub -> "PREADDER_MULTADD"
      [] OTHER -> "UNKNOWN"

(* Features of the cell that a QL_DSP4 has not: check_v2_only_config().      *)
V2Only(c) == c.v2only \/ c.asel

(* The first loop: get_const_port(), require_const_load_acc().               *)
DecodeError(c) ==
    IF V2Only(c) THEN "v2 only"
    ELSE IF c.fb = 8 THEN "not constant"
    ELSE IF Mode(c) \in Accumulate /\ ~IsConst(c.load.net) THEN "load_acc" ELSE "ok"

V2CellsOf(module) == {x \in DOMAIN module : module[x].kind = "v2"}
V2Cells == V2CellsOf(cells)

Decode ==
    /\ step = "decode" /\ verdict = "ok"
    /\ verdict' \in IF \E x \in V2Cells : DecodeError(cells[x]) # "ok"
                    THEN {DecodeError(cells[x]) : x \in V2Cells} \ {"ok"}
                    ELSE {"ok"}
    /\ step' = "fuse" /\ left' = V2Cells
    /\ UNCHANGED <<cells, consumed, made, cons>>

------------------------------------------------------------------------------
(* A QL_DSP4 from a cell of mode m: connect_common_data(),                   *)
(* connect_clocking(), connect_pcout(), set_reg_params(), set_rss_params().  *)

OutReg(c) == c.osel >= 4

Rss(c) == c.rss /\ c.osel \notin {0, 4}

(* A z_cout that is the net of z is driven by P alone.                       *)
PCout(c) == IF c.zcout = c.z THEN Open ELSE c.zcout

Config(c, m, addend, high, low, creg) ==
    [kind |-> "v4", origin |-> c.origin,
     a |-> c.a, b |-> c.b, d |-> IF m \in PreAdd THEN c.c ELSE Open,
     p |-> c.z, pcout |-> PCout(c), chigh |-> high, clow |-> low,
     pcin |-> IF addend = "pcin" THEN c.zcin ELSE Open,
     clk |-> c.clk, reset |-> c.reset, accrst |-> c.accrst,
     cep |-> IF m \in Accumulate THEN c.load ELSE Sig("1"),
     addend |-> addend, neg |-> m \in {"MULTACC_NEG", "MULTADD_NEG"},
     bmult |-> m \in PreAdd, dsub |-> m \in PreAdd /\ c.sub,
     areg |-> Stages(c.areg), breg |-> Stages(c.breg), mreg |-> c.mreg, dreg |-> c.creg,
     adreg |-> c.bcreg, creg |-> creg, preg |-> m \in Accumulate \/ OutReg(c), rss |-> Rss(c)]

With(name, c) == [y \in DOMAIN cells \cup {name} |-> IF y = name THEN c ELSE cells[y]]

------------------------------------------------------------------------------
(* Pass 1: fusion                                                            *)

FusionLatency(c) ==
    LET a == Stages(c.areg)
        b == Stages(c.breg)
    IN  (IF b > a THEN b ELSE a) + (IF OutReg(c) THEN 1 ELSE 0)

(* The concatenation whose z_cout the cell's z_cin is.                       *)
Concats(x) ==
    {y \in V2Cells : /\ Mode(cells[y]) = "CONCAT_CASCADE"
                     /\ cells[y].zcout = cells[x].zcin /\ ~IsConst(cells[x].zcin)
                     /\ cells[x].zcin # Open}

Fusible(x) ==
    /\ Mode(cells[x]) \in CascadeModes /\ Concats(x) # {}
    /\ Concats(x) \cap consumed = {} /\ x \notin consumed

(* Faulty form of Fused: the C register is left out.                         *)
FusedUnregistered(x, y) ==
    Config(cells[x], Mode(cells[x]), "c", cells[y].a, cells[y].b, FALSE)

(* C = {A1, B1}: emit_fused().                                               *)
Fused(x, y) ==
    Config(cells[x], Mode(cells[x]), "c", cells[y].a, cells[y].b, FusionLatency(cells[y]) # 0)

Fuse ==
    /\ step = "fuse" /\ verdict = "ok"
    /\ \E x \in left :
         /\ left' = left \ {x}
         /\ IF ~Fusible(x) THEN UNCHANGED <<cells, consumed, made, verdict>>
            ELSE LET y == CHOOSE z \in Concats(x) : TRUE
                 IN  IF FusionLatency(cells[y]) >= 2
                     THEN verdict' = "latency" /\ UNCHANGED <<cells, consumed, made>>
                     ELSE /\ cells' = With(V4Name(x), Fused(x, y))
                          /\ consumed' = consumed \cup {x, y}
                          /\ made' = made \cup {V4Name(x)}
                          /\ UNCHANGED verdict
    /\ UNCHANGED <<step, cons>>

FuseEnd ==
    /\ step = "fuse" /\ verdict = "ok" /\ left = {}
    /\ step' = "convert" /\ left' = V2Cells \ consumed
    /\ UNCHANGED <<cells, consumed, made, cons, verdict>>

------------------------------------------------------------------------------
(* Pass 2: emit_per_cell()                                                   *)

AddendOf(m) ==
    IF m \in Accumulate THEN "p" ELSE IF m \in CascadeModes THEN "pcin" ELSE "0"

PerCell(x) == Config(cells[x], Mode(cells[x]), AddendOf(Mode(cells[x])), Open, Open, FALSE)

(* An accumulator with an output register gets flops on P: add_output_dffre.*)
Emitted(x) ==
    LET c == cells[x]
        wire == Extra(c.z)
    IN  IF Mode(c) \in Accumulate /\ OutReg(c)
        THEN [y \in DOMAIN cells \cup {V4Name(x), wire} |->
                IF y = V4Name(x) THEN [PerCell(x) EXCEPT !.p = wire]
                ELSE IF y = wire
                THEN [kind |-> "ff", origin |-> wire, d |-> wire, q |-> c.z, clk |-> c.clk,
                      rst |-> c.reset, en |-> Sig("1"), posedge |-> TRUE]
                ELSE cells[y]]
        ELSE With(V4Name(x), PerCell(x))

Convert ==
    /\ step = "convert" /\ verdict = "ok"
    /\ \E x \in left :
         /\ left' = left \ {x}
         /\ IF Mode(cells[x]) \in {"CONCAT_CASCADE", "UNKNOWN"}
            THEN verdict' = Mode(cells[x]) /\ UNCHANGED <<cells, made>>
            ELSE /\ cells' = Emitted(x)
                 /\ made' = made \cup {V4Name(x)}
                 /\ UNCHANGED verdict
    /\ UNCHANGED <<step, consumed, cons>>

------------------------------------------------------------------------------
(* The cells that were converted are removed, and legalize_cascade_fanout()  *)
(* groups the consumers of each cascade by the cell that drives it.          *)

Converted == [y \in DOMAIN cells \ V2Cells |-> cells[y]]

CascadeInputs(module) == {y \in DOMAIN module : module[y].kind = "v4" /\ module[y].addend = "pcin"}
Feeders(module, n) == {f \in Drivers(module, n) : module[f].kind = "v4"}

Groups(module) ==
    [f \in UNION {Feeders(module, module[y].pcin) : y \in CascadeInputs(module)} |->
       {y \in CascadeInputs(module) : f \in Feeders(module, module[y].pcin)}]

RemoveConverted ==
    /\ step = "convert" /\ verdict = "ok" /\ left = {}
    /\ cells' = Converted
    /\ cons' = Groups(Converted)
    /\ step' = "legalize"
    /\ UNCHANGED <<left, consumed, made, verdict>>

(* The copy has wires of its own for its outputs.                            *)
Replica(f, y) ==
    [cells[f] EXCEPT !.p = Extra(y),
                     !.pcout = IF @ = Open THEN Open ELSE Extra(Extra(y))]

(* Where consumer y finds its addend among the wires of the copy.            *)
Repointed(f, y) ==
    IF cells[y].pcin = cells[f].pcout THEN Replica(f, y).pcout ELSE Replica(f, y).p

(* Faulty form of Spare: the last consumer shares with the first.            *)
SpareButOne(f) == Cardinality(cons[f]) > 2

(* All consumers but one get a copy each.                                    *)
Spare(f) == Cardinality(cons[f]) > 1

Replicate ==
    /\ step = "legalize" /\ verdict = "ok"
    /\ \E f \in DOMAIN cons :
         /\ Spare(f)
         /\ \E y \in cons[f] :
              LET clone == Extra(V4Name(y))
              IN  /\ cells' = [With(clone, Replica(f, y)) EXCEPT ![y].pcin = Repointed(f, y)]
                  /\ made' = made \cup {clone}
                  /\ cons' = [cons EXCEPT ![f] = @ \ {y}]
    /\ UNCHANGED <<step, left, consumed, verdict>>

(* The safety net.                                                           *)
SharedCascade ==
    \E x, y \in CascadeInputs(cells) :
      x # y /\ cells[x].pcin = cells[y].pcin /\ ~IsConst(cells[x].pcin) /\ cells[x].pcin # Open

Legalized ==
    /\ step = "legalize" /\ verdict = "ok"
    /\ \A f \in DOMAIN cons : ~Spare(f)
    /\ verdict' = IF SharedCascade THEN "shared cascade" ELSE "ok"
    /\ step' = "done"
    /\ UNCHANGED <<cells, left, consumed, made, cons>>

NextToV4 ==
    Decode \/ Fuse \/ FuseEnd \/ Convert \/ RemoveConverted \/ Replicate \/ Legalized

=============================================================================
