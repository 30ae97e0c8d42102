----------------------------- MODULE Dspv2Flow -----------------------------
(* The passes over DSPv2 cells in the orders synth_quicklogic runs them:     *)
(* ql_dsp_macc and ql_dspv2_types on RTL, and ql_dspv2_types or              *)
(* ql_dspv2_to_dspv4 on a netlist that has QL_DSPV2 cells already.           *)
(* src/ql-qlf-plugin/synth_quicklogic.cc, the DSP arm for -dspv2 and -dspv4. *)
EXTENDS Dspv2Macc, Dspv2Types, Dspv2ToDspv4

CONSTANT Dspv2Designs  \* the modules to start from: [cells, reads, v2, step]

(* A netlist for ql_dspv2_to_dspv4: QL_DSPV2 cells and others, no QL_DSP4.   *)
(* A net has one driver, a tie cell if it is constant.                       *)
IsDspNetlist(mod) ==
    /\ IsFiniteSet(DOMAIN mod)
    /\ \A x \in DOMAIN mod :
         /\ mod[x].kind # "v4"
         /\ \A n \in Drives(mod[x]) \ {Open} : ~IsConst(n) /\ Drivers(mod, n) = {x}

(* NEW_ID and uniquify() make names that differ from each other and from all *)
(* that are there.                                                           *)
NamesApart(mod) ==
    LET xs == DOMAIN mod
        v4 == {V4Name(x) : x \in xs}
        copies == {V4Name(y) : y \in v4}
        wires == {Extra(y) : y \in v4}
        bases == Nets(mod) \cup v4 \cup copies \cup wires
        old == xs \cup Nets(mod) \cup DOMAIN Tie \cup {"0", "1"}
    IN  /\ \A x, y \in xs \cup v4 : V4Name(x) = V4Name(y) => x = y
        /\ \A m, n \in bases : Extra(m) = Extra(n) => m = n
        /\ v4 \cap old = {}
        /\ \A n \in bases : Extra(n) \notin old \cup v4

ASSUME NetlistsAssumption ==
    \A d \in Dspv2Designs :
      /\ d.step \in {"macc", "types", "decode"}
      /\ d.step = "decode" => IsDspNetlist(d.cells) /\ NamesApart(d.cells)

VARIABLES
    start,    \* the cells the flow began with
    mapped    \* the cells ql_dsp_macc left, once it has ended

dspv2Vars == <<cells, reads, left, verdict, v2, step, consumed, made, cons, start, mapped>>
flowVars == <<reads, v2, start>>
v4Vars == <<consumed, made, cons>>

Dspv2Init ==
    \E d \in Dspv2Designs :
      /\ cells = d.cells /\ reads = d.reads /\ v2 = d.v2 /\ step = d.step
      /\ start = d.cells /\ mapped = d.cells
      /\ left = {x \in DOMAIN d.cells : d.cells[x].kind = "v2"}
      /\ verdict = "ok" /\ consumed = {} /\ made = {} /\ cons = <<>>

InferMacc ==
    /\ step = "macc" /\ Infer
    /\ UNCHANGED <<flowVars, v4Vars, step, left, mapped>>

(* dsp_final_map.v makes QL_DSPV2 cells of the inferred ones, which have a   *)
(* z_cout of their own.  DSPs of the first version are not typed.            *)
MapFinal ==
    /\ step = "macc" /\ verdict = "ok" /\ MaccDone
    /\ mapped' = cells
    /\ cells' = [x \in DOMAIN cells |->
                   IF x \in V2Cells THEN [cells[x] EXCEPT !.zcout = Extra(cells[x].z)]
                   ELSE cells[x]]
    /\ left' = V2Cells
    /\ step' = IF v2 THEN "types" ELSE "done"
    /\ UNCHANGED <<flowVars, v4Vars, verdict>>

TypeCell ==
    /\ step = "types" /\ Visit
    /\ UNCHANGED <<flowVars, v4Vars, step, mapped>>

TypesEnd ==
    /\ step = "types" /\ verdict = "ok" /\ left = {}
    /\ step' = "done"
    /\ UNCHANGED <<flowVars, v4Vars, cells, left, verdict, mapped>>

ToV4 == NextToV4 /\ UNCHANGED <<flowVars, mapped>>

Dspv2Next == InferMacc \/ MapFinal \/ TypeCell \/ TypesEnd \/ ToV4

Dspv2Spec == Dspv2Init /\ [][Dspv2Next]_dspv2Vars

------------------------------------------------------------------------------
(* Properties                                                                *)

Alike(before, after) ==
    LET old == Values(before)
        new == Values(after)
    IN  \A n \in reads : n \in DOMAIN old => n \in DOMAIN new /\ new[n] = old[n]

(* ql_dsp_macc, whatever it takes of a module with loops that share nets:    *)
(* each port reads the same running sum, with the same enable, clear and     *)
(* select, and no other reader of a net of the loop is left without it.      *)
(* Irregular: the held sum is subtracted from the product, or the product    *)
(* that is subtracted is loaded by a multiplexer: the DSP negates it in both *)
(* cases.                                                                    *)
Subtracts(x) == start[x].kind = "sub"
RegularSums ==
    \A x \in DOMAIN start : Subtracts(x) =>
      /\ ~\E f \in DOMAIN start : start[f].kind = "ff" /\ start[x].b = start[f].q
      /\ ~\E m \in DOMAIN start : start[m].kind = "mux" /\ start[x].y \in {start[m].a, start[m].b}
Inferred == step \in {"types", "done"} /\ verdict = "ok"
SumKeptIfRegular == Inferred /\ RegularSums => Alike(start, mapped)

(* The same of every loop: what the comment on feedback_i says of clearing   *)
(* and loading the accumulator.                                              *)
SumKept == Inferred => Alike(start, mapped)

(* ql_dspv2_types keeps what each port reads, wherever the registers of a    *)
(* cell are moved to.  Irregular: an A_REG with an A2_REG, which stays in    *)
(* the cell behind the new register; a BC_REG in a type without a clock; an  *)
(* M_REG moved past an addend, a concatenation, or an accumulator that is    *)
(* enabled or cleared on its own; an operand from a_cin; a z_cout that a     *)
(* port reads.                                                               *)
OneRegister(regs) == ~({"R", "2"} \subseteq regs)
MRegMovable(c) ==
    \/ c.osel % 4 = 0
    \/ c.fb = 0 /\ IsConst(c.load.net) /\ Live({c.accrst}) \subseteq Live({c.reset})
    \/ c.fb = 3 /\ ~(c.zsel /\ ~IsConst(c.zcin))
RegularForTypes(c) ==
    /\ OneRegister(c.areg) /\ OneRegister(c.breg)
    /\ c.bcreg => TypeOf[ControlWord(c)] \notin {"PREADDER_MULT", "PREADDER_MULTADD"}
    /\ c.mreg => MRegMovable(c)
    /\ ~c.asel /\ (c.zcout = c.z \/ c.zcout \notin reads)
TypedAlike ==
    /\ step = "done" /\ verdict = "ok" /\ made = {}
    /\ \A x \in DOMAIN mapped : mapped[x].kind = "v2" => RegularForTypes(mapped[x])
    => Alike(mapped, cells)

(* ql_dspv2_to_dspv4 keeps what each port reads, whichever cells are fused   *)
(* and replicated, or stops with an error.  Irregular: a subtracting         *)
(* pre-adder; a P register that ACCRSTN does not clear as reset did; the     *)
(* cascade of an accumulator with an output register; and a concatenation    *)
(* that is rounded, registered on one operand more than on the other, read   *)
(* by anything but the cell it is fused with, or of another clock.           *)
SameClear(c) ==
    LET accumulates == Mode(c) \in Accumulate
    IN  /\ accumulates => Live({c.reset}) \subseteq Live({c.accrst})
        /\ OutReg(c) /\ ~accumulates => Live({c.reset}) = Live({c.accrst})
Unread(n) == n \notin reads /\ Readers(start, n) = {}
FusesWhole(c) ==
    /\ ~c.rss /\ Stages(c.areg) = Stages(c.breg)
    /\ c.z # c.zcout => Unread(c.z)
    /\ c.zcout \notin reads
    /\ \E y \in DOMAIN start :
         /\ Readers(start, c.zcout) = {y}
         /\ start[y].clk = c.clk /\ start[y].reset = c.reset
RegularForV4(c) ==
    /\ ~(c.pre /\ c.sub) /\ SameClear(c)
    /\ Mode(c) \in Accumulate /\ OutReg(c) => c.z = c.zcout \/ Unread(c.zcout)
    /\ Mode(c) = "CONCAT_CASCADE" => FusesWhole(c)
ConvertedAlike ==
    /\ step = "done" /\ verdict = "ok" /\ made # {}
    /\ \A x \in DOMAIN start : RegularForV4(start[x])
    => Alike(start, cells)

(* A cascade leads from one cell to one other: a feeder of several cells is  *)
(* replicated, by whichever of its outputs they are fed.                     *)
HeadsPrivate ==
    step = "done" /\ verdict = "ok" =>
      \A f \in made :
        Cardinality({y \in CascadeInputs(cells) : f \in Feeders(cells, cells[y].pcin)}) <= 1

(* The module is refused only if two cells share a net that no cell which    *)
(* can be replicated drives: its driver is no DSP, was fused away, or is the *)
(* flops of an output register.                                              *)
Taking ==
    {x \in V2CellsOf(start) :
       Mode(start[x]) \in CascadeModes /\ ~IsConst(start[x].zcin) /\ start[x].zcin # Open}
Irreplaceable(n) ==
    \A f \in Drivers(start, n) :
      LET c == start[f]
      IN  \/ c.kind # "v2"
          \/ Mode(c) = "CONCAT_CASCADE"
          \/ Mode(c) \in Accumulate /\ OutReg(c) /\ n = c.z
SharedIfIrreplaceable ==
    verdict = "shared cascade" =>
      \E x, y \in Taking :
        x # y /\ start[x].zcin = start[y].zcin /\ Irreplaceable(start[x].zcin)

(* Both, whichever cells are fused and replicated and in whatever order.     *)
(* Irregular: a feeder of several that takes a cascade itself, which its     *)
(* copies share.                                                             *)
Fed(f) == {x \in Taking : start[x].zcin \in Drives(start[f])}
RegularCascades == \A f \in Taking : Cardinality(Fed(f)) <= 1
CascadesPrivate == RegularCascades => HeadsPrivate /\ SharedIfIrreplaceable

=============================================================================
