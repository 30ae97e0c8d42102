------------------------------ MODULE PackFlow ------------------------------
(* The passes that fit mapped cells to the blocks of the device, in the      *)
(* order synth_quicklogic runs them: ql_dsp_simd, the final map of the DSPs  *)
(* and ql_dsp_io_regs; the merging of block RAMs; ql_ioff at the end.        *)
(* ql_bram_split, which the script does not run, starts at a step of its     *)
(* own.  src/ql-qlf-plugin/synth_quicklogic.cc                               *)
EXTENDS DspIoRegs, IoFlops

CONSTANT Designs  \* the modules to start from: [cells, flops, ports, ioFF, step]

ASSUME ModulesAssumption == \A d \in Designs : IsModule(d)

(* What synthesis leaves for these passes.  A DSP half has its control       *)
(* ports, with or without the words that may be parameters instead; block    *)
(* RAMs of one type have the same ports.  What ql_dsp_macc and dsp_map.v     *)
(* infer multiplies, or adds the product to the accumulator or to itself,    *)
(* with no register at the inputs and nothing at dly_b.                      *)
IsCell(c) ==
    c = [type |-> c.type, conf |-> c.conf, mode |-> c.mode, own |-> c.own, in |-> c.in,
         out |-> c.out, keep |-> c.keep, split |-> c.split, inferred |-> c.inferred]

IsDspCell(c) ==
    /\ DOMAIN c.conf = {"clk", "load_acc", "subtract", "feedback"}
                         \cup (IF UsesParams(c) THEN {}
                               ELSE {"output_select", "register_inputs", "post"})
    /\ c.conf.clk \in DOMAIN Root
    /\ DOMAIN c.in = {"a", "b", "acc_fir"} /\ DOMAIN c.out = {"z", "dly_b"}
    /\ c.inferred =>
         /\ OutSel(c) \in {0, 1, 3} /\ ~RegIn(c)
         /\ c.conf.feedback.ones = 0 /\ c.conf.feedback.may \subseteq {0, 1}
         /\ c.out.dly_b = Open

IsRam(c) == c.conf = <<>> /\ (c.type \in {SdpMerge, TdpMerge} => c.mode = <<>>)

IsMapped(cs) ==
    /\ IsFiniteSet(DOMAIN cs)
    /\ \A x \in DOMAIN cs :
         /\ IsCell(cs[x])
         /\ cs[x].type \in {DspPorts, DspParams} => IsDspCell(cs[x])
         /\ cs[x].type \in {SdpMerge, TdpMerge, SdpSplit, TdpSplit} =>
              /\ IsRam(cs[x])
              /\ \A y \in DOMAIN cs : cs[y].type = cs[x].type =>
                   DOMAIN cs[y].in = DOMAIN cs[x].in /\ DOMAIN cs[y].out = DOMAIN cs[x].out
         /\ cs[x].type \in {"QL_DSP2", "QL_DSP3"} => ~cs[x].inferred

(* Different cells are given different names: NEW_ID for a merged one        *)
(* (ql-bram-merge.cc:100); for split ones the two names joined, which no     *)
(* other two and no cell may have (ql-bram-split.cc:174).                    *)
NamesApart(cs) ==
    LET n == Cardinality(DOMAIN cs)
        pairs == {p \in (DOMAIN cs) \X (DOMAIN cs) : p[1] # p[2]}
    IN  /\ \A i, j \in 0 .. n : SimdNumbered(i) = SimdNumbered(j) => i = j
        /\ \A p \in pairs :
             /\ {MergedName(p[1], p[2]), SplitName(p[1], p[2])} \cap DOMAIN cs = {}
             /\ \A i \in 0 .. n : MergedName(p[1], p[2]) # SimdNumbered(i)
             /\ \A q \in pairs :
                  \/ p = q
                  \/ /\ MergedName(p[1], p[2]) # MergedName(q[1], q[2])
                     /\ SplitName(p[1], p[2]) # SplitName(q[1], q[2])

ASSUME CellsAssumption ==
    \A d \in Designs :
      /\ IsMapped(d.cells) /\ NamesApart(d.cells)
      /\ d.step \in {"simd", "brams", "split", "ioff"}

VARIABLES
    start,    \* the design the flow began with
    step

packVars == <<cells, gone, verdict>>
vars == <<packVars, ioVars, start, step>>

Init ==
    \E d \in Designs :
      /\ start = d /\ step = d.step
      /\ cells = d.cells /\ gone = {} /\ verdict = "ok"
      /\ flops = d.flops /\ ports = d.ports /\ ioFF = d.ioFF
      /\ inputs = {} /\ outputs = {}

Goto(from, to) == step = from /\ verdict = "ok" /\ step' = to
Stay(at) == step = at /\ verdict = "ok" /\ UNCHANGED <<step, start>>

SimdPair == Stay("simd") /\ PairDsps /\ UNCHANGED ioVars
SimdEnd ==
    /\ Goto("simd", "final") /\ SimdDone /\ RemoveHalves
    /\ UNCHANGED <<verdict, ioVars, start>>

(* dsp_final_map.v: a half that found no partner becomes the lower half of a *)
(* block.  Its dly_b is assigned from itself.                                *)
Single(c) ==
    [c EXCEPT !.type = IF UsesParams(c) THEN "QL_DSP3" ELSE "QL_DSP2", !.own = <<@>>,
              !.in = [p \in DOMAIN @ |-> <<@[p]>>],
              !.out = [p \in DOMAIN @ |-> IF p = "dly_b" THEN <<>> ELSE <<@[p]>>]]

MapFinal ==
    /\ Goto("final", "regs")
    /\ cells' = [x \in DOMAIN cells |-> IF cells[x].type \in {DspPorts, DspParams}
                                        THEN Single(cells[x]) ELSE cells[x]]
    /\ UNCHANGED <<gone, verdict, ioVars, start>>

RegsType == Stay("regs") /\ TypeDsp /\ UNCHANGED ioVars
RegsEnd == Goto("regs", "brams") /\ Untyped = {} /\ UNCHANGED <<packVars, ioVars, start>>

BramMerge ==
    /\ Stay("brams") /\ (MergeBrams(SdpMerge) \/ MergeBrams(TdpMerge))
    /\ UNCHANGED ioVars
BramEnd ==
    /\ Goto("brams", "ioff") /\ MergeDone(SdpMerge) /\ MergeDone(TdpMerge)
    /\ UNCHANGED <<packVars, ioVars, start>>

BramSplit == Stay("split") /\ SplitBrams /\ UNCHANGED ioVars
SplitEnd ==
    /\ Goto("split", "done") /\ SplitDone /\ RemoveHalves
    /\ UNCHANGED <<verdict, ioVars, start>>

IoClassify == Goto("ioff", "promote") /\ Classify /\ UNCHANGED <<packVars, start>>
IoPromote == Stay("promote") /\ (PromoteInput \/ PromotePort) /\ UNCHANGED packVars
IoEnd == Goto("promote", "done") /\ IoDone /\ UNCHANGED <<packVars, ioVars, start>>

Next ==
    \/ SimdPair \/ SimdEnd \/ MapFinal \/ RegsType \/ RegsEnd
    \/ BramMerge \/ BramEnd \/ BramSplit \/ SplitEnd
    \/ IoClassify \/ IoPromote \/ IoEnd

Spec == Init /\ [][Next]_vars

------------------------------------------------------------------------------
(* What a cell computes: dsp_sim.v, and the two sides of a block RAM.        *)

IsDsp(c) == {"clk", "feedback"} \subseteq DOMAIN c.conf

SettingOf(c, s) == IF s \in DOMAIN c.conf THEN c.conf[s] ELSE c.mode[s]
May(c, values) == c.conf.feedback.may \cap values # {}

ReadsSum(c) == SettingOf(c, "output_select") \notin {0, 4} \/ May(c, {3})
ReadsAcc(c) ==
    \/ SettingOf(c, "output_select") \in {1, 5} \/ May(c, {3})
    \/ ReadsSum(c) /\ May(c, {0})
ReadsFir(c) == ReadsSum(c) /\ May(c, 2..7)
Clocked(c) ==
    SettingOf(c, "register_inputs") = 1 \/ SettingOf(c, "output_select") > 3 \/ ReadsAcc(c)

SumOf(c, h) ==
    [sel |-> SettingOf(c, "output_select"), may |-> c.conf.feedback.may, own |-> c.own[h],
     reg |-> SettingOf(c, "register_inputs"),
     clk |-> IF Clocked(c) THEN Root[c.conf.clk] ELSE Nothing,
     ctl |-> [s \in (IF ReadsSum(c) THEN {"subtract", "post"} ELSE {})
                      \cup (IF ReadsAcc(c) THEN {"load_acc"} ELSE {}) |-> SettingOf(c, s)],
     in |-> [p \in {"a", "b"} \cup (IF ReadsFir(c) THEN {"acc_fir"} ELSE {}) |-> c.in[p][h]]]

Computes(c, h, p) ==
    CASE ~IsDsp(c) -> [port |-> p, mode |-> c.mode, own |-> c.own[h],
                       in |-> [q \in DOMAIN c.in |-> c.in[q][h]]]
      [] IsDsp(c) /\ p = "dly_b" -> [clk |-> Root[c.conf.clk], b |-> c.in.b[h]]
      [] OTHER -> SumOf(c, h)

IsHalf(c) == c.type \in {DspPorts, DspParams, SdpMerge, TdpMerge, SdpSplit, TdpSplit}
AsBlock(c) ==
    IF ~IsHalf(c) THEN c
    ELSE [c EXCEPT !.own = <<@>>, !.in = [p \in DOMAIN @ |-> <<@[p]>>],
                   !.out = [p \in DOMAIN @ |-> <<@[p]>>]]

(* Each net a block drives, with what it gets.                               *)
Driven(c) ==
    UNION {{<<c.out[p][h], Computes(c, h, p)>> : h \in DOMAIN c.out[p]} : p \in DOMAIN c.out}
AllDriven(cs) == {d \in UNION {Driven(AsBlock(cs[x])) : x \in DOMAIN cs} : d[1] # Open}

RegisterOf(f) ==
    [neg |-> f.type \in {"dffnre", "sdffnre", "dffn", "io_sdffnr"}, clk |-> f.c, d |-> f.d,
     en |-> IF f.e = Nothing THEN "1" ELSE OneOf(f.e),
     rst |-> IF f.r = Nothing \/ Ones(f.r) THEN "none" ELSE f.r,
     async |-> f.type \in {"dffre", "dffnre"} /\ ~Ones(f.r)]

Cells(fs) == {x \in DOMAIN fs : fs[x].type # "lut"}
Seen(fs, n) ==
    IF \E x \in Cells(fs) : fs[x].q = n
    THEN RegisterOf(fs[CHOOSE x \in Cells(fs) : fs[x].q = n]) ELSE n

------------------------------------------------------------------------------
(* Properties                                                                *)

Ended == step = "done" /\ verdict = "ok"

(* Each net is driven by the same function of the same nets as before, and   *)
(* by nothing else.                                                          *)
HalvesKept == Ended => AllDriven(cells) = AllDriven(start.cells)

(* The exceptions: DSPs of one configuration that shift their coefficient by *)
(* acc_fir differently, or do not connect the same outputs; dly_b of a half  *)
(* that may find no partner; block RAMs to be split whose CFG_ABITS or       *)
(* CFG_DBITS differ.                                                         *)
IsDspHalf(x) == start.cells[x].type \in {DspPorts, DspParams}
Partners(x) ==
    {y \in DOMAIN start.cells :
       /\ IsDspHalf(y) /\ ~start.cells[y].keep
       /\ Config(start.cells[x]) = Config(start.cells[y])}
Regular ==
    \A x \in DOMAIN start.cells :
      LET c == start.cells[x]
      IN  /\ IsDspHalf(x) =>
               /\ \A y \in Partners(x) :
                    /\ \A p \in DOMAIN c.out : (c.out[p] = Open) = (start.cells[y].out[p] = Open)
                    /\ ReadsFir(c) => start.cells[y].in.acc_fir = c.in.acc_fir
               /\ c.out.dly_b # Open => ~c.keep /\ Cardinality(Partners(x)) % 2 = 0
          /\ c.type \in {SdpSplit, TdpSplit} =>
               \A y \in DOMAIN start.cells : start.cells[y].type = c.type =>
                 start.cells[y].mode = c.mode

(* Apart from these, whatever pairs ql_dsp_simd, the merges and              *)
(* ql_bram_split make, and whatever ports ql_dsp_io_regs takes off, each net *)
(* keeps its function (ql-dsp-simd.cc:194-297, ql-bram-merge.cc:62-131).     *)
HalvesKeptIfRegular == Regular => HalvesKept

(* ql_dsp_simd "identifies k6n10f DSP cells with identical configuration and *)
(* packs pairs of them together": it does not stop while there is a pair.    *)
PairsPacked == (step # "simd" \/ verdict # "ok") => Pairs(Alike) = {}

(* The exceptions: a second group of equal configurations with a pair, whose *)
(* name is that of the first pair of the first group, and a cell that has    *)
(* the name of a pair (ql-dsp-simd.cc:175); and halves of one configuration  *)
(* with different parameters, which are not part of it (ql-dsp-simd.cc:257). *)
OneGroup ==
    \A x, y \in {x \in DOMAIN start.cells : IsDspHalf(x) /\ ~start.cells[x].keep} :
      IF y \in Partners(x) THEN start.cells[x].mode = start.cells[y].mode
      ELSE Cardinality(Partners(x)) = 1 \/ Cardinality(Partners(y)) = 1

NoneNumbered ==
    \A n \in 0 .. Cardinality(DOMAIN start.cells) : SimdNumbered(n) \notin DOMAIN start.cells

(* Apart from these no pair is left, with any number of halves and of cells  *)
(* that are kept, or find no partner (ql-dsp-simd.cc:117-192).               *)
PairsPackedIfRegular == start.step = "simd" /\ OneGroup /\ NoneNumbered => PairsPacked

(* ql_ioff: a port bit that showed a register still shows one with the same  *)
(* data, clock, edge, enable and reset, any other bit shows the net it       *)
(* showed; no register that stays changes what it does; and no net gets a    *)
(* second driver, however many bits show one register.                       *)
PortsKept ==
    /\ \A p \in DOMAIN ports : \A i \in DOMAIN ports[p].bits :
         Seen(flops, ports[p].bits[i]) = Seen(start.flops, start.ports[p].bits[i])
    /\ \A x \in Cells(start.flops) : RegisterOf(flops[x]) = RegisterOf(start.flops[x])
    /\ \A x, y \in Registers : flops[x].q = flops[y].q => x = y

(* A promoted register can be placed in the cell of one pad: nothing else    *)
(* reads the input it registers, or its output goes to one port bit and      *)
(* nowhere else.                                                             *)
HadIoType(x) == x \in DOMAIN start.flops /\ start.flops[x].type \in IoTypes
AtOnePad ==
    \A x \in Registers : flops[x].type \in IoTypes /\ ~HadIoType(x) =>
      \/ AtInput(x) /\ Cardinality(Consumers(flops[x].d)) <= 1
      \/ Cardinality(Slots(flops[x].q)) = 1 /\ Consumers(flops[x].q) = {}

=============================================================================
