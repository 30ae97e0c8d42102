------------------------------ MODULE HalfCells ------------------------------
(* Cells that fill half of a hard block, and the passes that put two halves  *)
(* in one: ql_dsp_simd (src/ql-qlf-plugin/ql-dsp-simd.cc), ql_sdpbram_merge  *)
(* and ql_tdpbram_merge (ql-bram-merge.cc), ql_bram_split                    *)
(* (ql-bram-split.cc).                                                       *)
(*                                                                           *)
(* A half is [type, conf, mode, own, in, out, keep, split, inferred]: conf   *)
(* are the nets of its control ports and mode the parameters a block has     *)
(* once; own are the parameters each half has; in and out give the net of    *)
(* each data port.  A block has a sequence of nets at each data port and a   *)
(* sequence of own parameters, one for each half.                            *)
EXTENDS Naturals, Sequences, FiniteSets

CONSTANTS
    Root,   \* SigMap: the net that stands for all that are connected with n
    Open,   \* stands for a port that is not connected
    SimdNumbered(_), \* the name of the n-th pair of a group
    MergedName(_,_), \* the name, new in the module, of a merge of x with y
    SplitName(_,_)   \* the name of the block that x and y share

(* The representative of a net stands for itself.                            *)
ASSUME RootAssumption ==
    \A n \in DOMAIN Root : Root[n] \in DOMAIN Root /\ Root[Root[n]] = Root[n]

VARIABLES
    cells,    \* name |-> cell
    gone,     \* the cells the running pass removes when it ends
    verdict   \* "ok", or why a pass stopped with an error

SdpMerge == "$__QLF_SDP36K"
TdpMerge == "$__QLF_TDP36K"
SdpMerged == "$__QLF_SDP36K_MERGED"
TdpMerged == "$__QLF_TDP36K_MERGED"
SdpSplit == "$__QLF_FACTOR_BRAM18_SDP"
TdpSplit == "$__QLF_FACTOR_BRAM18_TDP"
DspPorts == "dsp_t1_10x9x32_cfg_ports"
DspParams == "dsp_t1_10x9x32_cfg_params"

Stop(why) == verdict' = why /\ UNCHANGED <<cells, gone>>

With(cs, n, c) == [x \in DOMAIN cs \cup {n} |-> IF x = n THEN c ELSE cs[x]]

Pairs(P(_, _)) ==
    {p \in (DOMAIN cells \ gone) \X (DOMAIN cells \ gone) : p[1] # p[2] /\ P(p[1], p[2])}

------------------------------------------------------------------------------
(* ql_dsp_simd.                                                              *)

UsesParams(c) == c.type \in {DspParams, "QL_DSP3"}

SimdHalf(x) == cells[x].type \in {DspPorts, DspParams} /\ ~cells[x].keep

(* getDspConfig: the control ports, by their representatives.  The mode of a *)
(* cell with parameters is not part of it.                                   *)
Config(c) == [params |-> UsesParams(c), clk |-> Root[c.conf.clk],
              rest |-> [p \in DOMAIN c.conf \ {"clk"} |-> c.conf[p]]]

Alike(x, y) == SimdHalf(x) /\ SimdHalf(y) /\ Config(cells[x]) = Config(cells[y])

(* The groups of equal configurations are gone through one after the other.  *)
Waiting(g) == {x \in DOMAIN cells \ gone : SimdHalf(x) /\ Config(cells[x]) = g}
Begun(g) == \E z \in gone : Config(cells[z]) = g
InTurn(g) == \A z \in gone : LET h == Config(cells[z]) IN h = g \/ Cardinality(Waiting(h)) < 2

(* Faulty form of SimdName: the number is not counted up.                    *)
SimdNameFirst(g) == SimdNumbered(0)

(* The pairs of each group are numbered from 0.                              *)
SimdName(g) == SimdNumbered(Cardinality({z \in gone : Config(cells[z]) = g}) \div 2)

(* The two halves of an output are concatenated and nothing stands for one   *)
(* that is not connected.  acc_fir is concatenated as well, to twice the     *)
(* width of the port, which both halves of the block read: the bits of the   *)
(* second cell are cut off, or fill the upper half if the first has none.    *)
Connected(f, s) ==
    CASE f = Open /\ s = Open -> <<>>
      [] f # Open /\ s = Open -> <<f>>
      [] f = Open /\ s # Open -> <<s>>
      [] f # Open /\ s # Open -> <<f, s>>
AccFir(f, s) ==
    CASE f # Open -> <<f, f>>
      [] f = Open /\ s = Open -> <<Open, Open>>
      [] OTHER -> <<"cut", "cut">>

Both(a, b) == a.inferred /\ b.inferred

Simd(a, b) ==
    [type |-> IF UsesParams(a) THEN "QL_DSP3" ELSE "QL_DSP2",
     conf |-> [a.conf EXCEPT !.clk = Root[@]], mode |-> a.mode, own |-> <<a.own, b.own>>,
     in |-> [p \in DOMAIN a.in |-> IF p = "acc_fir" THEN AccFir(a.in[p], b.in[p])
                                   ELSE <<a.in[p], b.in[p]>>],
     out |-> [p \in DOMAIN a.out |-> Connected(a.out[p], b.out[p])],
     keep |-> FALSE, split |-> FALSE, inferred |-> Both(a, b)]

(* The next two cells of a group, in whatever order the module has them.     *)
PairDsps ==
    \E p \in Pairs(Alike) :
      LET a == cells[p[1]]
          b == cells[p[2]]
          name == SimdName(Config(a))
      IN  /\ InTurn(Config(a))
          /\ IF name \in DOMAIN cells THEN Stop("name taken")
             ELSE IF a.mode # b.mode THEN Stop("modes differ")
             ELSE /\ cells' = With(cells, name, Simd(a, b))
                  /\ gone' = gone \cup {p[1], p[2]}
                  /\ UNCHANGED verdict

SimdDone == Pairs(Alike) = {}

(* A pass that has gone through its pairs removes the halves.                *)
RemoveHalves ==
    /\ cells' = [x \in DOMAIN cells \ gone |-> cells[x]]
    /\ gone' = {}

------------------------------------------------------------------------------
(* ql_sdpbram_merge and ql_tdpbram_merge.                                    *)

Mergeable(type) == {x \in DOMAIN cells : cells[x].type = type /\ cells[x].split}

Complete(c) ==
    /\ \A p \in DOMAIN c.in : c.in[p] # Open
    /\ \A p \in DOMAIN c.out : c.out[p] # Open

SideBySide(a, b) ==
    [in |-> [p \in DOMAIN a.in |-> <<a.in[p], b.in[p]>>],
     out |-> [p \in DOMAIN a.out |-> <<a.out[p], b.out[p]>>]]

(* Each half has ports and parameters of its own in the merged cell.         *)
Merged(a, b) ==
    [type |-> IF a.type = SdpMerge THEN SdpMerged ELSE TdpMerged,
     conf |-> <<>>, mode |-> <<>>, own |-> <<a.own, b.own>>,
     in |-> SideBySide(a, b).in, out |-> SideBySide(a, b).out,
     keep |-> a.keep \/ b.keep, split |-> FALSE, inferred |-> FALSE]

MergeBrams(type) ==
    \E x, y \in Mergeable(type) :
      LET a == cells[x]
          b == cells[y]
      IN  /\ x # y
          /\ IF ~Complete(a) \/ ~Complete(b) THEN Stop("no port")
             ELSE /\ cells' = With([z \in DOMAIN cells \ {x, y} |-> cells[z]],
                                   MergedName(x, y), Merged(a, b))
                  /\ UNCHANGED <<gone, verdict>>

MergeDone(type) == Cardinality(Mergeable(type)) < 2

------------------------------------------------------------------------------
(* ql_bram_split.                                                            *)

Splittable(x, y) ==
    /\ cells[x].type \in {SdpSplit, TdpSplit} /\ cells[y].type = cells[x].type
    /\ ~cells[x].keep /\ ~cells[y].keep

(* CFG_ABITS and CFG_DBITS are those of the first.                           *)
Split(a, b) ==
    [type |-> IF a.type = TdpSplit THEN "BRAM2x18_TDP" ELSE "BRAM2x18_SDP",
     conf |-> <<>>, mode |-> a.mode, own |-> <<a.own, b.own>>,
     in |-> SideBySide(a, b).in, out |-> SideBySide(a, b).out,
     keep |-> FALSE, split |-> FALSE, inferred |-> TRUE]

(* The simple dual port cells come first.                                    *)
SplitBrams ==
    \E p \in Pairs(Splittable) :
      /\ cells[p[1]].type = TdpSplit =>
           \A q \in Pairs(Splittable) : cells[q[1]].type = TdpSplit
      /\ cells' = With(cells, SplitName(p[1], p[2]), Split(cells[p[1]], cells[p[2]]))
      /\ gone' = gone \cup {p[1], p[2]}
      /\ UNCHANGED verdict

SplitDone == Pairs(Splittable) = {}

=============================================================================
