------------------------------ MODULE DspIoRegs ------------------------------
(* ql_dsp_io_regs: gives each inferred QL_DSP2 and QL_DSP3 the type of its   *)
(* mode and takes the ports off it that the type does not have.              *)
(* src/ql-qlf-plugin/ql-dsp-io-regs.cc                                       *)
(*                                                                           *)
(* The control ports conf of a DSP are clk, load_acc, subtract and feedback, *)
(* given as [ones, may]: the value of its constant bits and the values it    *)
(* can take.  output_select, register_inputs and post, which stands for      *)
(* saturate_enable, shift_right and round, are in conf or in mode.           *)
EXTENDS HalfCells

CONSTANT BlockType(_,_,_,_)  \* the type of a block by its mode and its registers

Setting(c, s) == IF UsesParams(c) THEN c.mode[s] ELSE c.conf[s]
OutSel(c) == Setting(c, "output_select")
RegIn(c) == Setting(c, "register_inputs") = 1

Sums(c) == OutSel(c) \in {1, 2, 3, 5, 7}

(* The accumulator is used if feedback is or can be 0.  In the faulty form   *)
(* only if it is 0.                                                          *)
AlwaysMacc(c) == c.conf.feedback.may = {0}
HaveMacc(c) == c.conf.feedback.ones = 0

RegOut(c) == OutSel(c) > 3

Modes == {"MULT", "MULTACC", "MULTADD"}
TypeName(c) ==
    BlockType(c.type, IF ~Sums(c) THEN "MULT" ELSE IF HaveMacc(c) THEN "MULTACC" ELSE "MULTADD",
              RegIn(c), RegOut(c))

ASSUME BlockTypeAssumption ==
    \A t \in {"QL_DSP2", "QL_DSP3"}, m \in Modes, i \in BOOLEAN, o \in BOOLEAN :
      BlockType(t, m, i, o) \notin
        {"QL_DSP2", "QL_DSP3", DspPorts, DspParams, SdpMerge, TdpMerge, SdpSplit, TdpSplit}

NoClock(c) == ~(Sums(c) /\ HaveMacc(c)) /\ ~RegIn(c) /\ ~RegOut(c)

Ports2Del(c) ==
    (IF NoClock(c) THEN {"clk"} ELSE {})
      \cup CASE ~Sums(c) -> {"load_acc", "subtract", "acc_fir", "dly_b"}
                              \cup (IF UsesParams(c) THEN {} ELSE {"post"})
             [] Sums(c) /\ HaveMacc(c) -> {"acc_fir", "dly_b"}
             [] OTHER -> {"dly_b"}

Without(ports, deleted, none) ==
    [p \in DOMAIN ports |-> IF p \in deleted THEN none ELSE ports[p]]

Typed(c) ==
    LET del == Ports2Del(c)
    IN  [c EXCEPT !.type = TypeName(c), !.conf = Without(@, del, Open),
                  !.in = Without(@, del, <<Open, Open>>), !.out = Without(@, del, <<>>)]

Untyped == {x \in DOMAIN cells : cells[x].type \in {"QL_DSP2", "QL_DSP3"} /\ cells[x].inferred}

TypeDsp ==
    \E x \in Untyped :
      /\ cells' = [cells EXCEPT ![x] = Typed(@)]
      /\ UNCHANGED <<gone, verdict>>

=============================================================================
