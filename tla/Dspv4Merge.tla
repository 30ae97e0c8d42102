------------------------------ MODULE Dspv4Merge ------------------------------
(* merge_accumulators() of src/ql-qlf-plugin/ql-dspv4.cc: registers that     *)
(* provably hold the same value become one, to a fixpoint.                   *)
(*                                                                           *)
(* Each turn of the loop keys every accumulator on its next-state function   *)
(* with its own Q left out and on its reset and power-up value, and folds    *)
(* every group of equal keys onto one of its members.  The keys are those of *)
(* the beginning of the turn; the groups are folded one after the other, in  *)
(* any order and onto any member (the code's order is that of the cell list).*)
(* When the pass is through, the module it leaves runs.                      *)
EXTENDS AccLoops

VARIABLES
    design,  \* the module before the pass
    alive,   \* accumulators still there
    rep,     \* SigMap: rep[l] drives the net that was the Q of l
    phase,   \* "key", "fold" or "run"
    groups,  \* what is left of this turn's groups of two and more
    again,   \* a group was folded in this turn
    q,       \* the registers, when the module runs
    in       \* the inputs of the next edge

vars == <<design, alive, rep, phase, groups, again, q, in>>

Init ==
    /\ design \in Designs
    /\ alive = Acc /\ rep = [l \in Acc |-> l]
    /\ phase = "key" /\ groups = {} /\ again = TRUE
    /\ q = [l \in Acc |-> 0] /\ in \in Inputs

------------------------------------------------------------------------------
(* Keys.                                                                     *)

Sig(n) == IF n \in Acc THEN rep[n] ELSE n

(* The loop shape: one operand is the accumulator's own Q.  Port A is asked  *)
(* first.                                                                    *)
Candidates == {l \in alive : l \in {Sig(design.a[l]), Sig(design.b[l])}}

FeedbackOnA(l) == Sig(design.a[l]) = l

Operand(l) == IF FeedbackOnA(l) THEN Sig(design.b[l]) ELSE Sig(design.a[l])

(* The next-state function.  The flop's type tells whether it has a reset.   *)
StepKey(l) ==
    LET f == design.flop[l]
    IN  <<f.op, FeedbackOnA(l), Operand(l), f.clk, f.en, f.rst = NoNet>>

(* The value both begin with.                                                *)
BaseKey(l) ==
    LET f == design.flop[l] IN <<f.rst, f.resetTo, f.init>>

(* Faulty form of Key: the step of the induction without its base.           *)
KeyStep(l) == <<StepKey(l)>>

Key(l) == <<StepKey(l), BaseKey(l)>>

(* Cells that read the sum besides the accumulator's own flop.               *)
SumRead(l) ==
    \/ l \in design.read
    \/ \E m \in alive : design.sum[l] # NoNet
                          /\ design.sum[l] \in {design.a[m], design.b[m]}

(* Faulty form of Mergeable: nobody counts the readers of the sum.           *)
MergeableAnyway(l) ==
    /\ l \notin design.keep /\ design.flop[l].init \in {X, 0}
    /\ design.flop[l].rst # NoNet

(* keep, a non-zero power-up value, a sum with another reader and a missing  *)
(* reset each refuse.                                                        *)
Mergeable(l) ==
    /\ l \notin design.keep /\ design.flop[l].init \in {X, 0}
    /\ ~SumRead(l)
    /\ design.flop[l].rst # NoNet

Survivors == {l \in Candidates : Mergeable(l)}

GroupOf(l) == {m \in Survivors : Key(m) = Key(l)}

Groups == {g \in {GroupOf(l) : l \in Survivors} : \E l, m \in g : l # m}

------------------------------------------------------------------------------
(* A turn.                                                                   *)

(* Faulty form of KeyAll: `again' is not reset.                              *)
KeyAllAgain ==
    /\ phase = "key" /\ again
    /\ phase' = "fold"
    /\ groups' = Groups
    /\ UNCHANGED <<design, alive, rep, again, q, in>>

KeyAll ==
    /\ phase = "key" /\ again
    /\ phase' = "fold" /\ again' = FALSE
    /\ groups' = Groups
    /\ UNCHANGED <<design, alive, rep, q, in>>

(* The others' flops and adders go, and their Q nets are connected to k's.   *)
Fold(g, k) ==
    /\ phase = "fold" /\ g \in groups
    /\ groups' = groups \ {g}
    /\ alive' = alive \ (g \ {k})
    /\ rep' = [l \in Acc |-> IF rep[l] \in g THEN k ELSE rep[l]]
    /\ again' = TRUE
    /\ UNCHANGED <<design, phase, q, in>>

TurnEnds ==
    /\ phase = "fold" /\ groups = {}
    /\ phase' = "key"
    /\ UNCHANGED <<design, alive, rep, groups, again, q, in>>

Merging == KeyAll \/ TurnEnds \/ \E g \in groups : \E k \in g : Fold(g, k)

------------------------------------------------------------------------------
(* The module the pass leaves.  Registers that are gone hold nothing.        *)

Shown == [l \in Acc |-> q[rep[l]]]

PowerUp ==
    /\ phase = "key" /\ ~again
    /\ phase' = "run"
    /\ q' \in [Acc -> Value]
    /\ \A l \in alive : PowersUpAt(design.flop[l], q'[l])
    /\ \A l \in Acc \ alive : q'[l] = 0
    /\ in' \in Inputs
    /\ UNCHANGED <<design, alive, rep, groups, again>>

Edge ==
    /\ phase = "run"
    /\ q' = [l \in Acc |->
               IF l \in alive
               THEN Clocked(design.flop[l], in, q[l],
                            Of(q, in, Sig(design.a[l])),
                            Of(q, in, Sig(design.b[l])))
               ELSE 0]
    /\ in' \in Inputs
    /\ UNCHANGED <<design, alive, rep, phase, groups, again>>

Next == Merging \/ PowerUp \/ Edge

Spec == Init /\ [][Next]_vars /\ WF_vars(Merging)

------------------------------------------------------------------------------
(* The variables keep their types.                                           *)
TypeOK ==
    /\ design \in DesignType
    /\ alive \subseteq Acc
    /\ rep \in [Acc -> alive]
    /\ phase \in {"key", "fold", "run"}
    /\ groups \subseteq SUBSET alive
    /\ again \in BOOLEAN
    /\ q \in [Acc -> Value]
    /\ in \in Input

(* The module the pass leaves implements the module it was given: whatever   *)
(* was merged, every register seen through its net powers up and steps as    *)
(* its RTL says.                                                             *)
Bank == INSTANCE Accumulators WITH on <- phase = "run", q <- Shown
SameAsRTL == Bank!Spec

(* A sum that something still reads has its adder, and what was to be kept   *)
(* is there -- also when the reader is an accumulator that another turn may  *)
(* fold away.                                                                *)
SumsDriven == \A l \in Acc : l \in design.keep \/ SumRead(l) => l \in alive

(* The fixpoint is one: when the module runs, no two registers are left that *)
(* the pass would call the same.                                             *)
NoneLeft ==
    phase = "run" => \A l, m \in Survivors : Key(l) = Key(m) => l = m

(* The pass ends: a turn that folds nothing is the last.                     *)
Terminates == <>[](phase # "fold" /\ ~again)
===============================================================================
