--------------------------- MODULE Dspv4Merge_proofs ---------------------------
(* Theorems about Dspv4Merge, for any number of accumulators.                *)
EXTENDS Dspv4Merge, TLAPS

USE AccAssumption

(* Two registers that step alike as soon as they are one: the same flop, the *)
(* feedback on the same port, the other operand on one net.                  *)
Twins(l, m) ==
    /\ design.flop[l] = design.flop[m]
    /\ \/ /\ Sig(design.a[l]) = l /\ Sig(design.a[m]) = m
          /\ Sig(design.b[l]) = Sig(design.b[m])
       \/ /\ Sig(design.b[l]) = l /\ Sig(design.b[m]) = m
          /\ Sig(design.a[l]) = Sig(design.a[m])

(* A register that is there drives its own net.                              *)
OwnNets == \A k \in alive : rep[k] = k

(* What is still to be folded: disjoint groups of twins nobody else needs.   *)
Grouped ==
    /\ groups # {} => phase = "fold"
    /\ \A g \in groups : \A l, m \in g :
         l \in alive /\ Twins(l, m) /\ l \notin design.keep /\ ~SumRead(l)
    /\ \A g, h \in groups : g # h => g \cap h = {}

(* Every register and the one that stands for it have the same flop, and     *)
(* their operands are on the same nets.                                      *)
Congruent ==
    \A l \in Acc :
      /\ design.flop[l] = design.flop[rep[l]]
      /\ Sig(design.a[l]) = Sig(design.a[rep[l]])
      /\ Sig(design.b[l]) = Sig(design.b[rep[l]])

(* The module is off until nothing is left to do.                            *)
Off == IF phase = "run" THEN ~again ELSE q = [l \in Acc |-> 0]

(* A turn that has folded nothing yet knows all there is to fold.            *)
AllFound == ~again /\ phase = "fold" => groups = Groups
Fixpoint == ~again /\ phase # "fold" => Groups = {}

IInv == /\ TypeOK /\ OwnNets /\ Grouped /\ Congruent /\ Off /\ SumsDriven
        /\ AllFound /\ Fixpoint

------------------------------------------------------------------------------
(* Folding g onto k renames every signal alike.                              *)
LEMMA SigMoves ==
    ASSUME TypeOK, NEW g \in groups, NEW k \in g, Fold(g, k), NEW n \in Net
    PROVE  Sig(n)' = IF Sig(n) \in g THEN k ELSE Sig(n)
<1>1. g \subseteq Acc BY DEF TypeOK
<1>2. CASE n \in Acc BY <1>2 DEF Sig, Fold, TypeOK
<1>3. CASE n \notin Acc BY <1>1, <1>3 DEF Sig, Fold, Net
<1> QED BY <1>2, <1>3

(* Who reads a sum only ever becomes less.                                   *)
LEMMA ReadersGo ==
    ASSUME alive' \subseteq alive, design' = design, NEW l, SumRead(l)'
    PROVE  SumRead(l)
BY DEF SumRead

(* The groups depend on the netlist only.                                    *)
LEMMA GroupsStay ==
    ASSUME UNCHANGED <<design, alive, rep>>
    PROVE  Groups' = Groups
<1>1. ASSUME NEW n PROVE Sig(n)' = Sig(n) BY DEF Sig
<1>2. Candidates' = Candidates BY <1>1 DEF Candidates
<1>3. ASSUME NEW l PROVE Key(l)' = Key(l)
  <2>1. FeedbackOnA(l)' = FeedbackOnA(l) BY <1>1 DEF FeedbackOnA
  <2>2. Operand(l)' = Operand(l) BY <1>1, <2>1 DEF Operand
  <2>3. StepKey(l)' = StepKey(l) /\ BaseKey(l)' = BaseKey(l)
        BY <2>1, <2>2 DEF StepKey, BaseKey
  <2> QED BY <2>3 DEF Key
<1>4. ASSUME NEW l PROVE Mergeable(l)' = Mergeable(l)
      BY DEF Mergeable, SumRead
<1>5. Survivors' = Survivors BY <1>2, <1>4 DEF Survivors
<1>6. ASSUME NEW l PROVE GroupOf(l)' = GroupOf(l) BY <1>3, <1>5 DEF GroupOf
<1> QED BY <1>5, <1>6 DEF Groups

(* Equal keys make twins of two candidates.                                  *)
LEMMA EqualKeys ==
    ASSUME TypeOK, NEW l \in Survivors, NEW m \in Survivors, Key(l) = Key(m)
    PROVE  Twins(l, m)
<1>1. l \in Acc /\ m \in Acc BY DEF Survivors, Candidates, TypeOK
<1>2. StepKey(l) = StepKey(m) /\ BaseKey(l) = BaseKey(m) BY DEF Key
<1>3. design.flop[l] = design.flop[m]
  <2>1. design.flop[l] \in Flop /\ design.flop[m] \in Flop
        BY <1>1 DEF TypeOK, DesignType
  <2> QED BY <1>2, <2>1 DEF StepKey, BaseKey, Flop
<1>4. FeedbackOnA(l) = FeedbackOnA(m) /\ Operand(l) = Operand(m)
      BY <1>2 DEF StepKey
<1>5. CASE FeedbackOnA(l)
      BY <1>3, <1>4, <1>5 DEF Twins, FeedbackOnA, Operand
<1>6. CASE ~FeedbackOnA(l)
      BY <1>3, <1>4, <1>6 DEF Twins, FeedbackOnA, Operand, Survivors, Candidates
<1> QED BY <1>5, <1>6

(* Classes of equal keys are equal or disjoint.                              *)
LEMMA GroupsDisjoint ==
    ASSUME NEW g \in Groups, NEW h \in Groups, g # h
    PROVE  g \cap h = {}
BY DEF Groups, GroupOf

LEMMA InitHolds == Init => IInv
<1> SUFFICES ASSUME Init PROVE IInv OBVIOUS
<1>1. TypeOK BY DEF Init, TypeOK, Value
<1>2. OwnNets /\ Congruent BY DEF Init, OwnNets, Congruent
<1>3. Grouped /\ Off /\ SumsDriven /\ AllFound /\ Fixpoint
      BY DEF Init, Grouped, Off, SumsDriven, AllFound, Fixpoint, SumRead,
             TypeOK, DesignType
<1> QED BY <1>1, <1>2, <1>3 DEF IInv

------------------------------------------------------------------------------
LEMMA KeyAllKeeps == IInv /\ KeyAll => IInv'
<1> SUFFICES ASSUME IInv, KeyAll PROVE IInv' OBVIOUS
<1> USE DEF IInv
<1>1. Groups \subseteq SUBSET Survivors /\ Survivors \subseteq alive
      BY DEF Groups, GroupOf, Survivors, Candidates
<1>2. TypeOK' BY <1>1 DEF KeyAll, TypeOK
<1>3. (OwnNets /\ Congruent /\ Off /\ SumsDriven)'
      BY DEF KeyAll, OwnNets, Congruent, Off, SumsDriven, SumRead, Sig
<1>4. Grouped'
  <2>1. ASSUME NEW g \in Groups, NEW l \in g, NEW m \in g
        PROVE  /\ l \in alive /\ Twins(l, m)
               /\ l \notin design.keep /\ ~SumRead(l)
    <3>1. l \in Survivors /\ m \in Survivors /\ Key(l) = Key(m)
          BY <2>1 DEF Groups, GroupOf
    <3> QED BY <3>1, EqualKeys DEF Survivors, Candidates, Mergeable
  <2> QED BY <2>1, GroupsDisjoint
          DEF KeyAll, Grouped, Twins, SumRead, Sig
<1>5. (AllFound /\ Fixpoint)' BY GroupsStay DEF KeyAll, AllFound, Fixpoint
<1> QED BY <1>2, <1>3, <1>4, <1>5

LEMMA FoldKeeps ==
    ASSUME IInv, NEW g \in groups, NEW k \in g, Fold(g, k)
    PROVE  IInv'
<1> USE DEF IInv
<1>1. g \subseteq alive /\ k \in alive /\ alive \subseteq Acc
      BY DEF TypeOK
<1>2. TypeOK'
  <2>1. rep' \in [Acc -> alive'] BY <1>1 DEF Fold, TypeOK
  <2>2. \A h \in groups' : h \subseteq alive'
        BY <1>1 DEF Fold, TypeOK, Grouped
  <2> QED BY <1>1, <2>1, <2>2 DEF Fold, TypeOK
<1>3. OwnNets' BY <1>1 DEF Fold, OwnNets, TypeOK
<1>4. \A n \in Net : Sig(n)' = IF Sig(n) \in g THEN k ELSE Sig(n)
      BY SigMoves
<1>5. design' = design /\ alive' \subseteq alive BY DEF Fold
<1>6. \A l \in Acc : design.a[l] \in Net /\ design.b[l] \in Net
      BY DEF TypeOK, DesignType
<1>7. Grouped'
  <2>1. ASSUME NEW h \in groups', NEW l \in h, NEW m \in h
        PROVE  (l \in alive /\ Twins(l, m) /\ l \notin design.keep
                  /\ ~SumRead(l))'
    <3>1. h \in groups /\ h \cap g = {} BY <2>1 DEF Fold, Grouped
    <3>2. /\ l \in alive /\ m \in alive /\ Twins(l, m)
          /\ l \notin design.keep /\ ~SumRead(l) /\ l \notin g /\ m \notin g
          BY <3>1 DEF Grouped
    <3>3. Twins(l, m)' BY <1>1, <1>4, <1>5, <1>6, <3>2 DEF Twins
    <3> QED BY <1>5, <3>2, <3>3, ReadersGo DEF Fold
  <2> QED BY <2>1 DEF Fold, Grouped
<1>8. Congruent'
  <2> DEFINE New(n) == IF Sig(n) \in g THEN k ELSE Sig(n)
  <2>1. ASSUME NEW l \in Acc, NEW j, j = rep'[l]
        PROVE  /\ j \in Acc /\ design.flop[l] = design.flop[j]
               /\ New(design.a[l]) = New(design.a[j])
               /\ New(design.b[l]) = New(design.b[j])
    <3>1. /\ design.flop[l] = design.flop[rep[l]]
          /\ Sig(design.a[l]) = Sig(design.a[rep[l]])
          /\ Sig(design.b[l]) = Sig(design.b[rep[l]])
          /\ rep[l] \in Acc
          BY DEF Congruent, TypeOK
    <3>2. CASE rep[l] \notin g BY <2>1, <3>1, <3>2 DEF Fold
    <3>3. CASE rep[l] \in g
      <4>1. j = k BY <2>1, <3>3 DEF Fold
      <4>2. Twins(rep[l], k) BY <3>3 DEF Grouped
      <4> QED BY <1>1, <3>1, <3>3, <4>1, <4>2 DEF Twins
    <3> QED BY <3>2, <3>3
  <2>2. ASSUME NEW l \in Acc
        PROVE  (/\ design.flop[l] = design.flop[rep[l]]
                /\ Sig(design.a[l]) = Sig(design.a[rep[l]])
                /\ Sig(design.b[l]) = Sig(design.b[rep[l]]))'
    <3> DEFINE j == rep'[l]
    <3>1. /\ j \in Acc /\ design.flop[l] = design.flop[j]
          /\ New(design.a[l]) = New(design.a[j])
          /\ New(design.b[l]) = New(design.b[j])
          BY <2>1
    <3>2. /\ Sig(design.a[l])' = New(design.a[l])
          /\ Sig(design.b[l])' = New(design.b[l])
          BY <1>4, <1>5, <1>6
    <3>3. /\ Sig(design.a[rep[l]])' = New(design.a[j])
          /\ Sig(design.b[rep[l]])' = New(design.b[j])
          BY <1>4, <1>5, <1>6, <3>1
    <3> QED BY <1>5, <3>1, <3>2, <3>3
  <2> QED BY <2>2 DEF Congruent
<1>9. Off' BY DEF Fold, Off
<1>10. SumsDriven'
  <2> SUFFICES ASSUME NEW l \in Acc, (l \in design.keep \/ SumRead(l))'
               PROVE  l \in alive'
      BY DEF SumsDriven
  <2>1. l \in design.keep \/ SumRead(l) BY <1>5, ReadersGo
  <2>2. l \in alive /\ l \notin g BY <2>1 DEF SumsDriven, Grouped
  <2> QED BY <2>2 DEF Fold
<1>11. (AllFound /\ Fixpoint)' BY DEF Fold, AllFound, Fixpoint
<1> QED BY <1>2, <1>3, <1>7, <1>8, <1>9, <1>10, <1>11

LEMMA TurnEndsKeeps == IInv /\ TurnEnds => IInv'
<1> SUFFICES ASSUME IInv, TurnEnds PROVE IInv' OBVIOUS
<1> USE DEF IInv
<1>1. TypeOK' BY DEF TurnEnds, TypeOK
<1>2. (OwnNets /\ Congruent /\ Off /\ SumsDriven)'
      BY DEF TurnEnds, OwnNets, Congruent, Off, SumsDriven, SumRead, Sig
<1>3. Grouped' BY DEF TurnEnds, Grouped
<1>4. (AllFound /\ Fixpoint)' BY GroupsStay DEF TurnEnds, AllFound, Fixpoint
<1> QED BY <1>1, <1>2, <1>3, <1>4

(* An edge gives a register a value.                                         *)
LEMMA ClockedValue ==
    ASSUME NEW f \in Flop, NEW i \in Input, NEW v \in Value,
           NEW x \in Value, NEW y \in Value
    PROVE  Clocked(f, i, v, x, y) \in Value
<1>1. (x + y) % Modulus \in Value /\ (x - y) % Modulus \in Value
      BY DEF Value
<1> QED BY <1>1 DEF Clocked, Alu, Flop

(* Running leaves the netlist alone.                                         *)
LEMMA RunKeeps == IInv /\ (PowerUp \/ Edge) => IInv'
<1> SUFFICES ASSUME IInv, PowerUp \/ Edge PROVE IInv' OBVIOUS
<1> USE DEF IInv
<1>1. UNCHANGED <<design, alive, rep, groups, again>> /\ phase' = "run"
        /\ in' \in Inputs /\ phase # "fold" /\ ~again
      BY DEF PowerUp, Edge, Off
<1>2. q' \in [Acc -> Value]
  <2>1. CASE PowerUp BY <2>1 DEF PowerUp
  <2>2. CASE Edge
    <3>1. ASSUME NEW l \in alive
          PROVE  Clocked(design.flop[l], in, q[l],
                         Of(q, in, Sig(design.a[l])),
                         Of(q, in, Sig(design.b[l]))) \in Value
      <4>1. l \in Acc /\ design.flop[l] \in Flop
              /\ design.a[l] \in Net /\ design.b[l] \in Net
            BY DEF TypeOK, DesignType
      <4>2. \A n \in Net : Sig(n) \in Net
            BY DEF TypeOK, Sig, Net
      <4>3. \A n \in Net : Of(q, in, n) \in Value
            BY DEF TypeOK, Input, Of, Net
      <4>4. q[l] \in Value /\ in \in Input BY <4>1 DEF TypeOK
      <4> QED BY <4>1, <4>2, <4>3, <4>4, ClockedValue
    <3> QED BY <2>2, <3>1 DEF Edge, Value
  <2> QED BY <2>1, <2>2
<1>3. TypeOK' BY <1>1, <1>2 DEF TypeOK
<1>4. (OwnNets /\ Congruent /\ SumsDriven /\ Grouped /\ Off)'
      BY <1>1 DEF OwnNets, Congruent, SumsDriven, SumRead, Sig, Grouped, Twins,
                  Off
<1>5. (AllFound /\ Fixpoint)'
      BY <1>1, GroupsStay DEF AllFound, Fixpoint
<1> QED BY <1>3, <1>4, <1>5

LEMMA StutterKeeps == IInv /\ UNCHANGED vars => IInv'
<1> SUFFICES ASSUME IInv, UNCHANGED vars PROVE IInv' OBVIOUS
<1>1. (AllFound /\ Fixpoint)'
      BY GroupsStay DEF vars, IInv, AllFound, Fixpoint
<1>2. (TypeOK /\ OwnNets /\ Congruent /\ Off)'
      BY DEF vars, IInv, TypeOK, OwnNets, Congruent, Off, Sig
<1>3. (Grouped /\ SumsDriven)'
      BY DEF vars, IInv, Grouped, Twins, SumsDriven, SumRead, Sig
<1> QED BY <1>1, <1>2, <1>3 DEF IInv

(* The invariant the theorems follow from.                                   *)
THEOREM Inductive == Spec => []IInv
<1>1. IInv /\ [Next]_vars => IInv'
  <2> SUFFICES ASSUME IInv, [Next]_vars PROVE IInv' OBVIOUS
  <2>1. CASE KeyAll BY <2>1, KeyAllKeeps
  <2>2. CASE TurnEnds BY <2>2, TurnEndsKeeps
  <2>3. ASSUME NEW g \in groups, NEW k \in g, Fold(g, k) PROVE IInv'
        BY <2>3, FoldKeeps
  <2>4. CASE PowerUp \/ Edge BY <2>4, RunKeeps
  <2>5. CASE UNCHANGED vars BY <2>5, StutterKeeps
  <2> QED BY <2>1, <2>2, <2>3, <2>4, <2>5 DEF Next, Merging
<1> QED BY <1>1, InitHolds, PTL DEF Spec

(* The variables keep their types.                                           *)
THEOREM TypeCorrect == Spec => []TypeOK
BY Inductive, PTL DEF IInv

(* A sum that something still reads, and a register that was to be kept, are *)
(* never taken away: the tally of readers is made anew in every turn.        *)
THEOREM SumsDrivenHolds == Spec => []SumsDriven
BY Inductive, PTL DEF IInv

(* When the module runs, no two registers are left the pass would merge.     *)
THEOREM NoneLeftHolds == Spec => []NoneLeft
<1>1. IInv => NoneLeft
  <2> SUFFICES ASSUME IInv, phase = "run", NEW l \in Survivors,
                      NEW m \in Survivors, Key(l) = Key(m), l # m
               PROVE  FALSE
      BY DEF NoneLeft
  <2>1. l \in GroupOf(l) /\ m \in GroupOf(l) BY DEF GroupOf
  <2>2. GroupOf(l) \in Groups BY <2>1 DEF Groups
  <2> QED BY <2>2 DEF IInv, Fixpoint, Off
<1> QED BY <1>1, Inductive, PTL

------------------------------------------------------------------------------
(* The edge as the user sees it: through the nets, every register steps as   *)
(* its own RTL says, those that are gone included.                           *)
LEMMA EdgeShown ==
    ASSUME IInv, Edge
    PROVE  Shown' = [l \in Acc |-> Clocked(design.flop[l], in, Shown[l],
                                           Of(Shown, in, design.a[l]),
                                           Of(Shown, in, design.b[l]))]
<1> USE DEF IInv
<1>1. rep' = rep /\ rep \in [Acc -> alive] /\ alive \subseteq Acc
      BY DEF Edge, TypeOK
<1>2. ASSUME NEW n \in Net PROVE Of(Shown, in, n) = Of(q, in, Sig(n))
      BY <1>1, <1>2 DEF Of, Shown, Sig, Net
<1>3. ASSUME NEW l \in Acc
      PROVE  q'[rep[l]] = Clocked(design.flop[l], in, Shown[l],
                                  Of(Shown, in, design.a[l]),
                                  Of(Shown, in, design.b[l]))
  <2> DEFINE k == rep[l]
  <2>1. k \in alive /\ k \in Acc BY <1>1
  <2>2. q'[k] = Clocked(design.flop[k], in, q[k],
                        Of(q, in, Sig(design.a[k])),
                        Of(q, in, Sig(design.b[k])))
        BY <2>1 DEF Edge
  <2>3. /\ design.flop[l] = design.flop[k]
        /\ Sig(design.a[l]) = Sig(design.a[k])
        /\ Sig(design.b[l]) = Sig(design.b[k])
        BY DEF Congruent
  <2>4. design.a[l] \in Net /\ design.b[l] \in Net
        BY DEF TypeOK, DesignType
  <2>5. /\ Of(Shown, in, design.a[l]) = Of(q, in, Sig(design.a[k]))
        /\ Of(Shown, in, design.b[l]) = Of(q, in, Sig(design.b[k]))
        BY <1>2, <2>3, <2>4
  <2>6. Shown[l] = q[k] BY DEF Shown
  <2> HIDE DEF k
  <2>7. q'[k] = Clocked(design.flop[l], in, Shown[l],
                        Of(Shown, in, design.a[l]),
                        Of(Shown, in, design.b[l]))
        BY <2>2, <2>3, <2>5, <2>6
  <2> QED BY <2>7 DEF k
<1>4. Shown' = [l \in Acc |-> q'[rep[l]]] BY <1>1 DEF Shown
<1> QED BY <1>3, <1>4

LEMMA BankStep ==
    ASSUME IInv, [Next]_vars
    PROVE  [Bank!Next]_(Bank!vars)
<1> USE DEF IInv
<1>1. CASE Merging
  <2>1. phase # "run" /\ phase' # "run" /\ q' = q /\ in' = in
          /\ design' = design /\ alive' \subseteq Acc
        BY <1>1 DEF Merging, KeyAll, TurnEnds, Fold, TypeOK, Grouped
  <2>2. rep \in [Acc -> Acc] /\ rep' \in [Acc -> Acc]
        BY <1>1 DEF Merging, KeyAll, TurnEnds, Fold, TypeOK
  <2>3. Shown = [l \in Acc |-> 0] /\ Shown' = [l \in Acc |-> 0]
        BY <2>1, <2>2 DEF Off, Shown
  <2> QED BY <2>1, <2>3 DEF Bank!vars
<1>2. CASE PowerUp
  <2>1. phase # "run" /\ phase' = "run" /\ design' = design /\ rep' = rep
          /\ in' \in Inputs
        BY <1>2 DEF PowerUp
  <2>2. ASSUME NEW l \in Acc
        PROVE  /\ Shown'[l] \in Value
               /\ PowersUpAt(design.flop[l], Shown'[l])
    <3>1. rep[l] \in alive /\ rep[l] \in Acc
            /\ design.flop[l] = design.flop[rep[l]]
          BY DEF TypeOK, Congruent
    <3>2. Shown'[l] = q'[rep[l]] BY <2>1 DEF Shown
    <3> QED BY <1>2, <3>1, <3>2 DEF PowerUp
  <2>3. Shown' \in [Acc -> Value] BY <2>2 DEF Shown
  <2>4. Bank!PowerUp
        BY <2>1, <2>2, <2>3 DEF Bank!PowerUp, Bank!PowersUpAt, PowersUpAt,
           Bank!Value, Value, Bank!X, X
  <2> QED BY <2>4 DEF Bank!Next
<1>3. CASE Edge
  <2>1. phase = "run" /\ phase' = "run" /\ design' = design
          /\ in' \in Inputs
        BY <1>3 DEF Edge
  <2>2. Bank!Edge
        BY <1>3, <2>1, EdgeShown DEF Bank!Edge, Bank!Clocked, Clocked, Bank!Of,
           Of, Bank!Alu, Alu
  <2> QED BY <2>2 DEF Bank!Next
<1>4. CASE UNCHANGED vars
  <2>1. Shown' = Shown BY <1>4 DEF vars, Shown
  <2> QED BY <1>4, <2>1 DEF vars, Bank!vars
<1> QED BY <1>1, <1>2, <1>3, <1>4 DEF Next

(* The pass implements the module it was given: what is seen of every        *)
(* register, merged or not, is a behaviour of its RTL.                       *)
THEOREM Implements == Spec => SameAsRTL
<1>1. Init => Bank!Init
      BY DEF Init, Bank!Init, Shown
<1> QED BY <1>1, Inductive, BankStep, PTL DEF Spec, SameAsRTL, Bank!Spec
===============================================================================
