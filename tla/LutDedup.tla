------------------------------- MODULE LutDedup -------------------------------
(* opt_lut_dedup: an input of a $lut that shows the same net as an earlier   *)
(* one is taken off and the table is halved, round after round, until no     *)
(* cell has such a pair.  src/ql-qlf-plugin/ql_opt_lut_dedup.cc              *)
(*                                                                           *)
(* A LUT is [width, a, lut].  Inputs are numbered from 0; an index of the    *)
(* table is the set of its bits, which are the inputs at 1.                  *)
EXTENDS Integers

CONSTANTS
    LutNet,    \* the nets and the two constants
    Lut,       \* the selected $lut cells
    MaxWidth,  \* the widest of them
    Root,      \* SigMap: the net that stands for all that are connected with n
    LutDesigns \* what the cells are before the pass

Inputs(w) == 0 .. w - 1
LutOf(w)  == [width : {w}, a : [Inputs(w) -> LutNet], lut : [SUBSET Inputs(w) -> BOOLEAN]]
IsLut(l)  == \E w \in 1 .. MaxWidth : l \in LutOf(w)

ASSUME LutAssumption ==
    /\ MaxWidth \in Nat
    /\ Root \in [LutNet -> LutNet]
    /\ \A d \in LutDesigns : d = [c \in Lut |-> d[c]] /\ \A c \in Lut : IsLut(d[c])

VARIABLES
    before,  \* the cells before the pass
    cell,    \* the cells
    toVisit, \* those the loop over the cells has not come to
    changed  \* any_changed

lutVars == <<before, cell, toVisit, changed>>

LutInit ==
    /\ before \in LutDesigns
    /\ cell = before
    /\ toVisit = Lut /\ changed = FALSE

------------------------------------------------------------------------------
Same(l, i, j) == Root[l.a[i]] = Root[l.a[j]]

Twins(l) ==
    {p \in Inputs(l.width) \X Inputs(l.width) : p[1] < p[2] /\ Same(l, p[1], p[2])}

(* The first pair: no input before p[1] has a twin, none before p[2] is one  *)
(* of p[1].                                                                  *)
IsFirst(p, l) ==
    /\ p \in Twins(l)
    /\ \A q \in Twins(l) : p[1] < q[1] \/ (p[1] = q[1] /\ p[2] <= q[2])

(* Faulty form of Source: what comes after the removed input does not move.  *)
SourceUnmoved(p, bit) ==
    IF bit < p[2] THEN bit ELSE IF bit = p[2] THEN p[1] ELSE bit

(* Where bit `bit' of an index of the old table is in one of the new table.  *)
Source(p, bit) ==
    IF bit < p[2] THEN bit ELSE IF bit = p[2] THEN p[1] ELSE bit - 1

(* Input p[2] is taken off.                                                  *)
Without(p, l) ==
    LET w == l.width - 1
    IN  [width |-> w,
         a |-> [i \in Inputs(w) |-> IF i < p[2] THEN l.a[i] ELSE l.a[i + 1]],
         lut |-> [S \in SUBSET Inputs(w) |->
                    l.lut[{bit \in Inputs(l.width) : Source(p, bit) \in S}]]]

(* Faulty form of Another: the last cell decides.                            *)
AnotherLast(c) == Twins(cell[c]) # {}

(* Faulty form of Another: a round is begun for cells without pairs, too.    *)
AnotherAnyway(c) == TRUE

(* any_changed after cell c.                                                 *)
Another(c) == changed \/ Twins(cell[c]) # {}

(* A visit takes off one input at most.                                      *)
Visit(c) ==
    /\ c \in toVisit
    /\ toVisit' = toVisit \ {c}
    /\ \/ Twins(cell[c]) = {} /\ UNCHANGED cell
       \/ \E p \in Twins(cell[c]) :
            IsFirst(p, cell[c]) /\ cell' = [cell EXCEPT ![c] = Without(p, @)]
    /\ changed' = Another(c)
    /\ UNCHANGED before

NextRound ==
    /\ toVisit = {} /\ changed
    /\ toVisit' = Lut /\ changed' = FALSE
    /\ UNCHANGED <<before, cell>>

Done == toVisit = {} /\ ~changed

Finished == Done /\ UNCHANGED lutVars

LutNext == (\E c \in Lut : Visit(c)) \/ NextRound \/ Finished

(* The pass is one call that nothing else schedules.                         *)
LutSpec == LutInit /\ [][LutNext]_lutVars /\ WF_lutVars(LutNext)

------------------------------------------------------------------------------
(* The value of a LUT when nets have the values v.                           *)
Value(l, v) == l.lut[{i \in Inputs(l.width) : v[Root[l.a[i]]]}]

(* Every LUT computes what it computed, after any number of inputs taken off *)
(* and whatever the values of the nets: the halved table is read at the      *)
(* index at which the old one was (ql_opt_lut_dedup.cc:56-72).               *)
FunctionKept ==
    \A c \in Lut : \A v \in [LutNet -> BOOLEAN] : Value(cell[c], v) = Value(before[c], v)

(* When the pass returns, no LUT has two inputs on one net, although a visit *)
(* takes off one of them and each round is begun for any cell that changed   *)
(* in the last one (lines 21-22).                                            *)
DistinctAtEnd == Done => \A c \in Lut : Twins(cell[c]) = {}

(* The loop over rounds ends.                                                *)
Terminates == <>Done
=============================================================================
