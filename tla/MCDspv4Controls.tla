--------------------------- MODULE MCDspv4Controls ---------------------------
(* Offers for Dspv4Controls.                                                 *)
EXTENDS Dspv4Controls
CONSTANTS k1, k2, r1, e1, e2, e3, e4

Flat(c)  == [ctl |-> c, zero |-> TRUE]
ToOne(c) == [ctl |-> c, zero |-> FALSE]

NoStage   == {}
Deep(s, t) == [i \in 1..2 |-> IF i = 1 THEN s ELSE t]
Shallow(S) == {Deep(s, NoStage) : s \in S}

------------------------------------------------------------------------------
(* Enables: one clock, no resets, four enables and one of them inverted.     *)
Enabled(e, i) == Flat([clk |-> k1, en |-> e, enInv |-> i, rst |-> One,
                       rstHigh |-> FALSE])
EnableReg == <<Enabled(One, FALSE), Enabled(e1, FALSE), Enabled(e1, TRUE),
               Enabled(e2, FALSE), Enabled(e3, FALSE), Enabled(e4, FALSE)>>

(* Which register, if any, is behind ports A, B, C, D and P.  e2, e3 and e4  *)
(* are interchangeable: they are used in this order.                         *)
EnableUses ==
    {u \in [1..5 -> 0..6] :
       \A i \in 1..5 : u[i] > 4 => \E j \in 1..(i - 1) : u[j] = u[i] - 1}

EnableStage(i) == Deep(IF i = 0 THEN NoStage ELSE {EnableReg[i]}, NoStage)

EnableOffers ==
    {[stage |-> [A |-> EnableStage(u[1]), B |-> EnableStage(u[2]),
                 C |-> EnableStage(u[3]), D |-> EnableStage(u[4])],
      add |-> TRUE, padd |-> TRUE, mff |-> NoReg,
      ff |-> IF u[5] = 0 THEN NoReg ELSE EnableReg[u[5]],
      ff2 |-> NoReg, ad |-> NoReg] : u \in EnableUses}

------------------------------------------------------------------------------
(* Clocks and resets: two clocks, one reset of either polarity.              *)
Reset(k, r, h) == [clk |-> k, en |-> One, enInv |-> FALSE, rst |-> r,
                   rstHigh |-> h]
Never(k) == Flat(Reset(k, One, FALSE))
High(k)  == Flat(Reset(k, r1, TRUE))
Low(k)   == Flat(Reset(k, r1, FALSE))
Set(k)   == ToOne(Reset(k, r1, FALSE))

SomeStages == {NoStage, {Never(k1)}, {High(k1)}, {Low(k1)}, {Low(k2)}}
AStages == Shallow(SomeStages)
             \cup {Deep({High(k1)}, {High(k1)}), Deep({High(k1)}, {Low(k1)}),
                   Deep({Low(k2)}, {Set(k2)}), Deep({High(k1), Low(k1)}, {})}

ResetOffers ==
    {[stage |-> [A |-> a, B |-> b, C |-> c, D |-> d],
      add |-> TRUE, padd |-> TRUE, mff |-> m, ff |-> p, ff2 |-> NoReg,
      ad |-> x] :
       a \in AStages, b \in Shallow(SomeStages),
       c \in Shallow({NoStage, {Never(k1)}, {High(k1)}}),
       d \in Shallow({NoStage, {Low(k1)}}),
       m \in {NoReg, Never(k1), High(k1), Low(k1), Set(k1)},
       p \in {NoReg, Never(k1), Low(k2), Set(k1)},
       x \in {NoReg, High(k1), Low(k1), Low(k2)}}

------------------------------------------------------------------------------
(* Two result registers without an adder; the first may have an enable.      *)
TwoStageOffers ==
    {[stage |-> [A |-> a, B |-> Deep({}, {}), C |-> Deep({}, {}),
                 D |-> Deep({}, {})],
      add |-> FALSE, padd |-> FALSE, mff |-> NoReg, ff |-> p, ff2 |-> q,
      ad |-> NoReg] :
       a \in AStages, p \in {Never(k1), High(k1), Enabled(e1, FALSE)},
       q \in {NoReg, Never(k1), Low(k1), Low(k2)}}

MCOffers == ResetOffers \cup TwoStageOffers \cup EnableOffers
==============================================================================
