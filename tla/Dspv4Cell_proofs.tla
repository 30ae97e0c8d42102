--------------------------- MODULE Dspv4Cell_proofs ---------------------------
(* One QL_DSP4, from two sides.  A finished cell keeps the controls of every *)
(* register it takes, for every set of nets and every offer: the decisions   *)
(* of emit() are taken one after the other and wired at the end, so the      *)
(* invariant says what each decision has settled once it is passed, and what *)
(* each pin writer leaves.  And a multiply that fits the ports reaches a     *)
(* cell, for all widths.                                                     *)
EXTENDS Dspv4Controls, Dspv4Operands, FiniteSetTheorems, TLAPS

(* Where emit() is past a decision, or past a pin writer.                    *)
Built       == {"built"}
PWired      == {"wireAD"} \cup Built
MWired      == {"wireP"} \cup PWired
ChainsWired == {"wireM"} \cup MWired
ADDecided   == {"wireChains"} \cup ChainsWired
PairsDone   == {"agreeM", "enables", "ad"} \cup ADDecided
Walked      == {"agree"} \cup PairsDone
MChecked    == {"walk"} \cup Walked

(* A chain agrees with itself and with what the cell had fixed before.       *)
ChainsAgree ==
    \A p \in Ports : \A r \in chain[p] :
      /\ r.zero /\ SeedAgrees(offer, r.ctl)
      /\ \A q \in chain[p] : r.ctl = q.ctl

KeptTaken == \A p \in kept : chain[p] # {}

(* Two chains agree on clock and reset.                                      *)
Alike(p, q) == \A r \in chain[p], s \in chain[q] : Agrees(r.ctl, s.ctl)

(* The comparisons made so far hold of the chains that are left.             *)
PairsAgree ==
    /\ step \in {"checkM", "walk"} => turn = 1
    /\ step = "agree" =>
         \A i \in 1..6 : i < turn => ~GiveUp(Pairs[i][1], Pairs[i][2])
    /\ step \in PairsDone => \A p, q \in kept : Alike(p, q)

(* The AD register resets like M and the chains, and has the cell's clock.   *)
ADAgrees ==
    step \in ADDecided /\ offer.ad # NoReg =>
      /\ offer.ad.zero
      /\ MReg(offer) # NoReg => Agrees(MReg(offer).ctl, offer.ad.ctl)
      /\ PReg(offer) # NoReg => PReg(offer).ctl.clk = offer.ad.ctl.clk
      /\ \A p \in kept : \A r \in chain[p] : Agrees(r.ctl, offer.ad.ctl)

Settled == /\ ChainsAgree /\ KeptTaken /\ PairsAgree /\ ADAgrees
           /\ step \in MChecked => MFits(offer)

(* What the pins carry once a writer is past.                                *)
ChainPins ==
    step \in ChainsWired =>
      \A p \in kept : \A r \in chain[p] :
        Clocked(r, rstn) /\ Gated(r, ce[p])
MPins == step \in MWired /\ MReg(offer) # NoReg =>
           Clocked(MReg(offer), rstn)
PPins == step \in PWired /\ PReg(offer) # NoReg =>
           Clocked(PReg(offer), accrstn) /\ Gated(PReg(offer), ce["P"])
ADPins == step \in Built /\ offer.ad # NoReg => Clocked(offer.ad, rstn)

(* A reset pin that no register needs stays inactive.                        *)
RstnIdle ==
    /\ step \in ChainsWired => kept = {}
    /\ step \in MWired => MReg(offer) = NoReg
    /\ step # "built" /\ step # "refused"
Idle == /\ RstnIdle => rstn = Inactive
        /\ step \notin PWired \cup {"refused"} => accrstn = Inactive
        /\ step \notin PWired \cup {"refused"} => ce["P"] = Inactive

Written == ChainPins /\ MPins /\ PPins /\ ADPins /\ Idle

IInv == TypeOK /\ Settled /\ Written
------------------------------------------------------------------------------
(* The flops of an agreeing chain all have the chain's controls.             *)
LEMMA ChainCtlOf ==
    ASSUME NEW S, NEW x \in S, \A r, q \in S : r.ctl = q.ctl
    PROVE  ChainCtl(S) = x.ctl
  BY DEF ChainCtl

(* The first absorbed chain is one of the absorbed chains.                   *)
LEMMA FirstKept ==
    ASSUME NEW S, S \subseteq Ports, S # {}
    PROVE  First(S) \in S
  BY DEF First, Ports

(* The M and the P register are registers the matcher bound.                 *)
LEMMA ResultRegs ==
    ASSUME NEW o \in OfferType
    PROVE  /\ MReg(o) \in OrNone(Reg)
           /\ PReg(o) \in OrNone(Reg)
           /\ o.ad \in OrNone(Reg)
  <1>1. /\ o.mff \in OrNone(Plain) /\ o.ff \in OrNone(Reg)
        /\ o.ff2 \in OrNone(Plain) /\ o.ad \in OrNone(Plain)
    BY DEF OfferType
  <1>2. Plain \subseteq Reg /\ NoReg \in OrNone(Reg)
    BY DEF Plain, OrNone
  <1> QED
    BY <1>1, <1>2 DEF MReg, PReg, OrNone

(* The controls of a register are drives and a clock.                        *)
LEMMA RegTypes ==
    ASSUME NEW r \in Reg
    PROVE  /\ r.ctl \in Ctl /\ r.ctl.clk \in Clk
           /\ EnableOf(r.ctl) \in Drive /\ ResetOf(r.ctl) \in Drive
           /\ \A pin \in Drive : WithReset(pin, r.ctl) \in Drive
           /\ WithReset(Inactive, r.ctl) = ResetOf(r.ctl)
  BY DEF Reg, Ctl, EnableOf, ResetOf, Drive, WithReset, Inactive

(* What a walk collects comes from the two stages behind the port.           *)
LEMMA CollectedRegs ==
    ASSUME NEW o \in OfferType, NEW p \in Ports
    PROVE  /\ Collected(o, p) \subseteq Reg
           /\ \A r \in Collected(o, p) :
                /\ r.zero /\ SeedAgrees(o, r.ctl)
                /\ \A q \in Collected(o, p) : r.ctl = q.ctl
  <1>1. o.stage[p][1] \subseteq Reg /\ o.stage[p][2] \subseteq Reg
    BY DEF OfferType
  <1> QED
    BY <1>1 DEF Collected, Joins

------------------------------------------------------------------------------
(* The chain that stands for the others has controls of a flop.              *)
LEMMA KeptCtl ==
    ASSUME TypeOK, KeptTaken, NEW p \in kept
    PROVE  \E r \in Reg : ChainCtl(chain[p]) = r.ctl
  <1>1. chain[p] \subseteq Reg /\ chain[p] # {}
    BY DEF TypeOK, KeptTaken
  <1> QED
    BY <1>1 DEF ChainCtl

(* Every variable keeps its type.  The pins need KeptTaken as well: a chain  *)
(* that counts as absorbed is not empty, so it has controls to wire.         *)
TypeInv == TypeOK /\ KeptTaken

THEOREM ControlsTypeCorrect == Spec => []TypeOK
  <1>1. Init => TypeInv
    BY ControlsAssumption
       DEF Init, TypeInv, TypeOK, KeptTaken, Steps, Drive, Inactive
  <1>2. TypeInv /\ [Next]_vars => TypeInv'
    <2> SUFFICES ASSUME TypeInv, [Next]_vars PROVE TypeInv'
      OBVIOUS
    <2> USE DEF TypeInv, TypeOK, KeptTaken
    <2>1. CASE CheckM
      BY <2>1 DEF CheckM, Refuse, Steps, pins
    <2>2. CASE WalkAll
      BY <2>2, CollectedRegs DEF WalkAll, Steps, pins
    <2>3. CASE AgreePair
      BY <2>3 DEF AgreePair, Pairs, pins
    <2>4. CASE AgreeEnds
      BY <2>4 DEF AgreeEnds, Steps, pins
    <2>5. CASE AgreeM
      BY <2>5 DEF AgreeM, Refuse, Steps, pins
    <2>6. CASE Evict
      BY <2>6 DEF Evict, Evictees, pins
    <2>7. CASE EvictionEnds
      BY <2>7 DEF EvictionEnds, Steps, pins
    <2>8. CASE ADBank
      BY <2>8 DEF ADBank, Refuse, Steps, KeptWithAD, pins
    <2>9. CASE WireChains
      <3>1. CASE kept = {}
        BY <2>9, <3>1 DEF WireChains, Steps, pins
      <3>2. CASE kept # {}
        <4>1. PICK r \in Reg : ChainCtl(chain[First(kept)]) = r.ctl
          BY <3>2, FirstKept, KeptCtl
        <4>2. \A p \in CEPorts \cap kept : EnableOf(ChainCtl(chain[p])) \in Drive
          BY KeptCtl, RegTypes
        <4>3. /\ r.ctl.clk \in Clk
              /\ WithReset(rstn, r.ctl) \in Drive
          BY RegTypes
        <4>4. ce' \in [CEPorts -> Drive]
          BY <2>9, <3>2, <4>2 DEF WireChains
        <4> QED
          BY <2>9, <3>2, <4>1, <4>3, <4>4 DEF WireChains, Steps, pins
      <3> QED
        BY <3>1, <3>2
    <2>10. CASE WireM
      <3>1. CASE MReg(offer) = NoReg
        BY <2>10, <3>1 DEF WireM, Steps, pins
      <3>2. CASE MReg(offer) # NoReg
        <4>1. MReg(offer) \in Reg
          BY <3>2, ResultRegs DEF OrNone
        <4>2. /\ MReg(offer).ctl.clk \in Clk
              /\ WithReset(rstn, MReg(offer).ctl) \in Drive
          BY <4>1, RegTypes
        <4> QED
          BY <2>10, <3>2, <4>2 DEF WireM, Steps, pins
      <3> QED
        BY <3>1, <3>2
    <2>11. CASE WireP
      <3>1. CASE PReg(offer) = NoReg
        BY <2>11, <3>1 DEF WireP, Steps, pins
      <3>2. CASE PReg(offer) # NoReg
        <4>1. PReg(offer) \in Reg
          BY <3>2, ResultRegs DEF OrNone
        <4>2. /\ PReg(offer).ctl.clk \in Clk
              /\ EnableOf(PReg(offer).ctl) \in Drive
              /\ WithReset(accrstn, PReg(offer).ctl) \in Drive
          BY <4>1, RegTypes
        <4> QED
          BY <2>11, <3>2, <4>2 DEF WireP, Refuse, Steps, pins
      <3> QED
        BY <3>1, <3>2
    <2>12. CASE WireAD
      <3>1. CASE offer.ad = NoReg
        BY <2>12, <3>1 DEF WireAD, Steps
      <3>2. CASE offer.ad # NoReg
        <4>1. offer.ad \in Reg
          BY <3>2, ResultRegs DEF OrNone
        <4>2. /\ offer.ad.ctl.clk \in Clk
              /\ WithReset(rstn, offer.ad.ctl) \in Drive
          BY <4>1, RegTypes
        <4> QED
          BY <2>12, <3>2, <4>2 DEF WireAD, Steps
      <3> QED
        BY <3>1, <3>2
    <2>13. CASE Finished \/ UNCHANGED vars
      BY <2>13 DEF Finished, vars, pins
    <2> QED
      BY <2>1, <2>2, <2>3, <2>4, <2>5, <2>6, <2>7, <2>8, <2>9, <2>10, <2>11,
         <2>12, <2>13 DEF Next
  <1>3. TypeInv => TypeOK
    BY DEF TypeInv
  <1> QED
    BY <1>1, <1>2, <1>3, PTL DEF Spec
------------------------------------------------------------------------------
(* What is settled stays settled.                                            *)

(* Pairs names every two ports once, so when each pair has been compared any *)
(* two chains that are left agree.                                           *)
LEMMA AllPairs ==
    ASSUME TypeOK, ChainsAgree, KeptTaken,
           \A i \in 1..6 : ~GiveUp(Pairs[i][1], Pairs[i][2])
    PROVE  \A p, q \in kept : Alike(p, q)
  <1>1. /\ ~GiveUp("B", "A") /\ ~GiveUp("C", "A") /\ ~GiveUp("C", "B")
        /\ ~GiveUp("D", "A") /\ ~GiveUp("D", "B") /\ ~GiveUp("D", "C")
    BY DEF Pairs
  <1>2. ASSUME NEW p \in kept, NEW q \in kept, ~GiveUp(p, q)
        PROVE  Alike(p, q) /\ Alike(q, p)
    <2> SUFFICES ASSUME NEW r \in chain[p], NEW t \in chain[q]
                 PROVE  Agrees(r.ctl, t.ctl) /\ Agrees(t.ctl, r.ctl)
      BY DEF Alike
    <2>1. p \in Ports /\ q \in Ports
      BY DEF TypeOK
    <2>2. ChainCtl(chain[p]) = r.ctl /\ ChainCtl(chain[q]) = t.ctl
      BY <2>1, ChainCtlOf DEF ChainsAgree
    <2> QED
      BY <1>2, <2>2 DEF GiveUp, Agrees
  <1>3. \A p \in kept : Alike(p, p)
    BY DEF Alike, ChainsAgree, Agrees, TypeOK
  <1> QED
    BY <1>1, <1>2, <1>3 DEF TypeOK, Ports

(* The clock the AD register is compared with is that of every register.     *)
LEMMA ADFitsAgrees ==
    ASSUME TypeOK, ChainsAgree, KeptTaken, MFits(offer), offer.ad # NoReg,
           \A p, q \in kept : Alike(p, q),
           ADFits(offer.ad)
    PROVE  /\ offer.ad.zero
           /\ MReg(offer) # NoReg => Agrees(MReg(offer).ctl, offer.ad.ctl)
           /\ PReg(offer) # NoReg => PReg(offer).ctl.clk = offer.ad.ctl.clk
           /\ \A p \in KeptWithAD(offer.ad) : \A r \in chain[p] :
                Agrees(r.ctl, offer.ad.ctl)
  <1> DEFINE S == KeptWithAD(offer.ad)
  <1>1. S \subseteq kept /\ S \subseteq Ports
    BY DEF KeptWithAD, TypeOK
  <1>2. /\ MReg(offer) \in OrNone(Reg) /\ PReg(offer) \in OrNone(Reg)
        /\ offer.ad \in Reg
    BY ResultRegs DEF TypeOK, OrNone
  <1>3. ASSUME NEW p \in S, NEW r \in chain[p]
        PROVE  ChainCtl(chain[p]) = r.ctl
    BY <1>1, ChainCtlOf DEF ChainsAgree
  <1>4. ASSUME NEW p \in S, NEW r \in chain[p]
        PROVE  r.ctl.clk = offer.ad.ctl.clk
    <2>1. First(S) \in S
      BY <1>1, FirstKept
    <2>2. PICK t \in chain[First(S)] : TRUE
      BY <1>1, <2>1 DEF KeptTaken
    <2>3. CellClk(S) = t.ctl.clk
      BY <1>3, <2>1, <2>2 DEF CellClk
    <2>4. t \in Reg
      BY <1>1, <2>1, <2>2 DEF TypeOK
    <2>5. t.ctl.clk = offer.ad.ctl.clk
      BY <2>3, <2>4, RegTypes, ControlsAssumption DEF ADFits
    <2> QED
      BY <1>1, <2>1, <2>2, <2>5 DEF Alike, Agrees
  <1>5. \A p \in S : \A r \in chain[p] : Agrees(r.ctl, offer.ad.ctl)
    BY <1>3, <1>4 DEF KeptWithAD, ResetsLike, Agrees
  <1>6. ASSUME S # {}
        PROVE  \E r \in Reg : SeedAgrees(offer, r.ctl)
                                /\ r.ctl.clk = offer.ad.ctl.clk
    BY <1>1, <1>4, <1>6 DEF KeptTaken, ChainsAgree, TypeOK
  <1>7. MReg(offer) # NoReg => MReg(offer).ctl.clk = offer.ad.ctl.clk
    <2>1. CASE S = {}
      BY <1>2, <2>1, RegTypes, ControlsAssumption
         DEF ADFits, CellClk, OrNone
    <2>2. CASE S # {}
      BY <1>6, <2>2 DEF SeedAgrees
    <2> QED
      BY <2>1, <2>2
  <1>8. PReg(offer) # NoReg => PReg(offer).ctl.clk = offer.ad.ctl.clk
    <2>1. CASE MReg(offer) # NoReg
      BY <1>7, <2>1 DEF MFits
    <2>2. CASE MReg(offer) = NoReg /\ S = {}
      BY <1>2, <2>2, RegTypes, ControlsAssumption
         DEF ADFits, CellClk, OrNone
    <2>3. CASE MReg(offer) = NoReg /\ S # {}
      BY <1>6, <2>3 DEF SeedAgrees
    <2> QED
      BY <2>1, <2>2, <2>3
  <1> QED
    BY <1>5, <1>7, <1>8 DEF ADFits, ResetsLike, Agrees

LEMMA StaysSettled ==
    ASSUME TypeOK, TypeOK', Settled, [Next]_vars
    PROVE  Settled'
  <1> USE DEF Settled, MChecked, Walked, PairsDone, ADDecided, ChainsWired,
              MWired, PWired, Built
  <1>1. CASE CheckM
    <2>1. step' \in {"walk", "refused"} /\ UNCHANGED <<offer, chain, kept, turn>>
      BY <1>1 DEF CheckM, Refuse
    <2> QED
      BY <1>1, <2>1
         DEF CheckM, Refuse, ChainsAgree, KeptTaken, PairsAgree, ADAgrees
  <1>2. CASE WalkAll
    <2>1. ChainsAgree'
      BY <1>2, CollectedRegs DEF WalkAll, ChainsAgree, TypeOK
    <2>2. KeptTaken'
      BY <1>2 DEF WalkAll, KeptTaken
    <2>3. PairsAgree'
      BY <1>2 DEF WalkAll, PairsAgree, TypeOK
    <2> QED
      BY <1>2, <2>1, <2>2, <2>3 DEF WalkAll, ADAgrees
  <1>3. CASE AgreePair
    <2>1. step' = step /\ step = "agree" /\ turn' = turn + 1 /\ turn \in 1..6
          /\ UNCHANGED <<offer, chain>> /\ kept' \subseteq kept
      BY <1>3 DEF AgreePair, Pairs
    <2>2. ASSUME NEW i \in 1..6, i < turn'
          PROVE  ~GiveUp(Pairs[i][1], Pairs[i][2])'
      <3>1. CASE i < turn
        BY <2>1, <3>1 DEF PairsAgree, GiveUp
      <3>2. CASE i = turn
        <4>1. Pairs[i][1] \in Ports
          BY DEF Pairs, Ports
        <4>2. GiveUp(Pairs[i][1], Pairs[i][2]) => Pairs[i][1] \notin kept'
          BY <1>3, <3>2, <4>1 DEF AgreePair
        <4> QED
          BY <2>1, <4>2 DEF GiveUp
      <3> QED
        BY <2>1, <2>2, <3>1, <3>2
    <2>3. PairsAgree'
      BY <2>1, <2>2 DEF PairsAgree
    <2>4. ChainsAgree' /\ KeptTaken'
      BY <2>1 DEF ChainsAgree, KeptTaken
    <2> QED
      BY <2>1, <2>3, <2>4 DEF ADAgrees
  <1>4. CASE AgreeEnds
    <2>1. step = "agree" /\ step' = "agreeM" /\ turn = 7
          /\ UNCHANGED <<offer, chain, kept>>
      BY <1>4 DEF AgreeEnds, TypeOK, Pairs
    <2>2. \A p, q \in kept : Alike(p, q)
      BY <2>1, AllPairs DEF PairsAgree
    <2>3. PairsAgree'
      BY <2>1, <2>2 DEF PairsAgree, Alike
    <2> QED
      BY <2>1, <2>3 DEF ChainsAgree, KeptTaken, ADAgrees
  <1>5. CASE AgreeM
    BY <1>5 DEF AgreeM, Refuse, ChainsAgree, KeptTaken, PairsAgree, Alike,
                ADAgrees
  <1>6. CASE Evict
    BY <1>6 DEF Evict, ChainsAgree, KeptTaken, PairsAgree, Alike, ADAgrees
  <1>7. CASE EvictionEnds
    BY <1>7 DEF EvictionEnds, ChainsAgree, KeptTaken, PairsAgree, Alike,
                ADAgrees
  <1>8. CASE ADBank
    <2>1. step = "ad" /\ step' \in {"wireChains", "refused"}
          /\ UNCHANGED <<offer, chain>> /\ kept' \subseteq kept
      BY <1>8 DEF ADBank, Refuse, KeptWithAD
    <2>2. \A p, q \in kept : Alike(p, q)
      BY <2>1 DEF PairsAgree
    <2>3. ADAgrees'
      <3>1. CASE step' = "refused" \/ offer.ad = NoReg
        BY <2>1, <3>1 DEF ADAgrees
      <3>2. CASE step' = "wireChains" /\ offer.ad # NoReg
        <4>1. ADFits(offer.ad) /\ kept' = KeptWithAD(offer.ad)
          BY <1>8, <3>2 DEF ADBank, Refuse
        <4>2. MFits(offer)
          BY <2>1
        <4> QED
          BY <2>1, <2>2, <3>2, <4>1, <4>2, ADFitsAgrees DEF ADAgrees
      <3> QED
        BY <2>1, <3>1, <3>2
    <2>4. ChainsAgree' /\ KeptTaken' /\ PairsAgree'
      BY <2>1, <2>2 DEF ChainsAgree, KeptTaken, PairsAgree, Alike
    <2> QED
      BY <2>1, <2>3, <2>4
  <1>9. CASE WireChains
    BY <1>9 DEF WireChains, ChainsAgree, KeptTaken, PairsAgree, Alike, ADAgrees
  <1>10. CASE WireM
    BY <1>10 DEF WireM, ChainsAgree, KeptTaken, PairsAgree, Alike, ADAgrees
  <1>11. CASE WireP
    BY <1>11 DEF WireP, Refuse, ChainsAgree, KeptTaken, PairsAgree, Alike,
                 ADAgrees
  <1>12. CASE WireAD
    BY <1>12 DEF WireAD, ChainsAgree, KeptTaken, PairsAgree, Alike, ADAgrees
  <1>13. CASE Finished \/ UNCHANGED vars
    BY <1>13 DEF Finished, vars, ChainsAgree, KeptTaken, PairsAgree, Alike,
                 ADAgrees, GiveUp
  <1> QED
    BY <1>1, <1>2, <1>3, <1>4, <1>5, <1>6, <1>7, <1>8, <1>9, <1>10, <1>11,
       <1>12, <1>13 DEF Next
------------------------------------------------------------------------------
(* What is written stays right.                                              *)

(* While a decision is taken no pin changes, and no writer is passed.        *)
LEMMA DecisionsWriteNothing ==
    ASSUME Written, pins' = pins, offer' = offer,
           step \notin ChainsWired, step' \notin ChainsWired,
           step # "refused"
    PROVE  Written'
  BY DEF Written, ChainPins, MPins, PPins, ADPins, Idle, RstnIdle, pins,
         ChainsWired, MWired, PWired, Built

LEMMA StaysWritten ==
    ASSUME TypeOK, Settled, Settled', Written, [Next]_vars
    PROVE  Written'
  <1> USE DEF ChainsWired, MWired, PWired, Built
  <1> DEFINE decisions == {"checkM", "walk", "agree", "agreeM", "enables", "ad"}
  <1>1. CASE step \in decisions /\ ~(Finished \/ UNCHANGED vars)
    <2>1. pins' = pins /\ offer' = offer /\ step' \notin ChainsWired
      BY <1>1 DEF Next, CheckM, WalkAll, AgreePair, AgreeEnds, AgreeM, Evict,
                  EvictionEnds, ADBank, WireChains, WireM, WireP, WireAD,
                  Refuse, Finished, vars
    <2> QED
      BY <1>1, <2>1, DecisionsWriteNothing
  <1>2. CASE WireChains
    <2>1. step = "wireChains" /\ step' = "wireM"
          /\ UNCHANGED <<offer, chain, kept>>
      BY <1>2 DEF WireChains
    <2>2. rstn = Inactive /\ accrstn = Inactive /\ ce["P"] = Inactive
      BY <2>1 DEF Written, Idle, RstnIdle
    <2>3. CASE kept = {}
      BY <1>2, <2>1, <2>2, <2>3
         DEF WireChains, pins, Written, ChainPins, MPins, PPins, ADPins, Idle
    <2>4. CASE kept # {}
      <3>1. PICK t \in chain[First(kept)] : TRUE
        BY <2>4, FirstKept DEF Settled, KeptTaken, TypeOK
      <3>2. First(kept) \in kept /\ First(kept) \in Ports /\ t \in Reg
        BY <2>4, <3>1, FirstKept DEF TypeOK
      <3>3. ChainCtl(chain[First(kept)]) = t.ctl
        BY <3>1, <3>2, ChainCtlOf DEF Settled, ChainsAgree
      <3>4. clk' = t.ctl.clk /\ rstn' = ResetOf(t.ctl)
        BY <1>2, <2>2, <2>4, <3>2, <3>3, RegTypes DEF WireChains
      <3>5. ASSUME NEW p \in kept, NEW r \in chain[p]
            PROVE  Clocked(r, rstn)' /\ Gated(r, ce[p])'
        <4>1. p \in Ports /\ p \in CEPorts
          BY DEF TypeOK, CEPorts
        <4>2. r.zero /\ Agrees(r.ctl, t.ctl)
          BY <2>1, <3>1, <3>2, <4>1
             DEF Settled, ChainsAgree, PairsAgree, Alike, PairsDone, ADDecided
        <4>3. ChainCtl(chain[p]) = r.ctl
          BY <4>1, ChainCtlOf DEF Settled, ChainsAgree
        <4>4. ce'[p] = EnableOf(r.ctl)
          BY <1>2, <2>4, <4>1, <4>3 DEF WireChains
        <4> QED
          BY <3>4, <4>2, <4>4 DEF Clocked, Gated, EnableOf, ResetOf, Agrees
      <3>6. ce'["P"] = ce["P"] /\ accrstn' = accrstn
        BY <1>2, <2>4 DEF WireChains, CEPorts, TypeOK, Ports
      <3> QED
        BY <2>1, <2>2, <2>4, <3>5, <3>6
           DEF Written, ChainPins, MPins, PPins, ADPins, Idle, RstnIdle
    <2> QED
      BY <2>3, <2>4
  <1>3. CASE WireM
    <2>1. step = "wireM" /\ step' = "wireP"
          /\ UNCHANGED <<offer, chain, kept>>
      BY <1>3 DEF WireM
    <2>2. CASE MReg(offer) = NoReg
      BY <1>3, <2>1, <2>2
         DEF WireM, pins, Written, ChainPins, MPins, PPins, ADPins, Idle,
             RstnIdle, Clocked, Gated
    <2>3. CASE MReg(offer) # NoReg
      <3>1. MReg(offer) \in Reg /\ MReg(offer).zero
        BY <2>1, <2>3, ResultRegs
           DEF TypeOK, OrNone, Settled, MFits, MChecked, Walked, PairsDone,
               ADDecided
      <3>2. UNCHANGED <<accrstn, ce>> /\ clk' = MReg(offer).ctl.clk
            /\ rstn' = WithReset(rstn, MReg(offer).ctl)
        BY <1>3, <2>3 DEF WireM
      <3>3. ASSUME NEW p \in kept, NEW r \in chain[p]
            PROVE  /\ r.ctl.clk = MReg(offer).ctl.clk
                   /\ ResetOf(r.ctl) = ResetOf(MReg(offer).ctl)
                   /\ r.zero /\ rstn = ResetOf(r.ctl)
                   /\ Gated(r, ce[p])
        BY <2>1, <2>3
           DEF Settled, ChainsAgree, SeedAgrees, TypeOK, Written, ChainPins,
               Clocked, ResetOf
      <3>4. rstn' = ResetOf(MReg(offer).ctl)
        <4>1. CASE kept = {}
          BY <2>1, <3>1, <3>2, <4>1, RegTypes DEF Written, Idle, RstnIdle
        <4>2. CASE kept # {}
          BY <3>2, <3>3, <4>2 DEF WithReset, Settled, KeptTaken
        <4> QED
          BY <4>1, <4>2
      <3>5. Clocked(MReg(offer), rstn)'
        BY <2>1, <3>1, <3>2, <3>4 DEF Clocked, ResetOf, MReg, TwoStage
      <3>6. \A p \in kept : \A r \in chain[p] :
              Clocked(r, rstn)' /\ Gated(r, ce[p])'
        BY <3>2, <3>3, <3>4 DEF Clocked, Gated, ResetOf
      <3> QED
        BY <2>1, <2>3, <3>2, <3>5, <3>6
           DEF Written, ChainPins, MPins, PPins, ADPins, Idle, RstnIdle
    <2> QED
      BY <2>2, <2>3
  <1>4. CASE WireP
    <2>1. step = "wireP" /\ step' \in {"wireAD", "refused"}
          /\ UNCHANGED <<offer, chain, kept, rstn>>
      BY <1>4 DEF WireP, Refuse, pins
    <2>2. CASE step' = "refused"
      BY <2>2 DEF Written, ChainPins, MPins, PPins, ADPins, Idle, RstnIdle
    <2>3. CASE step' = "wireAD" /\ PReg(offer) = NoReg
      BY <1>4, <2>1, <2>3
         DEF WireP, Refuse, pins, Written, ChainPins, MPins, PPins, ADPins,
             Idle, RstnIdle, Clocked, Gated
    <2>4. CASE step' = "wireAD" /\ PReg(offer) # NoReg
      <3>1. /\ PReg(offer).zero /\ clk' = PReg(offer).ctl.clk
            /\ ce' = [ce EXCEPT !["P"] = EnableOf(PReg(offer).ctl)]
            /\ accrstn' = WithReset(accrstn, PReg(offer).ctl)
        BY <1>4, <2>4 DEF WireP, Refuse
      <3>2. PReg(offer) \in Reg
        BY <2>4, ResultRegs DEF TypeOK, OrNone
      <3>3. accrstn' = ResetOf(PReg(offer).ctl)
        BY <2>1, <3>1, <3>2, RegTypes DEF Written, Idle
      <3>4. Clocked(PReg(offer), accrstn)' /\ Gated(PReg(offer), ce["P"])'
        BY <2>1, <3>1, <3>3
           DEF Clocked, Gated, ResetOf, EnableOf, PReg, TwoStage, TypeOK,
               CEPorts
      <3>5. MReg(offer) # NoReg => MReg(offer).ctl.clk = PReg(offer).ctl.clk
        BY <2>1, <2>4
           DEF Settled, MFits, MChecked, Walked, PairsDone, ADDecided
      <3>6. ASSUME NEW p \in kept, NEW r \in chain[p]
            PROVE  Clocked(r, rstn)' /\ Gated(r, ce[p])'
        <4>1. p \in Ports /\ p # "P"
          BY DEF TypeOK, Ports
        <4>2. SeedAgrees(offer, r.ctl)
          BY <4>1 DEF Settled, ChainsAgree
        <4>3. r.ctl.clk = PReg(offer).ctl.clk
          BY <2>4, <3>5, <4>2 DEF SeedAgrees
        <4>4. Clocked(r, rstn) /\ Gated(r, ce[p])
          BY <2>1 DEF Written, ChainPins
        <4> QED
          BY <2>1, <3>1, <4>1, <4>3, <4>4 DEF Clocked, Gated, TypeOK, CEPorts
      <3>7. MReg(offer) # NoReg => Clocked(MReg(offer), rstn)'
        BY <2>1, <3>1, <3>5 DEF Written, MPins, Clocked, MReg, TwoStage
      <3> QED
        BY <2>1, <2>4, <3>4, <3>6, <3>7
           DEF Written, ChainPins, MPins, PPins, ADPins, Idle, RstnIdle, MReg,
               TwoStage
    <2> QED
      BY <2>1, <2>2, <2>3, <2>4
  <1>5. CASE WireAD
    <2>1. step = "wireAD" /\ step' = "built"
          /\ UNCHANGED <<offer, chain, kept, accrstn, ce>>
      BY <1>5 DEF WireAD
    <2>2. CASE offer.ad = NoReg
      BY <1>5, <2>1, <2>2
         DEF WireAD, Written, ChainPins, MPins, PPins, ADPins, Idle, RstnIdle,
             Clocked, Gated
    <2>3. CASE offer.ad # NoReg
      <3>1. /\ offer.ad \in Reg /\ offer.ad.zero
            /\ MReg(offer) # NoReg => Agrees(MReg(offer).ctl, offer.ad.ctl)
            /\ PReg(offer) # NoReg => PReg(offer).ctl.clk = offer.ad.ctl.clk
            /\ \A p \in kept : \A r \in chain[p] :
                 Agrees(r.ctl, offer.ad.ctl)
        BY <2>1, <2>3, ResultRegs
           DEF TypeOK, OrNone, Settled, ADAgrees, ADDecided
      <3>2. clk' = offer.ad.ctl.clk
            /\ rstn' = IF rstn = Inactive THEN WithReset(rstn, offer.ad.ctl)
                       ELSE rstn
        BY <1>5, <2>3 DEF WireAD
      <3>3. rstn' = ResetOf(offer.ad.ctl)
        <4>1. CASE rstn = Inactive
          BY <3>1, <3>2, <4>1, RegTypes
        <4>2. CASE rstn # Inactive
          <5>1. CASE kept # {}
            <6>1. PICK p \in kept : \E r \in chain[p] : TRUE
              BY <5>1 DEF Settled, KeptTaken
            <6> QED
              BY <2>1, <3>1, <3>2, <4>2, <6>1
                 DEF Written, ChainPins, Clocked, Agrees, ResetOf
          <5>2. CASE MReg(offer) # NoReg
            BY <2>1, <3>1, <3>2, <4>2, <5>2
               DEF Written, MPins, Clocked, Agrees, ResetOf
          <5>3. CASE kept = {} /\ MReg(offer) = NoReg
            BY <2>1, <4>2, <5>3 DEF Written, Idle, RstnIdle
          <5> QED
            BY <5>1, <5>2, <5>3
        <4> QED
          BY <4>1, <4>2
      <3>4. Clocked(offer.ad, rstn)'
        BY <2>1, <3>1, <3>2, <3>3 DEF Clocked, ResetOf
      <3>5. MReg(offer) # NoReg => Clocked(MReg(offer), rstn)'
        BY <2>1, <3>1, <3>2, <3>3
           DEF Written, MPins, Clocked, Agrees, ResetOf, MReg, TwoStage
      <3>6. PReg(offer) # NoReg =>
              Clocked(PReg(offer), accrstn)' /\ Gated(PReg(offer), ce["P"])'
        BY <2>1, <3>1, <3>2
           DEF Written, PPins, Clocked, Gated, PReg, TwoStage
      <3>7. \A p \in kept : \A r \in chain[p] :
              Clocked(r, rstn)' /\ Gated(r, ce[p])'
        BY <2>1, <3>1, <3>2, <3>3
           DEF Written, ChainPins, Clocked, Gated, Agrees, ResetOf
      <3> QED
        BY <2>1, <2>3, <3>4, <3>5, <3>6, <3>7
           DEF Written, ChainPins, MPins, PPins, ADPins, Idle, RstnIdle, MReg,
               PReg, TwoStage
    <2> QED
      BY <2>2, <2>3
  <1>6. CASE Finished \/ UNCHANGED vars
    BY <1>6 DEF Finished, vars, pins, Written, ChainPins, MPins, PPins, ADPins,
                Idle, RstnIdle, Clocked, Gated
  <1> QED
    BY <1>1, <1>2, <1>3, <1>4, <1>5, <1>6
       DEF Next, CheckM, WalkAll, AgreePair, AgreeEnds, AgreeM, Evict,
           EvictionEnds, ADBank
------------------------------------------------------------------------------
LEMMA Invariance == Spec => []IInv
  <1>1. Init => IInv
    <2> SUFFICES ASSUME Init PROVE IInv
      OBVIOUS
    <2>1. TypeOK
      BY ControlsAssumption DEF Init, TypeOK, Steps, Drive, Inactive
    <2> QED
      BY <2>1
         DEF Init, IInv, Settled, ChainsAgree, KeptTaken, PairsAgree, ADAgrees,
             Written, ChainPins, MPins, PPins, ADPins, Idle, RstnIdle, MChecked,
             Walked, PairsDone, ADDecided, ChainsWired, MWired, PWired, Built,
             CEPorts
  <1>2. TypeOK /\ TypeOK' /\ IInv /\ [Next]_vars => IInv'
    BY StaysSettled, StaysWritten DEF IInv
  <1> QED
    BY <1>1, <1>2, ControlsTypeCorrect, PTL DEF Spec

(* Every register a finished cell takes keeps its clock, its reset and its   *)
(* enable, for all nets and offers.                                          *)
THEOREM ControlsKeptHolds == Spec => []ControlsKept
  <1>1. IInv => ControlsKept
    BY DEF IInv, Written, ChainPins, MPins, PPins, ADPins, ControlsKept,
           ChainsWired, MWired, PWired, Built
  <1> QED
    BY <1>1, Invariance, PTL

(* The comparison of M with the surviving chains never refuses: the seed has *)
(* made every chain agree with M before the first stage was taken.           *)
THEOREM MGuardIdleHolds == Spec => []MGuardIdle
  <1>1. IInv => MGuardIdle
    <2> SUFFICES ASSUME IInv, MReg(offer) # NoReg, kept # {}
                 PROVE  Agrees(ChainCtl(chain[First(kept)]), MReg(offer).ctl)
      BY DEF MGuardIdle, MAgrees
    <2>1. First(kept) \in kept /\ First(kept) \in Ports
      BY FirstKept DEF IInv, TypeOK
    <2>2. PICK t \in chain[First(kept)] : TRUE
      BY <2>1 DEF IInv, Settled, KeptTaken
    <2>3. ChainCtl(chain[First(kept)]) = t.ctl
      BY <2>1, <2>2, ChainCtlOf DEF IInv, Settled, ChainsAgree
    <2> QED
      BY <2>1, <2>2, <2>3
         DEF IInv, Settled, ChainsAgree, SeedAgrees, Agrees
  <1> QED
    BY <1>1, Invariance, PTL
------------------------------------------------------------------------------
(* The crossbar budget.  Which banks are still there is settled before the   *)
(* AD register; what comes later can only take more of them away.            *)
EvictedGone ==
    /\ step = "agreeM" => turn = 1
    /\ step = "enables" =>
         \A i \in 1..4 : i < turn => Evictees[i] \notin kept
WithinBudget ==
    step \in {"ad"} \cup ADDecided => Cardinality(EnableSignals) <= MaxCE

BInv == EvictedGone /\ WithinBudget

(* There are at most five banks with an enable, so finitely many signals.    *)
LEMMA EnablesFinite ==
    ASSUME kept \subseteq Ports
    PROVE  IsFiniteSet(EnableSignals) /\ Cardinality(EnableSignals) \in Nat
  <1> DEFINE En(p) == {ChainCtl(chain[p]).en}
             U == ((En("A") \cup En("B")) \cup (En("C") \cup En("D")))
                     \cup {PReg(offer).ctl.en}
  <1>1. \A x : IsFiniteSet({x})
    BY FS_Singleton
  <1>2. IsFiniteSet(En("A") \cup En("B")) /\ IsFiniteSet(En("C") \cup En("D"))
    BY <1>1, FS_Union
  <1>3. IsFiniteSet((En("A") \cup En("B")) \cup (En("C") \cup En("D")))
    BY <1>2, FS_Union
  <1>4. IsFiniteSet(U)
    BY <1>1, <1>3, FS_Union
  <1>5. EnableSignals \subseteq U
    BY DEF EnableSignals, Ports
  <1>6. IsFiniteSet(EnableSignals)
    BY <1>4, <1>5, FS_Subset
  <1> QED
    BY <1>6, FS_CardinalityType

(* Once every candidate is gone, only P can ask for an enable.               *)
LEMMA POnlyFits ==
    ASSUME kept = {}
    PROVE  Cardinality(EnableSignals) <= MaxCE
  <1> DEFINE e == PReg(offer).ctl.en
  <1>1. EnableSignals \subseteq {e}
    BY DEF EnableSignals
  <1>2. IsFiniteSet({e}) /\ Cardinality({e}) = 1
    BY FS_Singleton
  <1>3. Cardinality(EnableSignals) <= 1 /\ IsFiniteSet(EnableSignals)
    BY <1>1, <1>2, FS_Subset
  <1>4. Cardinality(EnableSignals) \in Nat
    BY <1>3, FS_CardinalityType
  <1> QED
    BY <1>3, <1>4, ControlsAssumption, BudgetAssumption

LEMMA BudgetStep ==
    ASSUME TypeOK, TypeOK', BInv, [Next]_vars
    PROVE  BInv'
  <1> USE DEF BInv, ADDecided, ChainsWired, MWired, PWired, Built
  <1>1. CASE Evict
    <2>1. step = "enables" /\ step' = "enables" /\ turn' = turn + 1
          /\ turn \in 1..4 /\ kept' = kept \ {Evictees[turn]}
      BY <1>1 DEF Evict, Evictees
    <2>2. ASSUME NEW i \in 1..4, i < turn' PROVE Evictees[i] \notin kept'
      BY <2>1, <2>2 DEF EvictedGone
    <2> QED
      BY <2>1, <2>2 DEF EvictedGone, WithinBudget
  <1>2. CASE EvictionEnds
    <2>1. step = "enables" /\ step' = "ad" /\ UNCHANGED <<offer, chain, kept>>
      BY <1>2 DEF EvictionEnds
    <2>2. Cardinality(EnableSignals) <= MaxCE
      <3>1. CASE ~OverBudget
        BY <3>1, EnablesFinite, ControlsAssumption DEF OverBudget, TypeOK
      <3>2. CASE turn \notin DOMAIN Evictees
        <4>1. \A i \in 1..4 : Evictees[i] \notin kept
          BY <2>1, <3>2 DEF EvictedGone, Evictees, TypeOK
        <4>2. "A" \notin kept /\ "B" \notin kept /\ "C" \notin kept
              /\ "D" \notin kept
          BY <4>1 DEF Evictees
        <4> QED
          BY <4>2, POnlyFits DEF TypeOK, Ports
      <3> QED
        BY <1>2, <3>1, <3>2 DEF EvictionEnds
    <2>3. EnableSignals' = EnableSignals
      BY <2>1 DEF EnableSignals
    <2> QED
      BY <2>1, <2>2, <2>3 DEF EvictedGone, WithinBudget
  <1>3. CASE ADBank
    <2>1. step = "ad" /\ step' \in {"wireChains", "refused"}
          /\ UNCHANGED <<offer, chain>> /\ kept' \subseteq kept
      BY <1>3 DEF ADBank, Refuse, KeptWithAD
    <2>2. EnableSignals' \subseteq EnableSignals
      BY <2>1 DEF EnableSignals
    <2>3. /\ IsFiniteSet(EnableSignals)
          /\ Cardinality(EnableSignals) \in Nat
          /\ Cardinality(EnableSignals') \in Nat
      BY <2>2, EnablesFinite, FS_Subset, FS_CardinalityType DEF TypeOK
    <2>4. Cardinality(EnableSignals') <= Cardinality(EnableSignals)
      BY <2>2, <2>3, FS_Subset
    <2> QED
      BY <2>1, <2>3, <2>4, ControlsAssumption DEF EvictedGone, WithinBudget
  <1>4. CASE AgreeEnds \/ AgreeM
    <2>1. CASE AgreeEnds
      BY <2>1 DEF AgreeEnds, EvictedGone, WithinBudget
    <2>2. CASE AgreeM
      BY <2>2 DEF AgreeM, Refuse, EvictedGone, WithinBudget, TypeOK
    <2> QED
      BY <1>4, <2>1, <2>2
  <1>5. CASE CheckM \/ WalkAll \/ AgreePair
    BY <1>5 DEF CheckM, WalkAll, AgreePair, Refuse, EvictedGone, WithinBudget
  <1>6. CASE WireChains \/ WireM \/ WireP \/ WireAD \/ Finished \/ UNCHANGED vars
    <2>1. /\ UNCHANGED <<offer, chain, kept>>
          /\ step' \notin {"agreeM", "enables", "ad"} \/ step' = step
          /\ UNCHANGED turn
          /\ step' \in ADDecided => step \in {"ad"} \cup ADDecided
      BY <1>6 DEF WireChains, WireM, WireP, WireAD, Finished, Refuse, vars
    <2>2. EnableSignals' = EnableSignals
      BY <2>1 DEF EnableSignals
    <2> QED
      BY <2>1, <2>2 DEF EvictedGone, WithinBudget
  <1> QED
    BY <1>1, <1>2, <1>3, <1>4, <1>5, <1>6 DEF Next

(* A finished cell routes no more enable signals than the crossbar has, for  *)
(* every number of routes: the evictions suffice, and nothing decided after  *)
(* them brings a bank back.                                                  *)
THEOREM SignalBudgetHolds == Spec => []SignalBudget
  <1>1. Init => BInv
    BY DEF Init, BInv, EvictedGone, WithinBudget, ADDecided, ChainsWired,
           MWired, PWired, Built
  <1>2. TypeOK /\ TypeOK' /\ BInv /\ [Next]_vars => BInv'
    BY BudgetStep
  <1>3. BInv => SignalBudget
    BY DEF BInv, WithinBudget, SignalBudget, ADDecided, ChainsWired, MWired,
           PWired, Built
  <1> QED
    BY <1>1, <1>2, <1>3, ControlsTypeCorrect, PTL DEF Spec
------------------------------------------------------------------------------
(* The writers.  What they agree on is in IInv; what a pin is worth before   *)
(* its first writer is not, for the clock and the enables.                   *)
ClkIdle ==
    /\ step \in ChainsWired => kept = {}
    /\ step \in MWired => MReg(offer) = NoReg
    /\ step \in PWired => PReg(offer) = NoReg
    /\ step # "built" /\ step # "refused"
Blank == /\ ClkIdle => clk = NoClk
         /\ step \notin ChainsWired \cup {"refused"} =>
              \A p \in CEPorts : ce[p] = Inactive

LEMMA BlankStep ==
    ASSUME Blank, [Next]_vars
    PROVE  Blank'
  <1> USE DEF ChainsWired, MWired, PWired, Built, Blank, ClkIdle, pins
  <1>1. CASE CheckM \/ WalkAll \/ AgreePair \/ AgreeEnds \/ AgreeM \/ Evict
               \/ EvictionEnds \/ ADBank
    BY <1>1 DEF CheckM, WalkAll, AgreePair, AgreeEnds, AgreeM, Evict,
                EvictionEnds, ADBank, Refuse
  <1>2. CASE WireChains
    BY <1>2 DEF WireChains
  <1>3. CASE WireM
    BY <1>3 DEF WireM
  <1>4. CASE WireP
    BY <1>4 DEF WireP, Refuse
  <1>5. CASE WireAD
    BY <1>5 DEF WireAD
  <1>6. CASE Finished \/ UNCHANGED vars
    BY <1>6 DEF Finished, vars
  <1> QED
    BY <1>1, <1>2, <1>3, <1>4, <1>5, <1>6 DEF Next

(* The step of PinsWrittenAlike.                                             *)
WritesAlike ==
    /\ clk # NoClk => clk' = clk
    /\ rstn # Inactive => rstn' = rstn
    /\ \A p \in CEPorts : ce[p] # Inactive => ce'[p] = ce[p]

LEMMA WriterAgrees ==
    ASSUME IInv, IInv', Blank, Next
    PROVE  WritesAlike
  <1> USE DEF ChainsWired, MWired, PWired, Built
  <1>1. CASE pins' = pins
    BY <1>1 DEF pins, WritesAlike
  <1>2. CASE WireChains
    <2>1. clk = NoClk /\ rstn = Inactive
      BY <1>2 DEF WireChains, Blank, ClkIdle, IInv, Written, Idle, RstnIdle
    <2>2. \A p \in CEPorts : ce[p] = Inactive
      BY <1>2 DEF WireChains, Blank
    <2> QED
      BY <2>1, <2>2 DEF WritesAlike
  <1>3. CASE WireM /\ MReg(offer) # NoReg
    <2>1. /\ step = "wireM" /\ step' = "wireP" /\ ce' = ce
          /\ UNCHANGED <<offer, chain, kept>>
      BY <1>3 DEF WireM
    <2>2. CASE kept = {}
      BY <2>1, <2>2 DEF Blank, ClkIdle, IInv, Written, Idle, RstnIdle,
                        WritesAlike
    <2>3. CASE kept # {}
      <3>1. PICK p \in kept : \E r \in chain[p] : TRUE
        BY <2>3 DEF IInv, Settled, KeptTaken
      <3>2. PICK r \in chain[p] : Clocked(r, rstn)
        BY <2>1, <3>1 DEF IInv, Written, ChainPins
      <3>3. Clocked(r, rstn)'
        BY <2>1, <3>1, <3>2 DEF IInv, Written, ChainPins
      <3> QED
        BY <2>1, <3>2, <3>3 DEF Clocked, WritesAlike
    <2> QED
      BY <2>2, <2>3
  <1>4. CASE WireP /\ step' = "wireAD" /\ PReg(offer) # NoReg
    <2>1. /\ step = "wireP" /\ step' = "wireAD"
          /\ UNCHANGED <<offer, chain, kept, rstn>>
          /\ ce' = [ce EXCEPT !["P"] = EnableOf(PReg(offer).ctl)]
      BY <1>4 DEF WireP, Refuse
    <2>2. ce["P"] = Inactive
      BY <2>1 DEF IInv, Written, Idle
    <2>3. \A p \in CEPorts : ce[p] # Inactive => ce'[p] = ce[p]
      BY <2>1, <2>2 DEF IInv, TypeOK
    <2>4. clk # NoClk => clk' = clk
      <3>1. CASE kept = {} /\ MReg(offer) = NoReg
        BY <2>1, <3>1 DEF Blank, ClkIdle
      <3>2. CASE MReg(offer) # NoReg
        BY <2>1, <3>2 DEF IInv, Written, MPins, Clocked
      <3>3. CASE kept # {}
        <4>1. PICK p \in kept : \E r \in chain[p] : TRUE
          BY <3>3 DEF IInv, Settled, KeptTaken
        <4>2. PICK r \in chain[p] : Clocked(r, rstn)
          BY <2>1, <4>1 DEF IInv, Written, ChainPins
        <4>3. Clocked(r, rstn)'
          BY <2>1, <4>1, <4>2 DEF IInv, Written, ChainPins
        <4> QED
          BY <4>2, <4>3 DEF Clocked
      <3> QED
        BY <3>1, <3>2, <3>3
    <2> QED
      BY <2>1, <2>3, <2>4 DEF WritesAlike
  <1>5. CASE WireAD /\ offer.ad # NoReg
    <2>1. /\ step = "wireAD" /\ step' = "built" /\ ce' = ce
          /\ UNCHANGED <<offer, chain, kept>>
      BY <1>5 DEF WireAD
    <2>2. rstn # Inactive => rstn' = rstn
      BY <1>5 DEF WireAD
    <2>3. clk # NoClk => clk' = clk
      <3>1. CASE kept = {} /\ MReg(offer) = NoReg /\ PReg(offer) = NoReg
        BY <2>1, <3>1 DEF Blank, ClkIdle
      <3>2. CASE MReg(offer) # NoReg
        BY <2>1, <3>2 DEF IInv, Written, MPins, Clocked
      <3>3. CASE PReg(offer) # NoReg
        BY <2>1, <3>3 DEF IInv, Written, PPins, Clocked
      <3>4. CASE kept # {}
        <4>1. PICK p \in kept : \E r \in chain[p] : TRUE
          BY <3>4 DEF IInv, Settled, KeptTaken
        <4>2. PICK r \in chain[p] : Clocked(r, rstn)
          BY <2>1, <4>1 DEF IInv, Written, ChainPins
        <4>3. Clocked(r, rstn)'
          BY <2>1, <4>1, <4>2 DEF IInv, Written, ChainPins
        <4> QED
          BY <4>2, <4>3 DEF Clocked
      <3> QED
        BY <3>1, <3>2, <3>3, <3>4
    <2> QED
      BY <2>1, <2>2, <2>3 DEF WritesAlike
  <1>6. \/ pins' = pins \/ WireChains
        \/ WireM /\ MReg(offer) # NoReg
        \/ WireP /\ step' = "wireAD" /\ PReg(offer) # NoReg
        \/ WireAD /\ offer.ad # NoReg
    BY DEF Next, CheckM, WalkAll, AgreePair, AgreeEnds, AgreeM, Evict,
           EvictionEnds, ADBank, WireM, WireP, WireAD, Finished, Refuse, vars,
           pins
  <1> QED
    BY <1>1, <1>2, <1>3, <1>4, <1>5, <1>6

(* A pin is never written twice with different signals, in any order of the  *)
(* writers' registers: emit() may connect CLK and RSTN again for each of the *)
(* chains, M, P and AD.                                                      *)
THEOREM PinsWrittenAlikeHolds == Spec => PinsWrittenAlike
  <1>1. Init => Blank
    BY DEF Init, Blank, ClkIdle, ChainsWired, MWired, PWired, Built
  <1>2. Blank /\ [Next]_vars => Blank'
    BY BlankStep
  <1>3. IInv /\ IInv' /\ Blank /\ [Next]_vars => [WritesAlike]_vars
    BY WriterAgrees
  <1> QED
    BY <1>1, <1>2, <1>3, Invariance, PTL DEF Spec, PinsWrittenAlike, WritesAlike

------------------------------------------------------------------------------
(* The operands of one cell: that a multiply which fits is placed.  What is  *)
(* refused is an offer; the one left at the end is the multiply alone, with  *)
(* neither sum, adder nor register, and it asks for nothing but room.        *)
FitsPorts(d) ==
    Roomy(Len(d.a), Len(d.b), d.signed)

Alone == [pre |-> {}, add |-> FALSE, q |-> FALSE]

PlacedInv ==
    /\ given \in Designs /\ design \in DesignType
    /\ design.y <= Len(design.a) + Len(design.b)
    /\ FitsPorts(given) => FitsPorts(design)
    /\ refused = None \/ \A o \in refused : Cells(design, o) = {}

(* A least shift is one of them.                                             *)
LEMMA MinIsOne ==
  ASSUME NEW S \in SUBSET Nat, S # {}
  PROVE  Min(S) \in S
<1>1. \E x \in S : \A y \in S : ~ (<<y, x>> \in OpToRel(<, Nat))
  BY NatLessThanWellFounded, WFMin
<1>2. \E x \in S : \A y \in S : x <= y
  <2>1. PICK x \in S : \A y \in S : ~ (<<y, x>> \in OpToRel(<, Nat))
    BY <1>1
  <2>2. ASSUME NEW y \in S PROVE x <= y
    <3>1. ~(y < x)
      BY <2>1 DEF OpToRel
    <3> QED BY <3>1
  <2> QED BY <2>2
<1> QED BY <1>2 DEF Min

LEMMA ZerosAre ==
  ASSUME NEW k \in Nat
  PROVE  Zeros(k) \in Signal /\ Len(Zeros(k)) = k
BY DEF Zeros, Zero, Signal

LEMMA ConcatIs ==
  ASSUME NEW s \in Signal, NEW t \in Signal
  PROVE  /\ s \o t \in Signal /\ Len(s) \in Nat /\ Len(t) \in Nat
         /\ Len(s \o t) = Len(s) + Len(t)
BY DEF Signal

LEMMA WidthsAdd ==
  \A y, a, b, k \in Nat : y <= a + b => y + k <= (k + a) + b /\ y + k <= a + (k + b)
OBVIOUS

LEMMA ProductIs ==
  ASSUME NEW d, d.y \in Nat \ {0}
  PROVE  /\ Product(d) \in Signal /\ Len(Product(d)) = d.y
         /\ Top(Product(d)) \in {"const", "in", "sa", "sb", "y", "s"} \X Nat
<1>1. Product(d) = [i \in 1 .. d.y |-> <<"y", i - 1>>]
  BY DEF Product, Bits
<1>2. \A i \in 1 .. d.y : <<"y", i - 1>> \in {"const", "in", "sa", "sb", "y", "s"} \X Nat
  OBVIOUS
<1>3. Product(d) \in Signal /\ Len(Product(d)) = d.y
  BY <1>1, <1>2 DEF Signal
<1>4. Product(d)[d.y] \in {"const", "in", "sa", "sb", "y", "s"} \X Nat
  BY <1>1, <1>2
<1> QED BY <1>3, <1>4 DEF Top

(* Widening the constant by k bits widens the product by as many.            *)
LEMMA ShiftedIs ==
  ASSUME NEW d \in DesignType, d.add # None, NEW k \in Nat, NEW port \in {"a", "b"}
  PROVE  LET w == Shifted(d, k, port)
         IN  /\ w \in DesignType /\ w.signed = d.signed /\ w.y = d.y + k
             /\ w.a = IF port = "a" THEN Zeros(k) \o d.a ELSE d.a
             /\ w.b = IF port = "b" THEN Zeros(k) \o d.b ELSE d.b
<1> DEFINE wide == [d EXCEPT ![port] = Zeros(k) \o @, !.y = @ + k]
           rest == Len(d.add.op) - wide.y
           pads == [i \in 1 .. rest |-> Pad(Product(wide), d.signed)]
           op   == Product(wide) \o pads
           w    == [wide EXCEPT !.add.op = op]
<1>1. Shifted(d, k, port) = w
  BY DEF Shifted
<1>2. d[port] \in Signal
  BY DEF DesignType
<1>3. Zeros(k) \o d[port] \in Signal
  BY <1>2, ZerosAre, ConcatIs
<1>4. /\ wide \in DesignType /\ wide.signed = d.signed /\ wide.y = d.y + k
      /\ wide.add = d.add
      /\ wide.a = IF port = "a" THEN Zeros(k) \o d.a ELSE d.a
      /\ wide.b = IF port = "b" THEN Zeros(k) \o d.b ELSE d.b
  <2>1. d.y + k \in Nat \ {0}
    BY DEF DesignType
  <2>2. CASE port = "a"
    <3>1. wide = [d EXCEPT !.a = Zeros(k) \o d.a, !.y = d.y + k]
      BY <2>2 DEF DesignType
    <3>2. Zeros(k) \o d.a \in Signal
      BY <1>3, <2>2
    <3> HIDE DEF wide
    <3> QED BY <2>1, <2>2, <3>1, <3>2 DEF DesignType
  <2>3. CASE port = "b"
    <3>1. wide = [d EXCEPT !.b = Zeros(k) \o d.b, !.y = d.y + k]
      BY <2>3 DEF DesignType
    <3>2. Zeros(k) \o d.b \in Signal
      BY <1>3, <2>3
    <3> HIDE DEF wide
    <3> QED BY <2>1, <2>3, <3>1, <3>2 DEF DesignType
  <2> QED BY <2>2, <2>3
<1> HIDE DEF wide
<1>5. wide.y \in Nat \ {0}
  BY <1>4 DEF DesignType
<1>6. op \in Signal
  <2>1. Pad(Product(wide), d.signed) \in {"const", "in", "sa", "sb", "y", "s"} \X Nat
    BY <1>5, ProductIs DEF Pad, Zero
  <2>2. d.add.op \in Signal
    BY DEF DesignType
  <2>3. rest \in Int
    BY <1>5, <2>2 DEF Signal
  <2>4. pads \in Signal
    BY <2>1, <2>3 DEF Signal
  <2> QED BY <1>5, <2>4, ProductIs DEF Signal
<1> HIDE DEF op
<1>7. w \in DesignType /\ w.signed = wide.signed /\ w.y = wide.y /\ w.a = wide.a /\ w.b = wide.b
  <2>1. wide.add \in [kind : {"add", "sub", "rsub"}, op : Signal, c : Signal,
                      signed : BOOLEAN, w : Nat]
    BY <1>4 DEF DesignType
  <2>2. [wide.add EXCEPT !.op = op] \in [kind : {"add", "sub", "rsub"}, op : Signal, c : Signal,
                      signed : BOOLEAN, w : Nat]
    BY <1>6, <2>1
  <2>3. w = [wide EXCEPT !.add = [wide.add EXCEPT !.op = op]]
    BY <1>4 DEF DesignType
  <2> QED BY <1>4, <2>2, <2>3 DEF DesignType
<1> QED BY <1>1, <1>4, <1>7

(* A coefficient is widened only where there is room for it.                 *)
LEMMA RefoldedFits ==
  ASSUME NEW d \in DesignType, d.y <= Len(d.a) + Len(d.b)
  PROVE  LET r == Refolded(d)
         IN  /\ r \in DesignType /\ r.y <= Len(r.a) + Len(r.b)
             /\ FitsPorts(d) => FitsPorts(r)
<1> DEFINE port  == IF IsConst(d.b) THEN "b" ELSE "a"
           other == IF port = "b" THEN d.a ELSE d.b
           k     == Min(Shifts(d))
<1>1. CASE /\ d.add # None /\ Shifts(d) # {}
           /\ IsConst(d[port]) /\ Roomy(Len(d[port]) + k, Len(other), d.signed)
  <2>1. Refolded(d) = Shifted(d, k, port)
    BY <1>1 DEF Refolded
  <2>2. k \in Nat
    <3>1. Shifts(d) \in SUBSET Nat
      BY DEF Shifts
    <3> QED BY <1>1, <3>1, MinIsOne
  <2>3. port \in {"a", "b"}
    OBVIOUS
  <2>4. d.a \in Signal /\ d.b \in Signal /\ d.y \in Nat
    BY DEF DesignType
  <2>5. Zeros(k) \in Signal /\ Len(Zeros(k)) = k
    BY <2>2, ZerosAre
  <2>6. /\ Len(Zeros(k) \o d.a) = k + Len(d.a) /\ Len(Zeros(k) \o d.b) = k + Len(d.b)
        /\ Len(d.a) \in Nat /\ Len(d.b) \in Nat
    BY <2>4, <2>5, ConcatIs
  <2> HIDE DEF k
  <2>7. LET r == Shifted(d, k, port)
        IN  /\ r \in DesignType /\ r.signed = d.signed /\ r.y = d.y + k
            /\ r.a = IF port = "a" THEN Zeros(k) \o d.a ELSE d.a
            /\ r.b = IF port = "b" THEN Zeros(k) \o d.b ELSE d.b
    BY <1>1, <2>2, <2>3, ShiftedIs
  <2>8. CASE port = "a"
    <3>1. Roomy(Len(d.a) + k, Len(d.b), d.signed)
      BY <1>1, <2>8
    <3>2. /\ Refolded(d) \in DesignType /\ Refolded(d).signed = d.signed
          /\ Refolded(d).y = d.y + k
          /\ Len(Refolded(d).a) = k + Len(d.a) /\ Len(Refolded(d).b) = Len(d.b)
      BY <2>1, <2>6, <2>7, <2>8
    <3>3. Len(d.a) + k = k + Len(d.a) /\ Len(d.b) + k = k + Len(d.b)
      BY <2>2, <2>6
    <3>4. Refolded(d).y <= Len(Refolded(d).a) + Len(Refolded(d).b)
      <4>1. d.y + k <= (k + Len(d.a)) + Len(d.b)
        BY <2>2, <2>4, <2>6, WidthsAdd
      <4> QED BY <3>2, <4>1
    <3>5. FitsPorts(Refolded(d))
      BY <3>1, <3>2, <3>3 DEF FitsPorts
    <3> QED BY <3>2, <3>4, <3>5
  <2>9. CASE port = "b"
    <3>1. Roomy(Len(d.b) + k, Len(d.a), d.signed)
      BY <1>1, <2>9
    <3>2. Roomy(Len(d.a), Len(d.b) + k, d.signed)
      BY <3>1 DEF Roomy
    <3>3. /\ Refolded(d) \in DesignType /\ Refolded(d).signed = d.signed
          /\ Refolded(d).y = d.y + k
          /\ Len(Refolded(d).a) = Len(d.a) /\ Len(Refolded(d).b) = k + Len(d.b)
      BY <2>1, <2>6, <2>7, <2>9
    <3>4. Len(d.a) + k = k + Len(d.a) /\ Len(d.b) + k = k + Len(d.b)
      BY <2>2, <2>6
    <3>5. Refolded(d).y <= Len(Refolded(d).a) + Len(Refolded(d).b)
      <4>1. d.y + k <= Len(d.a) + (k + Len(d.b))
        BY <2>2, <2>4, <2>6, WidthsAdd
      <4> QED BY <3>3, <4>1
    <3>6. FitsPorts(Refolded(d))
      BY <3>2, <3>3, <3>4 DEF FitsPorts
    <3> QED BY <3>3, <3>5, <3>6
  <2> QED BY <2>3, <2>8, <2>9
<1>2. CASE ~(/\ d.add # None /\ Shifts(d) # {}
             /\ IsConst(d[port]) /\ Roomy(Len(d[port]) + k, Len(other), d.signed))
  <2>1. Refolded(d) = d
    BY <1>2 DEF Refolded
  <2> QED BY <2>1
<1> QED BY <1>1, <1>2

(* Nothing refuses the multiply alone but its width.                         *)
LEMMA AlonePlaced ==
  ASSUME NEW d \in DesignType, d.y <= Len(d.a) + Len(d.b), FitsPorts(d)
  PROVE  Alone \in OffersOf(d) /\ Cells(d, Alone) # {}
<1>1. Alone \in OffersOf(d)
  BY DEF Alone, OffersOf
<1>2. /\ d.a \in Signal /\ d.b \in Signal /\ d.y \in Nat \ {0} /\ d.signed \in BOOLEAN
      /\ Len(d.a) \in Nat /\ Len(d.b) \in Nat
  BY DEF DesignType, Signal
<1>3. /\ Result(d, FALSE) = Product(d) /\ Out(d, Alone) = Product(d)
      /\ Len(Product(d)) = d.y
  BY <1>2, ProductIs DEF Result, Out, Registers, Alone
<1>4. /\ \/ Len(d.a) <= AWidth /\ Len(d.b) <= BWidth
         \/ Len(d.a) <= BWidth /\ Len(d.b) <= AWidth
      /\ d.y <= PWidth
  <2>1. {AWidth, BWidth, PWidth} \subseteq Nat /\ AWidth + BWidth <= PWidth
    BY OperandsAssumption
  <2>2. \/ Len(d.a) <= AWidth /\ Len(d.b) <= BWidth
        \/ Len(d.a) <= BWidth /\ Len(d.b) <= AWidth
    BY <1>2, <2>1 DEF FitsPorts, Roomy, Fits
  <2>3. d.y <= PWidth
    <3> DEFINE la == Len(d.a)
               lb == Len(d.b)
    <3>1. /\ AWidth \in Nat /\ BWidth \in Nat /\ PWidth \in Nat
          /\ d.y \in Nat /\ la \in Nat /\ lb \in Nat
      BY <1>2, <2>1
    <3>2. d.y <= la + lb
      OBVIOUS
    <3>3. (la <= AWidth /\ lb <= BWidth) \/ (la <= BWidth /\ lb <= AWidth)
      BY <2>2
    <3> HIDE DEF la, lb
    <3>4. la + lb <= AWidth + BWidth
      BY <3>1, <3>3
    <3> QED BY <2>1, <3>1, <3>2, <3>4
  <2> QED BY <2>2, <2>3
<1>5. ~Refuses(d, Alone)
  <2>1. ~Cut(d, Alone)
    <3>1. ~(Len(Out(d, Alone)) > d.y)
      BY <1>2, <1>3
    <3> QED BY <3>1 DEF Cut
  <2>2. Alone.add = FALSE
    BY DEF Alone
  <2>3. ~(Len(Result(d, Alone.add)) > PWidth)
    <3>1. PWidth \in Nat
      BY OperandsAssumption
    <3>2. Len(Result(d, Alone.add)) = d.y /\ d.y \in Nat
      BY <1>2, <1>3, <2>2
    <3> QED BY <1>4, <3>1, <3>2
  <2> QED BY <2>1, <2>2, <2>3 DEF Refuses
<1>6. Folded(d, Alone) = {}
  BY DEF Folded, Alone
<1>7. Cells(d, Alone) = ByWidth(d, Alone)
  BY <1>5, <1>6 DEF Cells
<1>8. ByWidth(d, Alone) # {}
  BY DEF FitsPorts, Roomy, ByWidth
<1> QED BY <1>1, <1>7, <1>8

(* A multiply that fits the ports reaches a cell, whatever is refused of the *)
(* cells around it (ql-dspv4.cc:1203-1238, refold: 2253-2269).               *)
THEOREM FitMeansPlacedHolds == OperandsSpec => []FitMeansPlaced
<1>1. OperandsInit => PlacedInv
  BY OperandsAssumption DEF OperandsInit, PlacedInv
<1>2. PlacedInv /\ [OperandsNext]_operandsVars => PlacedInv'
  <2> SUFFICES ASSUME PlacedInv, [OperandsNext]_operandsVars
               PROVE  PlacedInv'
    OBVIOUS
  <2>1. CASE Refold
    <3>1. LET r == design'
          IN  /\ r \in DesignType /\ r.y <= Len(r.a) + Len(r.b)
              /\ FitsPorts(design) => FitsPorts(r)
      BY <2>1, RefoldedFits DEF Refold, PlacedInv
    <3>2. given' = given /\ refused' = {}
      BY <2>1 DEF Refold
    <3> QED BY <3>1, <3>2 DEF PlacedInv, FitsPorts
  <2>2. CASE Emit
    <3>1. UNCHANGED <<given, design>> /\ refused # None
      BY <2>2 DEF Emit
    <3>2. \/ refused' = refused
          \/ Cells(design, Offer) = {} /\ refused' = refused \cup {Offer}
      BY <2>2 DEF Emit
    <3>3. \A o \in refused' : Cells(design, o) = {}
      BY <3>1, <3>2 DEF PlacedInv
    <3>4. \A o : Cells(design, o)' = Cells(design', o)
      OBVIOUS
    <3> QED BY <3>1, <3>3 DEF PlacedInv, FitsPorts
  <2>3. CASE UNCHANGED operandsVars
    BY <2>3 DEF PlacedInv, operandsVars, FitsPorts
  <2> QED BY <2>1, <2>2, <2>3 DEF OperandsNext, Resting
<1>3. PlacedInv => FitMeansPlaced
  <2> SUFFICES ASSUME PlacedInv, Done, FitsPorts(given)
               PROVE  cell # None
    BY DEF FitMeansPlaced, FitsPorts, Roomy
  <2>1. Alone \in OffersOf(design) /\ Cells(design, Alone) # {}
    BY AlonePlaced DEF PlacedInv
  <2>2. refused # None
    BY DEF Done
  <2>3. Alone \notin refused
    BY <2>1, <2>2 DEF PlacedInv
  <2>4. Left # {}
    BY <2>1, <2>3 DEF Left
  <2> QED BY <2>4 DEF Done
<1> QED BY <1>1, <1>2, <1>3, PTL DEF OperandsSpec
==============================================================================
