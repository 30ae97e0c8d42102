---------------------------- MODULE Dspv4Controls ----------------------------
(* The clock, resets and enables of one QL_DSP4: which of the registers that *)
(* an offer brings can share a cell, and how its control pins are wired.     *)
(* src/ql-qlf-plugin/ql-dspv4.cc, emit() from the M register on, with        *)
(* collect_flops() and cell_seed().                                          *)
(*                                                                           *)
(* All banks of the cell share CLK.  A, B, C, D, M and AD share the reset    *)
(* RSTN, P has ACCRSTN.  Each operand bank and P has an enable of its own, M *)
(* and AD have none, and at most MaxCE signals can be routed to the enables. *)
(* emit() decides in a fixed order, gives up whole chains on the way, and    *)
(* wires the pins only at the end, from whatever is left: each decision must *)
(* still be true of the banks that survive the later ones.                   *)
EXTENDS Naturals, FiniteSets

CONSTANTS
    Clk,     \* clock nets
    Net,     \* enable and reset nets
    One,     \* constant 1: no enable, no reset
    NoReg,   \* nullptr
    NoClk,   \* an unconnected CLK pin
    MaxCE,   \* DSPV4_MAX_CE_SIGNALS
    Offers   \* the offers of the matcher

Ports == {"A", "B", "C", "D"}

(* The controls of a flop: raw signals with their polarity.  rstHigh: the    *)
(* reset is active high (the bank's is active low); enInv: the enable is     *)
(* active low.  A flop without the pin reads as constant 1, never asserted.  *)
Ctl == {c \in [clk : Clk, en : Net \cup {One}, enInv : BOOLEAN,
               rst : Net \cup {One}, rstHigh : BOOLEAN] :
          (c.en = One => ~c.enInv) /\ (c.rst = One => ~c.rstHigh)}

(* zero: it resets to zero, or has no reset.                                 *)
Reg     == {r \in [ctl : Ctl, zero : BOOLEAN] : r.ctl.rst = One => r.zero}
Plain   == {r \in Reg : r.ctl.en = One}
OrNone(S) == S \cup {NoReg}

(* What the matcher binds.  stage[p] are the register stages behind port p,  *)
(* nearest first; a stage is the set of flops that cover the port, {} if     *)
(* some bit has none.  There is a C operand only behind an adder, a D        *)
(* operand only with the pre-adder.  The pattern takes mff, ff2 and ad from  *)
(* $dff and $sdff, ff also from $dffe and $sdffe.                            *)
OfferType ==
    {o \in [stage : [Ports -> [1..2 -> SUBSET Reg]],
            add : BOOLEAN, padd : BOOLEAN,
            mff : OrNone(Plain), ff : OrNone(Reg), ff2 : OrNone(Plain),
            ad : OrNone(Plain)] :
       /\ ~o.add => o.stage["C"][1] = {} /\ o.mff = NoReg
       /\ ~o.padd => o.stage["D"][1] = {} /\ o.ad = NoReg
       /\ o.ff = NoReg => o.ff2 = NoReg}

ASSUME ControlsAssumption ==
    /\ One \notin Net /\ NoReg \notin Reg /\ NoClk \notin Clk
    /\ MaxCE \in Nat
    /\ Offers \subseteq OfferType

(* P's enable is not up for eviction: it alone has to fit.  The code has 3.  *)
ASSUME BudgetAssumption == MaxCE # 0

VARIABLES
    offer,   \* what the matcher bound
    step,    \* where emit() is
    chain,   \* chain[p]: the flops the walk of port p collected
    kept,    \* the ports whose chains still go into the cell (n > 0)
    turn,    \* the position in a fixed list of comparisons or evictions
    clk,     \* the pin CLK of the cell
    rstn,    \* RSTN
    accrstn, \* ACCRSTN
    ce       \* ce[p]: the enable of bank p: CEA, CEB, CEC, CED and CEP

pins == <<clk, rstn, accrstn, ce>>
vars == <<offer, step, chain, kept, turn, pins>>

Steps == {"checkM", "walk", "agree", "agreeM", "enables", "ad", "wireChains",
          "wireM", "wireP", "wireAD", "built", "refused"}

(* A pin is driven by a signal, through an inverter or not.                  *)
Drive    == [sig : Net \cup {One}, inv : BOOLEAN]
Inactive == [sig |-> One, inv |-> FALSE]
CEPorts  == Ports \cup {"P"}

EnableOf(c) == [sig |-> c.en, inv |-> c.enInv]
ResetOf(c)  == [sig |-> c.rst, inv |-> c.rstHigh]

------------------------------------------------------------------------------
(* Which flop goes to which bank.  Without an adder, two result registers    *)
(* are the M and the P register; the first of them was matched as ff.        *)
TwoStage(o) == ~o.add /\ o.ff # NoReg /\ o.ff2 # NoReg
MReg(o)     == IF TwoStage(o) THEN o.ff ELSE IF o.add THEN o.mff ELSE NoReg
PReg(o)     == IF TwoStage(o) THEN o.ff2 ELSE o.ff

------------------------------------------------------------------------------
(* collect_flops()                                                           *)

(* Faulty form of SeedAgrees: the M register pins the clock only.            *)
SeedClockOnly(o, c) ==
    /\ MReg(o) # NoReg => c.clk = MReg(o).ctl.clk
    /\ MReg(o) = NoReg /\ PReg(o) # NoReg => c.clk = PReg(o).ctl.clk

(* cell_seed(): the clock of M, else of P, is pinned; the reset of M only.   *)
SeedAgrees(o, c) ==
    /\ MReg(o) # NoReg => /\ c.clk = MReg(o).ctl.clk
                          /\ ResetOf(c) = ResetOf(MReg(o).ctl)
    /\ MReg(o) = NoReg /\ PReg(o) # NoReg => c.clk = PReg(o).ctl.clk

(* A stage joins the chain whole: every flop resets to zero, and all agree   *)
(* with each other, with the stages before and with the cell.                *)
Joins(o, regs, stage) ==
    /\ stage # {}
    /\ \A r \in stage : r.zero /\ SeedAgrees(o, r.ctl)
    /\ \A r, q \in regs \cup stage : r.ctl = q.ctl

Collected(o, p) ==
    LET first  == o.stage[p][1]
        second == o.stage[p][2]
    IN  IF ~Joins(o, {}, first) THEN {}
        ELSE IF p \in {"A", "B"} /\ Joins(o, first, second)
             THEN first \cup second
             ELSE first

(* The controls of a chain: its flops agree on them.                         *)
ChainCtl(regs) == (CHOOSE r \in regs : TRUE).ctl

First(ports) == IF "A" \in ports THEN "A" ELSE IF "B" \in ports THEN "B"
                ELSE IF "C" \in ports THEN "C" ELSE "D"

------------------------------------------------------------------------------
Init ==
    /\ offer \in Offers
    /\ step = "checkM"
    /\ chain = [p \in Ports |-> {}]
    /\ kept = {}
    /\ turn = 1
    /\ clk = NoClk /\ rstn = Inactive /\ accrstn = Inactive
    /\ ce = [p \in CEPorts |-> Inactive]

Refuse == step' = "refused" /\ UNCHANGED <<offer, chain, kept, turn, pins>>

(* Faulty form of MFits: the clocks of M and P are not compared.             *)
MResetsToZero(o) == MReg(o) # NoReg => MReg(o).zero

(* An M register that cannot go in refuses the fusion.                       *)
MFits(o) ==
    MReg(o) # NoReg =>
      /\ MReg(o).zero
      /\ PReg(o) # NoReg => MReg(o).ctl.clk = PReg(o).ctl.clk

CheckM ==
    /\ step = "checkM"
    /\ \/ /\ MFits(offer)
          /\ step' = "walk"
          /\ UNCHANGED <<offer, chain, kept, turn, pins>>
       \/ ~MFits(offer) /\ Refuse

WalkAll ==
    /\ step = "walk"
    /\ chain' = [p \in Ports |-> Collected(offer, p)]
    /\ kept' = {p \in Ports : Collected(offer, p) # {}}
    /\ step' = "agree"
    /\ UNCHANGED <<offer, turn, pins>>

(* Chains are compared in this order; the first of a pair is given up.       *)
Pairs == <<<<"B", "A">>, <<"C", "A">>, <<"C", "B">>,
           <<"D", "A">>, <<"D", "B">>, <<"D", "C">>>>

Agrees(x, y) == x.clk = y.clk /\ ResetOf(x) = ResetOf(y)

(* Faulty form of GiveUp: resets are compared as raw signals.                *)
GiveUpBySignal(p, q) ==
    /\ p \in kept /\ q \in kept
    /\ \/ ChainCtl(chain[p]).clk # ChainCtl(chain[q]).clk
       \/ ChainCtl(chain[p]).rst # ChainCtl(chain[q]).rst

GiveUp(p, q) ==
    p \in kept /\ q \in kept /\ ~Agrees(ChainCtl(chain[p]), ChainCtl(chain[q]))

AgreePair ==
    /\ step = "agree"
    /\ turn \in DOMAIN Pairs
    /\ kept' = kept \ {p \in Ports : p = Pairs[turn][1]
                                       /\ GiveUp(p, Pairs[turn][2])}
    /\ turn' = turn + 1
    /\ UNCHANGED <<offer, step, chain, pins>>

AgreeEnds ==
    /\ step = "agree"
    /\ turn \notin DOMAIN Pairs
    /\ step' = "agreeM"
    /\ turn' = 1
    /\ UNCHANGED <<offer, chain, kept, pins>>

(* M has to agree with the chains that survived.                             *)
MAgrees ==
    MReg(offer) # NoReg /\ kept # {} =>
      Agrees(ChainCtl(chain[First(kept)]), MReg(offer).ctl)

AgreeM ==
    /\ step = "agreeM"
    /\ \/ /\ MAgrees
          /\ step' = "enables"
          /\ UNCHANGED <<offer, chain, kept, turn, pins>>
       \/ ~MAgrees /\ Refuse

(* distinct_enables() compares the raw signals, not their polarity.          *)
EnableSignals ==
    ({ChainCtl(chain[p]).en : p \in kept}
       \cup (IF PReg(offer) = NoReg THEN {} ELSE {PReg(offer).ctl.en})) \ {One}

OverBudget == Cardinality(EnableSignals) > MaxCE

(* Narrowest first; P is never a candidate.                                  *)
Evictees == <<"B", "D", "A", "C">>

Evict ==
    /\ step = "enables"
    /\ turn \in DOMAIN Evictees /\ OverBudget
    /\ kept' = kept \ {Evictees[turn]}
    /\ turn' = turn + 1
    /\ UNCHANGED <<offer, step, chain, pins>>

(* Faulty form of EvictionEnds: the last candidate is never reached.         *)
EvictionEndsEarly ==
    /\ step = "enables"
    /\ turn > 1 \/ ~OverBudget
    /\ step' = "ad"
    /\ UNCHANGED <<offer, chain, kept, turn, pins>>

EvictionEnds ==
    /\ step = "enables"
    /\ turn \notin DOMAIN Evictees \/ ~OverBudget
    /\ step' = "ad"
    /\ UNCHANGED <<offer, chain, kept, turn, pins>>

(* The AD register resets on RSTN like M and the operand banks.  A chain     *)
(* that resets differently is given up, an M register refuses the offer.     *)
ResetsLike(c, a) == ResetOf(c) = ResetOf(a)

KeptWithAD(a) == {p \in kept : ResetsLike(ChainCtl(chain[p]), a.ctl)}

(* The clock the rest of the cell has: a chain's, else M's, else P's.        *)
CellClk(ports) ==
    IF ports # {} THEN ChainCtl(chain[First(ports)]).clk
    ELSE IF MReg(offer) # NoReg THEN MReg(offer).ctl.clk
    ELSE IF PReg(offer) # NoReg THEN PReg(offer).ctl.clk
    ELSE NoClk

ADFits(a) ==
    /\ a.zero
    /\ MReg(offer) # NoReg => ResetsLike(MReg(offer).ctl, a.ctl)
    /\ CellClk(KeptWithAD(a)) \in {NoClk, a.ctl.clk}

ADBank ==
    /\ step = "ad"
    /\ \/ /\ offer.ad = NoReg
          /\ step' = "wireChains"
          /\ UNCHANGED <<offer, chain, kept, turn, pins>>
       \/ /\ offer.ad # NoReg
          /\ ADFits(offer.ad)
          /\ kept' = KeptWithAD(offer.ad)
          /\ step' = "wireChains"
          /\ UNCHANGED <<offer, chain, turn, pins>>
       \/ offer.ad # NoReg /\ ~ADFits(offer.ad) /\ Refuse

------------------------------------------------------------------------------
(* The pins.  Each writer sets what its registers need; the pins start       *)
(* inactive and a later writer finds what an earlier one left.               *)

WithReset(pin, c) == IF c.rst = One THEN pin ELSE ResetOf(c)

WireChains ==
    /\ step = "wireChains"
    /\ step' = "wireM"
    /\ IF kept = {} THEN UNCHANGED pins
       ELSE LET any == ChainCtl(chain[First(kept)])
            IN  /\ clk' = any.clk
                /\ rstn' = WithReset(rstn, any)
                /\ ce' = [p \in CEPorts |->
                            IF p \in kept THEN EnableOf(ChainCtl(chain[p]))
                            ELSE ce[p]]
                /\ UNCHANGED accrstn
    /\ UNCHANGED <<offer, chain, kept, turn>>

WireM ==
    /\ step = "wireM"
    /\ step' = "wireP"
    /\ IF MReg(offer) = NoReg THEN UNCHANGED pins
       ELSE /\ clk' = MReg(offer).ctl.clk
            /\ rstn' = WithReset(rstn, MReg(offer).ctl)
            /\ UNCHANGED <<accrstn, ce>>
    /\ UNCHANGED <<offer, chain, kept, turn>>

(* A P register that resets to one is found out only here.                   *)
WireP ==
    /\ step = "wireP"
    /\ \/ /\ PReg(offer) = NoReg
          /\ step' = "wireAD"
          /\ UNCHANGED <<offer, chain, kept, turn, pins>>
       \/ /\ PReg(offer) # NoReg /\ PReg(offer).zero
          /\ step' = "wireAD"
          /\ clk' = PReg(offer).ctl.clk
          /\ ce' = [ce EXCEPT !["P"] = EnableOf(PReg(offer).ctl)]
          /\ accrstn' = WithReset(accrstn, PReg(offer).ctl)
          /\ UNCHANGED <<offer, chain, kept, turn, rstn>>
       \/ PReg(offer) # NoReg /\ ~PReg(offer).zero /\ Refuse

WireAD ==
    /\ step = "wireAD"
    /\ step' = "built"
    /\ IF offer.ad = NoReg THEN UNCHANGED <<clk, rstn>>
       ELSE /\ clk' = offer.ad.ctl.clk
            /\ rstn' = IF rstn = Inactive THEN WithReset(rstn, offer.ad.ctl)
                       ELSE rstn
    /\ UNCHANGED <<offer, chain, kept, turn, accrstn, ce>>

Finished == step \in {"built", "refused"} /\ UNCHANGED vars

Next == \/ CheckM \/ WalkAll \/ AgreePair \/ AgreeEnds \/ AgreeM
        \/ Evict \/ EvictionEnds \/ ADBank
        \/ WireChains \/ WireM \/ WireP \/ WireAD \/ Finished

Spec == Init /\ [][Next]_vars /\ WF_vars(Next)

------------------------------------------------------------------------------
(* The variables keep their types.                                           *)
TypeOK ==
    /\ offer \in OfferType
    /\ step \in Steps
    /\ chain \in [Ports -> SUBSET Reg]
    /\ kept \subseteq Ports
    /\ turn \in 1..7
    /\ clk \in Clk \cup {NoClk}
    /\ rstn \in Drive /\ accrstn \in Drive
    /\ ce \in [CEPorts -> Drive]

(* A register in a bank behaves as it did in fabric: the cell's clock is its *)
(* clock, the bank's reset pin carries its reset in the right polarity, and  *)
(* it resets to what the bank resets to.                                     *)
Clocked(r, rst) ==
    /\ r.zero /\ clk = r.ctl.clk
    /\ rst = [sig |-> r.ctl.rst, inv |-> r.ctl.rstHigh]
Gated(r, en) == en = [sig |-> r.ctl.en, inv |-> r.ctl.enInv]

(* Every register the finished cell takes keeps its clock, its reset and its *)
(* enable (M's enable aside): no later decision undoes what an earlier one   *)
(* relied on, and no pin is written for one bank at the cost of another.     *)
ControlsKept ==
    step = "built" =>
      /\ \A p \in kept : \A r \in chain[p] :
           Clocked(r, rstn) /\ Gated(r, ce[p])
      /\ MReg(offer) # NoReg => Clocked(MReg(offer), rstn)
      /\ PReg(offer) # NoReg => /\ Clocked(PReg(offer), accrstn)
                                /\ Gated(PReg(offer), ce["P"])
      /\ offer.ad # NoReg => Clocked(offer.ad, rstn)

(* The M bank has no enable pin: a register that goes there has none.        *)
MHasNoEnable ==
    step = "built" /\ MReg(offer) # NoReg => MReg(offer).ctl.en = One

(* A pin that one writer connects, no later writer connects to another net:  *)
(* "writing them again is a no-op rather than a conflict".                   *)
PinsWrittenAlike ==
    [][/\ clk # NoClk => clk' = clk
       /\ rstn # Inactive => rstn' = rstn
       /\ \A p \in CEPorts : ce[p] # Inactive => ce'[p] = ce[p]
      ]_vars

(* Every chain is seeded from M, so one that disagrees with M never gets as  *)
(* far as the comparison with it, whatever was given up in between.          *)
MGuardIdle == step = "agreeM" => MAgrees

(* The crossbar budget, counted as the pass counts it: raw signals.          *)
SignalBudget == step = "built" => Cardinality(EnableSignals) <= MaxCE

==============================================================================
