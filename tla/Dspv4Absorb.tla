----------------------------- MODULE Dspv4Absorb -----------------------------
(* Which cells of a module the ql_dspv4 pass takes into QL_DSP4 blocks, and  *)
(* what becomes of them: src/ql-qlf-plugin/ql-dspv4.cc, execute(), emit(),   *)
(* collect_flops() and index_module(), with the pattern ql-dspv4.pmg.        *)
(*                                                                           *)
(* The pass is sequential, but it removes cells on three separate paths that *)
(* do not know about each other: the cells of a match go when the matcher is *)
(* destroyed (autoremove), operand registers that were MOVED into a bank are *)
(* queued and drained after it (pending_removal), and operand registers that *)
(* were COPIED because something else reads them stay until a sweep finds    *)
(* them unread (shared_claimed).  Multiplies arrive in any order, and a      *)
(* register can be the result register of one multiply and the operand       *)
(* register of another.                                                      *)
(*                                                                           *)
(* A signal is the set of bits it is made of.  Widths, signedness, keep      *)
(* marks and padding only refuse an offer, so an offer that the structure    *)
(* allows may also be refused (Leave, or a smaller shape).  What the clock,  *)
(* reset and enable rules do to a chain is the choice of `kept' in Emit.     *)
EXTENDS Naturals, FiniteSets

CONSTANTS
    Mul,      \* the $mul cells
    Add,      \* the $add and $sub cells
    Flop,     \* the $dff, $dffe, $sdff and $sdffe cells
    NoCell,   \* nullptr
    Bit,      \* every net bit
    Y,        \* Y[c]: the bits cell c drives (\Y of an operator, \Q of a flop)
    Ctl,      \* clock, enable and reset of a flop, taken together
    Designs   \* the modules the pass is run on

Cell   == Mul \cup Add \cup Flop
RegBit == UNION {Y[f] : f \in Flop}

(* The wiring of a module before the pass.  `next' gives the D bit behind    *)
(* each Q bit.  `out' holds the bits read by module outputs and by cells     *)
(* other than these; bits no Y drives come from inputs and such cells.       *)
(* `padded' holds the bits some operand repeats as padding.  `bankable'      *)
(* flops are rising-edge, reset to zero and carry no keep or init; `plain'   *)
(* ones have no clock enable.                                                *)
DesignType ==
    [a : [Mul -> SUBSET Bit], b : [Mul -> SUBSET Bit],
     x : [Add -> SUBSET Bit], y : [Add -> SUBSET Bit],
     next : [RegBit -> Bit],
     out : SUBSET Bit, padded : SUBSET Bit,
     bankable : SUBSET Flop, plain : SUBSET Flop, ctl : [Flop -> Ctl]]

ASSUME CellsAssumption ==
    /\ Mul \cap Add = {} /\ Mul \cap Flop = {} /\ Add \cap Flop = {}
    /\ NoCell \notin Cell
    /\ Y \in [Cell -> SUBSET Bit]
    /\ \A c \in Cell : Y[c] # {}   \* the pattern indexes bit 0 of each
    /\ \A c, e \in Cell : c # e => Y[c] \cap Y[e] = {}

ASSUME DesignsAssumption == Designs \subseteq DesignType

VARIABLES
    design,         \* the wiring the matcher and index_module() saw
    phase,          \* where execute() is
    todo,           \* multiplies the matcher has not visited
    alive,          \* cells in the module
    autoremove,     \* cells handed to pm.autoremove()
    absorbed,       \* flops some cell has claimed
    sharedClaimed,  \* of those, the ones copied rather than moved
    queued,         \* how many times a flop is in pending_removal
    dsps            \* the QL_DSP4 cells

vars == <<design, phase, todo, alive, autoremove, absorbed, sharedClaimed,
          queued, dsps>>

Phases == {"match", "drain", "sweep", "done"}

------------------------------------------------------------------------------
(* Who reads a signal.                                                       *)

D(d, f) == {d.next[r] : r \in Y[f]}

(* pmgen's nusers(): the CELLS reading a signal, nullptr for a port.         *)
Readers(d, sig) ==
    {m \in Mul : (d.a[m] \cup d.b[m]) \cap sig # {}}
      \cup {s \in Add : (d.x[s] \cup d.y[s]) \cap sig # {}}
      \cup {f \in Flop : D(d, f) \cap sig # {}}
      \cup (IF d.out \cap sig # {} THEN {NoCell} ELSE {})

(* Faulty form of SoleReader: the fan-out bound is one too large.            *)
OneMoreReader(d, sig, c) ==
    \A p, q \in Readers(d, sig) \ {c} : p = q

SoleReader(d, sig, c) == Readers(d, sig) \subseteq {c}

(* index_module()'s tally instead counts every port bit that names the bit.  *)
Uses(d, b) ==
    {<<"a", m>> : m \in {m \in Mul : b \in d.a[m]}}
      \cup {<<"b", m>> : m \in {m \in Mul : b \in d.b[m]}}
      \cup {<<"x", s>> : s \in {s \in Add : b \in d.x[s]}}
      \cup {<<"y", s>> : s \in {s \in Add : b \in d.y[s]}}
      \cup {<<"d", r>> : r \in {r \in RegBit : d.next[r] = b}}
      \cup (IF b \in d.out THEN {<<"out", b>>} ELSE {})

(* sig_users(Q) > 2: some bit of the flop is named in two places.            *)
HasOtherReaders(d, f) ==
    \E b \in Y[f] : b \in d.padded \/ \E u, v \in Uses(d, b) : u # v

------------------------------------------------------------------------------
(* collect_flops(): the register stages behind a signal, nearest first.      *)

StartWalk(sig) ==
    [n |-> 0, flops |-> {}, copy |-> FALSE, source |-> sig, on |-> TRUE]

StageFlops(sig) == {f \in Flop : Y[f] \cap sig # {}}

(* A flop is copied when the operand takes only part of it, something else   *)
(* reads it, or another cell already copied it.                              *)
Copies(d, f, sig, shared) ==
    ~(Y[f] \subseteq sig) \/ HasOtherReaders(d, f) \/ f \in shared

(* Faulty form of Takeable: a flop another cell claimed is taken again.      *)
TakeableAgain(d, f, claimed, shared) == f \in d.bankable

Takeable(d, f, claimed, shared) ==
    (f \in claimed => f \in shared) /\ f \in d.bankable

(* One turn of the walk.  `copy' is a property of the whole chain.           *)
Extend(d, w, claimed, shared) ==
    LET stage == StageFlops(w.source)
        reg   == w.on /\ w.source # {} /\ w.source \subseteq RegBit
        taken == /\ reg
                 /\ \A f \in stage : Takeable(d, f, claimed, shared)
                 /\ \A f, g \in w.flops \cup stage : d.ctl[f] = d.ctl[g]
    IN  [n      |-> IF taken THEN w.n + 1 ELSE w.n,
         flops  |-> IF taken THEN w.flops \cup stage ELSE w.flops,
         copy   |-> w.copy \/ (reg /\ \E f \in stage :
                                        Copies(d, f, w.source, shared)),
         source |-> IF taken THEN {d.next[r] : r \in w.source} ELSE w.source,
         on     |-> taken]

(* DSPV4_MAX_OPERAND_STAGES is 2 for A and B; C and D have one stage.        *)
Ports == {"A", "B", "C", "D"}
Deep  == {"A", "B"}

Walk(d, sig, port, claimed, shared) ==
    LET one == Extend(d, StartWalk(sig), claimed, shared)
    IN  IF port \in Deep THEN Extend(d, one, claimed, shared) ELSE one

------------------------------------------------------------------------------
(* The shapes the pattern offers, as emit() resolves them: the matched cells *)
(* this DSP would absorb, before and behind the multiplier.  `padd' and `ad' *)
(* are the pre-adder and its output register on operand `side', `dport' the  *)
(* pre-adder operand that goes to port D; `mff' is the M register, `add' and *)
(* `acc' the two adders, and `ff' the P register.                            *)

CellOrNone(S) == S \cup {NoCell}

Front == [ad : CellOrNone(Flop), padd : CellOrNone(Add), side : {"A", "B"},
          dport : {"x", "y"}]
Back  == [mff : CellOrNone(Flop), add : CellOrNone(Add),
          acc : CellOrNone(Add), ff : CellOrNone(Flop)]

(* Faulty form of MatchedCells: the P register is not handed to              *)
(* autoremove().                                                             *)
MatchedButP(m, f, s) == {m, f.ad, f.padd, s.mff, s.add, s.acc} \ {NoCell}

MatchedCells(m, f, s) ==
    {m, f.ad, f.padd, s.mff, s.add, s.acc, s.ff} \ {NoCell}

MatchedFlops(f, s) == {f.ad, s.mff, s.ff} \ {NoCell}

Operand(d, m, port) == IF port = "A" THEN d.a[m] ELSE d.b[m]
OtherSide(side)     == IF side = "A" THEN "B" ELSE "A"
AddPort(d, s, p)    == IF p = "x" THEN d.x[s] ELSE d.y[s]
OtherPort(p)        == IF p = "x" THEN "y" ELSE "x"

(* The product as the adder sees it: through the M register, if there is one.*)
Product(m, s) == IF s.mff # NoCell THEN Y[s.mff] ELSE Y[m]

(* The adder port that does not read the product, and the sum's other side.  *)
AddOther(d, m, s) ==
    IF d.x[s.add] = Product(m, s) THEN d.y[s.add] ELSE d.x[s.add]
AccOther(d, s) ==
    IF d.x[s.acc] = Y[s.add] THEN d.y[s.acc] ELSE d.x[s.acc]

(* dsp_result: what the last absorbed operator produces.                     *)
Result(m, s) ==
    IF s.acc # NoCell THEN Y[s.acc]
    ELSE IF s.add # NoCell THEN Y[s.add] ELSE Y[m]

FeedbackOnAdd(d, m, s) ==
    s.ff # NoCell /\ s.add # NoCell /\ AddOther(d, m, s) = Y[s.ff]
FeedbackOnAcc(d, s) ==
    s.ff # NoCell /\ s.acc # NoCell /\ AccOther(d, s) = Y[s.ff]

(* The operand that goes to port C, if any: neither product nor feedback.    *)
COperand(d, m, s) ==
    IF s.acc # NoCell
    THEN IF FeedbackOnAdd(d, m, s) THEN AccOther(d, s) ELSE AddOther(d, m, s)
    ELSE IF s.add # NoCell /\ ~FeedbackOnAdd(d, m, s) THEN AddOther(d, m, s)
    ELSE {}

(* What this cell keeps inside: C may not read any of it.                    *)
Swallowed(m, s) ==
    (IF s.add # NoCell THEN Y[m] ELSE {})
      \cup (IF s.mff # NoCell THEN Y[s.mff] ELSE {})
      \cup (IF s.acc # NoCell THEN Y[s.add] ELSE {})

(* The pre-adder on one operand, straight or through the AD register.  An    *)
(* adder on both operands is the squaring shape, which is refused.           *)
Fronts(d, m) ==
    {f \in Front :
       LET port  == Operand(d, m, f.side)
           other == Operand(d, m, OtherSide(f.side))
       IN  \/ /\ f.padd = NoCell /\ f.ad = NoCell
              /\ f.side = "A" /\ f.dport = "x"
           \/ /\ f.padd # NoCell /\ f.ad = NoCell
              /\ Y[f.padd] \subseteq port /\ ~(Y[f.padd] \subseteq other)
              /\ SoleReader(d, Y[f.padd], m)
           \/ /\ f.padd # NoCell /\ f.ad \in d.plain \cap d.bankable
              /\ port \subseteq Y[f.ad] /\ port # other
              /\ SoleReader(d, Y[f.ad], m)
              /\ Y[f.padd] \subseteq D(d, f.ad)
              /\ SoleReader(d, Y[f.padd], f.ad)}

(* The M register: between product and adder, or -- without an adder -- the  *)
(* first of two result registers, which emit() moves there from P.           *)
MRegisterMatches(d, m, s) ==
    s.mff = NoCell \/
      (/\ D(d, s.mff) = Y[m] /\ SoleReader(d, Y[m], s.mff)
       /\ s.mff \in d.bankable
       /\ IF s.add # NoCell
          THEN s.mff \in d.plain
          ELSE s.ff # NoCell /\ s.ff \in d.plain
                 /\ D(d, s.ff) = Y[s.mff] /\ SoleReader(d, Y[s.mff], s.ff))

AddersMatch(d, m, s) ==
    IF s.add = NoCell THEN s.acc = NoCell
    ELSE /\ Product(m, s) \in {d.x[s.add], d.y[s.add]}
         /\ SoleReader(d, Product(m, s), s.add)
         /\ s.acc # NoCell =>
              /\ s.acc # s.add /\ Y[s.add] \in {d.x[s.acc], d.y[s.acc]}
              /\ SoleReader(d, Y[s.add], s.acc)
              /\ FeedbackOnAdd(d, m, s) \/ FeedbackOnAcc(d, s)
         /\ COperand(d, m, s) \cap Swallowed(m, s) = {}

ResultRegisterMatches(d, m, s) ==
    s.ff = NoCell \/
      (/\ s.ff \in d.bankable
       /\ \/ s.add = NoCell /\ s.mff # NoCell /\ s.ff # s.mff
          \/ /\ D(d, s.ff) = Result(m, s)
             /\ SoleReader(d, Result(m, s), s.ff))

Backs(d, m) ==
    {s \in Back : /\ MRegisterMatches(d, m, s)
                  /\ AddersMatch(d, m, s)
                  /\ ResultRegisterMatches(d, m, s)}

(* Faulty form of Unclaimed: claims are not looked at.                       *)
UnclaimedByMatcher(m, f, s, gone, claimed) == MatchedCells(m, f, s) \cap gone = {}

(* The matcher skips cells already handed to autoremove; emit() refuses an   *)
(* offer that names a flop some cell has claimed.                            *)
Unclaimed(m, f, s, gone, claimed) ==
    /\ MatchedCells(m, f, s) \cap gone = {}
    /\ MatchedFlops(f, s) \cap claimed = {}

------------------------------------------------------------------------------
(* What emit() puts on each port before the walk.                            *)
PortSignal(d, m, f, s, port) ==
    CASE port = "C" -> COperand(d, m, s)
      [] port = "D" -> IF f.padd = NoCell THEN {}
                       ELSE AddPort(d, f.padd, f.dport)
      [] port \in Deep -> IF f.padd # NoCell /\ port = f.side
                          THEN AddPort(d, f.padd, OtherPort(f.dport))
                          ELSE Operand(d, m, port)

(* A C stage that holds this cell's own result is the accumulator feedback,  *)
(* not an operand register: the chain is dropped.                            *)
Chain(d, m, f, s, port, claimed, shared) ==
    LET sig == PortSignal(d, m, f, s, port)
        w   == Walk(d, sig, port, claimed, shared)
    IN  IF port = "C" /\ \E c \in w.flops : D(d, c) = Result(m, s)
        THEN StartWalk(sig) ELSE w

Chains(d, m, f, s, claimed, shared) ==
    [A |-> Chain(d, m, f, s, "A", claimed, shared),
     B |-> Chain(d, m, f, s, "B", claimed, shared),
     C |-> Chain(d, m, f, s, "C", claimed, shared),
     D |-> Chain(d, m, f, s, "D", claimed, shared)]

(* claim() runs over the chains in this order.                               *)
Rank == [p \in Ports |-> CASE p = "A" -> 1 [] p = "B" -> 2
                           [] p = "C" -> 3 [] p = "D" -> 4]

------------------------------------------------------------------------------
(* Three wirings the guards of emit() do not exclude.  Only the C chain is   *)
(* compared with the result: an A, B or D chain may walk into the P register *)
(* of its own cell, as in p <= p * x + c.                                    *)
SelfFed(d) ==
    \E m \in Mul : \E f \in Fronts(d, m), s \in Backs(d, m),
                     p \in Ports \ {"C"} :
        s.ff \in Walk(d, PortSignal(d, m, f, s, p), p, {}, {}).flops

(* And the squaring test compares the low bit only: the other operand may    *)
(* take higher bits of the sum the pre-adder makes, as in s * (s >> 1).      *)
HalfSquared(d) ==
    \E m \in Mul : \E f \in Fronts(d, m) :
        /\ f.padd # NoCell
        /\ Operand(d, m, OtherSide(f.side))
             \cap (Y[f.padd] \cup (IF f.ad = NoCell THEN {} ELSE Y[f.ad])) # {}

(* An adder both before and behind the multiply closes a loop whose nets     *)
(* have one reader each, so nothing outside reads any of it: opt_clean       *)
(* removes it, unless a keep mark holds it.                                  *)
UnreadLoop(d) ==
    \E m \in Mul : \E f \in Fronts(d, m), s \in Backs(d, m) :
        f.padd # NoCell /\ f.padd = s.add

Regular(d) == ~SelfFed(d) /\ ~HalfSquared(d) /\ ~UnreadLoop(d)

------------------------------------------------------------------------------
Init ==
    /\ design \in Designs
    /\ phase = "match"
    /\ todo = Mul
    /\ alive = Cell
    /\ autoremove = {} /\ absorbed = {} /\ sharedClaimed = {}
    /\ queued = [f \in Flop |-> 0]
    /\ dsps = {}

(* emit() builds a DSP from front f and back s.  `kept' are the ports whose  *)
(* chains survive the clock/reset agreement, the clock-enable budget and the *)
(* AD bank: each rule gives up a whole chain.                                *)
Emit(m, f, s, chain, kept) ==
    LET base  == absorbed \cup MatchedFlops(f, s)
        In(c) == {p \in kept : c \in chain[p].flops}
        copied == {c \in Flop : \E p \in In(c) : chain[p].copy}
        \* claim(): the first chain to name an unclaimed flop decides
        moved == {c \in Flop \ base :
                    \E p \in In(c) : \A q \in In(c) :
                        /\ ~chain[p].copy
                        /\ chain[q].copy => Rank[p] < Rank[q]}
    IN  /\ dsps' = dsps \cup
             {[mul    |-> m,
               reads  |-> UNION {IF p \in kept THEN chain[p].source
                                 ELSE PortSignal(design, m, f, s, p) :
                                 p \in Ports},
               drives |-> IF s.ff # NoCell THEN Y[s.ff] ELSE Result(m, s)]}
        /\ autoremove' = autoremove \cup MatchedCells(m, f, s)
        /\ absorbed' = base \cup UNION {chain[p].flops : p \in kept}
        /\ sharedClaimed' = sharedClaimed \cup copied
        /\ queued' = [c \in Flop |-> IF c \in moved THEN queued[c] + 1
                                     ELSE queued[c]]

Match(m) ==
    /\ phase = "match" /\ m \in todo
    /\ todo' = todo \ {m}
    /\ \E f \in Fronts(design, m), s \in Backs(design, m) :
         /\ Unclaimed(m, f, s, autoremove, absorbed)
         /\ \E chain \in {Chains(design, m, f, s, absorbed, sharedClaimed)} :
              \E kept \in SUBSET {p \in Ports : chain[p].n > 0} :
                Emit(m, f, s, chain, kept)
    /\ UNCHANGED <<design, phase, alive>>

(* Every shape of this multiply was refused: it stays soft.                  *)
Leave(m) ==
    /\ phase = "match" /\ m \in todo
    /\ todo' = todo \ {m}
    /\ UNCHANGED <<design, phase, alive, autoremove, absorbed, sharedClaimed,
                   queued, dsps>>

(* The matcher's destructor removes what autoremove() collected.             *)
DestroyMatcher ==
    /\ phase = "match" /\ todo = {}
    /\ phase' = "drain"
    /\ alive' = alive \ autoremove
    /\ UNCHANGED <<design, todo, autoremove, absorbed, sharedClaimed, queued,
                   dsps>>

DrainPending ==
    /\ phase = "drain"
    /\ phase' = "sweep"
    /\ alive' = alive \ {f \in Flop : queued[f] > 0}
    /\ queued' = [f \in Flop |-> 0]
    /\ UNCHANGED <<design, todo, autoremove, absorbed, sharedClaimed, dsps>>

(* The bits something in the rewritten module reads.                         *)
Read(d, cells, blocks) ==
    (UNION {d.a[m] \cup d.b[m] : m \in Mul \cap cells})
      \cup (UNION {d.x[s] \cup d.y[s] : s \in Add \cap cells})
      \cup (UNION {D(d, f) : f \in Flop \cap cells})
      \cup (UNION {t.reads : t \in blocks})
      \cup d.out

Userless == {f \in sharedClaimed : Y[f] \cap Read(design, alive, dsps) = {}}

(* Faulty form of SweepPass: the sweep stops after one pass.                 *)
SweepOnce ==
    /\ phase = "sweep" /\ Userless # {}
    /\ phase' = "done"
    /\ alive' = alive \ Userless
    /\ sharedClaimed' = {}
    /\ UNCHANGED <<design, todo, autoremove, absorbed, queued, dsps>>

(* One pass of the sweep: live readers are counted once, then every userless *)
(* copy goes; `again' unless none did.                                       *)
SweepPass ==
    /\ phase = "sweep" /\ Userless # {}
    /\ alive' = alive \ Userless
    /\ sharedClaimed' = sharedClaimed \ Userless
    /\ UNCHANGED <<design, phase, todo, autoremove, absorbed, queued, dsps>>

SweepEnds ==
    /\ phase = "sweep" /\ Userless = {}
    /\ phase' = "done"
    /\ sharedClaimed' = {}
    /\ UNCHANGED <<design, todo, alive, autoremove, absorbed, queued, dsps>>

Stopped == phase = "done" /\ UNCHANGED vars

Next ==
    \/ \E m \in Mul : Match(m) \/ Leave(m)
    \/ DestroyMatcher \/ DrainPending \/ SweepPass \/ SweepEnds \/ Stopped

Spec == Init /\ [][Next]_vars /\ WF_vars(Next)

------------------------------------------------------------------------------
(* The variables keep their types.                                           *)
TypeOK ==
    /\ design \in DesignType
    /\ phase \in Phases
    /\ todo \subseteq Mul
    /\ alive \subseteq Cell
    /\ autoremove \subseteq Cell
    /\ absorbed \subseteq Flop
    /\ sharedClaimed \subseteq Flop
    /\ queued \in [Flop -> Nat]
    /\ dsps \subseteq [mul : Mul, reads : SUBSET Bit, drives : SUBSET Bit]

(* A moved register is queued for removal once, and never when the matcher   *)
(* will remove it as part of a match: module->remove() sees it once.         *)
QueuedOnce ==
    \A f \in Flop : queued[f] <= 1 /\ (queued[f] > 0 => f \notin autoremove)

(* A copied register is "never removed directly": no match and no queue      *)
(* entry takes it away before the sweep looks at it.                         *)
CopiesStand ==
    \A f \in sharedClaimed : f \notin autoremove /\ queued[f] = 0

(* Once the pass is over, every bit that a cell, a DSP or the outside reads  *)
(* has a driver, if it had one before.                                       *)
ReadsDriven ==
    phase = "done" =>
      \A b \in Read(design, alive, dsps), c \in Cell :
        b \in Y[c] => c \in alive \/ \E t \in dsps : b \in t.drives

(* A net the DSP drives has no second driver: neither a cell left standing   *)
(* nor another DSP.                                                          *)
OneDriver ==
    phase = "done" =>
      \A t \in dsps :
        /\ \A c \in alive : Y[c] \cap t.drives = {}
        /\ \A u \in dsps : u # t => u.drives \cap t.drives = {}

(* These hold of every module but the three kinds above.                     *)
CopiesStandIfRegular == CopiesStand \/ ~Regular(design)
NoDanglingRead       == ReadsDriven \/ ~Regular(design)

(* A copied register stays only while something still reads it: the sweep    *)
(* reaches the copies that only other copies read.                           *)
NoUserlessCopy ==
    phase = "done" =>
      \A f \in absorbed \cap alive : Y[f] \cap Read(design, alive, dsps) # {}
==============================================================================
