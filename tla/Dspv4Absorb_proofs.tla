------------------------- MODULE Dspv4Absorb_proofs --------------------------
(* What holds of Dspv4Absorb for every set of cells and every wiring.        *)
EXTENDS Dspv4Absorb, TLAPS

WalkSet ==
    [n : Nat, flops : SUBSET Flop, copy : BOOLEAN, source : SUBSET Bit,
     on : BOOLEAN]

(* A turn of the walk stays within the module's flops and bits.              *)
LEMMA ExtendType ==
    ASSUME NEW d \in DesignType, NEW w \in WalkSet, NEW claimed, NEW shared
    PROVE  Extend(d, w, claimed, shared) \in WalkSet
<1> DEFINE src == {d.next[r] : r \in w.source}
<1>1. w.source \subseteq RegBit => src \in SUBSET Bit
  BY DEF DesignType
<1>2. StageFlops(w.source) \in SUBSET Flop
  BY DEF StageFlops
<1> QED
  BY <1>1, <1>2 DEF Extend, WalkSet

LEMMA WalkType ==
    ASSUME NEW d \in DesignType, NEW sig \in SUBSET Bit, NEW p \in Ports,
           NEW claimed, NEW shared
    PROVE  Walk(d, sig, p, claimed, shared) \in WalkSet
<1>1. StartWalk(sig) \in WalkSet
  BY DEF StartWalk, WalkSet
<1> QED
  BY <1>1, ExtendType DEF Walk

(* What a multiply, an adder or a flop of an offered shape drives is bits.   *)
LEMMA ShapeBits ==
    ASSUME NEW d \in DesignType, NEW m \in Mul, NEW s \in Backs(d, m)
    PROVE  /\ Result(m, s) \in SUBSET Bit
           /\ COperand(d, m, s) \in SUBSET Bit
           /\ s.ff # NoCell => Y[s.ff] \in SUBSET Bit
<1>1. s \in Back /\ AddersMatch(d, m, s)
  BY DEF Backs
<1>2. /\ s.add \in Add \cup {NoCell} /\ s.acc \in Add \cup {NoCell}
      /\ s.ff \in Flop \cup {NoCell}
  BY <1>1 DEF Back, CellOrNone
<1>3. \A c \in Mul \cup Add \cup Flop : Y[c] \in SUBSET Bit
  BY CellsAssumption DEF Cell
<1>4. s.acc # NoCell => s.add # NoCell
  BY <1>1 DEF AddersMatch
<1>5. \A c \in Add : d.x[c] \in SUBSET Bit /\ d.y[c] \in SUBSET Bit
  BY DEF DesignType
<1>6. s.add # NoCell => AddOther(d, m, s) \in SUBSET Bit
  BY <1>2, <1>5 DEF AddOther
<1>7. s.acc # NoCell => AccOther(d, s) \in SUBSET Bit
  BY <1>2, <1>5 DEF AccOther
<1>8. COperand(d, m, s) \in SUBSET Bit
  BY <1>4, <1>6, <1>7 DEF COperand
<1>9. Result(m, s) \in SUBSET Bit
  BY <1>2, <1>3 DEF Result
<1> QED
  BY <1>2, <1>3, <1>8, <1>9

LEMMA PortSignalBits ==
    ASSUME NEW d \in DesignType, NEW m \in Mul, NEW f \in Fronts(d, m),
           NEW s \in Backs(d, m), NEW p \in Ports
    PROVE  PortSignal(d, m, f, s, p) \in SUBSET Bit
<1>1. f \in Front
  BY DEF Fronts
<1>2. f.padd \in Add \cup {NoCell}
  BY <1>1 DEF Front, CellOrNone
<1>3. \A q : f.padd # NoCell => AddPort(d, f.padd, q) \in SUBSET Bit
  BY <1>2 DEF AddPort, DesignType
<1>4. \A q : Operand(d, m, q) \in SUBSET Bit
  BY DEF Operand, DesignType
<1>5. COperand(d, m, s) \in SUBSET Bit
  BY ShapeBits
<1>6. CASE p = "C"
  BY <1>5, <1>6 DEF PortSignal, Deep
<1>7. CASE p = "D"
  BY <1>3, <1>7 DEF PortSignal, Deep
<1>8. CASE p \in Deep
  BY <1>3, <1>4, <1>8 DEF PortSignal, Deep
<1> QED
  BY <1>6, <1>7, <1>8 DEF Ports, Deep

LEMMA ChainsType ==
    ASSUME NEW d \in DesignType, NEW m \in Mul, NEW f \in Fronts(d, m),
           NEW s \in Backs(d, m), NEW claimed, NEW shared, NEW p \in Ports
    PROVE  Chains(d, m, f, s, claimed, shared)[p] \in WalkSet
<1>1. PortSignal(d, m, f, s, p) \in SUBSET Bit
  BY PortSignalBits
<1>2. Walk(d, PortSignal(d, m, f, s, p), p, claimed, shared) \in WalkSet
  BY <1>1, WalkType
<1>3. StartWalk(PortSignal(d, m, f, s, p)) \in WalkSet
  BY <1>1 DEF StartWalk, WalkSet
<1>4. Chain(d, m, f, s, p, claimed, shared) \in WalkSet
  BY <1>2, <1>3 DEF Chain
<1>5. Chains(d, m, f, s, claimed, shared)[p]
        = Chain(d, m, f, s, p, claimed, shared)
  BY DEF Chains, Ports
<1> QED
  BY <1>4, <1>5

(* The cells of a match are cells of the module.                             *)
LEMMA MatchedType ==
    ASSUME NEW d \in DesignType, NEW m \in Mul, NEW f \in Fronts(d, m),
           NEW s \in Backs(d, m)
    PROVE  /\ MatchedCells(m, f, s) \subseteq Cell
           /\ MatchedFlops(f, s) \subseteq Flop
           /\ MatchedFlops(f, s) = MatchedCells(m, f, s) \cap Flop
<1>1. f \in Front /\ s \in Back
  BY DEF Fronts, Backs
<1>2. /\ f.ad \in Flop \cup {NoCell} /\ f.padd \in Add \cup {NoCell}
      /\ s.mff \in Flop \cup {NoCell} /\ s.add \in Add \cup {NoCell}
      /\ s.acc \in Add \cup {NoCell} /\ s.ff \in Flop \cup {NoCell}
  BY <1>1 DEF Front, Back, CellOrNone
<1> QED
  BY <1>2, CellsAssumption DEF MatchedCells, MatchedFlops, Cell

------------------------------------------------------------------------------
(* What one successful offer does to the variables, with the wiring typed.   *)
DspSet == [mul : Mul, reads : SUBSET Bit, drives : SUBSET Bit]

LEMMA EmitType ==
    ASSUME TypeOK,
           NEW m \in Mul, NEW f \in Fronts(design, m),
           NEW s \in Backs(design, m),
           NEW chain, chain = Chains(design, m, f, s, absorbed, sharedClaimed),
           NEW kept \in SUBSET Ports,
           Emit(m, f, s, chain, kept)
    PROVE  /\ autoremove' \subseteq Cell
           /\ absorbed' \subseteq Flop
           /\ sharedClaimed' \subseteq Flop
           /\ queued' \in [Flop -> Nat]
           /\ dsps' \subseteq DspSet
<1> USE DEF TypeOK
<1>1. \A p \in Ports : chain[p] \in WalkSet
  BY ChainsType
<1>2. \A p \in Ports : chain[p].flops \subseteq Flop
  BY <1>1 DEF WalkSet
<1>3. \A p \in Ports : chain[p].source \subseteq Bit
  BY <1>1 DEF WalkSet
<1>4. autoremove' \subseteq Cell
  BY MatchedType DEF Emit
<1>5. absorbed' \subseteq Flop
  <2>1. MatchedFlops(f, s) \subseteq Flop
    BY MatchedType
  <2>2. UNION {chain[p].flops : p \in kept} \subseteq Flop
    BY <1>2
  <2> QED
    BY <2>1, <2>2 DEF Emit
<1>6. sharedClaimed' \subseteq Flop
  BY DEF Emit
<1>7. queued' \in [Flop -> Nat]
  BY DEF Emit
<1>8. dsps' \subseteq DspSet
  <2> DEFINE reads  == UNION {IF p \in kept THEN chain[p].source
                              ELSE PortSignal(design, m, f, s, p) :
                              p \in Ports}
             drives == IF s.ff # NoCell THEN Y[s.ff] ELSE Result(m, s)
  <2>1. reads \in SUBSET Bit
    BY <1>3, PortSignalBits
  <2>2. drives \in SUBSET Bit
    BY ShapeBits
  <2>3. dsps' = dsps \cup {[mul |-> m, reads |-> reads, drives |-> drives]}
    BY DEF Emit
  <2>4. dsps \subseteq DspSet
    BY DEF DspSet
  <2> HIDE DEF reads, drives
  <2> QED
    BY <2>1, <2>2, <2>3, <2>4 DEF DspSet
<1> QED
  BY <1>4, <1>5, <1>6, <1>7, <1>8

(* Every variable keeps its type: no operand walk leaves the module's flops  *)
(* and nets, and no offer names a cell the module does not have.             *)
THEOREM TypeCorrect == Spec => []TypeOK
<1>1. Init => TypeOK
  BY DesignsAssumption, CellsAssumption DEF Init, TypeOK, Phases, Cell
<1>2. TypeOK /\ [Next]_vars => TypeOK'
  <2> SUFFICES ASSUME TypeOK, [Next]_vars PROVE TypeOK'
    OBVIOUS
  <2>1. ASSUME NEW m \in Mul, Match(m) PROVE TypeOK'
    <3>1. PICK f \in Fronts(design, m), s \in Backs(design, m) :
            \E chain \in {Chains(design, m, f, s, absorbed, sharedClaimed)} :
              \E kept \in SUBSET {p \in Ports : chain[p].n > 0} :
                Emit(m, f, s, chain, kept)
      BY <2>1 DEF Match
    <3> DEFINE chain == Chains(design, m, f, s, absorbed, sharedClaimed)
    <3> HIDE DEF chain
    <3>2. PICK kept \in SUBSET Ports : Emit(m, f, s, chain, kept)
      <4>1. \E kept \in SUBSET {p \in Ports : chain[p].n > 0} :
              Emit(m, f, s, chain, kept)
        BY <3>1 DEF chain
      <4> QED
        BY <4>1
    <3>3. /\ autoremove' \subseteq Cell /\ absorbed' \subseteq Flop
          /\ sharedClaimed' \subseteq Flop /\ queued' \in [Flop -> Nat]
          /\ dsps' \subseteq DspSet
      BY <3>2, EmitType DEF chain
    <3>4. todo' = todo \ {m} /\ UNCHANGED <<design, phase, alive>>
      BY <2>1 DEF Match
    <3> QED
      BY <3>3, <3>4 DEF TypeOK, DspSet
  <2>2. ASSUME NEW m \in Mul, Leave(m) PROVE TypeOK'
    BY <2>2 DEF Leave, TypeOK
  <2>3. CASE DestroyMatcher
    BY <2>3 DEF DestroyMatcher, TypeOK, Phases
  <2>4. CASE DrainPending
    BY <2>4 DEF DrainPending, TypeOK, Phases
  <2>5. CASE SweepPass
    BY <2>5 DEF SweepPass, TypeOK
  <2>6. CASE SweepEnds
    BY <2>6 DEF SweepEnds, TypeOK, Phases
  <2>7. CASE UNCHANGED vars
    BY <2>7 DEF vars, TypeOK
  <2> QED
    BY <2>1, <2>2, <2>3, <2>4, <2>5, <2>6, <2>7 DEF Next, Stopped
<1> QED
  BY <1>1, <1>2, PTL DEF Spec

------------------------------------------------------------------------------
(* QueuedOnce is not inductive: it needs that what is queued, and every      *)
(* flop of a match, is on record in `absorbed'.                              *)
ClaimsRecorded ==
    /\ \A f \in Flop : queued[f] > 0 => f \in absorbed
    /\ autoremove \cap Flop \subseteq absorbed

QueueInv == ClaimsRecorded /\ QueuedOnce

LEMMA EmitQueue ==
    ASSUME TypeOK, QueueInv,
           NEW m \in Mul, NEW f \in Fronts(design, m),
           NEW s \in Backs(design, m),
           Unclaimed(m, f, s, autoremove, absorbed),
           NEW chain, NEW kept \in SUBSET Ports,
           Emit(m, f, s, chain, kept)
    PROVE  QueueInv'
<1> DEFINE base == absorbed \cup MatchedFlops(f, s)
<1>1. \A c \in Flop : \/ queued'[c] = queued[c]
                       \/ /\ c \notin base /\ queued'[c] = queued[c] + 1
                          /\ \E p \in kept : c \in chain[p].flops
  BY DEF Emit, TypeOK
<1>2. absorbed' = base \cup UNION {chain[p].flops : p \in kept}
  BY DEF Emit
<1>3. MatchedFlops(f, s) = MatchedCells(m, f, s) \cap Flop
  BY MatchedType DEF TypeOK
<1>4. autoremove' \cap Flop = (autoremove \cap Flop) \cup MatchedFlops(f, s)
  BY <1>3 DEF Emit
<1>5. MatchedFlops(f, s) \cap absorbed = {}
  BY DEF Unclaimed
<1>6. \A c \in Flop : queued[c] \in Nat
  BY DEF TypeOK
<1> HIDE DEF base
<1>7. ASSUME NEW c \in Flop
      PROVE  /\ queued'[c] > 0 => c \in absorbed'
             /\ queued'[c] <= 1
             /\ queued'[c] > 0 => c \notin autoremove'
  <2>1. CASE queued'[c] = queued[c]
    BY <2>1, <1>2, <1>4, <1>5 DEF QueueInv, ClaimsRecorded, QueuedOnce, base
  <2>2. CASE /\ c \notin base /\ queued'[c] = queued[c] + 1
             /\ \E p \in kept : c \in chain[p].flops
    <3>1. c \notin absorbed /\ c \notin MatchedFlops(f, s)
      BY <2>2 DEF base
    <3>2. queued[c] = 0
      BY <3>1, <1>6 DEF QueueInv, ClaimsRecorded
    <3>3. c \notin autoremove'
      BY <3>1, <1>4 DEF QueueInv, ClaimsRecorded
    <3> QED
      BY <2>2, <3>2, <3>3, <1>2
  <2> QED
    BY <1>1, <2>1, <2>2
<1>8. autoremove' \cap Flop \subseteq absorbed'
  BY <1>2, <1>4 DEF QueueInv, ClaimsRecorded, base
<1> QED
  BY <1>7, <1>8 DEF QueueInv, ClaimsRecorded, QueuedOnce

LEMMA QueueInvariance == Spec => []QueueInv
<1>1. Init => QueueInv
  BY DEF Init, QueueInv, ClaimsRecorded, QueuedOnce
<1>2. TypeOK /\ QueueInv /\ [Next]_vars => QueueInv'
  <2> SUFFICES ASSUME TypeOK, QueueInv, [Next]_vars PROVE QueueInv'
    OBVIOUS
  <2>1. ASSUME NEW m \in Mul, Match(m) PROVE QueueInv'
    BY <2>1, EmitQueue DEF Match
  <2>2. ASSUME NEW m \in Mul, Leave(m) PROVE QueueInv'
    BY <2>2 DEF Leave, QueueInv, ClaimsRecorded, QueuedOnce
  <2>3. CASE DestroyMatcher
    BY <2>3 DEF DestroyMatcher, QueueInv, ClaimsRecorded, QueuedOnce
  <2>4. CASE DrainPending
    BY <2>4 DEF DrainPending, QueueInv, ClaimsRecorded, QueuedOnce
  <2>5. CASE SweepPass
    BY <2>5 DEF SweepPass, QueueInv, ClaimsRecorded, QueuedOnce
  <2>6. CASE SweepEnds
    BY <2>6 DEF SweepEnds, QueueInv, ClaimsRecorded, QueuedOnce
  <2>7. CASE UNCHANGED vars
    BY <2>7 DEF vars, QueueInv, ClaimsRecorded, QueuedOnce
  <2> QED
    BY <2>1, <2>2, <2>3, <2>4, <2>5, <2>6, <2>7 DEF Next, Stopped
<1> QED
  BY <1>1, <1>2, TypeCorrect, PTL DEF Spec

(* emit() and claim(), in any order of multiplies: no register is queued for *)
(* removal twice, and none that is queued also leaves with a match.          *)
THEOREM QueuedOnceHolds == Spec => []QueuedOnce
<1>1. QueueInv => QueuedOnce
  BY DEF QueueInv
<1> QED
  BY <1>1, QueueInvariance, PTL

------------------------------------------------------------------------------
(* What a DSP drives belonged to a cell of its match; no cell is in two      *)
(* matches, and once the matcher is gone none of them is in the module.      *)
Owned ==
    /\ \A t \in dsps : \E c \in autoremove : t.drives = Y[c]
    /\ \A t, u \in dsps : t # u => t.drives \cap u.drives = {}
    /\ phase # "match" => alive \cap autoremove = {}

(* The net a DSP takes over is one of its own match.                         *)
LEMMA DrivesMatched ==
    ASSUME NEW d \in DesignType, NEW m \in Mul, NEW f \in Fronts(d, m),
           NEW s \in Backs(d, m)
    PROVE  \E c \in MatchedCells(m, f, s) :
             (IF s.ff # NoCell THEN Y[s.ff] ELSE Result(m, s)) = Y[c]
<1>1. m # NoCell
  BY CellsAssumption DEF Cell
<1>2. CASE s.ff # NoCell
  BY <1>2 DEF MatchedCells
<1>3. CASE s.ff = NoCell /\ s.acc # NoCell
  BY <1>3 DEF MatchedCells, Result
<1>4. CASE s.ff = NoCell /\ s.acc = NoCell /\ s.add # NoCell
  BY <1>4 DEF MatchedCells, Result
<1>5. CASE s.ff = NoCell /\ s.acc = NoCell /\ s.add = NoCell
  BY <1>1, <1>5 DEF MatchedCells, Result
<1> QED
  BY <1>2, <1>3, <1>4, <1>5

LEMMA EmitOwned ==
    ASSUME TypeOK, Owned, phase = "match", phase' = phase,
           NEW m \in Mul, NEW f \in Fronts(design, m),
           NEW s \in Backs(design, m),
           Unclaimed(m, f, s, autoremove, absorbed),
           NEW chain, NEW kept,
           Emit(m, f, s, chain, kept)
    PROVE  Owned'
<1> DEFINE drives == IF s.ff # NoCell THEN Y[s.ff] ELSE Result(m, s)
<1>1. PICK c \in MatchedCells(m, f, s) : drives = Y[c]
  BY DrivesMatched DEF TypeOK
<1>2. c \in Cell /\ c \notin autoremove
  BY <1>1, MatchedType DEF TypeOK, Unclaimed
<1>3. \A e \in autoremove : Y[e] \cap Y[c] = {}
  BY <1>2, CellsAssumption DEF TypeOK
<1>4. PICK t : t.drives = drives /\ dsps' = dsps \cup {t}
  BY DEF Emit
<1>5. autoremove' = autoremove \cup MatchedCells(m, f, s)
  BY DEF Emit
<1> HIDE DEF drives
<1>6. \A u \in dsps : u.drives \cap t.drives = {}
  BY <1>1, <1>3, <1>4 DEF Owned
<1> QED
  BY <1>1, <1>4, <1>5, <1>6 DEF Owned

(* In whatever order the multiplies are taken, and whichever adders and      *)
(* registers they share, no net of the result has two drivers.               *)
THEOREM OneDriverHolds == Spec => []OneDriver
<1>1. Init => Owned
  BY DEF Init, Owned
<1>2. TypeOK /\ Owned /\ [Next]_vars => Owned'
  <2> SUFFICES ASSUME TypeOK, Owned, [Next]_vars PROVE Owned'
    OBVIOUS
  <2>1. ASSUME NEW m \in Mul, Match(m) PROVE Owned'
    <3>1. phase = "match" /\ phase' = phase
      BY <2>1 DEF Match
    <3> QED
      BY <2>1, <3>1, EmitOwned DEF Match
  <2>2. ASSUME NEW m \in Mul, Leave(m) PROVE Owned'
    BY <2>2 DEF Leave, Owned
  <2>3. CASE DestroyMatcher \/ DrainPending
    BY <2>3 DEF DestroyMatcher, DrainPending, Owned
  <2>4. CASE SweepPass \/ SweepEnds
    BY <2>4 DEF SweepPass, SweepEnds, Owned
  <2>5. CASE UNCHANGED vars
    BY <2>5 DEF vars, Owned
  <2> QED
    BY <2>1, <2>2, <2>3, <2>4, <2>5 DEF Next, Stopped
<1>3. TypeOK /\ Owned => OneDriver
  <2> SUFFICES ASSUME TypeOK, Owned, phase = "done", NEW t \in dsps
               PROVE  /\ \A c \in alive : Y[c] \cap t.drives = {}
                      /\ \A u \in dsps : u # t => u.drives \cap t.drives = {}
    BY DEF OneDriver
  <2>1. PICK e \in autoremove : t.drives = Y[e]
    BY DEF Owned
  <2>2. \A c \in alive : c # e /\ c \in Cell /\ e \in Cell
    BY <2>1 DEF Owned, TypeOK
  <2>3. \A c \in alive : Y[c] \cap Y[e] = {}
    BY <2>2, CellsAssumption
  <2> QED
    BY <2>1, <2>3 DEF Owned
<1> QED
  BY <1>1, <1>2, <1>3, TypeCorrect, PTL DEF Spec

------------------------------------------------------------------------------
(* A register that some cell claimed leaves on one of the three paths, and   *)
(* no path forgets one: what the first two leave, the sweep looks at.        *)
Accounted ==
    /\ phase = "match" =>
         \A f \in absorbed : \/ f \in autoremove \/ queued[f] > 0
                             \/ f \in sharedClaimed
    /\ phase = "drain" =>
         \A f \in absorbed \cap alive : queued[f] > 0 \/ f \in sharedClaimed
    /\ phase = "sweep" => absorbed \cap alive \subseteq sharedClaimed

LEMMA EmitAccounted ==
    ASSUME TypeOK, Accounted, phase = "match", phase' = phase,
           NEW m \in Mul, NEW f \in Fronts(design, m),
           NEW s \in Backs(design, m),
           NEW chain, chain = Chains(design, m, f, s, absorbed, sharedClaimed),
           NEW kept \in SUBSET Ports,
           Emit(m, f, s, chain, kept)
    PROVE  Accounted'
<1> SUFFICES ASSUME NEW c \in absorbed'
             PROVE  c \in autoremove' \/ queued'[c] > 0 \/ c \in sharedClaimed'
  BY DEF Accounted
<1>1. \A p \in Ports : chain[p].flops \subseteq Flop
  BY ChainsType DEF TypeOK, WalkSet
<1>2. CASE c \in absorbed
  BY <1>2 DEF Accounted, Emit, TypeOK
<1>3. CASE c \in MatchedFlops(f, s)
  <2>1. MatchedFlops(f, s) \subseteq MatchedCells(m, f, s)
    BY DEF MatchedFlops, MatchedCells
  <2> QED
    BY <1>3, <2>1 DEF Emit
<1>4. ASSUME c \notin absorbed \cup MatchedFlops(f, s),
             NEW p \in kept, c \in chain[p].flops
      PROVE  c \in sharedClaimed' \/ queued'[c] > 0
  <2>1. c \in Flop
    BY <1>1, <1>4
  <2>2. CASE \E q \in kept : c \in chain[q].flops /\ chain[q].copy
    BY <2>1, <2>2 DEF Emit
  <2>3. CASE \A q \in kept : c \in chain[q].flops => ~chain[q].copy
    <3>1. queued'[c] = queued[c] + 1
      BY <1>4, <2>1, <2>3 DEF Emit
    <3> QED
      BY <2>1, <3>1 DEF TypeOK
  <2> QED
    BY <2>2, <2>3
<1> QED
  BY <1>2, <1>3, <1>4 DEF Emit

(* When the pass is over, no register that a DSP holds a copy of stays in    *)
(* the module without a reader, through copies that only copies read.        *)
THEOREM NoUserlessCopyHolds == Spec => []NoUserlessCopy
<1> DEFINE I == Accounted /\ NoUserlessCopy
<1>1. Init => I
  BY DEF Init, Accounted, NoUserlessCopy
<1>2. TypeOK /\ I /\ [Next]_vars => I'
  <2> SUFFICES ASSUME TypeOK, I, [Next]_vars PROVE I'
    OBVIOUS
  <2>1. ASSUME NEW m \in Mul, Match(m) PROVE I'
    <3>1. phase = "match" /\ phase' = phase
      BY <2>1 DEF Match
    <3>2. PICK f \in Fronts(design, m), s \in Backs(design, m) :
            \E chain \in {Chains(design, m, f, s, absorbed, sharedClaimed)} :
              \E kept \in SUBSET {p \in Ports : chain[p].n > 0} :
                Emit(m, f, s, chain, kept)
      BY <2>1 DEF Match
    <3> DEFINE chain == Chains(design, m, f, s, absorbed, sharedClaimed)
    <3> HIDE DEF chain
    <3>3. PICK kept \in SUBSET Ports : Emit(m, f, s, chain, kept)
      <4>1. \E kept \in SUBSET {p \in Ports : chain[p].n > 0} :
              Emit(m, f, s, chain, kept)
        BY <3>2 DEF chain
      <4> QED
        BY <4>1
    <3> QED
      BY <3>1, <3>3, EmitAccounted DEF chain, NoUserlessCopy
  <2>2. ASSUME NEW m \in Mul, Leave(m) PROVE I'
    BY <2>2 DEF Leave, Accounted, NoUserlessCopy
  <2>3. CASE DestroyMatcher
    BY <2>3 DEF DestroyMatcher, Accounted, NoUserlessCopy
  <2>4. CASE DrainPending
    BY <2>4 DEF DrainPending, Accounted, NoUserlessCopy, TypeOK
  <2>5. CASE SweepPass
    BY <2>5 DEF SweepPass, Accounted, NoUserlessCopy
  <2>6. CASE SweepEnds
    <3>1. /\ absorbed \cap alive \subseteq sharedClaimed
          /\ \A c \in sharedClaimed : Y[c] \cap Read(design, alive, dsps) # {}
      BY <2>6 DEF SweepEnds, Accounted, Userless
    <3>2. UNCHANGED <<design, alive, absorbed, dsps>> /\ phase' = "done"
      BY <2>6 DEF SweepEnds
    <3>3. Read(design, alive, dsps)' = Read(design, alive, dsps)
      BY <3>2 DEF Read
    <3> QED
      BY <3>1, <3>2, <3>3 DEF Accounted, NoUserlessCopy
  <2>7. CASE UNCHANGED vars
    BY <2>7 DEF vars, Accounted, NoUserlessCopy, Read
  <2> QED
    BY <2>1, <2>2, <2>3, <2>4, <2>5, <2>6, <2>7 DEF Next, Stopped
<1> QED
  BY <1>1, <1>2, TypeCorrect, PTL DEF Spec
------------------------------------------------------------------------------
(* What a walk collects.  Src(d, sig, k) is what is behind k register stages *)
(* of a signal, provided there are that many (Regs).                         *)
Behind(d, sig) == {d.next[r] : r \in sig}
Src(d, sig, k) == CASE k = 0 -> sig
                    [] k = 1 -> Behind(d, sig)
                    [] k = 2 -> Behind(d, Behind(d, sig))
Regs(d, sig, k) == \A j \in 0..2 : j < k => Src(d, sig, j) \subseteq RegBit

(* A walk that took n stages took each of them whole, and knows of every     *)
(* reason to copy in them.                                                   *)
Collects(d, sig, w, claimed, shared) ==
    /\ w.n \in 0..2 /\ Regs(d, sig, w.n) /\ w.source = Src(d, sig, w.n)
    /\ \A i \in 1..w.n : \A g \in StageFlops(Src(d, sig, i - 1)) :
         /\ g \in w.flops /\ Takeable(d, g, claimed, shared)
         /\ Copies(d, g, Src(d, sig, i - 1), shared) => w.copy
    /\ \A c \in w.flops :
         \E i \in 1..w.n : c \in StageFlops(Src(d, sig, i - 1))

LEMMA SrcBehind ==
    ASSUME NEW d, NEW sig, NEW k \in 1..2
    PROVE  Src(d, sig, k) = Behind(d, Src(d, sig, k - 1))
<1>1. k = 1 \/ k = 2
  OBVIOUS
<1> QED
  BY <1>1 DEF Src

(* One turn takes the next stage, or nothing and the walk is over.           *)
LEMMA ExtendCases ==
    ASSUME NEW d, NEW w, NEW claimed, NEW shared, NEW v,
           v = Extend(d, w, claimed, shared)
    PROVE  \/ /\ ~v.on /\ v.n = w.n /\ v.flops = w.flops
              /\ v.source = w.source /\ (w.copy => v.copy)
           \/ /\ v.on /\ w.on /\ v.n = w.n + 1
              /\ v.flops = w.flops \cup StageFlops(w.source)
              /\ v.source = Behind(d, w.source) /\ w.source \subseteq RegBit
              /\ (w.copy => v.copy)
              /\ \A g \in StageFlops(w.source) :
                   /\ Takeable(d, g, claimed, shared)
                   /\ Copies(d, g, w.source, shared) => v.copy
  BY DEF Extend, Behind

LEMMA CollectsSame ==
    ASSUME NEW d, NEW sig, NEW w, NEW v, NEW claimed, NEW shared,
           Collects(d, sig, w, claimed, shared),
           v.n = w.n, v.flops = w.flops, v.source = w.source,
           w.copy => v.copy
    PROVE  Collects(d, sig, v, claimed, shared)
<1>1. \A i \in 1..v.n : \A g \in StageFlops(Src(d, sig, i - 1)) :
         /\ g \in v.flops /\ Takeable(d, g, claimed, shared)
         /\ Copies(d, g, Src(d, sig, i - 1), shared) => v.copy
  BY DEF Collects
<1> QED
  BY <1>1 DEF Collects

LEMMA CollectsNext ==
    ASSUME NEW d, NEW sig, NEW w, NEW claimed, NEW shared, NEW v,
           Collects(d, sig, w, claimed, shared), w.n \in 0..1,
           v = Extend(d, w, claimed, shared)
    PROVE  Collects(d, sig, v, claimed, shared) /\ v.n <= w.n + 1
<1>1. CASE /\ ~v.on /\ v.n = w.n /\ v.flops = w.flops
           /\ v.source = w.source /\ (w.copy => v.copy)
  <2>1. Collects(d, sig, v, claimed, shared)
    BY <1>1, CollectsSame
  <2> QED
    BY <1>1, <2>1
<1>2. CASE /\ v.on /\ w.on /\ v.n = w.n + 1
           /\ v.flops = w.flops \cup StageFlops(w.source)
           /\ v.source = Behind(d, w.source) /\ w.source \subseteq RegBit
           /\ (w.copy => v.copy)
           /\ \A g \in StageFlops(w.source) :
                /\ Takeable(d, g, claimed, shared)
                /\ Copies(d, g, w.source, shared) => v.copy
  <2> DEFINE n == w.n
  <2>1. n \in 0..1 /\ v.n = n + 1 /\ v.n \in 1..2 /\ v.n - 1 = n
    BY <1>2
  <2>2. w.source = Src(d, sig, n)
    BY DEF Collects
  <2>3. v.source = Src(d, sig, v.n)
    BY <1>2, <2>1, <2>2, SrcBehind
  <2>4. Regs(d, sig, v.n)
    <3> SUFFICES ASSUME NEW j \in 0..2, j < v.n
                 PROVE  Src(d, sig, j) \subseteq RegBit
      BY DEF Regs
    <3>1. CASE j < n
      BY <3>1 DEF Collects, Regs
    <3>2. CASE j = n
      BY <1>2, <2>2, <3>2
    <3> QED
      BY <2>1, <3>1, <3>2
  <2>5. ASSUME NEW i \in 1..v.n, NEW g \in StageFlops(Src(d, sig, i - 1))
        PROVE  /\ g \in v.flops /\ Takeable(d, g, claimed, shared)
               /\ Copies(d, g, Src(d, sig, i - 1), shared) => v.copy
    <3>1. CASE i \in 1..n
      BY <1>2, <2>5, <3>1 DEF Collects
    <3>2. CASE i = v.n
      BY <1>2, <2>1, <2>2, <2>5, <3>2
    <3> QED
      BY <2>1, <3>1, <3>2
  <2>6. ASSUME NEW c \in v.flops
        PROVE  \E i \in 1..v.n : c \in StageFlops(Src(d, sig, i - 1))
    <3>1. CASE c \in w.flops
      <4>1. PICK i \in 1..n : c \in StageFlops(Src(d, sig, i - 1))
        BY <3>1 DEF Collects
      <4>2. i \in 1..v.n
        BY <2>1
      <4> QED
        BY <4>1, <4>2
    <3>2. CASE c \in StageFlops(w.source)
      BY <2>1, <2>2, <3>2
    <3> QED
      BY <1>2, <3>1, <3>2
  <2> QED
    BY <2>1, <2>3, <2>4, <2>5, <2>6 DEF Collects
<1> QED
  BY <1>1, <1>2, ExtendCases

LEMMA WalkCollects ==
    ASSUME NEW d, NEW sig, NEW p, NEW claimed, NEW shared
    PROVE  /\ Collects(d, sig, Walk(d, sig, p, claimed, shared), claimed, shared)
           /\ p \notin Deep => Walk(d, sig, p, claimed, shared).n <= 1
           /\ Collects(d, sig, StartWalk(sig), claimed, shared)
           /\ StartWalk(sig).n = 0
<1>1. PICK start : start = StartWalk(sig)
  OBVIOUS
<1>2. PICK one : one = Extend(d, start, claimed, shared)
  OBVIOUS
<1>3. PICK two : two = Extend(d, one, claimed, shared)
  OBVIOUS
<1>4. start.n = 0 /\ start.flops = {} /\ start.source = sig
  BY <1>1 DEF StartWalk
<1>5. Collects(d, sig, start, claimed, shared)
  BY <1>4 DEF Collects, Src, Regs
<1>6. Collects(d, sig, one, claimed, shared) /\ one.n \in 0..1
  <2>1. Collects(d, sig, one, claimed, shared) /\ one.n <= 1
    BY <1>2, <1>4, <1>5, CollectsNext
  <2> QED
    BY <2>1 DEF Collects
<1>7. Collects(d, sig, two, claimed, shared)
  BY <1>3, <1>6, CollectsNext
<1>8. Walk(d, sig, p, claimed, shared) = IF p \in Deep THEN two ELSE one
  BY <1>1, <1>2, <1>3 DEF Walk
<1> QED
  BY <1>1, <1>4, <1>5, <1>6, <1>7, <1>8

(* Claims only shorten a walk.                                               *)
LEMMA WalkFree ==
    ASSUME NEW d, NEW sig, NEW p, NEW claimed, NEW shared,
           NEW c \in Walk(d, sig, p, claimed, shared).flops
    PROVE  c \in Walk(d, sig, p, {}, {}).flops
<1> DEFINE start == StartWalk(sig)
           one   == Extend(d, start, claimed, shared)
           two   == Extend(d, one, claimed, shared)
           one0  == Extend(d, start, {}, {})
           two0  == Extend(d, one0, {}, {})
<1>1. \A g : Takeable(d, g, claimed, shared) => Takeable(d, g, {}, {})
  BY DEF Takeable
<1>2. start.flops = {} /\ start.source = sig /\ start.on
  BY DEF StartWalk
<1>3. one.on => one0.on /\ one0.flops = one.flops /\ one0.source = one.source
  BY <1>1, <1>2 DEF Extend
<1>4. ~one.on => one.flops = {} /\ ~two.on /\ two.flops = {}
  BY <1>2 DEF Extend
<1>5. CASE one.on /\ two.on
  <2> HIDE DEF one, one0
  <2>1. two0.on /\ two0.flops = two.flops
    BY <1>1, <1>3, <1>5 DEF Extend
  <2> HIDE DEF two, two0
  <2> QED
    BY <1>3, <1>5, <2>1 DEF Walk, one, one0, two, two0
<1>6. CASE one.on /\ ~two.on
  <2>1. two.flops = one.flops /\ one0.flops \subseteq two0.flops
    <3> HIDE DEF one, one0
    <3> QED
      BY <1>6 DEF Extend
  <2> HIDE DEF one, one0, two, two0
  <2> QED
    BY <1>3, <1>6, <2>1 DEF Walk, one, one0, two, two0
<1>7. CASE ~one.on
  <2> HIDE DEF one, one0, two, two0
  <2> QED
    BY <1>4, <1>7 DEF Walk, one, one0, two, two0
<1> QED
  BY <1>5, <1>6, <1>7

------------------------------------------------------------------------------
(* For every regular wiring: no copied register is taken away, and every net *)
(* that is read keeps a driver.                                              *)

(* The cells an offered shape names.                                         *)
LEMMA ShapeTypes ==
    ASSUME NEW d \in DesignType, NEW m \in Mul, NEW f \in Fronts(d, m),
           NEW s \in Backs(d, m)
    PROVE  /\ f.ad \in Flop \cup {NoCell} /\ f.padd \in Add \cup {NoCell}
           /\ f.side \in {"A", "B"} /\ f.dport \in {"x", "y"}
           /\ s.mff \in Flop \cup {NoCell} /\ s.ff \in Flop \cup {NoCell}
           /\ s.add \in Add \cup {NoCell} /\ s.acc \in Add \cup {NoCell}
           /\ s.acc # NoCell => s.add # NoCell /\ s.acc # s.add
           /\ f.ad # NoCell => f.padd # NoCell
<1>1. f \in Front /\ s \in Back /\ AddersMatch(d, m, s)
  BY DEF Fronts, Backs
<1>2. f.ad # NoCell => f.padd # NoCell
  BY DEF Fronts
<1>3. s.acc # NoCell => s.add # NoCell /\ s.acc # s.add
  BY <1>1 DEF AddersMatch
<1> QED
  BY <1>1, <1>2, <1>3 DEF Front, Back, CellOrNone

LEMMA CellsApart ==
    /\ \A c \in Mul \cup Add \cup Flop : c # NoCell
    /\ \A c \in Mul : c \notin Add /\ c \notin Flop
    /\ \A c \in Add : c \notin Mul /\ c \notin Flop
    /\ \A c \in Flop : c \notin Mul /\ c \notin Add
  BY CellsAssumption DEF Cell

LEMMA FrontCases ==
    ASSUME NEW d \in DesignType, NEW m \in Mul, NEW f \in Fronts(d, m)
    PROVE  \/ f.padd = NoCell /\ f.ad = NoCell
           \/ /\ f.padd # NoCell /\ f.ad = NoCell
              /\ Y[f.padd] \subseteq Operand(d, m, f.side)
              /\ SoleReader(d, Y[f.padd], m)
           \/ /\ f.padd # NoCell /\ f.ad # NoCell
              /\ SoleReader(d, Y[f.ad], m)
              /\ Y[f.padd] \subseteq D(d, f.ad)
              /\ SoleReader(d, Y[f.padd], f.ad)
<1>1. d.bankable \subseteq Flop
  BY DEF DesignType
<1> QED
  BY <1>1, CellsApart DEF Fronts

------------------------------------------------------------------------------
(* Who reads an operand of an offered shape.                                 *)

CellReads(d, e, b) ==
    \/ e \in Mul /\ b \in d.a[e] \cup d.b[e]
    \/ e \in Add /\ b \in d.x[e] \cup d.y[e]

LEMMA Reads ==
    ASSUME NEW d, NEW sig, NEW b \in sig
    PROVE  /\ \A e : CellReads(d, e, b) => e \in Readers(d, sig)
           /\ \A g \in Flop : b \in D(d, g) => g \in Readers(d, sig)
  BY DEF CellReads, Readers

(* The matched cells that read the signal emit() puts on a port.             *)
PortCells(m, f, s, p) ==
    CASE p = "C" -> {s.add, s.acc} \ {NoCell}
      [] p # "C" /\ f.padd # NoCell /\ p # OtherSide(f.side) -> {f.padd}
      [] OTHER -> {m}

LEMMA PortReader ==
    ASSUME NEW d \in DesignType, NEW m \in Mul, NEW f \in Fronts(d, m),
           NEW s \in Backs(d, m), NEW p \in Ports,
           NEW b \in PortSignal(d, m, f, s, p)
    PROVE  \E e \in PortCells(m, f, s, p) : CellReads(d, e, b)
<1>1. CASE p = "C"
  <2>1. b \in COperand(d, m, s)
    BY <1>1 DEF PortSignal, Deep
  <2>2. \/ s.add # NoCell /\ b \in AddOther(d, m, s)
        \/ s.acc # NoCell /\ b \in AccOther(d, s)
    BY <2>1, ShapeTypes DEF COperand
  <2>3. \/ s.add # NoCell /\ CellReads(d, s.add, b)
        \/ s.acc # NoCell /\ CellReads(d, s.acc, b)
    BY <2>2, ShapeTypes DEF AddOther, AccOther, CellReads
  <2> QED
    BY <1>1, <2>3 DEF PortCells
<1>2. CASE p = "D"
  <2>1. f.padd # NoCell /\ b \in AddPort(d, f.padd, f.dport)
    BY <1>2 DEF PortSignal, Deep
  <2>2. CellReads(d, f.padd, b)
    BY <2>1, ShapeTypes DEF AddPort, CellReads
  <2> QED
    BY <1>2, <2>1, <2>2 DEF PortCells, OtherSide
<1>3. CASE p \in Deep /\ f.padd # NoCell /\ p = f.side
  <2>1. b \in AddPort(d, f.padd, OtherPort(f.dport))
    BY <1>3 DEF PortSignal, Deep
  <2>2. CellReads(d, f.padd, b)
    BY <1>3, <2>1, ShapeTypes DEF AddPort, CellReads
  <2> QED
    BY <1>3, <2>2 DEF PortCells, OtherSide, Deep
<1>4. CASE p \in Deep /\ ~(f.padd # NoCell /\ p = f.side)
  <2>1. b \in Operand(d, m, p)
    BY <1>4 DEF PortSignal, Deep
  <2>2. CellReads(d, m, b)
    BY <2>1 DEF Operand, CellReads
  <2>3. PortCells(m, f, s, p) = {m}
    BY <1>4, ShapeTypes DEF PortCells, OtherSide, Deep
  <2> QED
    BY <2>2, <2>3
<1> QED
  BY <1>1, <1>2, <1>3, <1>4 DEF Ports, Deep

LEMMA PortCellsMatched ==
    ASSUME NEW d \in DesignType, NEW m \in Mul, NEW f \in Fronts(d, m),
           NEW s \in Backs(d, m), NEW p \in Ports
    PROVE  /\ PortCells(m, f, s, p) \subseteq MatchedCells(m, f, s)
           /\ PortCells(m, f, s, p) \cap Flop = {}
<1>1. /\ s.add \in Add \cup {NoCell} /\ s.acc \in Add \cup {NoCell}
      /\ f.padd \in Add \cup {NoCell}
  BY ShapeTypes
<1>2. ASSUME NEW e \in {s.add, s.acc, f.padd, m}, e # NoCell
      PROVE  e \in MatchedCells(m, f, s) /\ e \notin Flop
  <2>1. e \in Add \cup Mul
    BY <1>1, <1>2
  <2>2. e \notin Flop
    BY <2>1, CellsApart
  <2>3. e \in MatchedCells(m, f, s)
    BY <1>2 DEF MatchedCells
  <2> QED
    BY <2>2, <2>3
<1>3. m # NoCell
  BY CellsApart
<1> QED
  BY <1>2, <1>3 DEF PortCells

(* The pre-adder is neither of the two adders behind the multiplier.         *)
LEMMA PreadderApart ==
    ASSUME NEW d \in DesignType, ~UnreadLoop(d), NEW m \in Mul,
           NEW f \in Fronts(d, m), NEW s \in Backs(d, m), f.padd # NoCell
    PROVE  f.padd # s.add /\ f.padd # s.acc
<1>1. f.padd # s.add
  BY DEF UnreadLoop
<1>2. ASSUME f.padd = s.acc PROVE FALSE
  <2>1. /\ s.add # NoCell /\ s.ff # NoCell
        /\ AddOther(d, m, s) = Y[s.ff] \/ AccOther(d, s) = Y[s.ff]
    BY <1>2 DEF Backs, AddersMatch, FeedbackOnAdd, FeedbackOnAcc
  <2>2. SoleReader(d, Y[f.padd], s.ff)
    BY <1>2, <2>1 DEF Backs, ResultRegisterMatches, Result
  <2>3. PICK b : b \in Y[f.padd]
    BY ShapeTypes, CellsAssumption DEF Cell
  <2>4. CASE f.ad = NoCell
    <3>1. b \in Operand(d, m, f.side)
      BY <2>3, <2>4, FrontCases
    <3>2. m \in Readers(d, Y[f.padd])
      BY <2>3, <3>1, Reads DEF CellReads, Operand
    <3> QED
      BY <2>1, <2>2, <3>2, ShapeTypes, CellsApart DEF SoleReader
  <2>5. CASE f.ad # NoCell
    <3>1. b \in D(d, f.ad) /\ SoleReader(d, Y[f.ad], m)
      BY <2>3, <2>5, FrontCases
    <3>2. f.ad \in Readers(d, Y[f.padd])
      BY <2>3, <2>5, <3>1, Reads, ShapeTypes
    <3>3. f.ad = s.ff
      BY <2>2, <3>2 DEF SoleReader
    <3>4. PICK e \in Y[s.ff] : TRUE
      BY <2>1, ShapeTypes, CellsAssumption DEF Cell
    <3>5. CellReads(d, s.add, e) \/ CellReads(d, s.acc, e)
      BY <1>2, <2>1, <3>4, ShapeTypes DEF AddOther, AccOther, CellReads
    <3>6. s.add \in Readers(d, Y[s.ff]) \/ s.acc \in Readers(d, Y[s.ff])
      BY <3>4, <3>5, Reads
    <3> QED
      BY <1>2, <2>1, <3>1, <3>3, <3>6, ShapeTypes, CellsApart DEF SoleReader
  <2> QED
    BY <2>4, <2>5
<1> QED
  BY <1>1, <1>2

------------------------------------------------------------------------------
(* A register with one reader has one place: on which port, behind how many  *)
(* stages.                                                                   *)

(* The places at which the matched cells name the signal of a port.          *)
PortUses(m, f, s, p) ==
    CASE p = "C" -> {<<u, e>> : u \in {"x", "y"}, e \in {s.add, s.acc}}
      [] p = "D" -> {<<f.dport, f.padd>>}
      [] p \in Deep -> IF f.padd # NoCell /\ p = f.side
                       THEN {<<OtherPort(f.dport), f.padd>>}
                       ELSE {<<IF p = "A" THEN "a" ELSE "b", m>>}

LEMMA NamedByCell ==
    ASSUME NEW d, NEW b
    PROVE  /\ \A m \in Mul : b \in d.a[m] => <<"a", m>> \in Uses(d, b)
           /\ \A m \in Mul : b \in d.b[m] => <<"b", m>> \in Uses(d, b)
           /\ \A e \in Add : b \in d.x[e] => <<"x", e>> \in Uses(d, b)
           /\ \A e \in Add : b \in d.y[e] => <<"y", e>> \in Uses(d, b)
           /\ \A r \in RegBit : b = d.next[r] => <<"d", r>> \in Uses(d, b)
  BY DEF Uses

LEMMA PortUsed ==
    ASSUME NEW d \in DesignType, NEW m \in Mul, NEW f \in Fronts(d, m),
           NEW s \in Backs(d, m), NEW p \in Ports,
           NEW b \in PortSignal(d, m, f, s, p)
    PROVE  \E u \in PortUses(m, f, s, p) : u \in Uses(d, b)
<1>1. CASE p = "C"
  <2>1. b \in COperand(d, m, s)
    BY <1>1 DEF PortSignal, Deep
  <2>2. \/ s.add # NoCell /\ b \in AddOther(d, m, s)
        \/ s.acc # NoCell /\ b \in AccOther(d, s)
    BY <2>1, ShapeTypes DEF COperand
  <2>3. PICK e \in Add : /\ e \in {s.add, s.acc}
                         /\ b \in d.x[e] \/ b \in d.y[e]
    BY <2>2, ShapeTypes DEF AddOther, AccOther
  <2>4. <<"x", e>> \in Uses(d, b) \/ <<"y", e>> \in Uses(d, b)
    BY <2>3, NamedByCell
  <2>5. <<"x", e>> \in PortUses(m, f, s, p) /\ <<"y", e>> \in PortUses(m, f, s, p)
    BY <1>1, <2>3 DEF PortUses, Deep
  <2> QED
    BY <2>4, <2>5
<1>2. CASE p = "D"
  <2>1. f.padd \in Add /\ b \in AddPort(d, f.padd, f.dport)
    BY <1>2, ShapeTypes DEF PortSignal, Deep
  <2>2. <<f.dport, f.padd>> \in Uses(d, b)
    BY <2>1, ShapeTypes, NamedByCell DEF AddPort
  <2> QED
    BY <1>2, <2>2 DEF PortUses, Deep
<1>3. CASE p \in Deep /\ f.padd # NoCell /\ p = f.side
  <2>1. f.padd \in Add /\ b \in AddPort(d, f.padd, OtherPort(f.dport))
    BY <1>3, ShapeTypes DEF PortSignal, Deep
  <2>2. <<OtherPort(f.dport), f.padd>> \in Uses(d, b)
    BY <2>1, ShapeTypes, NamedByCell DEF AddPort, OtherPort
  <2> QED
    BY <1>3, <2>2 DEF PortUses, Deep
<1>4. CASE p \in Deep /\ ~(f.padd # NoCell /\ p = f.side)
  <2>1. b \in Operand(d, m, p)
    BY <1>4 DEF PortSignal, Deep
  <2>2. <<IF p = "A" THEN "a" ELSE "b", m>> \in Uses(d, b)
    BY <2>1, NamedByCell DEF Operand
  <2> QED
    BY <1>4, <2>2 DEF PortUses, Deep
<1> QED
  BY <1>1, <1>2, <1>3, <1>4 DEF Ports, Deep

LEMMA PortUsesApart ==
    ASSUME NEW d \in DesignType, ~UnreadLoop(d), NEW m \in Mul,
           NEW f \in Fronts(d, m), NEW s \in Backs(d, m),
           NEW p \in Ports, NEW q \in Ports, p # q,
           PortSignal(d, m, f, s, p) # {}, PortSignal(d, m, f, s, q) # {}
    PROVE  PortUses(m, f, s, p) \cap PortUses(m, f, s, q) = {}
<1>1. f.dport \in {"x", "y"} /\ OtherPort(f.dport) \in {"x", "y"} \ {f.dport}
  BY ShapeTypes DEF OtherPort
<1>2. PortUses(m, f, s, "C") = {<<u, e>> : u \in {"x", "y"}, e \in {s.add, s.acc}}
  BY DEF PortUses, Deep
<1>3. PortUses(m, f, s, "D") = {<<f.dport, f.padd>>}
  BY DEF PortUses, Deep
<1>4. PortSignal(d, m, f, s, "D") # {} => f.padd # NoCell
  BY DEF PortSignal, Deep
<1>5. \/ /\ f.padd # NoCell
         /\ PortUses(m, f, s, "A") = {<<OtherPort(f.dport), f.padd>>}
         /\ PortUses(m, f, s, "B") = {<<"b", m>>}
      \/ /\ f.padd # NoCell
         /\ PortUses(m, f, s, "A") = {<<"a", m>>}
         /\ PortUses(m, f, s, "B") = {<<OtherPort(f.dport), f.padd>>}
      \/ /\ PortUses(m, f, s, "A") = {<<"a", m>>}
         /\ PortUses(m, f, s, "B") = {<<"b", m>>}
  BY ShapeTypes DEF PortUses, Deep
<1>6. f.padd # NoCell => f.padd # s.add /\ f.padd # s.acc
  BY PreadderApart
<1>7. \A u, v, e, g : <<u, e>> = <<v, g>> => u = v /\ e = g
  OBVIOUS
<1> QED
  BY <1>1, <1>2, <1>3, <1>4, <1>5, <1>6, <1>7 DEF Ports

(* A place on a port is not the D input of a register.                       *)
LEMMA PortUsesNotData ==
    ASSUME NEW m, NEW f, f.dport \in {"x", "y"}, NEW s, NEW p \in Ports,
           NEW u \in PortUses(m, f, s, p), NEW r
    PROVE  u # <<"d", r>>
<1>1. PICK v, e : u = <<v, e>> /\ v \in {"a", "b", "x", "y"}
  BY DEF PortUses, Ports, Deep, OtherPort
<1> QED
  BY <1>1

LEMMA BehindUsed ==
    ASSUME NEW d, NEW sig, sig \subseteq RegBit, NEW b \in Behind(d, sig)
    PROVE  \E r \in sig : b = d.next[r] /\ <<"d", r>> \in Uses(d, b)
  BY NamedByCell DEF Behind

LEMMA OneUse ==
    ASSUME NEW d, NEW c, ~HasOtherReaders(d, c), NEW b \in Y[c],
           NEW u \in Uses(d, b), NEW v \in Uses(d, b)
    PROVE  u = v
  BY DEF HasOtherReaders

LEMMA OnlyWayPort ==
    ASSUME NEW d \in DesignType, ~UnreadLoop(d), NEW m \in Mul,
           NEW f \in Fronts(d, m), NEW s \in Backs(d, m),
           NEW c \in Flop, ~HasOtherReaders(d, c), NEW b \in Y[c],
           NEW p \in Ports, b \in PortSignal(d, m, f, s, p),
           NEW q \in Ports, NEW k \in 0..2,
           b \in Src(d, PortSignal(d, m, f, s, q), k),
           Regs(d, PortSignal(d, m, f, s, q), k)
    PROVE  q = p /\ k = 0
<1>1. PICK u \in PortUses(m, f, s, p) : u \in Uses(d, b)
  BY PortUsed
<1>2. CASE k = 0
  <2>1. b \in PortSignal(d, m, f, s, q)
    BY <1>2 DEF Src
  <2>2. PICK v \in PortUses(m, f, s, q) : v \in Uses(d, b)
    BY <2>1, PortUsed
  <2>3. u = v
    BY <1>1, <2>2, OneUse
  <2> QED
    BY <1>2, <2>1, <2>2, <2>3, PortUsesApart
<1>3. CASE k \in 1..2
  <2>1. b \in Behind(d, Src(d, PortSignal(d, m, f, s, q), k - 1))
    BY <1>3, SrcBehind
  <2>2. Src(d, PortSignal(d, m, f, s, q), k - 1) \subseteq RegBit
    BY <1>3 DEF Regs
  <2>3. PICK r : <<"d", r>> \in Uses(d, b)
    BY <2>1, <2>2, BehindUsed
  <2>4. u = <<"d", r>>
    BY <1>1, <2>3, OneUse
  <2> QED
    BY <1>1, <2>4, ShapeTypes, PortUsesNotData
<1> QED
  BY <1>2, <1>3

LEMMA OnlyWay ==
    ASSUME NEW d \in DesignType, ~UnreadLoop(d), NEW m \in Mul,
           NEW f \in Fronts(d, m), NEW s \in Backs(d, m),
           NEW p \in Ports, NEW i \in 1..2,
           Regs(d, PortSignal(d, m, f, s, p), i),
           \A j \in 1..i :
             \A g \in StageFlops(Src(d, PortSignal(d, m, f, s, p), j - 1)) :
               ~HasOtherReaders(d, g),
           NEW b \in Src(d, PortSignal(d, m, f, s, p), i - 1),
           NEW q \in Ports, NEW k \in 0..2,
           b \in Src(d, PortSignal(d, m, f, s, q), k),
           Regs(d, PortSignal(d, m, f, s, q), k)
    PROVE  q = p /\ k = i - 1
<1>1. \A j \in 1..i : \A r \in Src(d, PortSignal(d, m, f, s, p), j - 1) :
        \E g \in Flop : r \in Y[g] /\ ~HasOtherReaders(d, g)
  <2> SUFFICES ASSUME NEW j \in 1..i,
                      NEW r \in Src(d, PortSignal(d, m, f, s, p), j - 1)
               PROVE  \E g \in Flop : r \in Y[g] /\ ~HasOtherReaders(d, g)
    OBVIOUS
  <2>1. r \in RegBit
    BY DEF Regs
  <2>2. PICK g \in Flop : r \in Y[g]
    BY <2>1 DEF RegBit
  <2>3. g \in StageFlops(Src(d, PortSignal(d, m, f, s, p), j - 1))
    BY <2>2 DEF StageFlops
  <2> QED
    BY <2>2, <2>3
<1>2. PICK c \in Flop : b \in Y[c] /\ ~HasOtherReaders(d, c)
  BY <1>1
<1>3. CASE i = 1
  <2>1. b \in PortSignal(d, m, f, s, p)
    BY <1>3 DEF Src
  <2> QED
    BY <1>2, <1>3, <2>1, OnlyWayPort
<1>4. CASE i = 2
  <2>1. b \in Behind(d, PortSignal(d, m, f, s, p))
    BY <1>4 DEF Src
  <2>2. PortSignal(d, m, f, s, p) \subseteq RegBit
    <3>1. Src(d, PortSignal(d, m, f, s, p), 0) \subseteq RegBit
      BY <1>4 DEF Regs
    <3> QED
      BY <3>1 DEF Src
  <2>3. PICK r \in PortSignal(d, m, f, s, p) : <<"d", r>> \in Uses(d, b)
    BY <2>1, <2>2, BehindUsed
  <2>4. PICK g \in Flop : r \in Y[g] /\ ~HasOtherReaders(d, g)
    <3>1. r \in Src(d, PortSignal(d, m, f, s, p), 1 - 1)
      BY <2>3 DEF Src
    <3> QED
      BY <1>1, <1>4, <3>1
  <2>5. CASE k = 0
    <3>1. b \in PortSignal(d, m, f, s, q)
      BY <2>5 DEF Src
    <3>2. PICK v \in PortUses(m, f, s, q) : v \in Uses(d, b)
      BY <3>1, PortUsed
    <3>3. v = <<"d", r>>
      BY <1>2, <2>3, <3>2, OneUse
    <3> QED
      BY <3>2, <3>3, ShapeTypes, PortUsesNotData
  <2>6. CASE k \in 1..2
    <3>1. b \in Behind(d, Src(d, PortSignal(d, m, f, s, q), k - 1))
      BY <2>6, SrcBehind
    <3>2. Src(d, PortSignal(d, m, f, s, q), k - 1) \subseteq RegBit
      BY <2>6 DEF Regs
    <3>3. PICK t \in Src(d, PortSignal(d, m, f, s, q), k - 1) :
            <<"d", t>> \in Uses(d, b)
      BY <3>1, <3>2, BehindUsed
    <3>4. <<"d", t>> = <<"d", r>>
      BY <1>2, <2>3, <3>3, OneUse
    <3>5. r \in Src(d, PortSignal(d, m, f, s, q), k - 1)
      BY <3>3, <3>4
    <3>6. k - 1 \in 0..2 /\ Regs(d, PortSignal(d, m, f, s, q), k - 1)
      BY <2>6 DEF Regs
    <3>7. q = p /\ k - 1 = 0
      BY <2>3, <2>4, <3>5, <3>6, OnlyWayPort
    <3> QED
      BY <1>4, <2>6, <3>7
  <2> QED
    BY <2>5, <2>6
<1> QED
  BY <1>3, <1>4

------------------------------------------------------------------------------
(* The operand registers of an offer are none of its matched registers.      *)

LEMMA ChainFacts ==
    ASSUME NEW d, NEW m, NEW f, NEW s, NEW claimed, NEW shared,
           NEW p \in Ports, NEW ch,
           ch = Chains(d, m, f, s, claimed, shared)[p]
    PROVE  /\ Collects(d, PortSignal(d, m, f, s, p), ch, claimed, shared)
           /\ p = "C" => \A c \in ch.flops : D(d, c) # Result(m, s)
           /\ ch.flops \subseteq Walk(d, PortSignal(d, m, f, s, p), p, {}, {}).flops
<1>1. PICK sig : sig = PortSignal(d, m, f, s, p)
  OBVIOUS
<1>2. PICK w : w = Walk(d, sig, p, claimed, shared)
  OBVIOUS
<1>3. Collects(d, sig, w, claimed, shared)
  BY <1>2, WalkCollects
<1>4. Collects(d, sig, StartWalk(sig), claimed, shared)
  BY WalkCollects
<1>5. w.flops \subseteq Walk(d, sig, p, {}, {}).flops
  BY <1>2, WalkFree
<1>6. StartWalk(sig).flops = {}
  BY DEF StartWalk
<1>7. ch = IF p = "C" /\ \E c \in w.flops : D(d, c) = Result(m, s)
           THEN StartWalk(sig) ELSE w
  BY <1>1, <1>2 DEF Chains, Chain, Ports
<1> QED
  BY <1>1, <1>3, <1>4, <1>5, <1>6, <1>7

(* Behind every bit of a chain's source is the port, or a register of it.    *)
LEMMA SourceReader ==
    ASSUME NEW d, NEW sig, NEW ch, NEW claimed, NEW shared,
           Collects(d, sig, ch, claimed, shared),
           NEW k \in 0..ch.n, NEW b \in Src(d, sig, k)
    PROVE  \/ k = 0 /\ b \in sig
           \/ /\ k > 0
              /\ \E g \in Flop : /\ g \in StageFlops(Src(d, sig, k - 1))
                                 /\ g \in ch.flops /\ b \in D(d, g)
<1>1. ch.n \in 0..2
  BY DEF Collects
<1>2. CASE k = 0
  BY <1>2 DEF Src
<1>3. CASE k > 0
  <2>1. k \in 1..2 /\ k \in 1..ch.n
    BY <1>1, <1>3
  <2>2. PICK r \in Src(d, sig, k - 1) : b = d.next[r]
    BY <2>1, SrcBehind DEF Behind
  <2>3. Src(d, sig, k - 1) \subseteq RegBit
    BY <2>1 DEF Collects, Regs
  <2>4. PICK g \in Flop : r \in Y[g]
    BY <2>2, <2>3 DEF RegBit
  <2>5. g \in StageFlops(Src(d, sig, k - 1))
    BY <2>2, <2>4 DEF StageFlops
  <2>6. g \in ch.flops
    BY <2>1, <2>5 DEF Collects
  <2>7. b \in D(d, g)
    BY <2>2, <2>4 DEF D
  <2> QED
    BY <1>3, <2>5, <2>6, <2>7
<1> QED
  BY <1>1, <1>2, <1>3

LEMMA FlopReader ==
    ASSUME NEW d, NEW sig, NEW ch, NEW claimed, NEW shared,
           Collects(d, sig, ch, claimed, shared), NEW c \in ch.flops
    PROVE  /\ c \in Flop
           /\ \E b \in Y[c] : b \in sig \/ \E g \in ch.flops \cap Flop : b \in D(d, g)
<1>1. PICK i \in 1..ch.n : c \in StageFlops(Src(d, sig, i - 1))
  BY DEF Collects
<1>2. c \in Flop
  BY <1>1 DEF StageFlops
<1>3. PICK b \in Y[c] : b \in Src(d, sig, i - 1)
  BY <1>1 DEF StageFlops
<1>4. i - 1 \in 0..ch.n
  BY DEF Collects
<1> QED
  BY <1>2, <1>3, <1>4, SourceReader

(* No port takes a net that one adder behind the multiplier reads and C may  *)
(* not take.                                                                 *)
LEMMA AdderNetPrivate ==
    ASSUME NEW d \in DesignType, ~UnreadLoop(d), NEW m \in Mul,
           NEW f \in Fronts(d, m), NEW s \in Backs(d, m), NEW p \in Ports,
           NEW c \in Cell, NEW e \in {s.add, s.acc}, e # NoCell,
           SoleReader(d, Y[c], e), Y[c] \subseteq Swallowed(m, s)
    PROVE  Y[c] \cap PortSignal(d, m, f, s, p) = {}
<1> SUFFICES ASSUME NEW b \in Y[c], b \in PortSignal(d, m, f, s, p) PROVE FALSE
  OBVIOUS
<1>1. CASE p = "C"
  <2>1. b \in COperand(d, m, s)
    BY <1>1 DEF PortSignal, Deep
  <2>2. s.add # NoCell
    BY ShapeTypes
  <2>3. COperand(d, m, s) \cap Swallowed(m, s) = {}
    BY <2>2 DEF Backs, AddersMatch
  <2> QED
    BY <2>1, <2>3
<1>2. CASE p # "C"
  <2>1. PICK g \in PortCells(m, f, s, p) : CellReads(d, g, b)
    BY PortReader
  <2>2. g = e
    BY <2>1, Reads DEF SoleReader
  <2>3. g = m \/ (f.padd # NoCell /\ g = f.padd)
    BY <1>2, <2>1 DEF PortCells
  <2> QED
    BY <2>2, <2>3, ShapeTypes, CellsApart, PreadderApart
<1> QED
  BY <1>1, <1>2

(* Nor one that only a register reads.                                       *)
LEMMA FlopNetPrivate ==
    ASSUME NEW d \in DesignType, NEW m \in Mul,
           NEW f \in Fronts(d, m), NEW s \in Backs(d, m), NEW p \in Ports,
           NEW c \in Cell, NEW e \in Flop, SoleReader(d, Y[c], e)
    PROVE  Y[c] \cap PortSignal(d, m, f, s, p) = {}
<1> SUFFICES ASSUME NEW b \in Y[c], b \in PortSignal(d, m, f, s, p) PROVE FALSE
  OBVIOUS
<1>1. PICK g \in PortCells(m, f, s, p) : CellReads(d, g, b)
  BY PortReader
<1>2. g = e
  BY <1>1, Reads DEF SoleReader
<1> QED
  BY <1>1, <1>2, PortCellsMatched

(* Nor, unless it squares, the sum before the multiplier.                    *)
LEMMA SumPrivate ==
    ASSUME NEW d \in DesignType, ~HalfSquared(d), NEW m \in Mul,
           NEW f \in Fronts(d, m), NEW s \in Backs(d, m), NEW p \in Ports,
           f.padd # NoCell, NEW c \in Cell,
           c = f.ad \/ (f.ad = NoCell /\ c = f.padd),
           SoleReader(d, Y[c], m)
    PROVE  Y[c] \cap PortSignal(d, m, f, s, p) = {}
<1> SUFFICES ASSUME NEW b \in Y[c], b \in PortSignal(d, m, f, s, p) PROVE FALSE
  OBVIOUS
<1>1. PICK g \in PortCells(m, f, s, p) : CellReads(d, g, b)
  BY PortReader
<1>2. g = m
  BY <1>1, Reads DEF SoleReader
<1>3. p = OtherSide(f.side) /\ p \in Deep /\ p # f.side
  BY <1>1, <1>2, ShapeTypes, CellsApart DEF PortCells, OtherSide, Deep
<1>4. b \in Operand(d, m, OtherSide(f.side))
  BY <1>3 DEF PortSignal, Deep
<1>5. b \in Y[f.padd] \cup (IF f.ad = NoCell THEN {} ELSE Y[f.ad])
  BY CellsApart DEF Cell
<1> QED
  BY <1>4, <1>5 DEF HalfSquared

(* The single readers the pattern asks for behind the multiplier.            *)
LEMMA BackReaders ==
    ASSUME NEW d, NEW m \in Mul, NEW s \in Backs(d, m)
    PROVE  /\ s.ff # NoCell /\ (s.add # NoCell \/ s.mff = NoCell) =>
                D(d, s.ff) = Result(m, s) /\ SoleReader(d, Result(m, s), s.ff)
           /\ s.mff # NoCell => SoleReader(d, Y[m], s.mff)
           /\ s.mff # NoCell /\ s.add = NoCell =>
                s.ff # NoCell /\ SoleReader(d, Y[s.mff], s.ff)
           /\ s.add # NoCell => SoleReader(d, Product(m, s), s.add)
           /\ s.acc # NoCell => SoleReader(d, Y[s.add], s.acc)
           /\ s.add = NoCell => s.acc = NoCell
  BY DEF Backs, ResultRegisterMatches, MRegisterMatches, AddersMatch

LEMMA OwnFlopsApart ==
    ASSUME NEW d \in DesignType, Regular(d), NEW m \in Mul,
           NEW f \in Fronts(d, m), NEW s \in Backs(d, m),
           NEW claimed, NEW shared, NEW p \in Ports, NEW ch,
           ch = Chains(d, m, f, s, claimed, shared)[p], NEW c \in ch.flops
    PROVE  c \notin MatchedFlops(f, s)
<1> DEFINE sig == PortSignal(d, m, f, s, p)
<1>1. Collects(d, sig, ch, claimed, shared)
  BY ChainFacts
<1> HIDE DEF sig
<1>2. \A g \in ch.flops :
        /\ g \in Flop
        /\ \E b \in Y[g] : b \in sig \/ \E e \in ch.flops \cap Flop : b \in D(d, e)
  BY <1>1, FlopReader
<1>3. ~SelfFed(d) /\ ~HalfSquared(d) /\ ~UnreadLoop(d)
  BY DEF Regular
<1>4. s.add = NoCell => COperand(d, m, s) = {}
  BY BackReaders DEF COperand
<1>5. ASSUME p = "C", s.add = NoCell PROVE ch.flops = {}
  <2>1. sig = {}
    BY <1>4, <1>5 DEF sig, PortSignal, Deep
  <2>2. Behind(d, sig) = {}
    BY <2>1 DEF Behind
  <2>3. \A k \in 0..2 : Src(d, sig, k) = {}
    BY <2>1, <2>2 DEF Src
  <2>4. ASSUME NEW g \in ch.flops PROVE FALSE
    <3>1. PICK i \in 1..ch.n : g \in StageFlops(Src(d, sig, i - 1))
      BY <1>1 DEF Collects
    <3>2. i - 1 \in 0..2
      BY <1>1 DEF Collects
    <3> QED
      BY <2>3, <3>1, <3>2 DEF StageFlops
  <2> QED
    BY <2>4
<1>6. s.ff # NoCell => s.ff \notin ch.flops
  <2> SUFFICES ASSUME s.ff # NoCell, s.ff \in ch.flops PROVE FALSE
    OBVIOUS
  <2>1. CASE p # "C"
    BY <1>3, <2>1, ChainFacts DEF SelfFed
  <2>2. CASE p = "C"
    <3>1. s.add # NoCell
      BY <1>5, <2>2
    <3> QED
      BY <2>2, <3>1, BackReaders, ChainFacts
  <2> QED
    BY <2>1, <2>2
<1>7. s.mff # NoCell => s.mff \notin ch.flops
  <2> SUFFICES ASSUME s.mff # NoCell, s.mff \in ch.flops PROVE FALSE
    OBVIOUS
  <2>1. PICK b \in Y[s.mff] :
          b \in sig \/ \E e \in ch.flops \cap Flop : b \in D(d, e)
    BY <1>2
  <2>2. s.mff \in Cell
    BY ShapeTypes DEF Cell
  <2>3. CASE s.add # NoCell
    <3>1. SoleReader(d, Y[s.mff], s.add) /\ Y[s.mff] \subseteq Swallowed(m, s)
      BY <2>3, BackReaders DEF Product, Swallowed
    <3>2. b \notin sig
      BY <1>3, <2>1, <2>2, <2>3, <3>1, AdderNetPrivate DEF sig
    <3>3. PICK e \in Flop : b \in D(d, e)
      BY <2>1, <3>2
    <3>4. e = s.add
      BY <2>1, <3>1, <3>3, Reads DEF SoleReader
    <3> QED
      BY <2>3, <3>4, ShapeTypes, CellsApart
  <2>4. CASE s.add = NoCell
    <3>1. s.ff \in Flop /\ s.ff # NoCell /\ SoleReader(d, Y[s.mff], s.ff)
      BY <2>4, BackReaders, ShapeTypes
    <3>2. b \notin sig
      BY <2>1, <2>2, <3>1, FlopNetPrivate DEF sig
    <3>3. PICK e \in ch.flops : e \in Flop /\ b \in D(d, e)
      BY <2>1, <3>2
    <3>4. e = s.ff
      BY <2>1, <3>1, <3>3, Reads DEF SoleReader
    <3> QED
      BY <1>6, <3>1, <3>3, <3>4
  <2> QED
    BY <2>3, <2>4
<1>8. f.ad # NoCell => f.ad \notin ch.flops
  <2> SUFFICES ASSUME f.ad # NoCell, f.ad \in ch.flops PROVE FALSE
    OBVIOUS
  <2>1. PICK b \in Y[f.ad] :
          b \in sig \/ \E e \in ch.flops \cap Flop : b \in D(d, e)
    BY <1>2
  <2>2. f.padd # NoCell /\ SoleReader(d, Y[f.ad], m) /\ f.ad \in Cell
    BY FrontCases, ShapeTypes DEF Cell
  <2>3. b \notin sig
    BY <1>3, <2>1, <2>2, SumPrivate DEF sig
  <2>4. PICK e \in Flop : b \in D(d, e)
    BY <2>1, <2>3
  <2>5. e = m
    BY <2>1, <2>2, <2>4, Reads DEF SoleReader
  <2> QED
    BY <2>5, CellsApart
<1> QED
  BY <1>6, <1>7, <1>8 DEF MatchedFlops

(* A matched net is driven by the DSP, or one matched cell alone reads it    *)
(* and no port takes it.                                                     *)
Inside(d, m, f, s, c) ==
    \E e \in MatchedCells(m, f, s) :
      /\ Readers(d, Y[c]) \subseteq {e}
      /\ \A p \in Ports : Y[c] \cap PortSignal(d, m, f, s, p) = {}

LEMMA MatchedNets ==
    ASSUME NEW d \in DesignType, Regular(d), NEW m \in Mul,
           NEW f \in Fronts(d, m), NEW s \in Backs(d, m),
           NEW c \in MatchedCells(m, f, s)
    PROVE  \/ Y[c] = IF s.ff # NoCell THEN Y[s.ff] ELSE Result(m, s)
           \/ Inside(d, m, f, s, c)
<1>1. ~HalfSquared(d) /\ ~UnreadLoop(d) /\ c \in Cell
  BY MatchedType DEF Regular
<1>2. \A e \in {m, f.ad, f.padd, s.mff, s.add, s.acc, s.ff} :
        e # NoCell => e \in MatchedCells(m, f, s)
  BY DEF MatchedCells
<1>3. ASSUME NEW e \in {s.add, s.acc}, e # NoCell, SoleReader(d, Y[c], e),
             Y[c] \subseteq Swallowed(m, s)
      PROVE  Inside(d, m, f, s, c)
  BY <1>1, <1>2, <1>3, AdderNetPrivate DEF Inside, SoleReader
<1>4. ASSUME NEW e \in {f.ad, s.mff, s.ff}, e # NoCell, SoleReader(d, Y[c], e)
      PROVE  Inside(d, m, f, s, c)
  <2>1. e \in Flop
    BY <1>4, ShapeTypes
  <2> QED
    BY <1>1, <1>2, <1>4, <2>1, FlopNetPrivate DEF Inside, SoleReader
<1>5. ASSUME f.padd # NoCell, SoleReader(d, Y[c], m),
             c = f.ad \/ (f.ad = NoCell /\ c = f.padd)
      PROVE  Inside(d, m, f, s, c)
  BY <1>1, <1>2, <1>5, SumPrivate, CellsApart DEF Inside, SoleReader
<1>6. ASSUME Y[c] = Result(m, s), s.add # NoCell \/ s.mff = NoCell
      PROVE  \/ Y[c] = IF s.ff # NoCell THEN Y[s.ff] ELSE Result(m, s)
             \/ Inside(d, m, f, s, c)
  <2>1. CASE s.ff = NoCell
    BY <1>6, <2>1
  <2>2. CASE s.ff # NoCell
    BY <1>4, <1>6, <2>2, BackReaders
  <2> QED
    BY <2>1, <2>2
<1>7. CASE c = m
  <2>1. CASE s.mff # NoCell
    BY <1>4, <1>7, <2>1, BackReaders
  <2>2. CASE s.mff = NoCell /\ s.add # NoCell
    BY <1>3, <1>7, <2>2, BackReaders DEF Product, Swallowed
  <2>3. CASE s.mff = NoCell /\ s.add = NoCell
    BY <1>6, <1>7, <2>3, BackReaders DEF Result
  <2> QED
    BY <2>1, <2>2, <2>3
<1>8. CASE c = s.mff /\ c # NoCell
  <2>1. CASE s.add # NoCell
    BY <1>3, <1>8, <2>1, BackReaders DEF Product, Swallowed
  <2>2. CASE s.add = NoCell
    BY <1>4, <1>8, <2>2, BackReaders
  <2> QED
    BY <2>1, <2>2
<1>9. CASE c = s.add /\ c # NoCell
  <2>1. CASE s.acc # NoCell
    BY <1>3, <1>9, <2>1, BackReaders DEF Swallowed
  <2>2. CASE s.acc = NoCell
    BY <1>6, <1>9, <2>2 DEF Result
  <2> QED
    BY <2>1, <2>2
<1>10. CASE c = s.acc /\ c # NoCell
  BY <1>6, <1>10, BackReaders DEF Result
<1>11. CASE c = s.ff /\ c # NoCell
  BY <1>11
<1>12. CASE c \in {f.padd, f.ad} /\ c # NoCell
  <2>1. CASE c = f.padd /\ f.ad # NoCell
    BY <1>4, <1>12, <2>1, FrontCases
  <2>2. CASE c = f.ad \/ (f.ad = NoCell /\ c = f.padd)
    BY <1>5, <1>12, <2>2, FrontCases
  <2> QED
    BY <1>12, <2>1, <2>2
<1> QED
  BY <1>7, <1>8, <1>9, <1>10, <1>11, <1>12 DEF MatchedCells

------------------------------------------------------------------------------
(* What emit() moves and what it copies.                                     *)

(* The registers of a chain that is moved serve nothing else, and nobody     *)
(* claimed them.                                                             *)
LEMMA MovedChain ==
    ASSUME NEW d, NEW sig, NEW ch, NEW claimed, NEW shared,
           Collects(d, sig, ch, claimed, shared), ~ch.copy,
           NEW j \in 1..ch.n, NEW g \in StageFlops(Src(d, sig, j - 1))
    PROVE  /\ ~HasOtherReaders(d, g) /\ Y[g] \subseteq Src(d, sig, j - 1)
           /\ g \notin claimed /\ g \in ch.flops /\ g \in Flop
<1>1. ~Copies(d, g, Src(d, sig, j - 1), shared)
  BY DEF Collects
<1>2. Takeable(d, g, claimed, shared) /\ g \in ch.flops
  BY DEF Collects
<1>3. g \in Flop
  BY DEF StageFlops
<1> QED
  BY <1>1, <1>2, <1>3 DEF Copies, Takeable

(* A bit of a moved chain is at one place: no other chain or port has it.    *)
LEMMA MovedPlace ==
    ASSUME NEW d \in DesignType, Regular(d), NEW m \in Mul,
           NEW f \in Fronts(d, m), NEW s \in Backs(d, m),
           NEW claimed, NEW shared, NEW chain,
           chain = Chains(d, m, f, s, claimed, shared),
           NEW p \in Ports, ~chain[p].copy, NEW i \in 1..chain[p].n,
           NEW b \in Src(d, PortSignal(d, m, f, s, p), i - 1),
           NEW q \in Ports, NEW k \in 0..chain[q].n,
           b \in Src(d, PortSignal(d, m, f, s, q), k)
    PROVE  q = p /\ k = i - 1
<1>1. /\ Collects(d, PortSignal(d, m, f, s, p), chain[p], claimed, shared)
      /\ Collects(d, PortSignal(d, m, f, s, q), chain[q], claimed, shared)
  BY ChainFacts
<1>2. i \in 1..2 /\ k \in 0..2
  BY <1>1 DEF Collects
<1>3. Regs(d, PortSignal(d, m, f, s, p), i) /\ Regs(d, PortSignal(d, m, f, s, q), k)
  BY <1>1, <1>2 DEF Collects, Regs
<1>4. \A j \in 1..i :
        \A g \in StageFlops(Src(d, PortSignal(d, m, f, s, p), j - 1)) :
          ~HasOtherReaders(d, g)
  <2> SUFFICES ASSUME NEW j \in 1..i,
                      NEW g \in StageFlops(Src(d, PortSignal(d, m, f, s, p), j - 1))
               PROVE  ~HasOtherReaders(d, g)
    OBVIOUS
  <2>1. j \in 1..chain[p].n
    BY <1>1 DEF Collects
  <2> QED
    BY <1>1, <2>1, MovedChain
<1> QED
  BY <1>2, <1>3, <1>4, OnlyWay DEF Regular

(* Whatever reads such a bit is a matched cell or the next register of the   *)
(* chain.                                                                    *)
LEMMA MovedReaders ==
    ASSUME NEW d \in DesignType, NEW m \in Mul,
           NEW f \in Fronts(d, m), NEW s \in Backs(d, m),
           NEW claimed, NEW shared, NEW p \in Ports, NEW ch,
           Collects(d, PortSignal(d, m, f, s, p), ch, claimed, shared),
           ~ch.copy, NEW i \in 1..ch.n,
           NEW c \in Flop, ~HasOtherReaders(d, c), NEW b \in Y[c],
           b \in Src(d, PortSignal(d, m, f, s, p), i - 1)
    PROVE  /\ b \notin d.out
           /\ \A e : CellReads(d, e, b) => e \in MatchedCells(m, f, s)
           /\ \A g \in Flop : b \in D(d, g) => g \in ch.flops /\ g \notin claimed
<1> DEFINE sig == PortSignal(d, m, f, s, p)
           Cells == {"a", "b", "x", "y"}
<1>1. ASSUME NEW e, CellReads(d, e, b)
      PROVE  \E v \in Cells : <<v, e>> \in Uses(d, b)
  BY <1>1, NamedByCell DEF CellReads
<1>2. ASSUME NEW g \in Flop, b \in D(d, g)
      PROVE  \E r \in Y[g] : <<"d", r>> \in Uses(d, b)
  <2>1. \A r \in Y[g] : r \in RegBit
    BY DEF RegBit
  <2> QED
    BY <1>2, <2>1, NamedByCell DEF D
<1>3. b \in d.out => <<"out", b>> \in Uses(d, b)
  BY DEF Uses
<1>4. \A u, v \in Uses(d, b) : u = v
  BY DEF HasOtherReaders
<1>5. i \in 1..2 /\ i - 1 \in 0..ch.n /\ ch.n \in 0..2
  BY DEF Collects
<1> HIDE DEF sig
<1>6. CASE i = 1
  <2>1. b \in sig
    BY <1>6 DEF Src, sig
  <2>2. PICK e \in MatchedCells(m, f, s) : CellReads(d, e, b)
    BY <2>1, PortReader, PortCellsMatched DEF sig
  <2>3. PICK v \in Cells : <<v, e>> \in Uses(d, b)
    BY <1>1, <2>2
  <2>4. \A g \in Flop : b \notin D(d, g)
    BY <1>2, <1>4, <2>3
  <2>5. b \notin d.out
    BY <1>3, <1>4, <2>3
  <2>6. \A g : CellReads(d, g, b) => g = e
    BY <1>1, <1>4, <2>3
  <2> QED
    BY <2>2, <2>4, <2>5, <2>6
<1>7. CASE i = 2
  <2>1. PICK g \in Flop : /\ g \in StageFlops(Src(d, sig, 0))
                          /\ b \in D(d, g)
    BY <1>5, <1>7, SourceReader DEF sig
  <2>2. g \in ch.flops /\ g \notin claimed
    <3>1. \A j \in 1..ch.n : \A h \in StageFlops(Src(d, sig, j - 1)) :
            h \in ch.flops /\ h \notin claimed
      BY MovedChain DEF sig
    <3>2. 1 \in 1..ch.n /\ 1 - 1 = 0
      BY <1>5, <1>7
    <3>3. \A h \in StageFlops(Src(d, sig, 1 - 1)) : h \in ch.flops /\ h \notin claimed
      BY <3>1, <3>2
    <3> QED
      BY <2>1, <3>2, <3>3
  <2>3. PICK r \in Y[g] : <<"d", r>> \in Uses(d, b)
    BY <1>2, <2>1
  <2>4. \A e : ~CellReads(d, e, b)
    BY <1>1, <1>4, <2>3
  <2>5. b \notin d.out
    BY <1>3, <1>4, <2>3
  <2>6. ASSUME NEW h \in Flop, b \in D(d, h) PROVE h = g
    <3>1. PICK q \in Y[h] : <<"d", q>> \in Uses(d, b)
      BY <1>2, <2>6
    <3>2. q = r
      BY <1>4, <2>3, <3>1
    <3> QED
      BY <2>3, <3>1, <3>2, CellsAssumption DEF Cell
  <2> QED
    BY <2>2, <2>4, <2>5, <2>6
<1> QED
  BY <1>5, <1>6, <1>7

LEMMA ChainsApart ==
    ASSUME NEW d \in DesignType, Regular(d), NEW m \in Mul,
           NEW f \in Fronts(d, m), NEW s \in Backs(d, m),
           NEW claimed, NEW shared, NEW chain,
           chain = Chains(d, m, f, s, claimed, shared),
           NEW p \in Ports, ~chain[p].copy, NEW q \in Ports,
           NEW c, c \in chain[p].flops, c \in chain[q].flops
    PROVE  p = q
<1>1. /\ Collects(d, PortSignal(d, m, f, s, p), chain[p], claimed, shared)
      /\ Collects(d, PortSignal(d, m, f, s, q), chain[q], claimed, shared)
  BY ChainFacts
<1>2. PICK i \in 1..chain[p].n :
        c \in StageFlops(Src(d, PortSignal(d, m, f, s, p), i - 1))
  BY <1>1 DEF Collects
<1>3. PICK j \in 1..chain[q].n :
        c \in StageFlops(Src(d, PortSignal(d, m, f, s, q), j - 1))
  BY <1>1 DEF Collects
<1>4. PICK b \in Y[c] : b \in Src(d, PortSignal(d, m, f, s, q), j - 1)
  BY <1>3 DEF StageFlops
<1>5. b \in Src(d, PortSignal(d, m, f, s, p), i - 1)
  BY <1>1, <1>2, <1>4, MovedChain
<1>6. j - 1 \in 0..chain[q].n
  BY <1>1 DEF Collects
<1> QED
  BY <1>4, <1>5, <1>6, MovedPlace

LEMMA EmitClaims ==
    ASSUME TypeOK, Regular(design), NEW m \in Mul,
           NEW f \in Fronts(design, m), NEW s \in Backs(design, m),
           NEW chain, chain = Chains(design, m, f, s, absorbed, sharedClaimed),
           NEW kept \in SUBSET Ports,
           Emit(m, f, s, chain, kept)
    PROVE  /\ \A c \in Flop : \/ queued'[c] = queued[c]
                              \/ /\ queued'[c] = queued[c] + 1
                                 /\ c \notin absorbed
                                 /\ \E p \in kept : c \in chain[p].flops /\ ~chain[p].copy
           /\ \A p \in kept : \A c \in chain[p].flops :
                ~chain[p].copy => queued'[c] = queued[c] + 1
           /\ \A c \in sharedClaimed' :
                \/ c \in sharedClaimed
                \/ /\ c \in Flop /\ queued'[c] = queued[c]
                   /\ \E p \in kept : c \in chain[p].flops
<1> DEFINE base  == absorbed \cup MatchedFlops(f, s)
           In(c) == {p \in kept : c \in chain[p].flops}
           moved == {c \in Flop \ base :
                       \E p \in In(c) : \A q \in In(c) :
                         /\ ~chain[p].copy
                         /\ chain[q].copy => Rank[p] < Rank[q]}
<1>1. /\ queued' = [c \in Flop |-> IF c \in moved THEN queued[c] + 1
                                   ELSE queued[c]]
      /\ sharedClaimed' = sharedClaimed \cup
           {c \in Flop : \E p \in In(c) : chain[p].copy}
  BY DEF Emit
<1>2. \A c \in moved : /\ c \notin absorbed
                       /\ \E p \in kept : c \in chain[p].flops /\ ~chain[p].copy
  OBVIOUS
<1>3. \A p \in Ports, q \in Ports : \A c :
        ~chain[p].copy /\ c \in chain[p].flops /\ c \in chain[q].flops => p = q
  BY ChainsApart DEF TypeOK
<1>4. ASSUME NEW p \in kept, NEW c \in chain[p].flops, ~chain[p].copy
      PROVE  c \in moved
  <2>1. Collects(design, PortSignal(design, m, f, s, p), chain[p], absorbed, sharedClaimed)
    BY ChainFacts
  <2>2. c \notin absorbed /\ c \in Flop
    <3>1. PICK i \in 1..chain[p].n :
            c \in StageFlops(Src(design, PortSignal(design, m, f, s, p), i - 1))
      BY <2>1 DEF Collects
    <3> QED
      BY <1>4, <2>1, <3>1, MovedChain
  <2>3. c \notin MatchedFlops(f, s)
    BY OwnFlopsApart DEF TypeOK
  <2>4. \A q \in In(c) : q = p
    BY <1>3, <1>4
  <2> QED
    BY <1>4, <2>2, <2>3, <2>4
<1>5. ASSUME NEW c, NEW p \in kept, c \in chain[p].flops, chain[p].copy
      PROVE  c \notin moved
  BY <1>2, <1>3, <1>5
<1> HIDE DEF moved
<1>6. \A p \in kept : chain[p].flops \subseteq Flop
  BY ChainsType DEF WalkSet, TypeOK
<1> QED
  BY <1>1, <1>2, <1>4, <1>5, <1>6

------------------------------------------------------------------------------
(* CopiesStand and ReadsDriven are not inductive.  Until the two removals,   *)
(* every bit a DSP reads is also read by a cell that was matched or a        *)
(* register that was claimed (so that no later match takes its driver for    *)
(* an inner net), and the net of each cell that will leave is driven by a    *)
(* DSP or has all its readers among the cells that will leave.               *)

Leaving == autoremove \cup {g \in Flop : queued[g] > 0}

DspDrives(c) == \E t \in dsps : t.drives = Y[c]

Consumed(b) ==
    \/ \E e \in autoremove : CellReads(design, e, b)
    \/ \E g \in absorbed : b \in D(design, g)

ReadsConsumed == \A t \in dsps : \A b \in t.reads : Consumed(b)

LeavingReplaced ==
    \A c \in Leaving :
      \/ DspDrives(c)
      \/ /\ Readers(design, Y[c]) \subseteq Leaving
         /\ \A t \in dsps : t.reads \cap Y[c] = {}

RemovedReplaced ==
    \A c \in Cell \ alive :
      DspDrives(c) \/ Y[c] \cap Read(design, alive, dsps) = {}

NetsInv ==
    /\ CopiesStand /\ sharedClaimed \subseteq absorbed
    /\ phase = "match" => (alive = Cell)
    /\ phase = "drain" => (alive = Cell \ autoremove)
    /\ phase \in {"match", "drain"} => (ReadsConsumed /\ LeavingReplaced)
    /\ phase \in {"sweep", "done"} => RemovedReplaced

(* What a new DSP reads: a net a matched cell of its own read, or one behind *)
(* a register it took.                                                       *)
LEMMA EmitReads ==
    ASSUME TypeOK, NEW m \in Mul, NEW f \in Fronts(design, m),
           NEW s \in Backs(design, m), NEW chain,
           chain = Chains(design, m, f, s, absorbed, sharedClaimed),
           NEW kept \in SUBSET Ports, NEW q \in Ports,
           NEW b \in IF q \in kept THEN chain[q].source
                     ELSE PortSignal(design, m, f, s, q)
    PROVE  /\ \E k \in 0..chain[q].n :
                /\ b \in Src(design, PortSignal(design, m, f, s, q), k)
                /\ q \in kept => k = chain[q].n
           /\ \/ b \in PortSignal(design, m, f, s, q)
              \/ q \in kept /\ \E g \in chain[q].flops \cap Flop : b \in D(design, g)
<1> DEFINE sig == PortSignal(design, m, f, s, q)
<1>1. Collects(design, sig, chain[q], absorbed, sharedClaimed)
  BY ChainFacts
<1> HIDE DEF sig
<1>2. chain[q].n \in 0..2 /\ chain[q].source = Src(design, sig, chain[q].n)
  BY <1>1 DEF Collects
<1>3. CASE q \in kept
  <2>1. chain[q].n \in 0..chain[q].n /\ b \in Src(design, sig, chain[q].n)
    BY <1>2, <1>3
  <2>2. b \in sig \/ \E g \in chain[q].flops \cap Flop : b \in D(design, g)
    BY <1>1, <2>1, SourceReader
  <2> QED
    BY <1>3, <2>1, <2>2 DEF sig
<1>4. CASE q \notin kept
  <2>1. b \in sig /\ 0 \in 0..chain[q].n /\ b \in Src(design, sig, 0)
    BY <1>2, <1>4 DEF Src, sig
  <2> QED
    BY <1>4, <2>1 DEF sig
<1> QED
  BY <1>3, <1>4

LEMMA EmitNets ==
    ASSUME TypeOK, QueueInv, NetsInv, Regular(design), phase = "match",
           design' = design, phase' = phase, alive' = alive,
           NEW m \in Mul, NEW f \in Fronts(design, m),
           NEW s \in Backs(design, m),
           Unclaimed(m, f, s, autoremove, absorbed),
           NEW chain, chain = Chains(design, m, f, s, absorbed, sharedClaimed),
           NEW kept \in SUBSET Ports,
           Emit(m, f, s, chain, kept)
    PROVE  NetsInv'
<1> DEFINE sig(p) == PortSignal(design, m, f, s, p)
           drives == IF s.ff # NoCell THEN Y[s.ff] ELSE Result(m, s)
           reads  == UNION {IF p \in kept THEN chain[p].source
                            ELSE PortSignal(design, m, f, s, p) : p \in Ports}
<1>1. /\ autoremove' = autoremove \cup MatchedCells(m, f, s)
      /\ absorbed' = (absorbed \cup MatchedFlops(f, s))
                       \cup UNION {chain[p].flops : p \in kept}
  BY DEF Emit
<1>2. PICK t : /\ dsps' = dsps \cup {t} /\ t.drives = drives
               /\ t.reads = reads
  <2>1. PICK u : u = [mul |-> m, reads |-> reads, drives |-> drives]
    OBVIOUS
  <2>2. dsps' = dsps \cup {u}
    BY <2>1 DEF Emit
  <2> HIDE DEF reads, drives
  <2> QED
    BY <2>1, <2>2
<1>3. /\ design \in DesignType /\ autoremove \subseteq Cell
      /\ \A c \in Flop : queued[c] \in Nat
  BY DEF TypeOK
<1>4. /\ MatchedCells(m, f, s) \subseteq Cell
      /\ MatchedFlops(f, s) = MatchedCells(m, f, s) \cap Flop
      /\ MatchedCells(m, f, s) \cap autoremove = {}
      /\ MatchedFlops(f, s) \cap absorbed = {}
  BY <1>3, MatchedType DEF Unclaimed
<1>5. \A p \in Ports : Collects(design, sig(p), chain[p], absorbed, sharedClaimed)
  BY ChainFacts
<1>6. /\ \A c \in Flop : \/ queued'[c] = queued[c]
                         \/ /\ queued'[c] = queued[c] + 1 /\ c \notin absorbed
                            /\ \E p \in kept : c \in chain[p].flops /\ ~chain[p].copy
      /\ \A p \in kept : \A c \in chain[p].flops :
           ~chain[p].copy => queued'[c] = queued[c] + 1
      /\ \A c \in sharedClaimed' :
           \/ c \in sharedClaimed
           \/ /\ c \in Flop /\ queued'[c] = queued[c]
              /\ \E p \in kept : c \in chain[p].flops
  BY EmitClaims
<1>7. \A p \in Ports : \A c \in chain[p].flops :
        c \in Flop /\ c \notin MatchedFlops(f, s)
  BY <1>3, <1>5, OwnFlopsApart, FlopReader
<1>8. \A p \in Ports : \A c \in chain[p].flops :
        c \in absorbed => c \in sharedClaimed
  <2> SUFFICES ASSUME NEW p \in Ports, NEW c \in chain[p].flops, c \in absorbed
               PROVE  c \in sharedClaimed
    OBVIOUS
  <2>1. PICK i \in 1..chain[p].n : c \in StageFlops(Src(design, sig(p), i - 1))
    BY <1>5 DEF Collects
  <2>2. Takeable(design, c, absorbed, sharedClaimed)
    BY <1>5, <2>1 DEF Collects
  <2> QED
    BY <2>2 DEF Takeable
<1>9. \A c \in Flop : c \in Leaving => c \in absorbed /\ c \notin sharedClaimed
  BY <1>3 DEF Leaving, QueueInv, ClaimsRecorded, NetsInv, CopiesStand
<1>10. \A p \in Ports : \A c \in chain[p].flops : c \notin Leaving
  BY <1>7, <1>8, <1>9
<1>11. \A b \in t.reads :
         \E p \in Ports :
           /\ \E k \in 0..chain[p].n :
                /\ b \in Src(design, sig(p), k)
                /\ p \in kept => k = chain[p].n
           /\ \/ b \in sig(p)
              \/ /\ p \in kept
                 /\ \E g \in chain[p].flops \cap Flop : b \in D(design, g)
  <2> SUFFICES ASSUME NEW b \in t.reads
               PROVE  \E p \in Ports :
                        /\ \E k \in 0..chain[p].n :
                             /\ b \in Src(design, sig(p), k)
                             /\ p \in kept => k = chain[p].n
                        /\ \/ b \in sig(p)
                           \/ /\ p \in kept
                              /\ \E g \in chain[p].flops \cap Flop : b \in D(design, g)
    OBVIOUS
  <2>1. PICK p \in Ports : b \in IF p \in kept THEN chain[p].source
                                 ELSE PortSignal(design, m, f, s, p)
    BY <1>2
  <2> QED
    BY <2>1, EmitReads
<1>12. \A p \in Ports : \A b \in sig(p) :
         \E e \in MatchedCells(m, f, s) : e \notin Flop /\ CellReads(design, e, b)
  BY <1>3, PortReader, PortCellsMatched
<1> HIDE DEF sig, drives, reads
<1>13. CopiesStand'
  <2> SUFFICES ASSUME NEW c \in sharedClaimed'
               PROVE  c \notin autoremove' /\ queued'[c] = 0
    BY DEF CopiesStand
  <2>1. CASE c \in sharedClaimed
    <3>1. c \in absorbed /\ c \in Flop /\ c \notin autoremove /\ queued[c] = 0
      BY <2>1 DEF NetsInv, CopiesStand, TypeOK
    <3> QED
      BY <3>1, <1>1, <1>4, <1>6
  <2>2. ASSUME c \in Flop, queued'[c] = queued[c],
               NEW p \in kept, c \in chain[p].flops
        PROVE  c \notin autoremove' /\ queued'[c] = 0
    <3>1. c \notin Leaving /\ c \notin MatchedFlops(f, s)
      BY <1>7, <1>10, <2>2
    <3>2. c \notin autoremove /\ queued[c] = 0
      BY <1>3, <2>2, <3>1 DEF Leaving
    <3> QED
      BY <1>1, <1>4, <2>2, <3>1, <3>2
  <2> QED
    BY <1>6, <2>1, <2>2
<1>14. sharedClaimed' \subseteq absorbed'
  BY <1>1, <1>6 DEF NetsInv
<1>15. ReadsConsumed'
  <2> SUFFICES ASSUME NEW u \in dsps', NEW b \in u.reads
               PROVE  \/ \E e \in autoremove' : CellReads(design, e, b)
                      \/ \E g \in absorbed' : b \in D(design, g)
    BY DEF ReadsConsumed, Consumed
  <2>1. CASE u \in dsps
    BY <1>1, <2>1 DEF NetsInv, ReadsConsumed, Consumed
  <2>2. CASE u = t
    <3>1. PICK p \in Ports :
            \/ b \in sig(p)
            \/ p \in kept /\ \E g \in chain[p].flops \cap Flop : b \in D(design, g)
      BY <1>11, <2>2
    <3> QED
      BY <1>1, <1>12, <3>1
  <2> QED
    BY <1>2, <2>1, <2>2
<1>16. Leaving' = Leaving \cup MatchedCells(m, f, s)
                    \cup {c \in Flop : queued'[c] = queued[c] + 1}
  BY <1>1, <1>3, <1>6 DEF Leaving
<1>17. ASSUME NEW c \in Leaving
       PROVE  \/ DspDrives(c)'
              \/ /\ Readers(design, Y[c]) \subseteq Leaving'
                 /\ \A u \in dsps' : u.reads \cap Y[c] = {}
  <2>1. CASE DspDrives(c)
    BY <1>2, <2>1 DEF DspDrives
  <2>2. CASE /\ Readers(design, Y[c]) \subseteq Leaving
             /\ \A u \in dsps : u.reads \cap Y[c] = {}
    <3>1. ASSUME NEW b \in t.reads, b \in Y[c] PROVE FALSE
      <4>1. PICK p \in Ports :
              \/ b \in sig(p)
              \/ p \in kept /\ \E g \in chain[p].flops \cap Flop : b \in D(design, g)
        BY <1>11, <3>1
      <4>2. CASE b \in sig(p)
        <5>1. PICK e \in MatchedCells(m, f, s) :
                e \notin Flop /\ CellReads(design, e, b)
          BY <1>12, <4>2
        <5>2. e \in Leaving
          BY <2>2, <3>1, <5>1, Reads
        <5> QED
          BY <1>4, <5>1, <5>2 DEF Leaving
      <4>3. CASE \E g \in chain[p].flops \cap Flop : b \in D(design, g)
        <5>1. PICK g \in chain[p].flops : g \in Flop /\ b \in D(design, g)
          BY <4>3
        <5>2. g \in Leaving
          BY <2>2, <3>1, <5>1, Reads
        <5> QED
          BY <1>10, <5>1, <5>2
      <4> QED
        BY <4>1, <4>2, <4>3
    <3> QED
      BY <1>2, <1>16, <2>2, <3>1
  <2> QED
    BY <2>1, <2>2 DEF NetsInv, LeavingReplaced
<1>18. ASSUME NEW c \in MatchedCells(m, f, s)
       PROVE  \/ DspDrives(c)'
              \/ /\ Readers(design, Y[c]) \subseteq Leaving'
                 /\ \A u \in dsps' : u.reads \cap Y[c] = {}
  <2>1. CASE Y[c] = drives
    BY <1>2, <2>1 DEF DspDrives
  <2>2. ASSUME NEW e \in MatchedCells(m, f, s),
               Readers(design, Y[c]) \subseteq {e},
               \A p \in Ports : Y[c] \cap sig(p) = {}
        PROVE  /\ Readers(design, Y[c]) \subseteq Leaving'
               /\ \A u \in dsps' : u.reads \cap Y[c] = {}
    <3>1. ASSUME NEW u \in dsps, NEW b \in u.reads, b \in Y[c] PROVE FALSE
      <4>1. \/ \E g \in autoremove : CellReads(design, g, b)
            \/ \E g \in absorbed : b \in D(design, g)
        BY <3>1 DEF NetsInv, ReadsConsumed, Consumed
      <4>2. e \in autoremove \/ e \in absorbed \cap Flop
        <5>1. absorbed \subseteq Flop
          BY DEF TypeOK
        <5>2. \A g : CellReads(design, g, b) => g = e
          BY <2>2, <3>1, Reads
        <5>3. \A g \in Flop : b \in D(design, g) => g = e
          BY <2>2, <3>1, Reads
        <5> QED
          BY <4>1, <5>1, <5>2, <5>3
      <4> QED
        BY <1>4, <4>2
    <3>2. ASSUME NEW b \in t.reads, b \in Y[c] PROVE FALSE
      <4>1. PICK p \in Ports :
              \E g \in chain[p].flops : g \in Flop /\ b \in D(design, g)
        BY <1>11, <2>2, <3>2
      <4>2. PICK g \in chain[p].flops : g \in Flop /\ b \in D(design, g)
        BY <4>1
      <4>3. g = e
        BY <2>2, <3>2, <4>2, Reads
      <4> QED
        BY <1>4, <1>7, <4>2, <4>3
    <3> QED
      BY <1>2, <1>16, <2>2, <3>1, <3>2
  <2>3. Y[c] = drives \/ Inside(design, m, f, s, c)
    BY <1>3, MatchedNets DEF drives
  <2> QED
    BY <2>1, <2>2, <2>3 DEF Inside, sig
<1>19. ASSUME NEW c \in Flop, queued'[c] = queued[c] + 1
       PROVE  /\ Readers(design, Y[c]) \subseteq Leaving'
              /\ \A u \in dsps' : u.reads \cap Y[c] = {}
  <2>1. PICK p \in kept : c \in chain[p].flops /\ ~chain[p].copy
    BY <1>3, <1>6, <1>19
  <2>2. PICK i \in 1..chain[p].n : c \in StageFlops(Src(design, sig(p), i - 1))
    BY <1>5, <2>1 DEF Collects
  <2>3. /\ ~HasOtherReaders(design, c) /\ Y[c] \subseteq Src(design, sig(p), i - 1)
        /\ i - 1 \in 0..chain[p].n /\ chain[p].n \in 0..2
    <3>1. Collects(design, sig(p), chain[p], absorbed, sharedClaimed)
      BY <1>5
    <3>2. chain[p].n \in 0..2
      BY <3>1 DEF Collects
    <3> QED
      BY <2>1, <2>2, <3>1, <3>2, MovedChain
  <2>4. ASSUME NEW b \in Y[c]
        PROVE  /\ b \notin design.out
               /\ \A e : CellReads(design, e, b) => e \in MatchedCells(m, f, s)
               /\ \A g \in Flop : b \in D(design, g) =>
                    g \in chain[p].flops /\ g \notin absorbed
    <3>1. Collects(design, PortSignal(design, m, f, s, p), chain[p], absorbed,
                   sharedClaimed)
      BY <1>5 DEF sig
    <3>2. b \in Src(design, PortSignal(design, m, f, s, p), i - 1)
      BY <2>3 DEF sig
    <3>3. PICK ch : ch = chain[p]
      OBVIOUS
    <3>4. p \in Ports /\ ~ch.copy /\ i \in 1..ch.n
      BY <2>1, <3>3
    <3>5. ~HasOtherReaders(design, c)
      BY <2>3
    <3>6. Collects(design, PortSignal(design, m, f, s, p), ch, absorbed,
                   sharedClaimed)
      BY <3>1, <3>3
    <3>7. /\ b \notin design.out
          /\ \A e : CellReads(design, e, b) => e \in MatchedCells(m, f, s)
          /\ \A g \in Flop : b \in D(design, g) => g \in ch.flops /\ g \notin absorbed
      BY <1>3, <3>2, <3>4, <3>5, <3>6, MovedReaders
    <3> QED
      BY <3>3, <3>7
  <2>5. ASSUME NEW e \in Readers(design, Y[c]) PROVE e \in Leaving'
    <3>1. \E b \in Y[c] : \/ b \in design.out
                          \/ CellReads(design, e, b)
                          \/ e \in Flop /\ b \in D(design, e)
      BY <2>5 DEF Readers, CellReads
    <3>2. e \in MatchedCells(m, f, s) \/ (e \in Flop /\ e \in chain[p].flops)
      BY <2>4, <3>1
    <3> QED
      BY <1>6, <1>16, <2>1, <3>2
  <2>6. ASSUME NEW u \in dsps, NEW b \in u.reads, b \in Y[c] PROVE FALSE
    <3>1. \/ \E e \in autoremove : CellReads(design, e, b)
          \/ \E g \in absorbed : b \in D(design, g)
      BY <2>6 DEF NetsInv, ReadsConsumed, Consumed
    <3>2. absorbed \subseteq Flop
      BY DEF TypeOK
    <3> QED
      BY <1>4, <2>4, <2>6, <3>1, <3>2
  <2>7. ASSUME NEW b \in t.reads, b \in Y[c] PROVE FALSE
    <3>0. PICK q \in Ports :
            \E k \in 0..chain[q].n :
              b \in Src(design, sig(q), k) /\ (q \in kept => k = chain[q].n)
      BY <1>11, <2>7
    <3>1. PICK k \in 0..chain[q].n :
            b \in Src(design, sig(q), k) /\ (q \in kept => k = chain[q].n)
      BY <3>0
    <3>2. b \in Src(design, sig(p), i - 1)
      BY <2>3, <2>7
    <3>3. q = p /\ k = i - 1
      BY <1>3, <2>1, <3>1, <3>2, MovedPlace DEF sig
    <3> QED
      BY <2>1, <2>3, <3>1, <3>3
  <2> QED
    BY <1>2, <2>5, <2>6, <2>7
<1> QED
  BY <1>13, <1>14, <1>15, <1>16, <1>17, <1>18, <1>19
     DEF NetsInv, LeavingReplaced, DspDrives, Readers

LEMMA ReadBy ==
    ASSUME NEW d, NEW cells, NEW blocks, NEW b \in Read(d, cells, blocks)
    PROVE  \/ \E e \in cells : CellReads(d, e, b)
           \/ \E g \in Flop \cap cells : b \in D(d, g)
           \/ \E t \in blocks : b \in t.reads
           \/ b \in d.out
  BY DEF Read, CellReads

LEMMA ReadFewer ==
    ASSUME NEW d, NEW cells, NEW fewer \in SUBSET cells, NEW blocks
    PROVE  Read(d, fewer, blocks) \subseteq Read(d, cells, blocks)
  BY DEF Read

LEMMA DrainNets ==
    ASSUME TypeOK, NetsInv, DrainPending
    PROVE  NetsInv'
<1>1. /\ phase = "drain" /\ phase' = "sweep" /\ alive' = Cell \ Leaving
      /\ queued' = [g \in Flop |-> 0]
      /\ UNCHANGED <<design, autoremove, absorbed, sharedClaimed, dsps>>
  BY DEF DrainPending, NetsInv, Leaving
<1>2. CopiesStand' /\ sharedClaimed' \subseteq absorbed'
  BY <1>1 DEF NetsInv, CopiesStand, TypeOK
<1>3. Leaving \subseteq Cell
  BY DEF Leaving, TypeOK, Cell
<1>4. RemovedReplaced'
  <2> SUFFICES ASSUME NEW c \in Cell, c \notin alive', ~DspDrives(c),
                      NEW b \in Y[c], b \in Read(design, alive', dsps)
               PROVE  FALSE
    BY <1>1 DEF RemovedReplaced, DspDrives
  <2>1. c \in Leaving
    BY <1>1
  <2>2. /\ Readers(design, Y[c]) \subseteq Leaving
        /\ \A t \in dsps : t.reads \cap Y[c] = {}
    BY <1>1, <2>1 DEF NetsInv, LeavingReplaced
  <2>3. \/ \E e \in alive' : CellReads(design, e, b)
        \/ \E g \in Flop \cap alive' : b \in D(design, g)
        \/ b \in design.out
    BY <2>2, ReadBy
  <2>4. CASE b \in design.out
    <3>1. NoCell \in Readers(design, Y[c])
      BY <2>4 DEF Readers
    <3> QED
      BY <1>3, <2>2, <3>1, CellsAssumption
  <2>5. CASE b \notin design.out
    <3>1. PICK e \in alive' : e \in Readers(design, Y[c])
      BY <2>3, <2>5, Reads
    <3> QED
      BY <1>1, <2>2, <3>1
  <2> QED
    BY <2>4, <2>5
<1> QED
  BY <1>1, <1>2, <1>4 DEF NetsInv

LEMMA SweepNets ==
    ASSUME TypeOK, NetsInv, SweepPass \/ SweepEnds
    PROVE  NetsInv'
<1>1. /\ phase = "sweep" /\ phase' \in {"sweep", "done"}
      /\ alive' \subseteq alive /\ sharedClaimed' \subseteq sharedClaimed
      /\ alive \ alive' \subseteq Userless
      /\ UNCHANGED <<design, autoremove, absorbed, queued, dsps>>
  BY DEF SweepPass, SweepEnds
<1>2. CopiesStand' /\ sharedClaimed' \subseteq absorbed'
  BY <1>1 DEF NetsInv, CopiesStand
<1>3. Read(design, alive', dsps) \subseteq Read(design, alive, dsps)
  BY <1>1, ReadFewer
<1>4. \A c \in Cell \ alive' :
        DspDrives(c) \/ Y[c] \cap Read(design, alive, dsps) = {}
  BY <1>1 DEF NetsInv, RemovedReplaced, Userless
<1>5. RemovedReplaced'
  BY <1>1, <1>3, <1>4 DEF RemovedReplaced, DspDrives
<1> QED
  BY <1>1, <1>2, <1>5 DEF NetsInv

LEMMA NetsInvariance == Spec => [](Regular(design) => NetsInv)
<1> DEFINE I == Regular(design) => NetsInv
<1>1. Init => I
  BY DEF Init, NetsInv, CopiesStand, ReadsConsumed, LeavingReplaced, Leaving
<1>2. TypeOK /\ QueueInv /\ I /\ [Next]_vars => I'
  <2> SUFFICES ASSUME TypeOK, QueueInv, I, [Next]_vars PROVE I'
    OBVIOUS
  <2>1. design' = design
    BY DEF Next, Match, Leave, DestroyMatcher, DrainPending, SweepPass,
           SweepEnds, Stopped, vars
  <2>2. Regular(design)' => Regular(design)
    BY <2>1
  <2> SUFFICES ASSUME NetsInv, Regular(design) PROVE NetsInv'
    BY <2>2
  <2>3. ASSUME NEW m \in Mul, Match(m) PROVE NetsInv'
    <3>1. PICK f \in Fronts(design, m), s \in Backs(design, m) :
            /\ Unclaimed(m, f, s, autoremove, absorbed)
            /\ \E chain \in {Chains(design, m, f, s, absorbed, sharedClaimed)} :
                 \E kept \in SUBSET {p \in Ports : chain[p].n > 0} :
                   Emit(m, f, s, chain, kept)
      BY <2>3 DEF Match
    <3>2. PICK chain : /\ chain = Chains(design, m, f, s, absorbed, sharedClaimed)
                       /\ \E kept \in SUBSET {p \in Ports : chain[p].n > 0} :
                            Emit(m, f, s, chain, kept)
      BY <3>1
    <3>3. PICK kept \in SUBSET Ports : Emit(m, f, s, chain, kept)
      BY <3>2
    <3>4. phase = "match" /\ UNCHANGED <<design, phase, alive>>
      BY <2>3 DEF Match
    <3> QED
      BY <3>1, <3>2, <3>3, <3>4, EmitNets
  <2>4. ASSUME NEW m \in Mul, Leave(m) PROVE NetsInv'
    BY <2>4 DEF Leave, NetsInv, CopiesStand, ReadsConsumed, Consumed,
                LeavingReplaced, Leaving, DspDrives, RemovedReplaced
  <2>5. CASE DestroyMatcher
    BY <2>5 DEF DestroyMatcher, NetsInv, CopiesStand, ReadsConsumed, Consumed,
                LeavingReplaced, Leaving, DspDrives
  <2>6. CASE DrainPending
    BY <2>6, DrainNets
  <2>7. CASE SweepPass \/ SweepEnds
    BY <2>7, SweepNets
  <2>8. CASE UNCHANGED vars
    BY <2>8 DEF vars, NetsInv, CopiesStand, ReadsConsumed, Consumed,
                LeavingReplaced, Leaving, DspDrives, RemovedReplaced
  <2> QED
    BY <2>3, <2>4, <2>5, <2>6, <2>7, <2>8 DEF Next, Stopped
<1> QED
  BY <1>1, <1>2, TypeCorrect, QueueInvariance, PTL DEF Spec

(* emit() and claim(), of every regular wiring and in any order of           *)
(* multiplies: a register a DSP holds a copy of is neither taken as part of  *)
(* another match nor queued, so only the sweep can remove it.                *)
THEOREM CopiesStandIfRegularHolds == Spec => []CopiesStandIfRegular
<1>1. (Regular(design) => NetsInv) => CopiesStandIfRegular
  BY DEF NetsInv, CopiesStandIfRegular
<1> QED
  BY <1>1, NetsInvariance, PTL

(* The three removals of execute(), of every regular wiring and in any order *)
(* of multiplies: no bit that is still read loses its driver.                *)
THEOREM NoDanglingReadHolds == Spec => []NoDanglingRead
<1>1. TypeOK /\ (Regular(design) => NetsInv) => NoDanglingRead
  <2> SUFFICES ASSUME NetsInv, phase = "done",
                      NEW b \in Read(design, alive, dsps), NEW c \in Cell,
                      b \in Y[c], c \notin alive
               PROVE  \E t \in dsps : b \in t.drives
    BY DEF NoDanglingRead, ReadsDriven
  <2>1. DspDrives(c)
    BY DEF NetsInv, RemovedReplaced
  <2> QED
    BY <2>1 DEF DspDrives
<1> QED
  BY <1>1, NetsInvariance, TypeCorrect, PTL
==============================================================================
