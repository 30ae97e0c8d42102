-------------------------- MODULE SmallPasses_proofs --------------------------
(* Two passes that rewire pins in place.  integrateinv first: what it keeps, *)
(* for every netlist and every number of inverters.                          *)
EXTENDS IntegrateInv, LutDedup, TLAPS

(* Once collected, the pins of an inverter are what PinsOf() found, and as   *)
(* long as it is to be looked at they still read its output: no other        *)
(* inverter has them, as a net has one inverter.                             *)
Collected ==
    step \in {"integrate", "done"} =>
      /\ \A i, j \in Inv : design.y[i] = design.y[j] => i = j
      /\ \A i \in Inv : pins[i] = PinsOf(design, i)
      /\ \A i \in todo : i \in alive
      /\ \A i \in alive : \A p \in pins[i] :
           reads[p] = design.y[i] /\ mask[p] = design.mask[p]
OneInverter == step = "collect" =>
                 \A i, j \in Inv : design.y[i] = design.y[j] => i = j

Emptied == step = "done" => todo = {}

Untouched == step \in {"build", "collect"} =>
               /\ alive = Inv /\ reads = design.reads /\ mask = design.mask

(* A pin reads what it read before, or it was integrated.                    *)
Rewired(p) ==
    \/ reads[p] = design.reads[p] /\ mask[p] = design.mask[p]
    \/ \E i \in Inv \ alive : /\ p \in pins[i]
                              /\ design.reads[p] = design.y[i]
                              /\ reads[p] = design.a[i]
                              /\ mask[p] = ~design.mask[p]

Pinned == \A p \in Pin : Rewired(p)

(* A removed inverter was the last to read and to be read on its net.        *)
Gone == \A i \in Inv \ alive :
          /\ \A p \in Pin : reads[p] # design.y[i]
          /\ \A j \in alive : design.a[j] # design.y[i]

(* What decides about an inverter, told from the netlist before the pass.    *)
OnlyItsPinsBefore(i) ==
    /\ {p \in Pin : design.reads[p] = design.y[i]} = pins[i]
    /\ \A j \in Inv : design.a[j] # design.y[i]
    /\ design.y[i] \notin design.assigned

Decided ==
    step \in {"integrate", "done"} =>
      /\ \A i \in todo : pins[i] # {}
      /\ \A i \in Inv \ alive :
           /\ pins[i] # {} /\ OnlyItsPinsBefore(i)
           /\ \A p \in pins[i] : reads[p] = design.a[i]
      /\ \A i \in alive : i \in todo \/ pins[i] = {} \/ ~OnlyItsPinsBefore(i)

IInv == Collected /\ OneInverter /\ Emptied /\ Untouched /\ Pinned /\ Gone

(* Every variable keeps its type: what collectInverters() records are pins.  *)
THEOREM TypeCorrect == Spec => []TypeOK
<1>1. Init => TypeOK
  BY DesignsAssumption DEF Init, TypeOK, Steps, DesignType
<1>2. TypeOK /\ [Next]_vars => TypeOK'
  <2> SUFFICES ASSUME TypeOK, [Next]_vars PROVE TypeOK'
    OBVIOUS
  <2> USE DEF TypeOK, Steps
  <2>1. CASE Build
    BY <2>1 DEF Build
  <2>2. CASE Collect
    BY <2>2 DEF Collect, PinsOf, DesignType
  <2>3. ASSUME NEW i \in Inv, Integrate(i) PROVE TypeOK'
    <3>1. design.a \in [Inv -> Net]
      BY DEF DesignType
    <3>2. CASE pins[i] \cap design.odd # {}
      BY <2>3, <3>2 DEF Integrate
    <3>3. CASE pins[i] \cap design.odd = {}
      <4>1. reads' \in [Pin -> Net]
        BY <2>3, <3>1, <3>3 DEF Integrate
      <4>2. mask' \in [Pin -> BOOLEAN]
        BY <2>3, <3>3 DEF Integrate, Toggled
      <4>3. QED
        BY <2>3, <3>3, <4>1, <4>2 DEF Integrate
    <3>4. QED
      BY <3>2, <3>3
  <2>4. ASSUME NEW i \in Inv, Skip(i) PROVE TypeOK'
    BY <2>4 DEF Skip
  <2>5. CASE Finish \/ Stopped \/ UNCHANGED vars
    BY <2>5 DEF Finish, Stopped, vars
  <2>6. QED
    BY <2>1, <2>2, <2>3, <2>4, <2>5 DEF Next
<1>3. QED
  BY <1>1, <1>2, PTL DEF Spec

(* One inverter goes: the heart of the proof.                                *)
LEMMA IntegrateKeeps ==
    ASSUME TypeOK, IInv, NEW i \in Inv, Integrate(i),
           pins[i] \cap design.odd = {}
    PROVE  IInv'
<1>1. /\ step = "integrate" /\ step' = "integrate" /\ i \in todo
      /\ {p \in Pin : reads[p] = design.y[i]} = pins[i]
      /\ \A j \in alive : design.a[j] # design.y[i]
      /\ todo' = todo \ {i} /\ alive' = alive \ {i}
      /\ design' = design /\ pins' = pins
      /\ reads' = [p \in Pin |-> IF p \in pins[i] THEN design.a[i]
                                 ELSE reads[p]]
      /\ mask' = [p \in Pin |-> IF p \in pins[i] THEN ~mask[p] ELSE mask[p]]
  BY DEF Integrate, OnlyItsPins, Toggled
<1>2. /\ i \in alive
      /\ \A k, j \in Inv : design.y[k] = design.y[j] => k = j
      /\ \A j \in Inv : pins[j] = PinsOf(design, j)
      /\ \A j \in todo : j \in alive
      /\ \A j \in alive : \A p \in pins[j] :
           reads[p] = design.y[j] /\ mask[p] = design.mask[p]
  BY <1>1 DEF IInv, Collected
<1>3. \A j \in Inv : pins[j] \subseteq Pin
                       /\ \A p \in pins[j] : design.reads[p] = design.y[j]
  BY <1>2 DEF PinsOf, TypeOK, DesignType
<1>4. \A j \in alive' : \A p \in pins[j] : p \notin pins[i]
  BY <1>1, <1>2, <1>3 DEF TypeOK
<1>5. Collected'
  <2>1. \A j \in alive' : \A p \in pins[j] :
          reads'[p] = design.y[j] /\ mask'[p] = design.mask[p]
    BY <1>1, <1>2, <1>3, <1>4 DEF TypeOK
  <2>2. \A j \in todo' : j \in alive'
    BY <1>1, <1>2
  <2>3. QED
    BY <1>1, <1>2, <2>1, <2>2 DEF Collected
<1>6. OneInverter' /\ Emptied' /\ Untouched'
  BY <1>1 DEF OneInverter, Emptied, Untouched
<1>7. Pinned'
  <2> SUFFICES ASSUME NEW p \in Pin PROVE Rewired(p)'
    BY DEF Pinned
  <2>1. CASE p \in pins[i]
    <3>1. /\ reads'[p] = design.a[i] /\ mask'[p] = ~design.mask[p]
      BY <1>1, <1>2, <2>1
    <3>2. QED
      BY <1>1, <1>3, <2>1, <3>1 DEF Rewired
  <2>2. CASE p \notin pins[i]
    <3>1. reads'[p] = reads[p] /\ mask'[p] = mask[p]
      BY <1>1, <2>2
    <3>2. Inv \ alive \subseteq Inv \ alive'
      BY <1>1
    <3>3. Rewired(p)
      BY DEF IInv, Pinned
    <3>4. QED
      BY <1>1, <3>1, <3>2, <3>3 DEF Rewired
  <2>3. QED
    BY <2>1, <2>2
<1>8. Gone'
  <2> SUFFICES ASSUME NEW k \in Inv \ alive' 
               PROVE  /\ \A p \in Pin : reads'[p] # design.y[k]
                      /\ \A j \in alive' : design.a[j] # design.y[k]
    BY <1>1 DEF Gone
  <2>1. \A j \in alive : design.a[j] # design.y[k]
    BY <1>1 DEF IInv, Gone
  <2>2. \A p \in Pin \ pins[i] : reads[p] # design.y[k]
    BY <1>1 DEF IInv, Gone
  <2>3. design.a[i] # design.y[k]
    BY <1>2, <2>1
  <2>4. QED
    BY <1>1, <2>1, <2>2, <2>3
<1>9. QED
  BY <1>5, <1>6, <1>7, <1>8 DEF IInv

LEMMA Invariance == Spec => [](TypeOK /\ IInv)
<1>1. Init => IInv
  BY DEF Init, IInv, Collected, OneInverter, Emptied, Untouched, Pinned,
         Rewired, Gone
<1>2. TypeOK /\ IInv /\ [Next]_vars => IInv'
  <2> SUFFICES ASSUME TypeOK, IInv, [Next]_vars PROVE IInv'
    OBVIOUS
  <2>1. CASE Build
    BY <2>1 DEF Build, IInv, Collected, OneInverter, Emptied, Untouched, Pinned,
                Rewired, Gone
  <2>2. CASE Collect
    <3>1. /\ alive = Inv /\ reads = design.reads /\ mask = design.mask
          /\ \A i, j \in Inv : design.y[i] = design.y[j] => i = j
      BY <2>2 DEF Collect, IInv, Untouched, OneInverter
    <3>2. /\ pins' = [i \in Inv |-> PinsOf(design, i)]
          /\ todo' \subseteq Inv /\ step' = "integrate"
          /\ UNCHANGED <<design, alive, reads, mask>>
      BY <2>2 DEF Collect
    <3>3. Collected'
      BY <3>1, <3>2 DEF Collected, PinsOf
    <3>4. OneInverter' /\ Emptied' /\ Untouched'
      BY <3>2 DEF OneInverter, Emptied, Untouched
    <3>5. Pinned' /\ Gone'
      BY <3>1, <3>2 DEF Pinned, Rewired, Gone
    <3>6. QED
      BY <3>3, <3>4, <3>5 DEF IInv
  <2>3. ASSUME NEW i \in Inv, Integrate(i) PROVE IInv'
    <3>1. CASE pins[i] \cap design.odd = {}
      BY <2>3, <3>1, IntegrateKeeps
    <3>2. CASE pins[i] \cap design.odd # {}
      BY <2>3, <3>2 DEF Integrate, IInv, Collected, OneInverter, Emptied,
                        Untouched, Pinned, Rewired, Gone
    <3>3. QED
      BY <3>1, <3>2
  <2>4. ASSUME NEW i \in Inv, Skip(i) PROVE IInv'
    BY <2>4 DEF Skip, IInv, Collected, OneInverter, Emptied, Untouched, Pinned,
                Rewired, Gone
  <2>5. CASE Finish
    BY <2>5 DEF Finish, IInv, Collected, OneInverter, Emptied, Untouched,
                Pinned, Rewired, Gone
  <2>6. CASE Stopped \/ UNCHANGED vars
    BY <2>6 DEF Stopped, vars, IInv, Collected, OneInverter, Emptied, Untouched,
                Pinned, Rewired, Gone
  <2>7. QED
    BY <2>1, <2>2, <2>3, <2>4, <2>5, <2>6 DEF Next
<1>3. QED
  BY <1>1, <1>2, TypeCorrect, PTL DEF Spec

(* Under every assignment of values that the inverters admit, every pin sees *)
(* behind its own inversion what it saw before the pass.                     *)
THEOREM ValuesKeptHolds == Spec => []ValuesKept
<1>1. TypeOK /\ IInv => ValuesKept
  <2> SUFFICES ASSUME TypeOK, IInv, NEW v \in [Net -> BOOLEAN],
                      \A i \in Inv : v[design.y[i]] = ~v[design.a[i]],
                      NEW p \in Pin
               PROVE  (v[reads[p]] = mask[p])
                        = (v[design.reads[p]] = design.mask[p])
    BY DEF ValuesKept
  <2>1. Rewired(p)
    BY DEF IInv, Pinned
  <2>2. CASE reads[p] = design.reads[p] /\ mask[p] = design.mask[p]
    BY <2>2
  <2>3. ASSUME NEW i \in Inv, design.reads[p] = design.y[i],
               reads[p] = design.a[i], mask[p] = ~design.mask[p]
        PROVE  (v[reads[p]] = mask[p])
                 = (v[design.reads[p]] = design.mask[p])
    <3>1. design.a[i] \in Net /\ design.mask[p] \in BOOLEAN
      BY DEF TypeOK, DesignType
    <3>2. v[design.a[i]] \in BOOLEAN
      BY <3>1
    <3>3. v[design.reads[p]] = ~v[reads[p]]
      BY <2>3
    <3>4. v[reads[p]] \in BOOLEAN /\ design.mask[p] \in BOOLEAN
      BY <2>3, <3>1, <3>2
    <3>5. QED
      BY <2>3, <3>3, <3>4
  <2>4. QED
    BY <2>1, <2>2, <2>3 DEF Rewired
<1>2. QED
  BY <1>1, Invariance, PTL

(* Nothing left in the module reads an inverter that was removed.            *)
THEOREM ReadsDrivenHolds == Spec => []ReadsDriven
<1>1. IInv => ReadsDriven
  BY DEF IInv, Gone, ReadsDriven
<1>2. QED
  BY <1>1, Invariance, PTL

(* The sinks an inverter has when it is looked at decide as the ones it had  *)
(* before the pass: pins only arrive at a net that an inverter read.         *)
LEMMA SinksAgree ==
    ASSUME TypeOK, IInv, Decided, step = "integrate", NEW i \in todo
    PROVE  OnlyItsPins(i) <=> OnlyItsPinsBefore(i)
<1>1. /\ i \in alive /\ i \in Inv /\ pins[i] \subseteq Pin
      /\ \A j, k \in Inv : design.y[j] = design.y[k] => j = k
      /\ \A p \in pins[i] : reads[p] = design.y[i]
                              /\ design.reads[p] = design.y[i]
      /\ \A p \in Pin : Rewired(p)
  BY DEF IInv, Collected, Pinned, TypeOK, PinsOf
<1>2. \A j \in Inv : \A p \in pins[j] : p \in Pin
                                        /\ design.reads[p] = design.y[j]
  BY DEF IInv, Collected, TypeOK, PinsOf, DesignType
<1>3. ASSUME OnlyItsPins(i) PROVE OnlyItsPinsBefore(i)
  <2>1. ASSUME NEW j \in Inv PROVE design.a[j] # design.y[i]
    <3>1. CASE j \in alive
      BY <1>3, <3>1 DEF OnlyItsPins
    <3>2. CASE j \notin alive
      <4>1. PICK p \in pins[j] : reads[p] = design.a[j]
        BY <3>2 DEF Decided
      <4>2. p \in Pin /\ design.reads[p] = design.y[j]
        BY <1>2, <4>1
      <4>3. p \notin pins[i]
        BY <1>1, <3>2, <4>2
      <4>4. QED
        BY <1>3, <4>1, <4>2, <4>3 DEF OnlyItsPins
    <3>3. QED
      BY <3>1, <3>2
  <2>2. ASSUME NEW p \in Pin, design.reads[p] = design.y[i]
        PROVE  p \in pins[i]
    <3>1. reads[p] = design.y[i]
      BY <1>1, <2>2 DEF Rewired
    <3>2. QED
      BY <1>3, <3>1 DEF OnlyItsPins
  <2>3. QED
    BY <1>1, <1>3, <2>1, <2>2 DEF OnlyItsPinsBefore, OnlyItsPins
<1>4. ASSUME OnlyItsPinsBefore(i) PROVE OnlyItsPins(i)
  <2>1. ASSUME NEW p \in Pin, reads[p] = design.y[i] PROVE p \in pins[i]
    BY <1>1, <1>4, <2>1 DEF Rewired, OnlyItsPinsBefore
  <2>2. \A j \in alive : design.a[j] # design.y[i]
    BY <1>4 DEF OnlyItsPinsBefore, TypeOK
  <2>3. QED
    BY <1>1, <1>4, <2>1, <2>2 DEF OnlyItsPinsBefore, OnlyItsPins
<1>5. QED
  BY <1>3, <1>4

(* The same inverters go in whatever order they are looked at.               *)
THEOREM OrderDoesNotMatterHolds == Spec => []OrderDoesNotMatter
<1>1. Init => Decided
  BY DEF Init, Decided
<1>2. TypeOK /\ IInv /\ Decided /\ [Next]_vars => Decided'
  <2> SUFFICES ASSUME TypeOK, IInv, Decided, [Next]_vars PROVE Decided'
    OBVIOUS
  <2>1. CASE Build
    BY <2>1 DEF Build, Decided
  <2>2. CASE Collect
    <3>1. alive = Inv
      BY <2>2 DEF Collect, IInv, Untouched
    <3>2. /\ pins' = [i \in Inv |-> PinsOf(design, i)] /\ alive' = alive
          /\ todo' = {i \in Inv : PinsOf(design, i) # {}}
      BY <2>2 DEF Collect
    <3>3. QED
      BY <3>1, <3>2 DEF Decided
  <2>3. ASSUME NEW i \in Inv, Integrate(i) PROVE Decided'
    <3>1. CASE pins[i] \cap design.odd # {}
      BY <2>3, <3>1 DEF Integrate, Decided
    <3>2. CASE pins[i] \cap design.odd = {}
      <4>1. /\ step = "integrate" /\ i \in todo /\ OnlyItsPins(i)
            /\ UNCHANGED <<step, design, pins>>
            /\ todo' = todo \ {i} /\ alive' = alive \ {i}
            /\ reads' = [p \in Pin |-> IF p \in pins[i] THEN design.a[i]
                                       ELSE reads[p]]
        BY <2>3, <3>2 DEF Integrate
      <4>2. OnlyItsPinsBefore(i) /\ pins[i] # {}
        BY <4>1, SinksAgree DEF Decided
      <4>3. \A j \in Inv : OnlyItsPinsBefore(j)' <=> OnlyItsPinsBefore(j)
        BY <4>1 DEF OnlyItsPinsBefore
      <4>4. \A j \in Inv : \A p \in pins[j] :
              p \in Pin /\ (j # i => p \notin pins[i])
        BY <4>1 DEF IInv, Collected, PinsOf, TypeOK, DesignType
      <4>5. ASSUME NEW j \in Inv \ alive', NEW p \in pins[j]
            PROVE  reads'[p] = design.a[j]
        BY <4>1, <4>4, <4>5 DEF Decided
      <4>6. \A j \in Inv \ alive' : pins[j] # {} /\ OnlyItsPinsBefore(j)
        BY <4>1, <4>2 DEF Decided
      <4>7. \A j \in alive' :
              j \in todo' \/ pins[j] = {} \/ ~OnlyItsPinsBefore(j)
        BY <4>1 DEF Decided
      <4>8. alive' \subseteq Inv
        BY <4>1 DEF TypeOK
      <4>9. QED
        BY <4>1, <4>3, <4>5, <4>6, <4>7, <4>8 DEF Decided
    <3>3. QED
      BY <3>1, <3>2
  <2>4. ASSUME NEW i \in Inv, Skip(i) PROVE Decided'
    <3>1. /\ step = "integrate" /\ i \in todo /\ ~OnlyItsPins(i)
          /\ todo' = todo \ {i}
          /\ UNCHANGED <<design, step, alive, reads, mask, pins>>
      BY <2>4 DEF Skip
    <3>2. ~OnlyItsPinsBefore(i)
      BY <3>1, SinksAgree
    <3>3. \A j \in Inv : OnlyItsPinsBefore(j)' <=> OnlyItsPinsBefore(j)
      BY <3>1 DEF OnlyItsPinsBefore
    <3>4. QED
      BY <3>1, <3>2, <3>3 DEF Decided, TypeOK
  <2>5. CASE Finish
    BY <2>5 DEF Finish, Decided, OnlyItsPinsBefore
  <2>6. CASE Stopped \/ UNCHANGED vars
    BY <2>6 DEF Stopped, vars, Decided, OnlyItsPinsBefore
  <2>7. QED
    BY <2>1, <2>2, <2>3, <2>4, <2>5, <2>6 DEF Next
<1>3. TypeOK /\ IInv /\ Decided => OrderDoesNotMatter
  <2> SUFFICES ASSUME TypeOK, Decided, step = "done", NEW i \in Inv,
                      TypeOK, IInv
               PROVE  i \notin alive <=> pins[i] # {} /\ OnlyItsPinsBefore(i)
    BY DEF OrderDoesNotMatter, OnlyItsPinsBefore
  <2>1. todo = {}
    BY DEF IInv, Emptied
  <2>2. QED
    BY <2>1 DEF Decided
<1>4. QED
  BY <1>1, <1>2, <1>3, Invariance, TypeCorrect, PTL DEF Spec

(* No inverter that drives an assigned output port goes, whatever was moved  *)
(* onto its net since the inverters were collected.                          *)
THEOREM AssignedPortsDrivenHolds == Spec => []AssignedPortsDriven
<1>1. Init => AssignedPortsDriven
  BY DEF Init, AssignedPortsDriven
<1>2. AssignedPortsDriven /\ [Next]_vars => AssignedPortsDriven'
  <2> SUFFICES ASSUME AssignedPortsDriven, [Next]_vars
               PROVE  AssignedPortsDriven'
    OBVIOUS
  <2>1. ASSUME NEW i \in Inv, Integrate(i) PROVE AssignedPortsDriven'
    BY <2>1 DEF Integrate, OnlyItsPins, AssignedPortsDriven
  <2>2. CASE \/ Build \/ Collect \/ Finish \/ Stopped \/ UNCHANGED vars
             \/ \E i \in Inv : Skip(i)
    BY <2>2 DEF Build, Collect, Finish, Stopped, vars, Skip,
                AssignedPortsDriven
  <2>3. QED
    BY <2>1, <2>2 DEF Next
<1>3. QED
  BY <1>1, <1>2, PTL DEF Spec

------------------------------------------------------------------------------
(* opt_lut_dedup is the other small pass that rewires pins in place: it      *)
(* changes no function and leaves no pair, for any number of LUTs of any     *)
(* width, any tables and any connections.                                    *)
LutsTyped ==
    /\ before = [c \in Lut |-> before[c]] /\ cell = [c \in Lut |-> cell[c]]
    /\ \A c \in Lut : IsLut(cell[c])
    /\ toVisit \subseteq Lut /\ changed \in BOOLEAN

(* While no cell has changed in a round, those it has come to have no pair.  *)
Clean == ~changed => \A c \in Lut \ toVisit : Twins(cell[c]) = {}

DedupInv == LutsTyped /\ FunctionKept /\ Clean

(* Taking off the later input of a pair leaves a LUT of one input less ...   *)
LEMMA Narrower ==
  ASSUME NEW l, IsLut(l), NEW p \in Twins(l)
  PROVE  IsLut(Without(p, l))
<1>1. PICK w \in 1 .. MaxWidth : l \in LutOf(w)
  BY DEF IsLut
<1>2. /\ l.width = w /\ l.a \in [Inputs(w) -> LutNet]
      /\ l.lut \in [SUBSET Inputs(w) -> BOOLEAN]
  BY <1>1 DEF LutOf
<1>3. /\ p[1] \in 0 .. w - 1 /\ p[2] \in 0 .. w - 1 /\ p[1] < p[2]
  BY <1>2 DEF Twins, Inputs
<1>4. w \in Int /\ w - 1 \in 1 .. MaxWidth
  BY <1>3, LutAssumption
<1>5. [i \in Inputs(w - 1) |-> IF i < p[2] THEN l.a[i] ELSE l.a[i + 1]]
        \in [Inputs(w - 1) -> LutNet]
  <2>1. \A i \in Inputs(w - 1) : i \in Inputs(w) /\ i + 1 \in Inputs(w)
    BY <1>4 DEF Inputs
  <2> QED BY <2>1, <1>2
<1>6. [S \in SUBSET Inputs(w - 1) |->
         l.lut[{bit \in Inputs(w) : Source(p, bit) \in S}]]
        \in [SUBSET Inputs(w - 1) -> BOOLEAN]
  <2>1. \A S : {bit \in Inputs(w) : Source(p, bit) \in S} \in SUBSET Inputs(w)
    OBVIOUS
  <2> QED BY <2>1, <1>2
<1>7. Without(p, l) \in LutOf(w - 1)
  BY <1>2, <1>5, <1>6 DEF Without, LutOf
<1> QED BY <1>4, <1>7 DEF IsLut

(* ... that computes the same: what is read at an index of the halved table  *)
(* is what the old table has at the index with the bit of the twin put in.   *)
LEMMA SameValue ==
  ASSUME NEW l, IsLut(l), NEW p \in Twins(l), NEW v \in [LutNet -> BOOLEAN]
  PROVE  Value(Without(p, l), v) = Value(l, v)
<1>1. PICK w \in 1 .. MaxWidth : l \in LutOf(w)
  BY DEF IsLut
<1>2. l.width = w
  BY <1>1 DEF LutOf
<1>3. /\ w \in Int
      /\ p[1] \in 0 .. w - 1 /\ p[2] \in 0 .. w - 1 /\ p[1] < p[2]
      /\ Root[l.a[p[1]]] = Root[l.a[p[2]]]
  BY <1>2, LutAssumption DEF Twins, Inputs, Same
<1> DEFINE n   == Without(p, l)
           On  == {i \in Inputs(w - 1) : v[Root[n.a[i]]]}
           Old == {bit \in Inputs(w) : Source(p, bit) \in On}
<1>4. /\ n.width = w - 1
      /\ \A i \in Inputs(w - 1) : n.a[i] = IF i < p[2] THEN l.a[i] ELSE l.a[i + 1]
      /\ \A S \in SUBSET Inputs(w - 1) :
           n.lut[S] = l.lut[{bit \in Inputs(w) : Source(p, bit) \in S}]
  BY <1>2 DEF Without
<1>5. ASSUME NEW bit \in Inputs(w)
      PROVE  Source(p, bit) \in On <=> v[Root[l.a[bit]]]
  <2>0. bit \in 0 .. w - 1
    BY DEF Inputs
  <2>1. CASE bit < p[2]
    <3>1. Source(p, bit) = bit /\ bit \in Inputs(w - 1)
      BY <2>0, <2>1, <1>3 DEF Source, Inputs
    <3> QED BY <3>1, <2>1, <1>4
  <2>2. CASE bit = p[2]
    <3>1. Source(p, bit) = p[1] /\ p[1] \in Inputs(w - 1)
      BY <2>0, <2>2, <1>3 DEF Source, Inputs
    <3> QED BY <3>1, <2>2, <1>3, <1>4
  <2>3. CASE bit > p[2]
    <3>1. /\ Source(p, bit) = bit - 1 /\ bit - 1 \in Inputs(w - 1)
          /\ ~(bit - 1 < p[2]) /\ (bit - 1) + 1 = bit
      BY <2>0, <2>3, <1>3 DEF Source, Inputs
    <3> QED BY <3>1, <1>4
  <2> QED BY <2>0, <2>1, <2>2, <2>3, <1>3
<1>6. Old = {bit \in Inputs(w) : v[Root[l.a[bit]]]}
  BY <1>5
<1>7. Value(n, v) = n.lut[On]
  BY <1>4 DEF Value
<1>8. n.lut[On] = l.lut[Old]
  BY <1>4
<1> QED BY <1>2, <1>6, <1>7, <1>8 DEF Value

LEMMA DedupInit == LutInit => DedupInv
BY LutAssumption DEF LutInit, DedupInv, LutsTyped, FunctionKept, Clean

LEMMA DedupStep == DedupInv /\ [LutNext]_lutVars => DedupInv'
<1> SUFFICES ASSUME DedupInv, [LutNext]_lutVars PROVE DedupInv'
  OBVIOUS
<1> USE DEF DedupInv
<1>1. ASSUME NEW c \in Lut, Visit(c) PROVE DedupInv'
  <2>1. CASE Twins(cell[c]) = {} /\ UNCHANGED cell
    <3>1. LutsTyped' /\ FunctionKept'
      BY <1>1, <2>1 DEF Visit, LutsTyped, FunctionKept, Another
    <3>2. Clean'
      BY <1>1, <2>1 DEF Visit, Clean, Another
    <3> QED BY <3>1, <3>2
  <2>2. ASSUME NEW p \in Twins(cell[c]), cell' = [cell EXCEPT ![c] = Without(p, @)]
        PROVE  DedupInv'
    <3>1. /\ cell'[c] = Without(p, cell[c])
          /\ \A d \in Lut \ {c} : cell'[d] = cell[d]
          /\ cell' = [d \in Lut |-> cell'[d]]
      BY <2>2 DEF LutsTyped
    <3>2. IsLut(cell[c])
      BY DEF LutsTyped
    <3>3. LutsTyped'
      <4>1. IsLut(cell'[c])
        BY <3>1, <3>2, <2>2, Narrower
      <4>2. \A d \in Lut : IsLut(cell'[d])
        BY <4>1, <3>1 DEF LutsTyped
      <4> QED BY <4>2, <3>1, <1>1 DEF Visit, Another, LutsTyped
    <3>4. FunctionKept'
      <4> SUFFICES ASSUME NEW d \in Lut, NEW v \in [LutNet -> BOOLEAN]
                   PROVE  Value(cell'[d], v) = Value(before'[d], v)
        BY DEF FunctionKept
      <4>1. Value(cell'[d], v) = Value(cell[d], v)
        BY <3>1, <3>2, <2>2, SameValue
      <4> QED BY <4>1, <1>1 DEF Visit, FunctionKept
    <3>5. changed'
      BY <1>1, <2>2 DEF Visit, Another
    <3> QED BY <3>3, <3>4, <3>5 DEF Clean
  <2> QED BY <1>1, <2>1, <2>2 DEF Visit
<1>2. CASE NextRound
  BY <1>2 DEF NextRound, LutsTyped, FunctionKept, Clean
<1>3. CASE Finished \/ UNCHANGED lutVars
  BY <1>3 DEF Finished, lutVars, LutsTyped, FunctionKept, Clean
<1> QED BY <1>1, <1>2, <1>3 DEF LutNext

(* Every LUT computes what it computed before the pass, at every step of it. *)
THEOREM FunctionKeptHolds == LutSpec => []FunctionKept
<1>1. DedupInv => FunctionKept
  BY DEF DedupInv
<1> QED BY DedupInit, DedupStep, <1>1, PTL DEF LutSpec

(* No LUT has two inputs on one net when the pass returns.                   *)
THEOREM DistinctAtEndHolds == LutSpec => []DistinctAtEnd
<1>1. DedupInv => DistinctAtEnd
  BY DEF DedupInv, Clean, DistinctAtEnd, Done
<1> QED BY DedupInit, DedupStep, <1>1, PTL DEF LutSpec
==============================================================================
