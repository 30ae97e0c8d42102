----------------------------- MODULE Chains_proofs -----------------------------
(* What holds along a chain: of wires, whose clocks propagate_clocks sets,   *)
(* for every netlist, every order of commands and every order in which the   *)
(* clocks of a pass are come to; and of cascaded DSPs, which                 *)
(* ql_dspv2_to_dspv4 converts, for every netlist and every order of cells.   *)
EXTENDS SdcClocks, Dspv2Flow, FiniteSetTheorems, TLAPS

TypeOK ==
    /\ design \in Designs
    /\ clock \in [Wire -> Clock \cup {NoClock}]
    /\ todo \subseteq Clocks
    /\ pass \in {"none", "aborted", "abc9"} \cup DOMAIN Following

------------------------------------------------------------------------------
(* The wires behind a wire.                                                  *)
From(bufs, w) == Behind(bufs, w) \cup {w}

(* They are closed under buffers, each is the output of one, and whatever    *)
(* holds of w and is passed on by buffers holds of them.                     *)
LEMMA FromFacts ==
  ASSUME NEW bufs \in SUBSET Buffer, NEW w \in Wire
  PROVE  /\ Behind(bufs, w) \subseteq Wire /\ w \notin Behind(bufs, w)
         /\ \A b \in bufs : b.in \in From(bufs, w) => b.out \in From(bufs, w)
         /\ \A v \in Behind(bufs, w) : \E b \in bufs : b.out = v /\ b.in \in From(bufs, w)
<1> DEFINE ends      == {b.out : b \in bufs}
           closed(S) == \A b \in bufs : b.in \in S \cup {w} => b.out \in S
           E         == {v \in ends : \A S \in SUBSET ends : closed(S) => v \in S}
<1>1. Behind(bufs, w) = E \ {w}
  BY DEF Behind
<1>2. From(bufs, w) = E \cup {w}
  BY <1>1 DEF From
<1>3. ends \subseteq Wire
  BY DEF Buffer
<1>4. closed(E)
  <2> SUFFICES ASSUME NEW b \in bufs, b.in \in E \cup {w},
                      NEW S \in SUBSET ends, closed(S)
               PROVE  b.out \in S
    OBVIOUS
  <2>1. b.in \in S \cup {w}
    OBVIOUS
  <2> QED BY <2>1
<1>5. ASSUME NEW v \in E, v # w
      PROVE  \E b \in bufs : b.out = v /\ b.in \in E \cup {w}
  <2> SUFFICES ASSUME \A b \in bufs : b.out = v => b.in \notin E \cup {w}
               PROVE  FALSE
    OBVIOUS
  <2>1. closed(E \ {v})
    BY <1>4
  <2>2. E \ {v} \in SUBSET ends
    OBVIOUS
  <2>3. v \in E \ {v}
    BY <2>1, <2>2
  <2> QED BY <2>3
<1> HIDE DEF E, closed
<1>6. \A b \in bufs : b.in \in From(bufs, w) => b.out \in From(bufs, w)
  BY <1>2, <1>4 DEF closed
<1>7. E \subseteq ends
  BY DEF E
<1>8. \A v \in Behind(bufs, w) : \E b \in bufs : b.out = v /\ b.in \in From(bufs, w)
  BY <1>1, <1>2, <1>5
<1> QED BY <1>1, <1>3, <1>6, <1>7, <1>8

LEMMA FromLeast ==
  ASSUME NEW bufs \in SUBSET Buffer, NEW w \in Wire, NEW T, w \in T,
         \A b \in bufs : b.in \in From(bufs, w) /\ b.in \in T => b.out \in T
  PROVE  From(bufs, w) \subseteq T
<1> DEFINE ends      == {b.out : b \in bufs}
           closed(S) == \A b \in bufs : b.in \in S \cup {w} => b.out \in S
           E         == {v \in ends : \A S \in SUBSET ends : closed(S) => v \in S}
<1>1. From(bufs, w) = E \cup {w}
  BY DEF Behind, From
<1>2. closed(E)
  <2> SUFFICES ASSUME NEW b \in bufs, b.in \in E \cup {w},
                      NEW S \in SUBSET ends, closed(S)
               PROVE  b.out \in S
    OBVIOUS
  <2>1. b.in \in S \cup {w}
    OBVIOUS
  <2> QED BY <2>1
<1>3. closed(E \cap T)
  <2> SUFFICES ASSUME NEW b \in bufs, b.in \in (E \cap T) \cup {w}
               PROVE  b.out \in E \cap T
    OBVIOUS
  <2>1. b.out \in E
    BY <1>2
  <2>2. b.in \in From(bufs, w) /\ b.in \in T
    BY <1>1
  <2> QED BY <2>1, <2>2
<1>4. E \cap T \in SUBSET ends
  OBVIOUS
<1>5. E \subseteq E \cap T
  BY <1>3, <1>4
<1> QED BY <1>1, <1>5

------------------------------------------------------------------------------
(* Netlists.                                                                 *)
LEMMA DesignTypes ==
  ASSUME NEW d \in Designs
  PROVE  /\ d.ibuf \in SUBSET Buffer /\ d.bufg \in SUBSET Buffer
         /\ d.dividers \in SUBSET Divider
         /\ IsNetlist(d)
BY ClocksAssumption, NetlistAssumption DEF DesignType

(* Buffers behind w have their outputs strictly behind w, and only they.     *)
LEMMA OneWay ==
  ASSUME NEW d \in Designs, NEW bufs \in {d.ibuf, d.bufg}, NEW w \in Wire, NEW b \in bufs
  PROVE  b.in \in From(bufs, w) <=> b.out \in Behind(bufs, w)
<1>1. bufs \in SUBSET Buffer
  BY DesignTypes
<1>2. \A c \in bufs : c.out = b.out => c = b
  BY DesignTypes DEF IsNetlist
<1>3. ASSUME b.out \in Behind(bufs, w) PROVE b.in \in From(bufs, w)
  BY <1>1, <1>2, <1>3, FromFacts
<1>4. ASSUME b.in \in From(bufs, w), b.out = w PROVE FALSE
  <2>1. CASE bufs = d.bufg
    BY <1>4, <2>1, DesignTypes DEF IsNetlist, From
  <2>2. CASE bufs = d.ibuf
    <3>1. \A c \in bufs : c.out # b.in
      BY <2>2, DesignTypes DEF IsNetlist
    <3>2. b.in # w
      BY <1>4, <3>1
    <3>3. b.in \in Behind(bufs, w)
      BY <1>4, <3>2 DEF From
    <3>4. \E c \in bufs : c.out = b.in /\ c.in \in From(bufs, w)
      BY <1>1, <3>3, FromFacts
    <3> QED BY <3>1, <3>4
  <2> QED BY <2>1, <2>2
<1>5. ASSUME b.in \in From(bufs, w) PROVE b.out \in Behind(bufs, w)
  <2>1. b.out \in From(bufs, w)
    BY <1>1, <1>5, FromFacts
  <2> QED BY <1>4, <1>5, <2>1 DEF From
<1> QED BY <1>3, <1>5

(* No global buffer and no divider drives a wire of an input buffer, and no  *)
(* buffer that of a divider.                                                 *)
LEMMA DriversApart ==
  ASSUME NEW d \in Designs
  PROVE  /\ \A w \in Wire : \A b \in d.ibuf :
              b.in \notin Behind(d.bufg, w) /\ b.out \notin Behind(d.bufg, w)
         /\ \A p \in d.dividers : \A o \in p.outs :
              /\ \A b \in d.ibuf : b.in # o.wire /\ b.out # o.wire
              /\ \A b \in d.bufg : b.out # o.wire
              /\ \A w \in Wire : o.wire \notin Behind(d.bufg, w)
<1>1. ASSUME NEW w \in Wire, NEW b \in d.ibuf, NEW v \in Behind(d.bufg, w)
      PROVE  b.in # v /\ b.out # v
  <2>1. PICK c \in d.bufg : c.out = v
    BY DesignTypes, FromFacts
  <2>2. c.out # b.in
    BY DesignTypes DEF IsNetlist
  <2>3. c # b
    BY DesignTypes DEF IsNetlist
  <2>4. c.out # b.out
    BY <2>3, DesignTypes DEF IsNetlist
  <2> QED BY <2>1, <2>2, <2>4
<1>2. ASSUME NEW p \in d.dividers, NEW o \in p.outs
      PROVE  /\ \A b \in d.ibuf : b.in # o.wire /\ b.out # o.wire
             /\ \A b \in d.bufg : b.out # o.wire
  BY DesignTypes DEF IsNetlist
<1>3. ASSUME NEW p \in d.dividers, NEW o \in p.outs, NEW w \in Wire
      PROVE  o.wire \notin Behind(d.bufg, w)
  <2> SUFFICES ASSUME o.wire \in Behind(d.bufg, w) PROVE FALSE
    OBVIOUS
  <2>1. PICK c \in d.bufg : c.out = o.wire
    BY DesignTypes, FromFacts
  <2> QED BY <1>2, <2>1
<1> QED BY <1>1, <1>2, <1>3

------------------------------------------------------------------------------
(* Clocks.                                                                   *)
LEMMA ClockFacts ==
  ASSUME NEW c \in Clock, NEW v \in Wire
  PROVE  /\ c # NoClock
         /\ Propagated(c, v) \in Clock
         /\ Propagated(c, v) = [kind |-> "propagated", name |-> v, period |-> c.period,
                                rise |-> c.rise, fall |-> c.fall]
         /\ \A u \in Wire : Propagated(Propagated(c, u), v) = Propagated(c, v)
<1>1. PICK k \in Kinds, n \in Name, p \in Nat, r \in Nat, f \in Nat :
        c = [kind |-> k, name |-> n, period |-> p, rise |-> r, fall |-> f]
  BY DEF Clock
<1>2. c # NoClock
  <2>1. c.kind # NoClock.kind
    BY <1>1 DEF NoClock, Kinds
  <2> QED BY <2>1
<1>3. v \in Name
  BY ClocksAssumption
<1>4. \A u \in Wire : Propagated(c, u) =
        [kind |-> "propagated", name |-> u, period |-> c.period,
         rise |-> c.rise, fall |-> c.fall]
  <2> SUFFICES ASSUME NEW u \in Wire
               PROVE  Propagated(c, u) =
                        [kind |-> "propagated", name |-> u, period |-> p,
                         rise |-> r, fall |-> f]
    BY <1>1
  <2>1. PICK d : d = [c EXCEPT !.kind = "propagated"]
    OBVIOUS
  <2>2. d = [kind |-> "propagated", name |-> n, period |-> p, rise |-> r, fall |-> f]
    BY <1>1, <2>1
  <2>3. PICK e : e = [d EXCEPT !.name = u]
    OBVIOUS
  <2>4. e = [kind |-> "propagated", name |-> u, period |-> p, rise |-> r, fall |-> f]
    BY <2>2, <2>3
  <2>5. Propagated(c, u) = [[c EXCEPT !.kind = "propagated"] EXCEPT !.name = u]
    BY <1>1 DEF Propagated
  <2> QED BY <2>1, <2>3, <2>4, <2>5
<1>5. Propagated(c, v) \in Clock
  <2>1. c.period \in Nat /\ c.rise \in Nat /\ c.fall \in Nat
    BY <1>1
  <2> QED BY <1>3, <1>4, <2>1 DEF Clock, Kinds
<1>6. ASSUME NEW u \in Wire PROVE Propagated(Propagated(c, u), v) = Propagated(c, v)
  BY <1>4 DEF Propagated
<1> QED BY <1>2, <1>4, <1>5, <1>6

LEMMA Quotient ==
  ASSUME NEW a \in Nat, NEW b \in Nat \ {0}
  PROVE  a \div b \in Nat /\ a % b \in Nat
OBVIOUS

LEMMA GeneratedType ==
  ASSUME NEW d \in Divider, NEW o \in d.outs, NEW c \in Clock
  PROVE  Generated(d, o, c) \in Clock /\ Generated(d, o, c) # NoClock
<1>1. d.clkin \in Nat /\ d.mult \in Nat \ {0} /\ o.div \in Nat \ {0} /\ o.wire \in Name
  BY ClocksAssumption DEF Divider
<1>2. c.rise \in Nat
  BY DEF Clock
<1>3. d.clkin * o.div \in Nat
  BY <1>1
<1>4. OutPeriod(d, o) \in Nat
  <2>1. \A x \in Nat : x \div d.mult \in Nat
    BY <1>1, Quotient
  <2> QED BY <1>3, <2>1 DEF OutPeriod
<1> DEFINE p == OutPeriod(d, o)
           r == IF p = 0 THEN 0 ELSE c.rise % p
           f == IF p = 0 THEN 0 ELSE (r + Half(p)) % p
<1>5. r \in Nat
  BY <1>2, <1>4, Quotient
<1>6. f \in Nat
  <2>1. CASE p = 0
    BY <2>1
  <2>2. CASE p # 0
    <3>1. Half(p) \in Nat
      BY <1>4, Quotient DEF Half
    <3>2. r + Half(p) \in Nat
      BY <1>5, <3>1
    <3> HIDE DEF p, r
    <3> QED BY <1>4, <2>2, <3>2, Quotient DEF p
  <2> QED BY <2>1, <2>2
<1>7. Generated(d, o, c) = [kind |-> "generated", name |-> o.wire, period |-> p,
                            rise |-> r, fall |-> f]
  BY DEF Generated
<1> HIDE DEF p, r, f
<1>8. Generated(d, o, c) \in Clock
  BY <1>1, <1>4, <1>5, <1>6, <1>7 DEF Clock, Kinds, p
<1>9. o.wire \in Wire
  BY DEF Divider
<1> QED BY <1>8, <1>9, ClockFacts

------------------------------------------------------------------------------
(* What a step does to the clocks.                                           *)
Spread(bufs, w) ==
    [v \in Wire |-> IF v \in Behind(bufs, w) THEN Propagated(clock[w], v) ELSE clock[v]]

(* The wires on which the dividers at w put clocks.                          *)
Outs(w) == UNION {{o.wire : o \in d.outs} : d \in Sinks(w)}

LEMMA BuffersType ==
  ASSUME TypeOK
  PROVE  Buffers \in {design.ibuf, design.bufg} /\ Buffers \in SUBSET Buffer
BY DesignTypes DEF TypeOK, Buffers

LEMMA SpreadType ==
  ASSUME TypeOK, NEW w \in todo, NEW bufs
  PROVE  /\ w \in Wire /\ clock[w] \in Clock
         /\ Spread(bufs, w) \in [Wire -> Clock \cup {NoClock}]
         /\ \A v \in Wire : clock[v] # NoClock => Spread(bufs, w)[v] # NoClock
<1>1. w \in Wire /\ clock[w] \in Clock
  BY DEF TypeOK, Clocks
<1>2. \A v \in Wire : Propagated(clock[w], v) \in Clock /\ Propagated(clock[w], v) # NoClock
  BY <1>1, ClockFacts
<1> QED BY <1>1, <1>2 DEF Spread, TypeOK

(* The one divider that takes the clock of w, and its outputs.               *)
LEMMA SinkOf ==
  ASSUME TypeOK, NEW w \in Wire, ~(Cardinality(Sinks(w)) > 1)
  PROVE  \A d, e \in Sinks(w) : d = e
<1>1. IsFiniteSet(design.dividers)
  BY DesignTypes DEF TypeOK, IsNetlist
<1>2. Sinks(w) \subseteq design.dividers
  BY DEF Sinks, On
<1>3. IsFiniteSet(Sinks(w))
  BY <1>1, <1>2, FS_Subset
<1> SUFFICES ASSUME NEW d \in Sinks(w), NEW e \in Sinks(w), d # e PROVE FALSE
  OBVIOUS
<1>4. {d, e} \subseteq Sinks(w) /\ IsFiniteSet({d, e})
  BY <1>3, FS_Subset
<1>5. Cardinality({d, e}) = 2
  <2>1. Cardinality({d}) = 1 /\ IsFiniteSet({d})
    BY FS_Singleton
  <2>2. Cardinality({d} \cup {e}) = 2
    BY <2>1, FS_AddElement
  <2>3. {d} \cup {e} = {d, e}
    OBVIOUS
  <2> QED BY <2>2, <2>3
<1>6. Cardinality({d, e}) <= Cardinality(Sinks(w))
  BY <1>3, <1>4, FS_Subset
<1>7. Cardinality(Sinks(w)) \in Nat
  BY <1>3, FS_CardinalityType
<1> QED BY <1>5, <1>6, <1>7

LEMMA DividersStep ==
  ASSUME TypeOK, NEW w \in Wire, ThroughDividers(w), pass' # "aborted"
  PROVE  /\ pass = "pll" /\ pass' = pass /\ w \in todo /\ clock[w] \in Clock
         /\ \A d, e \in Sinks(w) : d = e
         /\ \A d \in Sinks(w) : d.pll /\ d.clkin = clock[w].period
         /\ clock' \in [Wire -> Clock \cup {NoClock}]
         /\ \A d \in Sinks(w) : \A o \in d.outs :
              clock'[o.wire] = Generated(d, o, clock[w]) /\ o.wire \in Wire
         /\ \A v \in Wire \ Outs(w) : clock'[v] = clock[v]
         /\ \A v \in Wire : clock[v] # NoClock => clock'[v] # NoClock
<1>1. /\ pass = "pll" /\ pass' = pass /\ w \in todo /\ ~Rejected(w)
      /\ clock' = [v \in Wire |->
            IF \E d \in Sinks(w) : \E o \in d.outs : o.wire = v
            THEN LET d == CHOOSE d \in Sinks(w) : TRUE
                     o == CHOOSE o \in d.outs : o.wire = v
                 IN  Generated(d, o, clock[w])
            ELSE clock[v]]
  BY DEF ThroughDividers
<1>2. clock[w] \in Clock
  BY <1>1 DEF TypeOK, Clocks
<1>3. \A d, e \in Sinks(w) : d = e
  BY <1>1, SinkOf DEF Rejected
<1>4. \A d \in Sinks(w) : d.pll /\ d.clkin = clock[w].period
  BY <1>1 DEF Rejected
<1>5. ASSUME NEW v \in Wire, NEW d \in Sinks(w), NEW o \in d.outs, o.wire = v
      PROVE  clock'[v] = Generated(d, o, clock[w])
  <2>1. PICK e : e = CHOOSE x \in Sinks(w) : TRUE
    OBVIOUS
  <2>2. e = d
    BY <1>3, <2>1
  <2>3. PICK r : r = CHOOSE x \in d.outs : x.wire = v
    OBVIOUS
  <2>4. r \in d.outs /\ r.wire = v
    BY <1>5, <2>3
  <2>5. r = o
    <3>1. d \in design.dividers
      BY DEF Sinks, On
    <3> QED BY <1>5, <2>4, <3>1, DesignTypes DEF TypeOK, IsNetlist
  <2>6. clock'[v] = LET e1 == CHOOSE e1 \in Sinks(w) : TRUE
                        r1 == CHOOSE r1 \in e1.outs : r1.wire = v
                    IN  Generated(e1, r1, clock[w])
    BY <1>1, <1>5
  <2>7. clock'[v] = Generated(e, r, clock[w])
    BY <2>1, <2>2, <2>3, <2>6
  <2> QED BY <2>2, <2>5, <2>7
<1>6. \A d \in Sinks(w) : d \in Divider
  BY DesignTypes DEF Sinks, On, TypeOK
<1>7. ASSUME NEW d \in Sinks(w), NEW o \in d.outs
      PROVE  o.wire \in Wire /\ clock'[o.wire] = Generated(d, o, clock[w])
             /\ clock'[o.wire] \in Clock /\ clock'[o.wire] # NoClock
  <2>1. o.wire \in Wire
    BY <1>6 DEF Divider
  <2>2. clock'[o.wire] = Generated(d, o, clock[w])
    BY <1>5, <2>1
  <2> QED BY <1>2, <1>6, <2>1, <2>2, GeneratedType
<1>8. ASSUME NEW v \in Wire \ Outs(w) PROVE clock'[v] = clock[v]
  BY <1>1, <1>8 DEF Outs
<1>9. ASSUME NEW v \in Wire
      PROVE  /\ clock'[v] \in Clock \cup {NoClock}
             /\ clock[v] # NoClock => clock'[v] # NoClock
  <2>1. CASE v \in Outs(w)
    <3>1. PICK d \in Sinks(w) : \E o \in d.outs : o.wire = v
      BY <2>1 DEF Outs
    <3> QED BY <1>7, <3>1
  <2>2. CASE v \notin Outs(w)
    BY <1>8, <2>2 DEF TypeOK
  <2> QED BY <2>1, <2>2
<1>10. clock' \in [Wire -> Clock \cup {NoClock}]
  <2>1. DOMAIN clock' = Wire /\ clock' = [v \in Wire |-> clock'[v]]
    BY <1>1
  <2> QED BY <1>9, <2>1
<1> QED BY <1>1, <1>2, <1>3, <1>4, <1>7, <1>8, <1>9, <1>10

LEMMA BuffersStep ==
  ASSUME TypeOK, NEW w \in Wire, ThroughBuffers(w), pass' # "aborted"
  PROVE  /\ pass \in {"ibuf", "bufg", "bufgAfter"} /\ pass' = pass
         /\ w \in todo /\ clock' = Spread(Buffers, w)
BY DEF ThroughBuffers, Spread

LEMMA TypeStep == TypeOK /\ [Next]_vars => TypeOK'
<1> SUFFICES ASSUME TypeOK, [Next]_vars PROVE TypeOK'
  OBVIOUS
<1> USE DEF Following
<1>1. design' = design
  BY DEF Next, CreateClock, PropagateClocks, NextPass, ThroughBuffers, ThroughDividers,
         UpdateAbc9, Stopped, vars
<1>2. ASSUME NEW c \in Command, CreateClock(c) PROVE TypeOK'
  <2>1. pass' \in {"none", "aborted"} /\ todo' = todo
    BY <1>2 DEF CreateClock
  <2>2. CASE clock' = clock
    BY <1>1, <2>1, <2>2 DEF TypeOK, Clocks
  <2>3. CASE clock' = [w \in Wire |-> IF w \in c.targets THEN Explicit(c) ELSE clock[w]]
    <3>1. Explicit(c) \in Clock
      <4>1. c \in CommandType
        BY ClocksAssumption
      <4> QED BY <4>1 DEF CommandType, Explicit, Clock, Kinds
    <3>2. Explicit(c) # NoClock
      <4>1. Explicit(c).kind # NoClock.kind
        BY DEF Explicit, NoClock
      <4> QED BY <4>1
    <3> HIDE DEF Following
    <3> QED BY <1>1, <2>1, <2>3, <3>1, <3>2 DEF TypeOK, Clocks
  <2> QED BY <1>2, <2>2, <2>3 DEF CreateClock
<1>3. ASSUME PropagateClocks \/ NextPass \/ UpdateAbc9 \/ Stopped \/ UNCHANGED vars
      PROVE  TypeOK'
  <2>1. clock' = clock /\ (todo' = todo \/ todo' = Clocks \/ todo' = {})
    BY <1>3 DEF PropagateClocks, NextPass, UpdateAbc9, Stopped, vars
  <2>2. pass' \in {"none", "aborted", "abc9"} \cup DOMAIN Following
    BY <1>3 DEF PropagateClocks, NextPass, UpdateAbc9, Stopped, vars, TypeOK
  <2> HIDE DEF Following
  <2> QED BY <1>1, <2>1, <2>2 DEF TypeOK, Clocks
<1>4. ASSUME NEW w \in Wire, ThroughBuffers(w) \/ ThroughDividers(w) PROVE TypeOK'
  <2>1. todo' \subseteq todo /\ (pass' = pass \/ pass' = "aborted")
    BY <1>4 DEF ThroughBuffers, ThroughDividers
  <2>2. CASE pass' = "aborted"
    <3>1. clock' = clock
      BY <1>4, <2>2 DEF ThroughBuffers, ThroughDividers
    <3> HIDE DEF Following
    <3> QED BY <1>1, <2>1, <2>2, <3>1 DEF TypeOK, Clocks
  <2>3. CASE pass' # "aborted"
    <3>1. /\ clock' \in [Wire -> Clock \cup {NoClock}]
          /\ \A v \in Wire : clock[v] # NoClock => clock'[v] # NoClock
      <4>1. CASE ThroughBuffers(w)
        BY <2>3, <4>1, BuffersStep, SpreadType
      <4>2. CASE ThroughDividers(w)
        BY <2>3, <4>2, DividersStep
      <4> QED BY <1>4, <4>1, <4>2
    <3> HIDE DEF Following
    <3> QED BY <1>1, <2>1, <2>3, <3>1 DEF TypeOK, Clocks
  <2> QED BY <2>2, <2>3
<1> QED BY <1>2, <1>3, <1>4 DEF Next

LEMMA TypeInit == Init => TypeOK
BY DEF Init, TypeOK, Clocks

------------------------------------------------------------------------------
(* Buffers.  A buffer agrees if what is at its output is what is at its      *)
(* input; in a pass it does unless a clock still to come is before it.       *)
Agree(c, b) == c[b.in] # NoClock => c[b.out] = Propagated(c[b.in], b.out)

AllAgree(bufs) == \A b \in bufs : Agree(clock, b)

Pending(bufs) ==
    \A b \in bufs : Agree(clock, b) \/ \E u \in todo : b.in \in From(bufs, u)

AfterPropagation == pass = "abc9" \/ (pass = "none" /\ settled)

BuffersInv ==
    /\ pass = "ibuf" => Pending(design.ibuf)
    /\ pass \in {"bufg", "pll", "bufgAfter"} \/ AfterPropagation => AllAgree(design.ibuf)
    /\ pass \in {"bufg", "bufgAfter"} => Pending(design.bufg)
    /\ AfterPropagation => AllAgree(design.bufg)

(* The clock of w reaches every wire behind it and no other.                 *)
LEMMA SpreadAgrees ==
  ASSUME TypeOK, NEW w \in todo, NEW bufs \in {design.ibuf, design.bufg}, NEW b \in bufs
  PROVE  /\ b.in \in From(bufs, w) => Agree(Spread(bufs, w), b)
         /\ b.in \notin From(bufs, w) =>
              Spread(bufs, w)[b.in] = clock[b.in] /\ Spread(bufs, w)[b.out] = clock[b.out]
<1>1. w \in Wire /\ clock[w] \in Clock
  BY SpreadType
<1>2. design \in Designs
  BY DEF TypeOK
<1>3. b.in \in Wire /\ b.out \in Wire
  BY <1>2, DesignTypes DEF Buffer
<1>4. b.in \in From(bufs, w) <=> b.out \in Behind(bufs, w)
  BY <1>1, <1>2, OneWay
<1> DEFINE c == Spread(bufs, w)
<1>5. \A v \in Wire : c[v] = IF v \in Behind(bufs, w) THEN Propagated(clock[w], v)
                             ELSE clock[v]
  BY DEF Spread
<1> HIDE DEF c
<1>6. ASSUME b.in \in From(bufs, w) PROVE Agree(c, b)
  <2>1. c[b.out] = Propagated(clock[w], b.out)
    BY <1>3, <1>4, <1>5, <1>6
  <2>2. CASE b.in \in Behind(bufs, w)
    <3>1. c[b.in] = Propagated(clock[w], b.in)
      BY <1>3, <1>5, <2>2
    <3>2. Propagated(Propagated(clock[w], b.in), b.out) = Propagated(clock[w], b.out)
      BY <1>1, <1>3, ClockFacts
    <3> QED BY <2>1, <3>1, <3>2 DEF Agree
  <2>3. CASE b.in \notin Behind(bufs, w)
    <3>1. b.in = w /\ c[b.in] = clock[w]
      BY <1>3, <1>5, <1>6, <2>3 DEF From
    <3> QED BY <2>1, <3>1 DEF Agree
  <2> QED BY <2>2, <2>3
<1>7. ASSUME b.in \notin From(bufs, w)
      PROVE  c[b.in] = clock[b.in] /\ c[b.out] = clock[b.out]
  <2>1. b.in \notin Behind(bufs, w)
    BY <1>7 DEF From
  <2> QED BY <1>3, <1>4, <1>5, <1>7, <2>1
<1> QED BY <1>6, <1>7 DEF c

LEMMA SpreadPending ==
  ASSUME TypeOK, NEW w \in todo, NEW bufs \in {design.ibuf, design.bufg}, Pending(bufs),
         clock' = Spread(bufs, w), todo' = todo \ {w}, NEW b \in bufs
  PROVE  Agree(clock', b) \/ \E u \in todo' : b.in \in From(bufs, u)
<1>1. CASE b.in \in From(bufs, w)
  BY <1>1, SpreadAgrees
<1>2. CASE b.in \notin From(bufs, w)
  <2>1. clock'[b.in] = clock[b.in] /\ clock'[b.out] = clock[b.out]
    BY <1>2, SpreadAgrees
  <2>2. Agree(clock, b) \/ \E u \in todo : b.in \in From(bufs, u)
    BY DEF Pending
  <2> QED BY <1>2, <2>1, <2>2 DEF Agree
<1> QED BY <1>1, <1>2

(* The other passes write on no wire of an input buffer.                     *)
LEMMA InputsStand ==
  ASSUME TypeOK, AllAgree(design.ibuf), NEW w \in Wire,
         \/ ThroughBuffers(w) /\ Buffers = design.bufg
         \/ ThroughDividers(w),
         pass' # "aborted"
  PROVE  \A b \in design.ibuf : Agree(clock', b)
<1> SUFFICES ASSUME NEW b \in design.ibuf PROVE Agree(clock', b)
  OBVIOUS
<1>1. design \in Designs
  BY DEF TypeOK
<1>2. b.in \in Wire /\ b.out \in Wire
  BY <1>1, DesignTypes DEF Buffer
<1>3. clock'[b.in] = clock[b.in] /\ clock'[b.out] = clock[b.out]
  <2>1. CASE ThroughBuffers(w) /\ Buffers = design.bufg
    <3>1. clock' = Spread(design.bufg, w)
      BY <2>1, BuffersStep
    <3>2. b.in \notin Behind(design.bufg, w) /\ b.out \notin Behind(design.bufg, w)
      BY <1>1, DriversApart
    <3> QED BY <1>2, <3>1, <3>2 DEF Spread
  <2>2. CASE ThroughDividers(w)
    <3>1. b.in \notin Outs(w) /\ b.out \notin Outs(w)
      <4>1. \A d \in Sinks(w) : d \in design.dividers
        BY DEF Sinks, On
      <4> QED BY <1>1, <4>1, DriversApart DEF Outs
    <3> QED BY <1>2, <2>2, <3>1, DividersStep
  <2> QED BY <2>1, <2>2
<1> QED BY <1>3 DEF AllAgree, Agree

(* Clocks that were there when a pass began are still to come.               *)
LEMMA PendingBegins ==
  ASSUME TypeOK, NEW bufs \in {design.ibuf, design.bufg}, NEW b \in bufs
  PROVE  Agree(clock, b) \/ \E u \in Clocks : b.in \in From(bufs, u)
<1>1. b.in \in Wire
  BY DesignTypes DEF TypeOK, Buffer
<1>2. b.in \in From(bufs, b.in)
  BY DEF From
<1> QED BY <1>1, <1>2 DEF Agree, Clocks

LEMMA BuffersInvStep == TypeOK /\ BuffersInv /\ [Next]_vars => BuffersInv'
<1> SUFFICES ASSUME TypeOK, BuffersInv, [Next]_vars PROVE BuffersInv'
  OBVIOUS
<1>1. design' = design
  BY DEF Next, CreateClock, PropagateClocks, NextPass, ThroughBuffers, ThroughDividers,
         UpdateAbc9, Stopped, vars
<1>2. CASE \E c \in Command : CreateClock(c)
  <2>1. pass' \in {"none", "aborted"} /\ ~settled'
    BY <1>2 DEF CreateClock
  <2> QED BY <2>1 DEF BuffersInv, AfterPropagation
<1>3. CASE PropagateClocks
  <2>1. pass' = "ibuf" /\ todo' = Clocks /\ clock' = clock
    BY <1>3 DEF PropagateClocks
  <2>2. Pending(design.ibuf)'
    BY <1>1, <2>1, PendingBegins DEF Pending, Agree
  <2> QED BY <2>1, <2>2 DEF BuffersInv, AfterPropagation
<1>4. CASE NextPass
  <2>1. todo = {} /\ clock' = clock /\ pass \in DOMAIN Following /\ pass' = Following[pass]
    BY <1>4 DEF NextPass
  <2>2. \A bufs : Pending(bufs) => AllAgree(bufs)
    BY <2>1 DEF Pending, AllAgree
  <2>3. pass' # "abc9" => Pending(design.bufg)'
    <3>1. pass' # "abc9" => todo' = Clocks
      BY <1>4, <2>1 DEF NextPass, Following
    <3> QED BY <1>1, <2>1, <3>1, PendingBegins DEF Pending, Agree
  <2>4. AllAgree(design.ibuf)
    BY <2>1, <2>2 DEF BuffersInv, Following
  <2>5. pass' = "abc9" => AllAgree(design.bufg)
    <3>1. pass \in {"ibuf", "bufg", "pll", "bufgAfter"}
      BY <2>1 DEF Following
    <3>2. pass' = "abc9" => pass = "bufgAfter"
      <4>1. /\ Following["ibuf"] = "bufg" /\ Following["bufg"] = "pll"
            /\ Following["pll"] = "bufgAfter"
        BY DEF Following
      <4>2. pass = "bufgAfter" \/ pass' \in {"bufg", "pll", "bufgAfter"}
        BY <2>1, <3>1, <4>1
      <4> QED BY <4>2
    <3> QED BY <2>2, <3>2 DEF BuffersInv
  <2>6. AllAgree(design.ibuf)' /\ (pass' = "abc9" => AllAgree(design.bufg)')
    BY <1>1, <2>1, <2>4, <2>5 DEF AllAgree
  <2>7. pass' \in {"bufg", "pll", "bufgAfter", "abc9"}
    BY <2>1 DEF Following
  <2> QED BY <2>3, <2>6, <2>7 DEF BuffersInv, AfterPropagation
<1>5. ASSUME NEW w \in Wire, ThroughBuffers(w), pass' # "aborted" PROVE BuffersInv'
  <2>1. /\ pass \in {"ibuf", "bufg", "bufgAfter"} /\ pass' = pass
        /\ w \in todo /\ clock' = Spread(Buffers, w) /\ todo' = todo \ {w}
    BY <1>5, BuffersStep DEF ThroughBuffers
  <2>2. Pending(Buffers)
    BY <2>1 DEF BuffersInv, Buffers
  <2>3. \A b \in Buffers : Agree(clock', b) \/ \E u \in todo' : b.in \in From(Buffers, u)
    BY <2>1, <2>2, BuffersType, SpreadPending
  <2>4. CASE pass = "ibuf"
    <3>1. Pending(design.ibuf)'
      BY <1>1, <2>3, <2>4 DEF Pending, Buffers
    <3> QED BY <2>1, <2>4, <3>1 DEF BuffersInv, AfterPropagation
  <2>5. CASE pass # "ibuf"
    <3>1. Buffers = design.bufg
      BY <2>5 DEF Buffers
    <3>2. Pending(design.bufg)'
      BY <1>1, <2>3, <3>1 DEF Pending
    <3>3. AllAgree(design.ibuf)
      BY <2>1, <2>5 DEF BuffersInv
    <3>4. AllAgree(design.ibuf)'
      BY <1>1, <1>5, <3>1, <3>3, InputsStand DEF AllAgree
    <3> QED BY <2>1, <2>5, <3>2, <3>4 DEF BuffersInv, AfterPropagation
  <2> QED BY <2>4, <2>5
<1>6. ASSUME NEW w \in Wire, ThroughDividers(w), pass' # "aborted" PROVE BuffersInv'
  <2>1. pass = "pll" /\ pass' = "pll"
    BY <1>6, DividersStep
  <2>2. AllAgree(design.ibuf)
    BY <2>1 DEF BuffersInv
  <2>3. AllAgree(design.ibuf)'
    BY <1>1, <1>6, <2>2, InputsStand DEF AllAgree
  <2> QED BY <2>1, <2>3 DEF BuffersInv, AfterPropagation
<1>7. CASE pass' = "aborted"
  BY <1>7 DEF BuffersInv, AfterPropagation
<1>8. CASE UpdateAbc9
  <2>1. pass = "abc9" /\ pass' = "none" /\ clock' = clock
    BY <1>8 DEF UpdateAbc9
  <2>2. AllAgree(design.ibuf)' /\ AllAgree(design.bufg)'
    BY <1>1, <2>1 DEF BuffersInv, AfterPropagation, AllAgree
  <2> QED BY <2>1, <2>2 DEF BuffersInv, AfterPropagation
<1>9. CASE Stopped \/ UNCHANGED vars
  BY <1>9 DEF Stopped, vars, BuffersInv, AfterPropagation, AllAgree, Pending
<1> QED BY <1>2, <1>3, <1>4, <1>5, <1>6, <1>7, <1>8, <1>9 DEF Next

LEMMA BuffersInvInit == Init => BuffersInv
BY DEF Init, BuffersInv, AfterPropagation

(* Every clock that drives a buffer has reached the wire behind it.          *)
THEOREM BuffersAgreeHolds == Spec => []BuffersAgree
<1>1. TypeOK /\ BuffersInv => BuffersAgree
  <2> SUFFICES ASSUME TypeOK, BuffersInv, Finished,
                      NEW b \in design.ibuf \cup design.bufg, b.in \in Clocks
               PROVE  clock[b.out] = [kind |-> "propagated", name |-> b.out,
                                      period |-> clock[b.in].period,
                                      rise |-> clock[b.in].rise, fall |-> clock[b.in].fall]
    BY DEF BuffersAgree
  <2>1. Agree(clock, b)
    BY DEF BuffersInv, AllAgree, AfterPropagation, Finished
  <2>2. clock[b.in] \in Clock /\ clock[b.in] # NoClock
    BY DEF TypeOK, Clocks
  <2>3. b.out \in Wire
    BY DesignTypes DEF TypeOK, Buffer
  <2> QED BY <2>1, <2>2, <2>3, ClockFacts DEF Agree
<1> QED BY TypeInit, TypeStep, BuffersInvInit, BuffersInvStep, <1>1, PTL DEF Spec

------------------------------------------------------------------------------
(* Dividers, where none is behind another.  Down holds the wires behind one. *)
Down == {v \in Wire : \E p \in design.dividers : \E o \in p.outs :
                        v \in From(design.bufg, o.wire)}

DividerAgrees(c, w) ==
    c[w] # NoClock =>
      /\ \A d, e \in Sinks(w) : d = e
      /\ \A d \in Sinks(w) : d.pll /\ d.clkin = c[w].period
      /\ \A d \in Sinks(w) : \A o \in d.outs : c[o.wire] = Generated(d, o, c[w])

UpstreamAgree == \A b \in design.bufg : b.in \notin Down => Agree(clock, b)

DividersInv ==
    /\ pass \in {"pll", "bufgAfter"} => UpstreamAgree
    /\ pass = "pll" => \A w \in Wire : w \in todo \/ DividerAgrees(clock, w)
    /\ pass = "bufgAfter" \/ AfterPropagation => \A w \in Wire : DividerAgrees(clock, w)

(* With a run that began where the last one ended, nothing changes.          *)
Running == pass \in DOMAIN Following \/ AfterPropagation

IdleInv ==
    before # <<>> /\ Running =>
      /\ clock = before
      /\ AllAgree(design.ibuf) /\ AllAgree(design.bufg)
      /\ \A w \in Wire : DividerAgrees(clock, w)

Flat == ~Cascaded(design)

FlatInv == Flat => DividersInv /\ IdleInv

(* No divider is behind one, and upstream of them are whole chains.          *)
LEMMA DownFacts ==
  ASSUME TypeOK
  PROVE  /\ Flat => \A d \in design.dividers : d.in \notin Down
         /\ \A w \in Wire : Outs(w) \subseteq Down
         /\ \A b \in design.bufg : b.in \notin Down => b.out \notin Down
<1>0. design \in Designs
  BY DEF TypeOK
<1>1. \A p \in design.dividers : \A o \in p.outs : o.wire \in Wire
  BY <1>0, DesignTypes DEF Divider
<1>2. ASSUME Flat, NEW d \in design.dividers, d.in \in Down PROVE FALSE
  <2>1. \E p \in design.dividers : \E o \in p.outs : d.in \in From(design.bufg, o.wire)
    BY <1>2 DEF Down
  <2>2. Cascaded(design)
    BY <2>1 DEF Cascaded, From
  <2> QED BY <1>2, <2>2 DEF Flat
<1>3. ASSUME NEW w \in Wire PROVE Outs(w) \subseteq Down
  <2> SUFFICES ASSUME NEW d \in Sinks(w), NEW o \in d.outs PROVE o.wire \in Down
    BY DEF Outs
  <2>1. d \in design.dividers
    BY DEF Sinks, On
  <2> QED BY <1>1, <2>1 DEF Down, From
<1>4. ASSUME NEW b \in design.bufg, b.out \in Down PROVE b.in \in Down
  <2>1. PICK p \in design.dividers : \E o \in p.outs : b.out \in From(design.bufg, o.wire)
    BY <1>4 DEF Down
  <2>2. PICK o \in p.outs : b.out \in From(design.bufg, o.wire)
    BY <2>1
  <2>3. b.out # o.wire
    BY <1>0, DriversApart
  <2>4. b.out \in Behind(design.bufg, o.wire)
    BY <2>2, <2>3 DEF From
  <2>5. b.in \in From(design.bufg, o.wire)
    BY <1>0, <1>1, <2>4, OneWay
  <2>6. b.in \in Wire
    BY <1>0, DesignTypes DEF Buffer
  <2> QED BY <2>5, <2>6 DEF Down
<1> QED BY <1>2, <1>3, <1>4

(* A clock spread where buffers agree changes nothing.                       *)
LEMMA SpreadIdle ==
  ASSUME TypeOK, NEW w \in todo, NEW bufs \in {design.ibuf, design.bufg},
         \A b \in bufs : b.in \in From(bufs, w) => Agree(clock, b)
  PROVE  Spread(bufs, w) = clock
<1>1. w \in Wire /\ clock[w] \in Clock
  BY SpreadType
<1>2. bufs \in SUBSET Buffer
  BY DesignTypes DEF TypeOK
<1> DEFINE T == {v \in Wire : v = w \/ clock[v] = Propagated(clock[w], v)}
<1>3. ASSUME NEW b \in bufs, b.in \in From(bufs, w), b.in \in T PROVE b.out \in T
  <2>1. b.in \in Wire /\ b.out \in Wire
    BY <1>2 DEF Buffer
  <2>2. CASE b.in = w
    <3>1. clock[b.out] = Propagated(clock[w], b.out)
      BY <1>1, <1>3, <2>1, <2>2, ClockFacts DEF Agree
    <3> QED BY <2>1, <3>1
  <2>3. CASE clock[b.in] = Propagated(clock[w], b.in)
    <3>1. clock[b.in] \in Clock /\ clock[b.in] # NoClock
      BY <1>1, <2>1, <2>3, ClockFacts
    <3>2. clock[b.out] = Propagated(clock[b.in], b.out)
      BY <1>3, <3>1 DEF Agree
    <3>3. clock[b.out] = Propagated(clock[w], b.out)
      BY <1>1, <2>1, <2>3, <3>2, ClockFacts
    <3> QED BY <2>1, <3>3
  <2> QED BY <1>3, <2>2, <2>3
<1>4. w \in T
  BY <1>1
<1> HIDE DEF T
<1>5. From(bufs, w) \subseteq T
  BY <1>1, <1>2, <1>3, <1>4, FromLeast
<1>6. w \notin Behind(bufs, w)
  BY <1>1, <1>2, FromFacts
<1>7. \A v \in Behind(bufs, w) : clock[v] = Propagated(clock[w], v)
  BY <1>5, <1>6 DEF From, T
<1> QED BY <1>7 DEF Spread, TypeOK

(* Clocks from upstream change nothing, and others only wires behind a       *)
(* divider.                                                                  *)
LEMMA SpreadDown ==
  ASSUME TypeOK, UpstreamAgree, NEW w \in todo
  PROVE  \A v \in Wire : \/ Spread(design.bufg, w)[v] = clock[v]
                         \/ v \in Down /\ v \in Behind(design.bufg, w)
<1>0. design \in Designs /\ w \in Wire /\ design.bufg \in SUBSET Buffer
  BY SpreadType, DesignTypes DEF TypeOK
<1>1. CASE w \in Down
  <2>1. \A b \in design.bufg : b.in \in Down => b.out \in Down
    <3> SUFFICES ASSUME NEW b \in design.bufg, b.in \in Down PROVE b.out \in Down
      OBVIOUS
    <3>1. PICK p \in design.dividers : \E o \in p.outs : b.in \in From(design.bufg, o.wire)
      BY DEF Down
    <3>2. PICK o \in p.outs : b.in \in From(design.bufg, o.wire)
      BY <3>1
    <3>3. o.wire \in Wire
      BY <1>0, DesignTypes DEF Divider
    <3>4. b.out \in From(design.bufg, o.wire)
      BY <1>0, <3>2, <3>3, FromFacts
    <3>5. b.out \in Wire
      BY <1>0 DEF Buffer
    <3> QED BY <3>4, <3>5 DEF Down
  <2>2. From(design.bufg, w) \subseteq Down
    BY <1>0, <1>1, <2>1, FromLeast
  <2> QED BY <2>2 DEF From, Spread
<1>2. CASE w \notin Down
  <2>1. From(design.bufg, w) \subseteq Wire \ Down
    <3> DEFINE T == Wire \ Down
    <3>1. \A b \in design.bufg : b.in \in T => b.out \in T
      BY <1>0, DownFacts DEF Buffer
    <3>2. w \in T
      BY <1>0, <1>2
    <3> HIDE DEF T
    <3>3. From(design.bufg, w) \subseteq T
      BY <1>0, <3>1, <3>2, FromLeast
    <3> QED BY <3>3 DEF T
  <2>2. \A b \in design.bufg : b.in \in From(design.bufg, w) => Agree(clock, b)
    BY <2>1 DEF UpstreamAgree
  <2>3. Spread(design.bufg, w) = clock
    BY <2>2, SpreadIdle
  <2> QED BY <2>3
<1> QED BY <1>1, <1>2

LEMMA RunningStep ==
  /\ pass \in DOMAIN Following <=> pass \in {"ibuf", "bufg", "pll", "bufgAfter"}
  /\ pass \in DOMAIN Following => Following[pass] \in {"bufg", "pll", "bufgAfter", "abc9"}
  /\ pass \in DOMAIN Following /\ Following[pass] = "pll" => pass = "bufg"
  /\ pass \in DOMAIN Following /\ Following[pass] = "bufgAfter" => pass = "pll"
  /\ pass \in DOMAIN Following /\ Following[pass] = "abc9" => pass = "bufgAfter"
<1>1. pass \in DOMAIN Following <=> pass \in {"ibuf", "bufg", "pll", "bufgAfter"}
  BY DEF Following
<1>2. /\ Following["ibuf"] = "bufg" /\ Following["bufg"] = "pll"
      /\ Following["pll"] = "bufgAfter" /\ Following["bufgAfter"] = "abc9"
  BY DEF Following
<1> QED BY <1>1, <1>2

(* The dividers at one wire get their clocks, the others keep theirs.        *)
LEMMA DividersKeep ==
  ASSUME TypeOK, Flat, NEW w \in Wire, ThroughDividers(w), pass' # "aborted",
         NEW u \in Wire, u = w \/ DividerAgrees(clock, u)
  PROVE  DividerAgrees(clock', u)
<1>0. design \in Designs
  BY DEF TypeOK
<1>1. Sinks(u) \subseteq design.dividers /\ Sinks(w) \subseteq design.dividers
      /\ (\A d \in Sinks(u) : d.in = u) /\ (\A d \in Sinks(w) : d.in = w)
  BY DEF Sinks, On
<1>2. CASE Sinks(u) = {}
  BY <1>2 DEF DividerAgrees
<1>3. CASE Sinks(u) # {}
  <2>1. u \notin Down
    BY <1>1, <1>3, DownFacts
  <2>2. u \notin Outs(w)
    BY <2>1, DownFacts
  <2>3. clock'[u] = clock[u]
    BY <2>2, DividersStep
  <2>4. CASE u = w
    BY <2>3, <2>4, DividersStep DEF DividerAgrees
  <2>5. CASE u # w
    <3>1. ASSUME NEW d \in Sinks(u), NEW o \in d.outs PROVE clock'[o.wire] = clock[o.wire]
      <4>1. \A e \in Sinks(w) : \A r \in e.outs : o.wire # r.wire
        <5> SUFFICES ASSUME NEW e \in Sinks(w), NEW r \in e.outs, o.wire = r.wire PROVE FALSE
          OBVIOUS
        <5>1. d = e
          BY <1>0, <1>1, DesignTypes DEF IsNetlist
        <5> QED BY <1>1, <2>5, <5>1
      <4>2. o.wire \in Wire
        BY <1>0, <1>1, DesignTypes DEF Divider
      <4>3. o.wire \notin Outs(w)
        BY <4>1 DEF Outs
      <4> QED BY <4>2, <4>3, DividersStep
    <3>2. DividerAgrees(clock, u)
      BY <2>5
    <3> QED BY <2>3, <3>1, <3>2 DEF DividerAgrees
  <2> QED BY <2>4, <2>5
<1> QED BY <1>2, <1>3

(* The pass behind the dividers leaves them as they are.                     *)
LEMMA DividersStand ==
  ASSUME TypeOK, Flat, UpstreamAgree, NEW w \in todo, clock' = Spread(design.bufg, w),
         NEW u \in Wire, DividerAgrees(clock, u)
  PROVE  DividerAgrees(clock', u)
<1>0. design \in Designs /\ w \in Wire
  BY SpreadType DEF TypeOK
<1>1. Sinks(u) \subseteq design.dividers /\ \A d \in Sinks(u) : d.in = u
  BY DEF Sinks, On
<1>2. CASE Sinks(u) = {}
  BY <1>2 DEF DividerAgrees
<1>3. CASE Sinks(u) # {}
  <2>1. u \notin Down
    BY <1>1, <1>3, DownFacts
  <2>2. clock'[u] = clock[u]
    BY <2>1, SpreadDown
  <2>3. ASSUME NEW d \in Sinks(u), NEW o \in d.outs PROVE clock'[o.wire] = clock[o.wire]
    <3>1. o.wire \in Wire
      BY <1>0, <1>1, DesignTypes DEF Divider
    <3>2. o.wire \notin Behind(design.bufg, w)
      BY <1>0, <1>1, DriversApart
    <3> QED BY <3>1, <3>2, SpreadDown
  <2> QED BY <2>2, <2>3 DEF DividerAgrees
<1> QED BY <1>2, <1>3

LEMMA UpstreamStands ==
  ASSUME TypeOK, UpstreamAgree, NEW w \in Wire, pass' # "aborted", design' = design,
         \/ ThroughBuffers(w) /\ Buffers = design.bufg
         \/ ThroughDividers(w)
  PROVE  UpstreamAgree'
<1>0. design \in Designs
  BY DEF TypeOK
<1>1. ASSUME NEW b \in design.bufg, b.in \notin Down PROVE Agree(clock', b)
  <2>1. b.in \in Wire /\ b.out \in Wire /\ b.out \notin Down
    BY <1>0, <1>1, DesignTypes, DownFacts DEF Buffer
  <2>2. clock'[b.in] = clock[b.in] /\ clock'[b.out] = clock[b.out]
    <3>1. CASE ThroughDividers(w)
      <4>1. b.in \notin Outs(w) /\ b.out \notin Outs(w)
        BY <1>1, <2>1, DownFacts
      <4> QED BY <2>1, <3>1, <4>1, DividersStep
    <3>2. CASE ThroughBuffers(w) /\ Buffers = design.bufg
      <4>1. w \in todo /\ clock' = Spread(design.bufg, w)
        BY <3>2, BuffersStep
      <4> QED BY <1>1, <2>1, <4>1, SpreadDown
    <3> QED BY <3>1, <3>2
  <2> QED BY <1>1, <2>2 DEF UpstreamAgree, Agree
<1>2. Down' = Down
  BY DEF Down, From
<1> QED BY <1>1, <1>2 DEF UpstreamAgree

LEMMA DividersInvStep ==
  ASSUME TypeOK, BuffersInv, Flat, DividersInv, [Next]_vars
  PROVE  DividersInv'
<1>1. design' = design
  BY DEF Next, CreateClock, PropagateClocks, NextPass, ThroughBuffers, ThroughDividers,
         UpdateAbc9, Stopped, vars
<1>2. ASSUME clock' = clock
      PROVE  /\ UpstreamAgree => UpstreamAgree'
             /\ \A w \in Wire : DividerAgrees(clock, w) => DividerAgrees(clock, w)'
  BY <1>1, <1>2 DEF UpstreamAgree, Agree, Down, From, DividerAgrees, Sinks, On
<1>a. \A w \in Wire : DividerAgrees(clock, w)' <=> DividerAgrees(clock', w)
  BY <1>1 DEF DividerAgrees, Sinks, On
<1>3. CASE (\E c \in Command : CreateClock(c)) \/ PropagateClocks \/ pass' = "aborted"
  <2>1. pass' \in {"none", "aborted", "ibuf"} /\ (pass' = "none" => ~settled')
    BY <1>3 DEF CreateClock, PropagateClocks
  <2> QED BY <2>1 DEF DividersInv, AfterPropagation
<1>4. CASE NextPass
  <2>0. pass \in DOMAIN Following /\ pass' = Following[pass] /\ clock' = clock /\ todo = {}
        /\ (pass # "bufgAfter" => todo' = Clocks)
    BY <1>4 DEF NextPass
  <2>1. pass \in DOMAIN Following /\ pass' = Following[pass] /\ clock' = clock /\ todo = {}
        /\ (pass' # "abc9" => todo' = Clocks)
    <3>1. pass = "bufgAfter" => pass' = "abc9"
      BY <2>0 DEF Following
    <3> QED BY <2>0, <3>1
  <2>2. ASSUME pass' \in {"pll", "bufgAfter"} PROVE UpstreamAgree
    <3>1. CASE pass = "bufg"
      <4>1. AllAgree(design.bufg)
        BY <2>1, <3>1 DEF BuffersInv, Pending, AllAgree
      <4> QED BY <4>1 DEF AllAgree, UpstreamAgree
    <3>2. CASE pass = "pll"
      BY <3>2 DEF DividersInv
    <3> QED BY <2>1, <2>2, <3>1, <3>2, RunningStep
  <2>3. ASSUME pass' = "pll", NEW w \in Wire PROVE w \in todo' \/ DividerAgrees(clock, w)
    BY <2>1, <2>3 DEF DividerAgrees, Clocks
  <2>4. ASSUME pass' \in {"bufgAfter", "abc9"}, NEW w \in Wire PROVE DividerAgrees(clock, w)
    BY <2>1, <2>4, RunningStep DEF DividersInv
  <2>5. pass' # "none"
    BY <2>1, RunningStep
  <2>6. /\ pass' \in {"pll", "bufgAfter"} => UpstreamAgree'
        /\ pass' = "pll" => \A w \in Wire : w \in todo' \/ DividerAgrees(clock, w)'
        /\ pass' \in {"bufgAfter", "abc9"} => \A w \in Wire : DividerAgrees(clock, w)'
    BY <1>2, <2>1, <2>2, <2>3, <2>4
  <2> QED BY <2>5, <2>6 DEF DividersInv, AfterPropagation
<1>5. ASSUME NEW w \in Wire, ThroughBuffers(w), pass' # "aborted" PROVE DividersInv'
  <2>1. /\ pass \in {"ibuf", "bufg", "bufgAfter"} /\ pass' = pass
        /\ w \in todo /\ clock' = Spread(Buffers, w)
    BY <1>5, BuffersStep
  <2>2. CASE pass # "bufgAfter"
    BY <2>1, <2>2 DEF DividersInv, AfterPropagation
  <2>3. CASE pass = "bufgAfter"
    <3>1. Buffers = design.bufg /\ UpstreamAgree
      BY <2>3 DEF Buffers, DividersInv
    <3>2. UpstreamAgree'
      BY <1>1, <1>5, <3>1, UpstreamStands
    <3>3. \A u \in Wire : DividerAgrees(clock', u)
      BY <2>1, <2>3, <3>1, DividersStand DEF DividersInv
    <3>4. \A u \in Wire : DividerAgrees(clock, u)'
      BY <1>a, <3>3
    <3> QED BY <2>1, <2>3, <3>2, <3>4 DEF DividersInv, AfterPropagation
  <2> QED BY <2>2, <2>3
<1>6. ASSUME NEW w \in Wire, ThroughDividers(w), pass' # "aborted" PROVE DividersInv'
  <2>1. pass = "pll" /\ pass' = "pll" /\ todo' = todo \ {w}
    BY <1>6, DividersStep DEF ThroughDividers
  <2>2. UpstreamAgree'
    BY <1>1, <1>6, <2>1, UpstreamStands DEF DividersInv
  <2>3. ASSUME NEW u \in Wire PROVE u \in todo' \/ DividerAgrees(clock', u)
    <3>1. u \in todo \/ DividerAgrees(clock, u)
      BY <2>1 DEF DividersInv
    <3>2. u \in todo' \/ u = w \/ DividerAgrees(clock, u)
      BY <2>1, <3>1
    <3> QED BY <1>6, <3>2, DividersKeep
  <2>4. \A u \in Wire : u \in todo' \/ DividerAgrees(clock, u)'
    BY <1>a, <2>3
  <2> QED BY <2>1, <2>2, <2>4 DEF DividersInv, AfterPropagation
<1>7. CASE UpdateAbc9
  <2>1. pass = "abc9" /\ pass' = "none" /\ clock' = clock
    BY <1>7 DEF UpdateAbc9
  <2>2. \A w \in Wire : DividerAgrees(clock, w)'
    BY <1>2, <2>1 DEF DividersInv, AfterPropagation
  <2> QED BY <2>1, <2>2 DEF DividersInv, AfterPropagation
<1>8. CASE Stopped \/ UNCHANGED vars
  <2>1. clock' = clock /\ pass' = pass /\ todo' = todo /\ settled' = settled
    BY <1>8 DEF Stopped, vars
  <2>2. /\ pass' \in {"pll", "bufgAfter"} => UpstreamAgree'
        /\ pass' = "pll" => \A w \in Wire : w \in todo' \/ DividerAgrees(clock, w)'
        /\ pass' = "bufgAfter" \/ AfterPropagation' => \A w \in Wire : DividerAgrees(clock, w)'
    BY <1>2, <2>1 DEF DividersInv, AfterPropagation
  <2> QED BY <2>2 DEF DividersInv
<1> QED BY <1>3, <1>4, <1>5, <1>6, <1>7, <1>8 DEF Next

(* Where all agree, no pass finds anything to do.                            *)
LEMMA IdleInvStep ==
  ASSUME TypeOK, BuffersInv, DividersInv, IdleInv, [Next]_vars
  PROVE  IdleInv'
<1>1. design' = design
  BY DEF Next, CreateClock, PropagateClocks, NextPass, ThroughBuffers, ThroughDividers,
         UpdateAbc9, Stopped, vars
<1> DEFINE Agreed == /\ clock = before
                     /\ AllAgree(design.ibuf) /\ AllAgree(design.bufg)
                     /\ \A w \in Wire : DividerAgrees(clock, w)
<1>2. ASSUME clock' = clock, before' = before, Agreed PROVE IdleInv'
  BY <1>1, <1>2 DEF IdleInv, AllAgree, Agree, DividerAgrees, Sinks, On
<1>3. CASE \E c \in Command : CreateClock(c)
  <2>1. pass' \in {"none", "aborted"} /\ ~settled'
    BY <1>3 DEF CreateClock
  <2> QED BY <2>1 DEF IdleInv, Running, AfterPropagation, Following
<1>4. CASE PropagateClocks
  <2>1. pass = "none" /\ clock' = clock /\ before' = (IF settled THEN clock ELSE <<>>)
    BY <1>4 DEF PropagateClocks
  <2>2. CASE settled
    <3>1. /\ AllAgree(design.ibuf) /\ AllAgree(design.bufg)
          /\ \A w \in Wire : DividerAgrees(clock, w)
      BY <2>1, <2>2 DEF BuffersInv, DividersInv, AfterPropagation
    <3>2. clock' = before'
      BY <2>1, <2>2
    <3>3. AllAgree(design.ibuf)' /\ AllAgree(design.bufg)'
      BY <1>1, <2>1, <3>1 DEF AllAgree
    <3>4. \A w \in Wire : DividerAgrees(clock, w)'
      BY <1>1, <2>1, <3>1 DEF DividerAgrees, Sinks, On
    <3> QED BY <3>2, <3>3, <3>4 DEF IdleInv
  <2>3. CASE ~settled
    BY <2>1, <2>3 DEF IdleInv
  <2> QED BY <2>2, <2>3
<1>5. ASSUME before # <<>>, Running, clock' = clock, before' = before PROVE IdleInv'
  BY <1>2, <1>5 DEF IdleInv
<1>6. CASE before = <<>> /\ before' = before
  BY <1>6 DEF IdleInv
<1>7. CASE NextPass \/ UpdateAbc9
  <2>1. Running /\ clock' = clock /\ before' = before
    BY <1>7 DEF NextPass, UpdateAbc9, Running, AfterPropagation
  <2> QED BY <1>5, <1>6, <2>1
<1>8. ASSUME NEW w \in Wire, ThroughBuffers(w) \/ ThroughDividers(w), pass' # "aborted",
             before # <<>>
      PROVE  IdleInv'
  <2>1. before' = before
    BY <1>8 DEF ThroughBuffers, ThroughDividers
  <2>2. Running
    BY <1>8 DEF ThroughBuffers, ThroughDividers, Running, Following
  <2>3. Agreed
    BY <1>8, <2>2 DEF IdleInv
  <2>4. CASE ThroughBuffers(w)
    <3>1. w \in todo /\ clock' = Spread(Buffers, w)
      BY <1>8, <2>4, BuffersStep
    <3>2. \A b \in Buffers : Agree(clock, b)
      BY <2>3 DEF Buffers, AllAgree
    <3>3. clock' = clock
      BY <3>1, <3>2, BuffersType, SpreadIdle
    <3> HIDE DEF Agreed
    <3> QED BY <1>2, <2>1, <2>3, <3>3
  <2>5. CASE ThroughDividers(w)
    <3>1. w \in todo /\ clock[w] # NoClock
      BY <1>8, <2>5, DividersStep, ClockFacts DEF TypeOK, Clocks
    <3>2. ASSUME NEW v \in Wire PROVE clock'[v] = clock[v]
      <4>1. CASE v \notin Outs(w)
        BY <1>8, <2>5, <4>1, DividersStep
      <4>2. CASE v \in Outs(w)
        <5>1. PICK d \in Sinks(w) : \E o \in d.outs : o.wire = v
          BY <4>2 DEF Outs
        <5>2. PICK o \in d.outs : o.wire = v
          BY <5>1
        <5>3. clock'[v] = Generated(d, o, clock[w])
          BY <1>8, <2>5, <5>2, DividersStep
        <5>4. clock[v] = Generated(d, o, clock[w])
          BY <2>3, <3>1, <5>2 DEF DividerAgrees
        <5> QED BY <5>3, <5>4
      <4> QED BY <4>1, <4>2
    <3>3. clock' = clock
      <4>1. clock' \in [Wire -> Clock \cup {NoClock}]
        BY <1>8, <2>5, DividersStep
      <4> QED BY <3>2, <4>1 DEF TypeOK
    <3> HIDE DEF Agreed
    <3> QED BY <1>2, <2>1, <2>3, <3>3
  <2> QED BY <1>8, <2>4, <2>5
<1>9. CASE pass' = "aborted"
  BY <1>9 DEF IdleInv, Running, AfterPropagation, Following
<1>10. CASE Stopped \/ UNCHANGED vars
  <2>1. /\ clock' = clock /\ before' = before /\ pass' = pass /\ settled' = settled
    BY <1>10 DEF Stopped, vars
  <2>2. Running' <=> Running
    BY <2>1 DEF Running, AfterPropagation
  <2>3. CASE Running
    BY <1>5, <1>6, <2>1, <2>3
  <2>4. CASE ~Running
    BY <2>2, <2>4 DEF IdleInv
  <2> QED BY <2>3, <2>4
<1>11. ASSUME NEW w \in Wire, ThroughBuffers(w) \/ ThroughDividers(w) PROVE before' = before
  BY <1>11 DEF ThroughBuffers, ThroughDividers
<1> HIDE DEF Agreed
<1> QED BY <1>3, <1>4, <1>6, <1>7, <1>8, <1>9, <1>10, <1>11 DEF Next

------------------------------------------------------------------------------
LEMMA FlatInvInit == Init => FlatInv
BY DEF Init, FlatInv, DividersInv, IdleInv, AfterPropagation

LEMMA FlatInvStep == TypeOK /\ BuffersInv /\ FlatInv /\ [Next]_vars => FlatInv'
<1> SUFFICES ASSUME TypeOK, BuffersInv, FlatInv, [Next]_vars, Flat' PROVE (DividersInv /\ IdleInv)'
  BY DEF FlatInv
<1>1. design' = design
  BY DEF Next, CreateClock, PropagateClocks, NextPass, ThroughBuffers, ThroughDividers,
         UpdateAbc9, Stopped, vars
<1>2. Flat
  BY <1>1 DEF Flat
<1>3. DividersInv /\ IdleInv
  BY <1>2 DEF FlatInv
<1> QED BY <1>2, <1>3, DividersInvStep, IdleInvStep

LEMMA Exact ==
  ASSUME NEW a \in Nat, NEW m \in Nat \ {0}, a % m = 0
  PROVE  (a \div m) * m = a
OBVIOUS

(* A clocked PLL has clocks of its ratio on its outputs, unless PLLs are in  *)
(* a cascade or share a wire at different inputs.                            *)
THEOREM DividersAgreeIfFlatHolds == Spec => []DividersAgreeIfFlat
<1>1. TypeOK /\ FlatInv => DividersAgreeIfFlat
  <2> SUFFICES ASSUME TypeOK, FlatInv, Finished, ~Cascaded(design), ~Masked(design),
                      NEW d \in design.dividers, NEW o \in d.outs, d.pll, d.in \in Clocks
               PROVE  /\ clock[o.wire] # NoClock
                      /\ clock[o.wire].kind = "generated"
                      /\ clock[o.wire].period * d.mult = clock[d.in].period * o.div
    BY DEF DividersAgreeIfFlat, DividersAgree
  <2>1. d \in Divider /\ IsNetlist(design)
    BY DesignTypes DEF TypeOK
  <2>2. d.in \in Wire /\ clock[d.in] \in Clock /\ clock[d.in] # NoClock
    BY DEF Clocks, TypeOK
  <2>3. DividerAgrees(clock, d.in)
    BY <2>2 DEF FlatInv, Flat, DividersInv, AfterPropagation, Finished
  <2>4. d \in Sinks(d.in)
    <3>1. CASE d.pin = "CLKIN1"
      BY <3>1 DEF Sinks, On
    <3>2. CASE d.pin = "CLKIN2"
      <4>1. ~ \E p \in On(d.in, "CLKIN1") : p.pll
        BY <3>2 DEF Masked, On
      <4> QED BY <3>2, <4>1 DEF Sinks, On
    <3> QED BY <2>1, <3>1, <3>2 DEF Divider
  <2>5. d.clkin = clock[d.in].period /\ clock[o.wire] = Generated(d, o, clock[d.in])
    BY <2>2, <2>3, <2>4 DEF DividerAgrees
  <2>6. clock[o.wire].kind = "generated" /\ clock[o.wire].period = OutPeriod(d, o)
    BY <2>5 DEF Generated
  <2>7. clock[o.wire] # NoClock
    BY <2>1, <2>2, <2>5, GeneratedType
  <2>8. OutPeriod(d, o) * d.mult = d.clkin * o.div
    <3>1. d.clkin * o.div \in Nat /\ d.mult \in Nat \ {0}
      BY <2>1 DEF Divider
    <3>2. (d.clkin * o.div) % d.mult = 0
      BY <2>1 DEF IsNetlist
    <3>3. \A a \in Nat : a % d.mult = 0 => (a \div d.mult) * d.mult = a
      BY <3>1, Exact
    <3> QED BY <3>1, <3>2, <3>3 DEF OutPeriod
  <2> QED BY <2>5, <2>6, <2>7, <2>8
<1> QED BY TypeInit, TypeStep, BuffersInvInit, BuffersInvStep, FlatInvInit, FlatInvStep,
           <1>1, PTL DEF Spec

(* A propagate_clocks that begins where another ended leaves all clocks,     *)
(* unless PLLs are in a cascade.                                             *)
THEOREM SecondRunIdleHolds == Spec => []SecondRunIdle
<1>1. FlatInv => SecondRunIdle
  BY DEF FlatInv, Flat, IdleInv, SecondRunIdle, Finished, Running, AfterPropagation
<1> QED BY TypeInit, TypeStep, BuffersInvInit, BuffersInvStep, FlatInvInit, FlatInvStep,
           <1>1, PTL DEF Spec

------------------------------------------------------------------------------
(* Cascades of DSPs.                                                         *)

(* The cells ql_dspv2_to_dspv4 is to convert, and what drives P and PCOUT of *)
(* the QL_DSP4 it makes of one.                                              *)
V2 == V2CellsOf(start)
POf(x) ==
    IF Mode(start[x]) \in Accumulate /\ OutReg(start[x]) THEN Extra(start[x].z) ELSE start[x].z
HasPorts(c) == c.kind = "v4" /\ {"kind", "addend", "p", "pcout", "pcin"} \subseteq DOMAIN c
IsV4Of(c, x) ==
    /\ HasPorts(c) /\ c.p = POf(x) /\ c.pcout = PCout(start[x])
    /\ c.addend = "pcin" => Mode(start[x]) \in CascadeModes
Copy(x) == Extra(V4Name(V4Name(x)))

(* While cells are converted, those of before are as they were, and one that *)
(* has been dealt with has a QL_DSP4, which reads the same cascade.          *)
Converting ==
    /\ consumed \subseteq V2 /\ left \subseteq V2
    /\ \A x \in DOMAIN start : x \in DOMAIN cells /\ cells[x] = start[x]
    /\ \A n \in DOMAIN cells \ DOMAIN start :
         \/ cells[n].kind = "ff" /\ \E x \in V2 : n = Extra(start[x].z)
         \/ \E x \in V2 : /\ n = V4Name(x) /\ IsV4Of(cells[n], x)
                          /\ cells[n].addend = "pcin" => cells[n].pcin = start[x].zcin
    /\ verdict = "ok" => \A x \in V2 :
         x \in consumed \/ (step = "convert" /\ x \notin left) =>
           Mode(start[x]) = "CONCAT_CASCADE" \/ V4Name(x) \in DOMAIN cells

(* While feeders are replicated: a converted cell still reads what it read,  *)
(* or a wire of its own copy; a copy takes no cascade; and who reads a       *)
(* cascade is among those its feeder has, or has a copy to itself.           *)
MadeOf(n) ==
    \E x \in V2 :
      /\ n = V4Name(x) /\ IsV4Of(cells[n], x)
      /\ cells[n].addend = "pcin" =>
           \/ cells[n].pcin = start[x].zcin
           \/ x \in Taking /\ cells[n].pcin \in {Extra(n), Extra(Extra(n))}
CopyOf(n) ==
    \E x \in V2 :
      /\ n = Copy(x) /\ HasPorts(cells[n])
      /\ cells[n].p = Extra(V4Name(x)) /\ cells[n].pcout \in {Open, Extra(Extra(V4Name(x)))}
      /\ cells[n].addend = "pcin" => IsConst(cells[n].pcin) \/ cells[n].pcin = Open
Listed(f, y) ==
    \E x \in Taking :
      /\ y = V4Name(x) /\ y \in CascadeInputs(cells) /\ cells[y].pcin = start[x].zcin
      /\ f \in Feeders(cells, start[x].zcin)
Legalizing ==
    /\ \A n \in DOMAIN cells : cells[n].kind # "v4" \/ MadeOf(n) \/ CopyOf(n)
    /\ \A x \in V2 :
         \/ Mode(start[x]) = "CONCAT_CASCADE"
         \/ V4Name(x) \in DOMAIN cells /\ cells[V4Name(x)].kind = "v4"
    /\ \A f \in DOMAIN cons :
         /\ \E x \in V2 : f = V4Name(x)
         /\ IsFiniteSet(cons[f]) /\ \A y \in cons[f] : Listed(f, y)
    /\ \A y \in CascadeInputs(cells) : \A f \in Feeders(cells, cells[y].pcin) :
         f = Extra(V4Name(y)) \/ (f \in DOMAIN cons /\ y \in cons[f])

Bridging ==
    /\ IsDspNetlist(start) /\ NamesApart(start)
    /\ step # "done" => verdict # "shared cascade"
    /\ \/ step = "decode" /\ cells = start /\ consumed = {}
       \/ step \in {"fuse", "convert"} /\ Converting
       \/ step = "legalize" /\ (RegularCascades => Legalizing)
       \/ step = "done" /\ CascadesPrivate

CascadeInv ==
    \/ step \in {"macc", "types", "done"} /\ made = {} /\ verdict # "shared cascade"
    \/ Bridging

------------------------------------------------------------------------------
(* Names and nets.                                                           *)

Base(n) ==
    \/ n \in Nets(start)
    \/ \E x \in DOMAIN start : n \in {V4Name(x), V4Name(V4Name(x)), Extra(V4Name(x))}

LEMMA NewNames ==
  ASSUME NamesApart(start)
  PROVE  /\ \A x, y \in DOMAIN start : V4Name(x) = V4Name(y) => x = y
         /\ \A x, y \in DOMAIN start : V4Name(V4Name(x)) = V4Name(V4Name(y)) => x = y
         /\ \A x \in DOMAIN start : V4Name(x) \notin DOMAIN start \cup Nets(start)
         /\ \A m, n : Base(m) /\ Base(n) /\ Extra(m) = Extra(n) => m = n
         /\ \A n : Base(n) =>
              /\ Extra(n) \notin DOMAIN start \cup Nets(start) /\ ~IsConst(Extra(n))
              /\ \A x \in DOMAIN start : Extra(n) # V4Name(x)
<1> DEFINE xs == DOMAIN start
           v4 == {V4Name(x) : x \in xs}
           copies == {V4Name(y) : y \in v4}
           wires == {Extra(y) : y \in v4}
           bases == Nets(start) \cup v4 \cup copies \cup wires
           old == xs \cup Nets(start) \cup DOMAIN Tie \cup {"0", "1"}
<1>1. /\ \A x, y \in xs \cup v4 : V4Name(x) = V4Name(y) => x = y
      /\ \A m, n \in bases : Extra(m) = Extra(n) => m = n
      /\ v4 \cap old = {}
      /\ \A n \in bases : Extra(n) \notin old \cup v4
  BY DEF NamesApart
<1>2. \A n : Base(n) => n \in bases
  BY DEF Base
<1>3. \A x \in xs : V4Name(x) \in v4
  OBVIOUS
<1>4. \A n : n \notin old => ~IsConst(n)
  BY DEF IsConst, Const
<1> HIDE DEF v4, bases
<1>5. \A x, y \in xs : V4Name(V4Name(x)) = V4Name(V4Name(y)) => x = y
  BY <1>1, <1>3
<1>6. \A x \in xs : V4Name(x) \notin xs \cup Nets(start)
  BY <1>1, <1>3
<1> QED BY <1>1, <1>2, <1>3, <1>4, <1>5, <1>6

LEMMA V2Nets ==
  ASSUME NEW x \in V2
  PROVE  /\ x \in DOMAIN start /\ start[x].kind = "v2"
         /\ Drives(start[x]) = {start[x].z, start[x].zcout}
         /\ {start[x].z, start[x].zcout, start[x].zcin, Open} \subseteq Nets(start)
<1>1. x \in DOMAIN start /\ start[x].kind = "v2"
  BY DEF V2, V2CellsOf
<1>2. Drives(start[x]) = {start[x].z, start[x].zcout}
  BY <1>1 DEF Drives
<1>3. start[x].zcin \in Reads(start[x])
  BY <1>1 DEF Reads
<1>4. Drives(start[x]) \cup Reads(start[x]) \subseteq Nets(start) /\ Open \in Nets(start)
  <2> DEFINE at(y) == Drives(start[y]) \cup Reads(start[y])
  <2>1. at(x) \in {at(y) : y \in DOMAIN start}
    BY <1>1
  <2>2. Nets(start) = (UNION {at(y) : y \in DOMAIN start}) \cup {Open}
    BY DEF Nets
  <2> HIDE DEF at
  <2>3. at(x) \subseteq Nets(start)
    BY <2>1, <2>2
  <2>4. Open \in Nets(start)
    BY <2>2
  <2>5. Drives(start[x]) \cup Reads(start[x]) \subseteq Nets(start)
    BY <2>3 DEF at
  <2> QED BY <2>4, <2>5
<1> QED BY <1>1, <1>2, <1>3, <1>4

LEMMA OneDriven ==
  ASSUME IsDspNetlist(start), NEW x \in DOMAIN start, NEW n \in Drives(start[x]) \ {Open}
  PROVE  ~IsConst(n) /\ \A y \in DOMAIN start : n \in Drives(start[y]) => y = x
<1>1. ~IsConst(n) /\ Drivers(start, n) = {x}
  BY DEF IsDspNetlist
<1> QED BY <1>1 DEF Drivers

(* What a converted cell drives is a net of its own, or one that its cell    *)
(* drove.                                                                    *)
LEMMA V4Drives ==
  ASSUME IsDspNetlist(start), NamesApart(start), NEW x \in V2, NEW c, IsV4Of(c, x),
         NEW n \in Drives(c) \ {Open}
  PROVE  /\ ~IsConst(n)
         /\ n \in Drives(start[x]) \/ n = Extra(start[x].z)
<1>1. Drives(c) = {POf(x), PCout(start[x])}
  BY DEF Drives, IsV4Of, HasPorts
<1>2. POf(x) \in {start[x].z, Extra(start[x].z)} /\ PCout(start[x]) \in {start[x].zcout, Open}
  BY DEF POf, PCout
<1>3. n \in Drives(start[x]) \/ n = Extra(start[x].z)
  BY <1>1, <1>2, V2Nets
<1>4. ~IsConst(Extra(start[x].z))
  BY NewNames, V2Nets DEF Base
<1> QED BY <1>3, <1>4, OneDriven, V2Nets

(* A net that the netlist had has one of them that drives it.                *)
LEMMA OldDriver ==
  ASSUME IsDspNetlist(start), NamesApart(start), NEW x \in V2, NEW y \in V2,
         NEW c, NEW d, IsV4Of(c, x), IsV4Of(d, y),
         NEW n \in Nets(start) \ {Open}, n \in Drives(c), n \in Drives(d)
  PROVE  x = y /\ n \in Drives(start[x])
<1>1. Extra(start[x].z) # n /\ Extra(start[y].z) # n
  BY NewNames, V2Nets DEF Base
<1>2. n \in Drives(start[x]) /\ n \in Drives(start[y])
  BY <1>1, V4Drives
<1> QED BY <1>2, OneDriven, V2Nets

(* Config makes a QL_DSP4 of the cell that is converted.                     *)
LEMMA ConfigPorts ==
  ASSUME NEW c, NEW m, NEW addend, NEW high, NEW low, NEW creg
  PROVE  LET d == Config(c, m, addend, high, low, creg)
         IN  /\ HasPorts(d) /\ d.p = c.z /\ d.pcout = PCout(c) /\ d.addend = addend
             /\ addend = "pcin" => d.pcin = c.zcin
BY DEF Config, HasPorts

------------------------------------------------------------------------------
(* Conversion.                                                               *)

(* The cell that is made has the name of its own.                            *)
LEMMA V4At ==
  ASSUME NamesApart(start), Converting, NEW x \in V2, V4Name(x) \in DOMAIN cells
  PROVE  /\ V4Name(x) \notin DOMAIN start /\ IsV4Of(cells[V4Name(x)], x)
         /\ cells[V4Name(x)].addend = "pcin" => cells[V4Name(x)].pcin = start[x].zcin
<1>1. V4Name(x) \notin DOMAIN start
  BY NewNames, V2Nets
<1>2. \A y \in V2 : V4Name(x) # Extra(start[y].z)
  BY NewNames, V2Nets DEF Base
<1>3. \A y \in V2 : V4Name(x) = V4Name(y) => x = y
  BY NewNames, V2Nets
<1> QED BY <1>1, <1>2, <1>3 DEF Converting

(* What adds such cells and flops and nothing else.                          *)
LEMMA Adds ==
  ASSUME NamesApart(start), Converting, DOMAIN cells \subseteq DOMAIN cells', UNCHANGED start,
         NEW x \in V2,
         \A n \in DOMAIN cells' :
           \/ n \in DOMAIN cells /\ cells'[n] = cells[n]
           \/ n = Extra(start[x].z) /\ cells'[n].kind = "ff"
           \/ /\ n = V4Name(x) /\ IsV4Of(cells'[n], x)
              /\ cells'[n].addend = "pcin" => cells'[n].pcin = start[x].zcin
  PROVE  /\ \A y \in DOMAIN start : y \in DOMAIN cells' /\ cells'[y] = start[y]
         /\ \A n \in DOMAIN cells' \ DOMAIN start :
              \/ cells'[n].kind = "ff" /\ \E y \in V2 : n = Extra(start[y].z)
              \/ \E y \in V2 : /\ n = V4Name(y) /\ IsV4Of(cells'[n], y)
                               /\ cells'[n].addend = "pcin" => cells'[n].pcin = start[y].zcin
<1>1. V4Name(x) \notin DOMAIN start /\ Extra(start[x].z) \notin DOMAIN start
  BY NewNames, V2Nets DEF Base
<1>2. \A y \in DOMAIN start : y \in DOMAIN cells /\ cells[y] = start[y]
  BY DEF Converting
<1>3. ASSUME NEW n \in DOMAIN cells' \ DOMAIN start
      PROVE  \/ cells'[n].kind = "ff" /\ \E y \in V2 : n = Extra(start[y].z)
             \/ \E y \in V2 : /\ n = V4Name(y) /\ IsV4Of(cells'[n], y)
                              /\ cells'[n].addend = "pcin" => cells'[n].pcin = start[y].zcin
  <2>1. CASE n \in DOMAIN cells /\ cells'[n] = cells[n]
    BY <2>1 DEF Converting
  <2> QED BY <2>1, <1>3
<1> QED BY <1>1, <1>2, <1>3

(* start does not change, nor what is defined from it.                       *)
LEMMA SameStart ==
  ASSUME UNCHANGED start
  PROVE  /\ V2' = V2 /\ Taking' = Taking /\ RegularCascades' = RegularCascades
         /\ IsDspNetlist(start)' = IsDspNetlist(start) /\ NamesApart(start)' = NamesApart(start)
         /\ \A c, x : IsV4Of(c, x)' = IsV4Of(c, x)
BY DEF V2, Taking, RegularCascades, Fed, IsV4Of, POf

LEMMA FuseKeeps ==
  ASSUME NamesApart(start), Converting, Fuse, UNCHANGED start
  PROVE  Converting' /\ verdict' # "shared cascade"
<1>1. PICK x \in left :
         /\ left' = left \ {x}
         /\ IF ~Fusible(x) THEN UNCHANGED <<cells, consumed, made, verdict>>
            ELSE LET y == CHOOSE z \in Concats(x) : TRUE
                 IN  IF FusionLatency(cells[y]) >= 2
                     THEN verdict' = "latency" /\ UNCHANGED <<cells, consumed, made>>
                     ELSE /\ cells' = With(V4Name(x), Fused(x, y))
                          /\ consumed' = consumed \cup {x, y}
                          /\ made' = made \cup {V4Name(x)}
                          /\ UNCHANGED verdict
  BY DEF Fuse
<1>2. step = "fuse" /\ step' = "fuse" /\ verdict = "ok"
  BY DEF Fuse
<1>3. x \in V2 /\ left' \subseteq V2
  BY <1>1 DEF Converting
<1>4. CASE UNCHANGED <<cells, consumed>> /\ verdict' \in {"ok", "latency"}
  BY <1>1, <1>2, <1>3, <1>4, SameStart, ZenonT(60) DEF Converting
<1>5. ASSUME NEW y \in Concats(x), cells' = With(V4Name(x), Fused(x, y)), Fusible(x),
             consumed' = consumed \cup {x, y}, UNCHANGED verdict
      PROVE  Converting'
  <2>1. y \in V2 /\ Mode(start[y]) = "CONCAT_CASCADE"
    <3>1. y \in DOMAIN cells /\ cells[y].kind = "v2" /\ Mode(cells[y]) = "CONCAT_CASCADE"
      BY <1>5 DEF Concats, V2Cells, V2CellsOf
    <3>2. y \in DOMAIN start
      BY <3>1 DEF Converting, IsV4Of, HasPorts
    <3> QED BY <3>1, <3>2 DEF Converting, V2, V2CellsOf
  <2>2. cells[x] = start[x]
    BY <1>3, V2Nets DEF Converting
  <2>3. /\ DOMAIN cells' = DOMAIN cells \cup {V4Name(x)}
        /\ cells'[V4Name(x)] = Fused(x, y)
        /\ \A n \in DOMAIN cells \ {V4Name(x)} : cells'[n] = cells[n]
    BY <1>5 DEF With
  <2>4. /\ IsV4Of(Fused(x, y), x)
        /\ Fused(x, y).addend # "pcin"
    <3> DEFINE d == Config(cells[x], Mode(cells[x]), "c", cells[y].a, cells[y].b,
                           FusionLatency(cells[y]) # 0)
    <3>1. HasPorts(d) /\ d.p = cells[x].z /\ d.pcout = PCout(cells[x]) /\ d.addend = "c"
      BY ConfigPorts
    <3>2. Mode(start[x]) \notin Accumulate
      BY <1>5, <2>2 DEF Fusible, CascadeModes, Accumulate
    <3>3. d = Fused(x, y)
      BY DEF Fused
    <3> QED BY <2>2, <3>1, <3>2, <3>3 DEF IsV4Of, POf
  <2>5. /\ \A z \in DOMAIN start : z \in DOMAIN cells' /\ cells'[z] = start[z]
        /\ \A n \in DOMAIN cells' \ DOMAIN start :
             \/ cells'[n].kind = "ff" /\ \E z \in V2 : n = Extra(start[z].z)
             \/ \E z \in V2 : /\ n = V4Name(z) /\ IsV4Of(cells'[n], z)
                              /\ cells'[n].addend = "pcin" => cells'[n].pcin = start[z].zcin
    BY <1>3, <2>3, <2>4, Adds
  <2>6. consumed' \subseteq V2
    BY <1>3, <1>5, <2>1 DEF Converting
  <2>7. verdict' = "ok" => \A z \in V2 : z \in consumed' =>
          Mode(start[z]) = "CONCAT_CASCADE" \/ V4Name(z) \in DOMAIN cells'
    BY <1>2, <1>5, <2>1, <2>3 DEF Converting
  <2> QED BY <1>2, <1>3, <2>5, <2>6, <2>7, SameStart DEF Converting
<1>6. CASE Fusible(x)
  <2>1. (CHOOSE z \in Concats(x) : TRUE) \in Concats(x)
    BY <1>6 DEF Fusible
  <2> QED BY <1>1, <1>2, <1>4, <1>5, <1>6, <2>1
<1> QED BY <1>1, <1>2, <1>4, <1>6

LEMMA FuseEndKeeps ==
  ASSUME Converting, FuseEnd, UNCHANGED start
  PROVE  Converting' /\ verdict' # "shared cascade"
<1>1. /\ V2Cells \subseteq V2
  <2> SUFFICES ASSUME NEW x \in DOMAIN cells, cells[x].kind = "v2" PROVE x \in V2
    BY DEF V2Cells, V2CellsOf
  <2>1. x \in DOMAIN start
    BY DEF Converting, IsV4Of, HasPorts
  <2> QED BY <2>1 DEF Converting, V2, V2CellsOf
<1>2. V2 \subseteq V2Cells
  BY V2Nets DEF Converting, V2, V2CellsOf, V2Cells
<1> QED BY <1>1, <1>2, SameStart DEF FuseEnd, Converting

LEMMA ConvertKeeps ==
  ASSUME NamesApart(start), Converting, Convert, UNCHANGED start
  PROVE  Converting' /\ verdict' # "shared cascade"
<1>1. PICK x \in left :
         /\ left' = left \ {x}
         /\ IF Mode(cells[x]) \in {"CONCAT_CASCADE", "UNKNOWN"}
            THEN verdict' = Mode(cells[x]) /\ UNCHANGED <<cells, made>>
            ELSE /\ cells' = Emitted(x)
                 /\ made' = made \cup {V4Name(x)}
                 /\ UNCHANGED verdict
  BY DEF Convert
<1>2. step = "convert" /\ step' = "convert" /\ verdict = "ok" /\ UNCHANGED consumed
  BY DEF Convert
<1>3. x \in V2 /\ left' \subseteq V2 /\ consumed \subseteq V2
  BY <1>1 DEF Converting
<1>4. CASE Mode(cells[x]) \in {"CONCAT_CASCADE", "UNKNOWN"}
  <2>1. verdict' \in {"CONCAT_CASCADE", "UNKNOWN"} /\ cells' = cells
    BY <1>1, <1>4
  <2> QED BY <1>2, <1>3, <2>1, SameStart, ZenonT(60) DEF Converting
<1>5. CASE Mode(cells[x]) \notin {"CONCAT_CASCADE", "UNKNOWN"}
  <2>1. cells[x] = start[x]
    BY <1>3, V2Nets DEF Converting
  <2> DEFINE name == V4Name(x)
             wire == Extra(start[x].z)
             flops == Mode(start[x]) \in Accumulate /\ OutReg(start[x])
             c == PerCell(x)
  <2>2. /\ HasPorts(c) /\ c.p = start[x].z /\ c.pcout = PCout(start[x])
        /\ c.addend = "pcin" => Mode(start[x]) \in CascadeModes /\ c.pcin = start[x].zcin
    <3>1. c = Config(start[x], Mode(start[x]), AddendOf(Mode(start[x])), Open, Open, FALSE)
      BY <2>1 DEF PerCell
    <3>2. AddendOf(Mode(start[x])) = "pcin" => Mode(start[x]) \in CascadeModes
      BY DEF AddendOf
    <3> DEFINE m == Mode(start[x])
               a == AddendOf(m)
               no == FALSE
               d == Config(start[x], m, a, Open, Open, no)
    <3>3. /\ HasPorts(d) /\ d.p = start[x].z /\ d.pcout = PCout(start[x]) /\ d.addend = a
          /\ a = "pcin" => d.pcin = start[x].zcin
      <4> HIDE DEF m, a, no
      <4> QED BY ConfigPorts
    <3>4. c = d
      BY <3>1
    <3> HIDE DEF c, d
    <3> QED BY <3>2, <3>3, <3>4
  <2>3. name # wire
    BY <1>3, NewNames, V2Nets DEF Base
  <2>4. ASSUME flops
        PROVE  /\ DOMAIN cells' = DOMAIN cells \cup {name, wire}
               /\ cells'[wire].kind = "ff" /\ cells'[name] = [c EXCEPT !.p = wire]
               /\ \A n \in DOMAIN cells \ {name, wire} : cells'[n] = cells[n]
    <3> HIDE DEF c
    <3>1. cells' = [y \in DOMAIN cells \cup {name, wire} |->
                IF y = name THEN [c EXCEPT !.p = wire]
                ELSE IF y = wire
                THEN [kind |-> "ff", origin |-> wire, d |-> wire, q |-> start[x].z,
                      clk |-> start[x].clk, rst |-> start[x].reset, en |-> Sig("1"),
                      posedge |-> TRUE]
                ELSE cells[y]]
      BY <1>1, <1>5, <2>1, <2>4 DEF Emitted, c
    <3> QED BY <2>3, <3>1
  <2>5. ASSUME ~flops
        PROVE  /\ DOMAIN cells' = DOMAIN cells \cup {name} /\ cells'[name] = c
               /\ \A n \in DOMAIN cells \ {name} : cells'[n] = cells[n]
    <3> HIDE DEF c
    <3>1. cells' = With(name, c)
      BY <1>1, <1>5, <2>1, <2>5 DEF Emitted, c
    <3> QED BY <3>1 DEF With
  <2>6. ASSUME flops PROVE IsV4Of([c EXCEPT !.p = wire], x) /\
                           ([c EXCEPT !.p = wire].addend = "pcin" =>
                              [c EXCEPT !.p = wire].pcin = start[x].zcin)
    <3> HIDE DEF c
    <3> QED BY <2>2, <2>6 DEF IsV4Of, HasPorts, POf
  <2>7. ASSUME ~flops PROVE IsV4Of(c, x)
    BY <2>2, <2>7 DEF IsV4Of, POf
  <2> HIDE DEF c, flops
  <2>8. /\ \A z \in DOMAIN start : z \in DOMAIN cells' /\ cells'[z] = start[z]
        /\ \A n \in DOMAIN cells' \ DOMAIN start :
             \/ cells'[n].kind = "ff" /\ \E z \in V2 : n = Extra(start[z].z)
             \/ \E z \in V2 : /\ n = V4Name(z) /\ IsV4Of(cells'[n], z)
                              /\ cells'[n].addend = "pcin" => cells'[n].pcin = start[z].zcin
    <3>1. DOMAIN cells \subseteq DOMAIN cells'
      BY <2>4, <2>5
    <3>2. ASSUME NEW n \in DOMAIN cells'
          PROVE  \/ n \in DOMAIN cells /\ cells'[n] = cells[n]
                 \/ n = Extra(start[x].z) /\ cells'[n].kind = "ff"
                 \/ /\ n = V4Name(x) /\ IsV4Of(cells'[n], x)
                    /\ cells'[n].addend = "pcin" => cells'[n].pcin = start[x].zcin
      <4>1. CASE flops
        BY <2>4, <2>6, <4>1
      <4>2. CASE ~flops
        BY <2>2, <2>5, <2>7, <4>2
      <4> QED BY <4>1, <4>2
    <3> QED BY <1>3, <3>1, <3>2, Adds
  <2>9. DOMAIN cells \cup {name} \subseteq DOMAIN cells'
    BY <2>4, <2>5
  <2>10. \A z \in V2 : z \in consumed \/ z \notin left' =>
           Mode(start[z]) = "CONCAT_CASCADE" \/ V4Name(z) \in DOMAIN cells'
    BY <1>1, <1>2, <2>9 DEF Converting
  <2>11. verdict' = "ok"
    BY <1>1, <1>2, <1>5
  <2> HIDE DEF name, wire
  <2> QED BY <1>2, <1>3, <2>8, <2>10, <2>11, SameStart DEF Converting
<1> QED BY <1>4, <1>5, <1>1, <1>2

------------------------------------------------------------------------------
(* Legalization.                                                             *)

LEMMA V4Finite == IsFiniteSet(DOMAIN start) => IsFiniteSet({V4Name(x) : x \in V2})
<1> SUFFICES ASSUME IsFiniteSet(DOMAIN start) PROVE IsFiniteSet({V4Name(x) : x \in V2})
  OBVIOUS
<1>1. IsFiniteSet(V2)
  BY V2Nets, FS_Subset
<1> DEFINE f == [x \in V2 |-> V4Name(x)]
<1>2. f \in Surjection(V2, {V4Name(x) : x \in V2})
  BY DEF Surjection
<1> HIDE DEF f
<1> QED BY <1>1, <1>2, FS_Surjection

(* A wire that a cell drives and another cascade reads.                      *)
LEMMA FeederIs ==
  ASSUME NEW module, NEW n, NEW f
  PROVE  f \in Feeders(module, n) <=>
           f \in DOMAIN module /\ module[f].kind = "v4" /\ n \in Drives(module[f]) /\ n # Open
BY DEF Feeders, Drivers

LEMMA RemoveKeeps ==
  ASSUME IsDspNetlist(start), NamesApart(start), Converting, RemoveConverted, UNCHANGED start
  PROVE  Legalizing'
<1>1. /\ cells' = Converted /\ cons' = Groups(Converted) /\ left = {} /\ verdict = "ok"
      /\ step = "convert"
  BY DEF RemoveConverted
<1>2. /\ DOMAIN cells' = DOMAIN cells \ V2Cells
      /\ \A n \in DOMAIN cells' : cells'[n] = cells[n]
  BY <1>1 DEF Converted
<1>3. \A n : n \in DOMAIN cells' <=> n \in DOMAIN cells /\ cells[n].kind # "v2"
  BY <1>2 DEF V2Cells, V2CellsOf
<1>4. ASSUME NEW n \in DOMAIN cells', cells'[n].kind = "v4"
      PROVE  \E x \in V2 : /\ n = V4Name(x) /\ IsV4Of(cells'[n], x)
                           /\ cells'[n].addend = "pcin" => cells'[n].pcin = start[x].zcin
  <2>1. n \in DOMAIN cells /\ cells'[n] = cells[n]
    BY <1>2
  <2>2. n \notin DOMAIN start
    BY <1>4, <2>1 DEF Converting, IsDspNetlist
  <2> QED BY <1>4, <2>1, <2>2 DEF Converting
<1>5. ASSUME NEW x \in V2, Mode(start[x]) # "CONCAT_CASCADE"
      PROVE  V4Name(x) \in DOMAIN cells' /\ cells'[V4Name(x)].kind = "v4"
  <2>1. V4Name(x) \in DOMAIN cells
    BY <1>1, <1>5 DEF Converting
  <2>2. cells[V4Name(x)].kind = "v4"
    BY <2>1, V4At DEF IsV4Of, HasPorts
  <2> QED BY <1>2, <1>3, <2>1, <2>2
<1>6. ASSUME NEW y \in CascadeInputs(cells'), NEW f \in Feeders(cells', cells'[y].pcin)
      PROVE  /\ \E x \in V2 : f = V4Name(x)
             /\ \E x \in Taking : /\ y = V4Name(x) /\ cells'[y].pcin = start[x].zcin
                                  /\ f \in Feeders(cells', start[x].zcin)
  <2>1. y \in DOMAIN cells' /\ cells'[y].kind = "v4" /\ cells'[y].addend = "pcin"
    BY <1>6 DEF CascadeInputs
  <2>2. PICK x \in V2 : y = V4Name(x) /\ IsV4Of(cells'[y], x) /\ cells'[y].pcin = start[x].zcin
    BY <1>4, <2>1
  <2>3. /\ f \in DOMAIN cells' /\ cells'[f].kind = "v4"
        /\ cells'[y].pcin \in Drives(cells'[f]) \ {Open}
    BY <1>6, FeederIs
  <2>4. PICK g \in V2 : f = V4Name(g) /\ IsV4Of(cells'[f], g)
    BY <1>4, <2>3
  <2>5. ~IsConst(start[x].zcin) /\ start[x].zcin # Open
    BY <2>2, <2>3, <2>4, V4Drives
  <2>6. x \in Taking
    BY <2>1, <2>2, <2>5 DEF Taking, V2, IsV4Of
  <2> QED BY <2>2, <2>4, <2>6
<1>7. ASSUME NEW n \in DOMAIN cells'
      PROVE  cells'[n].kind # "v4" \/ MadeOf(n)' \/ CopyOf(n)'
  BY <1>4, <1>7, SameStart DEF MadeOf
<1>8. /\ DOMAIN cons' = UNION {Feeders(cells', cells'[y].pcin) : y \in CascadeInputs(cells')}
      /\ \A f \in DOMAIN cons' :
           cons'[f] = {y \in CascadeInputs(cells') : f \in Feeders(cells', cells'[y].pcin)}
  BY <1>1 DEF Groups
<1>9. ASSUME NEW f \in DOMAIN cons'
      PROVE  /\ \E x \in V2 : f = V4Name(x)
             /\ IsFiniteSet(cons'[f]) /\ \A y \in cons'[f] : Listed(f, y)'
  <2>1. \A y \in cons'[f] : y \in CascadeInputs(cells') /\ f \in Feeders(cells', cells'[y].pcin)
    BY <1>8
  <2>2. \E x \in V2 : f = V4Name(x)
    BY <1>6, <1>8
  <2>3. cons'[f] \subseteq {V4Name(x) : x \in V2}
    BY <1>6, <2>1 DEF Taking, V2
  <2>4. IsFiniteSet(cons'[f])
    BY <2>3, V4Finite, FS_Subset DEF IsDspNetlist
  <2>5. \A y \in cons'[f] : Listed(f, y)'
    BY <1>6, <2>1, SameStart DEF Listed
  <2> QED BY <2>2, <2>4, <2>5
<1>10. ASSUME NEW y \in CascadeInputs(cells'), NEW f \in Feeders(cells', cells'[y].pcin)
       PROVE  f \in DOMAIN cons' /\ y \in cons'[f]
  BY <1>8, <1>10
<1> QED BY <1>5, <1>7, <1>9, <1>10, SameStart DEF Legalizing

LEMMA TwoOf ==
  ASSUME NEW S, IsFiniteSet(S)
  PROVE  Cardinality(S) > 1 <=> \E a, b \in S : a # b
<1>1. ASSUME NEW a \in S, \A b \in S : b = a PROVE Cardinality(S) = 1
  <2>1. S = {a}
    BY <1>1
  <2> QED BY <2>1, FS_Singleton
<1>2. S = {} => Cardinality(S) = 0
  BY FS_EmptySet
<1>3. ASSUME NEW a \in S, NEW b \in S, a # b PROVE Cardinality(S) > 1
  <2>1. IsFiniteSet({a, b}) /\ Cardinality({a, b}) = 2
    <3>1. IsFiniteSet({a}) /\ Cardinality({a}) = 1
      BY FS_Singleton
    <3>2. IsFiniteSet({a} \cup {b}) /\ Cardinality({a} \cup {b}) = 2
      BY <1>3, <3>1, FS_AddElement
    <3>3. {a} \cup {b} = {a, b}
      OBVIOUS
    <3> QED BY <3>2, <3>3
  <2>2. {a, b} \subseteq S
    BY <1>3
  <2>3. Cardinality({a, b}) <= Cardinality(S) /\ Cardinality(S) \in Nat
    BY <2>2, FS_Subset, FS_CardinalityType
  <2> QED BY <2>1, <2>3
<1> QED BY <1>1, <1>2, <1>3

(* A copy drives wires of its own.                                           *)
LEMMA CopyDrives ==
  ASSUME NamesApart(start), NEW x \in V2, NEW c, HasPorts(c),
         c.p = Extra(V4Name(x)), c.pcout \in {Open, Extra(Extra(V4Name(x)))},
         NEW n \in Drives(c) \ {Open}
  PROVE  /\ n \in {Extra(V4Name(x)), Extra(Extra(V4Name(x)))}
         /\ ~IsConst(n) /\ n \notin Nets(start)
<1>1. Drives(c) = {c.p, c.pcout}
  BY DEF Drives, HasPorts
<1>2. Base(V4Name(x)) /\ Base(Extra(V4Name(x)))
  BY V2Nets DEF Base
<1> QED BY <1>1, <1>2, NewNames

LEMMA DrivesNoConst ==
  ASSUME IsDspNetlist(start), NamesApart(start), Legalizing,
         NEW f \in DOMAIN cells, cells[f].kind = "v4", NEW n \in Drives(cells[f]) \ {Open}
  PROVE  ~IsConst(n)
<1>1. CASE MadeOf(f)
  BY <1>1, V4Drives DEF MadeOf
<1>2. CASE CopyOf(f)
  BY <1>2, CopyDrives DEF CopyOf
<1> QED BY <1>1, <1>2 DEF Legalizing

(* By its name a cell is a converted one.                                    *)
LEMMA MadeAt ==
  ASSUME NamesApart(start), Legalizing, NEW x \in V2, V4Name(x) \in DOMAIN cells,
         cells[V4Name(x)].kind = "v4"
  PROVE  /\ IsV4Of(cells[V4Name(x)], x)
         /\ cells[V4Name(x)].addend = "pcin" =>
              \/ cells[V4Name(x)].pcin = start[x].zcin
              \/ /\ x \in Taking
                 /\ cells[V4Name(x)].pcin \in {Extra(V4Name(x)), Extra(Extra(V4Name(x)))}
<1>1. \A y \in V2 : V4Name(x) # Copy(y)
  BY NewNames, V2Nets DEF Base, Copy
<1>2. MadeOf(V4Name(x))
  BY <1>1 DEF Legalizing, CopyOf
<1>3. \A y \in V2 : V4Name(x) = V4Name(y) => x = y
  BY NewNames, V2Nets
<1> QED BY <1>2, <1>3 DEF MadeOf

(* A cell that is fed a cascade is a converted one.                          *)
LEMMA FedIsMade ==
  ASSUME IsDspNetlist(start), NamesApart(start), Legalizing,
         NEW y \in CascadeInputs(cells), NEW f \in Feeders(cells, cells[y].pcin)
  PROVE  \E x \in V2 : y = V4Name(x)
<1>1. y \in DOMAIN cells /\ cells[y].kind = "v4" /\ cells[y].addend = "pcin"
  BY DEF CascadeInputs
<1>2. ~IsConst(cells[y].pcin) /\ cells[y].pcin # Open
  BY FeederIs, DrivesNoConst
<1>3. MadeOf(y)
  BY <1>1, <1>2 DEF Legalizing, CopyOf
<1> QED BY <1>3 DEF MadeOf

(* A feeder of several takes no cascade.                                     *)
LEMMA SpareTakesNone ==
  ASSUME IsDspNetlist(start), NamesApart(start), RegularCascades, Legalizing,
         NEW f \in DOMAIN cons, Spare(f), cells[f].addend = "pcin"
  PROVE  IsConst(cells[f].pcin) \/ cells[f].pcin = Open
<1>1. PICK g \in V2 : f = V4Name(g)
  BY DEF Legalizing
<1>2. PICK y1 \in cons[f], y2 \in cons[f] : y1 # y2
  BY TwoOf DEF Spare, Legalizing
<1>3. PICK x1 \in Taking : y1 = V4Name(x1) /\ f \in Feeders(cells, start[x1].zcin)
  BY DEF Legalizing, Listed
<1>4. PICK x2 \in Taking : y2 = V4Name(x2) /\ f \in Feeders(cells, start[x2].zcin)
  BY DEF Legalizing, Listed
<1>5. f \in DOMAIN cells /\ cells[f].kind = "v4"
  BY <1>3, FeederIs
<1>6. IsV4Of(cells[f], g)
  BY <1>1, <1>5, MadeAt
<1>7. \A x \in Taking : f \in Feeders(cells, start[x].zcin) => x \in Fed(g)
  <2> SUFFICES ASSUME NEW x \in Taking, f \in Feeders(cells, start[x].zcin)
               PROVE  start[x].zcin \in Drives(start[g])
    BY DEF Fed
  <2>1. x \in V2
    BY DEF Taking, V2
  <2>2. start[x].zcin \in Drives(cells[f]) /\ start[x].zcin \in Nets(start) \ {Open}
    BY <2>1, FeederIs, V2Nets
  <2> QED BY <1>6, <2>2, OldDriver
<1>8. SUFFICES ASSUME ~IsConst(cells[f].pcin), cells[f].pcin # Open PROVE FALSE
  OBVIOUS
<1>9. g \in Taking
  BY <1>1, <1>5, <1>6, <1>8, MadeAt DEF IsV4Of, Taking, V2
<1>10. IsFiniteSet(Fed(g))
  <2>1. Fed(g) \subseteq DOMAIN start
    BY DEF Fed, Taking, V2CellsOf
  <2> QED BY <2>1, FS_Subset DEF IsDspNetlist
<1>11. x1 # x2 /\ x1 \in Fed(g) /\ x2 \in Fed(g)
  BY <1>2, <1>3, <1>4, <1>7
<1>12. Cardinality(Fed(g)) > 1
  BY <1>10, <1>11, TwoOf
<1>13. Cardinality(Fed(g)) <= 1
  BY <1>9 DEF RegularCascades
<1>14. Cardinality(Fed(g)) \in Nat
  BY <1>10, FS_CardinalityType
<1> QED BY <1>12, <1>13, <1>14

(* The wires of two copies are apart.                                        *)
LEMMA OwnWires ==
  ASSUME NamesApart(start), NEW x \in V2, NEW y \in V2,
         NEW n \in {Extra(V4Name(x)), Extra(Extra(V4Name(x)))},
         n \in {Extra(V4Name(y)), Extra(Extra(V4Name(y)))}
  PROVE  V4Name(x) = V4Name(y)
<1>1. \A z \in V2 : Base(V4Name(z)) /\ Base(Extra(V4Name(z)))
  BY V2Nets DEF Base
<1>2. Extra(V4Name(x)) # V4Name(y) /\ Extra(V4Name(y)) # V4Name(x)
  BY <1>1, NewNames, V2Nets
<1> QED BY <1>1, <1>2, NewNames

LEMMA ReplicateKeeps ==
  ASSUME IsDspNetlist(start), NamesApart(start), RegularCascades, Legalizing, Replicate,
         UNCHANGED start
  PROVE  Legalizing'
<1>1. PICK f \in DOMAIN cons :
        /\ Spare(f)
        /\ \E y \in cons[f] :
             LET clone == Extra(V4Name(y))
             IN  /\ cells' = [With(clone, Replica(f, y)) EXCEPT ![y].pcin = Repointed(f, y)]
                 /\ made' = made \cup {clone}
                 /\ cons' = [cons EXCEPT ![f] = @ \ {y}]
  BY DEF Replicate
<1>2. PICK y \in cons[f] :
        /\ cells' = [With(Extra(V4Name(y)), Replica(f, y)) EXCEPT ![y].pcin = Repointed(f, y)]
        /\ cons' = [cons EXCEPT ![f] = @ \ {y}]
  BY <1>1
<1>3. PICK x \in Taking : /\ y = V4Name(x) /\ y \in CascadeInputs(cells)
                          /\ cells[y].pcin = start[x].zcin
                          /\ f \in Feeders(cells, start[x].zcin)
  BY DEF Legalizing, Listed
<1>4. PICK g \in V2 : f = V4Name(g)
  BY DEF Legalizing
<1> DEFINE n == start[x].zcin
           c == Copy(x)
           new == Replica(f, y)
           wire == Repointed(f, y)
<1>5. /\ x \in V2 /\ n \in Nets(start) /\ n # Open /\ ~IsConst(n)
      /\ y \in DOMAIN cells /\ cells[y].kind = "v4" /\ cells[y].addend = "pcin"
      /\ f \in DOMAIN cells /\ cells[f].kind = "v4" /\ n \in Drives(cells[f])
  BY <1>3, FeederIs, V2Nets DEF Taking, V2, CascadeInputs
<1>6. IsV4Of(cells[y], x) /\ IsV4Of(cells[f], g)
  BY <1>3, <1>4, <1>5, MadeAt
<1>7. /\ Base(y) /\ Base(Extra(y)) /\ Base(V4Name(y)) /\ c = Extra(V4Name(y))
      /\ \A z \in V2 : c # V4Name(z)
      /\ c # y
  BY <1>3, <1>5, NewNames, V2Nets DEF Base, Copy
<1>8. /\ DOMAIN cells' = DOMAIN cells \cup {c}
      /\ cells'[c] = new /\ cells'[y] = [cells[y] EXCEPT !.pcin = wire]
      /\ \A z \in DOMAIN cells \ {c, y} : cells'[z] = cells[z]
  <2> HIDE DEF c, new, wire
  <2>1. cells' = [With(c, new) EXCEPT ![y].pcin = wire]
    BY <1>2, <1>7 DEF new, wire
  <2> QED BY <1>5, <1>7, <2>1 DEF With
<1>9. /\ HasPorts(new) /\ new.p = Extra(y) /\ new.pcout \in {Open, Extra(Extra(y))}
      /\ new.addend = cells[f].addend /\ new.pcin = cells[f].pcin
  BY <1>6 DEF Replica, IsV4Of, HasPorts
<1>10. wire \in {Extra(y), Extra(Extra(y))}
  <2>1. cells[y].pcin = n
    BY <1>3
  <2>2. new.p = Extra(y) /\ (cells[f].pcout # Open => new.pcout = Extra(Extra(y)))
    BY <1>6 DEF Replica, IsV4Of, HasPorts
  <2> HIDE DEF new, n
  <2> QED BY <1>5, <2>1, <2>2 DEF wire, Repointed, new
<1>11. CopyOf(c)'
  <2>1. cells[f].addend = "pcin" => IsConst(cells[f].pcin) \/ cells[f].pcin = Open
    BY <1>1, SpareTakesNone
  <2>2. x \in V2' /\ c = Copy(x)' /\ y = V4Name(x)
    BY <1>3, <1>5, SameStart DEF Copy
  <2> HIDE DEF c, new
  <2>3. cells'[c] = new
    BY <1>8
  <2> QED BY <1>9, <2>1, <2>2, <2>3 DEF CopyOf
<1>12. /\ IsV4Of(cells'[y], x) /\ cells'[y].pcin = wire /\ HasPorts(cells'[y])
       /\ cells'[y].p = cells[y].p /\ cells'[y].pcout = cells[y].pcout
  <2> HIDE DEF wire
  <2> QED BY <1>6, <1>8 DEF IsV4Of, HasPorts
<1>13. MadeOf(y)'
  BY <1>3, <1>5, <1>10, <1>12, SameStart DEF MadeOf
<1> HIDE DEF c, new, wire
<1>14. ASSUME NEW z \in DOMAIN cells'
       PROVE  cells'[z].kind # "v4" \/ MadeOf(z)' \/ CopyOf(z)'
  <2>1. CASE z \notin {c, y}
    <3>1. z \in DOMAIN cells /\ cells'[z] = cells[z]
      BY <1>8, <2>1
    <3>2. cells[z].kind # "v4" \/ MadeOf(z) \/ CopyOf(z)
      BY <3>1 DEF Legalizing
    <3> QED BY <3>1, <3>2, SameStart DEF MadeOf, CopyOf, Copy
  <2> QED BY <1>11, <1>13, <2>1
<1>15. ASSUME NEW z \in V2, Mode(start[z]) # "CONCAT_CASCADE"
       PROVE  V4Name(z) \in DOMAIN cells' /\ cells'[V4Name(z)].kind = "v4"
  <2>1. V4Name(z) \in DOMAIN cells /\ cells[V4Name(z)].kind = "v4"
    BY <1>15 DEF Legalizing
  <2> QED BY <1>7, <1>8, <1>12, <2>1 DEF HasPorts
<1>16. ASSUME NEW h \in DOMAIN cells \ {c}
       PROVE  /\ cells'[h].kind = cells[h].kind
              /\ cells[h].kind = "v4" => Drives(cells'[h]) = Drives(cells[h])
  <2>1. CASE h = y
    BY <1>5, <1>12, <2>1 DEF Drives, HasPorts
  <2> QED BY <1>8, <2>1
<1>17. /\ DOMAIN cons' = DOMAIN cons /\ cons'[f] = cons[f] \ {y}
       /\ \A h \in DOMAIN cons \ {f} : cons'[h] = cons[h]
  BY <1>2
<1>18. ASSUME NEW h \in DOMAIN cons'
       PROVE  /\ \E z \in V2 : h = V4Name(z)
              /\ IsFiniteSet(cons'[h]) /\ \A z \in cons'[h] : Listed(h, z)'
  <2>1. PICK k \in V2 : h = V4Name(k)
    BY <1>17 DEF Legalizing
  <2>2. IsFiniteSet(cons[h]) /\ cons'[h] \subseteq cons[h]
    BY <1>17 DEF Legalizing
  <2>3. ASSUME NEW z \in cons'[h] PROVE Listed(h, z)'
    <3>1. PICK w \in Taking : /\ z = V4Name(w) /\ z \in CascadeInputs(cells)
                              /\ cells[z].pcin = start[w].zcin
                              /\ h \in Feeders(cells, start[w].zcin)
      BY <1>17, <2>2 DEF Legalizing, Listed
    <3>2. h \in DOMAIN cells /\ cells[h].kind = "v4" /\ start[w].zcin \in Drives(cells[h])
      BY <3>1, FeederIs
    <3>3. z # y
      <4>1. CASE h = f
        BY <1>17, <4>1
      <4>2. CASE h # f
        <5> SUFFICES ASSUME z = y PROVE FALSE
          OBVIOUS
        <5>1. w = x
          BY <1>3, <1>5, <3>1, NewNames, V2Nets DEF Taking, V2
        <5>2. IsV4Of(cells[h], k)
          BY <2>1, <3>2, MadeAt
        <5>3. k = g
          BY <1>5, <1>6, <3>2, <5>1, <5>2, OldDriver
        <5> QED BY <1>4, <2>1, <4>2, <5>3
      <4> QED BY <4>1, <4>2
    <3>4. z # c /\ h # c
      BY <1>7, <2>1, <3>1 DEF Taking, V2
    <3>5. z \in DOMAIN cells /\ cells'[z] = cells[z] /\ z \in CascadeInputs(cells')
      BY <1>8, <3>1, <3>3, <3>4 DEF CascadeInputs
    <3>6. h \in Feeders(cells', start[w].zcin)
      BY <1>8, <1>16, <3>1, <3>2, <3>4, FeederIs
    <3> QED BY <3>1, <3>5, <3>6, SameStart DEF Listed
  <2> QED BY <2>1, <2>2, <2>3, FS_Subset
<1>19. ASSUME NEW z \in CascadeInputs(cells'), NEW h \in Feeders(cells', cells'[z].pcin)
       PROVE  h = Extra(V4Name(z)) \/ (h \in DOMAIN cons' /\ z \in cons'[h])
  <2> DEFINE m == cells'[z].pcin
  <2>1. /\ z \in DOMAIN cells' /\ cells'[z].kind = "v4" /\ cells'[z].addend = "pcin"
        /\ h \in DOMAIN cells' /\ cells'[h].kind = "v4" /\ m \in Drives(cells'[h]) /\ m # Open
    BY <1>19, FeederIs DEF CascadeInputs
  <2>2. h = c => m \in {Extra(y), Extra(Extra(y))}
    BY <1>3, <1>5, <1>8, <1>9, <2>1, CopyDrives
  <2>3. h # c => h \in DOMAIN cells /\ cells[h].kind = "v4" /\ m \in Drives(cells[h])
    BY <1>8, <1>16, <2>1
  <2>4. ~IsConst(m)
    <3>1. CASE h = c
      BY <1>7, <2>2, <3>1, NewNames
    <3>2. CASE h # c
      BY <2>1, <2>3, <3>2, DrivesNoConst
    <3> QED BY <3>1, <3>2
  <2>5. z # c
    BY <1>11, <2>1, <2>4, <1>8, <1>9, SpareTakesNone, <1>1
  <2>6. ASSUME z = y, h # c PROVE FALSE
    <3>1. m \in {Extra(y), Extra(Extra(y))}
      BY <1>10, <1>12, <2>6
    <3>2. m \notin Nets(start)
      BY <1>7, <3>1, NewNames
    <3>3. CASE MadeOf(h)
      <4>1. PICK w \in V2 : IsV4Of(cells[h], w)
        BY <3>3 DEF MadeOf
      <4>2. m \in Nets(start) \/ m = Extra(start[w].z)
        BY <2>1, <2>3, <2>6, <4>1, V4Drives, V2Nets
      <4>3. start[w].z \in Nets(start) /\ Base(start[w].z)
        BY V2Nets DEF Base
      <4>4. y \notin Nets(start) /\ Extra(y) \notin Nets(start)
        BY <1>3, <1>5, <1>7, NewNames, V2Nets
      <4> QED BY <1>7, <3>1, <3>2, <4>2, <4>3, <4>4, NewNames
    <3>4. CASE CopyOf(h)
      <4>1. PICK w \in V2 :
              /\ h = Copy(w) /\ HasPorts(cells[h]) /\ cells[h].p = Extra(V4Name(w))
              /\ cells[h].pcout \in {Open, Extra(Extra(V4Name(w)))}
        BY <3>4 DEF CopyOf
      <4>2. m \in {Extra(V4Name(w)), Extra(Extra(V4Name(w)))}
        BY <2>1, <2>3, <2>6, <4>1, CopyDrives
      <4>3. V4Name(w) = y
        BY <3>1, <4>2, OwnWires, <1>3, <1>5
      <4> QED BY <1>7, <2>6, <4>1, <4>3 DEF Copy
    <3> QED BY <2>3, <2>6, <3>3, <3>4 DEF Legalizing
  <2>7. ASSUME z # y, h = c PROVE FALSE
    <3>1. z \in DOMAIN cells /\ cells'[z] = cells[z]
      BY <1>8, <2>1, <2>5, <2>7
    <3>2. MadeOf(z)
      BY <2>1, <2>4, <3>1 DEF Legalizing, CopyOf
    <3>3. PICK w \in V2 :
            /\ z = V4Name(w)
            /\ cells[z].pcin = start[w].zcin \/ cells[z].pcin \in {Extra(z), Extra(Extra(z))}
      BY <2>1, <3>1, <3>2 DEF MadeOf
    <3>4. m \notin Nets(start)
      BY <1>7, <2>2, <2>7, NewNames
    <3>5. m \in {Extra(z), Extra(Extra(z))}
      BY <3>1, <3>3, <3>4, V2Nets
    <3> QED BY <1>3, <1>5, <2>2, <2>7, <3>3, <3>5, OwnWires
  <2>8. ASSUME z # y, h # c PROVE h = Extra(V4Name(z)) \/ (h \in DOMAIN cons' /\ z \in cons'[h])
    <3>1. z \in CascadeInputs(cells) /\ cells'[z] = cells[z]
      BY <1>8, <2>1, <2>5, <2>8 DEF CascadeInputs
    <3>2. h \in Feeders(cells, cells[z].pcin)
      BY <2>1, <2>3, <2>8, <3>1, FeederIs
    <3>3. h = Extra(V4Name(z)) \/ (h \in DOMAIN cons /\ z \in cons[h])
      BY <3>1, <3>2 DEF Legalizing
    <3> QED BY <1>17, <2>8, <3>3
  <2>9. z = y /\ h = c => h = Extra(V4Name(z))
    BY <1>7
  <2> QED BY <2>6, <2>7, <2>8, <2>9
<1> QED BY <1>14, <1>15, <1>18, <1>19, SameStart DEF Legalizing

(* When no feeder has more than one left, each has one, and a net that two   *)
(* share is one they shared from the start.                                  *)
LEMMA LegalizedKeeps ==
  ASSUME IsDspNetlist(start), NamesApart(start), RegularCascades => Legalizing, Legalized,
         UNCHANGED start
  PROVE  CascadesPrivate'
<1>1. /\ \A f \in DOMAIN cons : ~Spare(f)
      /\ verdict' = IF SharedCascade THEN "shared cascade" ELSE "ok"
      /\ cells' = cells /\ cons' = cons
  BY DEF Legalized
<1>2. SUFFICES ASSUME RegularCascades
               PROVE  /\ \A f \in made' :
                           Cardinality({y \in CascadeInputs(cells) :
                                          f \in Feeders(cells, cells[y].pcin)}) <= 1
                      /\ SharedCascade =>
                           \E x, y \in Taking : /\ x # y /\ start[x].zcin = start[y].zcin
                                                /\ Irreplaceable(start[x].zcin)
  <2>1. \A n : Irreplaceable(n)' = Irreplaceable(n)
    BY DEF Irreplaceable
  <2> QED BY <1>1, <1>2, <2>1, SameStart DEF CascadesPrivate, HeadsPrivate, SharedIfIrreplaceable
<1>3. Legalizing
  BY <1>2
<1>4. ASSUME NEW y \in CascadeInputs(cells), NEW f \in Feeders(cells, cells[y].pcin)
      PROVE  (\E x \in V2 : y = V4Name(x))
                /\ (f = Extra(V4Name(y)) \/ (f \in DOMAIN cons /\ y \in cons[f]))
  BY <1>3, FedIsMade DEF Legalizing
<1>5. ASSUME NEW f \in DOMAIN cons, NEW x \in cons[f], NEW y \in cons[f] PROVE x = y
  <2>1. IsFiniteSet(cons[f])
    BY <1>3 DEF Legalizing
  <2>2. ~(Cardinality(cons[f]) > 1)
    BY <1>1 DEF Spare
  <2> QED BY <2>1, <2>2, TwoOf
<1>6. ASSUME NEW f
      PROVE  Cardinality({y \in CascadeInputs(cells) : f \in Feeders(cells, cells[y].pcin)}) <= 1
  <2> DEFINE S == {y \in CascadeInputs(cells) : f \in Feeders(cells, cells[y].pcin)}
  <2>1. S \subseteq {V4Name(x) : x \in V2}
    BY <1>4
  <2>2. IsFiniteSet(S)
    BY <2>1, V4Finite, FS_Subset DEF IsDspNetlist
  <2>3. ASSUME NEW a \in S, NEW b \in S PROVE a = b
    <3>1. PICK x \in V2, y \in V2 : a = V4Name(x) /\ b = V4Name(y)
      BY <1>4, <2>3
    <3>2. CASE f = Extra(V4Name(a)) /\ f = Extra(V4Name(b))
      BY <3>1, <3>2, NewNames, V2Nets DEF Base
    <3>3. CASE f \in DOMAIN cons
      <4>1. \A z \in V2 : f # Extra(V4Name(V4Name(z)))
        BY <1>3, <3>3, NewNames, V2Nets DEF Base, Legalizing
      <4> QED BY <1>4, <1>5, <2>3, <3>1, <3>3, <4>1
    <3> QED BY <1>4, <2>3, <3>2, <3>3
  <2> HIDE DEF S
  <2>4. ~(Cardinality(S) > 1) /\ Cardinality(S) \in Nat
    BY <2>2, <2>3, TwoOf, FS_CardinalityType
  <2>5. Cardinality(S) <= 1
    BY <2>4
  <2> QED BY <2>5 DEF S
<1>7. ASSUME NEW a \in CascadeInputs(cells), NEW b \in CascadeInputs(cells), a # b,
             cells[a].pcin = cells[b].pcin, ~IsConst(cells[a].pcin), cells[a].pcin # Open
      PROVE  \E x, y \in Taking : /\ x # y /\ start[x].zcin = start[y].zcin
                                  /\ Irreplaceable(start[x].zcin)
  <2> DEFINE n == cells[a].pcin
  <2>1. \A z \in {a, b} : /\ z \in DOMAIN cells /\ cells[z].kind = "v4"
                          /\ cells[z].addend = "pcin" /\ cells[z].pcin = n
    BY <1>7 DEF CascadeInputs
  <2>2. \A z \in {a, b} : MadeOf(z)
    BY <1>3, <1>7, <2>1 DEF Legalizing, CopyOf
  <2>3. PICK x \in V2 : /\ a = V4Name(x) /\ Mode(start[x]) \in CascadeModes
                        /\ \/ n = start[x].zcin
                           \/ n \in {Extra(a), Extra(Extra(a))}
    BY <2>1, <2>2 DEF MadeOf, IsV4Of
  <2>4. PICK y \in V2 : /\ b = V4Name(y) /\ Mode(start[y]) \in CascadeModes
                        /\ \/ n = start[y].zcin
                           \/ n \in {Extra(b), Extra(Extra(b))}
    BY <2>1, <2>2 DEF MadeOf, IsV4Of
  <2> HIDE DEF n
  <2>5. /\ n \in {Extra(a), Extra(Extra(a))} => n \notin Nets(start)
        /\ n \in {Extra(b), Extra(Extra(b))} => n \notin Nets(start)
    <3>1. Base(a) /\ Base(b) /\ Base(Extra(a)) /\ Base(Extra(b))
      BY <2>3, <2>4, V2Nets DEF Base
    <3> QED BY <3>1, NewNames
  <2>6. ~(n \in {Extra(a), Extra(Extra(a))} /\ n \in {Extra(b), Extra(Extra(b))})
    BY <1>7, <2>3, <2>4, OwnWires
  <2>7. n = start[x].zcin /\ n = start[y].zcin
    BY <2>3, <2>4, <2>5, <2>6, V2Nets
  <2>8. x \in Taking /\ y \in Taking /\ x # y
    BY <1>7, <2>3, <2>4, <2>7 DEF Taking, V2, n
  <2>9. ASSUME NEW f \in Drivers(start, n), start[f].kind = "v2",
               Mode(start[f]) # "CONCAT_CASCADE",
               ~(Mode(start[f]) \in Accumulate /\ OutReg(start[f]) /\ n = start[f].z)
        PROVE  FALSE
    <3>1. f \in V2 /\ n \in Drives(start[f]) /\ n # Open
      BY <2>9 DEF Drivers, V2, V2CellsOf
    <3>2. V4Name(f) \in DOMAIN cells /\ cells[V4Name(f)].kind = "v4"
      BY <1>3, <2>9, <3>1 DEF Legalizing
    <3>3. IsV4Of(cells[V4Name(f)], f)
      BY <1>3, <3>1, <3>2, MadeAt
    <3>4. n \in Drives(cells[V4Name(f)])
      <4>1. Drives(cells[V4Name(f)]) = {POf(f), PCout(start[f])}
        BY <3>3 DEF Drives, IsV4Of, HasPorts
      <4>2. n = start[f].z \/ n = start[f].zcout
        BY <3>1, V2Nets
      <4> QED BY <2>9, <4>1, <4>2 DEF POf, PCout
    <3>5. V4Name(f) \in Feeders(cells, n)
      BY <3>1, <3>2, <3>4, FeederIs
    <3>6. \A z \in V2 : V4Name(f) # Extra(V4Name(V4Name(z)))
      BY <3>1, NewNames, V2Nets DEF Base
    <3>7. V4Name(f) \in DOMAIN cons /\ a \in cons[V4Name(f)] /\ b \in cons[V4Name(f)]
      BY <1>4, <1>7, <2>3, <2>4, <3>5, <3>6 DEF n
    <3> QED BY <1>5, <1>7, <3>7
  <2>10. Irreplaceable(n)
    BY <2>9 DEF Irreplaceable
  <2> QED BY <2>7, <2>8, <2>10
<1> QED BY <1>6, <1>7 DEF SharedCascade

LEMMA CascadeInit == Dspv2Init => CascadeInv
<1> SUFFICES ASSUME Dspv2Init PROVE CascadeInv
  OBVIOUS
<1>1. PICK d \in Dspv2Designs :
        /\ cells = d.cells /\ step = d.step /\ start = d.cells
        /\ verdict = "ok" /\ consumed = {} /\ made = {}
  BY DEF Dspv2Init
<1>2. CASE step = "decode"
  BY <1>1, <1>2, NetlistsAssumption DEF CascadeInv, Bridging
<1>3. CASE step # "decode"
  BY <1>1, <1>3, NetlistsAssumption DEF CascadeInv
<1> QED BY <1>2, <1>3

LEMMA CascadeStep == CascadeInv /\ [Dspv2Next]_dspv2Vars => CascadeInv'
<1> SUFFICES ASSUME CascadeInv, [Dspv2Next]_dspv2Vars PROVE CascadeInv'
  OBVIOUS
<1>1. CASE InferMacc \/ MapFinal \/ TypeCell \/ TypesEnd
  <2>1. step \in {"macc", "types"} /\ verdict = "ok"
    BY <1>1 DEF InferMacc, Infer, MapFinal, TypeCell, Visit, TypesEnd
  <2>2. made = {}
    BY <2>1 DEF CascadeInv, Bridging
  <2>3. made' = made
    BY <1>1 DEF InferMacc, MapFinal, TypeCell, TypesEnd, v4Vars
  <2>4. step' \in {"macc", "types", "done"}
    BY <1>1, <2>1 DEF InferMacc, MapFinal, TypeCell, TypesEnd
  <2>5. verdict' # "shared cascade"
    <3>1. CASE TypeCell
      <4>1. verdict' \in {verdict, "not constant", "no z_cout"}
        BY <3>1 DEF TypeCell, Visit, TypesError
      <4> QED BY <2>1, <4>1
    <3> QED BY <1>1, <2>1, <3>1 DEF InferMacc, Infer, MapFinal, TypesEnd
  <2> QED BY <2>2, <2>3, <2>4, <2>5 DEF CascadeInv
<1>2. CASE ToV4
  <2>1. UNCHANGED start
    BY <1>2 DEF ToV4, flowVars
  <2>2. step \in {"decode", "fuse", "convert", "legalize"} /\ verdict = "ok"
    BY <1>2 DEF ToV4, NextToV4, Decode, Fuse, FuseEnd, Convert, RemoveConverted, Replicate,
                Legalized
  <2>3. Bridging /\ IsDspNetlist(start) /\ NamesApart(start)
    BY <2>2 DEF CascadeInv, Bridging
  <2>4. IsDspNetlist(start)' /\ NamesApart(start)'
    BY <2>1, <2>3, SameStart
  <2>5. CASE Decode
    <3>1. cells = start /\ consumed = {} /\ UNCHANGED <<cells, consumed>> /\ step' = "fuse"
      BY <2>3, <2>5 DEF Bridging, Decode
    <3>2. left' = V2Cells
      BY <2>5 DEF Decode
    <3>3. Converting'
      BY <2>1, <3>1, <3>2, SameStart DEF Converting, V2Cells, V2
    <3>4. verdict' # "shared cascade"
      <4>1. \A x : DecodeError(cells[x]) # "shared cascade"
        BY DEF DecodeError
      <4> QED BY <2>5, <4>1 DEF Decode
    <3> QED BY <2>4, <3>1, <3>3, <3>4 DEF CascadeInv, Bridging
  <2>6. CASE Fuse \/ FuseEnd \/ Convert
    <3>1. step \in {"fuse", "convert"} /\ step' \in {"fuse", "convert"}
      BY <2>6 DEF Fuse, FuseEnd, Convert
    <3>2. Converting
      BY <2>3, <3>1 DEF Bridging
    <3>3. Converting' /\ verdict' # "shared cascade"
      BY <2>1, <2>3, <2>6, <3>2, FuseKeeps, FuseEndKeeps, ConvertKeeps
    <3> QED BY <2>4, <3>1, <3>3 DEF CascadeInv, Bridging
  <2>7. CASE RemoveConverted
    <3>1. step = "convert" /\ step' = "legalize" /\ verdict' = verdict
      BY <2>7 DEF RemoveConverted
    <3>2. Legalizing'
      BY <2>1, <2>3, <2>7, <3>1, RemoveKeeps DEF Bridging
    <3> QED BY <2>2, <2>4, <3>1, <3>2 DEF CascadeInv, Bridging
  <2>8. CASE Replicate
    <3>1. step = "legalize" /\ step' = step /\ verdict' = verdict
      BY <2>8 DEF Replicate
    <3>2. (RegularCascades => Legalizing)'
      BY <2>1, <2>3, <2>8, <3>1, ReplicateKeeps, SameStart DEF Bridging
    <3> QED BY <2>2, <2>4, <3>1, <3>2 DEF CascadeInv, Bridging
  <2>9. CASE Legalized
    <3>1. step = "legalize" /\ step' = "done"
      BY <2>9 DEF Legalized
    <3>2. CascadesPrivate'
      BY <2>1, <2>3, <2>9, <3>1, LegalizedKeeps DEF Bridging
    <3> QED BY <2>4, <3>1, <3>2 DEF CascadeInv, Bridging
  <2> QED BY <1>2, <2>5, <2>6, <2>7, <2>8, <2>9 DEF ToV4, NextToV4
<1>3. CASE UNCHANGED dspv2Vars
  <2>1. /\ UNCHANGED <<cells, left, verdict, step, consumed, made, cons>>
        /\ UNCHANGED start
    BY <1>3 DEF dspv2Vars
  <2>2. CASE made = {} /\ step \in {"macc", "types", "done"} /\ verdict # "shared cascade"
    BY <2>1, <2>2 DEF CascadeInv
  <2>3. CASE Bridging
    <3>1. IsDspNetlist(start)' /\ NamesApart(start)' /\ V2' = V2 /\ RegularCascades' = RegularCascades
      BY <2>1, <2>3, SameStart DEF Bridging
    <3>2. Converting => Converting'
      BY <2>1, <3>1 DEF Converting, IsV4Of, POf
    <3>3. Legalizing => Legalizing'
      <4>1. \A n : MadeOf(n) => MadeOf(n)'
        BY <2>1, <3>1, SameStart DEF MadeOf, IsV4Of, POf
      <4>2. \A n : CopyOf(n) => CopyOf(n)'
        BY <2>1, <3>1 DEF CopyOf
      <4>3. \A f, y : Listed(f, y) => Listed(f, y)'
        BY <2>1, SameStart DEF Listed
      <4> QED BY <2>1, <3>1, <4>1, <4>2, <4>3 DEF Legalizing
    <3>4. CascadesPrivate => CascadesPrivate'
      <4>1. \A n : Irreplaceable(n) => Irreplaceable(n)'
        BY <2>1 DEF Irreplaceable
      <4> QED BY <2>1, <3>1, <4>1, SameStart
                 DEF CascadesPrivate, HeadsPrivate, SharedIfIrreplaceable
    <3> QED BY <2>1, <2>3, <3>1, <3>2, <3>3, <3>4 DEF CascadeInv, Bridging
  <2> QED BY <2>2, <2>3 DEF CascadeInv
<1> QED BY <1>1, <1>2, <1>3 DEF Dspv2Next

(* Whatever cells are fused and replicated and in whatever order, a cascade  *)
(* leads from one cell to one other, or the pass says why it cannot          *)
(* (ql-dspv2-to-dspv4.cc:750-850).                                           *)
THEOREM CascadesPrivateHolds == Dspv2Spec => []CascadesPrivate
<1>1. Dspv2Init => CascadeInv
  BY CascadeInit
<1>2. CascadeInv /\ [Dspv2Next]_dspv2Vars => CascadeInv'
  BY CascadeStep
<1>3. CascadeInv => CascadesPrivate
  <2>1. ASSUME made = {}, verdict # "shared cascade" PROVE CascadesPrivate
    BY <2>1 DEF CascadesPrivate, HeadsPrivate, SharedIfIrreplaceable
  <2>2. ASSUME step # "done", verdict # "shared cascade" PROVE CascadesPrivate
    BY <2>2 DEF CascadesPrivate, HeadsPrivate, SharedIfIrreplaceable
  <2> QED BY <2>1, <2>2 DEF CascadeInv, Bridging
<1> QED BY <1>1, <1>2, <1>3, PTL DEF Dspv2Spec
===============================================================================
