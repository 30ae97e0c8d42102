------------------------------ MODULE SdcClocks ------------------------------
(* The clocks of the sdc plugin: create_clock and the passes of              *)
(* propagate_clocks over the clock attributes of wires.                      *)
(* src/sdc-plugin/sdc.cc, clocks.cc, propagation.cc and buffers.cc.          *)
(*                                                                           *)
(* A clock is a set of attributes on a wire.  A propagation pass iterates    *)
(* over the clocks there were when it began and writes clocks while it goes, *)
(* so a clock may be read after the same pass has overwritten it, and clocks *)
(* it adds are seen by later passes only.  Commands come in any order.       *)
(*                                                                           *)
(* Times are in units that make them integers.  Both buffers have delay 0,   *)
(* and the outputs of a PLL phase 0 and duty cycle 1/2, its defaults.        *)
EXTENDS Integers, FiniteSets

CONSTANTS
    Wire,       \* the wires of the top module, named by themselves
    Name,       \* clock names, wire names among them
    Command,    \* what create_clock can be called with
    Designs,    \* the netlists
    NoTarget,   \* abc9.D when nothing has set it: INT32_MAX
    MaxRuns     \* bound on create_clock and propagate_clocks calls

(* create_clock -name -period [-waveform] targets                            *)
CommandType == [name : Name, period : Nat \ {0}, rise : Nat, fall : Nat,
                targets : SUBSET Wire]

(* A buffer goes from one wire to another.  A cell with a CLKIN1 or CLKIN2   *)
(* pin is a PLL or not; `clkin' is CLKIN1_PERIOD, `mult' CLKFBOUT_MULT, and  *)
(* `outs' the used outputs with their dividers, DIVCLK_DIVIDE included.      *)
Buffer  == [in : Wire, out : Wire]
Divider == [in : Wire, pin : {"CLKIN1", "CLKIN2"}, pll : BOOLEAN,
            clkin : Nat, mult : Nat \ {0},
            outs : SUBSET [wire : Wire, div : Nat \ {0}]]
DesignType == [ibuf : SUBSET Buffer, bufg : SUBSET Buffer,
               dividers : SUBSET Divider]

ASSUME ClocksAssumption ==
    /\ Wire \subseteq Name
    /\ Command \subseteq CommandType
    /\ Designs \subseteq DesignType
    /\ NoTarget \in Nat /\ MaxRuns \in Nat

Kinds   == {"explicit", "generated", "propagated"}
Clock   == [kind : Kinds, name : Name, period : Nat, rise : Nat, fall : Nat]
NoClock == [kind |-> "none"]

VARIABLES
    design,
    clock,   \* the clock attributes of each wire
    abc9,    \* abc9.D of the scratchpad
    pass,    \* the command or pass that runs
    todo,    \* the clocks of its snapshot that it has not come to
    settled, \* the last command was propagate_clocks
    before,  \* the clocks when the command began, if settled then
    runs     \* calls so far

vars == <<design, clock, abc9, pass, todo, settled, before, runs>>

(* Clocks::GetClocks()                                                       *)
Clocks == {w \in Wire : clock[w] # NoClock}

Half(t) == t \div 2

------------------------------------------------------------------------------
Init ==
    /\ design \in Designs
    /\ clock = [w \in Wire |-> NoClock]
    /\ abc9 = NoTarget
    /\ pass = "none" /\ todo = {}
    /\ settled = FALSE /\ before = <<>>
    /\ runs = 0

(* Clock::Add(): all attributes of the wire are written.                     *)
Explicit(c) == [kind |-> "explicit", name |-> c.name, period |-> c.period,
                rise |-> c.rise, fall |-> c.fall]

CreateClock(c) ==
    /\ pass = "none" /\ runs < MaxRuns
    /\ runs' = runs + 1
    /\ settled' = FALSE
    /\ IF c.targets = {}
       THEN pass' = "aborted" /\ UNCHANGED clock
       ELSE /\ clock' = [w \in Wire |->
                  IF w \in c.targets THEN Explicit(c) ELSE clock[w]]
            /\ UNCHANGED pass
    /\ UNCHANGED <<design, abc9, todo, before>>

PropagateClocks ==
    /\ pass = "none" /\ runs < MaxRuns
    /\ runs' = runs + 1
    /\ before' = IF settled THEN clock ELSE <<>>
    /\ pass' = "ibuf" /\ todo' = Clocks
    /\ UNCHANGED <<design, clock, abc9, settled>>

(* Faulty form of Following: buffers behind a PLL are left out.              *)
FollowingOnce == [ibuf |-> "bufg", bufg |-> "pll", pll |-> "abc9"]

(* A pass that is through its snapshot is followed by the next one.          *)
Following == [ibuf |-> "bufg", bufg |-> "pll", pll |-> "bufgAfter",
              bufgAfter |-> "abc9"]

NextPass ==
    /\ pass \in DOMAIN Following /\ todo = {}
    /\ pass' = Following[pass]
    /\ todo' = IF pass = "bufgAfter" THEN {} ELSE Clocks
    /\ UNCHANGED <<design, clock, abc9, settled, before, runs>>

------------------------------------------------------------------------------
(* PropagateThroughBuffers()                                                 *)

Buffers == IF pass = "ibuf" THEN design.ibuf ELSE design.bufg

(* Faulty form of Behind: the search does not go on behind the first buffer. *)
BehindOne(bufs, w) == {b.out : b \in {b \in bufs : b.in = w}}

(* FindSinkWiresForCellType(): all wires behind w through such buffers, the  *)
(* least set that has the output of each buffer at w and at a wire of it.    *)
Behind(bufs, w) ==
    LET ends      == {b.out : b \in bufs}
        closed(S) == \A b \in bufs : b.in \in S \cup {w} => b.out \in S
    IN  {v \in ends : \A S \in SUBSET ends : closed(S) => v \in S} \ {w}

(* A netlist: a wire has one driver, input buffers stand at pads, buffers    *)
(* form no loop, and the periods of PLLs are in units that divide.           *)
IsNetlist(d) ==
    LET bufs == d.ibuf \cup d.bufg
    IN  /\ IsFiniteSet(d.dividers)
        /\ d.ibuf \cap d.bufg = {}
        /\ \A b, c \in bufs : b.out = c.out => b = c
        /\ \A p \in d.dividers : \A o \in p.outs :
             /\ \A b \in bufs : b.out # o.wire
             /\ \A q \in d.dividers : \A r \in q.outs :
                  o.wire = r.wire => p = q /\ o = r
             /\ \A b \in d.ibuf : b.in # o.wire
             /\ (p.clkin * o.div) % p.mult = 0
        /\ \A b \in d.ibuf : \A c \in bufs : c.out # b.in
        /\ \A b \in d.bufg : b.in \notin Behind(d.bufg, b.out) \cup {b.out}

ASSUME NetlistAssumption == \A d \in Designs : IsNetlist(d)

(* FindSinkCellOfType() asserts that there is one.                           *)
SeveralSinks(bufs, w) ==
    \E v \in Behind(bufs, w) \cup {w} :
      \E b, c \in bufs : b.in = v /\ c.in = v /\ b # c

(* The clock of a wire behind a buffer: its own name, all else as before.    *)
Propagated(c, w) == [c EXCEPT !.kind = "propagated", !.name = w]

ThroughBuffers(w) ==
    /\ pass \in {"ibuf", "bufg", "bufgAfter"} /\ w \in todo
    /\ todo' = todo \ {w}
    /\ IF SeveralSinks(Buffers, w)
       THEN pass' = "aborted" /\ UNCHANGED clock
       ELSE /\ clock' = [v \in Wire |->
                  IF v \in Behind(Buffers, w) THEN Propagated(clock[w], v)
                  ELSE clock[v]]
            /\ UNCHANGED pass
    /\ UNCHANGED <<design, abc9, settled, before, runs>>

------------------------------------------------------------------------------
(* PropagateClocksForCellType()                                              *)

On(w, pin) == {d \in design.dividers : d.in = w /\ d.pin = pin}

(* CLKIN1 wins if a PLL is there; else whatever CLKIN2 has.                  *)
Sinks(w) == IF \E d \in On(w, "CLKIN1") : d.pll THEN On(w, "CLKIN1")
            ELSE On(w, "CLKIN2")

(* Two sinks of a pin, a sink that is no PLL, or a period that is not the    *)
(* PLL's end the command.                                                    *)
Rejected(w) ==
    \/ Cardinality(On(w, "CLKIN1")) > 1
    \/ Cardinality(Sinks(w)) > 1
    \/ \E d \in Sinks(w) : ~d.pll \/ d.clkin # clock[w].period

(* Faulty form of OutPeriod: the divider multiplies the frequency.           *)
OutPeriodUp(d, o) == (d.clkin * d.mult) \div o.div

OutPeriod(d, o) == (d.clkin * o.div) \div d.mult

(* fmod() for the edges                                                      *)
Generated(d, o, c) ==
    LET p == OutPeriod(d, o)
        r == IF p = 0 THEN 0 ELSE c.rise % p
    IN  [kind |-> "generated", name |-> o.wire, period |-> p, rise |-> r,
         fall |-> IF p = 0 THEN 0 ELSE (r + Half(p)) % p]

ThroughDividers(w) ==
    /\ pass = "pll" /\ w \in todo
    /\ todo' = todo \ {w}
    /\ IF Rejected(w)
       THEN pass' = "aborted" /\ UNCHANGED clock
       ELSE /\ clock' = [v \in Wire |->
                  IF \E d \in Sinks(w) : \E o \in d.outs : o.wire = v
                  THEN LET d == CHOOSE d \in Sinks(w) : TRUE
                           o == CHOOSE o \in d.outs : o.wire = v
                       IN  Generated(d, o, clock[w])
                  ELSE clock[v]]
            /\ UNCHANGED pass
    /\ UNCHANGED <<design, abc9, settled, before, runs>>

------------------------------------------------------------------------------
Targets == {Half(clock[w].period) : w \in Clocks}

(* UpdateAbc9DelayTarget(): the minimum of the clocks and of what is there.  *)
UpdateAbc9 ==
    /\ pass = "abc9"
    /\ pass' = "none"
    /\ abc9' \in {abc9} \cup Targets
    /\ \A t \in {abc9} \cup Targets : abc9' <= t
    /\ settled' = TRUE
    /\ UNCHANGED <<design, clock, todo, before, runs>>

Stopped == /\ pass = "aborted" \/ (pass = "none" /\ runs = MaxRuns)
           /\ UNCHANGED vars

Next == \/ \E c \in Command : CreateClock(c)
        \/ PropagateClocks \/ NextPass
        \/ \E w \in Wire : ThroughBuffers(w) \/ ThroughDividers(w)
        \/ UpdateAbc9 \/ Stopped

Spec == Init /\ [][Next]_vars

------------------------------------------------------------------------------
Finished == pass = "none" /\ settled

(* After propagate_clocks, every clock that drives a buffer has reached the  *)
(* wire behind it unchanged, whatever clocks there were on the way and in    *)
(* whatever order the pass came to them.                                     *)
BuffersAgree ==
    Finished =>
      \A b \in design.ibuf \cup design.bufg :
        b.in \in Clocks =>
          clock[b.out] = [kind |-> "propagated", name |-> b.out,
                          period |-> clock[b.in].period,
                          rise |-> clock[b.in].rise, fall |-> clock[b.in].fall]

(* After propagate_clocks, a clocked PLL has clocks on its outputs, of its   *)
(* ratio; it "propagates clock information throughout the design".           *)
DividersAgree ==
    Finished =>
      \A d \in design.dividers : \A o \in d.outs :
        d.pll /\ d.in \in Clocks =>
          /\ clock[o.wire] # NoClock
          /\ clock[o.wire].kind = "generated"
          /\ clock[o.wire].period * d.mult = clock[d.in].period * o.div

(* A PLL behind another one.                                                 *)
Cascaded(d) ==
    \E p, q \in d.dividers : \E o \in p.outs :
      q.in \in Behind(d.bufg, o.wire) \cup {o.wire}

(* A wire at CLKIN1 of one PLL and at CLKIN2 of another: the search ends at  *)
(* the first.                                                                *)
Masked(d) ==
    \E p, q \in d.dividers :
      p.in = q.in /\ p.pll /\ q.pll /\ p.pin = "CLKIN1" /\ q.pin = "CLKIN2"

DividersAgreeIfFlat == DividersAgree \/ Cascaded(design) \/ Masked(design)

(* A second propagate_clocks in a row finds nothing to do: no pass depends   *)
(* on what a later one produced.  Again only without cascades.               *)
SecondRunIdle ==
    Finished /\ before # <<>> => clock = before \/ Cascaded(design)
==============================================================================
