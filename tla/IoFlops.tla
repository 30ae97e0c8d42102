------------------------------- MODULE IoFlops -------------------------------
(* ql_ioff: registers that a port of the top module reaches directly become  *)
(* flip-flops of the IO cells.  src/ql-qlf-plugin/ql_ioff.cc                 *)
(*                                                                           *)
(* A register is [type, c, d, e, r, q], anything else [type |-> "lut", in,   *)
(* out].  A port is [dir, bits]: the nets of its bits, by representative.  A *)
(* pin that a register does not have reads Open.                             *)
EXTENDS Naturals, Sequences, FiniteSets

CONSTANTS
    Tie,      \* the nets of VCC and GND cells |-> their value
    Pad(_,_), \* the net of bit i of port p behind a new register
    NewFlop(_,_),  \* the new register at bit i of port p
    Nothing   \* stands for a pin that is not there

ASSUME TieAssumption == "1" \notin DOMAIN Tie

VARIABLES
    flops,    \* name |-> register or other cell
    ports,    \* name |-> port of the top module
    ioFF,     \* the library has io_sdffr and io_sdffnr
    inputs,   \* the candidates at inputs not yet promoted
    outputs   \* the candidates at outputs

ioVars == <<flops, ports, ioFF, inputs, outputs>>

(* A module: cells and ports have these fields, no net has two registers,    *)
(* input ports are no constants, and what is new at a port is new.           *)
NetsAt(d) ==
    (UNION {IF d.flops[x].type = "lut" THEN d.flops[x].in
            ELSE {d.flops[x].c, d.flops[x].d, d.flops[x].e, d.flops[x].r, d.flops[x].q} :
              x \in DOMAIN d.flops})
      \cup UNION {{d.ports[p].bits[i] : i \in DOMAIN d.ports[p].bits} : p \in DOMAIN d.ports}
BitsOf(d) == UNION {{<<p, i>> : i \in DOMAIN d.ports[p].bits} : p \in DOMAIN d.ports}

IsRegister(f) == f = [type |-> f.type, c |-> f.c, d |-> f.d, e |-> f.e, r |-> f.r, q |-> f.q]

IsModule(d) ==
    /\ IsFiniteSet(DOMAIN d.flops)
    /\ \A x \in DOMAIN d.flops : d.flops[x].type # "lut" => IsRegister(d.flops[x])
    /\ \A x, y \in DOMAIN d.flops :
         d.flops[x].type # "lut" /\ d.flops[y].type # "lut" /\ d.flops[x].q = d.flops[y].q => x = y
    /\ \A p \in DOMAIN d.ports :
         /\ d.ports[p] = [dir |-> d.ports[p].dir, bits |-> d.ports[p].bits]
         /\ d.ports[p].dir = "in" =>
              \A i \in DOMAIN d.ports[p].bits : d.ports[p].bits[i] \notin {"1", Nothing}
    /\ \A b \in BitsOf(d) :
         /\ Pad(b[1], b[2]) \notin NetsAt(d) \cup {"1", Nothing}
         /\ NewFlop(b[1], b[2]) \notin DOMAIN d.flops
         /\ \A c \in BitsOf(d) :
              \/ b = c
              \/ Pad(b[1], b[2]) # Pad(c[1], c[2]) /\ NewFlop(b[1], b[2]) # NewFlop(c[1], c[2])

Registers == {x \in DOMAIN flops : flops[x].type # "lut"}
OneOf(n) == IF n \in DOMAIN Tie THEN Tie[n] ELSE n
Ones(n) == OneOf(n) = "1"

Pins(x) ==
    IF flops[x].type = "lut" THEN {<<x, n>> : n \in flops[x].in}
    ELSE {<<x, p>> : p \in {"c", "d", "e", "r"}}
ReadsNet(pin, n) == IF pin[1] \in Registers THEN flops[pin[1]][pin[2]] = n ELSE pin[2] = n
Consumers(n) == {pin \in UNION {Pins(x) : x \in DOMAIN flops} : ReadsNet(pin, n)}

PortBits(dirs) ==
    {b \in UNION {{<<p, i>> : i \in DOMAIN ports[p].bits} : p \in DOMAIN ports} :
       ports[b[1]].dir \in dirs}
Shows(b) == ports[b[1]].bits[b[2]]
FromInput(n) == \E b \in PortBits({"in", "inout"}) : Shows(b) = n
Slots(n) == {b \in PortBits({"out", "inout"}) : Shows(b) = n}

------------------------------------------------------------------------------
(* Phase 1: classify.  A register with an enable, or with a reset that is    *)
(* not synchronous, is declined.  A register of an input that nothing else   *)
(* reads is promoted there; one of an input that is read elsewhere as well   *)
(* is not promoted at all.  In the faulty forms any reset will do, and the   *)
(* other readers are not looked at.                                          *)
Sync(type) == type \in {"sdffre", "sdffnre"}
Resetless(c) == Ones(c.r)
AnyReset(c) == TRUE
ResetFits(c) == Resetless(c) \/ Sync(c.type)

Eligible ==
    {x \in DOMAIN flops :
       /\ flops[x].type \in {"dffre", "sdffre", "dffnre", "sdffnre"}
       /\ Ones(flops[x].e) /\ ResetFits(flops[x])}

AtInput(x) == LET d == flops[x].d IN FromInput(d) /\ Slots(d) = {}
InAnyCase(x) == TRUE
Alone(x) == Cardinality(Consumers(flops[x].d)) <= 1
AtOutput(x) == LET q == flops[x].q IN Slots(q) # {} /\ Consumers(q) = {}

Classify ==
    /\ inputs' = {x \in Eligible : AtInput(x) /\ Alone(x)}
    /\ outputs' = {x \in Eligible : ~AtInput(x) /\ AtOutput(x)}
    /\ UNCHANGED <<flops, ports, ioFF>>

------------------------------------------------------------------------------
(* Phase 2: apply.                                                           *)

Negedge(type) == type \in {"dffnre", "sdffnre"}
IoTypes == {"dff", "dffn", "io_sdffr", "io_sdffnr"}
TargetType(c) ==
    CASE Resetless(c) /\ ~ioFF -> IF Negedge(c.type) THEN "dffn" ELSE "dff"
      [] OTHER -> IF Negedge(c.type) THEN "io_sdffnr" ELSE "io_sdffr"

(* The IO flip-flop has a reset, which a register without one holds at 1;    *)
(* dff and dffn have none.                                                   *)
Promoted(c) ==
    [c EXCEPT !.type = TargetType(c), !.e = Nothing,
              !.r = IF ~Resetless(c) THEN @ ELSE IF ioFF THEN "1" ELSE Nothing]

PromoteInput ==
    \E x \in inputs :
      /\ flops' = [flops EXCEPT ![x] = Promoted(@)]
      /\ inputs' = inputs \ {x}
      /\ UNCHANGED <<ports, ioFF, outputs>>

(* The candidate of a bit of an output.                                      *)
Source(b) == {x \in outputs : b \in Slots(flops[x].q)}

(* Every bit of an output with a candidate gets a register of its own on a   *)
(* new net; the other bits are connected with what they showed.  The         *)
(* register it is copied from is left where it is.                           *)
PromotePort ==
    /\ inputs = {}
    /\ \E p \in DOMAIN ports :
         LET at == {i \in DOMAIN ports[p].bits : Source(<<p, i>>) # {}}
             Of(i) == flops[CHOOSE x \in Source(<<p, i>>) : TRUE]
         IN  /\ at # {}
             /\ flops' = [x \in DOMAIN flops \cup {NewFlop(p, i) : i \in at} |->
                            IF x \in DOMAIN flops THEN flops[x]
                            ELSE LET i == CHOOSE i \in at : NewFlop(p, i) = x
                                 IN  [Promoted(Of(i)) EXCEPT !.q = Pad(p, i)]]
             /\ ports' = [ports EXCEPT ![p].bits =
                            [i \in DOMAIN @ |-> IF i \in at THEN Pad(p, i) ELSE @[i]]]
    /\ UNCHANGED <<ioFF, inputs, outputs>>

IoDone == inputs = {} /\ \A b \in PortBits({"out", "inout"}) : Source(b) = {}

=============================================================================
