----------------------------- MODULE IntegrateInv -----------------------------
(* The integrateinv pass on one module: an inverter whose output is read     *)
(* only by pins that can invert goes into those pins.                        *)
(* src/integrateinv-plugin/integrateinv.cc.                                  *)
(*                                                                           *)
(* Inverters, and the pins of each, are collected first and integrated       *)
(* afterwards, one inverter at a time, against the netlist the inverters     *)
(* before it have rewired: an inverter behind another one moves its pins to  *)
(* the net of the first.  A net stands for all wires that SigMap identifies. *)
EXTENDS FiniteSets

CONSTANTS
    Inv,      \* the $_NOT_ cells
    Pin,      \* the bits of the input ports of all other cells
    Net,      \* nets, and constants
    Designs   \* the modules the pass is run on

(* The netlist before the pass.  `invertible' pins carry the attribute and   *)
(* `selected' ones belong to a selected cell; `odd' ones have a parameter of *)
(* the wrong width or with an x.  Nets of output ports are in `out', and in  *)
(* `assigned' if the port is the target of a connection, not the wire that   *)
(* the driver itself is connected to.                                        *)
DesignType ==
    [a : [Inv -> Net], y : [Inv -> Net], reads : [Pin -> Net],
     mask : [Pin -> BOOLEAN],
     invertible : SUBSET Pin, selected : SUBSET Pin, odd : SUBSET Pin,
     out : SUBSET Net, assigned : SUBSET Net]

ASSUME DesignsAssumption ==
    Designs \subseteq {d \in DesignType : d.assigned \subseteq d.out}

VARIABLES
    design,  \* the netlist before the pass
    step,    \* where execute() is
    alive,   \* the inverters still in the module
    reads,   \* the net each pin reads
    mask,    \* the inversion bit of each pin
    pins,    \* m_Inverters: the pins each inverter could go into
    todo     \* inverters of m_Inverters still to be looked at

vars == <<design, step, alive, reads, mask, pins, todo>>

Steps == {"build", "collect", "integrate", "done", "aborted"}

------------------------------------------------------------------------------
(* Faulty form of PinsOf: the inverter behind another one brings its pins.   *)
PinsThrough(d, i) ==
    {p \in d.invertible \cap d.selected :
       \/ d.reads[p] = d.y[i]
       \/ \E j \in Inv : d.a[j] = d.y[i] /\ d.reads[p] = d.y[j]}

(* collectInverters() over all selected cells.                               *)
PinsOf(d, i) ==
    {p \in d.invertible \cap d.selected : d.reads[p] = d.y[i]}

(* Faulty forms of OnlyItsPins: ports, or inverters, are no sinks.           *)
OnlyCells(i) ==
    /\ {p \in Pin : reads[p] = design.y[i]} = pins[i]
    /\ \A j \in alive : design.a[j] # design.y[i]

OnlyAmongPins(i) ==
    /\ {p \in Pin : reads[p] = design.y[i]} = pins[i]
    /\ design.y[i] \notin design.assigned

(* getSinksForDriver() finds the recorded pins and nothing else: no other    *)
(* pin, no inverter, no output port among the targets of connections.        *)
OnlyItsPins(i) ==
    /\ {p \in Pin : reads[p] = design.y[i]} = pins[i]
    /\ \A j \in alive : design.a[j] # design.y[i]
    /\ design.y[i] \notin design.assigned

Init ==
    /\ design \in Designs
    /\ step = "build"
    /\ alive = Inv
    /\ reads = design.reads /\ mask = design.mask
    /\ pins = [i \in Inv |-> {}] /\ todo = {}

(* buildInverterMap() asserts one inverter per net.                          *)
Build ==
    /\ step = "build"
    /\ step' = IF \A i, j \in Inv : design.y[i] = design.y[j] => i = j
               THEN "collect" ELSE "aborted"
    /\ UNCHANGED <<design, alive, reads, mask, pins, todo>>

Collect ==
    /\ step = "collect"
    /\ step' = "integrate"
    /\ pins' = [i \in Inv |-> PinsOf(design, i)]
    /\ todo' = {i \in Inv : PinsOf(design, i) # {}}
    /\ UNCHANGED <<design, alive, reads, mask>>

(* Faulty form of Toggled: the bit is set instead of toggled.                *)
Raised(m, p) == TRUE

Toggled(m, p) == ~m[p]

(* integrateInverters(): every pin takes the inverter's input and inverts    *)
(* itself; the inverter goes.  A parameter that cannot be toggled ends Yosys *)
(* (log_error), with the pins before it rewired in a netlist nobody sees.    *)
Integrate(i) ==
    /\ step = "integrate" /\ i \in todo /\ OnlyItsPins(i)
    /\ todo' = todo \ {i}
    /\ IF pins[i] \cap design.odd # {}
       THEN step' = "aborted" /\ UNCHANGED <<alive, reads, mask>>
       ELSE /\ reads' = [p \in Pin |-> IF p \in pins[i] THEN design.a[i]
                                       ELSE reads[p]]
            /\ mask' = [p \in Pin |-> IF p \in pins[i] THEN Toggled(mask, p)
                                      ELSE mask[p]]
            /\ alive' = alive \ {i}
            /\ UNCHANGED step
    /\ UNCHANGED <<design, pins>>

Skip(i) ==
    /\ step = "integrate" /\ i \in todo /\ ~OnlyItsPins(i)
    /\ todo' = todo \ {i}
    /\ UNCHANGED <<design, step, alive, reads, mask, pins>>

Finish ==
    /\ step = "integrate" /\ todo = {}
    /\ step' = "done"
    /\ UNCHANGED <<design, alive, reads, mask, pins, todo>>

Stopped == step \in {"done", "aborted"} /\ UNCHANGED vars

Next == \/ Build \/ Collect
        \/ \E i \in Inv : Integrate(i) \/ Skip(i)
        \/ Finish \/ Stopped

Spec == Init /\ [][Next]_vars /\ WF_vars(Next)

------------------------------------------------------------------------------
(* The variables keep their types.                                           *)
TypeOK ==
    /\ design \in DesignType
    /\ step \in Steps
    /\ alive \subseteq Inv
    /\ reads \in [Pin -> Net] /\ mask \in [Pin -> BOOLEAN]
    /\ pins \in [Inv -> SUBSET Pin]
    /\ todo \subseteq Inv

(* Under every assignment of values to nets that the inverters of the module *)
(* admit, each pin sees behind its own inversion the value it saw before the *)
(* pass: rewiring and toggling go together, through chains of inverters too. *)
ValuesKept ==
    \A v \in [Net -> BOOLEAN] :
      (\A i \in Inv : v[design.y[i]] = ~v[design.a[i]]) =>
        \A p \in Pin :
          (v[reads[p]] = mask[p]) = (v[design.reads[p]] = design.mask[p])

(* No pin and no inverter still in the module reads an inverter that was     *)
(* removed, although pins arrive at the nets of others during the loop.      *)
ReadsDriven ==
    \A i \in Inv \ alive :
      /\ \A p \in Pin : reads[p] # design.y[i]
      /\ \A j \in alive : design.a[j] # design.y[i]

(* An inverter behind an output port stays: it does not drive "only          *)
(* invertable pins".  True of the ports a connection assigns, and of no      *)
(* others: a port that is the net itself loses its driver.                   *)
AssignedPortsDriven ==
    \A i \in Inv \ alive : design.y[i] \notin design.assigned

(* The order in which the inverters are looked at does not matter: those     *)
(* that go are those whose only sinks were their pins before the first went. *)
OrderDoesNotMatter ==
    step = "done" =>
      \A i \in Inv :
        i \notin alive <=>
          /\ pins[i] # {}
          /\ {p \in Pin : design.reads[p] = design.y[i]} = pins[i]
          /\ \A j \in Inv : design.a[j] # design.y[i]
          /\ design.y[i] \notin design.assigned
==============================================================================
