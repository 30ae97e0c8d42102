-------------------------------- MODULE DspFf --------------------------------
(* The dsp_ff pass of src/dsp-ff-plugin/dsp_ff.cc: it loads its rules and    *)
(* then moves flops that stand at the ports of a DSP cell into the registers *)
(* of that cell.                                                             *)
(*                                                                           *)
(* Who drives and who reads a net is looked up in a map built once, before   *)
(* the first cell is looked at; flops taken are removed after the last one.  *)
(* A net stands for the wires SigMap identifies.                             *)
EXTENDS DspFfRules

CONSTANTS
    Cell,     \* DSP cells
    Flop,     \* flops
    Net,      \* nets, constants included
    Const,    \* nets that are constants
    Outputs,  \* names of output ports
    Shared,   \* parameters a DSP cell has once, for all of its registers
    Idle,     \* Idle[k]: the net that keeps a control of kind k inactive
    Designs   \* Designs[f]: the modules that are processed with the rules f

(* A module: types, pins and parameters of DSP cells and flops; flops marked *)
(* keep; the nets other cells read and drive; the nets of the ports.         *)
IsDesign(d) ==
    /\ DOMAIN d.type = Cell \cup Flop
    /\ DOMAIN d.pins = Cell \cup Flop /\ DOMAIN d.param = Cell \cup Flop
    /\ \A c \in Cell \cup Flop : \A p \in DOMAIN d.pins[c] :
         d.pins[c][p] \in Seq(Net)
    /\ d.keep \subseteq Flop
    /\ d.read \subseteq Net /\ d.drive \subseteq Net \ Const
    /\ d.in \subseteq Net \ Const /\ d.out \subseteq Net

ASSUME DesignsAssumption ==
    /\ Cell \cap Flop = {} /\ Const \subseteq Net /\ Unset \in Const
    /\ \A f \in DOMAIN Designs : \A d \in Designs[f] : IsDesign(d)

ASSUME FilesAssumption == \A f \in DOMAIN Designs : IsFile(f)

VARIABLES
    design,   \* the module as it was
    sinks,    \* m_ConnMap: the pins that read a net of it
    drivers,  \* and those that drive one
    pins,     \* the connections of DSP cells and flops
    param,    \* their parameters
    gone,     \* m_CellsToRemove
    changed,  \* m_DspChanges: parameters the pass has written, by cell
    todo,     \* the registers of each cell that are still to be processed
    at,       \* the cell whose registers are being processed
    phase     \* "rules", "flops", "done" or "crashed"

netlist == <<pins, param, gone, changed>>
connMap == <<sinks, drivers>>
vars    == <<loadVars, design, connMap, netlist, todo, at, phase>>

NoDesign == Nothing

Init ==
    /\ LoadInit(DOMAIN Designs)
    /\ design = NoDesign /\ pins = Nothing /\ param = Nothing
    /\ sinks = Nothing /\ drivers = Nothing
    /\ gone = {} /\ changed = Nothing
    /\ todo = [c \in Cell |-> {}] /\ at = NoPort /\ phase = "rules"

Load ==
    /\ phase = "rules" /\ LoadNext
    /\ UNCHANGED <<design, connMap, netlist, todo, at, phase>>

(* ConnMap::build().  A pin is <<owner, port, index>>; other cells and the   *)
(* module's own ports own pins as well.                                      *)
CellPins(d, n, isOutput) ==
    UNION {UNION {{<<c, p, i>> : i \in {i \in DOMAIN d.pins[c][p] :
                                          d.pins[c][p][i] = n}} :
                    p \in {p \in DOMAIN d.pins[c] : (p \in Outputs) = isOutput}} :
             c \in Cell \cup Flop}

Sinks(d, n) ==
    CellPins(d, n, FALSE) \cup {<<"logic", "in", m>> : m \in {n} \cap d.read}
                          \cup {<<"module", "out", m>> : m \in {n} \cap d.out}

Drivers(d, n) ==
    CellPins(d, n, TRUE) \cup {<<"logic", "out", m>> : m \in {n} \cap d.drive}
                         \cup {<<"module", "in", m>> : m \in {n} \cap d.in}

Start ==
    /\ phase = "rules" /\ status = "loaded"
    /\ \E d \in Designs[file] :
         /\ sinks' = [n \in Net |-> Sinks(d, n)]
         /\ drivers' = [n \in Net |-> Drivers(d, n)]
         /\ design' = d /\ pins' = d.pins /\ param' = d.param
         /\ todo' = [c \in Cell |-> IF d.type[c] \in DOMAIN dsps
                                    THEN DOMAIN dsps[d.type[c]] ELSE {}]
    /\ gone' = {} /\ changed' = [c \in Cell |-> {}]
    /\ phase' = "flops"
    /\ UNCHANGED <<loadVars, at>>

------------------------------------------------------------------------------
(* What stands at one bit of a data port.                                    *)

(* The cells on the other side.  A flop that was taken reads no more; that   *)
(* is asked of readers only.                                                 *)
Others(c, p, i) ==
    LET n == pins[c][p][i]
    IN  IF p \in Outputs THEN {s \in sinks[n] : s[1] \notin gone}
                         ELSE drivers[n]

Skipped(c, p, i) == pins[c][p][i] \in Const \/ Others(c, p, i) = {}

(* Faulty form of Shares: a driver's other readers are not asked for.        *)
SharesOutput(c, p, i) ==
    p \in Outputs /\ Cardinality(Others(c, p, i)) > 1

(* More than one cell on the other side, or a driver with other readers.     *)
Shares(c, p, i) ==
    \/ Cardinality(Others(c, p, i)) > 1
    \/ p \notin Outputs /\ Cardinality(sinks[pins[c][p][i]]) > 1

(* checkFlop()                                                               *)
Fit(f) ==
    LET require == flops[design.type[f]].require
    IN  f \notin design.keep /\ \A k \in DOMAIN require : param[f][k] = require[k]

(* It is a known flop, met at its data port, and fit.                        *)
IsFlop(c, p, pin) ==
    /\ pin[1] \in Flop /\ design.type[pin[1]] \in DOMAIN flops
    /\ pin[2] = flops[design.type[pin[1]]].ports[IF p \in Outputs THEN "d" ELSE "q"]
    /\ Fit(pin[1])

FlopAt(c, p, i) == (CHOOSE o \in Others(c, p, i) : TRUE)[1]

(* The bits of the ports of a register.                                      *)
Bits(c, ports) ==
    UNION {LET s == ports[j].spec
           IN  {<<s.port, i>> : i \in
                  IF s.port \in DOMAIN pins[c] THEN s.bits \cap DOMAIN pins[c][s.port]
                                               ELSE {}} :
             j \in DOMAIN ports}

Met(c, ports) == {b \in Bits(c, ports) : ~Skipped(c, b[1], b[2])}

AllFlops(c, ports) ==
    \A b \in Met(c, ports) :
      ~Shares(c, b[1], b[2])
        /\ \A o \in Others(c, b[1], b[2]) : IsFlop(c, b[1], o)

------------------------------------------------------------------------------
(* getFlopData(): what flops of one register must have in common.            *)

FlopData(f, r) ==
    LET ft == flops[design.type[f]]
        at_(k) == ft.ports[k]
        own == ft.match \cup {ft.map[k] : k \in DOMAIN ft.map}
        mapped == {k \in DOMAIN r.map : r.map[k] \in DOMAIN param[f]}
    IN  [type |-> design.type[f],
         conns |-> [k \in {k \in Kinds : at_(k) \in DOMAIN pins[f]} |->
                      pins[f][at_(k)][1]],
         flop |-> [k \in own |-> param[f][k]],
         dsp |-> Over(ft.set, [k \in mapped |-> param[f][r.map[k]]])]

Groups(c, r, ports) ==
    {FlopData(FlopAt(c, b[1], b[2]), r) :
       b \in {b \in Met(c, ports) : AllFlops(c, ports)}}

------------------------------------------------------------------------------
(* checkFlopDataAgainstDspRegister()                                         *)

Connected(c, p) == IF p \in DOMAIN pins[c] THEN pins[c][p][1] ELSE Unset

(* Control pins of the register that are connected already.                  *)
Wired(c, ports) ==
    {a \in (DOMAIN ports) \X Kinds :
       LET p == ports[a[1]].assoc[a[2]].port
       IN  p # NoPort /\ Connected(c, p) # Unset}

(* The look-up of a control the flop does not have throws.                   *)
Throws(c, ports, data) ==
    \E a \in Wired(c, ports) : a[2] \notin DOMAIN data.conns

(* Faulty form of ControlsAgree: control pins are not looked at.             *)
ControlsAny(c, ports, data) == TRUE

ControlsAgree(c, ports, data) ==
    \A a \in Wired(c, ports) :
      data.conns[a[2]] = Connected(c, ports[a[1]].assoc[a[2]].port)

(* The parameters a register and a flop type ask for, later entries first.   *)
FromMap(map, data) ==
    [k \in {k \in DOMAIN map : map[k] \in DOMAIN data.dsp} |-> data.dsp[map[k]]]

Asked(r, data) ==
    LET ft == flops[data.type]
    IN  <<ft.set, r.set, FromMap(ft.map, data), FromMap(r.map, data)>>

ParamsAgree(c, r, data) ==
    \A j \in 1 .. 4 : LET asked == Asked(r, data)[j] IN
      \A k \in DOMAIN asked \cap DOMAIN param[c] \cap changed[c] :
        param[c][k] = asked[k]

------------------------------------------------------------------------------
(* processRegister()                                                         *)

IsOn(c, r) == \E k \in DOMAIN r.set : param[c][k] = r.set[k]

Turn(c, r) ==
    /\ phase = "flops" /\ r \in todo[c]
    /\ at \in Cell \ {c} => todo[at] = {}
    /\ at' = c
    /\ todo' = [todo EXCEPT ![c] = @ \ {r}]
    /\ UNCHANGED <<loadVars, design, connMap>>

Refuse(c, r) ==
    LET ports == dsps[design.type[c]][r]
    IN  /\ Turn(c, r)
        /\ \/ IsOn(c, r)
           \/ Cardinality(Groups(c, r, ports)) # 1
           \/ \E data \in Groups(c, r, ports) :
                /\ ~Throws(c, ports, data)
                /\ ~(ControlsAgree(c, ports, data) /\ ParamsAgree(c, r, data))
        /\ UNCHANGED <<netlist, phase>>

Accepted(c, r, data) ==
    ~IsOn(c, r) /\ Groups(c, r, dsps[design.type[c]][r]) = {data}

Crash(c, r) ==
    /\ Turn(c, r)
    /\ \E data \in Groups(c, r, dsps[design.type[c]][r]) :
         Accepted(c, r, data) /\ Throws(c, dsps[design.type[c]][r], data)
    /\ phase' = "crashed"
    /\ UNCHANGED netlist

(* The pins of the cell with the flops behind them left out, its controls    *)
(* connected as those of the flops or to their defaults, and the constants   *)
(* the register asks for.                                                    *)
DataPins(c, ports) ==
    [p \in {b[1] : b \in Bits(c, ports)} |->
       [i \in DOMAIN pins[c][p] |->
          IF <<p, i>> \in Met(c, ports)
          THEN LET f == FlopAt(c, p, i)
                   k == IF p \in Outputs THEN "q" ELSE "d"
               IN  pins[f][flops[design.type[f]].ports[k]][1]
          ELSE pins[c][p][i]]]

ControlPins(ports, data) ==
    LET uses(p) == {a \in (DOMAIN ports) \X Kinds : ports[a[1]].assoc[a[2]].port = p}
        last(p) == CHOOSE a \in uses(p) : \A b \in uses(p) : b[1] <= a[1]
    IN  [p \in {ports[j].assoc[k].port : j \in DOMAIN ports, k \in Kinds} |->
           LET a == last(p)
           IN  <<IF a[2] \in DOMAIN data.conns THEN data.conns[a[2]]
                 ELSE ports[a[1]].assoc[a[2]].default>>]

Integrate(c, r) ==
    LET ports == dsps[design.type[c]][r]
    IN  /\ Turn(c, r)
        /\ \E data \in Groups(c, r, ports) :
             /\ Accepted(c, r, data) /\ ~Throws(c, ports, data)
             /\ ControlsAgree(c, ports, data) /\ ParamsAgree(c, r, data)
             /\ pins' = [pins EXCEPT ![c] =
                           Over([p \in DOMAIN r.con |-> <<r.con[p]>>],
                                Over(ControlPins(ports, data),
                                     Over(DataPins(c, ports), @)))]
             /\ LET a == Asked(r, data)
                    new == Over(a[1], Over(a[2], Over(a[3], a[4])))
                IN  /\ param' = [param EXCEPT ![c] = Over(new, @)]
                    /\ changed' = [changed EXCEPT ![c] = @ \cup DOMAIN new]
        /\ gone' = gone \cup {FlopAt(c, b[1], b[2]) : b \in Met(c, ports)}
        /\ UNCHANGED phase

RemoveCells ==
    /\ phase = "flops" /\ \A c \in Cell : todo[c] = {}
    /\ phase' = "done"
    /\ UNCHANGED <<loadVars, design, connMap, netlist, todo, at>>

Stopped ==
    /\ \/ phase \in {"done", "crashed"} \/ status = "error"
       \/ status = "loaded" /\ Designs[file] = {}
    /\ UNCHANGED vars

Next ==
    \/ Load \/ Start \/ RemoveCells \/ Stopped
    \/ \E c \in Cell : \E r \in todo[c] :
         Refuse(c, r) \/ Integrate(c, r) \/ Crash(c, r)

Spec == Init /\ [][Next]_vars

------------------------------------------------------------------------------
(* Rules that are loaded say of every type a `dsp' section names, and of its *)
(* aliases, what the section says and nothing that another one said: each    *)
(* port is in the register its own section describes, and no port is added   *)
(* or lost.  The descriptions under construction are members that outlive    *)
(* their section (dsp_ff.cc:310-420).                                        *)
RulesAsWritten == (phase = "rules" /\ status = "loaded") => DescribedAsWritten

(* What reaches a pin: the pin or net a signal comes from and the registers  *)
(* it has gone through, flops and registers of DSP cells alike, each with    *)
(* its controls and the shared parameters it works by.  Constants are left   *)
(* out: a register is taken to hold a constant that is given to it.          *)

FlopWorks(f) ==
    LET ft == flops[design.type[f]]
    IN  [k \in Kinds \cup Shared |->
           IF k \in Kinds
           THEN IF ft.ports[k] \in DOMAIN design.pins[f]
                THEN design.pins[f][ft.ports[k]][1] ELSE Idle[k]
           ELSE IF k \in DOMAIN ft.set THEN ft.set[k] ELSE design.param[f][k]]

RegistersAt(c, p, i) ==
    IF design.type[c] \notin DOMAIN dsps THEN {}
    ELSE LET regs == dsps[design.type[c]]
         IN  {r \in DOMAIN regs : \E j \in DOMAIN regs[r] :
                /\ regs[r][j].spec.port = p /\ i \in regs[r][j].spec.bits}

(* The register of a bit, when the cell has it switched on.                  *)
Stage(ps, pm, c, p, i) ==
    LET on == {r \in RegistersAt(c, p, i) : \E k \in DOMAIN r.set : pm[c][k] = r.set[k]}
    IN  IF on = {} THEN <<>>
        ELSE LET ports == dsps[design.type[c]][CHOOSE r \in on : TRUE]
                 assoc_ == ports[CHOOSE j \in DOMAIN ports : ports[j].spec.port = p].assoc
             IN  <<[k \in Kinds \cup Shared |->
                      IF k \in Shared THEN pm[c][k]
                      ELSE IF assoc_[k].port \in DOMAIN ps[c]
                           THEN ps[c][assoc_[k].port][1] ELSE Idle[k]]>>

DspDrives(ps, n) ==
    UNION {UNION {{<<c, p, i>> : i \in {i \in DOMAIN ps[c][p] : ps[c][p][i] = n}} :
                    p \in DOMAIN ps[c] \cap Outputs} : c \in Cell}

FlopDrives(g, n) ==
    {f \in Flop \ g :
       /\ design.type[f] \in DOMAIN flops
       /\ design.pins[f][flops[design.type[f]].ports["q"]][1] = n}

Trail(ps, pm, g, n) ==
    LET hop[k \in 0 .. Cardinality(Flop), m \in Net] ==
          LET dsp == DspDrives(ps, m)  flop == FlopDrives(g, m)
              other == {m} \cap (design.drive \cup design.in)
          IN  CASE Cardinality(dsp) + Cardinality(flop) + Cardinality(other) > 1
                     -> <<<<"contended", m>>>>
                [] dsp # {} -> LET o == CHOOSE o \in dsp : TRUE
                               IN  <<o>> \o Stage(ps, pm, o[1], o[2], o[3])
                [] flop # {} /\ k > 0 ->
                     LET f == CHOOSE f \in flop : TRUE
                     IN  Append(hop[k - 1, design.pins[f][
                                   flops[design.type[f]].ports["d"]][1]], FlopWorks(f))
                [] other # {} -> <<<<"net", m>>>>
                [] OTHER -> <<<<"none", m>>>>
    IN  hop[Cardinality(Flop), n]

Driven(n) == n \notin Const /\ drivers[n] # {}

(* Data pins of DSP cells that something drives.                             *)
DataIn ==
    {x \in UNION {{<<c, p, i>> : p \in DOMAIN design.pins[c] \ Outputs,
                                 i \in 1 .. 2} : c \in Cell} :
       /\ x[3] \in DOMAIN design.pins[x[1]][x[2]]
       /\ RegistersAt(x[1], x[2], x[3]) # {}
       /\ Driven(design.pins[x[1]][x[2]][x[3]])}

Reaches(ps, pm, g, x) ==
    Trail(ps, pm, g, ps[x[1]][x[2]][x[3]]) \o Stage(ps, pm, x[1], x[2], x[3])

(* Every data pin of a DSP cell, every other cell and every port receives    *)
(* its signal from where it came before the pass and through the same        *)
(* registers: none is lost, taken twice, or works by other controls or       *)
(* parameters, whatever the order of cells and registers.                    *)
PathsKept ==
    phase = "done" =>
      /\ \A x \in DataIn : Reaches(pins, param, gone, x)
                             = Reaches(design.pins, design.param, {}, x)
      /\ \A n \in (design.read \cup design.out) :
           Driven(n) => Trail(pins, param, gone, n)
                          = Trail(design.pins, design.param, {}, n)

(* The exceptions.  A flop between two DSP cells is seen from both sides and *)
(* through a map that does not say that it, or its reader, was taken.        *)
Bridging ==
    \E f \in Flop : design.type[f] \in DOMAIN flops /\
      LET pin(k) == design.pins[f][flops[design.type[f]].ports[k]][1]
      IN  DspDrives(design.pins, pin("d")) # {}
            /\ \E x \in DataIn : design.pins[x[1]][x[2]][x[3]] = pin("q")

(* A register that was on before the pass has not written the shared         *)
(* parameters, so nothing stands against changing them.                      *)
OnBefore ==
    \E c \in Cell : \E f \in Flop : \E s \in Shared :
      /\ design.type[c] \in DOMAIN dsps /\ design.type[f] \in DOMAIN flops
      /\ \E r \in DOMAIN dsps[design.type[c]] : \E k \in DOMAIN r.set :
           design.param[c][k] = r.set[k]
      /\ FlopWorks(f)[s] # design.param[c][s]

(* Rules that do not name a reset or an enable for a port.                   *)
Anonymous ==
    \E t \in DOMAIN dsps : \E r \in DOMAIN dsps[t] : \E j \in DOMAIN dsps[t][r] :
      \E k \in Kinds : dsps[t][r][j].assoc[k].port = NoPort

Regular == ~Bridging /\ ~OnBefore /\ ~Anonymous

(* Apart from these three, paths are kept: what the map does not know of the *)
(* rewiring so far, it need not know (dsp_ff.cc:843).                        *)
PathsKeptIfRegular == (phase = "done" /\ Regular) => PathsKept
==============================================================================
