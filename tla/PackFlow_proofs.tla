--------------------------- MODULE PackFlow_proofs ---------------------------
(* What ql_ioff leaves at the ports, the pairs ql_dsp_simd leaves, and what  *)
(* drives each net after the flow, for every module and every order.         *)
EXTENDS PackFlow, FiniteSetTheorems, TLAPS

(* A register is turned into a flip-flop of the IO cell that does the same.  *)
Promotable(c) ==
    /\ c.type \in {"dffre", "sdffre", "dffnre", "sdffnre"}
    /\ Ones(c.e) /\ ResetFits(c)

LEMMA PromotedSame ==
  ASSUME NEW c, IsRegister(c), Promotable(c)
  PROVE  LET f == Promoted(c)
         IN  /\ IsRegister(f) /\ f.type \in IoTypes
             /\ f.c = c.c /\ f.d = c.d /\ f.q = c.q
             /\ f.e = Nothing /\ f.r \in {c.r, "1", Nothing}
             /\ RegisterOf(f) = RegisterOf(c)
<1> DEFINE r == IF ~Resetless(c) THEN c.r ELSE IF ioFF THEN "1" ELSE Nothing
           f == [type |-> TargetType(c), c |-> c.c, d |-> c.d, e |-> Nothing, r |-> r,
                 q |-> c.q]
<1>1. Promoted(c) = f
  <2>1. PICK g : g = [c EXCEPT !.type = TargetType(c)]
    OBVIOUS
  <2>2. g = [type |-> TargetType(c), c |-> c.c, d |-> c.d, e |-> c.e, r |-> c.r, q |-> c.q]
    BY <2>1 DEF IsRegister
  <2>3. PICK h : h = [g EXCEPT !.e = Nothing]
    OBVIOUS
  <2>4. h = [type |-> TargetType(c), c |-> c.c, d |-> c.d, e |-> Nothing, r |-> c.r, q |-> c.q]
    BY <2>2, <2>3
  <2>5. [h EXCEPT !.r = r] = f
    BY <2>4
  <2>6. h.r = c.r
    BY <2>4
  <2>7. Promoted(c) = [[[c EXCEPT !.type = TargetType(c)] EXCEPT !.e = Nothing] EXCEPT !.r = r]
    BY <2>1, <2>3, <2>6 DEF Promoted
  <2> QED BY <2>1, <2>3, <2>5, <2>7
<1>2. f.type = TargetType(c) /\ TargetType(c) \in IoTypes
  BY DEF TargetType, IoTypes
<1>3. f.c = c.c /\ f.d = c.d /\ f.q = c.q /\ f.e = Nothing /\ f.r = r
  OBVIOUS
<1>4. RegisterOf(f) = RegisterOf(c)
  <2>1. f.type \in {"dffnre", "sdffnre", "dffn", "io_sdffnr"}
          <=> c.type \in {"dffnre", "sdffnre", "dffn", "io_sdffnr"}
    BY <1>2 DEF TargetType, Negedge, Promotable
  <2>2. (IF f.e = Nothing THEN "1" ELSE OneOf(f.e)) = (IF c.e = Nothing THEN "1" ELSE OneOf(c.e))
    BY <1>3 DEF Promotable, Ones
  <2>3. Ones("1")
    BY TieAssumption DEF Ones, OneOf
  <2>4. (IF f.r = Nothing \/ Ones(f.r) THEN "none" ELSE f.r)
          = (IF c.r = Nothing \/ Ones(c.r) THEN "none" ELSE c.r)
    BY <1>3, <2>3 DEF Resetless
  <2>5. f.type \notin {"dffre", "dffnre"}
    BY <1>2 DEF IoTypes
  <2>6. ~(c.type \in {"dffre", "dffnre"} /\ ~Ones(c.r))
    BY DEF Promotable, ResetFits, Resetless, Sync
  <2>7. (f.type \in {"dffre", "dffnre"} /\ ~Ones(f.r)) = FALSE
        /\ (c.type \in {"dffre", "dffnre"} /\ ~Ones(c.r)) = FALSE
    BY <2>5, <2>6
  <2>8. (f.type \in {"dffnre", "sdffnre", "dffn", "io_sdffnr"})
          = (c.type \in {"dffnre", "sdffnre", "dffn", "io_sdffnr"})
    BY <2>1
  <2> HIDE DEF f
  <2> QED BY <1>3, <2>2, <2>4, <2>7, <2>8 DEF RegisterOf
<1>5. r \in {c.r, "1", Nothing}
  OBVIOUS
<1>6. IsRegister(f)
  BY DEF IsRegister
<1> HIDE DEF f, r
<1> QED BY <1>1, <1>2, <1>3, <1>4, <1>5, <1>6

------------------------------------------------------------------------------
(* The registers there were keep what they do, the new ones stand at a bit   *)
(* whose register they copy, and a bit shows what it did or its new register.*)
Kept(x) ==
    IF start.flops[x].type = "lut" THEN flops[x] = start.flops[x]
    ELSE /\ IsRegister(flops[x]) /\ flops[x].type # "lut"
         /\ flops[x].c = start.flops[x].c /\ flops[x].d = start.flops[x].d
         /\ flops[x].q = start.flops[x].q
         /\ flops[x].e \in {start.flops[x].e, "1", Nothing}
         /\ flops[x].r \in {start.flops[x].r, "1", Nothing}
         /\ RegisterOf(flops[x]) = RegisterOf(start.flops[x])

NetsRead == NetsAt(start) \cup {"1", Nothing}

Copy(x, p, i) ==
    /\ p \in DOMAIN start.ports /\ i \in DOMAIN start.ports[p].bits
    /\ x = NewFlop(p, i) /\ ports[p].bits[i] = Pad(p, i)
    /\ start.ports[p].dir \in {"out", "inout"}
    /\ IsRegister(flops[x]) /\ flops[x].type \in IoTypes
    /\ flops[x].q = Pad(p, i)
    /\ {flops[x].c, flops[x].d, flops[x].e, flops[x].r} \subseteq NetsRead
    /\ RegisterOf(flops[x]) = Seen(start.flops, start.ports[p].bits[i])

FlopsInv ==
    /\ DOMAIN start.flops \subseteq DOMAIN flops
    /\ \A x \in DOMAIN start.flops : Kept(x)
    /\ \A x \in DOMAIN flops \ DOMAIN start.flops :
         \E p \in DOMAIN start.ports : \E i \in DOMAIN start.ports[p].bits : Copy(x, p, i)

PortsInv ==
    /\ DOMAIN ports = DOMAIN start.ports
    /\ \A p \in DOMAIN ports :
         /\ ports[p] = [dir |-> start.ports[p].dir, bits |-> ports[p].bits]
         /\ DOMAIN ports[p].bits = DOMAIN start.ports[p].bits
         /\ \A i \in DOMAIN ports[p].bits :
              \/ ports[p].bits[i] = start.ports[p].bits[i]
              \/ ports[p].bits[i] = Pad(p, i) /\ NewFlop(p, i) \in DOMAIN flops

Candidates ==
    /\ inputs \cap outputs = {}
    /\ \A x \in inputs \cup outputs :
         /\ x \in DOMAIN start.flops /\ flops[x] = start.flops[x]
         /\ flops[x].type # "lut" /\ Promotable(flops[x])

Begins == step \notin {"promote", "done"} => flops = start.flops /\ ports = start.ports

IoInv == start \in Designs /\ Begins /\ FlopsInv /\ PortsInv /\ Candidates

(* A register promoted at an input has that input to itself.                 *)
ReadPins(f, x, n) ==
    IF f.type = "lut" THEN IF n \in f.in THEN {<<x, n>>} ELSE {}
    ELSE {<<x, k>> : k \in {k \in {"c", "d", "e", "r"} : f[k] = n}}
Readers(fs, n) == UNION {ReadPins(fs[x], x, n) : x \in DOMAIN fs}

InputOnly(ps, n) ==
    /\ n \notin {"1", Nothing}
    /\ \E p \in DOMAIN ps : \E i \in DOMAIN ps[p].bits : ps[p].dir = "in" /\ ps[p].bits[i] = n
    /\ \A p \in DOMAIN ps : \A i \in DOMAIN ps[p].bits :
         ps[p].dir \in {"out", "inout"} => ps[p].bits[i] # n

HasInput(fs, ps, x) == InputOnly(ps, fs[x].d) /\ Readers(fs, fs[x].d) = {<<x, "d">>}

PadsInv ==
    \A x \in DOMAIN start.flops :
      x \in inputs \/ (flops[x].type \in IoTypes /\ ~HadIoType(x)) => HasInput(flops, ports, x)

------------------------------------------------------------------------------
LEMMA ModuleFacts ==
  ASSUME start \in Designs
  PROVE  /\ IsFiniteSet(DOMAIN start.flops)
         /\ \A x \in DOMAIN start.flops :
              IF start.flops[x].type = "lut"
              THEN start.flops[x].in \subseteq NetsAt(start)
              ELSE /\ IsRegister(start.flops[x])
                   /\ {start.flops[x].c, start.flops[x].d, start.flops[x].e, start.flops[x].r,
                       start.flops[x].q} \subseteq NetsAt(start)
         /\ \A x, y \in Cells(start.flops) : start.flops[x].q = start.flops[y].q => x = y
         /\ \A p \in DOMAIN start.ports :
              /\ start.ports[p] = [dir |-> start.ports[p].dir, bits |-> start.ports[p].bits]
              /\ \A i \in DOMAIN start.ports[p].bits :
                   /\ start.ports[p].bits[i] \in NetsAt(start)
                   /\ start.ports[p].dir = "in" => start.ports[p].bits[i] \notin {"1", Nothing}
<1>1. IsModule(start)
  BY ModulesAssumption
<1> DEFINE Of(x) == IF start.flops[x].type = "lut" THEN start.flops[x].in
                    ELSE {start.flops[x].c, start.flops[x].d, start.flops[x].e,
                          start.flops[x].r, start.flops[x].q}
           At(p) == {start.ports[p].bits[i] : i \in DOMAIN start.ports[p].bits}
<1>2. NetsAt(start) = (UNION {Of(x) : x \in DOMAIN start.flops})
                        \cup UNION {At(p) : p \in DOMAIN start.ports}
  BY DEF NetsAt
<1> HIDE DEF Of, At
<1>3. \A x \in DOMAIN start.flops : Of(x) \subseteq NetsAt(start)
  BY <1>2
<1>4. \A p \in DOMAIN start.ports : At(p) \subseteq NetsAt(start)
  BY <1>2
<1>5. \A p \in DOMAIN start.ports : \A i \in DOMAIN start.ports[p].bits :
        start.ports[p].bits[i] \in NetsAt(start)
  BY <1>4 DEF At
<1>6. \A x, y \in Cells(start.flops) : start.flops[x].q = start.flops[y].q => x = y
  BY <1>1 DEF IsModule, Cells
<1>7. ASSUME NEW x \in DOMAIN start.flops
      PROVE  IF start.flops[x].type = "lut"
             THEN start.flops[x].in \subseteq NetsAt(start)
             ELSE /\ IsRegister(start.flops[x])
                  /\ {start.flops[x].c, start.flops[x].d, start.flops[x].e, start.flops[x].r,
                      start.flops[x].q} \subseteq NetsAt(start)
  <2>1. start.flops[x].type # "lut" => IsRegister(start.flops[x])
    BY <1>1 DEF IsModule
  <2> QED BY <1>3, <2>1 DEF Of
<1>8. \A p \in DOMAIN start.ports :
        /\ start.ports[p] = [dir |-> start.ports[p].dir, bits |-> start.ports[p].bits]
        /\ start.ports[p].dir = "in" =>
             \A i \in DOMAIN start.ports[p].bits : start.ports[p].bits[i] \notin {"1", Nothing}
  BY <1>1 DEF IsModule
<1>9. IsFiniteSet(DOMAIN start.flops)
  BY <1>1 DEF IsModule
<1> QED BY <1>5, <1>6, <1>7, <1>8, <1>9

LEMMA NewFacts ==
  ASSUME start \in Designs,
         NEW p \in DOMAIN start.ports, NEW i \in DOMAIN start.ports[p].bits
  PROVE  /\ Pad(p, i) \notin NetsRead /\ NewFlop(p, i) \notin DOMAIN start.flops
         /\ \A q \in DOMAIN start.ports : \A j \in DOMAIN start.ports[q].bits :
              Pad(p, i) = Pad(q, j) \/ NewFlop(p, i) = NewFlop(q, j) => p = q /\ i = j
<1>1. \A q \in DOMAIN start.ports : \A j \in DOMAIN start.ports[q].bits : <<q, j>> \in BitsOf(start)
  BY DEF BitsOf
<1>2. ASSUME NEW b \in BitsOf(start)
      PROVE  /\ Pad(b[1], b[2]) \notin NetsAt(start) \cup {"1", Nothing}
             /\ NewFlop(b[1], b[2]) \notin DOMAIN start.flops
             /\ \A c \in BitsOf(start) :
                  \/ b = c
                  \/ Pad(b[1], b[2]) # Pad(c[1], c[2]) /\ NewFlop(b[1], b[2]) # NewFlop(c[1], c[2])
  BY ModulesAssumption DEF IsModule
<1> DEFINE b == <<p, i>>
<1>3. b \in BitsOf(start) /\ b[1] = p /\ b[2] = i
  BY <1>1
<1>4. Pad(p, i) \notin NetsAt(start) \cup {"1", Nothing} /\ NewFlop(p, i) \notin DOMAIN start.flops
  BY <1>2, <1>3
<1>5. ASSUME NEW q \in DOMAIN start.ports, NEW j \in DOMAIN start.ports[q].bits,
             ~(p = q /\ i = j)
      PROVE  Pad(p, i) # Pad(q, j) /\ NewFlop(p, i) # NewFlop(q, j)
  <2> DEFINE c == <<q, j>>
  <2>1. c \in BitsOf(start) /\ c[1] = q /\ c[2] = j
    BY <1>1
  <2>2. b # c
    BY <1>5
  <2> HIDE DEF b, c
  <2>3. Pad(b[1], b[2]) # Pad(c[1], c[2]) /\ NewFlop(b[1], b[2]) # NewFlop(c[1], c[2])
    BY <1>2, <1>3, <2>1, <2>2
  <2> QED BY <1>3, <2>1, <2>3
<1> QED BY <1>4, <1>5 DEF NetsRead

(* The register that a net shows.                                            *)
LEMMA SeenIs ==
  ASSUME NEW fs, NEW x \in Cells(fs),
         \A y \in Cells(fs) : fs[y].q = fs[x].q => y = x
  PROVE  Seen(fs, fs[x].q) = RegisterOf(fs[x])
BY DEF Seen

LEMMA SeenNone ==
  ASSUME NEW fs, NEW n, \A y \in Cells(fs) : fs[y].q # n
  PROVE  Seen(fs, n) = n
BY DEF Seen

(* No net has two registers.                                                 *)
LEMMA OneRegister ==
  ASSUME start \in Designs, FlopsInv
  PROVE  /\ \A x \in Cells(flops) : x \in Cells(start.flops) => flops[x].q \in NetsAt(start)
         /\ Cells(start.flops) = Cells(flops) \cap DOMAIN start.flops
         /\ \A x, y \in Cells(flops) : flops[x].q = flops[y].q => x = y
<1>1. ASSUME NEW x \in DOMAIN start.flops
      PROVE  x \in Cells(flops) <=> x \in Cells(start.flops)
  <2>1. Kept(x) /\ x \in DOMAIN flops
    BY DEF FlopsInv
  <2> QED BY <2>1 DEF Kept, Cells
<1>2. ASSUME NEW x \in Cells(start.flops)
      PROVE  flops[x].q = start.flops[x].q /\ flops[x].q \in NetsAt(start)
  <2>1. x \in DOMAIN start.flops /\ start.flops[x].type # "lut" /\ Kept(x)
    BY DEF FlopsInv, Cells
  <2> QED BY <2>1, ModuleFacts DEF Kept
<1>3. ASSUME NEW x \in Cells(flops), x \notin DOMAIN start.flops
      PROVE  \E p \in DOMAIN start.ports : \E i \in DOMAIN start.ports[p].bits :
               x = NewFlop(p, i) /\ flops[x].q = Pad(p, i)
  BY <1>3 DEF FlopsInv, Cells, Copy
<1>4. ASSUME NEW x \in Cells(flops), NEW y \in Cells(flops), flops[x].q = flops[y].q
      PROVE  x = y
  <2>1. CASE x \in DOMAIN start.flops /\ y \in DOMAIN start.flops
    BY <1>1, <1>2, <1>4, <2>1, ModuleFacts
  <2>2. CASE x \notin DOMAIN start.flops /\ y \notin DOMAIN start.flops
    BY <1>3, <1>4, <2>2, NewFacts
  <2>3. ASSUME NEW u \in Cells(flops), NEW v \in Cells(flops), u \in DOMAIN start.flops,
               v \notin DOMAIN start.flops
        PROVE  flops[u].q # flops[v].q
    <3>1. flops[u].q \in NetsAt(start)
      BY <1>1, <1>2, <2>3
    <3> QED BY <1>3, <2>3, <3>1, NewFacts DEF NetsRead
  <2> QED BY <1>4, <2>1, <2>2, <2>3
<1>5. Cells(start.flops) \subseteq DOMAIN start.flops
  BY DEF Cells
<1> QED BY <1>1, <1>2, <1>4, <1>5

LEMMA PortsKeptThen ==
  ASSUME IoInv
  PROVE  PortsKept
<1> USE DEF IoInv
<1>1. ASSUME NEW p \in DOMAIN ports, NEW i \in DOMAIN ports[p].bits
      PROVE  Seen(flops, ports[p].bits[i]) = Seen(start.flops, start.ports[p].bits[i])
  <2>1. p \in DOMAIN start.ports /\ i \in DOMAIN start.ports[p].bits
    BY DEF PortsInv
  <2>2. CASE ports[p].bits[i] = start.ports[p].bits[i]
    <3> DEFINE n == start.ports[p].bits[i]
    <3>1. n \in NetsAt(start)
      BY <2>1, ModuleFacts
    <3>2. CASE \E x \in Cells(start.flops) : start.flops[x].q = n
      <4>1. PICK x \in Cells(start.flops) : start.flops[x].q = n
        BY <3>2
      <4>2. Seen(start.flops, n) = RegisterOf(start.flops[x])
        BY <4>1, ModuleFacts, SeenIs
      <4>3. x \in Cells(flops) /\ Kept(x) /\ start.flops[x].type # "lut"
        BY OneRegister DEF FlopsInv, Cells
      <4>4. flops[x].q = n /\ RegisterOf(flops[x]) = RegisterOf(start.flops[x])
        BY <4>1, <4>3 DEF Kept
      <4>5. Seen(flops, n) = RegisterOf(flops[x])
        BY <4>3, <4>4, OneRegister, SeenIs
      <4> QED BY <2>2, <4>2, <4>4, <4>5
    <3>3. CASE \A x \in Cells(start.flops) : start.flops[x].q # n
      <4>1. ASSUME NEW y \in Cells(flops), flops[y].q = n PROVE FALSE
        <5>1. CASE y \in DOMAIN start.flops
          <6>1. y \in Cells(start.flops) /\ Kept(y) /\ start.flops[y].type # "lut"
            BY <5>1, OneRegister DEF FlopsInv, Cells
          <6> QED BY <3>3, <4>1, <6>1 DEF Kept
        <5>2. CASE y \notin DOMAIN start.flops
          <6>1. PICK q \in DOMAIN start.ports : \E j \in DOMAIN start.ports[q].bits : Copy(y, q, j)
            BY <5>2 DEF FlopsInv, Cells
          <6>2. PICK j \in DOMAIN start.ports[q].bits : Copy(y, q, j)
            BY <6>1
          <6> QED BY <3>1, <4>1, <6>2, NewFacts DEF Copy, NetsRead
        <5> QED BY <5>1, <5>2
      <4>2. Seen(flops, n) = n
        BY <4>1, SeenNone
      <4>3. Seen(start.flops, n) = n
        BY <3>3, SeenNone
      <4> QED BY <2>2, <4>2, <4>3
    <3> QED BY <3>2, <3>3
  <2>3. CASE ports[p].bits[i] = Pad(p, i) /\ NewFlop(p, i) \in DOMAIN flops
    <3> DEFINE x == NewFlop(p, i)
    <3>1. x \notin DOMAIN start.flops
      BY <2>1, NewFacts
    <3>2. PICK q \in DOMAIN start.ports : \E j \in DOMAIN start.ports[q].bits : Copy(x, q, j)
      BY <2>3, <3>1 DEF FlopsInv
    <3>3. PICK j \in DOMAIN start.ports[q].bits : Copy(x, q, j)
      BY <3>2
    <3>4. q = p /\ j = i
      BY <2>1, <3>3, NewFacts DEF Copy
    <3>5. Copy(x, p, i)
      BY <3>3, <3>4
    <3>6. x \in Cells(flops)
      BY <2>3, <3>5 DEF Copy, Cells, IoTypes
    <3>7. Seen(flops, flops[x].q) = RegisterOf(flops[x])
      BY <3>6, OneRegister, SeenIs
    <3> QED BY <2>3, <3>5, <3>7 DEF Copy
  <2> QED BY <2>2, <2>3 DEF PortsInv
<1>2. ASSUME NEW x \in Cells(start.flops)
      PROVE  RegisterOf(flops[x]) = RegisterOf(start.flops[x])
  BY DEF FlopsInv, Kept, Cells
<1>3. Registers = Cells(flops)
  BY DEF Registers, Cells
<1> QED BY <1>1, <1>2, <1>3, OneRegister DEF PortsKept

------------------------------------------------------------------------------
(* Every step of the flow keeps IoInv.                                       *)
LEMMA SamePorts ==
  ASSUME PortsInv, start' = start, ports' = ports, DOMAIN flops \subseteq DOMAIN flops'
  PROVE  PortsInv'
<1>1. ASSUME NEW p \in DOMAIN ports
      PROVE  /\ ports[p] = [dir |-> start.ports[p].dir, bits |-> ports[p].bits]
             /\ DOMAIN ports[p].bits = DOMAIN start.ports[p].bits
             /\ \A i \in DOMAIN ports[p].bits :
                  \/ ports[p].bits[i] = start.ports[p].bits[i]
                  \/ ports[p].bits[i] = Pad(p, i) /\ NewFlop(p, i) \in DOMAIN flops'
  <2> DEFINE r == [dir |-> start.ports[p].dir, bits |-> ports[p].bits]
  <2>1. ports[p] = r
    BY DEF PortsInv
  <2> HIDE DEF r
  <2>2. DOMAIN ports[p].bits = DOMAIN start.ports[p].bits
    BY DEF PortsInv
  <2>3. \A i \in DOMAIN ports[p].bits :
          \/ ports[p].bits[i] = start.ports[p].bits[i]
          \/ ports[p].bits[i] = Pad(p, i) /\ NewFlop(p, i) \in DOMAIN flops'
    BY DEF PortsInv
  <2> QED BY <2>1, <2>2, <2>3 DEF r
<1>2. DOMAIN ports = DOMAIN start.ports
  BY DEF PortsInv
<1> QED BY <1>1, <1>2 DEF PortsInv

LEMMA InitIo == Init => IoInv
<1> SUFFICES ASSUME Init PROVE IoInv
  OBVIOUS
<1>1. /\ start \in Designs /\ flops = start.flops /\ ports = start.ports
      /\ inputs = {} /\ outputs = {}
  BY DEF Init
<1>2. FlopsInv
  <2>1. \A x \in DOMAIN start.flops : Kept(x)
    BY <1>1, ModuleFacts DEF Kept
  <2> QED BY <1>1, <2>1 DEF FlopsInv
<1>3. PortsInv
  BY <1>1, ModuleFacts DEF PortsInv
<1> QED BY <1>1, <1>2, <1>3 DEF IoInv, Begins, Candidates

LEMMA SameIo ==
  ASSUME IoInv, UNCHANGED <<ioVars, start>>,
         step \in {"promote", "done"} => step' \in {"promote", "done"}
  PROVE  IoInv'
<1>1. start' = start /\ flops' = flops /\ ports' = ports /\ inputs' = inputs /\ outputs' = outputs
  BY DEF ioVars
<1>2. FlopsInv'
  <2>1. \A x \in DOMAIN start.flops : Kept(x)'
    BY <1>1 DEF IoInv, FlopsInv, Kept
  <2>2. \A x \in DOMAIN flops \ DOMAIN start.flops :
          \E p \in DOMAIN start.ports : \E i \in DOMAIN start.ports[p].bits : Copy(x, p, i)'
    <3>1. ASSUME NEW x, NEW p, NEW i, Copy(x, p, i) PROVE Copy(x, p, i)'
      BY <1>1, <3>1 DEF Copy, NetsRead
    <3> QED BY <3>1 DEF IoInv, FlopsInv
  <2> QED BY <1>1, <2>1, <2>2 DEF IoInv, FlopsInv
<1>3. PortsInv' /\ Candidates'
  BY <1>1, SamePorts DEF IoInv, Candidates
<1> QED BY <1>1, <1>2, <1>3 DEF IoInv, Begins

LEMMA ClassifyIo ==
  ASSUME IoInv, Classify, UNCHANGED start, step = "ioff", step' = "promote"
  PROVE  IoInv'
<1>1. start' = start /\ flops' = flops /\ ports' = ports /\ flops = start.flops
  BY DEF Classify, IoInv, Begins
<1>2. FlopsInv'
  <2>1. \A x \in DOMAIN start.flops : Kept(x)'
    BY <1>1 DEF IoInv, FlopsInv, Kept
  <2> QED BY <1>1, <2>1 DEF FlopsInv
<1>3. PortsInv'
  BY <1>1, SamePorts DEF IoInv
<1>4. inputs' \subseteq Eligible /\ outputs' \subseteq Eligible /\ inputs' \cap outputs' = {}
  BY DEF Classify
<1>5. \A x \in Eligible : x \in DOMAIN flops /\ flops[x].type # "lut" /\ Promotable(flops[x])
  BY DEF Eligible, Promotable
<1>6. Candidates'
  <2>1. \A x \in Eligible : (Promotable(flops[x]))'
    <3>1. ioFF' = ioFF
      BY DEF Classify
    <3> QED BY <1>1, <1>5, <3>1 DEF Promotable
  <2> QED BY <1>1, <1>4, <1>5, <2>1 DEF Candidates
<1> QED BY <1>1, <1>2, <1>3, <1>6 DEF IoInv, Begins

LEMMA InputFacts ==
  ASSUME IoInv, NEW x \in inputs \cup outputs
  PROVE  /\ x \in DOMAIN start.flops /\ flops[x] = start.flops[x] /\ flops[x].type # "lut"
         /\ flops[x].type \notin IoTypes
         /\ {flops[x].c, flops[x].d, flops[x].e, flops[x].r, flops[x].q} \subseteq NetsAt(start)
         /\ LET f == Promoted(flops[x])
            IN  /\ IsRegister(f) /\ f.type \in IoTypes /\ f.type # "lut"
                /\ f.c = flops[x].c /\ f.d = flops[x].d /\ f.q = flops[x].q
                /\ f.e = Nothing /\ f.r \in {flops[x].r, "1", Nothing}
                /\ RegisterOf(f) = RegisterOf(flops[x])
<1>1. /\ x \in DOMAIN start.flops /\ flops[x] = start.flops[x] /\ flops[x].type # "lut"
      /\ Promotable(flops[x])
  BY DEF IoInv, Candidates
<1>2. start.flops[x].type # "lut"
  BY <1>1
<1>3. /\ IsRegister(flops[x]) /\ flops[x].type \notin IoTypes
      /\ {flops[x].c, flops[x].d, flops[x].e, flops[x].r, flops[x].q} \subseteq NetsAt(start)
  <2>1. flops[x].type \notin IoTypes
    BY <1>1 DEF Promotable, IoTypes
  <2> QED BY <1>1, <1>2, <2>1, ModuleFacts DEF IoInv
<1>4. "lut" \notin IoTypes
  BY DEF IoTypes
<1> DEFINE f == Promoted(flops[x])
<1>5. /\ IsRegister(f) /\ f.type \in IoTypes
      /\ f.c = flops[x].c /\ f.d = flops[x].d /\ f.q = flops[x].q
      /\ f.e = Nothing /\ f.r \in {flops[x].r, "1", Nothing}
      /\ RegisterOf(f) = RegisterOf(flops[x])
  BY <1>1, <1>3, PromotedSame
<1> HIDE DEF f
<1>6. f.type # "lut"
  BY <1>4, <1>5
<1> QED BY <1>1, <1>3, <1>5, <1>6 DEF f

LEMMA InputIo ==
  ASSUME IoInv, PromoteInput, UNCHANGED <<start, step>>, step = "promote"
  PROVE  IoInv'
<1>1. PICK x \in inputs : /\ flops' = [flops EXCEPT ![x] = Promoted(flops[x])]
                          /\ inputs' = inputs \ {x} /\ UNCHANGED <<ports, ioFF, outputs>>
  BY DEF PromoteInput
<1>2. x \in DOMAIN start.flops /\ x \in DOMAIN flops
  BY InputFacts DEF IoInv, FlopsInv
<1>3. /\ DOMAIN flops' = DOMAIN flops /\ flops'[x] = Promoted(flops[x])
      /\ \A y \in DOMAIN flops : y # x => flops'[y] = flops[y]
  BY <1>1, <1>2
<1>4. start' = start /\ ports' = ports /\ outputs' = outputs
  BY <1>1
<1>5. ASSUME NEW y \in DOMAIN start.flops PROVE Kept(y)'
  <2>1. CASE y = x
    <3>1. start.flops[x].type # "lut" /\ flops[x] = start.flops[x]
      BY InputFacts
    <3>2. Promoted(flops[x]).e \in {start.flops[x].e, "1", Nothing}
      BY InputFacts
    <3>3. /\ flops'[x].type # "lut" /\ IsRegister(flops'[x]) /\ flops'[x].c = start.flops[x].c
          /\ flops'[x].d = start.flops[x].d /\ flops'[x].q = start.flops[x].q
          /\ flops'[x].e \in {start.flops[x].e, "1", Nothing}
          /\ flops'[x].r \in {start.flops[x].r, "1", Nothing}
          /\ RegisterOf(flops'[x]) = RegisterOf(start.flops[x])
      BY <1>3, <3>1, <3>2, InputFacts
    <3> QED BY <1>4, <2>1, <3>1, <3>3 DEF Kept
  <2>2. CASE y # x
    <3>1. y \in DOMAIN flops /\ flops'[y] = flops[y] /\ Kept(y)
      BY <1>3, <2>2 DEF IoInv, FlopsInv
    <3> QED BY <1>4, <3>1 DEF Kept
  <2> QED BY <2>1, <2>2
<1>6. ASSUME NEW y \in DOMAIN flops \ DOMAIN start.flops
      PROVE  \E p \in DOMAIN start.ports : \E i \in DOMAIN start.ports[p].bits : Copy(y, p, i)'
  <2>1. flops'[y] = flops[y]
    BY <1>2, <1>3
  <2>2. PICK p \in DOMAIN start.ports : \E i \in DOMAIN start.ports[p].bits : Copy(y, p, i)
    BY DEF IoInv, FlopsInv
  <2>3. PICK i \in DOMAIN start.ports[p].bits : Copy(y, p, i)
    BY <2>2
  <2>4. Copy(y, p, i)'
    BY <1>4, <2>1, <2>3 DEF Copy, NetsRead
  <2> QED BY <2>4
<1>7. FlopsInv'
  <2>1. DOMAIN start.flops \subseteq DOMAIN flops'
    BY <1>3 DEF IoInv, FlopsInv
  <2> QED BY <1>3, <1>4, <1>5, <1>6, <2>1 DEF FlopsInv
<1>8. PortsInv'
  BY <1>3, <1>4, SamePorts DEF IoInv
<1>9. Candidates'
  <2>1. \A y \in inputs \cup outputs : /\ y \in DOMAIN start.flops /\ flops[y] = start.flops[y]
                                       /\ flops[y].type # "lut" /\ Promotable(flops[y])
    BY DEF IoInv, Candidates
  <2>2. inputs' \cap outputs' = {} /\ x \notin inputs' \cup outputs'
        /\ inputs' \cup outputs' \subseteq inputs \cup outputs
    BY <1>1 DEF IoInv, Candidates
  <2>3. \A y \in inputs' \cup outputs' : y \in DOMAIN flops /\ flops'[y] = flops[y]
    BY <1>3, <2>1, <2>2 DEF IoInv, FlopsInv
  <2>4. \A y \in inputs' \cup outputs' : (Promotable(flops[y]))'
    BY <2>1, <2>2, <2>3, <1>1 DEF Promotable
  <2> QED BY <1>4, <2>1, <2>2, <2>3, <2>4 DEF Candidates
<1> QED BY <1>4, <1>7, <1>8, <1>9 DEF IoInv, Begins

(* PromotePort, with names for the bits of p that get a register, and what   *)
(* each of these registers is a copy of.                                     *)
AtPort(p) == {i \in DOMAIN ports[p].bits : Source(<<p, i>>) # {}}
SourceAt(p, i) == CHOOSE x \in Source(<<p, i>>) : TRUE
NewAt(p, i) == [Promoted(flops[SourceAt(p, i)]) EXCEPT !.q = Pad(p, i)]

LEMMA SourceFacts ==
  ASSUME IoInv, NEW p \in DOMAIN ports, NEW i \in AtPort(p)
  PROVE  /\ p \in DOMAIN start.ports /\ i \in DOMAIN start.ports[p].bits
         /\ i \in DOMAIN ports[p].bits /\ start.ports[p].dir \in {"out", "inout"}
         /\ SourceAt(p, i) \in outputs
         /\ ports[p].bits[i] = start.ports[p].bits[i]
         /\ start.ports[p].bits[i] = flops[SourceAt(p, i)].q
         /\ NewFlop(p, i) \notin DOMAIN flops
<1> DEFINE y == SourceAt(p, i)
<1>1. i \in DOMAIN ports[p].bits /\ y \in Source(<<p, i>>)
  BY DEF AtPort, SourceAt
<1> HIDE DEF y
<1>2. y \in outputs /\ <<p, i>> \in Slots(flops[y].q)
  BY <1>1 DEF Source
<1> DEFINE b == <<p, i>>
<1>3. b[1] = p /\ b[2] = i
  OBVIOUS
<1>4. b \in Slots(flops[y].q)
  BY <1>2
<1> HIDE DEF b
<1>5. ports[p].dir \in {"out", "inout"} /\ ports[p].bits[i] = flops[y].q
  BY <1>3, <1>4 DEF Slots, PortBits, Shows
<1>6. p \in DOMAIN start.ports /\ i \in DOMAIN start.ports[p].bits
      /\ ports[p].dir = start.ports[p].dir
  <2>1. PortsInv
    BY DEF IoInv
  <2>2. p \in DOMAIN start.ports /\ DOMAIN ports[p].bits = DOMAIN start.ports[p].bits
    BY <2>1 DEF PortsInv
  <2>3. PICK r : r = [dir |-> start.ports[p].dir, bits |-> ports[p].bits]
    OBVIOUS
  <2>4. ports[p] = r
    BY <2>1, <2>3 DEF PortsInv
  <2>5. r.dir = start.ports[p].dir
    BY <2>3
  <2> QED BY <1>1, <2>2, <2>4, <2>5
<1>7. flops[y].q \in NetsAt(start)
  BY <1>2, InputFacts
<1>8. ports[p].bits[i] # Pad(p, i)
  BY <1>5, <1>6, <1>7, NewFacts DEF IoInv, NetsRead
<1>9. ports[p].bits[i] = start.ports[p].bits[i]
  BY <1>1, <1>8 DEF IoInv, PortsInv
<1>10. NewFlop(p, i) \notin DOMAIN flops
  <2> SUFFICES ASSUME NewFlop(p, i) \in DOMAIN flops PROVE FALSE
    OBVIOUS
  <2>1. NewFlop(p, i) \notin DOMAIN start.flops
    BY <1>6, NewFacts DEF IoInv
  <2>2. PICK q \in DOMAIN start.ports : \E j \in DOMAIN start.ports[q].bits : Copy(NewFlop(p, i), q, j)
    BY <2>1 DEF IoInv, FlopsInv
  <2>3. PICK j \in DOMAIN start.ports[q].bits : Copy(NewFlop(p, i), q, j)
    BY <2>2
  <2>4. q = p /\ j = i
    BY <1>6, <2>3, NewFacts DEF Copy, IoInv
  <2> QED BY <1>8, <2>3, <2>4 DEF Copy
<1> QED BY <1>1, <1>2, <1>5, <1>6, <1>9, <1>10 DEF y

LEMMA NewAtFacts ==
  ASSUME IoInv, NEW p \in DOMAIN ports, NEW i \in AtPort(p)
  PROVE  LET y == SourceAt(p, i)
             f == NewAt(p, i)
         IN  /\ IsRegister(f) /\ f.type \in IoTypes /\ f.type # "lut" /\ f.q = Pad(p, i)
             /\ f.c = flops[y].c /\ f.d = flops[y].d /\ f.e = Nothing
             /\ f.r \in {flops[y].r, "1", Nothing}
             /\ {f.c, f.d, f.e, f.r} \subseteq NetsRead
             /\ RegisterOf(f) = Seen(start.flops, start.ports[p].bits[i])
<1> DEFINE y == SourceAt(p, i)
           g == Promoted(flops[y])
           f == [g EXCEPT !.q = Pad(p, i)]
<1>1. y \in outputs /\ start.ports[p].bits[i] = flops[y].q
  BY SourceFacts
<1> HIDE DEF y
<1>2. /\ IsRegister(g) /\ g.type \in IoTypes /\ g.type # "lut"
      /\ g.c = flops[y].c /\ g.d = flops[y].d
      /\ g.e = Nothing /\ g.r \in {flops[y].r, "1", Nothing}
      /\ RegisterOf(g) = RegisterOf(flops[y])
  BY <1>1, InputFacts
<1> HIDE DEF g
<1>3. f = [type |-> g.type, c |-> g.c, d |-> g.d, e |-> g.e, r |-> g.r, q |-> Pad(p, i)]
  BY <1>2 DEF IsRegister
<1>4. /\ f.type = g.type /\ f.c = g.c /\ f.d = g.d /\ f.e = g.e /\ f.r = g.r
      /\ f.q = Pad(p, i)
  BY <1>3
<1>5. IsRegister(f)
  BY <1>3, <1>4 DEF IsRegister
<1> HIDE DEF f
<1>6. RegisterOf(f) = RegisterOf(g)
  BY <1>4 DEF RegisterOf
<1>7. RegisterOf(flops[y]) = Seen(start.flops, flops[y].q)
  <2>1. y \in DOMAIN start.flops /\ flops[y] = start.flops[y] /\ flops[y].type # "lut"
    BY <1>1, InputFacts
  <2>2. y \in Cells(start.flops)
    BY <2>1 DEF Cells
  <2>3. Seen(start.flops, start.flops[y].q) = RegisterOf(start.flops[y])
    BY <2>2, SeenIs, ModuleFacts DEF IoInv
  <2> QED BY <2>1, <2>3
<1>8. {flops[y].c, flops[y].d, flops[y].r} \subseteq NetsAt(start)
  BY <1>1, InputFacts
<1>9. {f.c, f.d, f.e, f.r} \subseteq NetsRead
  BY <1>2, <1>4, <1>8 DEF NetsRead
<1>10. f = NewAt(p, i)
  BY DEF f, g, y, NewAt
<1> QED BY <1>1, <1>2, <1>4, <1>5, <1>6, <1>7, <1>9, <1>10 DEF y

LEMMA PortStep ==
  ASSUME IoInv, PromotePort
  PROVE  \E p \in DOMAIN ports :
           /\ AtPort(p) # {} /\ inputs = {}
           /\ UNCHANGED <<ioFF, inputs, outputs>>
           /\ DOMAIN flops' = DOMAIN flops \cup {NewFlop(p, i) : i \in AtPort(p)}
           /\ \A x \in DOMAIN flops : flops'[x] = flops[x]
           /\ \A i \in AtPort(p) : flops'[NewFlop(p, i)] = NewAt(p, i)
           /\ DOMAIN ports' = DOMAIN ports
           /\ \A q \in DOMAIN ports : q # p => ports'[q] = ports[q]
           /\ ports'[p] = [dir |-> start.ports[p].dir,
                           bits |-> [i \in DOMAIN ports[p].bits |->
                                       IF i \in AtPort(p) THEN Pad(p, i) ELSE ports[p].bits[i]]]
<1> DEFINE New(p) == [x \in DOMAIN flops \cup {NewFlop(p, i) : i \in AtPort(p)} |->
                        IF x \in DOMAIN flops THEN flops[x]
                        ELSE NewAt(p, CHOOSE i \in AtPort(p) : NewFlop(p, i) = x)]
           Bits(p) == [i \in DOMAIN ports[p].bits |->
                         IF i \in AtPort(p) THEN Pad(p, i) ELSE ports[p].bits[i]]
<1>1. PICK p \in DOMAIN ports : /\ AtPort(p) # {} /\ flops' = New(p)
                                /\ ports' = [ports EXCEPT ![p].bits = Bits(p)]
  BY DEF PromotePort, AtPort, NewAt, SourceAt
<1>2. DOMAIN flops' = DOMAIN flops \cup {NewFlop(p, i) : i \in AtPort(p)}
  BY <1>1
<1>3. \A x \in DOMAIN flops : flops'[x] = flops[x]
  BY <1>1
<1>4. ASSUME NEW i \in AtPort(p) PROVE flops'[NewFlop(p, i)] = NewAt(p, i)
  <2>1. NewFlop(p, i) \notin DOMAIN flops
    BY SourceFacts
  <2>2. \A j \in AtPort(p) : NewFlop(p, j) = NewFlop(p, i) => j = i
    BY SourceFacts, NewFacts DEF IoInv
  <2>3. (CHOOSE j \in AtPort(p) : NewFlop(p, j) = NewFlop(p, i)) = i
    BY <2>2
  <2>4. NewFlop(p, i) \in DOMAIN flops \cup {NewFlop(p, j) : j \in AtPort(p)}
    OBVIOUS
  <2> QED BY <1>1, <2>1, <2>3, <2>4
<1>5. /\ DOMAIN ports' = DOMAIN ports
      /\ \A q \in DOMAIN ports : q # p => ports'[q] = ports[q]
      /\ ports'[p] = [ports[p] EXCEPT !.bits = Bits(p)]
  BY <1>1
<1> HIDE DEF Bits, New
<1>6. ports[p] = [dir |-> start.ports[p].dir, bits |-> ports[p].bits]
  BY DEF IoInv, PortsInv
<1>7. ports'[p] = [dir |-> start.ports[p].dir, bits |-> Bits(p)]
  BY <1>5, <1>6
<1>8. inputs = {} /\ UNCHANGED <<ioFF, inputs, outputs>>
  BY DEF PromotePort
<1> QED BY <1>1, <1>2, <1>3, <1>4, <1>5, <1>7, <1>8 DEF Bits

LEMMA PortIo ==
  ASSUME IoInv, PromotePort, UNCHANGED <<start, step>>, step = "promote"
  PROVE  IoInv'
<1> DEFINE Bits(p) == [i \in DOMAIN ports[p].bits |->
                         IF i \in AtPort(p) THEN Pad(p, i) ELSE ports[p].bits[i]]
<1>1. PICK p \in DOMAIN ports :
        /\ UNCHANGED <<ioFF, inputs, outputs>>
        /\ DOMAIN flops' = DOMAIN flops \cup {NewFlop(p, i) : i \in AtPort(p)}
        /\ \A x \in DOMAIN flops : flops'[x] = flops[x]
        /\ \A i \in AtPort(p) : flops'[NewFlop(p, i)] = NewAt(p, i)
        /\ DOMAIN ports' = DOMAIN ports
        /\ \A q \in DOMAIN ports : q # p => ports'[q] = ports[q]
        /\ ports'[p] = [dir |-> start.ports[p].dir, bits |-> Bits(p)]
  BY PortStep
<1>2. /\ \A i \in DOMAIN ports[p].bits :
           Bits(p)[i] = IF i \in AtPort(p) THEN Pad(p, i) ELSE ports[p].bits[i]
      /\ DOMAIN Bits(p) = DOMAIN ports[p].bits
  OBVIOUS
<1>3. AtPort(p) \subseteq DOMAIN ports[p].bits
  BY DEF AtPort
<1> HIDE DEF Bits
<1>4. start' = start /\ inputs' = inputs /\ outputs' = outputs
  BY <1>1
<1>5. ports'[p].bits = Bits(p) /\ ports'[p].dir = start.ports[p].dir
  BY <1>1
<1>6. DOMAIN start.flops \subseteq DOMAIN flops /\ DOMAIN ports = DOMAIN start.ports
  BY DEF IoInv, FlopsInv, PortsInv
<1>7. ASSUME NEW x \in DOMAIN start.flops PROVE Kept(x)'
  <2>1. Kept(x) /\ flops'[x] = flops[x]
    BY <1>1, <1>6 DEF IoInv, FlopsInv
  <2> QED BY <1>4, <2>1 DEF Kept
<1>8. ASSUME NEW x \in DOMAIN flops' \ DOMAIN start.flops
      PROVE  \E q \in DOMAIN start.ports : \E j \in DOMAIN start.ports[q].bits : Copy(x, q, j)'
  <2>1. CASE x \in DOMAIN flops
    <3>1. PICK q \in DOMAIN start.ports : \E j \in DOMAIN start.ports[q].bits : Copy(x, q, j)
      BY <2>1, <1>8 DEF IoInv, FlopsInv
    <3>2. PICK j \in DOMAIN start.ports[q].bits : Copy(x, q, j)
      BY <3>1
    <3>3. ports'[q].bits[j] = ports[q].bits[j]
      <4>1. CASE q # p
        BY <1>1, <1>6, <4>1
      <4>2. CASE q = p
        <5>1. j \in DOMAIN ports[p].bits
          BY <4>2, <3>2 DEF IoInv, PortsInv
        <5>2. j \notin AtPort(p)
          BY <2>1, <3>2, <4>2, SourceFacts DEF Copy
        <5> QED BY <1>2, <1>5, <4>2, <5>1, <5>2
      <4> QED BY <4>1, <4>2
    <3>4. flops'[x] = flops[x]
      BY <1>1, <2>1
    <3>5. Copy(x, q, j)'
      BY <1>4, <3>2, <3>3, <3>4 DEF Copy, NetsRead
    <3> QED BY <3>5
  <2>2. CASE x \notin DOMAIN flops
    <3>1. PICK i \in AtPort(p) : x = NewFlop(p, i)
      BY <1>1, <1>8, <2>2
    <3>2. /\ p \in DOMAIN start.ports /\ i \in DOMAIN start.ports[p].bits
          /\ i \in DOMAIN ports[p].bits /\ start.ports[p].dir \in {"out", "inout"}
      BY SourceFacts
    <3>3. flops'[x] = NewAt(p, i)
      BY <1>1, <3>1
    <3>4. ports'[p].bits[i] = Pad(p, i)
      BY <1>2, <1>5, <3>2
    <3> DEFINE f == NewAt(p, i)
    <3>5. /\ IsRegister(f) /\ f.type \in IoTypes /\ f.q = Pad(p, i)
          /\ {f.c, f.d, f.e, f.r} \subseteq NetsRead
          /\ RegisterOf(f) = Seen(start.flops, start.ports[p].bits[i])
      BY NewAtFacts
    <3> HIDE DEF f
    <3>6. flops'[x] = f
      BY <3>3 DEF f
    <3>7. Copy(x, p, i)'
      BY <1>4, <3>1, <3>2, <3>4, <3>5, <3>6 DEF Copy, NetsRead
    <3> QED BY <3>2, <3>7
  <2> QED BY <2>1, <2>2
<1>9. FlopsInv'
  BY <1>1, <1>4, <1>6, <1>7, <1>8 DEF FlopsInv
<1>10. ASSUME NEW q \in DOMAIN ports'
       PROVE  /\ ports'[q] = [dir |-> start.ports[q].dir, bits |-> ports'[q].bits]
              /\ DOMAIN ports'[q].bits = DOMAIN start.ports[q].bits
              /\ \A i \in DOMAIN ports'[q].bits :
                   \/ ports'[q].bits[i] = start.ports[q].bits[i]
                   \/ ports'[q].bits[i] = Pad(q, i) /\ NewFlop(q, i) \in DOMAIN flops'
  <2> DEFINE r == [dir |-> start.ports[q].dir, bits |-> ports[q].bits]
  <2>1. q \in DOMAIN ports /\ ports[q] = r
    BY <1>1 DEF IoInv, PortsInv
  <2> HIDE DEF r
  <2>2. /\ DOMAIN ports[q].bits = DOMAIN start.ports[q].bits
        /\ \A i \in DOMAIN ports[q].bits :
             \/ ports[q].bits[i] = start.ports[q].bits[i]
             \/ ports[q].bits[i] = Pad(q, i) /\ NewFlop(q, i) \in DOMAIN flops'
    BY <1>1, <2>1 DEF IoInv, PortsInv
  <2>3. CASE q # p
    BY <1>1, <2>1, <2>2, <2>3 DEF r
  <2>4. CASE q = p
    <3>1. ports'[q] = [dir |-> start.ports[q].dir, bits |-> ports'[q].bits]
      BY <1>1, <1>5, <2>4
    <3>2. DOMAIN ports'[q].bits = DOMAIN start.ports[q].bits
      BY <1>2, <1>5, <2>2, <2>4
    <3>3. ASSUME NEW i \in DOMAIN ports'[q].bits
          PROVE  \/ ports'[q].bits[i] = start.ports[q].bits[i]
                 \/ ports'[q].bits[i] = Pad(q, i) /\ NewFlop(q, i) \in DOMAIN flops'
      <4>1. i \in DOMAIN ports[p].bits /\ ports'[q].bits[i] = Bits(p)[i]
        BY <1>2, <1>5, <2>4
      <4>2. CASE i \in AtPort(p)
        BY <1>1, <1>2, <2>4, <4>1, <4>2
      <4>3. CASE i \notin AtPort(p)
        BY <1>2, <2>2, <2>4, <4>1, <4>3
      <4> QED BY <4>2, <4>3
    <3> QED BY <3>1, <3>2, <3>3
  <2> QED BY <2>3, <2>4
<1>11. PortsInv'
  BY <1>1, <1>4, <1>6, <1>10 DEF PortsInv
<1>12. Candidates'
  <2>1. \A x \in inputs \cup outputs : x \in DOMAIN flops /\ flops'[x] = flops[x]
    BY <1>1, <1>6 DEF IoInv, Candidates
  <2>2. \A x \in inputs \cup outputs : (Promotable(flops[x]))'
    BY <2>1 DEF IoInv, Candidates, Promotable
  <2> QED BY <1>4, <2>1, <2>2 DEF IoInv, Candidates
<1> QED BY <1>4, <1>9, <1>11, <1>12 DEF IoInv, Begins

LEMMA NextIo == IoInv /\ [Next]_vars => IoInv'
<1> SUFFICES ASSUME IoInv, [Next]_vars PROVE IoInv'
  OBVIOUS
<1>1. CASE IoClassify
  BY <1>1, ClassifyIo DEF IoClassify, Goto
<1>2. CASE IoPromote
  BY <1>2, InputIo, PortIo DEF IoPromote, Stay
<1>3. CASE \/ SimdPair \/ RegsType \/ BramMerge \/ BramSplit
  BY <1>3, SameIo DEF SimdPair, RegsType, BramMerge, BramSplit, Stay
<1>4. CASE SimdEnd \/ MapFinal \/ RegsEnd \/ BramEnd \/ SplitEnd \/ IoEnd
  BY <1>4, SameIo DEF SimdEnd, MapFinal, RegsEnd, BramEnd, SplitEnd, IoEnd, Goto
<1>5. CASE UNCHANGED vars
  BY <1>5, SameIo DEF vars
<1> QED BY <1>1, <1>2, <1>3, <1>4, <1>5 DEF Next

(* What a port shows and what every register does stay as they were, and no  *)
(* net gets a second driver, in every module (ql_ioff.cc).                   *)
THEOREM PortsKeptHolds == Spec => []PortsKept
<1>1. Init => IoInv
  BY InitIo
<1>2. IoInv /\ [Next]_vars => IoInv'
  BY NextIo
<1>3. IoInv => PortsKept
  BY PortsKeptThen
<1> QED BY <1>1, <1>2, <1>3, PTL DEF Spec

------------------------------------------------------------------------------
(* Where a net is shown, and who reads it.                                   *)
LEMMA BitsShow ==
  ASSUME NEW n
  PROVE  /\ FromInput(n) <=> \E p \in DOMAIN ports : \E i \in DOMAIN ports[p].bits :
                               ports[p].dir \in {"in", "inout"} /\ ports[p].bits[i] = n
         /\ \A p \in DOMAIN ports : \A i \in DOMAIN ports[p].bits :
              ports[p].dir \in {"out", "inout"} /\ ports[p].bits[i] = n => <<p, i>> \in Slots(n)
         /\ \A b \in Slots(n) : \E p \in DOMAIN ports : \E i \in DOMAIN ports[p].bits :
              b = <<p, i>> /\ ports[p].dir \in {"out", "inout"} /\ ports[p].bits[i] = n
<1> DEFINE All == UNION {{<<p, i>> : i \in DOMAIN ports[p].bits} : p \in DOMAIN ports}
<1>1. ASSUME NEW dirs, NEW b
      PROVE  b \in PortBits(dirs) /\ Shows(b) = n
               <=> \E p \in DOMAIN ports : \E i \in DOMAIN ports[p].bits :
                     b = <<p, i>> /\ ports[p].dir \in dirs /\ ports[p].bits[i] = n
  <2>1. b \in All <=> \E p \in DOMAIN ports : \E i \in DOMAIN ports[p].bits : b = <<p, i>>
    OBVIOUS
  <2>2. b \in PortBits(dirs) <=> b \in All /\ ports[b[1]].dir \in dirs
    BY DEF PortBits
  <2> HIDE DEF All
  <2> QED BY <2>1, <2>2 DEF Shows
<1> DEFINE ins == {"in", "inout"}
           outs == {"out", "inout"}
<1>2. FromInput(n) <=> \E b : b \in PortBits(ins) /\ Shows(b) = n
  BY DEF FromInput
<1>3. \A b : b \in Slots(n) <=> b \in PortBits(outs) /\ Shows(b) = n
  BY DEF Slots
<1> HIDE DEF ins, outs
<1>4. FromInput(n) <=> \E p \in DOMAIN ports : \E i \in DOMAIN ports[p].bits :
                         ports[p].dir \in ins /\ ports[p].bits[i] = n
  <2>1. ASSUME NEW b, b \in PortBits(ins), Shows(b) = n
        PROVE  \E p \in DOMAIN ports : \E i \in DOMAIN ports[p].bits :
                 ports[p].dir \in ins /\ ports[p].bits[i] = n
    BY <1>1, <2>1
  <2>2. ASSUME NEW p \in DOMAIN ports, NEW i \in DOMAIN ports[p].bits,
               ports[p].dir \in ins, ports[p].bits[i] = n
        PROVE  \E b : b \in PortBits(ins) /\ Shows(b) = n
    <3> DEFINE b == <<p, i>>
    <3>1. b = <<p, i>>
      OBVIOUS
    <3> HIDE DEF b
    <3> QED BY <1>1, <2>2, <3>1
  <2> QED BY <1>2, <2>1, <2>2
<1>5. \A b : b \in Slots(n) <=>
        \E p \in DOMAIN ports : \E i \in DOMAIN ports[p].bits :
          b = <<p, i>> /\ ports[p].dir \in outs /\ ports[p].bits[i] = n
  BY <1>1, <1>3
<1> QED BY <1>4, <1>5 DEF ins, outs

LEMMA ReadersAre ==
  ASSUME NEW n
  PROVE  Consumers(n) = Readers(flops, n)
<1>1. ASSUME NEW pin
      PROVE  pin \in Consumers(n) <=> \E x \in DOMAIN flops : pin \in Pins(x) /\ ReadsNet(pin, n)
  BY DEF Consumers
<1>2. ASSUME NEW pin, NEW x \in DOMAIN flops
      PROVE  pin \in Pins(x) /\ ReadsNet(pin, n) <=> pin \in ReadPins(flops[x], x, n)
  <2>1. CASE flops[x].type = "lut"
    <3>1. pin \in Pins(x) <=> \E m \in flops[x].in : pin = <<x, m>>
      BY <2>1 DEF Pins
    <3>2. \A m : ReadsNet(<<x, m>>, n) <=> m = n
      BY <2>1 DEF ReadsNet, Registers
    <3>3. pin \in ReadPins(flops[x], x, n) <=> n \in flops[x].in /\ pin = <<x, n>>
      BY <2>1 DEF ReadPins
    <3> QED BY <3>1, <3>2, <3>3
  <2>2. CASE flops[x].type # "lut"
    <3>1. pin \in Pins(x) <=> \E k \in {"c", "d", "e", "r"} : pin = <<x, k>>
      BY <2>2 DEF Pins
    <3>2. \A k : ReadsNet(<<x, k>>, n) <=> flops[x][k] = n
      BY <2>2 DEF ReadsNet, Registers
    <3>3. pin \in ReadPins(flops[x], x, n)
            <=> \E k \in {"c", "d", "e", "r"} : flops[x][k] = n /\ pin = <<x, k>>
      BY <2>2 DEF ReadPins
    <3> QED BY <3>1, <3>2, <3>3
  <2> QED BY <2>1, <2>2
<1>3. ASSUME NEW pin
      PROVE  pin \in Readers(flops, n) <=> \E x \in DOMAIN flops : pin \in ReadPins(flops[x], x, n)
  BY DEF Readers
<1>4. \A pin : pin \in Consumers(n) <=> pin \in Readers(flops, n)
  BY <1>1, <1>2, <1>3
<1> QED BY <1>4 DEF Consumers, Readers

LEMMA LutQuiet ==
  ASSUME NEW f, NEW x, NEW n, f.type = "lut", n \notin f.in
  PROVE  ReadPins(f, x, n) = {}
BY DEF ReadPins

LEMMA PinOf ==
  ASSUME NEW f, NEW x, NEW n, f.type # "lut", NEW pin \in ReadPins(f, x, n)
  PROVE  \E k \in {"c", "d", "e", "r"} : f[k] = n /\ pin = <<x, k>>
BY DEF ReadPins

LEMMA PinRead ==
  ASSUME NEW f, NEW x, NEW k \in {"c", "d", "e", "r"}, f.type # "lut"
  PROVE  <<x, k>> \in ReadPins(f, x, f[k])
BY DEF ReadPins

LEMMA PinsQuiet ==
  ASSUME NEW f, NEW x, NEW n, f.type # "lut", f.c # n, f.d # n, f.e # n, f.r # n
  PROVE  ReadPins(f, x, n) = {}
BY DEF ReadPins

LEMMA HasInputThen ==
  ASSUME NEW x, HasInput(flops, ports, x)
  PROVE  AtInput(x) /\ Cardinality(Consumers(flops[x].d)) <= 1
<1> DEFINE n == flops[x].d
<1>1. InputOnly(ports, n) /\ Readers(flops, n) = {<<x, "d">>}
  BY DEF HasInput
<1> HIDE DEF n
<1>2. FromInput(n)
  BY <1>1, BitsShow DEF InputOnly
<1>3. Slots(n) = {}
  BY <1>1, BitsShow DEF InputOnly
<1>4. Consumers(n) = {<<x, "d">>}
  BY <1>1, ReadersAre
<1>5. Cardinality(Consumers(n)) <= 1
  <2>1. Cardinality({<<x, "d">>}) = 1
    BY FS_Singleton
  <2> QED BY <1>4, <2>1
<1> QED BY <1>2, <1>3, <1>5 DEF n, AtInput

LEMMA ReadersFinite ==
  ASSUME NEW fs, NEW n, IsFiniteSet(DOMAIN fs)
  PROVE  IsFiniteSet(Readers(fs, n))
<1> DEFINE g == [x \in DOMAIN fs |-> ReadPins(fs[x], x, n)]
           S == {ReadPins(fs[x], x, n) : x \in DOMAIN fs}
<1>1. IsFiniteSet(S)
  <2>1. g \in Surjection(DOMAIN fs, S)
    BY DEF Surjection
  <2> HIDE DEF g, S
  <2> QED BY <2>1, FS_Surjection
<1>2. ASSUME NEW x PROVE IsFiniteSet(ReadPins(fs[x], x, n))
  <2>1. IsFiniteSet({<<x, n>>})
    BY FS_Singleton
  <2>2. IsFiniteSet({<<x, "c">>, <<x, "d">>, <<x, "e">>, <<x, "r">>})
    <3>1. IsFiniteSet({<<x, "c">>})
      BY FS_Singleton
    <3>2. IsFiniteSet({<<x, "c">>} \cup {<<x, "d">>})
      BY <3>1, FS_AddElement
    <3>3. IsFiniteSet(({<<x, "c">>} \cup {<<x, "d">>}) \cup {<<x, "e">>})
      BY <3>2, FS_AddElement
    <3>4. IsFiniteSet((({<<x, "c">>} \cup {<<x, "d">>}) \cup {<<x, "e">>}) \cup {<<x, "r">>})
      BY <3>3, FS_AddElement
    <3>5. (({<<x, "c">>} \cup {<<x, "d">>}) \cup {<<x, "e">>}) \cup {<<x, "r">>}
            = {<<x, "c">>, <<x, "d">>, <<x, "e">>, <<x, "r">>}
      OBVIOUS
    <3> QED BY <3>4, <3>5
  <2>3. \/ ReadPins(fs[x], x, n) \in SUBSET {<<x, n>>}
        \/ ReadPins(fs[x], x, n) \in SUBSET {<<x, "c">>, <<x, "d">>, <<x, "e">>, <<x, "r">>}
    BY DEF ReadPins
  <2> QED BY <2>1, <2>2, <2>3, FS_Subset
<1>3. Readers(fs, n) = UNION S
  BY DEF Readers
<1>4. \A T \in S : IsFiniteSet(T)
  BY <1>2
<1> HIDE DEF S
<1> QED BY <1>1, <1>3, <1>4, FS_UNION

------------------------------------------------------------------------------
(* Every step of ql_ioff keeps PadsInv.                                      *)
LEMMA SamePads ==
  ASSUME PadsInv, UNCHANGED <<flops, ports, inputs, start>>
  PROVE  PadsInv'
BY DEF PadsInv, HadIoType

LEMMA ClassifyPads ==
  ASSUME IoInv, PadsInv, Classify, UNCHANGED start, step = "ioff"
  PROVE  PadsInv'
<1>1. start' = start /\ flops' = flops /\ ports' = ports
  BY DEF Classify
<1>2. flops = start.flops /\ ports = start.ports
  BY DEF IoInv, Begins
<1>3. ASSUME NEW x \in inputs' PROVE HasInput(flops, ports, x)
  <2> DEFINE n == flops[x].d
  <2>1. x \in Eligible /\ AtInput(x) /\ Alone(x)
    BY DEF Classify
  <2>2. x \in DOMAIN flops /\ flops[x].type # "lut"
    BY <2>1 DEF Eligible
  <2>3. FromInput(n) /\ Slots(n) = {}
    BY <2>1 DEF AtInput
  <2>4. Cardinality(Readers(flops, n)) <= 1 /\ IsFiniteSet(Readers(flops, n))
    <3>1. IsFiniteSet(DOMAIN flops)
      BY <1>2, ModuleFacts DEF IoInv
    <3>2. Cardinality(Consumers(n)) <= 1
      BY <2>1 DEF Alone
    <3> QED BY <3>1, <3>2, ReadersFinite, ReadersAre
  <2>5. <<x, "d">> \in Readers(flops, n)
    <3>1. <<x, "d">> \in ReadPins(flops[x], x, n)
      BY <2>2, PinRead
    <3> QED BY <2>2, <3>1 DEF Readers
  <2>6. Readers(flops, n) = {<<x, "d">>}
    <3> DEFINE R == Readers(flops, n)
    <3>1. IsFiniteSet(R) /\ Cardinality(R) \in Nat /\ Cardinality(R) <= 1
      BY <2>4, FS_CardinalityType
    <3>2. Cardinality(R) # 0
      BY <2>5, <3>1, FS_EmptySet
    <3>3. Cardinality(R) = 1
      BY <3>1, <3>2
    <3>4. PICK y : R = {y}
      BY <3>1, <3>3, FS_Singleton
    <3> QED BY <2>5, <3>4
  <2> HIDE DEF n
  <2>7. PICK p \in DOMAIN ports : \E i \in DOMAIN ports[p].bits :
          ports[p].dir \in {"in", "inout"} /\ ports[p].bits[i] = n
    BY <2>3, BitsShow
  <2>8. PICK i \in DOMAIN ports[p].bits :
          ports[p].dir \in {"in", "inout"} /\ ports[p].bits[i] = n
    BY <2>7
  <2>9. \A q \in DOMAIN ports : \A j \in DOMAIN ports[q].bits :
          ports[q].dir \in {"out", "inout"} => ports[q].bits[j] # n
    BY <2>3, BitsShow
  <2>10. ports[p].dir = "in"
    BY <2>8, <2>9
  <2>11. n \notin {"1", Nothing}
    BY <1>2, <2>8, <2>10, ModuleFacts DEF IoInv
  <2>12. InputOnly(ports, n)
    BY <2>8, <2>9, <2>10, <2>11 DEF InputOnly
  <2> QED BY <2>6, <2>12 DEF n, HasInput
<1>4. \A x \in DOMAIN start.flops :
        flops[x].type \in IoTypes /\ ~HadIoType(x) => HasInput(flops, ports, x)
  BY DEF PadsInv
<1> QED BY <1>1, <1>3, <1>4 DEF PadsInv, HadIoType

LEMMA InputPads ==
  ASSUME IoInv, PadsInv, PromoteInput, UNCHANGED start
  PROVE  PadsInv'
<1>1. PICK x \in inputs : /\ flops' = [flops EXCEPT ![x] = Promoted(flops[x])]
                          /\ inputs' = inputs \ {x} /\ UNCHANGED <<ports, ioFF, outputs>>
  BY DEF PromoteInput
<1>2. x \in DOMAIN start.flops /\ DOMAIN start.flops \subseteq DOMAIN flops
  BY InputFacts DEF IoInv, FlopsInv
<1>3. /\ DOMAIN flops' = DOMAIN flops /\ flops'[x] = Promoted(flops[x])
      /\ \A y \in DOMAIN flops : y # x => flops'[y] = flops[y]
  BY <1>1, <1>2
<1>4. start' = start /\ ports' = ports
  BY <1>1
<1> DEFINE f == Promoted(flops[x])
<1>5. /\ f.type # "lut" /\ flops[x].type # "lut" /\ f.c = flops[x].c /\ f.d = flops[x].d
      /\ f.e = Nothing /\ f.r \in {flops[x].r, "1", Nothing}
  BY InputFacts
<1> HIDE DEF f
<1>6. ASSUME NEW n, n \notin {"1", Nothing}, NEW y \in DOMAIN flops
      PROVE  ReadPins(flops'[y], y, n) \subseteq ReadPins(flops[y], y, n)
  <2>1. CASE y # x
    BY <1>3, <2>1
  <2>2. CASE y = x
    <3>1. flops'[y] = f
      BY <1>3, <2>2 DEF f
    <3>2. \A k \in {"c", "d", "e", "r"} : f[k] = n => flops[x][k] = n
      BY <1>5, <1>6
    <3>3. ASSUME NEW pin \in ReadPins(f, x, n) PROVE pin \in ReadPins(flops[x], x, n)
      <4>1. PICK k \in {"c", "d", "e", "r"} : f[k] = n /\ pin = <<x, k>>
        BY <1>5, PinOf
      <4>2. flops[x][k] = n
        BY <3>2, <4>1
      <4>3. <<x, k>> \in ReadPins(flops[x], x, flops[x][k])
        BY <1>5, PinRead
      <4> QED BY <4>1, <4>2, <4>3
    <3> QED BY <2>2, <3>1, <3>3
  <2> QED BY <2>1, <2>2
<1>7. ASSUME NEW y \in DOMAIN start.flops, HasInput(flops, ports, y), flops[y].type # "lut"
      PROVE  HasInput(flops', ports', y)
  <2> DEFINE n == flops[y].d
  <2>1. InputOnly(ports, n) /\ Readers(flops, n) = {<<y, "d">>}
    BY <1>7 DEF HasInput
  <2>2. flops'[y].d = n /\ flops'[y].type # "lut" /\ y \in DOMAIN flops
    BY <1>2, <1>3, <1>5, <1>7 DEF f
  <2> HIDE DEF n
  <2>3. Readers(flops', n) \subseteq {<<y, "d">>}
    BY <1>3, <1>6, <2>1 DEF Readers, InputOnly
  <2>4. <<y, "d">> \in ReadPins(flops'[y], y, n)
    BY <2>2, PinRead
  <2>5. Readers(flops', n) = {<<y, "d">>}
    BY <1>3, <2>2, <2>3, <2>4 DEF Readers
  <2> QED BY <1>4, <2>1, <2>2, <2>5 DEF HasInput
<1>8. ASSUME NEW y \in DOMAIN start.flops,
             y \in inputs' \/ (flops'[y].type \in IoTypes /\ ~HadIoType(y))
      PROVE  HasInput(flops', ports', y)
  <2>1. y \in inputs \/ (flops[y].type \in IoTypes /\ ~HadIoType(y))
    BY <1>1, <1>2, <1>3, <1>8
  <2>2. flops[y].type # "lut"
    BY <2>1, InputFacts DEF IoTypes
  <2> QED BY <1>7, <2>1, <2>2 DEF PadsInv
<1> QED BY <1>4, <1>8 DEF PadsInv, HadIoType

LEMMA PortPads ==
  ASSUME IoInv, PadsInv, PromotePort, UNCHANGED start
  PROVE  PadsInv'
<1> DEFINE Bits(p) == [i \in DOMAIN ports[p].bits |->
                         IF i \in AtPort(p) THEN Pad(p, i) ELSE ports[p].bits[i]]
<1>1. PICK p \in DOMAIN ports :
        /\ AtPort(p) # {} /\ inputs = {}
        /\ UNCHANGED <<ioFF, inputs, outputs>>
        /\ DOMAIN flops' = DOMAIN flops \cup {NewFlop(p, i) : i \in AtPort(p)}
        /\ \A x \in DOMAIN flops : flops'[x] = flops[x]
        /\ \A i \in AtPort(p) : flops'[NewFlop(p, i)] = NewAt(p, i)
        /\ DOMAIN ports' = DOMAIN ports
        /\ \A q \in DOMAIN ports : q # p => ports'[q] = ports[q]
        /\ ports'[p] = [dir |-> start.ports[p].dir, bits |-> Bits(p)]
  BY PortStep
<1>2. /\ \A i \in DOMAIN ports[p].bits :
           Bits(p)[i] = IF i \in AtPort(p) THEN Pad(p, i) ELSE ports[p].bits[i]
      /\ DOMAIN Bits(p) = DOMAIN ports[p].bits
  OBVIOUS
<1> HIDE DEF Bits
<1>3. /\ ports'[p].bits = Bits(p) /\ ports'[p].dir = start.ports[p].dir
      /\ start.ports[p].dir \in {"out", "inout"}
      /\ inputs' = {} /\ start' = start
  BY <1>1, SourceFacts
<1>4. ports[p].dir = start.ports[p].dir
  <2>1. PICK r : r = [dir |-> start.ports[p].dir, bits |-> ports[p].bits]
    OBVIOUS
  <2>2. ports[p] = r
    BY <2>1 DEF IoInv, PortsInv
  <2> QED BY <2>1, <2>2
<1>5. DOMAIN start.flops \subseteq DOMAIN flops
  BY DEF IoInv, FlopsInv
<1>6. ASSUME NEW x \in DOMAIN start.flops, flops'[x].type \in IoTypes, ~HadIoType(x)
      PROVE  HasInput(flops', ports', x)
  <2> DEFINE n == flops[x].d
  <2>1. flops'[x] = flops[x] /\ flops[x].type \in IoTypes /\ x \in DOMAIN flops
    BY <1>1, <1>5, <1>6
  <2>2. InputOnly(ports, n) /\ Readers(flops, n) = {<<x, "d">>}
    BY <1>6, <2>1 DEF PadsInv, HasInput
  <2>3. flops[x].type # "lut"
    BY <2>1 DEF IoTypes
  <2> HIDE DEF n
  <2>4. InputOnly(ports', n)
    <3>1. n \notin {"1", Nothing}
      BY <2>2 DEF InputOnly
    <3>2. PICK q \in DOMAIN ports : \E i \in DOMAIN ports[q].bits :
            ports[q].dir = "in" /\ ports[q].bits[i] = n
      BY <2>2 DEF InputOnly
    <3>3. q # p
      BY <1>3, <1>4, <3>2
    <3>4. \E r \in DOMAIN ports' : \E i \in DOMAIN ports'[r].bits :
            ports'[r].dir = "in" /\ ports'[r].bits[i] = n
      BY <1>1, <3>2, <3>3
    <3>5. ASSUME NEW r \in DOMAIN ports', NEW i \in DOMAIN ports'[r].bits,
                 ports'[r].dir \in {"out", "inout"}
          PROVE  ports'[r].bits[i] # n
      <4>1. CASE r # p
        BY <1>1, <2>2, <3>5, <4>1 DEF InputOnly
      <4>2. CASE r = p
        <5>1. i \in DOMAIN ports[p].bits /\ ports'[r].bits[i] = Bits(p)[i]
          BY <1>2, <1>3, <4>2
        <5>2. ports[p].bits[i] # n
          BY <1>3, <1>4, <2>2, <5>1 DEF InputOnly
        <5>3. CASE i \notin AtPort(p)
          BY <1>2, <5>1, <5>2, <5>3
        <5>4. CASE i \in AtPort(p)
          <6>1. n \in NetsRead
            <7>1. Kept(x)
              BY DEF IoInv, FlopsInv
            <7>2. start.flops[x].type # "lut"
              BY <2>3, <7>1 DEF Kept
            <7>3. start.flops[x].d \in NetsAt(start)
              BY <7>2, ModuleFacts DEF IoInv
            <7> QED BY <7>1, <7>2, <7>3 DEF Kept, NetsRead, n
          <6>2. Pad(p, i) \notin NetsRead
            BY <5>4, SourceFacts, NewFacts DEF IoInv
          <6> QED BY <1>2, <5>1, <5>4, <6>1, <6>2
        <5> QED BY <5>3, <5>4
      <4> QED BY <4>1, <4>2
    <3> QED BY <3>1, <3>4, <3>5 DEF InputOnly
  <2>5. ASSUME NEW i \in AtPort(p)
        PROVE  ReadPins(flops'[NewFlop(p, i)], NewFlop(p, i), n) = {}
    <3> DEFINE y == SourceAt(p, i)
               f == NewAt(p, i)
    <3>1. /\ f.type # "lut" /\ f.c = flops[y].c /\ f.d = flops[y].d /\ f.e = Nothing
          /\ f.r \in {flops[y].r, "1", Nothing}
      BY NewAtFacts
    <3>2. y \in outputs
      BY SourceFacts
    <3> HIDE DEF y, f
    <3>3. y \in DOMAIN flops /\ flops[y].type # "lut" /\ flops[y].type \notin IoTypes
      BY <1>5, <3>2, InputFacts
    <3>4. \A pin \in ReadPins(flops[y], y, n) : pin = <<x, "d">>
      BY <2>2, <3>3 DEF Readers
    <3>5. flops[y].c # n /\ flops[y].d # n /\ flops[y].r # n
      <4>1. flops[y]["c"] # n /\ flops[y]["r"] # n
        BY <3>3, <3>4, PinRead
      <4>2. y # x
        BY <2>1, <3>3
      <4>3. flops[y]["d"] # n
        BY <3>3, <3>4, <4>2, PinRead
      <4> QED BY <4>1, <4>3
    <3>6. f.c # n /\ f.d # n /\ f.e # n /\ f.r # n
      BY <2>2, <3>1, <3>5 DEF InputOnly
    <3>7. ReadPins(f, NewFlop(p, i), n) = {}
      BY <3>1, <3>6, PinsQuiet
    <3> QED BY <1>1, <3>7 DEF f
  <2>6. Readers(flops', n) = Readers(flops, n)
    BY <1>1, <2>5 DEF Readers
  <2> QED BY <2>1, <2>2, <2>4, <2>6 DEF HasInput, n
<1> QED BY <1>3, <1>6 DEF PadsInv, HadIoType

LEMMA NextPads == IoInv /\ PadsInv /\ [Next]_vars => PadsInv'
<1> SUFFICES ASSUME IoInv, PadsInv, [Next]_vars PROVE PadsInv'
  OBVIOUS
<1>1. CASE IoClassify
  BY <1>1, ClassifyPads DEF IoClassify, Goto
<1>2. CASE IoPromote
  BY <1>2, InputPads, PortPads DEF IoPromote, Stay
<1>3. CASE \/ SimdPair \/ RegsType \/ BramMerge \/ BramSplit
  BY <1>3, SamePads DEF SimdPair, RegsType, BramMerge, BramSplit, Stay, ioVars
<1>4. CASE SimdEnd \/ MapFinal \/ RegsEnd \/ BramEnd \/ SplitEnd \/ IoEnd
  BY <1>4, SamePads DEF SimdEnd, MapFinal, RegsEnd, BramEnd, SplitEnd, IoEnd, Goto, ioVars
<1>5. CASE UNCHANGED vars
  BY <1>5, SamePads DEF vars, ioVars
<1> QED BY <1>1, <1>2, <1>3, <1>4, <1>5 DEF Next

(* A register at a port bit drives that bit alone.                           *)
LEMMA AtBitThen ==
  ASSUME IoInv, NEW x \in DOMAIN flops, x \notin DOMAIN start.flops
  PROVE  Cardinality(Slots(flops[x].q)) = 1 /\ Consumers(flops[x].q) = {}
<1>1. PICK p \in DOMAIN start.ports : \E i \in DOMAIN start.ports[p].bits : Copy(x, p, i)
  BY DEF IoInv, FlopsInv
<1>2. PICK i \in DOMAIN start.ports[p].bits : Copy(x, p, i)
  BY <1>1
<1> DEFINE n == Pad(p, i)
<1>3. flops[x].q = n /\ ports[p].bits[i] = n /\ start.ports[p].dir \in {"out", "inout"}
  BY <1>2 DEF Copy
<1>4. n \notin NetsRead
  BY NewFacts DEF IoInv
<1> HIDE DEF n
<1>5. ASSUME NEW q \in DOMAIN ports
      PROVE  /\ q \in DOMAIN start.ports /\ DOMAIN ports[q].bits = DOMAIN start.ports[q].bits
             /\ ports[q].dir = start.ports[q].dir
  <2>1. PICK r : r = [dir |-> start.ports[q].dir, bits |-> ports[q].bits]
    OBVIOUS
  <2>2. ports[q] = r
    BY <2>1 DEF IoInv, PortsInv
  <2>3. q \in DOMAIN start.ports /\ DOMAIN ports[q].bits = DOMAIN start.ports[q].bits
    BY DEF IoInv, PortsInv
  <2>4. r.dir = start.ports[q].dir
    BY <2>1
  <2> QED BY <2>2, <2>3, <2>4
<1>6. p \in DOMAIN ports /\ i \in DOMAIN ports[p].bits
  BY <1>5 DEF IoInv, PortsInv
<1>7. ASSUME NEW q \in DOMAIN ports, NEW j \in DOMAIN ports[q].bits, ports[q].bits[j] = n
      PROVE  q = p /\ j = i
  <2>1. q \in DOMAIN start.ports /\ j \in DOMAIN start.ports[q].bits
    BY <1>5
  <2>2. start.ports[q].bits[j] \in NetsAt(start)
    BY <2>1, ModuleFacts DEF IoInv
  <2>3. ports[q].bits[j] = Pad(q, j)
    BY <1>4, <1>7, <2>2 DEF IoInv, PortsInv, NetsRead
  <2> QED BY <1>7, <2>1, <2>3, NewFacts DEF IoInv, n
<1>8. Slots(n) = {<<p, i>>}
  BY <1>3, <1>5, <1>6, <1>7, BitsShow
<1>9. ASSUME NEW y \in DOMAIN flops PROVE ReadPins(flops[y], y, n) = {}
  <2>1. CASE y \in DOMAIN start.flops
    <3>1. Kept(y)
      BY <2>1 DEF IoInv, FlopsInv
    <3>2. CASE start.flops[y].type = "lut"
      BY <1>4, <2>1, <3>1, <3>2, LutQuiet, ModuleFacts DEF Kept, IoInv, NetsRead
    <3>3. CASE start.flops[y].type # "lut"
      <4>1. {start.flops[y].c, start.flops[y].d, start.flops[y].e, start.flops[y].r}
              \subseteq NetsAt(start)
        BY <2>1, <3>3, ModuleFacts DEF IoInv
      <4>2. /\ flops[y].type # "lut"
            /\ {flops[y].c, flops[y].d, flops[y].e, flops[y].r} \subseteq NetsRead
        BY <3>1, <3>3, <4>1 DEF Kept, NetsRead
      <4>3. flops[y].c # n /\ flops[y].d # n /\ flops[y].e # n /\ flops[y].r # n
        BY <1>4, <4>2
      <4> QED BY <4>2, <4>3, PinsQuiet
    <3> QED BY <3>2, <3>3
  <2>2. CASE y \notin DOMAIN start.flops
    <3>1. PICK q \in DOMAIN start.ports : \E j \in DOMAIN start.ports[q].bits : Copy(y, q, j)
      BY <2>2 DEF IoInv, FlopsInv
    <3>2. /\ flops[y].type # "lut"
          /\ {flops[y].c, flops[y].d, flops[y].e, flops[y].r} \subseteq NetsRead
      BY <3>1 DEF Copy, IoTypes
    <3>3. flops[y].c # n /\ flops[y].d # n /\ flops[y].e # n /\ flops[y].r # n
      BY <1>4, <3>2
    <3> QED BY <3>2, <3>3, PinsQuiet
  <2> QED BY <2>1, <2>2
<1>10. Consumers(n) = {}
  BY <1>9, ReadersAre DEF Readers
<1>11. Cardinality(Slots(n)) = 1
  BY <1>8, FS_Singleton
<1> QED BY <1>3, <1>10, <1>11

(* A register is promoted only where one pad can hold it: it has its input   *)
(* to itself, or its output goes to one port bit only (ql_ioff.cc).          *)
THEOREM AtOnePadHolds == Spec => []AtOnePad
<1>1. Init => IoInv /\ PadsInv
  <2> SUFFICES ASSUME Init PROVE IoInv /\ PadsInv
    OBVIOUS
  <2>1. IoInv
    BY InitIo
  <2>2. inputs = {} /\ flops = start.flops
    BY DEF Init
  <2> QED BY <2>1, <2>2 DEF PadsInv, HadIoType
<1>2. IoInv /\ PadsInv /\ [Next]_vars => (IoInv /\ PadsInv)'
  BY NextIo, NextPads
<1>3. IoInv /\ PadsInv => AtOnePad
  <2> SUFFICES ASSUME IoInv, PadsInv, NEW x \in Registers, flops[x].type \in IoTypes,
                      ~HadIoType(x)
               PROVE  \/ AtInput(x) /\ Cardinality(Consumers(flops[x].d)) <= 1
                      \/ Cardinality(Slots(flops[x].q)) = 1 /\ Consumers(flops[x].q) = {}
    BY DEF AtOnePad
  <2>1. CASE x \in DOMAIN start.flops
    BY <2>1, HasInputThen DEF PadsInv
  <2>2. CASE x \notin DOMAIN start.flops
    BY <2>2, AtBitThen DEF Registers
  <2> QED BY <2>1, <2>2
<1> QED BY <1>1, <1>2, <1>3, PTL DEF Spec

------------------------------------------------------------------------------
(* The pairs of ql_dsp_simd.                                                 *)

(* The cells the flow began with, and the halves ql_dsp_simd may pair.       *)
Old == DOMAIN start.cells
DspHalves == {x \in Old : IsDspHalf(x) /\ ~start.cells[x].keep}

(* While ql_dsp_simd runs the cells of before are as they were, what is new  *)
(* is a block, and the halves of a group that have a block are even in       *)
(* number.                                                                   *)
SimdInv ==
    step = "simd" =>
      /\ Old \subseteq DOMAIN cells /\ \A x \in Old : cells[x] = start.cells[x]
      /\ \A x \in DOMAIN cells \ Old : cells[x].type \in {"QL_DSP2", "QL_DSP3"}
      /\ gone \subseteq DspHalves

(* With one group the numbers of the blocks count the pairs of that group.   *)
Used(n) == {SimdNumbered(i) : i \in {i \in Nat : i < n}}
NumberInv ==
    step = "simd" =>
      /\ verdict = "ok"
      /\ \A y, z \in gone : z \in Partners(y)
      /\ \A z \in gone : Cardinality(Partners(z)) # 1
      /\ \E n \in Nat : Cardinality(gone) = 2 * n /\ DOMAIN cells = Old \cup Used(n)

(* Once it has ended there is no pair, and after the map no half.            *)
NoPairs ==
    /\ step \in {"simd", "final", "regs", "brams", "ioff", "promote", "done"}
    /\ step = "final" => Pairs(Alike) = {}
    /\ step \notin {"simd", "final"} =>
         \A x \in DOMAIN cells : cells[x].type \notin {DspPorts, DspParams}

LEMMA StartFacts ==
  ASSUME start \in Designs
  PROVE  /\ IsFiniteSet(Old) /\ IsMapped(start.cells) /\ NamesApart(start.cells)
         /\ Cardinality(Old) \in Nat
         /\ \A S \in SUBSET Old : IsFiniteSet(S) /\ Cardinality(S) \in Nat
                                  /\ Cardinality(S) <= Cardinality(Old)
<1>1. IsMapped(start.cells) /\ NamesApart(start.cells)
  BY CellsAssumption
<1>2. IsFiniteSet(Old)
  BY <1>1 DEF IsMapped, Old
<1> QED BY <1>1, <1>2, FS_Subset, FS_CardinalityType

(* The two cells of a pair are halves of before that have no block yet.      *)
LEMMA PairFacts ==
  ASSUME SimdInv, step = "simd", NEW x, NEW y, <<x, y>> \in Pairs(Alike)
  PROVE  /\ x \in DspHalves \ gone /\ y \in DspHalves \ gone /\ x # y
         /\ cells[x] = start.cells[x] /\ cells[y] = start.cells[y]
         /\ Config(cells[x]) = Config(cells[y])
         /\ y \in Partners(x) /\ x \in Partners(y) /\ x \in Partners(x) /\ y \in Partners(y)
<1>1. x \in DOMAIN cells \ gone /\ y \in DOMAIN cells \ gone /\ x # y /\ Alike(x, y)
  BY DEF Pairs
<1>2. cells[x].type \in {DspPorts, DspParams} /\ ~cells[x].keep
      /\ cells[y].type \in {DspPorts, DspParams} /\ ~cells[y].keep
      /\ Config(cells[x]) = Config(cells[y])
  BY <1>1 DEF Alike, SimdHalf
<1>3. x \in Old /\ y \in Old
  BY <1>1, <1>2 DEF SimdInv, DspPorts, DspParams
<1>4. cells[x] = start.cells[x] /\ cells[y] = start.cells[y]
  BY <1>3 DEF SimdInv
<1> QED BY <1>1, <1>2, <1>3, <1>4 DEF DspHalves, IsDspHalf, Partners, Old

LEMMA SimdType == \A a, b : Simd(a, b).type \in {"QL_DSP2", "QL_DSP3"}
  BY DEF Simd

LEMMA SimdStep == SimdInv /\ start \in Designs /\ [Next]_vars => SimdInv'
<1> SUFFICES ASSUME SimdInv, start \in Designs, [Next]_vars, step' = "simd"
             PROVE  SimdInv'
  BY DEF SimdInv
<1>1. ASSUME SimdPair PROVE SimdInv'
  <2>1. step = "simd" /\ start' = start /\ PairDsps
    BY <1>1 DEF SimdPair, Stay
  <2>2. CASE UNCHANGED <<cells, gone>>
    BY <2>1, <2>2 DEF SimdInv, Old, DspHalves, IsDspHalf
  <2>3. CASE ~UNCHANGED <<cells, gone>>
    <3>1. PICK p \in Pairs(Alike) :
            /\ SimdName(Config(cells[p[1]])) \notin DOMAIN cells
            /\ cells' = With(cells, SimdName(Config(cells[p[1]])), Simd(cells[p[1]], cells[p[2]]))
            /\ gone' = gone \cup {p[1], p[2]}
      BY <2>1, <2>3, Zenon DEF PairDsps, Stop
    <3>2. p = <<p[1], p[2]>>
      BY DEF Pairs
    <3>3. p[1] \in DspHalves /\ p[2] \in DspHalves
      BY <2>1, <3>2, PairFacts
    <3> DEFINE n == SimdName(Config(cells[p[1]]))
               c == Simd(cells[p[1]], cells[p[2]])
    <3>4. cells' = With(cells, n, c) /\ n \notin DOMAIN cells
      BY <3>1
    <3>5. c.type \in {"QL_DSP2", "QL_DSP3"}
      BY SimdType
    <3> HIDE DEF n, c
    <3>6. DOMAIN cells' = DOMAIN cells \cup {n} /\ cells'[n] = c
          /\ \A x \in DOMAIN cells \ {n} : cells'[x] = cells[x]
      BY <3>4 DEF With
    <3>7. gone' \subseteq DspHalves /\ DspHalves' = DspHalves /\ Old' = Old
      BY <2>1, <3>1, <3>3 DEF SimdInv, DspHalves, Old, IsDspHalf
    <3>8. Old \subseteq DOMAIN cells' /\ \A x \in Old : cells'[x] = start.cells[x]
      BY <2>1, <3>4, <3>6 DEF SimdInv
    <3>9. \A x \in DOMAIN cells' \ Old : cells'[x].type \in {"QL_DSP2", "QL_DSP3"}
      BY <2>1, <3>4, <3>5, <3>6 DEF SimdInv
    <3> QED BY <2>1, <3>7, <3>8, <3>9 DEF SimdInv
  <2> QED BY <2>2, <2>3
<1>2. CASE UNCHANGED vars
  BY <1>2 DEF SimdInv, vars, packVars, Old, DspHalves, IsDspHalf
<1>3. ~(SimdEnd \/ MapFinal \/ RegsType \/ RegsEnd \/ BramMerge \/ BramEnd \/ BramSplit \/ SplitEnd)
  BY DEF SimdEnd, MapFinal, RegsType, RegsEnd, BramMerge, BramEnd, BramSplit, SplitEnd, Goto, Stay
<1>4. ~(IoClassify \/ IoPromote \/ IoEnd)
  BY DEF IoClassify, IoPromote, IoEnd, Goto, Stay
<1> QED BY <1>1, <1>2, <1>3, <1>4 DEF Next

(* Under OneGroup a pair is of the group that has been begun.                *)
LEMMA OfOneGroup ==
  ASSUME SimdInv, NumberInv, OneGroup, start \in Designs, step = "simd",
         NEW x, NEW y, <<x, y>> \in Pairs(Alike)
  PROVE  /\ Cardinality(Partners(x)) # 1 /\ Cardinality(Partners(y)) # 1
         /\ start.cells[x].mode = start.cells[y].mode
         /\ \A z \in gone : z \in Partners(x) /\ z \in Partners(y) /\ x \in Partners(z) /\ y \in Partners(z)
         /\ {z \in gone : Config(cells[z]) = Config(cells[x])} = gone
<1>1. /\ x \in DspHalves \ gone /\ y \in DspHalves \ gone /\ x # y
      /\ cells[x] = start.cells[x] /\ cells[y] = start.cells[y]
      /\ Config(cells[x]) = Config(cells[y])
      /\ y \in Partners(x) /\ x \in Partners(y) /\ x \in Partners(x) /\ y \in Partners(y)
  BY PairFacts
<1>2. \A z : IsFiniteSet(Partners(z))
  BY StartFacts DEF Partners, Old
<1>3. ASSUME NEW z, x \in Partners(z), y \in Partners(z), Cardinality(Partners(z)) = 1 PROVE FALSE
  <2>1. PICK w : Partners(z) = {w}
    BY <1>2, <1>3, FS_Singleton
  <2> QED BY <1>1, <1>3, <2>1
<1>4. Cardinality(Partners(x)) # 1 /\ Cardinality(Partners(y)) # 1
  BY <1>1, <1>3
<1>5. start.cells[x].mode = start.cells[y].mode
  BY <1>1 DEF OneGroup, DspHalves, Old
<1>6. ASSUME NEW z \in gone
      PROVE  z \in Partners(x) /\ z \in Partners(y) /\ x \in Partners(z) /\ y \in Partners(z)
             /\ Config(cells[z]) = Config(cells[x])
  <2>1. z \in DspHalves /\ cells[z] = start.cells[z] /\ Cardinality(Partners(z)) # 1
    BY <1>6 DEF SimdInv, NumberInv, DspHalves
  <2>2. x \in Partners(z)
    BY <1>1, <1>4, <2>1 DEF OneGroup, DspHalves, Old
  <2> QED BY <1>1, <2>1, <2>2 DEF Partners, DspHalves, Old, IsDspHalf
<1> QED BY <1>4, <1>5, <1>6

LEMMA NumberStep ==
  ASSUME SimdInv, NumberInv, OneGroup, NoneNumbered, start \in Designs, SimdPair
  PROVE  NumberInv'
<1>1. step = "simd" /\ start' = start /\ step' = step /\ PairDsps
  BY DEF SimdPair, Stay
<1>2. PICK p \in Pairs(Alike) :
        LET a == cells[p[1]]
            b == cells[p[2]]
            name == SimdName(Config(a))
        IN  IF name \in DOMAIN cells THEN Stop("name taken")
            ELSE IF a.mode # b.mode THEN Stop("modes differ")
            ELSE /\ cells' = With(cells, name, Simd(a, b))
                 /\ gone' = gone \cup {p[1], p[2]}
                 /\ UNCHANGED verdict
  BY <1>1, Zenon DEF PairDsps
<1> DEFINE x == p[1]
           y == p[2]
           name == SimdName(Config(cells[x]))
           c == Simd(cells[x], cells[y])
<1>3. <<x, y>> \in Pairs(Alike)
  BY <1>2 DEF Pairs
<1>4. /\ x \in DspHalves \ gone /\ y \in DspHalves \ gone /\ x # y
      /\ cells[x] = start.cells[x] /\ cells[y] = start.cells[y]
      /\ y \in Partners(x) /\ x \in Partners(y) /\ x \in Partners(x) /\ y \in Partners(y)
  BY <1>1, <1>3, PairFacts
<1>5. /\ Cardinality(Partners(x)) # 1 /\ Cardinality(Partners(y)) # 1
      /\ start.cells[x].mode = start.cells[y].mode
      /\ \A z \in gone : z \in Partners(x) /\ z \in Partners(y) /\ x \in Partners(z) /\ y \in Partners(z)
      /\ {z \in gone : Config(cells[z]) = Config(cells[x])} = gone
  BY <1>1, <1>3, OfOneGroup
<1>6. PICK n \in Nat : Cardinality(gone) = 2 * n /\ DOMAIN cells = Old \cup Used(n)
  BY <1>1 DEF NumberInv
<1>7. name = SimdNumbered(n)
  <2>1. name = SimdNumbered(Cardinality(gone) \div 2)
    BY <1>5, Zenon DEF SimdName
  <2>2. (2 * n) \div 2 = n
    BY <1>6
  <2> QED BY <1>6, <2>1, <2>2
<1>8. IsFiniteSet(gone) /\ n <= Cardinality(Old) /\ Cardinality(Old) \in Nat
  <2>1. gone \subseteq Old
    BY <1>1 DEF SimdInv, DspHalves
  <2>2. IsFiniteSet(gone) /\ 2 * n <= Cardinality(Old) /\ Cardinality(Old) \in Nat
    BY <1>6, <2>1, StartFacts
  <2> QED BY <1>6, <2>2
<1>9. name \notin DOMAIN cells
  <2>1. SimdNumbered(n) \notin Old
    BY <1>6, <1>8 DEF NoneNumbered, Old
  <2>2. \A i \in 0 .. Cardinality(Old) :
          i # n => SimdNumbered(i) # SimdNumbered(n)
    <3>1. NamesApart(start.cells)
      BY StartFacts
    <3>2. n \in 0 .. Cardinality(Old)
      BY <1>6, <1>8
    <3> QED BY <3>1, <3>2 DEF NamesApart, Old
  <2>3. \A i \in Nat : i < n => i \in 0 .. Cardinality(Old) /\ i # n
    BY <1>6, <1>8
  <2>4. SimdNumbered(n) \notin Used(n)
    BY <2>2, <2>3 DEF Used
  <2> QED BY <1>6, <1>7, <2>1, <2>4
<1>10. cells' = With(cells, name, c) /\ gone' = gone \cup {x, y} /\ verdict' = verdict
  BY <1>2, <1>4, <1>5, <1>9
<1> HIDE DEF c
<1>11. DOMAIN cells' = Old \cup Used(n + 1)
  <2>1. DOMAIN cells' = DOMAIN cells \cup {SimdNumbered(n)}
    BY <1>7, <1>10 DEF With
  <2>2. Used(n + 1) = Used(n) \cup {SimdNumbered(n)}
    <3>1. \A i \in Nat : i < n + 1 <=> i < n \/ i = n
      BY <1>6
    <3> QED BY <1>6, <3>1 DEF Used
  <2> QED BY <1>6, <2>1, <2>2
<1> HIDE DEF x, y
<1>12. Cardinality(gone') = 2 * (n + 1)
  <2>1. Cardinality(gone \cup {x}) = 2 * n + 1 /\ IsFiniteSet(gone \cup {x})
    BY <1>4, <1>6, <1>8, FS_AddElement
  <2>2. y \notin gone \cup {x}
    BY <1>4
  <2>3. Cardinality((gone \cup {x}) \cup {y}) = 2 * n + 1 + 1
    BY <2>1, <2>2, FS_AddElement
  <2>4. gone' = (gone \cup {x}) \cup {y}
    BY <1>10
  <2> QED BY <1>6, <2>3, <2>4
<1>13. Old' = Old /\ \A z : Partners(z)' = Partners(z)
  BY <1>1 DEF Old, Partners, IsDspHalf
<1>14. \A z \in gone' : Cardinality(Partners(z)) # 1
  BY <1>1, <1>5, <1>10 DEF NumberInv
<1>15. \A z, w \in gone' : w \in Partners(z)
  BY <1>1, <1>4, <1>5, <1>10 DEF NumberInv
<1>16. verdict' = "ok"
  BY <1>1, <1>10 DEF NumberInv
<1>17. \E m \in Nat : Cardinality(gone') = 2 * m /\ DOMAIN cells' = Old \cup Used(m)
  BY <1>6, <1>11, <1>12
<1>18. Used(0)' = Used(0) /\ \A m : Used(m)' = Used(m)
  BY DEF Used
<1> QED BY <1>13, <1>14, <1>15, <1>16, <1>17, <1>18 DEF NumberInv

(* What holds of every state that a run of one group reaches.                *)
OneGroupInv ==
    /\ start \in Designs /\ SimdInv
    /\ start.step = "simd" /\ OneGroup /\ NoneNumbered => NumberInv /\ NoPairs

LEMMA OneGroupInit == Init => OneGroupInv
<1> SUFFICES ASSUME Init PROVE OneGroupInv
  OBVIOUS
<1>1. start \in Designs /\ step = start.step /\ cells = start.cells /\ gone = {} /\ verdict = "ok"
  BY DEF Init
<1>2. SimdInv
  BY <1>1 DEF SimdInv, Old
<1>3. NumberInv
  <2>1. Cardinality(gone) = 2 * 0
    BY <1>1, FS_EmptySet
  <2>2. Used(0) = {}
    BY DEF Used
  <2>3. \E n \in Nat : Cardinality(gone) = 2 * n /\ DOMAIN cells = Old \cup Used(n)
    BY <1>1, <2>1, <2>2 DEF Old
  <2> QED BY <1>1, <2>3 DEF NumberInv
<1>4. start.step = "simd" => NoPairs
  BY <1>1 DEF NoPairs
<1> QED BY <1>1, <1>2, <1>3, <1>4 DEF OneGroupInv

LEMMA TypeNameFits ==
  ASSUME NEW c, c.type \in {"QL_DSP2", "QL_DSP3"}
  PROVE  /\ TypeName(c) \notin {"QL_DSP2", "QL_DSP3", DspPorts, DspParams}
         /\ TypeName(c) \notin {SdpMerge, TdpMerge, SdpSplit, TdpSplit}
<1>1. PICK t \in {"QL_DSP2", "QL_DSP3"}, m \in Modes, i \in BOOLEAN, o \in BOOLEAN :
        TypeName(c) = BlockType(t, m, i, o)
  <2>1. RegIn(c) \in BOOLEAN /\ RegOut(c) \in BOOLEAN
    BY DEF RegIn, RegOut
  <2>2. \A f, g \in BOOLEAN : (IF ~f THEN "MULT" ELSE IF g THEN "MULTACC" ELSE "MULTADD") \in Modes
    BY DEF Modes
  <2>3. Sums(c) \in BOOLEAN /\ HaveMacc(c) \in BOOLEAN
    BY DEF Sums, HaveMacc
  <2> QED BY <2>1, <2>2, <2>3, Zenon DEF TypeName
<1>2. BlockType(t, m, i, o)
        \notin {"QL_DSP2", "QL_DSP3", DspPorts, DspParams, SdpMerge, TdpMerge, SdpSplit, TdpSplit}
  BY BlockTypeAssumption
<1> QED BY <1>1, <1>2

(* The steps after ql_dsp_simd make no DSP half.                             *)
LEMMA NoHalfStep ==
  ASSUME [Next]_vars, NoPairs, step \notin {"simd"}
  PROVE  NoPairs'
<1> USE DEF NoPairs
<1> DEFINE NoHalf == \A x \in DOMAIN cells : cells[x].type \notin {DspPorts, DspParams}
<1>1. CASE UNCHANGED <<cells, gone, step>>
  BY <1>1 DEF Pairs, Alike, SimdHalf
<1>2. ASSUME MapFinal PROVE NoPairs'
  <2>1. step' = "regs" /\ DOMAIN cells' = DOMAIN cells
    BY <1>2 DEF MapFinal, Goto
  <2>2. \A x \in DOMAIN cells : cells[x].type \in {DspPorts, DspParams} =>
          Single(cells[x]).type \notin {DspPorts, DspParams}
    BY DEF DspPorts, DspParams, Single
  <2>3. \A x \in DOMAIN cells : cells'[x].type \notin {DspPorts, DspParams}
    BY <1>2, <2>2 DEF MapFinal
  <2> QED BY <2>1, <2>3
<1>3. ASSUME RegsType PROVE NoPairs'
  <2>1. step = "regs" /\ step' = "regs" /\ NoHalf
    BY <1>3 DEF RegsType, Stay
  <2>2. PICK x \in Untyped : cells' = [cells EXCEPT ![x] = Typed(cells[x])]
    BY <1>3 DEF RegsType, TypeDsp
  <2>3. Typed(cells[x]).type \notin {DspPorts, DspParams}
    <3>1. Typed(cells[x]).type = TypeName(cells[x])
      BY DEF Typed
    <3>2. cells[x].type \in {"QL_DSP2", "QL_DSP3"}
      BY DEF Untyped
    <3> QED BY <3>1, <3>2, TypeNameFits
  <2>4. \A z \in DOMAIN cells' : cells'[z].type \notin {DspPorts, DspParams}
    BY <2>1, <2>2, <2>3
  <2> QED BY <2>1, <2>4
<1>4. ASSUME BramMerge PROVE NoPairs'
  <2>1. step = "brams" /\ step' = "brams" /\ NoHalf
    BY <1>4 DEF BramMerge, Stay
  <2>2. CASE cells' = cells
    BY <2>1, <2>2
  <2>3. CASE cells' # cells
    <3>1. PICK x, y \in DOMAIN cells :
            cells' = With([z \in DOMAIN cells \ {x, y} |-> cells[z]],
                          MergedName(x, y), Merged(cells[x], cells[y]))
      BY <1>4, <2>3 DEF BramMerge, MergeBrams, Stop, Mergeable
    <3>2. Merged(cells[x], cells[y]).type \notin {DspPorts, DspParams}
      BY DEF Merged, SdpMerged, TdpMerged, DspPorts, DspParams
    <3>3. \A z \in DOMAIN cells' : \/ cells'[z] = Merged(cells[x], cells[y])
                                   \/ (z \in DOMAIN cells /\ cells'[z] = cells[z])
      BY <3>1 DEF With
    <3> QED BY <2>1, <3>2, <3>3
  <2> QED BY <2>2, <2>3
<1>5. RegsEnd \/ BramEnd \/ IoClassify \/ IoPromote \/ IoEnd =>
        /\ UNCHANGED <<cells, gone>> /\ step # "final" /\ step' # "final"
        /\ step' \in {"brams", "ioff", "promote", "done"} \/ step' = step
  BY DEF RegsEnd, BramEnd, IoClassify, IoPromote, IoEnd, Goto, Stay, packVars
<1>6. RegsEnd \/ BramEnd \/ IoClassify \/ IoPromote \/ IoEnd => NoPairs'
  BY <1>5
<1>7. ~(SimdPair \/ SimdEnd \/ BramSplit \/ SplitEnd)
  BY DEF SimdPair, SimdEnd, BramSplit, SplitEnd, Goto, Stay
<1> QED BY <1>1, <1>2, <1>3, <1>4, <1>6, <1>7 DEF Next, vars, packVars

LEMMA OneGroupStep == OneGroupInv /\ [Next]_vars => OneGroupInv'
<1> SUFFICES ASSUME OneGroupInv, [Next]_vars PROVE OneGroupInv'
  OBVIOUS
<1>1. start' = start
  BY DEF Next, vars, SimdPair, SimdEnd, MapFinal, RegsType, RegsEnd, BramMerge, BramEnd,
         BramSplit, SplitEnd, IoClassify, IoPromote, IoEnd, Stay
<1>2. start' \in Designs /\ SimdInv'
  BY <1>1, SimdStep DEF OneGroupInv
<1>3. OneGroup' = OneGroup /\ NoneNumbered' = NoneNumbered
  BY <1>1 DEF OneGroup, NoneNumbered, Partners, IsDspHalf
<1> SUFFICES ASSUME start.step = "simd", OneGroup, NoneNumbered, NumberInv, NoPairs,
                    SimdInv, start \in Designs
             PROVE  NumberInv' /\ NoPairs'
  BY <1>1, <1>2, <1>3 DEF OneGroupInv
<1>4. ASSUME SimdPair PROVE NumberInv' /\ NoPairs'
  BY <1>4, NumberStep DEF SimdPair, Stay, NoPairs
<1>5. ASSUME SimdEnd PROVE NumberInv' /\ NoPairs'
  <2>1. step' = "final" /\ Pairs(Alike) = {} /\ RemoveHalves
    BY <1>5 DEF SimdEnd, Goto, SimdDone
  <2>2. Pairs(Alike)' = {}
    <3>1. \A x \in DOMAIN cells' \ gone' : x \in DOMAIN cells \ gone /\ cells'[x] = cells[x]
      BY <2>1 DEF RemoveHalves
    <3>2. ASSUME NEW p \in Pairs(Alike)' PROVE FALSE
      <4>1. /\ p \in (DOMAIN cells' \ gone') \X (DOMAIN cells' \ gone') /\ p[1] # p[2]
            /\ Alike(p[1], p[2])'
        BY <3>2 DEF Pairs
      <4>2. Alike(p[1], p[2])
        BY <3>1, <4>1 DEF Alike, SimdHalf
      <4>3. p \in (DOMAIN cells \ gone) \X (DOMAIN cells \ gone)
        BY <3>1, <4>1
      <4> QED BY <2>1, <4>1, <4>2, <4>3 DEF Pairs
    <3> QED BY <3>2
  <2> QED BY <2>1, <2>2 DEF NumberInv, NoPairs
<1>6. CASE UNCHANGED vars
  <2>1. NoPairs'
    BY <1>6 DEF NoPairs, vars, packVars, Pairs, Alike, SimdHalf
  <2>2. NumberInv'
    BY <1>6 DEF NumberInv, vars, packVars, Old, Used, Partners, IsDspHalf
  <2> QED BY <2>1, <2>2
<1>7. CASE ~(SimdPair \/ SimdEnd \/ UNCHANGED vars)
  <2>1. step # "simd" /\ step' # "simd"
    BY <1>7 DEF Next, MapFinal, RegsType, RegsEnd, BramMerge, BramEnd,
           BramSplit, SplitEnd, IoClassify, IoPromote, IoEnd, Stay, Goto
  <2> QED BY <2>1, NoHalfStep DEF NumberInv
<1> QED BY <1>4, <1>5, <1>6, <1>7

(* ql_dsp_simd leaves no pair of one configuration, and does not stop while  *)
(* there is one, whatever the number of halves (ql-dsp-simd.cc:117-192).     *)
THEOREM PairsPackedIfRegularHolds == Spec => []PairsPackedIfRegular
<1>1. Init => OneGroupInv
  BY OneGroupInit
<1>2. OneGroupInv /\ [Next]_vars => OneGroupInv'
  BY OneGroupStep
<1>3. OneGroupInv => PairsPackedIfRegular
  <2> SUFFICES ASSUME OneGroupInv, start.step = "simd", OneGroup, NoneNumbered,
                      step # "simd" \/ verdict # "ok"
               PROVE  Pairs(Alike) = {}
    BY DEF PairsPackedIfRegular, PairsPacked
  <2>1. NoPairs /\ step # "simd"
    BY DEF OneGroupInv, NumberInv
  <2>2. CASE step = "final"
    BY <2>1, <2>2 DEF NoPairs
  <2>3. CASE step # "final"
    BY <2>1, <2>3 DEF NoPairs, Pairs, Alike, SimdHalf
  <2> QED BY <2>2, <2>3
<1> QED BY <1>1, <1>2, <1>3, PTL DEF Spec

------------------------------------------------------------------------------
(* What cells show at their nets.                                            *)

(* The nets a block drives, with what they get, and those of a half.         *)
Shown(b) == {d \in Driven(b) : d[1] # Open}
Nets(c) == Shown(AsBlock(c))
DlyOf(clk, b) == [clk |-> Root[clk], b |-> b]

LEMMA AllDrivenIs ==
  ASSUME NEW cs
  PROVE  AllDriven(cs) = UNION {Nets(cs[x]) : x \in DOMAIN cs}
  BY DEF AllDriven, Nets, Shown

(* What a DSP half or block drives.                                          *)
LEMMA DspShown ==
  ASSUME NEW b, IsDsp(b), DOMAIN b.out = {"z", "dly_b"}
  PROVE  \A d : d \in Shown(b) <=>
           /\ d[1] # Open
           /\ \/ \E h \in DOMAIN b.out.z : d = <<b.out.z[h], SumOf(b, h)>>
              \/ \E h \in DOMAIN b.out.dly_b :
                   d = <<b.out.dly_b[h], DlyOf(b.conf.clk, b.in.b[h])>>
<1>1. \A h : Computes(b, h, "z") = SumOf(b, h)
  BY DEF Computes
<1>2. \A h : Computes(b, h, "dly_b") = DlyOf(b.conf.clk, b.in.b[h])
  BY DEF Computes, DlyOf
<1>3. Driven(b) = {<<b.out.z[h], Computes(b, h, "z")>> : h \in DOMAIN b.out.z}
                    \cup {<<b.out.dly_b[h], Computes(b, h, "dly_b")>> : h \in DOMAIN b.out.dly_b}
  BY DEF Driven
<1> QED BY <1>1, <1>2, <1>3 DEF Shown

RamNet(b, p, h) ==
    <<b.out[p][h], [port |-> p, mode |-> b.mode, own |-> b.own[h],
                    in |-> [q \in DOMAIN b.in |-> b.in[q][h]]]>>

LEMMA RamShown ==
  ASSUME NEW b, ~IsDsp(b)
  PROVE  \A d : d \in Shown(b) <=>
           d[1] # Open /\ \E p \in DOMAIN b.out : \E h \in DOMAIN b.out[p] : d = RamNet(b, p, h)
<1>1. \A p, h : <<b.out[p][h], Computes(b, h, p)>> = RamNet(b, p, h)
  <2>1. \A p, h : Computes(b, h, p) = [port |-> p, mode |-> b.mode, own |-> b.own[h],
                                       in |-> [q \in DOMAIN b.in |-> b.in[q][h]]]
    BY Zenon DEF Computes
  <2> QED BY <2>1, Zenon DEF RamNet
<1>2. \A d : d \in Driven(b) <=>
           \E p \in DOMAIN b.out : \E h \in DOMAIN b.out[p] : d = <<b.out[p][h], Computes(b, h, p)>>
  BY DEF Driven
<1>3. \A d : d \in Driven(b) <=>
           \E p \in DOMAIN b.out : \E h \in DOMAIN b.out[p] : d = RamNet(b, p, h)
  BY <1>1, <1>2
<1> QED BY <1>3, Zenon DEF Shown

(* What decides what the output of a DSP is.                                 *)
LEMMA SameReads ==
  ASSUME NEW c, NEW d, c.conf.feedback = d.conf.feedback,
         \A s \in {"output_select", "register_inputs"} : SettingOf(c, s) = SettingOf(d, s)
  PROVE  /\ ReadsSum(c) = ReadsSum(d) /\ ReadsAcc(c) = ReadsAcc(d)
         /\ ReadsFir(c) = ReadsFir(d) /\ Clocked(c) = Clocked(d)
<1>1. \A v : May(c, v) = May(d, v)
  BY DEF May
<1>2. SettingOf(c, "output_select") = SettingOf(d, "output_select")
      /\ SettingOf(c, "register_inputs") = SettingOf(d, "register_inputs")
  OBVIOUS
<1>3. ReadsSum(c) = ReadsSum(d)
  BY <1>1, <1>2 DEF ReadsSum
<1>4. ReadsAcc(c) = ReadsAcc(d)
  BY <1>1, <1>2, <1>3 DEF ReadsAcc
<1> QED BY <1>1, <1>2, <1>3, <1>4 DEF ReadsFir, Clocked

(* Half h of c and half k of d get the same where their output reads it.     *)
SameInputs(c, h, d, k) ==
    /\ c.conf.feedback = d.conf.feedback
    /\ \A s \in {"output_select", "register_inputs"} : SettingOf(c, s) = SettingOf(d, s)
    /\ ReadsSum(c) => \A s \in {"subtract", "post"} : SettingOf(c, s) = SettingOf(d, s)
    /\ ReadsAcc(c) => SettingOf(c, "load_acc") = SettingOf(d, "load_acc")
    /\ Clocked(c) => Root[c.conf.clk] = Root[d.conf.clk]
    /\ c.own[h] = d.own[k] /\ c.in.a[h] = d.in.a[k] /\ c.in.b[h] = d.in.b[k]
    /\ ReadsFir(c) => c.in.acc_fir[h] = d.in.acc_fir[k]

LEMMA SameSum ==
  ASSUME NEW c, NEW d, NEW h, NEW k, SameInputs(c, h, d, k)
  PROVE  SumOf(c, h) = SumOf(d, k)
<1>1. /\ ReadsSum(c) = ReadsSum(d) /\ ReadsAcc(c) = ReadsAcc(d)
      /\ ReadsFir(c) = ReadsFir(d) /\ Clocked(c) = Clocked(d)
  BY SameReads DEF SameInputs
<1> DEFINE S == (IF ReadsSum(c) THEN {"subtract", "post"} ELSE {})
                  \cup (IF ReadsAcc(c) THEN {"load_acc"} ELSE {})
           P == {"a", "b"} \cup (IF ReadsFir(c) THEN {"acc_fir"} ELSE {})
<1>2. [s \in S |-> SettingOf(c, s)] = [s \in S |-> SettingOf(d, s)]
  <2>1. \A s \in S : SettingOf(c, s) = SettingOf(d, s)
    BY DEF SameInputs
  <2> QED BY <2>1
<1>3. [p \in P |-> c.in[p][h]] = [p \in P |-> d.in[p][k]]
  <2>1. \A p \in P : c.in[p][h] = d.in[p][k]
    BY DEF SameInputs
  <2> QED BY <2>1
<1>4. (IF Clocked(c) THEN Root[c.conf.clk] ELSE Nothing)
        = (IF Clocked(d) THEN Root[d.conf.clk] ELSE Nothing)
  BY <1>1 DEF SameInputs
<1>5. SumOf(d, k) =
        [sel |-> SettingOf(d, "output_select"), may |-> d.conf.feedback.may, own |-> d.own[k],
         reg |-> SettingOf(d, "register_inputs"),
         clk |-> IF Clocked(d) THEN Root[d.conf.clk] ELSE Nothing,
         ctl |-> [s \in S |-> SettingOf(d, s)], in |-> [p \in P |-> d.in[p][k]]]
  BY <1>1 DEF SumOf
<1>6. SumOf(c, h) =
        [sel |-> SettingOf(c, "output_select"), may |-> c.conf.feedback.may, own |-> c.own[h],
         reg |-> SettingOf(c, "register_inputs"),
         clk |-> IF Clocked(c) THEN Root[c.conf.clk] ELSE Nothing,
         ctl |-> [s \in S |-> SettingOf(c, s)], in |-> [p \in P |-> c.in[p][h]]]
  BY DEF SumOf
<1>7. /\ SettingOf(c, "output_select") = SettingOf(d, "output_select")
      /\ SettingOf(c, "register_inputs") = SettingOf(d, "register_inputs")
      /\ c.conf.feedback = d.conf.feedback /\ c.own[h] = d.own[k]
  BY DEF SameInputs
<1> HIDE DEF S, P
<1> QED BY <1>2, <1>3, <1>4, <1>5, <1>6, <1>7

(* A half as a block of one.                                                 *)
LEMMA HalfBlock ==
  ASSUME NEW c, IsCell(c), IsHalf(c)
  PROVE  AsBlock(c) = [type |-> c.type, conf |-> c.conf, mode |-> c.mode, own |-> <<c.own>>,
                       in |-> [p \in DOMAIN c.in |-> <<c.in[p]>>],
                       out |-> [p \in DOMAIN c.out |-> <<c.out[p]>>],
                       keep |-> c.keep, split |-> c.split, inferred |-> c.inferred]
<1> DEFINE i == [p \in DOMAIN c.in |-> <<c.in[p]>>]
           o == [p \in DOMAIN c.out |-> <<c.out[p]>>]
<1>1. PICK f : f = [c EXCEPT !.own = <<c.own>>]
  OBVIOUS
<1>2. f = [type |-> c.type, conf |-> c.conf, mode |-> c.mode, own |-> <<c.own>>, in |-> c.in,
           out |-> c.out, keep |-> c.keep, split |-> c.split, inferred |-> c.inferred]
  BY <1>1 DEF IsCell
<1>3. PICK g : g = [f EXCEPT !.in = i]
  OBVIOUS
<1>4. g = [type |-> c.type, conf |-> c.conf, mode |-> c.mode, own |-> <<c.own>>, in |-> i,
           out |-> c.out, keep |-> c.keep, split |-> c.split, inferred |-> c.inferred]
  BY <1>2, <1>3
<1>5. [g EXCEPT !.out = o]
        = [type |-> c.type, conf |-> c.conf, mode |-> c.mode, own |-> <<c.own>>, in |-> i,
           out |-> o, keep |-> c.keep, split |-> c.split, inferred |-> c.inferred]
  BY <1>4
<1>6. AsBlock(c) = [[[c EXCEPT !.own = <<c.own>>] EXCEPT !.in = i] EXCEPT !.out = o]
  <2>1. f.in = c.in /\ g.out = c.out
    BY <1>2, <1>4
  <2> QED BY <1>1, <1>3, <2>1 DEF AsBlock
<1> QED BY <1>1, <1>3, <1>5, <1>6

IsDspHalfCell(c) == c.type \in {DspPorts, DspParams} /\ IsCell(c) /\ IsDspCell(c)

LEMMA HalfShown ==
  ASSUME NEW c, IsDspHalfCell(c)
  PROVE  /\ IsDsp(AsBlock(c)) /\ DOMAIN AsBlock(c).out = {"z", "dly_b"}
         /\ \A d : d \in Nets(c) <=>
              /\ d[1] # Open
              /\ \/ d = <<c.out.z, SumOf(AsBlock(c), 1)>>
                 \/ d = <<c.out.dly_b, DlyOf(c.conf.clk, c.in.b)>>
<1> DEFINE b == AsBlock(c)
<1>1. b = [type |-> c.type, conf |-> c.conf, mode |-> c.mode, own |-> <<c.own>>,
           in |-> [p \in DOMAIN c.in |-> <<c.in[p]>>],
           out |-> [p \in DOMAIN c.out |-> <<c.out[p]>>],
           keep |-> c.keep, split |-> c.split, inferred |-> c.inferred]
  BY HalfBlock DEF IsDspHalfCell, IsHalf
<1>2. /\ b.conf = c.conf /\ DOMAIN b.out = {"z", "dly_b"} /\ b.out.z = <<c.out.z>>
      /\ b.out.dly_b = <<c.out.dly_b>> /\ b.in.b = <<c.in.b>>
  BY <1>1 DEF IsDspHalfCell, IsDspCell
<1> HIDE DEF b
<1>3. IsDsp(b)
  BY <1>2 DEF IsDsp, IsDspHalfCell, IsDspCell
<1>4. \A d : d \in Shown(b) <=>
           /\ d[1] # Open
           /\ \/ \E h \in DOMAIN b.out.z : d = <<b.out.z[h], SumOf(b, h)>>
              \/ \E h \in DOMAIN b.out.dly_b :
                   d = <<b.out.dly_b[h], DlyOf(b.conf.clk, b.in.b[h])>>
  BY <1>2, <1>3, DspShown
<1>5. \A h : h \in DOMAIN b.out.z <=> h = 1
  BY <1>2
<1>6. \A h : h \in DOMAIN b.out.dly_b <=> h = 1
  BY <1>2
<1>7. b.out.z[1] = c.out.z /\ b.out.dly_b[1] = c.out.dly_b /\ b.in.b[1] = c.in.b
  BY <1>2
<1>8. \A d : d \in Shown(b) <=>
              /\ d[1] # Open
              /\ \/ d = <<c.out.z, SumOf(b, 1)>>
                 \/ d = <<c.out.dly_b, DlyOf(c.conf.clk, c.in.b)>>
  BY <1>2, <1>4, <1>5, <1>6, <1>7
<1> QED BY <1>2, <1>3, <1>8 DEF b, Nets

SameLinks(a, b) == \A p \in {"z", "dly_b"} : (a.out[p] = Open) = (b.out[p] = Open)

(* Two halves of one configuration show together what they showed.           *)
LEMMA SimdShown ==
  ASSUME NEW a, NEW b, IsDspHalfCell(a), IsDspHalfCell(b), Config(a) = Config(b),
         a.mode = b.mode, SameLinks(a, b), ReadsFir(a) => b.in.acc_fir = a.in.acc_fir
  PROVE  Nets(Simd(a, b)) = Nets(a) \cup Nets(b)
<1> DEFINE s == Simd(a, b)
           f == AsBlock(a)
           g == AsBlock(b)
<1>1. /\ s.type \in {"QL_DSP2", "QL_DSP3"} /\ s.mode = a.mode /\ s.own = <<a.own, b.own>>
      /\ s.conf = [a.conf EXCEPT !.clk = Root[a.conf.clk]]
      /\ s.in = [p \in DOMAIN a.in |-> IF p = "acc_fir" THEN AccFir(a.in[p], b.in[p])
                                       ELSE <<a.in[p], b.in[p]>>]
      /\ s.out = [p \in DOMAIN a.out |-> Connected(a.out[p], b.out[p])]
  BY DEF Simd
<1>2. DOMAIN a.in = {"a", "b", "acc_fir"} /\ DOMAIN a.out = {"z", "dly_b"}
      /\ a.conf.clk \in DOMAIN Root /\ {"clk", "feedback"} \subseteq DOMAIN a.conf
      /\ DOMAIN b.in = {"a", "b", "acc_fir"} /\ DOMAIN b.out = {"z", "dly_b"}
      /\ b.conf.clk \in DOMAIN Root /\ {"clk", "feedback"} \subseteq DOMAIN b.conf
  BY DEF IsDspHalfCell, IsDspCell
<1>3. /\ s.in.a = <<a.in.a, b.in.a>> /\ s.in.b = <<a.in.b, b.in.b>>
      /\ s.in.acc_fir = AccFir(a.in.acc_fir, b.in.acc_fir)
      /\ DOMAIN s.out = {"z", "dly_b"}
      /\ s.out.z = Connected(a.out.z, b.out.z)
      /\ s.out.dly_b = Connected(a.out.dly_b, b.out.dly_b)
  BY <1>1, <1>2
<1>4. /\ DOMAIN s.conf = DOMAIN a.conf /\ s.conf.clk = Root[a.conf.clk]
      /\ \A p \in DOMAIN a.conf \ {"clk"} : s.conf[p] = a.conf[p]
  BY <1>1, <1>2
<1>5. /\ Root[a.conf.clk] = Root[b.conf.clk] /\ DOMAIN b.conf = DOMAIN a.conf
      /\ \A p \in DOMAIN a.conf \ {"clk"} : b.conf[p] = a.conf[p]
  <2> DEFINE r(c) == [p \in DOMAIN c.conf \ {"clk"} |-> c.conf[p]]
  <2>1. Root[a.conf.clk] = Root[b.conf.clk] /\ r(a) = r(b)
    BY DEF Config
  <2>2. DOMAIN r(a) = DOMAIN a.conf \ {"clk"} /\ DOMAIN r(b) = DOMAIN b.conf \ {"clk"}
    OBVIOUS
  <2>3. \A p \in DOMAIN a.conf \ {"clk"} : r(a)[p] = a.conf[p]
    OBVIOUS
  <2>4. \A p \in DOMAIN b.conf \ {"clk"} : r(b)[p] = b.conf[p]
    OBVIOUS
  <2> HIDE DEF r
  <2> QED BY <1>2, <2>1, <2>2, <2>3, <2>4
<1>6. Root[s.conf.clk] = Root[a.conf.clk]
  BY <1>2, <1>4, RootAssumption
<1>7. f.conf = a.conf /\ f.mode = a.mode /\ f.own = <<a.own>>
      /\ f.in = [p \in DOMAIN a.in |-> <<a.in[p]>>]
  BY HalfBlock DEF IsDspHalfCell, IsHalf
<1>8. g.conf = b.conf /\ g.mode = b.mode /\ g.own = <<b.own>>
      /\ g.in = [p \in DOMAIN b.in |-> <<b.in[p]>>]
  BY HalfBlock DEF IsDspHalfCell, IsHalf
<1>9. AsBlock(s) = s /\ IsDsp(s)
  BY <1>1, <1>2, <1>4 DEF AsBlock, IsHalf, IsDsp, DspPorts, DspParams, SdpMerge, TdpMerge,
     SdpSplit, TdpSplit
<1> HIDE DEF s, f, g
<1>10. \A x : x # "clk" => SettingOf(s, x) = SettingOf(f, x) /\ SettingOf(s, x) = SettingOf(g, x)
  BY <1>1, <1>4, <1>5, <1>7, <1>8 DEF SettingOf
<1>11. s.conf.feedback = f.conf.feedback /\ s.conf.feedback = g.conf.feedback
  BY <1>2, <1>4, <1>5, <1>7, <1>8
<1>12. ReadsFir(s) = ReadsFir(a)
  <2>1. \A x : x # "clk" => SettingOf(s, x) = SettingOf(a, x)
    BY <1>1, <1>4 DEF SettingOf
  <2> QED BY <1>7, <1>11, <2>1, SameReads
<1>13. ReadsFir(s) => s.in.acc_fir = <<a.in.acc_fir, a.in.acc_fir>> /\ b.in.acc_fir = a.in.acc_fir
  BY <1>3, <1>12 DEF AccFir
<1>14. f.in.a = <<a.in.a>> /\ f.in.b = <<a.in.b>> /\ f.in.acc_fir = <<a.in.acc_fir>>
       /\ g.in.a = <<b.in.a>> /\ g.in.b = <<b.in.b>> /\ g.in.acc_fir = <<b.in.acc_fir>>
  BY <1>2, <1>7, <1>8
<1>15. SumOf(s, 1) = SumOf(f, 1)
  <2>1. s.own[1] = f.own[1] /\ s.in.a[1] = f.in.a[1] /\ s.in.b[1] = f.in.b[1]
        /\ (ReadsFir(s) => s.in.acc_fir[1] = f.in.acc_fir[1])
    <3>1. s.own[1] = a.own /\ s.in.a[1] = a.in.a /\ s.in.b[1] = a.in.b
      BY <1>1, <1>3
    <3>2. f.own[1] = a.own /\ f.in.a[1] = a.in.a /\ f.in.b[1] = a.in.b
          /\ f.in.acc_fir[1] = a.in.acc_fir
      BY <1>7, <1>14
    <3>3. ReadsFir(s) => s.in.acc_fir[1] = a.in.acc_fir
      BY <1>13
    <3> QED BY <3>1, <3>2, <3>3
  <2>2. Root[s.conf.clk] = Root[f.conf.clk]
    BY <1>6, <1>7
  <2>3. /\ \A x \in {"output_select", "register_inputs"} : SettingOf(s, x) = SettingOf(f, x)
        /\ \A x \in {"subtract", "post"} : SettingOf(s, x) = SettingOf(f, x)
        /\ SettingOf(s, "load_acc") = SettingOf(f, "load_acc")
    BY <1>10
  <2>4. SameInputs(s, 1, f, 1)
    BY <1>11, <2>1, <2>2, <2>3 DEF SameInputs
  <2> QED BY <2>4, SameSum
<1>16. SumOf(s, 2) = SumOf(g, 1)
  <2>1. s.own[2] = g.own[1] /\ s.in.a[2] = g.in.a[1] /\ s.in.b[2] = g.in.b[1]
        /\ (ReadsFir(s) => s.in.acc_fir[2] = g.in.acc_fir[1])
    <3>1. s.own[2] = b.own /\ s.in.a[2] = b.in.a /\ s.in.b[2] = b.in.b
      BY <1>1, <1>3
    <3>2. g.own[1] = b.own /\ g.in.a[1] = b.in.a /\ g.in.b[1] = b.in.b
          /\ g.in.acc_fir[1] = b.in.acc_fir
      BY <1>8, <1>14
    <3>3. ReadsFir(s) => s.in.acc_fir[2] = b.in.acc_fir
      BY <1>13
    <3> QED BY <3>1, <3>2, <3>3
  <2>2. Root[s.conf.clk] = Root[g.conf.clk]
    BY <1>5, <1>6, <1>8
  <2>3. /\ \A x \in {"output_select", "register_inputs"} : SettingOf(s, x) = SettingOf(g, x)
        /\ \A x \in {"subtract", "post"} : SettingOf(s, x) = SettingOf(g, x)
        /\ SettingOf(s, "load_acc") = SettingOf(g, "load_acc")
    BY <1>10
  <2>4. SameInputs(s, 2, g, 1)
    BY <1>11, <2>1, <2>2, <2>3 DEF SameInputs
  <2> QED BY <2>4, SameSum
<1>17. DlyOf(s.conf.clk, s.in.b[1]) = DlyOf(a.conf.clk, a.in.b)
       /\ DlyOf(s.conf.clk, s.in.b[2]) = DlyOf(b.conf.clk, b.in.b)
  BY <1>3, <1>5, <1>6 DEF DlyOf
<1>18. \A d : d \in Nets(s) <=>
           /\ d[1] # Open
           /\ \/ \E h \in DOMAIN s.out.z : d = <<s.out.z[h], SumOf(s, h)>>
              \/ \E h \in DOMAIN s.out.dly_b :
                   d = <<s.out.dly_b[h], DlyOf(s.conf.clk, s.in.b[h])>>
  <2>1. Nets(s) = Shown(s)
    BY <1>9 DEF Nets
  <2> QED BY <1>3, <1>9, <2>1, DspShown
<1>19. ASSUME NEW u, NEW v, (u = Open) = (v = Open)
       PROVE  Connected(u, v) = IF u = Open THEN <<>> ELSE <<u, v>>
  BY <1>19 DEF Connected
<1>20. s.out.z = (IF a.out.z = Open THEN <<>> ELSE <<a.out.z, b.out.z>>)
       /\ s.out.dly_b = (IF a.out.dly_b = Open THEN <<>> ELSE <<a.out.dly_b, b.out.dly_b>>)
  BY <1>3, <1>19 DEF SameLinks
<1>21. \A d : d[1] # Open =>
         ((\E h \in DOMAIN s.out.z : d = <<s.out.z[h], SumOf(s, h)>>)
          <=> (d = <<a.out.z, SumOf(f, 1)>> \/ d = <<b.out.z, SumOf(g, 1)>>))
  <2>1. CASE a.out.z = Open
    BY <1>20, <2>1 DEF SameLinks
  <2>2. CASE a.out.z # Open
    <3>1. \A h : h \in DOMAIN s.out.z <=> (h = 1 \/ h = 2)
      BY <1>20, <2>2
    <3>2. s.out.z[1] = a.out.z /\ s.out.z[2] = b.out.z
      BY <1>20, <2>2
    <3> QED BY <1>15, <1>16, <3>1, <3>2
  <2> QED BY <2>1, <2>2
<1>22. \A d : d[1] # Open =>
         ((\E h \in DOMAIN s.out.dly_b : d = <<s.out.dly_b[h], DlyOf(s.conf.clk, s.in.b[h])>>)
          <=> (d = <<a.out.dly_b, DlyOf(a.conf.clk, a.in.b)>>
               \/ d = <<b.out.dly_b, DlyOf(b.conf.clk, b.in.b)>>))
  <2>1. CASE a.out.dly_b = Open
    BY <1>20, <2>1 DEF SameLinks
  <2>2. CASE a.out.dly_b # Open
    <3>1. \A h : h \in DOMAIN s.out.dly_b <=> (h = 1 \/ h = 2)
      BY <1>20, <2>2
    <3>2. s.out.dly_b[1] = a.out.dly_b /\ s.out.dly_b[2] = b.out.dly_b
      BY <1>20, <2>2
    <3> QED BY <1>17, <3>1, <3>2
  <2> QED BY <2>1, <2>2
<1>23. /\ \A d : d \in Nets(a) <=>
              /\ d[1] # Open
              /\ d = <<a.out.z, SumOf(f, 1)>> \/ d = <<a.out.dly_b, DlyOf(a.conf.clk, a.in.b)>>
       /\ \A d : d \in Nets(b) <=>
              /\ d[1] # Open
              /\ d = <<b.out.z, SumOf(g, 1)>> \/ d = <<b.out.dly_b, DlyOf(b.conf.clk, b.in.b)>>
  BY HalfShown DEF f, g
<1>24. \A d : d \in Nets(s) <=> d \in Nets(a) \/ d \in Nets(b)
  <2> TAKE d
  <2> DEFINE Z == \E h \in DOMAIN s.out.z : d = <<s.out.z[h], SumOf(s, h)>>
             D == \E h \in DOMAIN s.out.dly_b :
                    d = <<s.out.dly_b[h], DlyOf(s.conf.clk, s.in.b[h])>>
             ZA == d = <<a.out.z, SumOf(f, 1)>>
             ZB == d = <<b.out.z, SumOf(g, 1)>>
             DA == d = <<a.out.dly_b, DlyOf(a.conf.clk, a.in.b)>>
             DB == d = <<b.out.dly_b, DlyOf(b.conf.clk, b.in.b)>>
  <2>1. d \in Nets(s) <=> d[1] # Open /\ (Z \/ D)
    BY <1>18
  <2>2. d[1] # Open => (Z <=> (ZA \/ ZB))
    BY <1>21
  <2>3. d[1] # Open => (D <=> (DA \/ DB))
    BY <1>22
  <2>4. d \in Nets(a) <=> d[1] # Open /\ (ZA \/ DA)
    BY <1>23
  <2>5. d \in Nets(b) <=> d[1] # Open /\ (ZB \/ DB)
    BY <1>23
  <2> HIDE DEF Z, D, ZA, ZB, DA, DB
  <2> QED BY <2>1, <2>2, <2>3, <2>4, <2>5
<1> QED BY <1>24 DEF s

(* A half that found no partner, alone in a block.                           *)
LEMMA SingleIs ==
  ASSUME NEW c, IsDspHalfCell(c)
  PROVE  Single(c) = [type |-> IF UsesParams(c) THEN "QL_DSP3" ELSE "QL_DSP2",
                      conf |-> c.conf, mode |-> c.mode, own |-> <<c.own>>,
                      in |-> [p \in DOMAIN c.in |-> <<c.in[p]>>],
                      out |-> [p \in DOMAIN c.out |-> IF p = "dly_b" THEN <<>> ELSE <<c.out[p]>>],
                      keep |-> c.keep, split |-> c.split, inferred |-> c.inferred]
<1> DEFINE t == IF UsesParams(c) THEN "QL_DSP3" ELSE "QL_DSP2"
           i == [p \in DOMAIN c.in |-> <<c.in[p]>>]
           o == [p \in DOMAIN c.out |-> IF p = "dly_b" THEN <<>> ELSE <<c.out[p]>>]
<1>1. PICK e : e = [c EXCEPT !.type = t]
  OBVIOUS
<1>2. e = [type |-> t, conf |-> c.conf, mode |-> c.mode, own |-> c.own, in |-> c.in,
           out |-> c.out, keep |-> c.keep, split |-> c.split, inferred |-> c.inferred]
  BY <1>1 DEF IsDspHalfCell, IsCell
<1>3. PICK f : f = [e EXCEPT !.own = <<c.own>>]
  OBVIOUS
<1>4. f = [type |-> t, conf |-> c.conf, mode |-> c.mode, own |-> <<c.own>>, in |-> c.in,
           out |-> c.out, keep |-> c.keep, split |-> c.split, inferred |-> c.inferred]
  BY <1>2, <1>3
<1>5. PICK g : g = [f EXCEPT !.in = i]
  OBVIOUS
<1>6. g = [type |-> t, conf |-> c.conf, mode |-> c.mode, own |-> <<c.own>>, in |-> i,
           out |-> c.out, keep |-> c.keep, split |-> c.split, inferred |-> c.inferred]
  BY <1>4, <1>5
<1>7. [g EXCEPT !.out = o]
        = [type |-> t, conf |-> c.conf, mode |-> c.mode, own |-> <<c.own>>, in |-> i,
           out |-> o, keep |-> c.keep, split |-> c.split, inferred |-> c.inferred]
  BY <1>6
<1>8. e.own = c.own /\ f.in = c.in /\ g.out = c.out
  BY <1>2, <1>4, <1>6
<1>9. Single(c) = [g EXCEPT !.out = o]
  BY <1>1, <1>3, <1>5, <1>8 DEF Single
<1> QED BY <1>7, <1>9

LEMMA SingleShown ==
  ASSUME NEW c, IsDspHalfCell(c), c.out.dly_b = Open
  PROVE  Nets(Single(c)) = Nets(c)
<1> DEFINE s == Single(c)
           f == AsBlock(c)
<1>1. /\ s.type \in {"QL_DSP2", "QL_DSP3"} /\ s.conf = c.conf /\ s.mode = c.mode
      /\ s.own = <<c.own>> /\ s.in = [p \in DOMAIN c.in |-> <<c.in[p]>>]
      /\ s.out = [p \in DOMAIN c.out |-> IF p = "dly_b" THEN <<>> ELSE <<c.out[p]>>]
  BY SingleIs
<1>2. /\ f.conf = c.conf /\ f.mode = c.mode
      /\ f.own = <<c.own>> /\ f.in = [p \in DOMAIN c.in |-> <<c.in[p]>>]
  BY HalfBlock DEF IsDspHalfCell, IsHalf
<1>3. /\ AsBlock(s) = s /\ IsDsp(s)
      /\ DOMAIN s.out = {"z", "dly_b"} /\ s.out.z = <<c.out.z>> /\ s.out.dly_b = <<>>
  BY <1>1 DEF AsBlock, IsHalf, IsDsp, DspPorts, DspParams, SdpMerge, TdpMerge,
     SdpSplit, TdpSplit, IsDspHalfCell, IsDspCell
<1> HIDE DEF s, f
<1>4. SumOf(s, 1) = SumOf(f, 1)
  <2>1. \A x : SettingOf(s, x) = SettingOf(f, x)
    BY <1>1, <1>2 DEF SettingOf
  <2>2. SameInputs(s, 1, f, 1)
    BY <1>1, <1>2, <2>1 DEF SameInputs
  <2> QED BY <2>2, SameSum
<1>5. \A d : d \in Nets(s) <=>
           /\ d[1] # Open
           /\ \/ \E h \in DOMAIN s.out.z : d = <<s.out.z[h], SumOf(s, h)>>
              \/ \E h \in DOMAIN s.out.dly_b :
                   d = <<s.out.dly_b[h], DlyOf(s.conf.clk, s.in.b[h])>>
  BY <1>3, DspShown DEF Nets
<1>6. \A h : (h \in DOMAIN s.out.z <=> h = 1) /\ h \notin DOMAIN s.out.dly_b
  BY <1>3
<1>7. s.out.z[1] = c.out.z
  BY <1>3
<1>8. \A d : d \in Nets(c) <=>
              /\ d[1] # Open
              /\ d = <<c.out.z, SumOf(f, 1)>> \/ d = <<c.out.dly_b, DlyOf(c.conf.clk, c.in.b)>>
  BY HalfShown DEF f
<1>9. \A d : d \in Nets(s) <=> d \in Nets(c)
  BY <1>4, <1>5, <1>6, <1>7, <1>8
<1> QED BY <1>9 DEF s

(* A block of inferred halves, as ql_dsp_io_regs finds it.                   *)
IsInferredBlock(c) ==
    /\ IsCell(c) /\ c.type \in {"QL_DSP2", "QL_DSP3"}
    /\ DOMAIN c.conf = {"clk", "load_acc", "subtract", "feedback"}
                         \cup (IF UsesParams(c) THEN {}
                               ELSE {"output_select", "register_inputs", "post"})
    /\ DOMAIN c.in = {"a", "b", "acc_fir"} /\ DOMAIN c.out = {"z", "dly_b"}
    /\ OutSel(c) \in {0, 1, 3} /\ ~RegIn(c)
    /\ c.conf.feedback.ones = 0 /\ c.conf.feedback.may \subseteq {0, 1}
    /\ c.out.dly_b = <<>>

LEMMA TypedIs ==
  ASSUME NEW c, IsCell(c)
  PROVE  LET del == Ports2Del(c)
         IN  Typed(c) = [type |-> TypeName(c), conf |-> Without(c.conf, del, Open),
                         mode |-> c.mode, own |-> c.own,
                         in |-> Without(c.in, del, <<Open, Open>>),
                         out |-> Without(c.out, del, <<>>),
                         keep |-> c.keep, split |-> c.split, inferred |-> c.inferred]
<1> DEFINE del == Ports2Del(c)
           k == Without(c.conf, del, Open)
           i == Without(c.in, del, <<Open, Open>>)
           o == Without(c.out, del, <<>>)
<1>1. PICK e : e = [c EXCEPT !.type = TypeName(c)]
  OBVIOUS
<1>2. e = [type |-> TypeName(c), conf |-> c.conf, mode |-> c.mode, own |-> c.own, in |-> c.in,
           out |-> c.out, keep |-> c.keep, split |-> c.split, inferred |-> c.inferred]
  BY <1>1 DEF IsCell
<1> HIDE DEF k, i, o
<1>3. PICK f : f = [e EXCEPT !.conf = k]
  OBVIOUS
<1>4. f = [type |-> TypeName(c), conf |-> k, mode |-> c.mode, own |-> c.own, in |-> c.in,
           out |-> c.out, keep |-> c.keep, split |-> c.split, inferred |-> c.inferred]
  BY <1>2, <1>3
<1>5. PICK g : g = [f EXCEPT !.in = i]
  OBVIOUS
<1>6. g = [type |-> TypeName(c), conf |-> k, mode |-> c.mode, own |-> c.own, in |-> i,
           out |-> c.out, keep |-> c.keep, split |-> c.split, inferred |-> c.inferred]
  BY <1>4, <1>5
<1>7. [g EXCEPT !.out = o]
        = [type |-> TypeName(c), conf |-> k, mode |-> c.mode, own |-> c.own, in |-> i,
           out |-> o, keep |-> c.keep, split |-> c.split, inferred |-> c.inferred]
  BY <1>6
<1>8. e.conf = c.conf /\ f.in = c.in /\ g.out = c.out
  BY <1>2, <1>4, <1>6
<1>9. Typed(c) = [g EXCEPT !.out = o]
  BY <1>1, <1>3, <1>5, <1>8 DEF Typed, k, i, o
<1> QED BY <1>7, <1>9 DEF k, i, o

LEMMA InferredReads ==
  ASSUME NEW c, IsInferredBlock(c)
  PROVE  /\ SettingOf(c, "output_select") = OutSel(c)
         /\ SettingOf(c, "register_inputs") # 1
         /\ ReadsSum(c) => Sums(c)
         /\ ReadsAcc(c) => Sums(c)
         /\ ~ReadsFir(c) /\ HaveMacc(c) /\ ~RegOut(c)
         /\ Clocked(c) => Sums(c)
<1>1. SettingOf(c, "output_select") = OutSel(c)
      /\ SettingOf(c, "register_inputs") = Setting(c, "register_inputs")
  BY DEF IsInferredBlock, SettingOf, OutSel, Setting
<1>2. ~May(c, {3}) /\ ~May(c, 2..7)
  BY DEF IsInferredBlock, May
<1>3. HaveMacc(c) /\ ~RegIn(c) /\ ~RegOut(c)
  BY DEF HaveMacc, RegOut, IsInferredBlock
<1>4. ~ReadsFir(c)
  BY <1>2 DEF ReadsFir
<1>5. ASSUME ~Sums(c) PROVE ~ReadsSum(c) /\ ~ReadsAcc(c) /\ ~Clocked(c)
  <2>1. OutSel(c) = 0
    BY <1>5 DEF Sums, IsInferredBlock
  <2>2. ~ReadsSum(c)
    BY <1>1, <1>2, <2>1 DEF ReadsSum
  <2>3. ~ReadsAcc(c)
    BY <1>1, <1>2, <2>1, <2>2 DEF ReadsAcc
  <2>4. ~Clocked(c)
    BY <1>1, <1>3, <2>1, <2>3 DEF Clocked, RegIn
  <2> QED BY <2>2, <2>3, <2>4
<1> QED BY <1>1, <1>3, <1>4, <1>5 DEF RegIn

(* The ports that the type does not have are not read.                       *)
LEMMA TypedShown ==
  ASSUME NEW c, IsInferredBlock(c)
  PROVE  Nets(Typed(c)) = Nets(c)
<1> DEFINE t == Typed(c)
           del == Ports2Del(c)
<1>1. /\ t.type = TypeName(c) /\ t.conf = Without(c.conf, del, Open) /\ t.mode = c.mode
      /\ t.own = c.own /\ t.in = Without(c.in, del, <<Open, Open>>)
      /\ t.out = Without(c.out, del, <<>>)
  <2>1. IsCell(c)
    BY DEF IsInferredBlock
  <2> QED BY <2>1, TypedIs
<1>2. /\ ReadsSum(c) => Sums(c)
      /\ ReadsAcc(c) => Sums(c)
      /\ ~ReadsFir(c) /\ HaveMacc(c) /\ ~RegOut(c)
      /\ Clocked(c) => Sums(c)
  BY InferredReads
<1>3. Sums(c) => del = {"acc_fir", "dly_b"}
  BY <1>2 DEF Ports2Del, NoClock
<1>4. del \subseteq {"clk", "load_acc", "subtract", "acc_fir", "dly_b", "post"}
  BY DEF Ports2Del
<1> HIDE DEF del, t
<1>5. /\ DOMAIN t.conf = DOMAIN c.conf
      /\ \A p \in DOMAIN c.conf : p \notin del => t.conf[p] = c.conf[p]
  BY <1>1 DEF Without
<1>6. \A s : s \notin del => SettingOf(t, s) = SettingOf(c, s)
  BY <1>1, <1>5 DEF SettingOf
<1>7. {"clk", "feedback"} \subseteq DOMAIN c.conf
  BY DEF IsInferredBlock
<1>8. t.conf.feedback = c.conf.feedback
  BY <1>4, <1>5, <1>7
<1>9. t.in.a = c.in.a /\ t.in.b = c.in.b
  <2>1. "a" \in DOMAIN c.in /\ "b" \in DOMAIN c.in
    BY DEF IsInferredBlock
  <2> QED BY <1>1, <1>4, <2>1 DEF Without
<1>10. DOMAIN t.out = {"z", "dly_b"} /\ t.out.z = c.out.z /\ t.out.dly_b = <<>>
  <2>1. DOMAIN c.out = {"z", "dly_b"} /\ c.out.dly_b = <<>>
    BY DEF IsInferredBlock
  <2> QED BY <1>1, <1>4, <2>1 DEF Without
<1>11. ASSUME NEW h PROVE SumOf(c, h) = SumOf(t, h)
  <2>1. \A s \in {"output_select", "register_inputs"} : SettingOf(c, s) = SettingOf(t, s)
    BY <1>4, <1>6
  <2>2. ReadsSum(c) => \A s \in {"subtract", "post"} : SettingOf(c, s) = SettingOf(t, s)
    BY <1>2, <1>3, <1>6
  <2>3. ReadsAcc(c) => SettingOf(c, "load_acc") = SettingOf(t, "load_acc")
    BY <1>2, <1>3, <1>6
  <2>4. Clocked(c) => Root[c.conf.clk] = Root[t.conf.clk]
    BY <1>2, <1>3, <1>5, <1>7
  <2>5. c.own[h] = t.own[h] /\ c.in.a[h] = t.in.a[h] /\ c.in.b[h] = t.in.b[h]
    BY <1>1, <1>9
  <2>6. SameInputs(c, h, t, h)
    BY <1>2, <1>8, <2>1, <2>2, <2>3, <2>4, <2>5 DEF SameInputs
  <2> QED BY <2>6, SameSum
<1>12. AsBlock(t) = t /\ IsDsp(t)
  <2>1. t.type \notin {DspPorts, DspParams, SdpMerge, TdpMerge, SdpSplit, TdpSplit}
    BY <1>1, TypeNameFits DEF IsInferredBlock
  <2> QED BY <1>5, <1>7, <2>1 DEF AsBlock, IsHalf, IsDsp
<1>13. AsBlock(c) = c /\ IsDsp(c)
  BY <1>7 DEF IsInferredBlock, AsBlock, IsHalf, IsDsp, DspPorts, DspParams, SdpMerge, TdpMerge,
     SdpSplit, TdpSplit
<1>14. DOMAIN c.out = {"z", "dly_b"} /\ c.out.dly_b = <<>>
  BY DEF IsInferredBlock
<1>15. \A d : d \in Nets(t) <=>
           d[1] # Open /\ \E h \in DOMAIN t.out.z : d = <<t.out.z[h], SumOf(t, h)>>
  BY <1>10, <1>12, DspShown DEF Nets
<1>16. \A d : d \in Nets(c) <=>
           d[1] # Open /\ \E h \in DOMAIN c.out.z : d = <<c.out.z[h], SumOf(c, h)>>
  BY <1>13, <1>14, DspShown DEF Nets
<1>17. \A d : d \in Nets(t) <=> d \in Nets(c)
  BY <1>10, <1>11, <1>15, <1>16
<1> QED BY <1>17 DEF t

(* Two halves of a block RAM side by side show what they showed.             *)
RamOut(c, p) ==
    <<c.out[p], [port |-> p, mode |-> c.mode, own |-> c.own,
                 in |-> [q \in DOMAIN c.in |-> c.in[q]]]>>

LEMMA RamHalfShown ==
  ASSUME NEW c, IsCell(c), IsHalf(c), ~IsDsp(c)
  PROVE  \A d : d \in Nets(c) <=> d[1] # Open /\ \E p \in DOMAIN c.out : d = RamOut(c, p)
<1> DEFINE f == AsBlock(c)
<1>1. /\ f.conf = c.conf /\ f.mode = c.mode /\ f.own = <<c.own>>
      /\ f.in = [p \in DOMAIN c.in |-> <<c.in[p]>>]
      /\ f.out = [p \in DOMAIN c.out |-> <<c.out[p]>>]
  BY HalfBlock
<1> HIDE DEF f
<1>2. ~IsDsp(f)
  BY <1>1 DEF IsDsp
<1>3. DOMAIN f.out = DOMAIN c.out /\ f.own[1] = c.own
  BY <1>1
<1>4. \A p \in DOMAIN c.out : DOMAIN f.out[p] = {1} /\ f.out[p][1] = c.out[p]
  BY <1>1
<1>5. [q \in DOMAIN f.in |-> f.in[q][1]] = [q \in DOMAIN c.in |-> c.in[q]]
  BY <1>1
<1>6. \A p \in DOMAIN c.out : RamNet(f, p, 1) = RamOut(c, p)
  BY <1>1, <1>3, <1>4, <1>5 DEF RamNet, RamOut
<1>7. \A d : d \in Shown(f) <=>
           d[1] # Open /\ \E p \in DOMAIN f.out : \E h \in DOMAIN f.out[p] : d = RamNet(f, p, h)
  BY <1>2, RamShown
<1>8. \A d : d \in Shown(f) <=> d[1] # Open /\ \E p \in DOMAIN c.out : d = RamOut(c, p)
  BY <1>3, <1>4, <1>6, <1>7
<1> QED BY <1>8 DEF Nets, f

LEMMA SidesShown ==
  ASSUME NEW a, NEW b, NEW m, IsCell(a), IsCell(b), IsHalf(a), IsHalf(b), ~IsHalf(m),
         ~IsDsp(a), ~IsDsp(b), ~IsDsp(m), m.mode = a.mode, m.mode = b.mode,
         m.own = <<a.own, b.own>>, DOMAIN a.in = DOMAIN b.in, DOMAIN a.out = DOMAIN b.out,
         m.in = SideBySide(a, b).in, m.out = SideBySide(a, b).out
  PROVE  Nets(m) = Nets(a) \cup Nets(b)
<1>1. /\ DOMAIN m.in = DOMAIN a.in /\ DOMAIN m.out = DOMAIN a.out
      /\ \A p \in DOMAIN a.in : m.in[p] = <<a.in[p], b.in[p]>>
      /\ \A p \in DOMAIN a.out : m.out[p] = <<a.out[p], b.out[p]>>
  BY DEF SideBySide
<1>2. \A d : d \in Shown(m) <=>
           d[1] # Open /\ \E p \in DOMAIN m.out : \E h \in DOMAIN m.out[p] : d = RamNet(m, p, h)
  BY RamShown
<1>3. [q \in DOMAIN m.in |-> m.in[q][1]] = [q \in DOMAIN a.in |-> a.in[q]]
  BY <1>1
<1>4. [q \in DOMAIN m.in |-> m.in[q][2]] = [q \in DOMAIN b.in |-> b.in[q]]
  BY <1>1
<1>5. \A p \in DOMAIN a.out : /\ DOMAIN m.out[p] = {1, 2}
                              /\ m.out[p][1] = a.out[p] /\ m.out[p][2] = b.out[p]
  BY <1>1
<1>6. \A p \in DOMAIN a.out : RamNet(m, p, 1) = RamOut(a, p) /\ RamNet(m, p, 2) = RamOut(b, p)
  <2>1. m.own[1] = a.own /\ m.own[2] = b.own
    OBVIOUS
  <2> QED BY <1>3, <1>4, <1>5, <2>1 DEF RamNet, RamOut
<1>7. /\ \A d : d \in Nets(a) <=> d[1] # Open /\ \E p \in DOMAIN a.out : d = RamOut(a, p)
      /\ \A d : d \in Nets(b) <=> d[1] # Open /\ \E p \in DOMAIN b.out : d = RamOut(b, p)
  BY RamHalfShown
<1>8. Nets(m) = Shown(m)
  BY DEF Nets, AsBlock
<1>9. \A d : d \in Nets(m) <=> d \in Nets(a) \/ d \in Nets(b)
  BY <1>1, <1>2, <1>5, <1>6, <1>7, <1>8
<1> QED BY <1>9

LEMMA RamFacts ==
  ASSUME NEW c, c.conf = <<>>
  PROVE  ~IsDsp(c)
  BY DEF IsDsp

LEMMA MergedShown ==
  ASSUME NEW a, NEW b, IsCell(a), IsCell(b), IsRam(a), IsRam(b), b.type = a.type,
         a.type \in {SdpMerge, TdpMerge}, DOMAIN b.in = DOMAIN a.in, DOMAIN b.out = DOMAIN a.out
  PROVE  Nets(Merged(a, b)) = Nets(a) \cup Nets(b)
<1> DEFINE m == Merged(a, b)
<1>1. /\ m.type \in {SdpMerged, TdpMerged} /\ m.conf = <<>> /\ m.mode = <<>>
      /\ m.own = <<a.own, b.own>>
      /\ m.in = SideBySide(a, b).in /\ m.out = SideBySide(a, b).out
  BY DEF Merged
<1>2. IsHalf(a) /\ IsHalf(b)
  BY DEF IsHalf
<1> HIDE DEF m
<1>3. ~IsHalf(m)
  BY <1>1 DEF IsHalf, SdpMerged, TdpMerged, SdpMerge, TdpMerge, SdpSplit, TdpSplit, DspPorts, DspParams
<1>4. ~IsDsp(a) /\ ~IsDsp(b) /\ ~IsDsp(m) /\ a.mode = <<>> /\ b.mode = <<>>
  BY <1>1, RamFacts DEF IsRam
<1>5. Nets(m) = Nets(a) \cup Nets(b)
  BY <1>1, <1>2, <1>3, <1>4, SidesShown
<1> QED BY <1>5 DEF m

LEMMA SplitShown ==
  ASSUME NEW a, NEW b, IsCell(a), IsCell(b), IsRam(a), IsRam(b), b.type = a.type, b.mode = a.mode,
         a.type \in {SdpSplit, TdpSplit}, DOMAIN b.in = DOMAIN a.in, DOMAIN b.out = DOMAIN a.out
  PROVE  Nets(Split(a, b)) = Nets(a) \cup Nets(b)
<1> DEFINE m == Split(a, b)
<1>1. /\ m.type \in {"BRAM2x18_TDP", "BRAM2x18_SDP"} /\ m.conf = <<>> /\ m.mode = a.mode
      /\ m.own = <<a.own, b.own>>
      /\ m.in = SideBySide(a, b).in /\ m.out = SideBySide(a, b).out
  BY DEF Split
<1>2. IsHalf(a) /\ IsHalf(b)
  BY DEF IsHalf
<1> HIDE DEF m
<1>3. ~IsHalf(m)
  BY <1>1 DEF IsHalf, SdpMerge, TdpMerge, SdpSplit, TdpSplit, DspPorts, DspParams
<1>4. ~IsDsp(a) /\ ~IsDsp(b) /\ ~IsDsp(m)
  BY <1>1, RamFacts DEF IsRam
<1>5. Nets(m) = Nets(a) \cup Nets(b)
  BY <1>1, <1>2, <1>3, <1>4, SidesShown
<1> QED BY <1>5 DEF m

(* A block that takes the place of some cells and shows what they showed.    *)
LEMMA InPlaceOf ==
  ASSUME NEW cs, NEW ds, NEW S \in SUBSET DOMAIN cs, NEW n, n \notin DOMAIN cs \ S,
         DOMAIN ds = (DOMAIN cs \ S) \cup {n}, \A x \in DOMAIN cs \ S : ds[x] = cs[x],
         Nets(ds[n]) = UNION {Nets(cs[x]) : x \in S}
  PROVE  AllDriven(ds) = AllDriven(cs)
<1>1. /\ \A d : d \in AllDriven(cs) <=> \E x \in DOMAIN cs : d \in Nets(cs[x])
      /\ \A d : d \in AllDriven(ds) <=> \E x \in DOMAIN ds : d \in Nets(ds[x])
  BY AllDrivenIs
<1>2. \A d : d \in Nets(ds[n]) <=> \E x \in S : d \in Nets(cs[x])
  OBVIOUS
<1>3. \A x \in DOMAIN cs \ S : ds[x] = cs[x] /\ x # n
  OBVIOUS
<1>4. \A d : (\E x \in DOMAIN ds : d \in Nets(ds[x])) <=> (\E x \in DOMAIN cs : d \in Nets(cs[x]))
  BY <1>2, <1>3
<1>5. \A d : d \in AllDriven(ds) <=> d \in AllDriven(cs)
  BY <1>1, <1>4
<1>6. /\ AllDriven(cs) = UNION {Nets(cs[x]) : x \in DOMAIN cs}
      /\ AllDriven(ds) = UNION {Nets(ds[x]) : x \in DOMAIN ds}
  BY AllDrivenIs
<1> QED BY <1>5, <1>6

LEMMA CellByCell ==
  ASSUME NEW cs, NEW ds, DOMAIN ds = DOMAIN cs, \A x \in DOMAIN cs : Nets(ds[x]) = Nets(cs[x])
  PROVE  AllDriven(ds) = AllDriven(cs)
<1>1. UNION {Nets(ds[x]) : x \in DOMAIN ds} = UNION {Nets(cs[x]) : x \in DOMAIN cs}
  OBVIOUS
<1> QED BY <1>1, AllDrivenIs

(* Inferred halves give inferred blocks.                                     *)
LEMMA SimdInferred ==
  ASSUME NEW a, NEW b, IsDspHalfCell(a), IsDspHalfCell(b), Config(a) = Config(b),
         a.inferred, b.inferred
  PROVE  IsInferredBlock(Simd(a, b))
<1> DEFINE s == Simd(a, b)
<1>1. /\ s.type = (IF UsesParams(a) THEN "QL_DSP3" ELSE "QL_DSP2") /\ s.mode = a.mode
      /\ s.conf = [a.conf EXCEPT !.clk = Root[a.conf.clk]]
      /\ s.in = [p \in DOMAIN a.in |-> IF p = "acc_fir" THEN AccFir(a.in[p], b.in[p])
                                       ELSE <<a.in[p], b.in[p]>>]
      /\ s.out = [p \in DOMAIN a.out |-> Connected(a.out[p], b.out[p])]
  BY DEF Simd
<1>2. IsCell(s)
  BY DEF Simd, IsCell
<1> HIDE DEF s
<1>3. UsesParams(s) = UsesParams(a) /\ s.type \in {"QL_DSP2", "QL_DSP3"}
  BY <1>1 DEF UsesParams, DspParams, DspPorts, IsDspHalfCell
<1>4. DOMAIN s.conf = DOMAIN a.conf /\ \A p \in DOMAIN a.conf \ {"clk"} : s.conf[p] = a.conf[p]
  BY <1>1
<1>5. OutSel(s) = OutSel(a) /\ RegIn(s) = RegIn(a)
  BY <1>1, <1>3, <1>4 DEF OutSel, RegIn, Setting, IsDspHalfCell, IsDspCell
<1>6. s.conf.feedback = a.conf.feedback
  BY <1>4 DEF IsDspHalfCell, IsDspCell
<1>7. DOMAIN s.in = {"a", "b", "acc_fir"} /\ DOMAIN s.out = {"z", "dly_b"}
  BY <1>1 DEF IsDspHalfCell, IsDspCell
<1>8. s.out.dly_b = <<>>
  <2>1. a.out.dly_b = Open /\ b.out.dly_b = Open /\ "dly_b" \in DOMAIN a.out
    BY DEF IsDspHalfCell, IsDspCell
  <2> QED BY <1>1, <2>1 DEF Connected
<1>9. IsInferredBlock(s)
  BY <1>2, <1>3, <1>4, <1>5, <1>6, <1>7, <1>8 DEF IsInferredBlock, IsDspHalfCell, IsDspCell
<1> QED BY <1>9 DEF s

LEMMA SingleInferred ==
  ASSUME NEW c, IsDspHalfCell(c), c.inferred
  PROVE  IsInferredBlock(Single(c))
<1> DEFINE s == Single(c)
<1>1. s = [type |-> IF UsesParams(c) THEN "QL_DSP3" ELSE "QL_DSP2",
           conf |-> c.conf, mode |-> c.mode, own |-> <<c.own>>,
           in |-> [p \in DOMAIN c.in |-> <<c.in[p]>>],
           out |-> [p \in DOMAIN c.out |-> IF p = "dly_b" THEN <<>> ELSE <<c.out[p]>>],
           keep |-> c.keep, split |-> c.split, inferred |-> c.inferred]
  BY SingleIs
<1> HIDE DEF s
<1>2. /\ s.type = (IF UsesParams(c) THEN "QL_DSP3" ELSE "QL_DSP2") /\ s.mode = c.mode
      /\ s.conf = c.conf /\ DOMAIN s.in = DOMAIN c.in /\ DOMAIN s.out = DOMAIN c.out
      /\ IsCell(s)
  BY <1>1 DEF IsCell
<1>3. s.out.dly_b = <<>>
  BY <1>1 DEF IsDspHalfCell, IsDspCell
<1>4. UsesParams(s) = UsesParams(c) /\ s.type \in {"QL_DSP2", "QL_DSP3"}
  BY <1>2 DEF UsesParams, DspParams, DspPorts, IsDspHalfCell
<1>5. OutSel(s) = OutSel(c) /\ RegIn(s) = RegIn(c)
  BY <1>2, <1>4 DEF OutSel, RegIn, Setting
<1>6. IsInferredBlock(s)
  BY <1>2, <1>3, <1>4, <1>5 DEF IsInferredBlock, IsDspHalfCell, IsDspCell
<1> QED BY <1>6 DEF s

------------------------------------------------------------------------------
(* Each net keeps its function through the flow.                             *)

(* The cells without those that have a block.                                *)
Left(cs, g) == [x \in DOMAIN cs \ g |-> cs[x]]

(* Whatever the step, block RAM halves are as they were, and an inferred     *)
(* block ql_dsp_io_regs has yet to type is made of inferred halves.          *)
CellsFit ==
    \A x \in DOMAIN cells :
      /\ cells[x].type \in {SdpMerge, TdpMerge, SdpSplit, TdpSplit} =>
           x \in Old /\ cells[x] = start.cells[x]
      /\ cells[x].type \in {"QL_DSP2", "QL_DSP3"} /\ cells[x].inferred => IsInferredBlock(cells[x])

(* A new cell has the name its pass gave it, and the cells it is made of     *)
(* are in it only.                                                           *)
NumberedName(x) == \E i \in 0 .. Cardinality(Old) : x = SimdNumbered(i)
NamesFit ==
    /\ step \in {"simd", "final", "regs", "brams"} =>
         \A x \in DOMAIN cells \ Old :
           \/ NumberedName(x)
           \/ \E u, v \in Old \ DOMAIN cells : u # v /\ x = MergedName(u, v)
    /\ step = "split" =>
         /\ gone \subseteq Old /\ Old \subseteq DOMAIN cells
         /\ \A x \in DOMAIN cells \ Old : \E u, v \in gone : u # v /\ x = SplitName(u, v)

(* The halves of a group that have a block are even in number; when          *)
(* ql_dsp_simd has ended, no half drives dly_b.                              *)
HalvesFit ==
    /\ step = "simd" =>
         \A x \in DspHalves : \E n \in Nat : Cardinality(gone \cap Partners(x)) = 2 * n
    /\ step = "final" =>
         \A x \in DOMAIN cells :
           cells[x].type \in {DspPorts, DspParams} =>
             x \in Old /\ cells[x] = start.cells[x] /\ cells[x].out.dly_b = Open

AllKept ==
    /\ AllDriven(Left(cells, gone)) = AllDriven(start.cells)
    /\ CellsFit /\ NamesFit /\ HalvesFit

KeptInv ==
    /\ start \in Designs /\ SimdInv
    /\ step \notin {"simd", "split"} => gone = {}
    /\ Regular /\ verdict = "ok" => AllKept

LEMMA OldFacts ==
  ASSUME start \in Designs, NEW x \in Old
  PROVE  LET c == start.cells[x]
         IN  /\ IsCell(c)
             /\ c.type \in {DspPorts, DspParams} => IsDspHalfCell(c)
             /\ c.type \in {SdpMerge, TdpMerge, SdpSplit, TdpSplit} =>
                  /\ IsRam(c)
                  /\ \A y \in Old : start.cells[y].type = c.type =>
                       /\ DOMAIN start.cells[y].in = DOMAIN c.in
                       /\ DOMAIN start.cells[y].out = DOMAIN c.out
             /\ c.type \in {"QL_DSP2", "QL_DSP3"} => ~c.inferred
  BY StartFacts DEF IsMapped, Old, IsDspHalfCell

LEMMA LeftIs ==
  ASSUME NEW cs, NEW g
  PROVE  /\ DOMAIN Left(cs, g) = DOMAIN cs \ g
         /\ \A x \in DOMAIN cs \ g : Left(cs, g)[x] = cs[x]
  BY DEF Left

LEMMA LeftAll ==
  ASSUME NEW cs
  PROVE  AllDriven(Left(cs, {})) = AllDriven(cs)
<1>1. DOMAIN Left(cs, {}) = DOMAIN cs /\ \A x \in DOMAIN cs : Left(cs, {})[x] = cs[x]
  BY DEF Left
<1> DEFINE ds == Left(cs, {})
<1>2. DOMAIN ds = DOMAIN cs /\ \A x \in DOMAIN cs : Nets(ds[x]) = Nets(cs[x])
  BY <1>1
<1> HIDE DEF ds
<1>3. AllDriven(ds) = AllDriven(cs)
  BY <1>2, CellByCell
<1> QED BY <1>3 DEF ds

LEMMA KeptInit == Init => KeptInv
<1> SUFFICES ASSUME Init PROVE KeptInv
  OBVIOUS
<1>1. start \in Designs /\ step = start.step /\ cells = start.cells /\ gone = {} /\ verdict = "ok"
  BY DEF Init
<1>2. step \in {"simd", "brams", "split", "ioff"}
  BY <1>1, CellsAssumption
<1>3. SimdInv
  BY <1>1 DEF SimdInv, Old
<1>4. AllDriven(Left(cells, gone)) = AllDriven(start.cells)
  BY <1>1, LeftAll
<1>5. CellsFit
  BY <1>1, OldFacts DEF CellsFit, Old
<1>6. NamesFit
  BY <1>1 DEF NamesFit, Old
<1>7. HalvesFit
  <2>1. \A x \in DspHalves : Cardinality(gone \cap Partners(x)) = 2 * 0
    BY <1>1, FS_EmptySet
  <2> QED BY <1>2, <2>1 DEF HalvesFit
<1> QED BY <1>1, <1>3, <1>4, <1>5, <1>6, <1>7 DEF KeptInv, AllKept

(* What a pair of a group is, and what it becomes.                           *)
LEMMA PairMade ==
  ASSUME SimdInv, start \in Designs, Regular, step = "simd", NEW x, NEW y,
         <<x, y>> \in Pairs(Alike), cells[x].mode = cells[y].mode
  PROVE  LET c == Simd(cells[x], cells[y])
         IN  /\ Nets(c) = Nets(cells[x]) \cup Nets(cells[y])
             /\ c.type \in {"QL_DSP2", "QL_DSP3"}
             /\ c.inferred => IsInferredBlock(c)
<1> DEFINE a == cells[x]
           b == cells[y]
<1>1. /\ x \in DspHalves /\ y \in DspHalves
      /\ a = start.cells[x] /\ b = start.cells[y] /\ Config(a) = Config(b)
      /\ y \in Partners(x)
  BY PairFacts
<1>2. IsDspHalfCell(a) /\ IsDspHalfCell(b)
  BY <1>1, OldFacts DEF DspHalves, IsDspHalf
<1>3. SameLinks(a, b) /\ (ReadsFir(a) => b.in.acc_fir = a.in.acc_fir)
  <2>1. DOMAIN a.out = {"z", "dly_b"}
    BY <1>2 DEF IsDspHalfCell, IsDspCell
  <2>2. /\ \A p \in DOMAIN a.out : (a.out[p] = Open) = (b.out[p] = Open)
        /\ ReadsFir(a) => b.in.acc_fir = a.in.acc_fir
    BY <1>1 DEF Regular, DspHalves, Old
  <2> QED BY <2>1, <2>2 DEF SameLinks
<1>4. Simd(a, b).inferred => a.inferred /\ b.inferred
  BY DEF Simd, Both
<1> HIDE DEF a, b
<1>5. a.mode = b.mode
  BY DEF a, b
<1>6. Nets(Simd(a, b)) = Nets(a) \cup Nets(b)
  BY <1>1, <1>2, <1>3, <1>5, SimdShown
<1>7. Simd(a, b).inferred => IsInferredBlock(Simd(a, b))
  BY <1>1, <1>2, <1>4, SimdInferred
<1>8. Simd(a, b).type \in {"QL_DSP2", "QL_DSP3"}
  BY SimdType
<1> QED BY <1>6, <1>7, <1>8 DEF a, b

LEMMA SimdKept ==
  ASSUME SimdInv, start \in Designs, Regular, AllKept, SimdPair, verdict' = "ok"
  PROVE  AllKept'
<1>1. step = "simd" /\ start' = start /\ step' = step /\ PairDsps
  BY DEF SimdPair, Stay
<1>2. PICK p \in Pairs(Alike) :
        /\ SimdName(Config(cells[p[1]])) \notin DOMAIN cells
        /\ cells[p[1]].mode = cells[p[2]].mode
        /\ cells' = With(cells, SimdName(Config(cells[p[1]])), Simd(cells[p[1]], cells[p[2]]))
        /\ gone' = gone \cup {p[1], p[2]}
  BY <1>1, Zenon DEF PairDsps, Stop
<1> DEFINE x == p[1]
           y == p[2]
           n == SimdName(Config(cells[x]))
           c == Simd(cells[x], cells[y])
<1>3. <<x, y>> \in Pairs(Alike)
  BY DEF Pairs
<1>4. /\ x \in DspHalves \ gone /\ y \in DspHalves \ gone /\ x # y
      /\ cells[x] = start.cells[x] /\ cells[y] = start.cells[y]
      /\ Config(cells[x]) = Config(cells[y])
  BY <1>1, <1>3, PairFacts
<1>5. Nets(c) = Nets(cells[x]) \cup Nets(cells[y]) /\ c.type \in {"QL_DSP2", "QL_DSP3"}
      /\ (c.inferred => IsInferredBlock(c))
  BY <1>1, <1>2, <1>3, PairMade
<1>6. NumberedName(n)
  <2> DEFINE S == {z \in gone : Config(cells[z]) = Config(cells[x])}
  <2>1. n = SimdNumbered(Cardinality(S) \div 2)
    BY Zenon DEF SimdName
  <2>2. Cardinality(S) \in Nat /\ Cardinality(S) <= Cardinality(Old) /\ Cardinality(Old) \in Nat
    <3>1. S \subseteq Old
      BY <1>1 DEF SimdInv, DspHalves
    <3> QED BY <3>1, StartFacts
  <2> HIDE DEF S
  <2>3. Cardinality(S) \div 2 \in 0 .. Cardinality(Old)
    BY <2>2
  <2> QED BY <2>1, <2>3 DEF NumberedName
<1>7. n \notin DOMAIN cells /\ cells' = With(cells, n, c) /\ gone' = gone \cup {x, y}
  BY <1>2
<1> HIDE DEF n, c
<1>8. /\ DOMAIN cells' = DOMAIN cells \cup {n} /\ cells'[n] = c
      /\ \A z \in DOMAIN cells : cells'[z] = cells[z]
  BY <1>7 DEF With
<1> HIDE DEF x, y
<1>9. x \in DOMAIN cells \ gone /\ y \in DOMAIN cells \ gone /\ gone' \subseteq DOMAIN cells
  BY <1>1, <1>4, <1>7 DEF SimdInv, DspHalves
<1>10. AllDriven(Left(cells', gone')) = AllDriven(start.cells)
  <2> DEFINE cs == Left(cells, gone)
             ds == Left(cells', gone')
  <2>1. /\ DOMAIN cs = DOMAIN cells \ gone
        /\ \A z \in DOMAIN cells \ gone : cs[z] = cells[z]
        /\ DOMAIN ds = DOMAIN cells' \ gone'
        /\ \A z \in DOMAIN cells' \ gone' : ds[z] = cells'[z]
    BY LeftIs
  <2> HIDE DEF cs, ds
  <2>2. {x, y} \subseteq DOMAIN cs /\ n \notin DOMAIN cs \ {x, y}
    BY <1>7, <1>9, <2>1
  <2>3. DOMAIN ds = (DOMAIN cs \ {x, y}) \cup {n}
    BY <1>7, <1>8, <1>9, <2>1
  <2>4. \A z \in DOMAIN cs \ {x, y} : ds[z] = cs[z]
    BY <1>7, <1>8, <2>1
  <2>5. ds[n] = c
    BY <1>7, <1>8, <1>9, <2>1
  <2>6. UNION {Nets(cs[z]) : z \in {x, y}} = Nets(cs[x]) \cup Nets(cs[y])
    OBVIOUS
  <2>7. Nets(ds[n]) = UNION {Nets(cs[z]) : z \in {x, y}}
    BY <1>5, <1>9, <2>1, <2>5, <2>6 DEF x, y
  <2>8. AllDriven(ds) = AllDriven(cs)
    BY <2>2, <2>3, <2>4, <2>7, InPlaceOf
  <2> QED BY <2>8 DEF AllKept, cs, ds
<1>11. Old' = Old /\ \A z : Partners(z)' = Partners(z)
  BY <1>1 DEF Old, Partners, IsDspHalf
<1>12. DspHalves' = DspHalves
  BY <1>1 DEF DspHalves, Old, IsDspHalf
<1>13. CellsFit'
  <2>1. c.type \notin {SdpMerge, TdpMerge, SdpSplit, TdpSplit}
    BY <1>5 DEF SdpMerge, TdpMerge, SdpSplit, TdpSplit
  <2> QED BY <1>1, <1>5, <1>8, <1>11, <2>1 DEF CellsFit, AllKept
<1>14. NamesFit'
  <2>1. \A z : NumberedName(z)' <=> NumberedName(z)
    BY <1>11 DEF NumberedName
  <2>2. ASSUME NEW z \in DOMAIN cells \ Old PROVE NumberedName(z)
    <3>1. Old \subseteq DOMAIN cells
      BY <1>1 DEF SimdInv
    <3> QED BY <1>1, <2>2, <3>1 DEF AllKept, NamesFit
  <2>3. \A z \in DOMAIN cells' \ Old' : NumberedName(z)'
    BY <1>6, <1>8, <1>11, <2>1, <2>2
  <2> QED BY <1>1, <2>3 DEF NamesFit
<1>15. HalvesFit'
  <2> SUFFICES ASSUME NEW z \in DspHalves
               PROVE  \E k \in Nat : Cardinality(gone' \cap Partners(z)) = 2 * k
    BY <1>1, <1>11, <1>12 DEF HalvesFit
  <2> DEFINE G == gone \cap Partners(z)
  <2>1. PICK k \in Nat : Cardinality(G) = 2 * k
    BY <1>1 DEF AllKept, HalvesFit
  <2>2. IsFiniteSet(G)
    <3>1. G \subseteq Old
      BY DEF Partners, Old
    <3> QED BY <3>1, StartFacts
  <2>3. x \in Partners(z) <=> y \in Partners(z)
    BY <1>4 DEF Partners, DspHalves, Old
  <2>4. CASE x \notin Partners(z)
    <3>1. gone' \cap Partners(z) = G
      BY <1>7, <2>3, <2>4 DEF x, y
    <3> QED BY <2>1, <3>1
  <2>5. CASE x \in Partners(z)
    <3>1. gone' \cap Partners(z) = (G \cup {x}) \cup {y}
      BY <1>7, <2>3, <2>5 DEF x, y
    <3>2. x \notin G /\ y \notin G \cup {x}
      BY <1>4
    <3> HIDE DEF G
    <3>3. IsFiniteSet(G \cup {x}) /\ Cardinality(G \cup {x}) = 2 * k + 1
      BY <2>1, <2>2, <3>2, FS_AddElement
    <3>4. Cardinality((G \cup {x}) \cup {y}) = 2 * k + 1 + 1
      BY <3>2, <3>3, FS_AddElement
    <3>5. 2 * k + 1 + 1 = 2 * (k + 1) /\ k + 1 \in Nat
      BY <2>1
    <3> QED BY <3>1, <3>4, <3>5
  <2> QED BY <2>4, <2>5
<1> QED BY <1>1, <1>10, <1>13, <1>14, <1>15 DEF AllKept

(* A half that no pair is made with when ql_dsp_simd ends is alone in its    *)
(* group with an odd number of halves.                                       *)
LEMMA AloneIsOdd ==
  ASSUME SimdInv, start \in Designs, AllKept, step = "simd", Pairs(Alike) = {},
         NEW x \in DspHalves \ gone
  PROVE  Cardinality(Partners(x)) % 2 = 1
<1> DEFINE G == gone \cap Partners(x)
<1>1. PICK k \in Nat : Cardinality(G) = 2 * k
  BY DEF AllKept, HalvesFit
<1>2. x \in Partners(x) /\ x \notin G
  BY DEF Partners, DspHalves, Old
<1>3. ASSUME NEW y \in Partners(x) \ gone PROVE y = x
  <2>1. y \in DspHalves /\ Config(start.cells[y]) = Config(start.cells[x])
    BY DEF Partners, DspHalves, Old
  <2>2. cells[x] = start.cells[x] /\ cells[y] = start.cells[y]
        /\ x \in DOMAIN cells /\ y \in DOMAIN cells
    BY <2>1 DEF SimdInv, DspHalves
  <2>3. Alike(x, y)
    BY <2>1, <2>2 DEF Alike, SimdHalf, DspHalves, IsDspHalf
  <2>4. <<x, y>> \notin Pairs(Alike)
    OBVIOUS
  <2> QED BY <1>3, <2>2, <2>3, <2>4 DEF Pairs
<1>4. Partners(x) = G \cup {x}
  BY <1>2, <1>3
<1>5. IsFiniteSet(G)
  <2>1. G \subseteq Old
    BY DEF Partners, Old
  <2> QED BY <2>1, StartFacts
<1> HIDE DEF G
<1>6. Cardinality(G \cup {x}) = 2 * k + 1
  BY <1>1, <1>2, <1>5, FS_AddElement
<1>7. (2 * k + 1) % 2 = 1
  BY <1>1
<1> QED BY <1>4, <1>6, <1>7

LEMMA SimdEndKept ==
  ASSUME SimdInv, start \in Designs, Regular, AllKept, SimdEnd
  PROVE  AllKept'
<1>1. /\ step = "simd" /\ step' = "final" /\ start' = start /\ Pairs(Alike) = {}
      /\ cells' = Left(cells, gone) /\ gone' = {}
  BY DEF SimdEnd, Goto, SimdDone, RemoveHalves, Left
<1>2. DOMAIN cells' = DOMAIN cells \ gone /\ \A x \in DOMAIN cells' : cells'[x] = cells[x]
  BY <1>1 DEF Left
<1>3. AllDriven(Left(cells', gone')) = AllDriven(start.cells)
  BY <1>1, LeftAll DEF AllKept
<1>4. Old' = Old
  BY <1>1 DEF Old
<1>5. CellsFit'
  BY <1>1, <1>2, <1>4 DEF CellsFit, AllKept
<1>6. NamesFit'
  <2>1. \A z : NumberedName(z)' <=> NumberedName(z)
    BY <1>4 DEF NumberedName
  <2>2. ASSUME NEW z \in DOMAIN cells \ Old PROVE NumberedName(z)
    <3>1. Old \subseteq DOMAIN cells
      BY <1>1 DEF SimdInv
    <3> QED BY <1>1, <2>2, <3>1 DEF AllKept, NamesFit
  <2>3. \A z \in DOMAIN cells' \ Old' : NumberedName(z)'
    BY <1>2, <1>4, <2>1, <2>2
  <2> QED BY <1>1, <2>3 DEF NamesFit
<1>7. HalvesFit'
  <2> SUFFICES ASSUME NEW x \in DOMAIN cells', cells'[x].type \in {DspPorts, DspParams}
               PROVE  x \in Old /\ cells'[x] = start.cells[x] /\ cells'[x].out.dly_b = Open
    BY <1>1, <1>4 DEF HalvesFit
  <2>1. x \in DOMAIN cells \ gone /\ cells'[x] = cells[x]
    BY <1>2
  <2>2. x \in Old
    BY <1>1, <2>1 DEF SimdInv, DspPorts, DspParams
  <2>3. cells'[x] = start.cells[x]
    BY <1>1, <2>1, <2>2 DEF SimdInv
  <2>4. ASSUME start.cells[x].out.dly_b # Open PROVE FALSE
    <3>1. ~start.cells[x].keep /\ Cardinality(Partners(x)) % 2 = 0
      BY <2>2, <2>3, <2>4 DEF Regular, IsDspHalf, Old
    <3>2. x \in DspHalves \ gone
      BY <2>1, <2>2, <2>3, <3>1 DEF DspHalves, IsDspHalf
    <3>3. Cardinality(Partners(x)) % 2 = 1
      BY <1>1, <3>2, AloneIsOdd
    <3> QED BY <3>1, <3>3
  <2> QED BY <2>2, <2>3, <2>4
<1> QED BY <1>1, <1>3, <1>5, <1>6, <1>7 DEF AllKept

(* A step that changes cells in place.                                       *)
LEMMA InPlace ==
  ASSUME start \in Designs, AllKept, start' = start, gone = {}, gone' = {},
         step \in {"final", "regs"}, step' = "regs",
         DOMAIN cells' = DOMAIN cells,
         \A x \in DOMAIN cells :
           \/ cells'[x] = cells[x]
           \/ /\ Nets(cells'[x]) = Nets(cells[x])
              /\ cells'[x].type \notin {SdpMerge, TdpMerge, SdpSplit, TdpSplit}
              /\ cells'[x].type \in {"QL_DSP2", "QL_DSP3"} /\ cells'[x].inferred =>
                   IsInferredBlock(cells'[x])
  PROVE  AllKept'
<1>1. AllDriven(Left(cells', gone')) = AllDriven(start.cells)
  <2>1. AllDriven(cells') = AllDriven(cells)
    <3>1. \A x \in DOMAIN cells : Nets(cells'[x]) = Nets(cells[x])
      OBVIOUS
    <3> QED BY <3>1, CellByCell
  <2>2. AllDriven(Left(cells, {})) = AllDriven(cells) /\ AllDriven(Left(cells', {})) = AllDriven(cells')
    BY LeftAll
  <2> QED BY <2>1, <2>2 DEF AllKept
<1>2. Old' = Old
  BY DEF Old
<1>3. CellsFit'
  BY <1>2 DEF CellsFit, AllKept
<1>4. NamesFit'
  <2>1. \A z : NumberedName(z)' <=> NumberedName(z)
    BY <1>2 DEF NumberedName
  <2>2. \A z \in DOMAIN cells \ Old :
           NumberedName(z) \/ \E u, v \in Old \ DOMAIN cells : u # v /\ z = MergedName(u, v)
    BY DEF AllKept, NamesFit
  <2> QED BY <1>2, <2>1, <2>2 DEF NamesFit
<1>5. HalvesFit'
  BY DEF HalvesFit
<1> QED BY <1>1, <1>3, <1>4, <1>5 DEF AllKept

LEMMA MapKept ==
  ASSUME start \in Designs, gone = {}, AllKept, MapFinal
  PROVE  AllKept'
<1>1. /\ step = "final" /\ step' = "regs" /\ start' = start /\ gone' = {}
      /\ cells' = [x \in DOMAIN cells |-> IF cells[x].type \in {DspPorts, DspParams}
                                          THEN Single(cells[x]) ELSE cells[x]]
  BY DEF MapFinal, Goto
<1>2. ASSUME NEW x \in DOMAIN cells, cells[x].type \in {DspPorts, DspParams}
      PROVE  LET c == Single(cells[x])
             IN  /\ Nets(c) = Nets(cells[x])
                 /\ c.type \notin {SdpMerge, TdpMerge, SdpSplit, TdpSplit}
                 /\ c.inferred => IsInferredBlock(c)
  <2>1. x \in Old /\ cells[x] = start.cells[x] /\ cells[x].out.dly_b = Open
    BY <1>1, <1>2 DEF AllKept, HalvesFit
  <2>2. IsDspHalfCell(cells[x])
    BY <1>2, <2>1, OldFacts
  <2>3. Single(cells[x]).inferred = cells[x].inferred
        /\ Single(cells[x]).type \in {"QL_DSP2", "QL_DSP3"}
    BY <2>2, SingleIs
  <2> QED BY <2>1, <2>2, <2>3, SingleShown, SingleInferred
          DEF SdpMerge, TdpMerge, SdpSplit, TdpSplit
<1>3. \A x \in DOMAIN cells :
           \/ cells'[x] = cells[x]
           \/ /\ Nets(cells'[x]) = Nets(cells[x])
              /\ cells'[x].type \notin {SdpMerge, TdpMerge, SdpSplit, TdpSplit}
              /\ cells'[x].type \in {"QL_DSP2", "QL_DSP3"} /\ cells'[x].inferred =>
                   IsInferredBlock(cells'[x])
  BY <1>1, <1>2
<1> QED BY <1>1, <1>3, InPlace

LEMMA TypeKept ==
  ASSUME start \in Designs, gone = {}, AllKept, RegsType
  PROVE  AllKept'
<1>1. step = "regs" /\ step' = "regs" /\ start' = start /\ TypeDsp
  BY DEF RegsType, Stay
<1>2. PICK x \in Untyped : cells' = [cells EXCEPT ![x] = Typed(cells[x])] /\ gone' = gone
  BY <1>1 DEF TypeDsp
<1>3. x \in DOMAIN cells /\ IsInferredBlock(cells[x]) /\ cells[x].type \in {"QL_DSP2", "QL_DSP3"}
  BY DEF Untyped, AllKept, CellsFit
<1>4. /\ Nets(Typed(cells[x])) = Nets(cells[x])
      /\ Typed(cells[x]).type = TypeName(cells[x])
  <2>1. Typed(cells[x]).type = TypeName(cells[x])
    BY DEF Typed
  <2> QED BY <1>3, <2>1, TypedShown
<1>5. /\ Typed(cells[x]).type \notin {"QL_DSP2", "QL_DSP3"}
      /\ Typed(cells[x]).type \notin {SdpMerge, TdpMerge, SdpSplit, TdpSplit}
  BY <1>3, <1>4, TypeNameFits
<1>6. DOMAIN cells' = DOMAIN cells /\ cells'[x] = Typed(cells[x])
      /\ \A z \in DOMAIN cells \ {x} : cells'[z] = cells[z]
  BY <1>2, <1>3
<1>7. \A z \in DOMAIN cells :
           \/ cells'[z] = cells[z]
           \/ /\ Nets(cells'[z]) = Nets(cells[z])
              /\ cells'[z].type \notin {SdpMerge, TdpMerge, SdpSplit, TdpSplit}
              /\ cells'[z].type \in {"QL_DSP2", "QL_DSP3"} /\ cells'[z].inferred =>
                   IsInferredBlock(cells'[z])
  BY <1>4, <1>5, <1>6
<1> QED BY <1>1, <1>2, <1>6, <1>7, InPlace

LEMMA ApartFacts ==
  ASSUME start \in Designs, NEW x \in Old, NEW y \in Old, x # y
  PROVE  /\ MergedName(x, y) \notin Old /\ SplitName(x, y) \notin Old
         /\ ~NumberedName(MergedName(x, y))
         /\ \A u, v \in Old : u # v /\ <<u, v>> # <<x, y>> =>
              /\ MergedName(u, v) # MergedName(x, y)
              /\ SplitName(u, v) # SplitName(x, y)
<1> DEFINE pairs == {p \in Old \X Old : p[1] # p[2]}
           n == Cardinality(Old)
<1>1. \A p \in pairs :
        /\ {MergedName(p[1], p[2]), SplitName(p[1], p[2])} \cap Old = {}
        /\ \A i \in 0 .. n : MergedName(p[1], p[2]) # SimdNumbered(i)
        /\ \A q \in pairs :
             \/ p = q
             \/ /\ MergedName(p[1], p[2]) # MergedName(q[1], q[2])
                /\ SplitName(p[1], p[2]) # SplitName(q[1], q[2])
  BY StartFacts, Zenon DEF NamesApart, Old
<1>2. \A u, v \in Old : u # v => <<u, v>> \in pairs
  OBVIOUS
<1>3. <<x, y>> \in pairs
  OBVIOUS
<1> HIDE DEF pairs
<1>4. {MergedName(x, y), SplitName(x, y)} \cap Old = {}
      /\ \A i \in 0 .. n : MergedName(x, y) # SimdNumbered(i)
  BY <1>1, <1>3
<1>5. ASSUME NEW u \in Old, NEW v \in Old, u # v, <<u, v>> # <<x, y>>
      PROVE  MergedName(u, v) # MergedName(x, y) /\ SplitName(u, v) # SplitName(x, y)
  BY <1>1, <1>2, <1>3, <1>5
<1> QED BY <1>4, <1>5 DEF NumberedName

LEMMA MergeKept ==
  ASSUME start \in Designs, gone = {}, AllKept, BramMerge, verdict' = "ok"
  PROVE  AllKept'
<1>1. step = "brams" /\ step' = "brams" /\ start' = start
  BY DEF BramMerge, Stay
<1>2. PICK t \in {SdpMerge, TdpMerge} : MergeBrams(t)
  BY DEF BramMerge
<1>3. PICK x, y \in Mergeable(t) :
        /\ x # y /\ gone' = gone
        /\ cells' = With([z \in DOMAIN cells \ {x, y} |-> cells[z]],
                         MergedName(x, y), Merged(cells[x], cells[y]))
  BY <1>2, Zenon DEF MergeBrams, Stop
<1> DEFINE a == cells[x]
           b == cells[y]
           c == Merged(a, b)
           n == MergedName(x, y)
<1>4. /\ x \in DOMAIN cells /\ y \in DOMAIN cells /\ a.type = t /\ b.type = t
      /\ x \in Old /\ y \in Old /\ a = start.cells[x] /\ b = start.cells[y]
  BY DEF Mergeable, AllKept, CellsFit
<1>5. /\ IsCell(a) /\ IsCell(b) /\ IsRam(a) /\ IsRam(b)
      /\ DOMAIN b.in = DOMAIN a.in /\ DOMAIN b.out = DOMAIN a.out
  <2>1. a.type \in {SdpMerge, TdpMerge, SdpSplit, TdpSplit}
        /\ b.type \in {SdpMerge, TdpMerge, SdpSplit, TdpSplit}
    BY <1>4
  <2> QED BY <1>4, <2>1, OldFacts
<1>6. Nets(c) = Nets(a) \cup Nets(b)
  BY <1>4, <1>5, MergedShown
<1>7. c.type \in {SdpMerged, TdpMerged}
  BY DEF Merged
<1>8. n \notin DOMAIN cells
  <2>1. n \notin Old /\ ~NumberedName(n)
        /\ \A u, v \in Old : u # v /\ <<u, v>> # <<x, y>> => MergedName(u, v) # n
    BY <1>3, <1>4, ApartFacts
  <2>2. \A z \in DOMAIN cells \ Old :
          NumberedName(z) \/ \E u, v \in Old \ DOMAIN cells : u # v /\ z = MergedName(u, v)
    BY <1>1 DEF AllKept, NamesFit
  <2>3. ASSUME n \in DOMAIN cells PROVE FALSE
    <3>1. PICK u, v \in Old \ DOMAIN cells : u # v /\ n = MergedName(u, v)
      BY <2>1, <2>2, <2>3
    <3>2. <<u, v>> # <<x, y>>
      BY <1>4
    <3> QED BY <2>1, <3>1, <3>2
  <2> QED BY <2>3
<1> HIDE DEF c, n
<1>9. /\ DOMAIN cells' = (DOMAIN cells \ {x, y}) \cup {n} /\ cells'[n] = c
      /\ \A z \in DOMAIN cells \ {x, y} : cells'[z] = cells[z]
  BY <1>3, <1>8 DEF With, c, n
<1>10. AllDriven(Left(cells', gone')) = AllDriven(start.cells)
  <2>1. UNION {Nets(cells[z]) : z \in {x, y}} = Nets(cells[x]) \cup Nets(cells[y])
    OBVIOUS
  <2>2. Nets(cells'[n]) = UNION {Nets(cells[z]) : z \in {x, y}}
    BY <1>6, <1>9, <2>1
  <2>3. {x, y} \in SUBSET DOMAIN cells /\ n \notin DOMAIN cells \ {x, y}
    BY <1>4, <1>8
  <2>4. AllDriven(cells') = AllDriven(cells)
    BY <1>9, <2>2, <2>3, InPlaceOf
  <2>5. AllDriven(Left(cells, {})) = AllDriven(cells) /\ AllDriven(Left(cells', {})) = AllDriven(cells')
    BY LeftAll
  <2> QED BY <1>3, <2>4, <2>5 DEF AllKept
<1>11. Old' = Old
  BY <1>1 DEF Old
<1>12. CellsFit'
  <2>1. c.type \notin {SdpMerge, TdpMerge, SdpSplit, TdpSplit}
        /\ c.type \notin {"QL_DSP2", "QL_DSP3"}
    BY <1>7 DEF SdpMerge, TdpMerge, SdpSplit, TdpSplit, SdpMerged, TdpMerged
  <2> QED BY <1>1, <1>9, <1>11, <2>1 DEF CellsFit, AllKept
<1>13. NamesFit'
  <2>1. \A z : NumberedName(z)' <=> NumberedName(z)
    BY <1>11 DEF NumberedName
  <2>2. x \notin DOMAIN cells' /\ y \notin DOMAIN cells'
    BY <1>4, <1>8, <1>9
  <2>3. \A u \in Old : u \notin DOMAIN cells => u \notin DOMAIN cells'
    <3>1. n \notin Old
      BY <1>3, <1>4, ApartFacts DEF n
    <3> QED BY <1>9, <3>1
  <2>4. \A z \in DOMAIN cells' \ Old :
          NumberedName(z) \/ \E u, v \in Old \ DOMAIN cells' : u # v /\ z = MergedName(u, v)
    <3> SUFFICES ASSUME NEW z \in DOMAIN cells' \ Old, ~NumberedName(z)
                 PROVE  \E u, v \in Old \ DOMAIN cells' : u # v /\ z = MergedName(u, v)
      OBVIOUS
    <3>1. CASE z = n
      BY <1>3, <1>4, <2>2, <3>1 DEF n
    <3>2. CASE z # n
      <4>1. z \in DOMAIN cells
        BY <1>9, <3>2
      <4>2. PICK u, v \in Old \ DOMAIN cells : u # v /\ z = MergedName(u, v)
        BY <1>1, <4>1 DEF AllKept, NamesFit
      <4> QED BY <2>3, <4>2
    <3> QED BY <3>1, <3>2
  <2> QED BY <1>1, <1>11, <2>1, <2>4 DEF NamesFit
<1>14. HalvesFit'
  BY <1>1 DEF HalvesFit
<1> QED BY <1>1, <1>10, <1>12, <1>13, <1>14 DEF AllKept

LEMMA SplitKept ==
  ASSUME start \in Designs, Regular, AllKept, BramSplit
  PROVE  AllKept'
<1>1. step = "split" /\ step' = "split" /\ start' = start
  BY DEF BramSplit, Stay
<1>2. PICK p \in Pairs(Splittable) :
        /\ cells' = With(cells, SplitName(p[1], p[2]), Split(cells[p[1]], cells[p[2]]))
        /\ gone' = gone \cup {p[1], p[2]}
  BY DEF BramSplit, SplitBrams
<1> DEFINE x == p[1]
           y == p[2]
           a == cells[x]
           b == cells[y]
           c == Split(a, b)
           n == SplitName(x, y)
<1>3. /\ x \in DOMAIN cells \ gone /\ y \in DOMAIN cells \ gone /\ x # y
      /\ a.type \in {SdpSplit, TdpSplit} /\ b.type = a.type
  BY DEF Pairs, Splittable
<1>4. x \in Old /\ y \in Old /\ a = start.cells[x] /\ b = start.cells[y]
  BY <1>3 DEF AllKept, CellsFit
<1>5. /\ IsCell(a) /\ IsCell(b) /\ IsRam(a) /\ IsRam(b)
      /\ DOMAIN b.in = DOMAIN a.in /\ DOMAIN b.out = DOMAIN a.out
  <2>1. a.type \in {SdpMerge, TdpMerge, SdpSplit, TdpSplit}
        /\ b.type \in {SdpMerge, TdpMerge, SdpSplit, TdpSplit}
    BY <1>3
  <2> QED BY <1>3, <1>4, <2>1, OldFacts
<1>6. b.mode = a.mode
  BY <1>3, <1>4 DEF Regular, Old
<1>7. Nets(c) = Nets(a) \cup Nets(b)
  BY <1>3, <1>5, <1>6, SplitShown
<1>8. c.type \in {"BRAM2x18_TDP", "BRAM2x18_SDP"}
  BY DEF Split
<1>9. gone \subseteq Old /\ Old \subseteq DOMAIN cells
      /\ \A z \in DOMAIN cells \ Old : \E u, v \in gone : u # v /\ z = SplitName(u, v)
  BY <1>1 DEF AllKept, NamesFit
<1>10. n \notin DOMAIN cells /\ n \notin Old
  <2>1. n \notin Old /\ \A u, v \in Old : u # v /\ <<u, v>> # <<x, y>> => SplitName(u, v) # n
    BY <1>3, <1>4, ApartFacts
  <2>2. ASSUME n \in DOMAIN cells PROVE FALSE
    <3>1. PICK u, v \in gone : u # v /\ n = SplitName(u, v)
      BY <1>9, <2>1, <2>2
    <3>2. <<u, v>> # <<x, y>>
      BY <1>3
    <3> QED BY <1>9, <2>1, <3>1, <3>2
  <2> QED BY <2>1, <2>2
<1>11. cells' = With(cells, n, c) /\ gone' = gone \cup {x, y}
  BY <1>2
<1> HIDE DEF c, n
<1>12. /\ DOMAIN cells' = DOMAIN cells \cup {n} /\ cells'[n] = c
       /\ \A z \in DOMAIN cells : cells'[z] = cells[z]
  BY <1>10, <1>11 DEF With
<1> HIDE DEF x, y
<1>13. AllDriven(Left(cells', gone')) = AllDriven(start.cells)
  <2> DEFINE cs == Left(cells, gone)
             ds == Left(cells', gone')
  <2>1. /\ DOMAIN cs = DOMAIN cells \ gone
        /\ \A z \in DOMAIN cells \ gone : cs[z] = cells[z]
        /\ DOMAIN ds = DOMAIN cells' \ gone'
        /\ \A z \in DOMAIN cells' \ gone' : ds[z] = cells'[z]
    BY LeftIs
  <2> HIDE DEF cs, ds
  <2>2. {x, y} \subseteq DOMAIN cs /\ n \notin DOMAIN cs \ {x, y}
    BY <1>3, <1>10, <2>1
  <2>3. n \notin gone'
    BY <1>4, <1>9, <1>10, <1>11
  <2>4. DOMAIN ds = (DOMAIN cs \ {x, y}) \cup {n}
    BY <1>11, <1>12, <2>1, <2>3
  <2>5. \A z \in DOMAIN cs \ {x, y} : ds[z] = cs[z]
    BY <1>11, <1>12, <2>1
  <2>6. ds[n] = c
    BY <1>12, <2>1, <2>3
  <2>7. UNION {Nets(cs[z]) : z \in {x, y}} = Nets(cs[x]) \cup Nets(cs[y])
    OBVIOUS
  <2>8. Nets(ds[n]) = UNION {Nets(cs[z]) : z \in {x, y}}
    BY <1>3, <1>7, <2>1, <2>6, <2>7
  <2>9. AllDriven(ds) = AllDriven(cs)
    BY <2>2, <2>4, <2>5, <2>8, InPlaceOf
  <2> QED BY <2>9 DEF AllKept, cs, ds
<1>14. Old' = Old
  BY <1>1 DEF Old
<1>15. CellsFit'
  <2>1. c.type \notin {SdpMerge, TdpMerge, SdpSplit, TdpSplit}
        /\ c.type \notin {"QL_DSP2", "QL_DSP3"}
    BY <1>8 DEF SdpMerge, TdpMerge, SdpSplit, TdpSplit
  <2> QED BY <1>1, <1>12, <1>14, <2>1 DEF CellsFit, AllKept
<1>16. NamesFit'
  <2>1. gone' \subseteq Old /\ Old \subseteq DOMAIN cells'
    BY <1>4, <1>9, <1>11, <1>12
  <2>2. \A z \in DOMAIN cells' \ Old : \E u, v \in gone' : u # v /\ z = SplitName(u, v)
    BY <1>3, <1>9, <1>11, <1>12 DEF n
  <2> QED BY <1>1, <1>14, <2>1, <2>2 DEF NamesFit
<1>17. HalvesFit'
  BY <1>1 DEF HalvesFit
<1> QED BY <1>1, <1>13, <1>15, <1>16, <1>17 DEF AllKept

LEMMA SplitEndKept ==
  ASSUME start \in Designs, AllKept, SplitEnd
  PROVE  AllKept'
<1>1. /\ step = "split" /\ step' = "done" /\ start' = start
      /\ cells' = Left(cells, gone) /\ gone' = {}
  BY DEF SplitEnd, Goto, RemoveHalves, Left
<1>2. DOMAIN cells' = DOMAIN cells \ gone /\ \A x \in DOMAIN cells' : cells'[x] = cells[x]
  BY <1>1 DEF Left
<1>3. AllDriven(Left(cells', gone')) = AllDriven(start.cells)
  BY <1>1, LeftAll DEF AllKept
<1>4. CellsFit'
  BY <1>1, <1>2 DEF CellsFit, AllKept, Old
<1> QED BY <1>1, <1>3, <1>4 DEF AllKept, NamesFit, HalvesFit

(* The other steps change no cell.                                           *)
LEMMA OtherKept ==
  ASSUME AllKept, UNCHANGED <<cells, gone, start>>,
         step' = step \/ (step = "regs" /\ step' = "brams")
                      \/ step' \in {"ioff", "promote", "done"}
  PROVE  AllKept'
<1>1. CellsFit' /\ AllDriven(Left(cells', gone')) = AllDriven(start.cells)
  BY DEF AllKept, CellsFit, Old
<1>2. NamesFit'
  BY DEF AllKept, NamesFit, NumberedName, Old
<1>3. HalvesFit'
  BY DEF AllKept, HalvesFit, DspHalves, Partners, Old, IsDspHalf
<1> QED BY <1>1, <1>2, <1>3 DEF AllKept

LEMMA KeptStep == KeptInv /\ [Next]_vars => KeptInv'
<1> SUFFICES ASSUME KeptInv, [Next]_vars PROVE KeptInv'
  OBVIOUS
<1>1. start' = start
  BY DEF Next, vars, SimdPair, SimdEnd, MapFinal, RegsType, RegsEnd, BramMerge, BramEnd,
         BramSplit, SplitEnd, IoClassify, IoPromote, IoEnd, Stay
<1>2. start' \in Designs /\ SimdInv'
  BY <1>1, SimdStep DEF KeptInv
<1>3. Regular' = Regular
  BY <1>1 DEF Regular, Partners, IsDspHalf
<1>4. verdict' = "ok" => verdict = "ok"
  BY DEF Next, vars, packVars, SimdPair, SimdEnd, MapFinal, RegsType, RegsEnd, BramMerge, BramEnd,
         BramSplit, SplitEnd, IoClassify, IoPromote, IoEnd, Stay, Goto
<1>5. step' \notin {"simd", "split"} => gone' = {}
  <2>1. CASE SimdEnd \/ SplitEnd
    BY <2>1 DEF SimdEnd, SplitEnd, RemoveHalves
  <2>2. CASE SimdPair \/ BramSplit
    BY <2>2 DEF SimdPair, BramSplit, Stay
  <2>3. CASE MapFinal \/ RegsEnd \/ BramEnd \/ IoClassify \/ IoPromote \/ IoEnd \/ UNCHANGED vars
    BY <2>3 DEF KeptInv, MapFinal, RegsEnd, BramEnd, IoClassify, IoPromote, IoEnd, vars, packVars,
           Stay, Goto
  <2>4. CASE RegsType
    BY <2>4 DEF KeptInv, RegsType, TypeDsp, Stay
  <2>5. CASE BramMerge
    BY <2>5 DEF KeptInv, BramMerge, MergeBrams, Stop, Stay
  <2> QED BY <2>1, <2>2, <2>3, <2>4, <2>5 DEF Next
<1> SUFFICES ASSUME Regular, verdict' = "ok", AllKept, start \in Designs, SimdInv,
                    step \notin {"simd", "split"} => gone = {}
             PROVE  AllKept'
  BY <1>2, <1>3, <1>4, <1>5 DEF KeptInv
<1>6. CASE SimdPair
  BY <1>6, SimdKept
<1>7. CASE SimdEnd
  BY <1>7, SimdEndKept
<1>8. CASE MapFinal
  BY <1>8, MapKept DEF MapFinal, Goto
<1>9. CASE RegsType
  BY <1>9, TypeKept DEF RegsType, Stay
<1>10. CASE BramMerge
  BY <1>10, MergeKept DEF BramMerge, Stay
<1>11. CASE BramSplit
  BY <1>11, SplitKept
<1>12. CASE SplitEnd
  BY <1>12, SplitEndKept
<1>13. CASE RegsEnd \/ BramEnd \/ IoClassify \/ IoPromote \/ IoEnd \/ UNCHANGED vars
  <2>1. UNCHANGED <<cells, gone, start>>
    BY <1>13 DEF RegsEnd, BramEnd, IoClassify, IoPromote, IoEnd, vars, packVars, Stay
  <2>2. step' = step \/ (step = "regs" /\ step' = "brams")
                      \/ step' \in {"ioff", "promote", "done"}
    BY <1>13 DEF RegsEnd, BramEnd, IoClassify, IoPromote, IoEnd, vars, Stay, Goto
  <2> QED BY <2>1, <2>2, OtherKept
<1> QED BY <1>6, <1>7, <1>8, <1>9, <1>10, <1>11, <1>12, <1>13 DEF Next

(* Whatever pairs are made, merged or split, and whatever ports are taken    *)
(* off, each net keeps its function (ql-dsp-simd.cc:194-297,                 *)
(* ql-bram-merge.cc:62-131).                                                 *)
THEOREM HalvesKeptIfRegularHolds == Spec => []HalvesKeptIfRegular
<1>1. Init => KeptInv
  BY KeptInit
<1>2. KeptInv /\ [Next]_vars => KeptInv'
  BY KeptStep
<1>3. KeptInv => HalvesKeptIfRegular
  <2> SUFFICES ASSUME KeptInv, Regular, step = "done", verdict = "ok"
               PROVE  AllDriven(cells) = AllDriven(start.cells)
    BY DEF HalvesKeptIfRegular, HalvesKept, Ended
  <2>1. gone = {} /\ AllDriven(Left(cells, gone)) = AllDriven(start.cells)
    BY DEF KeptInv, AllKept
  <2> QED BY <2>1, LeftAll
<1> QED BY <1>1, <1>2, <1>3, PTL DEF Spec
==============================================================================
