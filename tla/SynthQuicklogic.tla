--------------------------- MODULE SynthQuicklogic ---------------------------
(* The flow of synth_quicklogic: which passes run, in which order, under     *)
(* which options.  src/ql-qlf-plugin/synth_quicklogic.cc.                    *)
(*                                                                           *)
(* A netlist is abstracted to the kinds of cells in it.  An item <<t, w>> is *)
(* "there are cells of type t that stand for w of the source": a product     *)
(* with its accumulator ("macc"), a product that fits one block or a small   *)
(* or a narrow one, one too wide, a flop with an enable or a synchronous     *)
(* reset, a memory.  Passes rewrite items; those of Yosys and the map files  *)
(* do what this script relies on.  Labels are the actions.                   *)
EXTENDS RelIpLink

CONSTANTS
    Sources,  \* pairs of options and a source: items and modules
    ClockedTypes,  \* cells of the library with a clock pin
    Metrics   \* results of abc: [nd, lev]

(* Sources hold no cell that only the flow makes, and no accumulator without *)
(* its product.  A network without nodes has no levels.                      *)
ASSUME FlowAssumption ==
    /\ \A s \in Sources : \A i \in s.items :
         /\ i[1] \notin {"QL_DSP4_MULT", "$__soft_mul"}
         /\ i[2] = "macc" => i[1] # "$add"
    /\ Metrics \subseteq {m \in [nd : Nat, lev : Nat] : m.nd = 0 => m.lev = 0}

(* The cells a front end brings.  Yosys reads RTL; Synplify writes a netlist *)
(* of its own library, and of the flops of qlf_k6n10f.  Both may bring DSP   *)
(* cells that were instantiated.                                             *)
SourceTypes(opts) ==
    {"QL_DSP4", "QL_DSPV2"} \cup
      IF ~opts.synplify
      THEN {"$mul", "$add", "$dff", "$dffe", "$sdff", "$gate", "$mem"}
      ELSE {"LUT6", "OBUF_FF", "RAMB36E2"}
             \cup IF opts.family = "qlf_k6n10f" THEN {"dffre"} ELSE {}

ASSUME SourcesAssumption ==
    \A s \in Sources :
      /\ {"family", "synplify"} \subseteq DOMAIN s.o
      /\ \A i \in s.items : i[1] \in SourceTypes(s.o)

(* hierarchy -check has found all modules; the library's marks are on the    *)
(* cells with a clock pin; the copy of an IP gets a name that is new.        *)
ASSUME ModulesAssumption ==
    \A s \in Sources :
      /\ s.ips \in Seq(DOMAIN IpFile)
      /\ Top \in DOMAIN s.module /\ ~s.module[Top].box
      /\ \A m \in DOMAIN s.module :
           /\ IsDefinition(s.module[m]) /\ s.module[m].clk = (m \in ClockedTypes)
           /\ \A c \in DOMAIN s.module[m].cells : s.module[m].cells[c].type \in DOMAIN s.module
           /\ \A i \in DOMAIN s.module[Top].cells : CopyName(m, i) \notin DOMAIN s.module

VARIABLES
    o,        \* the members that hold the options
    label,    \* the label that comes next
    items,    \* the netlist in memory
    split,    \* its ports are split into bits
    noDff,    \* noDFFArgs: what opt must not infer
    saved,    \* the designs pushed
    checked,  \* items ql_dsp4_check has seen
    lut,      \* the results of abc and the network taken: [lut6, de, equal, take]
    out       \* what is written: name of the file -> contents

flowVars == <<o, label, items, split, noDff, saved, checked, lut, out>>
vars     == <<linkVars, flowVars>>

Order == <<"begin", "prepare", "map_dsp", "coarse", "map_bram", "map_ffram",
           "map_gates", "map_ffs", "map_luts", "map_cells", "iomap", "check",
           "finalize", "map_synplify", "link_rel_ips", "clocks", "blif", "edif",
           "verilog", "end">>

NextLabel == Order[1 + CHOOSE i \in DOMAIN Order : Order[i] = label]

At(l) ==
    /\ verdict = "ok" /\ label = l
    /\ label' = NextLabel

Same(vs) == UNCHANGED vs /\ UNCHANGED <<linkVars, o>>

Turn(S, f)  == {IF i[1] \in DOMAIN f THEN <<f[i[1]], i[2]>> ELSE i : i \in S}
All(T, t)   == [k \in T |-> t]
Written     == [k \in {} |-> {}]
K6n10f      == o.family = "qlf_k6n10f"

(* clear_flags(), parse_options() and finalize_options().                    *)
Finalized(given) ==
    [given EXCEPT !.nosdff = @ \/ given.family = "qlf_k4n8",
                  !.abcOpt = @ /\ ~given.noOpt]

Init ==
    /\ \E s \in Sources :
         /\ o = Finalized(s.o) /\ items = s.items
         /\ module = s.module /\ ips = s.ips
    /\ linked = <<>> /\ stamped = 0 /\ flat = Written /\ verdict = "ok"
    /\ label = "begin" /\ split = FALSE /\ noDff = {} /\ saved = <<>>
    /\ checked = {} /\ lut = [take |-> "none"] /\ out = Written

------------------------------------------------------------------------------
(* begin: the models that are read are the ones instances may have.          *)

DspModels ==
    (IF o.dspv4 THEN {"QL_DSP4", "QL_DSPV2"}
     ELSE IF o.dspv2 THEN {"QL_DSPV2"} ELSE {"QL_DSP2"})
      \cup IF o.synplify THEN {"QL_DSPV2", "RAMB36E2", "LUT6", "OBUF_FF"} ELSE {}

Instantiated == {"QL_DSP4", "QL_DSPV2", "QL_DSP2", "RAMB36E2", "LUT6", "OBUF_FF"}

Begin ==
    /\ verdict = "ok" /\ label = "begin"
    /\ LET models == IF K6n10f THEN DspModels ELSE {}
           unread == {i \in items : i[1] \in Instantiated \ models}
       IN  IF unread # {}
           THEN Fail("hierarchy") /\ UNCHANGED flowVars
           ELSE label' = NextLabel
                /\ Same(<<items, split, noDff, saved, checked, lut, out>>)

(* prepare.  Front ends differ: the translation of IO flops is first with    *)
(* Synplify, and only without it are the arguments of opt set.  A QL_DSPV2   *)
(* read with its contents is flattened into the product it computes.         *)
OptDff(S, no) ==
    {CASE i = <<"$dff", "en">> /\ "dffe" \notin no -> <<"$dffe", "en">>
       [] i = <<"$dff", "sr">> /\ "sdff" \notin no -> <<"$sdff", "sr">>
       [] OTHER -> i : i \in S}

Opt(S, no) == IF o.noOpt THEN S ELSE OptDff(S, no)

(* ql_io_translate: one register of the border for each that Synplify chose. *)
IoTranslated(S) == IF o.v3 THEN Turn(S, All({"OBUF_FF"}, "io_sdffr")) ELSE S

Prepare ==
    LET no == (IF o.nosdff THEN {"sdff"} ELSE {})
                \cup IF o.family = "qlf_k4n8" THEN {"dffe"} ELSE {}
        io == IF o.synplify THEN IoTranslated(items) ELSE items
        read == IF o.dspv2 \/ o.dspv4 THEN io ELSE Turn(io, All({"QL_DSPV2"}, "$mul"))
    IN  /\ At("prepare")
        /\ IF o.synplify THEN items' = read /\ UNCHANGED noDff
           ELSE noDff' = no /\ items' = Opt(items, no)
        /\ Same(<<split, saved, checked, lut, out>>)

------------------------------------------------------------------------------
(* map_dsp.                                                                  *)

(* +/mul2dsp.v: products of one of the widths `declined' become $__soft_mul, *)
(* wide ones are cut into pieces, and all others become cells `name'.  It    *)
(* knows products only: an accumulator stays behind as an adder.             *)
Mul2Dsp(S, name, declined) ==
    UNION {IF i[1] # "$mul" THEN {i}
           ELSE IF i[2] \in declined THEN {<<"$__soft_mul", i[2]>>}
           ELSE CASE i[2] = "wide" -> {<<name, "piece">>, <<"$add", "wide">>}
                  [] i[2] = "macc" -> {<<name, "macc">>, <<"$add", "macc">>}
                  [] OTHER         -> {<<name, i[2]>>} : i \in S}

Soft(S) == Turn(S, All({"$__soft_mul"}, "$mul"))

(* ql_dspv4 takes every product that one cell can hold.                      *)
QlDspv4(S) ==
    {IF i[1] = "$mul" /\ i[2] \notin {"wide", "narrow"} THEN <<"QL_DSP4", i[2]>>
     ELSE i : i \in S}

Pieces(S) ==
    Turn(Mul2Dsp(S, "$__QL_DSP4_MUL", {"narrow"}), All({"$__QL_DSP4_MUL"}, "$mul"))

(* Faulty form of InferV4: wide products are cut first.                      *)
InferV4Late(S) == Soft(QlDspv4(Pieces(S)))

(* Faulty form of InferV4: what mul2dsp declined is not restored.            *)
InferV4Declined(S) == QlDspv4(Pieces(QlDspv4(S)))

InferV4(S) == Soft(QlDspv4(Pieces(QlDspv4(S))))

(* ql_dsp_macc takes products with their accumulator.                        *)
Macc(S, type) ==
    {IF i[1] = "$mul" /\ i[2] = "macc" THEN <<type, "macc">> ELSE i : i \in S}

InferV2(S) ==
    LET a == Soft(Mul2Dsp(Macc(S, "QL_DSPV2"), "QL_DSPV2", {"small", "narrow"}))
    IN  Soft(Mul2Dsp(a, "QL_DSPV2", {"narrow"}))

InferV1(S) ==
    LET a == Soft(Mul2Dsp(Macc(S, "dsp_t1_20x18x64"), "dsp_t1_20x18x64",
                          {"small", "narrow"}))
        b == Soft(Mul2Dsp(a, "dsp_t1_10x9x32", {"narrow"}))
        simd == Turn(b, All({"dsp_t1_10x9x32", "dsp_t1_20x18x64"}, "QL_DSP2"))
    IN  Turn(simd, All({"QL_DSP2"}, "QL_DSP2_MULT"))

Bridged(S) == Turn(S, All({"QL_DSPV2"}, "QL_DSP4"))
Lowered(S) == Turn(S, All({"QL_DSP4"}, "QL_DSP4_MULT"))
Sees(S)    == {i \in S : i[1] = "QL_DSP4"}

(* Faulty form of Seen: the control words are checked before the bridge.     *)
SeenEarly(S) == Sees(S)

(* What ql_dsp4_check is shown: after all that makes QL_DSP4 cells.          *)
Seen(S) == Sees(Bridged(S))

MapDsp ==
    LET native == IF o.synplify THEN items ELSE InferV4(items)
    IN  /\ At("map_dsp")
        /\ IF ~K6n10f \/ o.nodsp THEN UNCHANGED <<items, checked>>
           ELSE IF o.dspv4
           THEN /\ checked' = Seen(native)
                /\ items' = Lowered(Bridged(native))
           ELSE /\ UNCHANGED checked
                /\ items' = IF o.dspv2
                            THEN Turn(IF o.synplify THEN items ELSE InferV2(items),
                                      All({"QL_DSPV2"}, "QL_DSPV2_MULT"))
                            ELSE InferV1(items)
        /\ Same(<<split, noDff, saved, lut, out>>)

------------------------------------------------------------------------------
(* coarse, map_bram, map_ffram.                                              *)

Coarse ==
    /\ At("coarse")
    /\ items' = Opt(items, noDff)
    /\ Same(<<split, noDff, saved, checked, lut, out>>)

BramType ==
    IF ~o.bramTypes THEN "TDP36K"
    ELSE IF o.notdpram THEN IF o.bramecc THEN "SDP36K_ECC" ELSE "SDP36K"
    ELSE IF o.bramecc THEN "TDP36K_ECC" ELSE "TDP36K_BRAM"

(* A memory too small for the library's rules is left.                       *)
MapBram ==
    LET halves == {IF i = <<"$mem", "large">> THEN <<"half", "large">> ELSE i :
                     i \in items}
    IN  /\ At("map_bram")
        /\ items' = IF K6n10f /\ o.inferBram
                    THEN Turn(halves, [t \in {"half"} \cup
                                         (IF o.synplify THEN {"RAMB36E2"} ELSE {}) |->
                                         BramType])
                    ELSE items
        /\ Same(<<split, noDff, saved, checked, lut, out>>)

MemoryMap(S) ==
    {i \in S : i[1] # "$mem"} \cup
      IF \E i \in S : i[1] = "$mem" THEN {<<"$dff", "en">>, <<"$gate", "mem">>} ELSE {}

MapFfram ==
    /\ At("map_ffram")
    /\ items' = IF o.synplify THEN items
                ELSE Opt(MemoryMap(Opt(items, noDff)), noDff)
    /\ Same(<<split, noDff, saved, checked, lut, out>>)

------------------------------------------------------------------------------
(* map_gates, map_ffs.                                                       *)

MapGates ==
    /\ At("map_gates")
    /\ items' = Opt(Turn(items, [t \in {"$add", "$mul"} |->
                                   IF t = "$add" /\ o.inferAdder THEN "adder_carry"
                                   ELSE "$gate"]), noDff)
    /\ Same(<<split, noDff, saved, checked, lut, out>>)

(* dfflegalize may keep flops with a synchronous reset.                      *)
Resets == ~o.nosdff

Legal ==
    [t \in {"$dff", "$dffe", "$sdff"} |->
       LET sync == t = "$sdff" /\ Resets
       IN  IF ~K6n10f THEN "$_DFF_"
           ELSE IF sync THEN IF o.noffenable THEN "$_SDFF_" ELSE "$_SDFFE_"
           ELSE IF o.noffenable THEN "$_DFF_" ELSE "$_DFFE_"]

FfsMap ==
    [t \in {"$_DFF_", "$_DFFE_", "$_SDFF_", "$_SDFFE_"} |->
       IF ~K6n10f THEN "dff" ELSE IF t \in {"$_DFF_", "$_DFFE_"} THEN "dffre"
       ELSE "sdffre"]

MapFfs ==
    LET legal == Turn(items, Legal)
    IN  /\ At("map_ffs")
        /\ items' = IF o.noffmap THEN legal ELSE Turn(legal, FfsMap)
        /\ Same(<<split, noDff, saved, checked, lut, out>>)

------------------------------------------------------------------------------
(* map_luts.  With -de the netlist is mapped twice and the results are       *)
(* compared by the logs of abc.                                              *)

ToLuts(S) ==
    {IF i[1] \in {"$gate"} \cup (IF o.synplify /\ o.de # "" THEN {"LUT6"} ELSE {})
     THEN <<"$lut", i[2]>> ELSE i : i \in S}

(* A fraction of the way from the better to the worse value; by then one     *)
(* value is at each end.                                                     *)
Share(x, y) == IF x <= y THEN 0 ELSE 1
Score(a, b) == Share(a.nd, b.nd) + Share(a.lev, b.lev)

TakeDe(de, l6) ==
    CASE o.de = "delay" -> de.lev <= l6.lev
      [] o.de = "area"  -> de.nd <= l6.nd
      [] o.de = "mixed" ->
           \/ de.nd <= l6.nd /\ de.lev <= l6.lev
           \/ ~(de.nd >= l6.nd /\ de.lev >= l6.lev) /\ Score(de, l6) <= Score(l6, de)

Compare ==
    \E l6, de \in Metrics : \E equal \in BOOLEAN :
      lut' = [lut6 |-> l6, de |-> de, equal |-> equal,
              take |-> IF equal /\ TakeDe(de, l6) THEN "de" ELSE "lut6"]

MapLuts ==
    /\ At("map_luts")
    /\ IF ~o.abcOpt THEN UNCHANGED <<items, lut>>
       ELSE /\ items' = ToLuts(items)
            /\ IF K6n10f /\ ~o.abc9 /\ o.de # "" THEN Compare ELSE UNCHANGED lut
    /\ Same(<<split, noDff, saved, checked, out>>)

------------------------------------------------------------------------------
(* Labels that change no kind of cell here: map_cells renames the LUTs of    *)
(* other families, iomap moves flops to the border (see QlIoff), check and   *)
(* finalize add cells for constants and pads.                                *)
Passive ==
    /\ \E l \in {"map_cells", "iomap", "check", "finalize"} : At(l)
    /\ Same(<<items, split, noDff, saved, checked, lut, out>>)

MapSynplify ==
    LET no == noDff
        luts == Turn(OptDff(items, no), [t \in {"LUT6", "OBUF_FF"} |->
                                           IF t = "LUT6" THEN "$lut" ELSE "dff"])
    IN  /\ At("map_synplify")
        /\ items' = IF K6n10f /\ o.synplify THEN OptDff(luts, no) ELSE items
        /\ Same(<<split, noDff, saved, checked, lut, out>>)

LinkRelIps ==
    /\ label = "link_rel_ips"
    /\ \/ ImportIp /\ UNCHANGED flowVars
       \/ StampIp /\ UNCHANGED flowVars
       \/ /\ FlattenIps
          /\ label' = NextLabel
          /\ UNCHANGED <<o, items, split, noDff, saved, checked, lut, out>>

------------------------------------------------------------------------------
(* clocks, blif, edif, verilog.                                              *)

(* The cells on clock nets: those of the flow are on "clk", those of an IP   *)
(* on the net their instance connects.  techmap gives each cell a wire of    *)
(* its own for the net.                                                      *)
Flops == {"dff", "dffre", "sdffre", "io_sdffr"}
Brams == {"TDP36K", "TDP36K_BRAM", "SDP36K", "TDP36K_ECC", "SDP36K_ECC"}
Dsps  == {"QL_DSP4_MULT", "QL_DSPV2_MULT", "QL_DSP2_MULT"}

Clocked == {i \in items : i[1] \in Flops \cup Brams \cup Dsps}

Pins(types) ==
    {<<"clk", i>> : i \in Clocked} \cup
    {<<module[Top].cells[p[1]].net, p>> :
       p \in {p \in DOMAIN flat : flat[p].type \in types}}

(* find_clock_wires(): a pin counts if the port is marked clkbuf_sink.       *)
ClockPins == Pins({t \in DOMAIN module : module[t].clk})

(* The wire that stands for all wires of a net.                              *)
ClockWire(p) == <<p[1], "net">>

Netlist == [items |-> items, split |-> split, flat |-> flat]

Write(f, what) ==
    out' = [g \in DOMAIN out \cup {f} |-> IF g = f THEN what ELSE out[g]]

Clocks ==
    /\ At("clocks")
    /\ Write("clocks", {ClockWire(p) : p \in ClockPins})
    /\ Same(<<items, split, noDff, saved, checked, lut>>)

(* design -push-copy, -push and -pop, on the design worked on and the stack. *)
PushCopy(s)  == [s EXCEPT !.stack = <<s.now>> \o @]
Push(s, new) == [now |-> new, stack |-> <<s.now>> \o s.stack]
Pop(s)       == [now |-> Head(s.stack), stack |-> Tail(s.stack)]

(* prepare_rel_blif_scratch(): of the attributes only those the constraint   *)
(* generator reads are kept.                                                 *)
Trimmed(n) == [n EXCEPT !.items = {<<i[1], "any">> : i \in @}]

(* Faulty form of Scratch: the copy is made when the design is trimmed.      *)
ScratchLate(s) == PushCopy([s EXCEPT !.now = Trimmed(@)])

(* The copy to be trimmed for the relative placement flow.                   *)
Scratch(s) == [PushCopy(s) EXCEPT !.now = Trimmed(@)]

(* write_blif makes buffers of outputs that are part of a wide net of a DSP  *)
(* cell; the file of -dspv4 is read back and loses them.                     *)
Buffer == <<"$lut", "buffer">>
Buffered(n) ==
    [n EXCEPT !.items = IF \E i \in @ : i[1] = "QL_DSP4_MULT" THEN @ \cup {Buffer} ELSE @]
Unbuffered(n) == [n EXCEPT !.items = @ \ {Buffer}]

Blif ==
    LET rel     == linked # <<>>
        start   == [now |-> Netlist, stack |-> saved]
        copy    == IF rel THEN Scratch(start) ELSE start
        first   == Buffered(copy.now)
        again   == Push(copy, Unbuffered(first))
        written == IF o.dspv4 THEN again.now ELSE first
        back    == IF o.dspv4 THEN Pop(again) ELSE copy
        end     == IF rel THEN Pop(back) ELSE back
    IN  /\ At("blif")
        /\ IF o.blif
           THEN /\ Write("blif", written)
                /\ items' = end.now.items /\ split' = end.now.split
                /\ saved' = end.stack
           ELSE UNCHANGED <<out, items, split, saved>>
        /\ Same(<<noDff, checked, lut>>)

Edif ==
    /\ At("edif")
    /\ IF o.edif THEN split' = TRUE /\ Write("edif", [Netlist EXCEPT !.split = TRUE])
       ELSE UNCHANGED <<split, out>>
    /\ Same(<<items, noDff, saved, checked, lut>>)

Verilog ==
    /\ At("verilog")
    /\ IF o.verilog THEN Write("verilog", Netlist) ELSE UNCHANGED out
    /\ Same(<<items, split, noDff, saved, checked, lut>>)

Stopped == (label = "end" \/ verdict # "ok") /\ UNCHANGED vars

Next ==
    \/ Begin \/ Prepare \/ MapDsp \/ Coarse \/ MapBram \/ MapFfram \/ MapGates
    \/ MapFfs \/ MapLuts \/ Passive \/ MapSynplify \/ LinkRelIps \/ Clocks
    \/ Blif \/ Edif \/ Verilog \/ Stopped

Spec == Init /\ [][Next]_vars

------------------------------------------------------------------------------
(* What the script is for.                                                   *)

Ended == label = "end"

(* Models the architecture has for cells of the flow, and what an option     *)
(* asks to leave as it is.                                                   *)
Models ==
    {"$lut", "adder_carry", "io_sdffr"}
      \cup (IF ~K6n10f THEN {"dff"}
            ELSE {"dffre"} \cup (IF o.nosdff THEN {} ELSE {"sdffre"})
                   \cup (IF o.synplify /\ ~o.v3 THEN {"dff"} ELSE {}))
      \cup (IF K6n10f /\ o.inferBram THEN {BramType} ELSE {})
      \cup (IF ~K6n10f \/ o.nodsp THEN {}
            ELSE {IF o.dspv4 THEN "QL_DSP4_MULT" ELSE IF o.dspv2
                  THEN "QL_DSPV2_MULT" ELSE "QL_DSP2_MULT"})

LeftAlone ==
    (IF o.abcOpt THEN {} ELSE {"$gate", "LUT6"})
      \cup (IF o.noffmap THEN {"$_DFF_", "$_DFFE_", "$_SDFF_", "$_SDFFE_"} ELSE {})
      \cup (IF o.nodsp THEN {"QL_DSP4", "QL_DSPV2"} ELSE {})
      \cup (IF o.synplify /\ ~o.inferBram THEN {"RAMB36E2"} ELSE {})

(* The BLIF holds only cells the architecture has a model for, whatever the  *)
(* options: every product, memory, flop and cell of another tool's library   *)
(* has been through the passes that turn it into one.                        *)
OnlyPlaceable ==
    Ended /\ "blif" \in DOMAIN out =>
      \A i \in out["blif"].items : i[1] \in Models \cup LeftAlone

(* A product and the accumulator behind it end in the same block: no pass    *)
(* that knows products only comes first (synth_quicklogic.cc:1015-1018).     *)
FusedWhole == \A i \in items : i[2] = "macc" => i[1] # "$add"

(* Every DSP cell that is lowered to its parts has been checked while its    *)
(* control word could be read, wherever it came from (:1112-1116).           *)
LoweredChecked ==
    \A i \in items : i[1] = "QL_DSP4_MULT" => \E c \in checked : c[2] = i[2]

(* Writing the BLIF, through copies and a round trip, leaves the design that *)
(* -edif and -verilog write as it was (:1524-1572).                          *)
BlifKeepsDesign ==
    [][label = "blif" => UNCHANGED <<items, split, flat, saved>>]_vars

(* The clock list names every net with a clock pin in the netlist of the     *)
(* BLIF, the cells of linked IPs included, and each of them once: linking    *)
(* an IP keeps the library's marks on ports (:1493-1500, :630-646).          *)
ClocksOfBlif ==
    LET nets == {p[1] : p \in Pins(ClockedTypes)}
    IN  Ended => /\ {w[1] : w \in out["clocks"]} = nets
                 /\ Cardinality(out["clocks"]) = Cardinality(nets)

(* With -de mixed the other mapping is taken unless it is not equivalent or  *)
(* the first one is better in one metric and no worse in the other: of two   *)
(* that are each better in one, the scores never tell (:1342-1385).          *)
MixedTakesDe ==
    LET l6 == lut.lut6  de == lut.de
    IN  (o.de = "mixed" /\ lut.take # "none") =>
          (lut.take = "lut6" <=>
             \/ ~lut.equal
             \/ l6.nd <= de.nd /\ l6.lev <= de.lev /\ l6 # de)
==============================================================================
