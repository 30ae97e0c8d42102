------------------------------ MODULE DspFfRules ------------------------------
(* load_rules() of src/dsp-ff-plugin/dsp_ff.cc: a file of rules, one         *)
(* statement at a time.  A `dsp' section describes the ports of a cell type  *)
(* and of its aliases, a `port' section in it the register behind one or     *)
(* several ports, an `ff' section a flop type.                               *)
(*                                                                           *)
(* A statement is [kw, args, val]: args are the names on the line, val what  *)
(* its <name>=<value> pairs say.  Comments, blank lines and the splitting of *)
(* a line are left out; so are numbers that do not parse.                    *)
EXTENDS Naturals, Sequences, FiniteSets

CONSTANTS
    NoPort,  \* the empty identifier
    Unset    \* 1'bx: the default of an association that is not given

Kinds == {"clk", "rst", "ena"}

VARIABLES
    file,       \* the statements of the file
    line,       \* the one that is read next
    sec,        \* the section it is in: "", "dsp", "port" or "ff"
    dspTypes,   \* descriptions of DSP types so far, the last one open
    flopTypes,  \* descriptions of flop types so far
    aliases,    \* further names of the open `dsp' section
    names,      \* all the port names of the open `port' section
    assoc,      \* portType.assoc
    reg,        \* registerType
    dsps,       \* m_DspTypes: type -> register -> its ports
    flops,      \* m_FlopTypes: type -> description
    status      \* "load", "loaded" or "error"

loadVars == <<file, line, sec, dspTypes, flopTypes, aliases, names, assoc, reg,
              dsps, flops, status>>

Nothing     == [k \in {} |-> {}]
Over(f, g)  == [k \in DOMAIN f \cup DOMAIN g |->
                  IF k \in DOMAIN f THEN f[k] ELSE g[k]]
EndOf(s)    == s[Len(s)]
AtEnd(s, v) == [s EXCEPT ![Len(s)] = v]

NoAssoc    == [k \in Kinds |-> [port |-> NoPort, default |-> Unset]]
NoRegister == [set |-> Nothing, map |-> Nothing, con |-> Nothing]

(* Statements stand in a row, and names on a line.                           *)
IsSequence(s) == Len(s) \in Nat /\ s = [i \in 1 .. Len(s) |-> s[i]]
IsFile(f)     == IsSequence(f) /\ \A i \in DOMAIN f : IsSequence(f[i].args)

LoadInit(files) ==
    /\ file \in files
    /\ line = 1 /\ sec = "" /\ status = "load"
    /\ dspTypes = <<>> /\ flopTypes = <<>> /\ aliases = <<>> /\ names = <<>>
    /\ assoc = NoAssoc /\ reg = NoRegister
    /\ dsps = Nothing /\ flops = Nothing

------------------------------------------------------------------------------
(* Which statements are accepted where.                                      *)

Arity(s) ==
    CASE s.kw \in {"dsp", "port"}        -> Len(s.args) >= 1
      [] s.kw \in {"ff", "d", "q"}       -> Len(s.args) = 1
      [] s.kw \in Kinds                  -> Len(s.args) = IF sec = "port" THEN 2
                                                                         ELSE 1
      [] s.kw \in {"enddsp", "endport", "endff"} -> s.args = <<>>
      [] OTHER                           -> TRUE

Section(s) ==
    CASE s.kw \in {"dsp", "ff"}             -> {""}
      [] s.kw \in {"port", "enddsp"}        -> {"dsp"}
      [] s.kw \in {"endport", "con"}        -> {"port"}
      [] s.kw \in {"endff", "d", "q", "require", "match"} -> {"ff"}
      [] s.kw \in Kinds \cup {"set", "map"} -> {"port", "ff"}
      [] OTHER                              -> {}

Reads(kws) ==
    LET s == file[line]
    IN  /\ status = "load" /\ line <= Len(file)
        /\ s.kw \in kws /\ sec \in Section(s) /\ Arity(s)
        /\ line' = line + 1

SyntaxError ==
    /\ status = "load" /\ line <= Len(file)
    /\ ~(sec \in Section(file[line]) /\ Arity(file[line]))
    /\ status' = "error"
    /\ UNCHANGED <<file, line, sec, dspTypes, flopTypes, aliases, names, assoc,
                   reg, dsps, flops>>

------------------------------------------------------------------------------
(* Statements.                                                               *)

OpenDsp ==
    /\ Reads({"dsp"})
    /\ sec' = "dsp"
    /\ dspTypes' = Append(dspTypes, [name |-> Head(file[line].args),
                                     regs |-> Nothing])
    /\ aliases' = Tail(file[line].args)
    /\ UNCHANGED <<file, flopTypes, names, assoc, reg, dsps, flops, status>>

(* An alias is a copy of the description as the section leaves it.           *)
CloseDsp ==
    /\ Reads({"enddsp"})
    /\ sec' = ""
    /\ dspTypes' = dspTypes \o [i \in DOMAIN aliases |->
                      [EndOf(dspTypes) EXCEPT !.name = aliases[i]]]
    /\ UNCHANGED <<file, flopTypes, aliases, names, assoc, reg, dsps, flops,
                   status>>

(* Faulty form of OpenPort: the register of the port before is not cleared.  *)
OpenPortStale ==
    /\ Reads({"port"})
    /\ sec' = "port"
    /\ names' = file[line].args
    /\ assoc' = NoAssoc /\ UNCHANGED reg
    /\ UNCHANGED <<file, dspTypes, flopTypes, aliases, dsps, flops, status>>

OpenPort ==
    /\ Reads({"port"})
    /\ sec' = "port"
    /\ names' = file[line].args
    /\ assoc' = NoAssoc /\ reg' = NoRegister
    /\ UNCHANGED <<file, dspTypes, flopTypes, aliases, dsps, flops, status>>

(* Ports whose sections say the same of the register share it.               *)
ClosePort ==
    LET open  == EndOf(dspTypes)
        ports == [i \in DOMAIN names |-> [spec |-> names[i], assoc |-> assoc]]
        known == IF reg \in DOMAIN open.regs THEN open.regs[reg] ELSE <<>>
        regs  == [r \in DOMAIN open.regs \cup {reg} |->
                    IF r = reg THEN known \o ports ELSE open.regs[r]]
    IN  /\ Reads({"endport"})
        /\ sec' = "dsp"
        /\ dspTypes' = AtEnd(dspTypes, [open EXCEPT !.regs = regs])
        /\ UNCHANGED <<file, flopTypes, aliases, names, assoc, reg, dsps, flops,
                       status>>

OpenFlop ==
    /\ Reads({"ff"})
    /\ sec' = "ff"
    /\ flopTypes' = Append(flopTypes,
          [name |-> Head(file[line].args),
           ports |-> [k \in Kinds \cup {"d", "q"} |-> NoPort],
           match |-> {}, require |-> Nothing, set |-> Nothing, map |-> Nothing])
    /\ UNCHANGED <<file, dspTypes, aliases, names, assoc, reg, dsps, flops,
                   status>>

CloseFlop ==
    /\ Reads({"endff"})
    /\ sec' = ""
    /\ UNCHANGED <<file, dspTypes, flopTypes, aliases, names, assoc, reg, dsps,
                   flops, status>>

PortStatement ==
    LET s == file[line]
    IN  /\ sec = "port" /\ Reads(Kinds \cup {"set", "map", "con"})
        /\ assoc' = IF s.kw \in Kinds
                    THEN [assoc EXCEPT ![s.kw] = [port |-> s.args[1],
                                                  default |-> s.args[2]]]
                    ELSE assoc
        /\ reg' = CASE s.kw = "con" -> [reg EXCEPT !.con = Over(@, s.val)]
                    [] s.kw = "set" -> [reg EXCEPT !.set = s.val]
                    [] s.kw = "map" -> [reg EXCEPT !.map = s.val]
                    [] OTHER        -> reg
        /\ UNCHANGED <<file, sec, dspTypes, flopTypes, aliases, names, dsps,
                       flops, status>>

FlopStatement ==
    LET s == file[line]
        f == EndOf(flopTypes)
    IN  /\ sec = "ff"
        /\ Reads(Kinds \cup {"d", "q", "require", "match", "set", "map"})
        /\ flopTypes' = AtEnd(flopTypes,
              CASE s.kw = "require" -> [f EXCEPT !.require = Over(@, s.val)]
                [] s.kw = "match"   -> [f EXCEPT !.match = @ \cup
                                          {s.args[i] : i \in DOMAIN s.args}]
                [] s.kw = "set"     -> [f EXCEPT !.set = s.val]
                [] s.kw = "map"     -> [f EXCEPT !.map = s.val]
                [] OTHER            -> [f EXCEPT !.ports[s.kw] = s.args[1]])
        /\ UNCHANGED <<file, sec, dspTypes, aliases, names, assoc, reg, dsps,
                       flops, status>>

(* The end of the file: lists become maps.  An open section is not noticed.  *)
NamedTwice(s) == \E i, j \in DOMAIN s : i # j /\ s[i].name = s[j].name
Named(s)      == {s[i].name : i \in DOMAIN s}
Entry(s, n)   == CHOOSE i \in DOMAIN s : s[i].name = n

EndOfFile ==
    /\ status = "load" /\ line > Len(file)
    /\ IF NamedTwice(dspTypes) \/ NamedTwice(flopTypes)
       THEN status' = "error" /\ UNCHANGED <<dsps, flops>>
       ELSE /\ status' = "loaded"
            /\ dsps' = [n \in Named(dspTypes) |->
                          dspTypes[Entry(dspTypes, n)].regs]
            /\ flops' = [n \in Named(flopTypes) |->
                           flopTypes[Entry(flopTypes, n)]]
    /\ UNCHANGED <<file, line, sec, dspTypes, flopTypes, aliases, names, assoc,
                   reg>>

LoadNext ==
    \/ OpenDsp \/ CloseDsp \/ OpenPort \/ ClosePort \/ OpenFlop \/ CloseFlop
    \/ PortStatement \/ FlopStatement \/ SyntaxError \/ EndOfFile

------------------------------------------------------------------------------
(* What the file says, read off its lines.                                   *)

(* Pairs of lines that open and close a section.                             *)
Spans(open, close) ==
    {s \in (DOMAIN file) \X (DOMAIN file) :
       /\ file[s[1]].kw = open /\ file[s[2]].kw = close /\ s[1] < s[2]
       /\ \A i \in s[1] + 1 .. s[2] - 1 : file[i].kw \notin {open, close}}

Inside(span, kw) == {i \in span[1] .. span[2] : file[i].kw = kw}
LatestOf(I)      == CHOOSE i \in I : \A j \in I : j <= i
EarliestOf(I)    == CHOOSE i \in I : \A j \in I : i <= j

WrittenLast(span, kw) ==
    IF Inside(span, kw) = {} THEN Nothing ELSE file[LatestOf(Inside(span, kw))].val
WrittenFirst(span, kw) ==
    LET lines == Inside(span, kw)
        keys  == UNION {DOMAIN file[i].val : i \in lines}
    IN  [k \in keys |-> file[EarliestOf({i \in lines :
                                           k \in DOMAIN file[i].val})].val[k]]

WrittenRegister(span) ==
    [set |-> WrittenLast(span, "set"), map |-> WrittenLast(span, "map"),
     con |-> WrittenFirst(span, "con")]

WrittenAssoc(span) ==
    [k \in Kinds |->
       IF Inside(span, k) = {} THEN NoAssoc[k]
       ELSE LET a == file[LatestOf(Inside(span, k))].args
            IN  [port |-> a[1], default |-> a[2]]]

(* The loaded description of every type a `dsp' section names, and of its    *)
(* aliases, is what the section says.                                        *)
DescribedAsWritten ==
    \A span \in Spans("dsp", "enddsp") : \A a \in DOMAIN file[span[1]].args :
        LET regs == dsps[file[span[1]].args[a]]
            here == {p \in Spans("port", "endport") :
                       span[1] < p[1] /\ p[2] < span[2]}
            said == UNION {{<<WrittenRegister(p),
                              [spec |-> file[p[1]].args[i],
                               assoc |-> WrittenAssoc(p)]>> :
                              i \in DOMAIN file[p[1]].args} : p \in here}
        IN  said = UNION {{<<r, regs[r][i]>> : i \in DOMAIN regs[r]} :
                            r \in DOMAIN regs}
==============================================================================
