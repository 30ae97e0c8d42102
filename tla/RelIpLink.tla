------------------------------ MODULE RelIpLink ------------------------------
(* Linking of pre-synthesized IP netlists, synth_quicklogic -rel_ip_blif:    *)
(* each file replaces the empty stub of its IP, the cells of every instance  *)
(* are stamped with its name, and the design is flattened.                   *)
(* src/ql-qlf-plugin/synth_quicklogic.cc, import_rel_ip() and the functions  *)
(* around it.                                                                *)
(*                                                                           *)
(* An annotation is "full", "partial" (or not readable) or "none"; ports are *)
(* compared as values.                                                       *)
EXTENDS Naturals, Sequences, FiniteSets

CONSTANTS
    IpFile,   \* IpFile[f]: the models in the file f
    Top,      \* the top module
    CopyName(_, _)  \* the name of the copy of a module for an instance

VARIABLES
    module,   \* the modules of the design: name -> definition
    ips,      \* the files that are still to be imported
    linked,   \* the modules imported, in order
    stamped,  \* how many of them are stamped
    flat,     \* the cells of the IPs after flatten: <<instance, cell>> -> cell
    verdict   \* "ok" or the reason for an error

linkVars == <<module, ips, linked, stamped, flat, verdict>>

(* A definition: [box, ports, clk, cells].  box: it has the blackbox         *)
(* attribute; clk: it has a clock pin, marked clkbuf_sink; cells: name ->    *)
(* [type, rel, macro, net], net being what is connected to a clock port.     *)
IsDefinition(d) ==
    /\ d = [box |-> d.box, ports |-> d.ports, clk |-> d.clk, cells |-> d.cells]
    /\ IsFiniteSet(DOMAIN d.cells)
    /\ \A c \in DOMAIN d.cells :
         LET x == d.cells[c]
         IN  x = [type |-> x.type, rel |-> x.rel, macro |-> x.macro, net |-> x.net]

ASSUME FilesAssumption ==
    \A f \in DOMAIN IpFile : \A m \in DOMAIN IpFile[f] : IsDefinition(IpFile[f][m])

Contents(f) == {m \in DOMAIN IpFile[f] : ~IpFile[f][m].box}
IpModule(f) == CHOOSE m \in Contents(f) : TRUE
Declared(f) == DOMAIN IpFile[f] \ Contents(f)

Fail(why) ==
    /\ verdict' = why
    /\ UNCHANGED <<module, ips, linked, stamped, flat>>

------------------------------------------------------------------------------
(* import_rel_ip()                                                           *)

WrongFile(f) == Cardinality(Contents(f)) # 1 \/ IpModule(f) \in {linked[i] : i \in DOMAIN linked}

(* The stub is not there, not untouched, or has other ports.                 *)
WrongStub(f) ==
    LET m == IpModule(f)
    IN  \/ m \notin DOMAIN module
        \/ ~module[m].box \/ DOMAIN module[m].cells # {}
        \/ module[m].ports # IpFile[f][m].ports

WrongPrimitive(f) ==
    \E p \in Declared(f) :
      \/ p \notin DOMAIN module \/ ~module[p].box
      \/ module[p].ports # IpFile[f][p].ports

(* What is known only when the IP is in the design: its cells are primitives *)
(* of the library, and all annotated ones are annotated completely.          *)
WrongCells(f) ==
    LET cells == IpFile[f][IpModule(f)].cells
    IN  \/ \E c \in DOMAIN cells : cells[c].type \notin DOMAIN module
        \/ \E c \in DOMAIN cells : cells[c].rel = "partial"
        \/ \A c \in DOMAIN cells : cells[c].rel = "none"

(* Faulty form of Taken: the declarations of primitives are taken as well.   *)
AllTaken(f) == DOMAIN IpFile[f]

(* The definition of the IP alone is taken over.                             *)
Taken(f) == {IpModule(f)}

ImportIp ==
    LET f == Head(ips)
    IN  /\ verdict = "ok" /\ ips # <<>>
        /\ IF WrongFile(f) THEN Fail("file")
           ELSE IF WrongStub(f) THEN Fail("stub")
           ELSE IF WrongPrimitive(f) THEN Fail("primitive")
           ELSE IF WrongCells(f) THEN Fail("cells")
           ELSE /\ module' = [m \in DOMAIN module |->
                                IF m \in Taken(f) THEN IpFile[f][m] ELSE module[m]]
                /\ ips' = Tail(ips)
                /\ linked' = Append(linked, IpModule(f))
                /\ UNCHANGED <<stamped, flat, verdict>>

------------------------------------------------------------------------------
(* stamp_rel_macro_names()                                                   *)

Instances(m, t) == {c \in DOMAIN module[m].cells : module[m].cells[c].type = t}

Stamp(def, inst) ==
    [def EXCEPT !.cells = [c \in DOMAIN @ |->
                             IF @[c].rel = "none" THEN @[c]
                             ELSE [@[c] EXCEPT !.macro = inst]]]

(* The module an instance has after stamping: the first keeps the module     *)
(* imported, each other one gets a copy.                                     *)
OwnModule(t, inst, first) ==
    IF inst = first THEN t ELSE CopyName(t, inst)

StampIp ==
    LET t     == linked[stamped + 1]
        insts == Instances(Top, t)
    IN  /\ verdict = "ok" /\ ips = <<>> /\ stamped < Len(linked)
        /\ IF \E m \in DOMAIN module \ {Top} : Instances(m, t) # {}
           THEN Fail("not flat")
           ELSE IF insts = {} THEN Fail("not instantiated")
           ELSE \E first \in insts :
                  LET own(i)  == OwnModule(t, i, first)
                      top_    == [module[Top] EXCEPT !.cells =
                                    [c \in DOMAIN @ |->
                                       IF c \in insts THEN [@[c] EXCEPT !.type = own(c)]
                                       ELSE @[c]]]
                      last(m) == CHOOSE i \in insts : own(i) = m
                  IN  /\ module' =
                           [m \in DOMAIN module \cup {own(i) : i \in insts} |->
                              IF m = Top THEN top_
                              ELSE IF \E i \in insts : own(i) = m
                              THEN Stamp(module[t], last(m)) ELSE module[m]]
                      /\ stamped' = stamped + 1
                      /\ UNCHANGED <<ips, linked, flat, verdict>>

(* Flatten puts the cells of the IPs into the top module.                    *)
IsIp(m) == m \in DOMAIN module /\ ~module[m].box /\ m # Top

FlattenIps ==
    LET insts == {i \in DOMAIN module[Top].cells : IsIp(module[Top].cells[i].type)}
        cells(i) == module[module[Top].cells[i].type].cells
    IN  /\ verdict = "ok" /\ ips = <<>> /\ stamped = Len(linked)
        /\ flat' = [p \in UNION {{<<i, c>> : c \in DOMAIN cells(i)} : i \in insts} |->
                      cells(p[1])[p[2]]]
        /\ UNCHANGED <<module, ips, linked, stamped, verdict>>

==============================================================================
