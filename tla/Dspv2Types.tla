----------------------------- MODULE Dspv2Types -----------------------------
(* ql_dspv2_types: the registers of a QL_DSPV2 cell are moved out of it and  *)
(* the cell becomes one of a type with only the ports its mode uses.         *)
(* src/ql-qlf-plugin/ql_dspv2_types.cc.  The passes over shared registers in *)
(* the middle of the file are never called and are left out.                 *)
(*                                                                           *)
(* A port is one net; a port tied to constants gets no registers, as none of *)
(* its bits does.                                                            *)
EXTENDS Dspv2Values

CONSTANT Fresh(_, _)  \* Fresh(x, i): the i-th wire made for the cell x

(* The control word, by its fields: feedback, the two low bits of            *)
(* output_select, ZCIN_SEL, PRE_ADD and SUBTRACT.                            *)
ControlWord(c) == <<c.fb, c.osel % 4, c.zsel, c.pre, c.sub>>

TypeOf ==
    [w \in {0, 1, 2, 3, 8} \X (0 .. 3) \X BOOLEAN \X BOOLEAN \X BOOLEAN |->
       LET flags == <<w[3], w[4], w[5]>>
       IN  CASE w[1] = 0 /\ w[2] = 0 /\ flags = <<FALSE, FALSE, FALSE>> -> "MULT"
             [] w[1] = 2 /\ w[2] \in {2, 3} /\ flags = <<FALSE, FALSE, FALSE>> -> "CONCAT_CASCADE"
             [] w[1] = 0 /\ w[2] = 1 /\ flags = <<FALSE, FALSE, FALSE>> -> "MULTACC"
             [] w[1] = 0 /\ w[2] = 1 /\ flags = <<FALSE, FALSE, TRUE>> -> "MULTACC_NEG"
             [] w[1] = 0 /\ w[2] = 0 /\ flags = <<FALSE, TRUE, FALSE>> -> "PREADDER_MULT"
             [] w[1] = 3 /\ w[2] \in {2, 3} /\ flags = <<TRUE, TRUE, FALSE>> -> "PREADDER_MULTADD"
             [] w[1] = 3 /\ w[2] \in {2, 3} /\ flags = <<TRUE, FALSE, FALSE>> -> "MULTADD"
             [] w[1] = 3 /\ w[2] \in {2, 3} /\ flags = <<TRUE, FALSE, TRUE>> -> "MULTADD_NEG"
             [] OTHER -> "QL_DSPV2"]

------------------------------------------------------------------------------
(* replace_drop_net_with_keep_net(): whatever a cell reads from z_cout it    *)
(* reads from z.                                                             *)

Renamed(n, drop, keep) == IF n = drop THEN keep ELSE n

Reconnected(c, drop, keep) ==
    LET to(n) == Renamed(n, drop, keep)
    IN  CASE c.kind = "v2" ->
               [c EXCEPT !.a = to(@), !.acin = to(@), !.b = to(@), !.c = to(@), !.zcin = to(@),
                         !.zcout = to(@)]
          [] c.kind = "ff" -> [c EXCEPT !.d = to(@)]
          [] OTHER -> [c EXCEPT !.a = to(@), !.b = to(@)]

OneResult(x) ==
    LET c == cells[x]
    IN  [y \in DOMAIN cells |->
           IF y = x THEN [Reconnected(c, c.zcout, c.z) EXCEPT !.zcout = Open]
           ELSE Reconnected(cells[y], c.zcout, c.z)]

------------------------------------------------------------------------------
(* Registers                                                                 *)

Flop(x, d, q) ==
    [kind |-> "ff", origin |-> x, d |-> d, q |-> q, clk |-> cells[x].clk, rst |-> cells[x].reset,
     en |-> Sig("1"), posedge |-> TRUE]

(* What is done with the registers of an operand: how many are moved out and *)
(* which bits of MODE_BITS stay set.                                         *)
MovedOut(regs) ==
    IF "R" \in regs THEN [n |-> 1, stay |-> regs \ {"R"}]
    ELSE IF {"1", "2"} \subseteq regs THEN [n |-> 2, stay |-> {}]
    ELSE IF "2" \in regs THEN [n |-> 1, stay |-> regs \ {"2"}]
    ELSE [n |-> 0, stay |-> regs]

(* Faulty form of Before: two registers share the wire of the first.         *)
BeforeOnce(x, n, k, from) ==
    IF k = 0 \/ IsConst(n) THEN [net |-> n, flops |-> {}]
    ELSE [net |-> Fresh(x, from), flops |-> {Flop(x, n, Fresh(x, from))}]

(* add_bitwise_dffre_before_cell_input(), k times; the wires are numbered    *)
(* from a given number on.                                                   *)
Before(x, n, k, from) ==
    IF k = 0 \/ IsConst(n) THEN [net |-> n, flops |-> {}]
    ELSE IF k = 1 THEN [net |-> Fresh(x, from), flops |-> {Flop(x, n, Fresh(x, from))}]
    ELSE [net |-> Fresh(x, from + 1),
          flops |-> {Flop(x, n, Fresh(x, from)), Flop(x, Fresh(x, from), Fresh(x, from + 1))}]

(* add_bitwise_dffre_after_cell_output(): the cell drives a new wire, the    *)
(* last register the old one.                                                *)
After(x, z, k) ==
    IF k = 0 THEN [net |-> z, flops |-> {}]
    ELSE IF k = 1 THEN [net |-> Fresh(x, 6), flops |-> {Flop(x, Fresh(x, 6), z)}]
    ELSE [net |-> Fresh(x, 7),
          flops |-> {Flop(x, Fresh(x, 6), z), Flop(x, Fresh(x, 7), Fresh(x, 6))}]

------------------------------------------------------------------------------
(* transform_cell_with_ports()                                               *)

(* The inputs each type keeps besides feedback and output_select; a_cin and  *)
(* b_cin go from all.                                                        *)
Ports(type) ==
    CASE type \in {"MULT", "CONCAT_CASCADE"} -> {"a", "b"}
      [] type \in {"MULTACC", "MULTACC_NEG"} -> {"a", "b", "clk", "load"}
      [] type = "PREADDER_MULT" -> {"a", "b", "c"}
      [] type = "PREADDER_MULTADD" -> {"a", "b", "c", "zcin"}
      [] type \in {"MULTADD", "MULTADD_NEG"} -> {"a", "b", "zcin"}
      [] OTHER -> {"a", "b", "c", "clk", "load", "zcin"}

(* A z_cin tied to ground is left unconnected: make_gnd_bits_unconn().       *)
Transformed(c, type) ==
    LET keeps == Ports(type)
    IN  [c EXCEPT !.type = type, !.acin = Open,
                  !.c = IF "c" \in keeps THEN @ ELSE Open,
                  !.zcin = IF "zcin" \in keeps /\ Const(@) # "0" THEN @ ELSE Open,
                  !.clk = IF "clk" \in keeps THEN @ ELSE Open,
                  !.reset = IF "clk" \in keeps THEN @ ELSE Sig("0"),
                  !.accrst = IF "clk" \in keeps THEN @ ELSE Sig("0"),
                  !.load = IF "load" \in keeps THEN @ ELSE Sig("1")]

------------------------------------------------------------------------------
(* execute(), one turn of its loop                                           *)

TypesError(x) ==
    IF cells[x].fb = 8 THEN "not constant"
    ELSE IF cells[x].zcout = Open THEN "no z_cout" ELSE "ok"

(* The wires 0 to 5 of a cell are for its operands, 6 and 7 for z.           *)
Specialize(x) ==
    LET with == OneResult(x)
        c == with[x]
        a == Before(x, c.a, MovedOut(c.areg).n, 0)
        b == Before(x, c.b, MovedOut(c.breg).n, 2)
        cc == Before(x, c.c, IF c.creg THEN 1 ELSE 0, 4)
        k == (IF c.mreg THEN 1 ELSE 0) + (IF c.osel >= 4 THEN 1 ELSE 0)
        z == After(x, c.z, k)
        flops == a.flops \cup b.flops \cup cc.flops \cup z.flops
        bare == [c EXCEPT !.a = a.net, !.b = b.net, !.c = cc.net, !.z = z.net,
                          !.areg = MovedOut(c.areg).stay, !.breg = MovedOut(c.breg).stay,
                          !.creg = FALSE, !.mreg = FALSE, !.osel = @ % 4]
        new == {f.q : f \in flops}   \* a register is called as its output
    IN  [y \in DOMAIN cells \cup new |->
           IF y = x THEN Transformed(bare, TypeOf[ControlWord(c)])
           ELSE IF y \in new THEN CHOOSE f \in flops : y = f.q
           ELSE with[y]]

Visit ==
    /\ verdict = "ok"
    /\ \E x \in left :
         IF TypesError(x) # "ok"
         THEN verdict' = TypesError(x) /\ UNCHANGED <<cells, left>>
         ELSE /\ cells' = Specialize(x)
              /\ left' = left \ {x}
              /\ UNCHANGED verdict

=============================================================================
