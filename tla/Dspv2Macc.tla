----------------------------- MODULE Dspv2Macc -----------------------------
(* ql_dsp_macc: a multiply, an adder, perhaps a multiplexer and a register   *)
(* that hold a running sum become one DSP.                                   *)
(* src/ql-qlf-plugin/ql-dsp-macc.cc and ql-dsp-macc.pmg.                     *)
(*                                                                           *)
(* A width class is what the tables make of the widths of a match; signs of  *)
(* the operands only matter where they differ.  A DSP of the first version   *)
(* is a cell with the accumulator of the second, of another type.            *)
EXTENDS Dspv2Values

CONSTANTS
    Class(_),    \* the width class of a multiply: "narrow", "fits" or "wide"
    MixedSigns   \* the multiplies with operands of different signedness

VARIABLE v2      \* -dspv2 is given

(* nusers(): the cells on a net, its driver included, and the module.        *)
Users(n) ==
    Cardinality(Readers(cells, n) \cup Drivers(cells, n)) + (IF n \in reads THEN 1 ELSE 0)

Of(kinds) == {x \in DOMAIN cells : cells[x].kind \in kinds}

------------------------------------------------------------------------------
(* The pattern.  A match without a multiplexer has mux = add.                *)

IsMatch(mul, add, mux, ff) ==
    LET y == cells[mul].y
        q == cells[ff].q
    IN  /\ Users(y) <= 3 /\ Users(cells[add].y) <= 3
        /\ \/ cells[add].a = y /\ cells[add].b = q
           \/ cells[add].b = y /\ cells[add].a = q
        /\ \/ mux = add
           \/ /\ cells[mux].kind = "mux" /\ Users(cells[mux].y) <= 3
              /\ \/ cells[mux].a = y /\ cells[mux].b = cells[add].y
                 \/ cells[mux].b = y /\ cells[mux].a = cells[add].y
        /\ cells[ff].d = cells[mux].y

Matches ==
    {m \in Of({"mul"}) \X Of({"add", "sub"}) \X Of({"add", "sub", "mux"}) \X Of({"ff"}) :
       IsMatch(m[1], m[2], m[3], m[4])}

------------------------------------------------------------------------------
(* The guards                                                                *)

(* The result is the register, read besides the adder, or the sum before it. *)
AfterFf(ff) == Users(cells[ff].d) = 2 /\ Users(cells[ff].q) = 3
BeforeFf(ff) == Users(cells[ff].d) = 3 /\ Users(cells[ff].q) = 2

AloneFrom(ff) == AfterFf(ff) \/ BeforeFf(ff)

SumUsers(ff) == IF AfterFf(ff) THEN 2 ELSE 3

OnlyFeeds(mul, add, mux, ff) ==
    /\ mux = add => Users(cells[mul].y) <= 2
    /\ AloneFrom(ff)
    /\ Users(cells[add].y) = IF mux = add THEN SumUsers(ff) ELSE 2
    /\ mux # add => Users(cells[mux].y) = SumUsers(ff)

(* One of the two sizes holds the operands and the sum, and the smaller one  *)
(* is not more than they are worth.                                          *)
Fits(mul) == Class(mul) = "fits"

(* -dspv2 leaves a select that changes at run time to soft logic.            *)
Accepts(mul, add, mux, ff) ==
    /\ OnlyFeeds(mul, add, mux, ff)
    /\ cells[ff].posedge
    /\ v2 /\ mux # add => IsConst(cells[mux].s)
    /\ Fits(mul)

------------------------------------------------------------------------------
(* The cell: create_ql_macc_dsp_v1(), create_ql_macc_dsp_v2()                *)

(* Faulty form of SelectOf: the inverter is put in for a product on B.       *)
SelectSwapped(mul, add, mux) ==
    IF mux = add THEN Sig("0")
    ELSE IF cells[mux].b = cells[mul].y THEN Inverted(Sig(cells[mux].s))
    ELSE Sig(cells[mux].s)

(* The feedback port is {0, 0, s} with s on for the product alone, so it is  *)
(* inverted if the multiplexer has the product on A.                         *)
SelectOf(mul, add, mux) ==
    IF mux = add THEN Sig("0")
    ELSE IF cells[mux].a = cells[mul].y THEN Inverted(Sig(cells[mux].s))
    ELSE Sig(cells[mux].s)

(* A select is a constant of the port only if no inverter drives it.         *)
Feedback(s) == IF s.inv \/ ~IsConst(s.net) THEN 8 ELSE IF Const(s.net) = "1" THEN 1 ELSE 0

Macc(mul, add, mux, ff) ==
    LET s == SelectOf(mul, add, mux)
        f == cells[ff]
    IN  [kind |-> "v2", type |-> IF v2 THEN "QL_DSPV2" ELSE "dsp_t1", origin |-> f.origin,
         a |-> cells[mul].a, acin |-> Open, b |-> cells[mul].b, c |-> "0",
         z |-> IF AfterFf(ff) THEN f.q ELSE f.d, zcout |-> Open, zcin |-> Open,
         clk |-> f.clk, reset |-> f.rst, accrst |-> Sig("0"), load |-> f.en,
         fb |-> Feedback(s), fsel |-> s, osel |-> IF AfterFf(ff) THEN 1 ELSE 3,
         asel |-> FALSE, areg |-> {}, breg |-> {}, creg |-> FALSE, bcreg |-> FALSE,
         mreg |-> FALSE, zsel |-> FALSE, pre |-> FALSE, sub |-> cells[add].kind = "sub",
         rss |-> FALSE, v2only |-> FALSE]

Infer ==
    /\ verdict = "ok"
    /\ \E m \in {k \in Matches : Accepts(k[1], k[2], k[3], k[4])} :
         IF v2 /\ m[1] \in MixedSigns
         THEN verdict' = "signs" /\ UNCHANGED cells
         ELSE /\ cells' = [x \in (DOMAIN cells \ {m[1], m[2], m[3]}) |->
                             IF x = m[4] THEN Macc(m[1], m[2], m[3], m[4]) ELSE cells[x]]
              /\ UNCHANGED verdict

MaccDone == verdict # "ok" \/ {m \in Matches : Accepts(m[1], m[2], m[3], m[4])} = {}

=============================================================================
