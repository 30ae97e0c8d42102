------------------------ MODULE SynthQuicklogic_proofs ------------------------
(* What the order of the passes gives, for every source, every combination   *)
(* of options, any IPs and any results of abc.                               *)
EXTENDS SynthQuicklogic, SequenceTheorems, FiniteSetTheorems, FunctionTheorems, TLAPS

(* Most passes make no cell of these types.                                  *)
Types == {"$add", "QL_DSP4_MULT", "$__soft_mul"}

NoNew(T, S) == \A j \in T : j[1] \in Types => j \in S

LEMMA TurnMakesNone ==
  ASSUME NEW S, NEW f,
         \A t \in DOMAIN f : f[t] \notin Types
  PROVE  NoNew(Turn(S, f), S)
<1> SUFFICES ASSUME NEW i \in S, NEW j, j[1] \in Types,
                    j = IF i[1] \in DOMAIN f THEN <<f[i[1]], i[2]>> ELSE i
             PROVE  j \in S
  BY DEF NoNew, Turn
<1>1. i[1] \notin DOMAIN f
  OBVIOUS
<1> QED BY <1>1

LEMMA AllMakesNone ==
  ASSUME NEW S, NEW T, NEW t, t \notin Types
  PROVE  NoNew(Turn(S, All(T, t)), S)
BY TurnMakesNone DEF All

LEMMA OptMakesNone ==
  ASSUME NEW S, NEW no
  PROVE  NoNew(Opt(S, no), S) /\ NoNew(OptDff(S, no), S)
<1>1. NoNew(OptDff(S, no), S)
  <2> SUFFICES ASSUME NEW i \in S, NEW j, j[1] \in Types,
                      j = CASE i = <<"$dff", "en">> /\ "dffe" \notin no -> <<"$dffe", "en">>
                            [] i = <<"$dff", "sr">> /\ "sdff" \notin no -> <<"$sdff", "sr">>
                            [] OTHER -> i
               PROVE  j \in S
    BY DEF NoNew, OptDff
  <2>1. \/ j = <<"$dffe", "en">> \/ j = <<"$sdff", "sr">> \/ j = i
    OBVIOUS
  <2> QED BY <2>1 DEF Types
<1> QED BY <1>1 DEF Opt, NoNew

LEMMA NoNewTransitive ==
  ASSUME NEW S, NEW T, NEW U, NoNew(T, S), NoNew(U, T)
  PROVE  NoNew(U, S)
BY DEF NoNew

------------------------------------------------------------------------------
(* The order of the labels.                                                  *)

Early == {"begin", "prepare", "map_dsp"}
Later == {"coarse", "map_bram", "map_ffram", "map_gates", "map_ffs", "map_luts",
          "map_cells", "iomap", "check", "finalize", "map_synplify",
          "link_rel_ips", "clocks", "blif", "edif", "verilog"}

LEMMA LaterStays == label \in Later \cup {"map_dsp"} => NextLabel \notin Early
<1> SUFFICES ASSUME label \in Later \cup {"map_dsp"} PROVE NextLabel \notin Early
  OBVIOUS
<1>1. DOMAIN Order = 1 .. 20
  BY DEF Order
<1>2. \E j \in 1 .. 20 : Order[j] = label
  BY DEF Order, Later
<1>3. PICK i \in 1 .. 20 : Order[i] = label /\ NextLabel = Order[1 + i]
  BY <1>1, <1>2 DEF NextLabel
<1>4. i # 1 /\ i # 2 /\ i # 20
  BY <1>3 DEF Order, Later
<1>5. \A j \in 4 .. 20 : Order[j] \notin Early
  BY DEF Order, Early
<1>6. 1 + i \in 4 .. 20
  BY <1>4
<1> QED BY <1>3, <1>5, <1>6

------------------------------------------------------------------------------
(* The map of DSPs.                                                          *)

Fresh(S)  == \A i \in S : i[1] \notin {"QL_DSP4_MULT", "$__soft_mul"}
Fused(S)  == \A i \in S : i[2] = "macc" => i[1] # "$add"
NoProduct(S) == \A i \in S : i[1] = "$mul" => i[2] # "macc"

LEMMA FewerKeep ==
  ASSUME NEW S, NEW T, NoNew(T, S)
  PROVE  (Fresh(S) => Fresh(T)) /\ (Fused(S) => Fused(T))
BY DEF NoNew, Types, Fresh, Fused

(* mul2dsp after the accumulators are gone leaves no part of one.            *)
LEMMA Mul2DspKeeps ==
  ASSUME NEW S, NEW declined, Fused(S), NoProduct(S),
         NEW name, name \notin Types \cup {"$mul"}
  PROVE  LET T == Mul2Dsp(S, name, declined)
         IN  /\ Fused(T)
             /\ \A j \in T : j[1] # "$mul"
             /\ \A j \in T : j[1] = "$__soft_mul" => j \in S \/ j[2] \in declined
             /\ \A j \in T : j[1] = "QL_DSP4_MULT" => j \in S
<1> DEFINE T == Mul2Dsp(S, name, declined)
<1> SUFFICES ASSUME NEW j \in T
             PROVE  /\ j[2] = "macc" => j[1] # "$add"
                    /\ j[1] # "$mul"
                    /\ j[1] = "$__soft_mul" => j \in S \/ j[2] \in declined
                    /\ j[1] = "QL_DSP4_MULT" => j \in S
  BY DEF Fused
<1>1. PICK i \in S :
        j \in IF i[1] # "$mul" THEN {i}
              ELSE IF i[2] \in declined THEN {<<"$__soft_mul", i[2]>>}
              ELSE CASE i[2] = "wide" -> {<<name, "piece">>, <<"$add", "wide">>}
                     [] i[2] = "macc" -> {<<name, "macc">>, <<"$add", "macc">>}
                     [] OTHER         -> {<<name, i[2]>>}
  BY DEF Mul2Dsp
<1>2. CASE i[1] # "$mul"
  BY <1>1, <1>2 DEF Fused
<1>3. CASE i[1] = "$mul" /\ i[2] \in declined
  BY <1>1, <1>3 DEF Types
<1>4. CASE i[1] = "$mul" /\ i[2] \notin declined
  <2>1. i[2] # "macc"
    BY <1>4 DEF NoProduct
  <2>2. CASE i[2] = "wide"
    <3>1. j \in {<<name, "piece">>, <<"$add", "wide">>}
      BY <1>1, <1>4, <2>2
    <3> QED BY <3>1 DEF Types
  <2>3. CASE i[2] # "wide"
    <3>1. j = <<name, i[2]>>
      BY <1>1, <1>4, <2>1, <2>3
    <3> QED BY <3>1, <2>1 DEF Types
  <2> QED BY <2>2, <2>3
<1> QED BY <1>2, <1>3, <1>4

(* ql_dspv4 and ql_dsp_macc take every product with an accumulator.          *)
LEMMA TakersKeep ==
  ASSUME NEW S
  PROVE  /\ NoNew(QlDspv4(S), S) /\ NoProduct(QlDspv4(S))
         /\ \A type : type \notin Types \cup {"$mul"} =>
              NoNew(Macc(S, type), S) /\ NoProduct(Macc(S, type))
<1>1. NoNew(QlDspv4(S), S) /\ NoProduct(QlDspv4(S))
  <2> SUFFICES ASSUME NEW j \in QlDspv4(S)
               PROVE  (j[1] \in Types => j \in S) /\ (j[1] = "$mul" => j[2] # "macc")
    BY DEF NoNew, NoProduct
  <2>1. PICK i \in S :
          j = IF i[1] = "$mul" /\ i[2] \notin {"wide", "narrow"}
              THEN <<"QL_DSP4", i[2]>> ELSE i
    BY DEF QlDspv4
  <2> QED BY <2>1 DEF Types
<1>2. ASSUME NEW type, type \notin Types \cup {"$mul"}
      PROVE  NoNew(Macc(S, type), S) /\ NoProduct(Macc(S, type))
  <2> SUFFICES ASSUME NEW j \in Macc(S, type)
               PROVE  (j[1] \in Types => j \in S) /\ (j[1] = "$mul" => j[2] # "macc")
    BY DEF NoNew, NoProduct
  <2>1. PICK i \in S :
          j = IF i[1] = "$mul" /\ i[2] = "macc" THEN <<type, "macc">> ELSE i
    BY DEF Macc
  <2> QED BY <2>1, <1>2
<1> QED BY <1>1, <1>2

LEMMA SoftKeeps ==
  ASSUME NEW S
  PROVE  /\ NoNew(Soft(S), S)
         /\ \A j \in Soft(S) : j[1] # "$__soft_mul"
         /\ (\A i \in S : i[1] \in {"$mul", "$__soft_mul"} => i[2] # "macc")
              => NoProduct(Soft(S))
<1>1. NoNew(Soft(S), S)
  BY AllMakesNone DEF Soft, Types
<1>2. ASSUME NEW j \in Soft(S)
      PROVE  /\ j[1] # "$__soft_mul"
             /\ \E i \in S : \/ i = j
                             \/ i[1] = "$__soft_mul" /\ j = <<"$mul", i[2]>>
  <2>1. PICK i \in S : j = IF i[1] = "$__soft_mul" THEN <<"$mul", i[2]>> ELSE i
    BY <1>2 DEF Soft, Turn, All
  <2> QED BY <2>1
<1>3. ASSUME \A i \in S : i[1] \in {"$mul", "$__soft_mul"} => i[2] # "macc",
             NEW j \in Soft(S), j[1] = "$mul"
      PROVE  j[2] # "macc"
  BY <1>2, <1>3
<1> QED BY <1>1, <1>2, <1>3 DEF NoProduct

(* Each way to infer DSP cells, from the native multiplies of a source.      *)
LEMMA InferV4Keeps ==
  ASSUME NEW S, Fresh(S), Fused(S)
  PROVE  Fused(InferV4(S)) /\ \A j \in InferV4(S) : j[1] # "QL_DSP4_MULT"
<1> DEFINE A == QlDspv4(S)
           B == Mul2Dsp(A, "$__QL_DSP4_MUL", {"narrow"})
           C == Pieces(A)
           D == QlDspv4(C)
<1>1. Fresh(A) /\ Fused(A) /\ NoProduct(A)
  BY TakersKeep, FewerKeep
<1>2. Fused(B) /\ \A j \in B : j[1] # "QL_DSP4_MULT"
  BY <1>1, Mul2DspKeeps DEF Fresh, Types
<1>3. NoNew(C, B)
  BY AllMakesNone DEF Pieces, Types
<1>4. NoNew(D, C) /\ NoNew(InferV4(S), D)
  BY TakersKeep, SoftKeeps DEF InferV4
<1>5. NoNew(InferV4(S), B)
  BY <1>3, <1>4 DEF NoNew
<1>6. Fused(InferV4(S))
  BY <1>2, <1>5, FewerKeep
<1> QED BY <1>2, <1>5, <1>6 DEF NoNew, Types

(* One round of mul2dsp with what it declined restored.                      *)
LEMMA RoundKeeps ==
  ASSUME NEW S, Fresh(S), Fused(S), NoProduct(S),
         NEW name, name \notin Types \cup {"$mul"},
         NEW declined, "macc" \notin declined
  PROVE  LET T == Soft(Mul2Dsp(S, name, declined))
         IN  Fresh(T) /\ Fused(T) /\ NoProduct(T)
<1> DEFINE M == Mul2Dsp(S, name, declined)
           T == Soft(M)
<1>1. /\ Fused(M)
      /\ \A j \in M : j[1] # "$mul"
      /\ \A j \in M : j[1] = "$__soft_mul" => j \in S \/ j[2] \in declined
      /\ \A j \in M : j[1] = "QL_DSP4_MULT" => j \in S
  BY Mul2DspKeeps
<1>2. /\ \A j \in M : j[1] = "$__soft_mul" => j[2] # "macc"
      /\ \A j \in M : j[1] # "QL_DSP4_MULT"
  BY <1>1 DEF Fresh
<1>3. NoProduct(T) /\ NoNew(T, M) /\ \A j \in T : j[1] # "$__soft_mul"
  BY <1>1, <1>2, SoftKeeps
<1>4. Fused(T)
  BY <1>1, <1>3, FewerKeep
<1>5. Fresh(T)
  BY <1>2, <1>3 DEF NoNew, Fresh, Types
<1> QED BY <1>3, <1>4, <1>5

LEMMA InferV2Keeps ==
  ASSUME NEW S, Fresh(S), Fused(S)
  PROVE  Fresh(InferV2(S)) /\ Fused(InferV2(S))
<1> DEFINE A == Macc(S, "QL_DSPV2")
           B == Soft(Mul2Dsp(A, "QL_DSPV2", {"small", "narrow"}))
           C == Soft(Mul2Dsp(B, "QL_DSPV2", {"narrow"}))
<1>0. "QL_DSPV2" \notin Types \cup {"$mul"}
  BY DEF Types
<1>1. Fresh(A) /\ Fused(A) /\ NoProduct(A)
  BY <1>0, TakersKeep, FewerKeep
<1>2. Fresh(B) /\ Fused(B) /\ NoProduct(B)
  BY <1>0, <1>1, RoundKeeps
<1>3. Fresh(C) /\ Fused(C)
  BY <1>0, <1>2, RoundKeeps
<1>4. InferV2(S) = C
  BY DEF InferV2
<1> QED BY <1>3, <1>4

LEMMA InferV1Keeps ==
  ASSUME NEW S, Fresh(S), Fused(S)
  PROVE  Fresh(InferV1(S)) /\ Fused(InferV1(S))
<1> DEFINE A == Macc(S, "dsp_t1_20x18x64")
           B == Soft(Mul2Dsp(A, "dsp_t1_20x18x64", {"small", "narrow"}))
           C == Soft(Mul2Dsp(B, "dsp_t1_10x9x32", {"narrow"}))
           D == Turn(C, All({"dsp_t1_10x9x32", "dsp_t1_20x18x64"}, "QL_DSP2"))
           E == Turn(D, All({"QL_DSP2"}, "QL_DSP2_MULT"))
<1>0. {"dsp_t1_20x18x64", "dsp_t1_10x9x32"} \cap (Types \cup {"$mul"}) = {}
  BY DEF Types
<1>1. Fresh(A) /\ Fused(A) /\ NoProduct(A)
  BY <1>0, TakersKeep, FewerKeep
<1>2. Fresh(B) /\ Fused(B) /\ NoProduct(B)
  BY <1>0, <1>1, RoundKeeps
<1>3. Fresh(C) /\ Fused(C)
  BY <1>0, <1>2, RoundKeeps
<1>4. NoNew(D, C) /\ NoNew(E, D)
  BY AllMakesNone DEF Types
<1>5. Fresh(E) /\ Fused(E)
  BY <1>3, <1>4, FewerKeep
<1>6. InferV1(S) = E
  BY DEF InferV1
<1> QED BY <1>5, <1>6

------------------------------------------------------------------------------
(* Up to the map of DSPs no cell is lowered; after it each lowered cell has  *)
(* been checked.  What is pushed has been popped.                            *)
Inv ==
    /\ saved = <<>>
    /\ label \in Early => Fresh(items)
    /\ LoweredChecked
    /\ FusedWhole

(* A step that makes no adder and no lowered cell keeps this.                *)
LEMMA OtherStepKeeps ==
  ASSUME Inv, NoNew(items', items), checked' = checked, saved' = saved,
         label \in Early \/ label' \notin Early
  PROVE  Inv'
<1>1. (label' \in Early) => Fresh(items')
  BY FewerKeep DEF Inv
<1>2. LoweredChecked'
  BY DEF Inv, LoweredChecked, NoNew, Types
<1>3. FusedWhole'
  BY DEF Inv, FusedWhole, NoNew, Types
<1>4. saved' = <<>>
  BY DEF Inv
<1> QED BY <1>1, <1>2, <1>3, <1>4 DEF Inv

LEMMA SameItems == items' = items => NoNew(items', items)
BY DEF NoNew

LEMMA MapDspKeeps ==
  ASSUME Inv, MapDsp
  PROVE  Inv'
<1>6. saved = <<>> /\ saved' = saved
  BY DEF MapDsp, Same, Inv
<1> DEFINE native == IF o.synplify THEN items ELSE InferV4(items)
<1>0. label = "map_dsp" /\ label' = NextLabel
  BY DEF MapDsp, At
<1>1. label' \notin Early
  BY <1>0, LaterStays
<1>2. Fresh(items) /\ Fused(items)
  BY <1>0 DEF Inv, Early, FusedWhole, Fused
<1>3. CASE ~K6n10f \/ o.nodsp
  <2>1. items' = items /\ checked' = checked
    BY <1>3 DEF MapDsp
  <2> QED BY <1>6, <1>1, <2>1, SameItems, OtherStepKeeps
<1>4. CASE ~(~K6n10f \/ o.nodsp) /\ o.dspv4
  <2>1. checked' = Seen(native) /\ items' = Lowered(Bridged(native))
    BY <1>4 DEF MapDsp
  <2>2. Fused(native) /\ \A j \in native : j[1] # "QL_DSP4_MULT"
    BY <1>2, InferV4Keeps DEF Fresh
  <2>3. NoNew(Bridged(native), native)
    BY AllMakesNone DEF Bridged, Types
  <2>4. Fused(Bridged(native)) /\ \A j \in Bridged(native) : j[1] # "QL_DSP4_MULT"
    BY <2>2, <2>3, FewerKeep DEF NoNew, Types
  <2>5. ASSUME NEW j \in items'
        PROVE  \E i \in Bridged(native) :
                 j = IF i[1] = "QL_DSP4" THEN <<"QL_DSP4_MULT", i[2]>> ELSE i
    BY <2>1, <2>5 DEF Lowered, Turn, All
  <2>6. FusedWhole'
    BY <2>4, <2>5 DEF Fused, FusedWhole
  <2>7. ASSUME NEW j \in items', j[1] = "QL_DSP4_MULT"
        PROVE  \E c \in checked' : c[2] = j[2]
    <3>1. PICK i \in Bridged(native) :
            j = IF i[1] = "QL_DSP4" THEN <<"QL_DSP4_MULT", i[2]>> ELSE i
      BY <2>5, <2>7
    <3>2. i[1] = "QL_DSP4" /\ j[2] = i[2]
      BY <3>1, <2>4, <2>7
    <3>3. i \in checked'
      BY <2>1, <3>2 DEF Seen, Sees
    <3> QED BY <3>2, <3>3
  <2> QED BY <1>6, <1>1, <2>6, <2>7 DEF Inv, LoweredChecked
<1>5. CASE ~(~K6n10f \/ o.nodsp) /\ ~o.dspv4
  <2> DEFINE v2 == IF o.synplify THEN items ELSE InferV2(items)
             two == Turn(v2, All({"QL_DSPV2"}, "QL_DSPV2_MULT"))
  <2>1. checked' = checked /\ items' = IF o.dspv2 THEN two ELSE InferV1(items)
    BY <1>5 DEF MapDsp
  <2>2. Fresh(v2) /\ Fused(v2)
    BY <1>2, InferV2Keeps
  <2>3. NoNew(two, v2)
    BY AllMakesNone DEF Types
  <2>4. Fresh(two) /\ Fused(two)
    BY <2>2, <2>3, FewerKeep
  <2>5. Fresh(items') /\ Fused(items')
    BY <2>1, <2>4, <1>2, InferV1Keeps
  <2> QED BY <1>6, <1>1, <2>5 DEF Inv, Fresh, Fused, FusedWhole, LoweredChecked
<1> QED BY <1>3, <1>4, <1>5

LEMMA InvInit == Init => Inv
<1> SUFFICES ASSUME Init PROVE Inv
  OBVIOUS
<1>1. PICK s \in Sources : items = s.items
  BY DEF Init
<1> QED BY <1>1, FlowAssumption DEF Init, Inv, Fresh, LoweredChecked, FusedWhole

(* What is pushed on a stack of at most one design is popped again.          *)
LEMMA PopsEmpty ==
  ASSUME NEW x
  PROVE  /\ Head(<<x>> \o <<>>) = x
         /\ Tail(<<x>> \o <<>>) = <<>>
<1>1. <<x>> \o <<>> = <<x>>
  OBVIOUS
<1> QED BY <1>1

LEMMA PopsOne ==
  ASSUME NEW x, NEW y
  PROVE  /\ Head(<<x>> \o <<y>>) = x
         /\ Tail(<<x>> \o <<y>>) = <<y>>
<1>1. <<x>> \in Seq({x, y}) /\ y \in {x, y} /\ <<x>> # <<>>
  OBVIOUS
<1>2. <<x>> \o <<y>> = Append(<<x>>, y)
  BY <1>1, AppendIsConcat
<1>3. /\ Head(Append(<<x>>, y)) = Head(<<x>>)
      /\ Tail(Append(<<x>>, y)) = Append(Tail(<<x>>), y)
  BY <1>1, HeadTailAppend
<1>4. Head(<<x>>) = x /\ Tail(<<x>>) = <<>>
  OBVIOUS
<1>5. Append(<<>>, y) = <<y>>
  OBVIOUS
<1> QED BY <1>2, <1>3, <1>4, <1>5

(* A Pop undoes a Push on such a stack.                                      *)
LEMMA PopUndoesPush ==
  ASSUME NEW s, NEW new, NEW y, s.stack = <<>> \/ s.stack = <<y>>
  PROVE  Pop(Push(s, new)).now = s.now /\ Pop(Push(s, new)).stack = s.stack
<1>1. Push(s, new).stack = <<s.now>> \o s.stack
  BY DEF Push
<1>2. /\ Pop(Push(s, new)).now = Head(Push(s, new).stack)
      /\ Pop(Push(s, new)).stack = Tail(Push(s, new).stack)
  BY DEF Pop
<1>3. CASE s.stack = <<>>
  BY <1>1, <1>2, <1>3, PopsEmpty
<1>4. CASE s.stack = <<y>>
  BY <1>1, <1>2, <1>4, PopsOne
<1> QED BY <1>3, <1>4

LEMMA PopLast ==
  ASSUME NEW s, NEW y, s.stack = <<y>>
  PROVE  Pop(s).now = y /\ Pop(s).stack = <<>>
<1>1. Head(<<y>>) = y /\ Tail(<<y>>) = <<>>
  OBVIOUS
<1> QED BY <1>1 DEF Pop

(* The trimmed copy of the design lies above the design.                     *)
LEMMA ScratchStack ==
  ASSUME NEW n
  PROVE  Scratch([now |-> n, stack |-> <<>>]).stack = <<n>>
<1> DEFINE s == [now |-> n, stack |-> <<>>]
<1>1. <<n>> \o <<>> = <<n>>
  OBVIOUS
<1>2. PushCopy(s).stack = <<n>> \o <<>> /\ DOMAIN PushCopy(s) = {"now", "stack"}
  BY DEF PushCopy
<1>3. Scratch(s).stack = PushCopy(s).stack
  BY <1>2 DEF Scratch
<1> QED BY <1>1, <1>2, <1>3

(* Each design that is pushed when the BLIF is written is popped again.       *)
LEMMA BlifRestores ==
  ASSUME saved = <<>>, Blif
  PROVE  items' = items /\ split' = split /\ saved' = saved /\ flat' = flat
<1> DEFINE rel     == linked # <<>>
           start   == [now |-> Netlist, stack |-> saved]
           copy    == IF rel THEN Scratch(start) ELSE start
           first   == Buffered(copy.now)
           again   == Push(copy, Unbuffered(first))
           back    == IF o.dspv4 THEN Pop(again) ELSE copy
           end     == IF rel THEN Pop(back) ELSE back
<1>1. \/ items' = end.now.items /\ split' = end.now.split /\ saved' = end.stack
      \/ items' = items /\ split' = split /\ saved' = saved
  BY DEF Blif
<1>2. flat' = flat
  BY DEF Blif, Same, linkVars
<1>3. start = [now |-> Netlist, stack |-> <<>>]
  OBVIOUS
<1>4. copy.stack = IF rel THEN <<Netlist>> ELSE <<>>
  BY <1>3, ScratchStack
<1> HIDE DEF copy, first
<1>5. Pop(again).now = copy.now /\ Pop(again).stack = copy.stack
  BY <1>4, PopUndoesPush
<1> HIDE DEF again
<1>6. back.now = copy.now /\ back.stack = copy.stack
  BY <1>5
<1> HIDE DEF back
<1>7. CASE rel
  <2>1. end.now = Netlist /\ end.stack = <<>>
    BY <1>4, <1>6, <1>7, PopLast
  <2> QED BY <1>1, <1>2, <2>1 DEF Netlist
<1>8. CASE ~rel
  <2>1. copy = start
    BY <1>8 DEF copy
  <2>2. end.now = Netlist /\ end.stack = <<>>
    BY <1>3, <1>4, <1>6, <1>8, <2>1
  <2> QED BY <1>1, <1>2, <2>2 DEF Netlist
<1> QED BY <1>7, <1>8

(* Every other pass makes no cell that matters here.                         *)
LEMMA StepKeeps == Inv /\ [Next]_vars => Inv'
<1> SUFFICES ASSUME Inv, [Next]_vars PROVE Inv'
  OBVIOUS
<1>1. CASE Begin
  BY <1>1, SameItems, OtherStepKeeps DEF Begin, Same, flowVars, Early
<1>2. CASE Prepare
  <2>1. label \in Early /\ checked' = checked /\ saved' = saved
    BY <1>2 DEF Prepare, At, Same, Early
  <2> DEFINE io == IF o.synplify THEN IoTranslated(items) ELSE items
             read == IF o.dspv2 \/ o.dspv4 THEN io
                     ELSE Turn(io, All({"QL_DSPV2"}, "$mul"))
  <2>2. NoNew(io, items)
    BY AllMakesNone DEF IoTranslated, Types, NoNew
  <2>3. NoNew(Turn(io, All({"QL_DSPV2"}, "$mul")), io)
    BY AllMakesNone DEF Types
  <2>4. NoNew(read, items)
    BY <2>2, <2>3 DEF NoNew
  <2>5. \A no : NoNew(Opt(items, no), items)
    BY OptMakesNone
  <2>6. NoNew(items', items)
    BY <1>2, <2>4, <2>5 DEF Prepare
  <2> QED BY <2>1, <2>6, OtherStepKeeps
<1>3. CASE MapDsp
  BY <1>3, MapDspKeeps
<1> DEFINE Rest == /\ label \in Later /\ label' = NextLabel
                   /\ checked' = checked /\ saved' = saved
                   /\ NoNew(items', items)
<1>4. ASSUME Rest PROVE Inv'
  BY <1>4, LaterStays, OtherStepKeeps
<1>5. ASSUME Coarse PROVE Rest
  BY <1>5, OptMakesNone DEF Coarse, At, Same, Later
<1>6. ASSUME MapBram PROVE Rest
  <2> DEFINE halves == {IF i = <<"$mem", "large">> THEN <<"half", "large">> ELSE i :
                          i \in items}
             f == [t \in {"half"} \cup (IF o.synplify THEN {"RAMB36E2"} ELSE {}) |->
                     BramType]
  <2>1. BramType \notin Types
    BY DEF BramType, Types
  <2>2. NoNew(halves, items)
    BY DEF NoNew, Types
  <2>3. NoNew(Turn(halves, f), halves)
    BY <2>1, TurnMakesNone
  <2>4. NoNew(items', items)
    BY <1>6, <2>2, <2>3 DEF MapBram, NoNew
  <2> QED BY <1>6, <2>4 DEF MapBram, At, Same, Later
<1>7. ASSUME MapFfram PROVE Rest
  <2> DEFINE A == Opt(items, noDff)
             B == MemoryMap(A)
  <2>1. NoNew(A, items) /\ NoNew(Opt(B, noDff), B)
    BY OptMakesNone
  <2>2. NoNew(B, A)
    BY DEF MemoryMap, NoNew, Types
  <2>3. NoNew(items', items)
    BY <1>7, <2>1, <2>2 DEF MapFfram, NoNew
  <2> QED BY <1>7, <2>3 DEF MapFfram, At, Same, Later
<1>8. ASSUME MapGates PROVE Rest
  <2> DEFINE f == [t \in {"$add", "$mul"} |->
                     IF t = "$add" /\ o.inferAdder THEN "adder_carry" ELSE "$gate"]
             A == Turn(items, f)
  <2>1. NoNew(A, items)
    BY TurnMakesNone DEF Types
  <2>2. NoNew(Opt(A, noDff), A)
    BY OptMakesNone
  <2>3. NoNew(items', items)
    BY <1>8, <2>1, <2>2 DEF MapGates, NoNew
  <2> QED BY <1>8, <2>3 DEF MapGates, At, Same, Later
<1>9. ASSUME MapFfs PROVE Rest
  <2> DEFINE A == Turn(items, Legal)
  <2>1. NoNew(A, items)
    BY TurnMakesNone DEF Legal, Types
  <2>2. NoNew(Turn(A, FfsMap), A)
    BY TurnMakesNone DEF FfsMap, Types
  <2>3. NoNew(items', items)
    BY <1>9, <2>1, <2>2 DEF MapFfs, NoNew
  <2> QED BY <1>9, <2>3 DEF MapFfs, At, Same, Later
<1>10. ASSUME MapLuts PROVE Rest
  <2>1. NoNew(ToLuts(items), items)
    <3> SUFFICES ASSUME NEW j \in ToLuts(items), j[1] \in Types PROVE j \in items
      BY DEF NoNew
    <3>1. \E i \in items : j = <<"$lut", i[2]>> \/ j = i
      BY DEF ToLuts
    <3> QED BY <3>1 DEF Types
  <2>2. NoNew(items', items)
    BY <1>10, <2>1, SameItems DEF MapLuts
  <2> QED BY <1>10, <2>2 DEF MapLuts, At, Same, Later
<1>11. ASSUME Passive PROVE Rest
  BY <1>11, SameItems DEF Passive, At, Same, Later
<1>12. ASSUME MapSynplify PROVE Rest
  <2> DEFINE A == OptDff(items, noDff)
             f == [t \in {"LUT6", "OBUF_FF"} |-> IF t = "LUT6" THEN "$lut" ELSE "dff"]
             B == Turn(A, f)
  <2>1. NoNew(A, items) /\ NoNew(OptDff(B, noDff), B)
    BY OptMakesNone
  <2>2. NoNew(B, A)
    BY TurnMakesNone DEF Types
  <2>3. NoNew(OptDff(B, noDff), items)
    BY <2>1, <2>2 DEF NoNew
  <2>4. items' = OptDff(B, noDff) \/ items' = items
    BY <1>12 DEF MapSynplify
  <2>5. NoNew(items', items)
    BY <2>3, <2>4, SameItems
  <2> QED BY <1>12, <2>5 DEF MapSynplify, At, Same, Later
<1>13. CASE LinkRelIps
  <2>1. label \in Later /\ (label' = label \/ label' = NextLabel)
        /\ items' = items /\ checked' = checked /\ saved' = saved
    BY <1>13 DEF LinkRelIps, flowVars, Later
  <2>2. label \notin Early
    BY <2>1 DEF Early, Later
  <2> QED BY <2>1, <2>2, LaterStays, SameItems, OtherStepKeeps
<1>14. ASSUME Clocks PROVE Rest
  BY <1>14, SameItems DEF Clocks, At, Same, Later
<1>15. ASSUME Blif PROVE Rest
  BY <1>15, BlifRestores, SameItems DEF Blif, At, Same, Later, Inv
<1>16. ASSUME Edif \/ Verilog PROVE Rest
  BY <1>16, SameItems DEF Edif, Verilog, At, Same, Later
<1>17. CASE Stopped \/ UNCHANGED vars
  BY <1>17, SameItems, OtherStepKeeps DEF Stopped, vars, flowVars
<1> QED BY <1>1, <1>2, <1>3, <1>4, <1>5, <1>6, <1>7, <1>8, <1>9, <1>10, <1>11, <1>12,
           <1>13, <1>14, <1>15, <1>16, <1>17 DEF Next

------------------------------------------------------------------------------
(* No product is torn from its accumulator.                                  *)
THEOREM FusedWholeHolds == Spec => []FusedWhole
<1>1. Inv => FusedWhole
  BY DEF Inv
<1> QED BY InvInit, StepKeeps, <1>1, PTL DEF Spec

(* No cell is lowered that was not checked.                                  *)
THEOREM LoweredCheckedHolds == Spec => []LoweredChecked
<1>1. Inv => LoweredChecked
  BY DEF Inv
<1> QED BY InvInit, StepKeeps, <1>1, PTL DEF Spec

(* Writing the BLIF changes nothing that is written after it.                *)
THEOREM BlifKeepsDesignHolds == Spec => BlifKeepsDesign
<1>1. Inv /\ [Next]_vars => [label = "blif" => UNCHANGED <<items, split, flat, saved>>]_vars
  <2> SUFFICES ASSUME Inv, Next, label = "blif"
               PROVE  UNCHANGED <<items, split, flat, saved>>
    OBVIOUS
  <2>1. CASE Blif
    BY <2>1, BlifRestores DEF Inv
  <2>2. CASE Stopped
    BY <2>2 DEF Stopped, vars, flowVars, linkVars
  <2> QED BY <2>1, <2>2 DEF Next, Begin, Prepare, MapDsp, Coarse, MapBram, MapFfram,
             MapGates, MapFfs, MapLuts, Passive, MapSynplify, LinkRelIps, Clocks, Edif,
             Verilog, At
<1> QED BY InvInit, StepKeeps, <1>1, PTL DEF Spec, BlifKeepsDesign

------------------------------------------------------------------------------
(* What is known of `lut': nothing was compared, or the result is Compare's. *)
Compared(l6, de, equal) ==
    lut = [lut6 |-> l6, de |-> de, equal |-> equal,
           take |-> IF equal /\ TakeDe(de, l6) THEN "de" ELSE "lut6"]

LutInv ==
    \/ lut = [take |-> "none"]
    \/ \E l6, de \in Metrics : \E equal \in BOOLEAN : Compared(l6, de, equal)

(* Of two mappings that are each better in one metric the scores are equal.  *)
LEMMA MixedIsDominance ==
  ASSUME NEW l6 \in Metrics, NEW de \in Metrics, o.de = "mixed"
  PROVE  ~TakeDe(de, l6) <=> l6.nd <= de.nd /\ l6.lev <= de.lev /\ l6 # de
<1> DEFINE n == l6.nd
           v == l6.lev
           dn == de.nd
           dv == de.lev
<1>1. /\ l6 \in [nd : Nat, lev : Nat]
      /\ de \in [nd : Nat, lev : Nat]
  BY FlowAssumption
<1>2. n \in Nat /\ v \in Nat /\ dn \in Nat /\ dv \in Nat
  BY <1>1
<1>3. l6 = de <=> n = dn /\ v = dv
  BY <1>1
<1>4. TakeDe(de, l6) <=>
        \/ dn <= n /\ dv <= v
        \/ ~(dn >= n /\ dv >= v) /\ Score(de, l6) <= Score(l6, de)
  BY DEF TakeDe
<1>5. /\ Score(de, l6) = (IF dn <= n THEN 0 ELSE 1) + (IF dv <= v THEN 0 ELSE 1)
      /\ Score(l6, de) = (IF n <= dn THEN 0 ELSE 1) + (IF v <= dv THEN 0 ELSE 1)
  BY DEF Score, Share
<1> HIDE DEF n, v, dn, dv
<1>6. ~TakeDe(de, l6) <=> n <= dn /\ v <= dv /\ ~(n = dn /\ v = dv)
  BY <1>2, <1>4, <1>5
<1> QED BY <1>3, <1>6 DEF n, v, dn, dv

LEMMA LutInvGives == LutInv => MixedTakesDe
<1> SUFFICES ASSUME LutInv, o.de = "mixed", lut.take # "none"
             PROVE  lut.take = "lut6" <=>
                      \/ ~lut.equal
                      \/ lut.lut6.nd <= lut.de.nd /\ lut.lut6.lev <= lut.de.lev
                         /\ lut.lut6 # lut.de
  BY DEF MixedTakesDe
<1>1. PICK l6 \in Metrics, de \in Metrics, equal \in BOOLEAN : Compared(l6, de, equal)
  BY DEF LutInv
<1>2. /\ lut.lut6 = l6 /\ lut.de = de /\ lut.equal = equal
      /\ lut.take = IF equal /\ TakeDe(de, l6) THEN "de" ELSE "lut6"
  BY <1>1 DEF Compared
<1>3. lut.take = "lut6" <=> ~(equal /\ TakeDe(de, l6))
  BY <1>2
<1> QED BY <1>2, <1>3, MixedIsDominance

(* Only MapLuts compares, and no step changes the options.                   *)
LEMMA LutStep == LutInv /\ [Next]_vars => LutInv'
<1> SUFFICES ASSUME LutInv, [Next]_vars PROVE LutInv'
  OBVIOUS
<1>1. o' = o
  BY DEF Next, Begin, Prepare, MapDsp, Coarse, MapBram, MapFfram, MapGates, MapFfs,
         MapLuts, Passive, MapSynplify, LinkRelIps, Clocks, Blif, Edif, Verilog,
         Stopped, vars, flowVars, Same
<1>2. CASE lut' = lut
  BY <1>1, <1>2 DEF LutInv, Compared, TakeDe
<1>3. CASE Compare
  BY <1>1, <1>3 DEF Compare, LutInv, Compared, TakeDe
<1>4. lut' = lut \/ Compare
  BY DEF Next, Begin, Prepare, MapDsp, Coarse, MapBram, MapFfram, MapGates, MapFfs,
         MapLuts, Passive, MapSynplify, LinkRelIps, Clocks, Blif, Edif, Verilog,
         Stopped, vars, flowVars, Same
<1> QED BY <1>2, <1>3, <1>4

(* -de mixed takes the other mapping unless it is worse or not equivalent.   *)
THEOREM MixedTakesDeHolds == Spec => []MixedTakesDe
<1>1. Init => LutInv
  BY DEF Init, LutInv
<1> QED BY <1>1, LutStep, LutInvGives, PTL DEF Spec

------------------------------------------------------------------------------
(* The types of the cells between the labels.                                *)
Of(S, K) == \A i \in S : i[1] \in K

LEMMA TurnOf ==
  ASSUME NEW S, NEW K, NEW L, NEW f, Of(S, K),
         \A t \in K : IF t \in DOMAIN f THEN f[t] \in L ELSE t \in L
  PROVE  Of(Turn(S, f), L)
<1> SUFFICES ASSUME NEW i \in S, NEW j,
                    j = IF i[1] \in DOMAIN f THEN <<f[i[1]], i[2]>> ELSE i
             PROVE  j[1] \in L
  BY DEF Of, Turn
<1>1. i[1] \in K
  BY DEF Of
<1> QED BY <1>1

LEMMA AllOf ==
  ASSUME NEW S, NEW K, NEW L, NEW T, NEW t, Of(S, K), t \in L, K \ T \subseteq L
  PROVE  Of(Turn(S, All(T, t)), L)
BY TurnOf DEF All

LEMMA OptOf ==
  ASSUME NEW S, NEW K, NEW no, Of(S, K),
         "$dff" \in K => "$dffe" \in K /\ "$sdff" \in K
  PROVE  Of(Opt(S, no), K) /\ Of(OptDff(S, no), K)
<1>1. Of(OptDff(S, no), K)
  <2> SUFFICES ASSUME NEW i \in S, NEW j,
                      j = CASE i = <<"$dff", "en">> /\ "dffe" \notin no -> <<"$dffe", "en">>
                            [] i = <<"$dff", "sr">> /\ "sdff" \notin no -> <<"$sdff", "sr">>
                            [] OTHER -> i
               PROVE  j[1] \in K
    BY DEF Of, OptDff
  <2>1. \/ i[1] = "$dff" /\ j = <<"$dffe", "en">>
        \/ i[1] = "$dff" /\ j = <<"$sdff", "sr">>
        \/ j = i
    OBVIOUS
  <2> QED BY <2>1 DEF Of
<1> QED BY <1>1 DEF Opt

LEMMA OfMore ==
  ASSUME NEW S, NEW K, NEW L, Of(S, K), K \subseteq L
  PROVE  Of(S, L)
BY DEF Of

(* The steps of DSP inference.                                               *)
LEMMA InferenceOf ==
  ASSUME NEW S, NEW K, Of(S, K)
  PROVE  /\ \A name, declined :
              Of(Mul2Dsp(S, name, declined), K \cup {name, "$add", "$__soft_mul"})
         /\ Of(Soft(S), (K \ {"$__soft_mul"}) \cup {"$mul"})
         /\ Of(QlDspv4(S), K \cup {"QL_DSP4"})
         /\ \A type : Of(Macc(S, type), K \cup {type})
<1>1. ASSUME NEW name, NEW declined
      PROVE  Of(Mul2Dsp(S, name, declined), K \cup {name, "$add", "$__soft_mul"})
  <2> SUFFICES ASSUME NEW j \in Mul2Dsp(S, name, declined)
               PROVE  j[1] \in K \cup {name, "$add", "$__soft_mul"}
    BY DEF Of
  <2>1. PICK i \in S :
          j \in IF i[1] # "$mul" THEN {i}
                ELSE IF i[2] \in declined THEN {<<"$__soft_mul", i[2]>>}
                ELSE CASE i[2] = "wide" -> {<<name, "piece">>, <<"$add", "wide">>}
                       [] i[2] = "macc" -> {<<name, "macc">>, <<"$add", "macc">>}
                       [] OTHER         -> {<<name, i[2]>>}
    BY DEF Mul2Dsp
  <2>2. \/ j = i \/ \E w : j = <<"$__soft_mul", w>>
        \/ \E w : j = <<name, w>> \/ j = <<"$add", w>>
    BY <2>1
  <2> QED BY <2>2 DEF Of
<1>2. Of(Soft(S), (K \ {"$__soft_mul"}) \cup {"$mul"})
  BY AllOf DEF Soft
<1>3. Of(QlDspv4(S), K \cup {"QL_DSP4"})
  BY DEF Of, QlDspv4
<1>4. ASSUME NEW type PROVE Of(Macc(S, type), K \cup {type})
  BY DEF Of, Macc
<1> QED BY <1>1, <1>2, <1>3, <1>4

LEMMA InferOf ==
  ASSUME NEW S, NEW K, Of(S, K), "$mul" \in K, "$add" \in K,
         K \cap {"$__soft_mul", "$__QL_DSP4_MUL", "dsp_t1_20x18x64",
                 "dsp_t1_10x9x32", "QL_DSP2"} = {}
  PROVE  /\ Of(InferV4(S), K \cup {"QL_DSP4"})
         /\ Of(InferV2(S), K \cup {"QL_DSPV2"})
         /\ Of(InferV1(S), K \cup {"QL_DSP2_MULT"})
<1>1. Of(InferV4(S), K \cup {"QL_DSP4"})
  <2> DEFINE A == QlDspv4(S)
             B == Mul2Dsp(A, "$__QL_DSP4_MUL", {"narrow"})
             C == Turn(B, All({"$__QL_DSP4_MUL"}, "$mul"))
             D == QlDspv4(C)
             L == K \cup {"QL_DSP4", "$__soft_mul"}
  <2>1. Of(A, L)
    <3>1. Of(A, K \cup {"QL_DSP4"})
      BY InferenceOf
    <3> QED BY <3>1, OfMore
  <2>2. Of(B, L \cup {"$__QL_DSP4_MUL"})
    <3>1. Of(B, L \cup {"$__QL_DSP4_MUL", "$add", "$__soft_mul"})
      BY <2>1, InferenceOf
    <3> QED BY <3>1, OfMore
  <2>3. Of(C, L)
    BY <2>2, AllOf
  <2>4. Of(D, L)
    <3>1. Of(D, L \cup {"QL_DSP4"})
      BY <2>3, InferenceOf
    <3> QED BY <3>1, OfMore
  <2>5. Of(Soft(D), K \cup {"QL_DSP4"})
    <3>1. Of(Soft(D), (L \ {"$__soft_mul"}) \cup {"$mul"})
      BY <2>4, InferenceOf
    <3> QED BY <3>1, OfMore
  <2> QED BY <2>5 DEF InferV4, Pieces
<1> DEFINE Round(T, name, declined) == Soft(Mul2Dsp(T, name, declined))
<1>2. ASSUME NEW T, NEW L, Of(T, L), K \subseteq L, NEW name \in L, NEW declined
      PROVE  Of(Round(T, name, declined), L)
  <2>1. Of(Mul2Dsp(T, name, declined), L \cup {name, "$add", "$__soft_mul"})
    BY <1>2, InferenceOf
  <2>2. Of(Round(T, name, declined),
           ((L \cup {name, "$add", "$__soft_mul"}) \ {"$__soft_mul"}) \cup {"$mul"})
    BY <2>1, InferenceOf
  <2> QED BY <1>2, <2>2, OfMore
<1>3. Of(InferV2(S), K \cup {"QL_DSPV2"})
  <2> DEFINE L == K \cup {"QL_DSPV2"}
             A == Macc(S, "QL_DSPV2")
             B == Round(A, "QL_DSPV2", {"small", "narrow"})
             C == Round(B, "QL_DSPV2", {"narrow"})
  <2>1. Of(A, L)
    BY InferenceOf
  <2>2. InferV2(S) = C
    BY DEF InferV2
  <2> HIDE DEF A, Round
  <2>3. Of(B, L)
    BY <1>2, <2>1
  <2> HIDE DEF B
  <2>4. Of(C, L)
    BY <1>2, <2>3
  <2> QED BY <2>2, <2>4
<1>4. Of(InferV1(S), K \cup {"QL_DSP2_MULT"})
  <2> DEFINE L == K \cup {"dsp_t1_20x18x64", "dsp_t1_10x9x32"}
             A == Macc(S, "dsp_t1_20x18x64")
             B == Round(A, "dsp_t1_20x18x64", {"small", "narrow"})
             C == Round(B, "dsp_t1_10x9x32", {"narrow"})
             D == Turn(C, All({"dsp_t1_10x9x32", "dsp_t1_20x18x64"}, "QL_DSP2"))
             E == Turn(D, All({"QL_DSP2"}, "QL_DSP2_MULT"))
  <2>1. Of(A, L)
    <3>1. Of(A, K \cup {"dsp_t1_20x18x64"})
      BY InferenceOf
    <3> QED BY <3>1, OfMore
  <2>2. InferV1(S) = E
    BY DEF InferV1
  <2> HIDE DEF A, Round
  <2>3. Of(B, L)
    BY <1>2, <2>1
  <2> HIDE DEF B
  <2>4. Of(C, L)
    BY <1>2, <2>3
  <2> HIDE DEF C
  <2>5. Of(D, K \cup {"QL_DSP2"})
    BY <2>4, AllOf
  <2> HIDE DEF D
  <2>6. Of(E, K \cup {"QL_DSP2_MULT"})
    BY <2>5, AllOf
  <2> QED BY <2>2, <2>6
<1> QED BY <1>1, <1>3, <1>4

------------------------------------------------------------------------------
(* What the netlist holds when each label comes next.                        *)
Rtl   == {"$mul", "$add", "$dff", "$dffe", "$sdff", "$gate", "$mem"}
Front == IF o.synplify /\ K6n10f
         THEN {"LUT6", "dffre", IF o.v3 THEN "io_sdffr" ELSE "OBUF_FF"} ELSE {}
Words == IF o.synplify THEN {"$mul", "$add"} ELSE Rtl

(* DSP cells before and after the label that maps them.                      *)
DspInstances ==
    IF ~K6n10f THEN {}
    ELSE IF o.dspv4 THEN {"QL_DSP4", "QL_DSPV2"} ELSE IF o.dspv2 THEN {"QL_DSPV2"} ELSE {}

DspCells ==
    IF ~K6n10f THEN {} ELSE IF o.nodsp THEN {"QL_DSP4", "QL_DSPV2"}
    ELSE {IF o.dspv4 THEN "QL_DSP4_MULT" ELSE IF o.dspv2
          THEN "QL_DSPV2_MULT" ELSE "QL_DSP2_MULT"}

(* Memories before and after theirs.                                         *)
RawRams == IF o.synplify /\ K6n10f THEN {"RAMB36E2"} ELSE {}
Rams    == IF K6n10f /\ o.inferBram THEN {BramType} ELSE RawRams

(* Flops before and after theirs.                                            *)
RawFfs == IF o.synplify THEN {} ELSE {"$dff", "$dffe", "$sdff"}
Internal == {"$_DFF_", "$_DFFE_", "$_SDFF_", "$_SDFFE_"}
Ffs    == IF o.synplify THEN {} ELSE IF o.noffmap THEN Internal
          ELSE IF ~K6n10f THEN {"dff"}
          ELSE {"dffre"} \cup IF o.nosdff THEN {} ELSE {"sdffre"}

Gates == {"adder_carry", "$gate"}
Luts  == {"adder_carry", "$lut"} \cup IF o.abcOpt THEN {} ELSE {"$gate"}

Mapped == DspCells \cup Front \cup Rams

Kinds(l) ==
    CASE l = "begin"   -> SourceTypes(o)
      [] l = "prepare" -> {t \in SourceTypes(o) :
                             t \in Instantiated => K6n10f /\ t \in DspModels}
      [] l = "map_dsp" -> DspInstances \cup Front \cup RawRams \cup Words
      [] l \in {"coarse", "map_bram"} -> DspCells \cup Front \cup RawRams \cup Words
      [] l = "map_ffram" -> Mapped \cup Words
      [] l = "map_gates" -> Mapped \cup (Words \ {"$mem"})
      [] l = "map_ffs"   -> Mapped \cup RawFfs \cup Gates
      [] l = "map_luts"  -> Mapped \cup Ffs \cup Gates
      [] l \in {"map_cells", "iomap", "check", "finalize", "map_synplify"} ->
           Mapped \cup Ffs \cup Luts
      [] OTHER -> Models \cup LeftAlone

BlifPlaceable ==
    "blif" \in DOMAIN out => Of(out["blif"].items, Models \cup LeftAlone)

KindsInv == Of(items, Kinds(label)) /\ BlifPlaceable

LEMMA NextIs ==
  ASSUME NEW i \in 1 .. 19, label = Order[i]
  PROVE  NextLabel = Order[i + 1]
<1>1. DOMAIN Order = 1 .. 20
  BY DEF Order
<1>2. \A j, k \in 1 .. 20 : Order[j] = Order[k] => j = k
  BY DEF Order
<1> DEFINE j == CHOOSE n \in DOMAIN Order : Order[n] = label
<1>3. j \in 1 .. 20 /\ Order[j] = label /\ NextLabel = Order[1 + j]
  <2>1. \E n \in DOMAIN Order : Order[n] = label
    BY <1>1
  <2>2. j \in DOMAIN Order /\ Order[j] = label
    BY <2>1
  <2> QED BY <1>1, <2>2 DEF NextLabel
<1> HIDE DEF j
<1>4. j = i
  BY <1>2, <1>3
<1> QED BY <1>3, <1>4

(* The labels, one after the other.                                          *)
LEMMA LabelsInTurn ==
  /\ label = "begin" => NextLabel = "prepare"
  /\ label = "prepare" => NextLabel = "map_dsp"
  /\ label = "map_dsp" => NextLabel = "coarse"
  /\ label = "coarse" => NextLabel = "map_bram"
  /\ label = "map_bram" => NextLabel = "map_ffram"
  /\ label = "map_ffram" => NextLabel = "map_gates"
  /\ label = "map_gates" => NextLabel = "map_ffs"
  /\ label = "map_ffs" => NextLabel = "map_luts"
  /\ label = "map_luts" => NextLabel = "map_cells"
  /\ label \in {"map_cells", "iomap", "check", "finalize"} =>
       NextLabel \in {"iomap", "check", "finalize", "map_synplify"}
  /\ label \in {"map_synplify", "link_rel_ips", "clocks", "blif", "edif", "verilog"} =>
       NextLabel \in {"link_rel_ips", "clocks", "blif", "edif", "verilog", "end"}
<1> DEFINE After(a, b) == label = a => NextLabel = b
<1>1. \A i \in 1 .. 19 : After(Order[i], Order[i + 1])
  BY NextIs
<1>2. /\ After(Order[1], Order[2]) /\ After(Order[2], Order[3])
      /\ After(Order[3], Order[4]) /\ After(Order[4], Order[5])
      /\ After(Order[5], Order[6]) /\ After(Order[6], Order[7])
      /\ After(Order[7], Order[8]) /\ After(Order[8], Order[9])
      /\ After(Order[9], Order[10])
  <2> HIDE DEF After
  <2> QED BY <1>1
<1>3. /\ After(Order[10], Order[11]) /\ After(Order[11], Order[12])
      /\ After(Order[12], Order[13]) /\ After(Order[13], Order[14])
      /\ After(Order[14], Order[15]) /\ After(Order[15], Order[16])
      /\ After(Order[16], Order[17]) /\ After(Order[17], Order[18])
      /\ After(Order[18], Order[19]) /\ After(Order[19], Order[20])
  <2> HIDE DEF After
  <2> QED BY <1>1
<1> QED BY <1>2, <1>3 DEF Order

LEMMA BeginKinds ==
  ASSUME Of(items, Kinds(label)), Begin
  PROVE  Of(items', Kinds(label'))
<1>1. CASE items' = items /\ label' = label
  BY <1>1
<1>2. CASE ~(items' = items /\ label' = label)
  <2>1. label = "begin" /\ label' = "prepare" /\ items' = items
    BY <1>2, LabelsInTurn DEF Begin, flowVars, Same
  <2>2. Of(items, SourceTypes(o))
    BY <2>1 DEF Kinds
  <2>3. \A i \in items :
          i[1] \notin Instantiated \ (IF K6n10f THEN DspModels ELSE {})
    BY <1>2, <2>1 DEF Begin, flowVars
  <2>4. Of(items, {t \in SourceTypes(o) : t \in Instantiated => K6n10f /\ t \in DspModels})
    BY <2>2, <2>3 DEF Of
  <2> QED BY <2>1, <2>4 DEF Kinds
<1> QED BY <1>1, <1>2

(* IO flops are translated and the DSP cells left are those of the option.   *)
LEMMA PrepareKinds ==
  ASSUME Of(items, Kinds(label)), Prepare
  PROVE  Of(items', Kinds(label'))
<1> DEFINE K    == {t \in SourceTypes(o) : t \in Instantiated => K6n10f /\ t \in DspModels}
           no   == (IF o.nosdff THEN {"sdff"} ELSE {})
                     \cup IF o.family = "qlf_k4n8" THEN {"dffe"} ELSE {}
           io   == IF o.synplify THEN IoTranslated(items) ELSE items
           read == IF o.dspv2 \/ o.dspv4 THEN io ELSE Turn(io, All({"QL_DSPV2"}, "$mul"))
           Target == DspInstances \cup Front \cup RawRams \cup Words
<1>1. label = "prepare" /\ label' = "map_dsp"
  BY LabelsInTurn DEF Prepare, At
<1>2. Of(items, K)
  BY <1>1 DEF Kinds
<1>3. CASE ~o.synplify
  <2>1. items' = Opt(items, no)
    BY <1>3 DEF Prepare
  <2>2. K \subseteq DspInstances \cup Words
    <3> SUFFICES ASSUME NEW t \in K PROVE t \in DspInstances \cup Words
      OBVIOUS
    <3>1. t \in {"QL_DSP4", "QL_DSPV2"} \/ t \in Rtl
      BY <1>3 DEF SourceTypes, Rtl
    <3>2. CASE t \in Rtl
      BY <1>3, <3>2 DEF Words
    <3>3. CASE t \in {"QL_DSP4", "QL_DSPV2"}
      BY <1>3, <3>3 DEF DspInstances, DspModels, Instantiated
    <3> QED BY <3>1, <3>2, <3>3
  <2>3. Of(items, DspInstances \cup Words)
    BY <1>2, <2>2, OfMore
  <2>4. Of(items', DspInstances \cup Words)
    <3>1. "$dffe" \in Words /\ "$sdff" \in Words
      BY <1>3 DEF Words, Rtl
    <3> QED BY <2>1, <2>3, <3>1, OptOf
  <2>5. Of(items', Target)
    BY <2>4, OfMore
  <2> QED BY <1>1, <2>5 DEF Kinds
<1>4. CASE o.synplify
  <2> DEFINE J == DspInstances \cup (IF o.dspv2 \/ o.dspv4 THEN {} ELSE {"QL_DSPV2"})
                    \cup Front \cup RawRams
  <2>1. items' = read
    BY <1>4 DEF Prepare
  <2>2. \A t \in K : /\ t \in {"QL_DSP4", "QL_DSPV2", "LUT6", "OBUF_FF", "RAMB36E2", "dffre"}
                     /\ K6n10f
                     /\ t = "QL_DSP4" => o.dspv4
    BY <1>4 DEF SourceTypes, Instantiated, DspModels, K6n10f
  <2>3. Of(io, J)
    <3>1. CASE o.v3
      <4>1. io = Turn(items, All({"OBUF_FF"}, "io_sdffr"))
        BY <1>4, <3>1 DEF IoTranslated
      <4>2. \A t \in K : IF t = "OBUF_FF" THEN "io_sdffr" \in J ELSE t \in J
        BY <1>4, <2>2, <3>1 DEF Front, RawRams, DspInstances
      <4> HIDE DEF J, K, io
      <4>3. \A t \in K : IF t \in DOMAIN All({"OBUF_FF"}, "io_sdffr")
                         THEN All({"OBUF_FF"}, "io_sdffr")[t] \in J ELSE t \in J
        BY <4>2 DEF All
      <4> QED BY <1>2, <4>1, <4>3, TurnOf
    <3>2. CASE ~o.v3
      <4>1. io = items
        BY <1>4, <3>2 DEF IoTranslated
      <4>2. K \subseteq J
        BY <1>4, <2>2, <3>2 DEF Front, RawRams, DspInstances
      <4> QED BY <1>2, <4>1, <4>2, OfMore
    <3> QED BY <3>1, <3>2
  <2>4. CASE o.dspv2 \/ o.dspv4
    <3>1. J \subseteq Target
      BY <2>4
    <3>2. read = io
      BY <2>4
    <3> HIDE DEF J, io, read, Target
    <3>3. Of(items', Target)
      BY <2>1, <2>3, <3>1, <3>2, OfMore
    <3> QED BY <1>1, <3>3 DEF Kinds, Target
  <2>5. CASE ~(o.dspv2 \/ o.dspv4)
    <3>1. "$mul" \in Target
      BY <1>4 DEF Words
    <3>2. J \ {"QL_DSPV2"} \subseteq Target
      BY <2>5
    <3>3. read = Turn(io, All({"QL_DSPV2"}, "$mul"))
      BY <2>5
    <3> HIDE DEF J, io, read, Target
    <3>4. Of(items', Target)
      BY <2>1, <2>3, <3>1, <3>2, <3>3, AllOf
    <3> QED BY <1>1, <3>4 DEF Kinds, Target
  <2> QED BY <2>4, <2>5
<1> QED BY <1>3, <1>4

(* No cell of a block is left that the option does not ask to leave.         *)
LEMMA MapDspKinds ==
  ASSUME Of(items, Kinds(label)), MapDsp
  PROVE  Of(items', Kinds(label'))
<1> DEFINE Rest   == Front \cup RawRams \cup Words
           Source == DspInstances \cup Rest
           native == IF o.synplify THEN items ELSE InferV4(items)
<1>1. label = "map_dsp" /\ label' = "coarse"
  BY LabelsInTurn DEF MapDsp, At
<1>2. Of(items, Source)
  BY <1>1 DEF Kinds
<1>3. SUFFICES Of(items', DspCells \cup Rest)
  BY <1>1 DEF Kinds
<1>4. CASE ~K6n10f \/ o.nodsp
  <2>1. DspInstances \subseteq DspCells
    BY <1>4 DEF DspInstances, DspCells
  <2>2. items' = items
    BY <1>4 DEF MapDsp
  <2> QED BY <1>2, <2>1, <2>2, OfMore
<1>a. "$mul" \in Rest /\ "$add" \in Rest
  BY DEF Words, Rtl
<1>b. Rest \cap {"$__soft_mul", "$__QL_DSP4_MUL", "dsp_t1_20x18x64", "dsp_t1_10x9x32",
                 "QL_DSP2", "QL_DSP4", "QL_DSPV2"} = {}
  BY DEF Front, RawRams, Words, Rtl
<1>5. CASE K6n10f /\ ~o.nodsp /\ o.dspv4
  <2>1. items' = Lowered(Bridged(native))
    BY <1>5 DEF MapDsp
  <2> DEFINE L == Rest \cup {"QL_DSP4", "QL_DSPV2"}
  <2>2. Of(items, L)
    <3>1. Source \subseteq L
      BY <1>5 DEF DspInstances
    <3> QED BY <1>2, <3>1, OfMore
  <2>3. Of(native, L)
    <3>1. CASE o.synplify
      BY <2>2, <3>1
    <3>2. CASE ~o.synplify
      <4>1. L \cap {"$__soft_mul", "$__QL_DSP4_MUL", "dsp_t1_20x18x64",
                    "dsp_t1_10x9x32", "QL_DSP2"} = {}
        BY <1>b
      <4>2. Of(InferV4(items), L \cup {"QL_DSP4"})
        <5>1. "$mul" \in L /\ "$add" \in L
          BY <1>a
        <5> HIDE DEF L
        <5> QED BY <2>2, <4>1, <5>1, InferOf
      <4> QED BY <3>2, <4>2, OfMore
    <3> QED BY <3>1, <3>2
  <2> HIDE DEF native, Rest
  <2>4. Of(Bridged(native), Rest \cup {"QL_DSP4"})
    BY <2>3, AllOf DEF Bridged
  <2>5. Of(items', (Rest \ {"QL_DSP4"}) \cup {"QL_DSP4_MULT"})
    BY <2>1, <2>4, AllOf DEF Lowered
  <2>6. "QL_DSP4_MULT" \in DspCells
    BY <1>5 DEF DspCells
  <2> QED BY <2>5, <2>6, OfMore
<1>6. CASE K6n10f /\ ~o.nodsp /\ ~o.dspv4 /\ o.dspv2
  <2> DEFINE L == Rest \cup {"QL_DSPV2"}
             new == IF o.synplify THEN items ELSE InferV2(items)
  <2>1. items' = Turn(new, All({"QL_DSPV2"}, "QL_DSPV2_MULT"))
    BY <1>6 DEF MapDsp
  <2>2. Of(items, L)
    <3>1. Source \subseteq L
      BY <1>6 DEF DspInstances
    <3> QED BY <1>2, <3>1, OfMore
  <2>3. Of(new, L)
    <3>1. CASE o.synplify
      BY <2>2, <3>1
    <3>2. CASE ~o.synplify
      <4>1. L \cap {"$__soft_mul", "$__QL_DSP4_MUL", "dsp_t1_20x18x64",
                    "dsp_t1_10x9x32", "QL_DSP2"} = {}
        BY <1>b
      <4>2. Of(InferV2(items), L \cup {"QL_DSPV2"})
        <5>1. "$mul" \in L /\ "$add" \in L
          BY <1>a
        <5> HIDE DEF L
        <5> QED BY <2>2, <4>1, <5>1, InferOf
      <4> QED BY <3>2, <4>2, OfMore
    <3> QED BY <3>1, <3>2
  <2> HIDE DEF new, Rest
  <2>4. "QL_DSPV2_MULT" \in DspCells
    BY <1>6 DEF DspCells
  <2> QED BY <2>1, <2>3, <2>4, AllOf
<1>7. CASE K6n10f /\ ~o.nodsp /\ ~o.dspv4 /\ ~o.dspv2
  <2>1. items' = InferV1(items)
    BY <1>7 DEF MapDsp
  <2>2. Of(items, Rest)
    <3>1. Source \subseteq Rest
      BY <1>7 DEF DspInstances
    <3> QED BY <1>2, <3>1, OfMore
  <2>3. "QL_DSP2_MULT" \in DspCells
    BY <1>7 DEF DspCells
  <2> HIDE DEF Rest
  <2>4. Of(InferV1(items), Rest \cup {"QL_DSP2_MULT"})
    <3>1. Rest \cap {"$__soft_mul", "$__QL_DSP4_MUL", "dsp_t1_20x18x64",
                     "dsp_t1_10x9x32", "QL_DSP2"} = {}
      BY <1>b
    <3> QED BY <1>a, <2>2, <3>1, InferOf
  <2> QED BY <2>1, <2>3, <2>4, OfMore
<1> QED BY <1>4, <1>5, <1>6, <1>7

LEMMA WordsOpt ==
  /\ "$dff" \in Words => "$dffe" \in Words /\ "$sdff" \in Words
  /\ "$dff" \notin DspCells \cup Front \cup RawRams \cup Rams
BY DEF Words, Rtl, DspCells, Front, RawRams, Rams, BramType

(* coarse, map_bram and map_ffram: each kind of memory has its block, or     *)
(* becomes flops and gates.                                                  *)
LEMMA MemoryKinds ==
  ASSUME Of(items, Kinds(label)), Coarse \/ MapBram \/ MapFfram
  PROVE  Of(items', Kinds(label'))
<1> DEFINE K == DspCells \cup Front \cup RawRams \cup Words
           L == Mapped \cup Words
<1>0. /\ "$dff" \in K => "$dffe" \in K /\ "$sdff" \in K
      /\ "$dff" \in L => "$dffe" \in L /\ "$sdff" \in L
      /\ "$dff" \in L \ {"$mem"} => "$dffe" \in L \ {"$mem"} /\ "$sdff" \in L \ {"$mem"}
  BY WordsOpt DEF Mapped
<1>1. CASE Coarse
  <2>1. label = "coarse" /\ label' = "map_bram" /\ items' = Opt(items, noDff)
    BY <1>1, LabelsInTurn DEF Coarse, At
  <2>2. Of(items, K) /\ Kinds(label') = K
    BY <2>1 DEF Kinds
  <2> HIDE DEF K
  <2> QED BY <1>0, <2>1, <2>2, OptOf
<1>2. CASE MapBram
  <2> DEFINE halves == {IF i = <<"$mem", "large">> THEN <<"half", "large">> ELSE i :
                          i \in items}
             f == [t \in {"half"} \cup (IF o.synplify THEN {"RAMB36E2"} ELSE {}) |->
                     BramType]
  <2>1. label = "map_bram" /\ label' = "map_ffram"
    BY <1>2, LabelsInTurn DEF MapBram, At
  <2>2. Of(items, K) /\ Kinds(label') = L
    BY <2>1 DEF Kinds
  <2>3. CASE K6n10f /\ o.inferBram
    <3>1. items' = Turn(halves, f)
      BY <1>2, <2>3 DEF MapBram
    <3>2. Of(halves, K \cup {"half"})
      BY <2>2 DEF Of
    <3>3. \A t \in K \cup {"half"} : IF t \in DOMAIN f THEN f[t] \in L ELSE t \in L
      <4>1. Rams = {BramType}
        BY <2>3 DEF Rams
      <4>2. \A t \in DOMAIN f : f[t] \in L
        BY <4>1 DEF Mapped
      <4>3. RawRams \subseteq DOMAIN f
        BY DEF RawRams
      <4> QED BY <4>2, <4>3 DEF Mapped
    <3> HIDE DEF f, halves, K, L
    <3> QED BY <2>2, <3>1, <3>2, <3>3, TurnOf
  <2>4. CASE ~(K6n10f /\ o.inferBram)
    <3>1. items' = items
      BY <1>2, <2>4 DEF MapBram
    <3>2. K \subseteq L
      BY <2>4 DEF Mapped, Rams
    <3> QED BY <2>2, <3>1, <3>2, OfMore
  <2> QED BY <2>3, <2>4
<1>3. CASE MapFfram
  <2>1. label = "map_ffram" /\ label' = "map_gates"
    BY <1>3, LabelsInTurn DEF MapFfram, At
  <2>2. Of(items, L) /\ Kinds(label') = Mapped \cup (Words \ {"$mem"})
    BY <2>1 DEF Kinds
  <2>3. CASE o.synplify
    <3>1. items' = items /\ Words \ {"$mem"} = Words
      BY <1>3, <2>3 DEF MapFfram, Words
    <3> QED BY <2>2, <3>1
  <2>4. CASE ~o.synplify
    <3> DEFINE S == Opt(items, noDff)
               M == L \ {"$mem"}
    <3>1. items' = Opt(MemoryMap(S), noDff)
      BY <1>3, <2>4 DEF MapFfram
    <3>2. Of(S, L)
      <4> HIDE DEF L
      <4> QED BY <1>0, <2>2, OptOf
    <3> HIDE DEF S
    <3>3. Of(MemoryMap(S), M)
      <4>1. "$dff" \in M /\ "$gate" \in M
        BY <2>4 DEF Words, Rtl
      <4> QED BY <3>2, <4>1 DEF Of, MemoryMap
    <3>4. Of(items', M)
      <4> HIDE DEF M
      <4>1. "$dff" \in M => "$dffe" \in M /\ "$sdff" \in M
        BY <1>0 DEF M
      <4> QED BY <3>1, <3>3, <4>1, OptOf
    <3>5. M \subseteq Mapped \cup (Words \ {"$mem"})
      OBVIOUS
    <3> QED BY <2>2, <3>4, <3>5, OfMore
  <2> QED BY <2>3, <2>4
<1> QED BY <1>1, <1>2, <1>3

(* map_gates and map_ffs: what is left of the words becomes gates, and the   *)
(* flops become those of the family.                                         *)
LEMMA MapGatesKinds ==
  ASSUME Of(items, Kinds(label)), MapGates
  PROVE  Of(items', Kinds(label'))
<1> DEFINE K == Mapped \cup (Words \ {"$mem"})
           L == Mapped \cup RawFfs \cup Gates
           f == [t \in {"$add", "$mul"} |->
                   IF t = "$add" /\ o.inferAdder THEN "adder_carry" ELSE "$gate"]
<1>1. label = "map_gates" /\ label' = "map_ffs" /\ items' = Opt(Turn(items, f), noDff)
  BY LabelsInTurn DEF MapGates, At
<1>2. Of(items, K) /\ Kinds(label') = L
  BY <1>1 DEF Kinds
<1>3. \A t \in K : IF t \in DOMAIN f THEN f[t] \in L ELSE t \in L
  <2>1. \A t \in DOMAIN f : f[t] \in L
    BY DEF Gates
  <2>2. Words \ {"$mem", "$add", "$mul"} \subseteq RawFfs \cup Gates
    BY DEF Words, Rtl, RawFfs, Gates
  <2> QED BY <2>1, <2>2
<1>4. "$dff" \in L => "$dffe" \in L /\ "$sdff" \in L
  <2>1. "$dff" \notin Mapped
    BY WordsOpt DEF Mapped
  <2> QED BY <2>1 DEF RawFfs, Gates
<1> HIDE DEF f, K, L
<1>5. Of(Turn(items, f), L)
  BY <1>2, <1>3, TurnOf
<1> QED BY <1>1, <1>2, <1>4, <1>5, OptOf

LEMMA MapFfsKinds ==
  ASSUME Of(items, Kinds(label)), MapFfs
  PROVE  Of(items', Kinds(label'))
<1> DEFINE K == Mapped \cup RawFfs \cup Gates
           Flow == IF o.synplify THEN {} ELSE IF ~K6n10f THEN {"$_DFF_"}
                   ELSE {"$_DFF_", "$_DFFE_"} \cup
                        IF o.nosdff THEN {} ELSE {"$_SDFF_", "$_SDFFE_"}
           J == Mapped \cup Flow \cup Gates
           L == Mapped \cup Ffs \cup Gates
           legal == Turn(items, Legal)
<1>1. label = "map_ffs" /\ label' = "map_luts"
      /\ items' = IF o.noffmap THEN legal ELSE Turn(legal, FfsMap)
  BY LabelsInTurn DEF MapFfs, At
<1>2. Of(items, K) /\ Kinds(label') = L
  BY <1>1 DEF Kinds
<1>3. DOMAIN Legal = {"$dff", "$dffe", "$sdff"}
  BY DEF Legal
<1>4. (Mapped \cup Gates) \cap (DOMAIN Legal \cup Internal) = {}
  BY <1>3 DEF Mapped, DspCells, Front, Rams, RawRams, BramType, Gates, Internal
<1>5. \A t \in K : IF t \in DOMAIN Legal THEN Legal[t] \in J ELSE t \in J
  <2>1. CASE o.synplify
    <3>1. K = Mapped \cup Gates
      BY <2>1 DEF RawFfs
    <3> QED BY <1>4, <3>1
  <2>2. CASE ~o.synplify
    <3>1. \A t \in DOMAIN Legal : Legal[t] \in Flow
      BY <2>2 DEF Legal, Resets
    <3>2. RawFfs = DOMAIN Legal
      BY <1>3, <2>2 DEF RawFfs
    <3> QED BY <3>1, <3>2
  <2> QED BY <2>1, <2>2
<1>6. Of(legal, J)
  <2> HIDE DEF J, K
  <2> QED BY <1>2, <1>5, TurnOf
<1>7. CASE o.noffmap
  <2>1. Flow \subseteq Ffs
    BY <1>7 DEF Ffs, Internal
  <2>2. J \subseteq L
    BY <2>1
  <2> HIDE DEF J, L, legal
  <2> QED BY <1>1, <1>2, <1>6, <1>7, <2>2, OfMore
<1>8. CASE ~o.noffmap
  <2>1. DOMAIN FfsMap = Internal
    BY DEF FfsMap, Internal
  <2>2. \A t \in J : IF t \in DOMAIN FfsMap THEN FfsMap[t] \in L ELSE t \in L
    <3>1. \A t \in Flow : t \in DOMAIN FfsMap /\ FfsMap[t] \in Ffs
      BY <1>8 DEF FfsMap, Ffs, Internal
    <3> QED BY <1>4, <2>1, <3>1
  <2> HIDE DEF J, L, legal
  <2>3. Of(Turn(legal, FfsMap), L)
    BY <1>6, <2>2, TurnOf
  <2> QED BY <1>1, <1>2, <1>8, <2>3
<1> QED BY <1>7, <1>8

(* map_luts: gates stay only where abc is not run.                           *)
LEMMA MapLutsKinds ==
  ASSUME Of(items, Kinds(label)), MapLuts
  PROVE  Of(items', Kinds(label'))
<1> DEFINE K == Mapped \cup Ffs \cup Gates
           L == Mapped \cup Ffs \cup Luts
<1>1. label = "map_luts" /\ label' = "map_cells"
  BY LabelsInTurn DEF MapLuts, At
<1>2. Of(items, K) /\ Kinds(label') = L
  BY <1>1 DEF Kinds
<1>3. CASE ~o.abcOpt
  <2>1. items' = items
    BY <1>3 DEF MapLuts
  <2>2. Gates \subseteq Luts
    BY <1>3 DEF Gates, Luts
  <2>3. K \subseteq L
    BY <2>2
  <2> HIDE DEF K, L
  <2> QED BY <1>2, <2>1, <2>3, OfMore
<1>4. CASE o.abcOpt
  <2>1. items' = ToLuts(items)
    BY <1>4 DEF MapLuts
  <2>2. \A t \in K : t # "$gate" => t \in L
    BY DEF Gates, Luts
  <2>3. "$lut" \in L
    BY DEF Luts
  <2> HIDE DEF K, L
  <2> SUFFICES ASSUME NEW j \in items' PROVE j[1] \in L
    BY <1>2 DEF Of
  <2>4. PICK i \in items :
          j = IF i[1] \in {"$gate"} \cup (IF o.synplify /\ o.de # "" THEN {"LUT6"} ELSE {})
              THEN <<"$lut", i[2]>> ELSE i
    BY <2>1 DEF ToLuts
  <2>5. i[1] \in K
    BY <1>2 DEF Of
  <2> QED BY <2>2, <2>3, <2>4, <2>5
<1> QED BY <1>3, <1>4

(* map_synplify, the last pass that changes kinds, leaves models only.       *)
LEMMA MapSynplifyKinds ==
  ASSUME Of(items, Kinds(label)), MapSynplify
  PROVE  Of(items', Kinds(label'))
<1> DEFINE K == Mapped \cup Ffs \cup Luts
           L == Models \cup LeftAlone
           f == [t \in {"LUT6", "OBUF_FF"} |-> IF t = "LUT6" THEN "$lut" ELSE "dff"]
           opt == OptDff(items, noDff)
           luts == Turn(opt, f)
           M == (K \ {"LUT6", "OBUF_FF"}) \cup {"$lut"} \cup
                  IF o.v3 THEN {} ELSE {"dff"}
<1>1. label = "map_synplify" /\ label' \in {"link_rel_ips", "clocks", "blif", "edif", "verilog", "end"}
  BY LabelsInTurn DEF MapSynplify, At
<1>2. Of(items, K) /\ Kinds(label') = L
  BY <1>1 DEF Kinds
<1>3. DspCells \cup Rams \cup Luts \cup Ffs \subseteq L
  <2>1. DspCells \subseteq L
    BY DEF DspCells, Models, LeftAlone
  <2>2. Rams \subseteq L
    BY DEF Rams, RawRams, Models, LeftAlone
  <2>3. Luts \subseteq L
    BY DEF Luts, Models, LeftAlone
  <2>4. Ffs \subseteq L
    BY DEF Ffs, Internal, Models, LeftAlone
  <2> QED BY <2>1, <2>2, <2>3, <2>4
<1>4. CASE ~(K6n10f /\ o.synplify)
  <2>1. items' = items
    BY <1>4 DEF MapSynplify
  <2>2. Front = {}
    BY <1>4 DEF Front
  <2>3. K \subseteq L
    BY <1>3, <2>2 DEF Mapped
  <2> HIDE DEF K, L
  <2> QED BY <1>2, <2>1, <2>3, OfMore
<1>5. CASE K6n10f /\ o.synplify
  <2>1. items' = OptDff(luts, noDff)
    BY <1>5 DEF MapSynplify
  <2>2. Ffs = {} /\ "$dff" \notin K
    BY <1>5, WordsOpt DEF Ffs, Luts, Mapped
  <2>3. Of(opt, K)
    <3> HIDE DEF K
    <3> QED BY <1>2, <2>2, OptOf
  <2>4. "OBUF_FF" \in K => ~o.v3
    BY <2>2 DEF Mapped, DspCells, Front, Rams, RawRams, BramType, Luts
  <2>5. \A t \in K : IF t \in DOMAIN f THEN f[t] \in M ELSE t \in M
    BY <2>4
  <2>6. "$dff" \notin M
    BY <2>2
  <2>7. M \subseteq L
    <3>1. Front \ {"LUT6", "OBUF_FF"} \subseteq L
      BY <1>5 DEF Front, Models
    <3>2. "$lut" \in L /\ (~o.v3 => "dff" \in L)
      BY <1>5 DEF Models
    <3> HIDE DEF L
    <3> QED BY <1>3, <2>2, <3>1, <3>2 DEF Mapped
  <2> HIDE DEF f, K, L, M, opt
  <2>8. Of(luts, M)
    BY <2>3, <2>5, TurnOf
  <2> HIDE DEF luts
  <2>9. Of(items', M)
    BY <2>1, <2>6, <2>8, OptOf
  <2> QED BY <1>2, <2>7, <2>9, OfMore
<1> QED BY <1>4, <1>5

(* What is written holds the types of the netlist, and buffers.              *)
LEMMA BlifKinds ==
  ASSUME Of(items, Kinds(label)), BlifPlaceable, Blif
  PROVE  \/ out' = out
         \/ "blif" \in DOMAIN out' /\ Of(out'["blif"].items, Models \cup LeftAlone)
<1> DEFINE L       == Models \cup LeftAlone
           rel     == linked # <<>>
           start   == [now |-> Netlist, stack |-> saved]
           copy    == IF rel THEN Scratch(start) ELSE start
           first   == Buffered(copy.now)
           again   == Push(copy, Unbuffered(first))
           written == IF o.dspv4 THEN again.now ELSE first
<1>1. out' = out \/ Write("blif", written)
  BY DEF Blif
<1>2. Of(items, L)
  BY DEF Blif, At, Kinds
<1>3. Of(copy.now.items, L)
  <2>1. CASE ~rel
    BY <1>2, <2>1 DEF Netlist
  <2>2. CASE rel
    <3>1. copy.now = Trimmed(Netlist)
      BY <2>2 DEF Scratch, PushCopy
    <3>2. copy.now.items = {<<i[1], "any">> : i \in items}
      BY <3>1 DEF Trimmed, Netlist
    <3> HIDE DEF L, copy
    <3> QED BY <1>2, <3>2 DEF Of
  <2> QED BY <2>1, <2>2
<1>4. copy.now = [items |-> copy.now.items, split |-> split, flat |-> flat]
  BY DEF Scratch, PushCopy, Trimmed, Netlist
<1> HIDE DEF copy
<1>5. first.items \subseteq copy.now.items \cup {Buffer}
      /\ first = [items |-> first.items, split |-> split, flat |-> flat]
  BY <1>4 DEF Buffered
<1> HIDE DEF first
<1>6. written.items \subseteq copy.now.items \cup {Buffer}
  BY <1>5 DEF Push, Unbuffered
<1> HIDE DEF written
<1>7. Of(written.items, L)
  <2>1. Buffer[1] \in L
    BY DEF Buffer, Models
  <2> HIDE DEF L
  <2> QED BY <1>3, <1>6, <2>1 DEF Of
<1> QED BY <1>1, <1>7 DEF Write

(* The labels after it change no kind of cell.                               *)
LEMMA LateKinds ==
  ASSUME KindsInv, saved = <<>>,
         Passive \/ LinkRelIps \/ Clocks \/ Blif \/ Edif \/ Verilog
  PROVE  Of(items', Kinds(label'))
<1>1. items' = items
  BY BlifRestores DEF Passive, LinkRelIps, Clocks, Edif, Verilog, Same, flowVars
<1>2. CASE label' = label
  BY <1>1, <1>2 DEF KindsInv
<1>3. CASE label' # label
  <2>1. label' = NextLabel
    BY <1>3 DEF Passive, LinkRelIps, Clocks, Blif, Edif, Verilog, At, flowVars
  <2>2. label \in {"map_cells", "iomap", "check", "finalize",
                   "link_rel_ips", "clocks", "blif", "edif", "verilog"}
    BY DEF Passive, LinkRelIps, Clocks, Blif, Edif, Verilog, At
  <2>3. Kinds(label') = Kinds(label)
    <3>1. \/ /\ label \in {"map_cells", "iomap", "check", "finalize"}
             /\ label' \in {"iomap", "check", "finalize", "map_synplify"}
          \/ /\ label \in {"link_rel_ips", "clocks", "blif", "edif", "verilog"}
             /\ label' \in {"link_rel_ips", "clocks", "blif", "edif", "verilog", "end"}
      BY <2>1, <2>2, LabelsInTurn
    <3> QED BY <3>1 DEF Kinds
  <2> QED BY <1>1, <2>3 DEF KindsInv
<1> QED BY <1>2, <1>3

LEMMA KindsStep == Inv /\ KindsInv /\ [Next]_vars => KindsInv'
<1> SUFFICES ASSUME Inv, KindsInv, [Next]_vars PROVE KindsInv'
  OBVIOUS
<1>1. o' = o
  BY DEF Next, Begin, Prepare, MapDsp, Coarse, MapBram, MapFfram, MapGates, MapFfs,
         MapLuts, Passive, MapSynplify, LinkRelIps, Clocks, Blif, Edif, Verilog,
         Stopped, vars, flowVars, Same
<1>2. Of(items', Kinds(label'))
  <2>1. CASE Stopped \/ UNCHANGED vars
    BY <2>1 DEF KindsInv, Stopped, vars, flowVars
  <2> QED BY <2>1, BeginKinds, PrepareKinds, MapDspKinds, MemoryKinds, MapGatesKinds,
             MapFfsKinds, MapLutsKinds, MapSynplifyKinds, LateKinds DEF KindsInv, Inv, Next
<1>3. \/ "blif" \notin DOMAIN out'
      \/ Of(out'["blif"].items, Models \cup LeftAlone)
  <2>1. CASE Blif
    BY <2>1, BlifKinds DEF KindsInv, BlifPlaceable
  <2>2. CASE \E f, what : f # "blif" /\ Write(f, what)
    BY <2>2 DEF Write, KindsInv, BlifPlaceable
  <2>3. CASE out' = out
    BY <2>3 DEF KindsInv, BlifPlaceable
  <2>4. \/ Blif \/ out' = out
        \/ \E f, what : f # "blif" /\ Write(f, what)
    <3>1. Clocks => \E f, what : f # "blif" /\ Write(f, what)
      BY DEF Clocks
    <3>2. Edif => out' = out \/ \E f, what : f # "blif" /\ Write(f, what)
      BY DEF Edif
    <3>3. Verilog => out' = out \/ \E f, what : f # "blif" /\ Write(f, what)
      BY DEF Verilog
    <3> QED BY <3>1, <3>2, <3>3 DEF Next, Begin, Prepare, MapDsp, Coarse, MapBram,
               MapFfram, MapGates, MapFfs, MapLuts, Passive, MapSynplify, LinkRelIps,
               Stopped, vars, flowVars, Same
  <2> QED BY <2>1, <2>2, <2>3, <2>4
<1>4. BlifPlaceable'
  BY <1>1, <1>3 DEF BlifPlaceable, Models, LeftAlone, K6n10f, BramType
<1>5. Of(items, Kinds(label))'
  <2>1. \A l : Kinds(l)' = Kinds(l')
    BY <1>1 DEF Kinds, SourceTypes, Instantiated, DspModels, DspInstances, Front,
       RawRams, Words, DspCells, Mapped, Rams, RawFfs, Gates, Ffs, Luts, Models, LeftAlone,
       K6n10f, BramType
  <2> QED BY <1>2, <2>1 DEF Of
<1> QED BY <1>4, <1>5 DEF KindsInv

LEMMA KindsInit == Init => KindsInv
<1> SUFFICES ASSUME Init PROVE KindsInv
  OBVIOUS
<1>1. PICK s \in Sources : o = Finalized(s.o) /\ items = s.items
  BY DEF Init
<1>2. o.family = s.o.family /\ o.synplify = s.o.synplify
  BY <1>1, SourcesAssumption DEF Finalized
<1>3. Of(items, SourceTypes(s.o))
  BY <1>1, SourcesAssumption DEF Of
<1>4. SourceTypes(o) = SourceTypes(s.o)
  BY <1>2 DEF SourceTypes
<1>5. label = "begin" /\ DOMAIN out = {}
  BY DEF Init, Written
<1> QED BY <1>3, <1>4, <1>5 DEF KindsInv, Kinds, BlifPlaceable

(* The BLIF holds only cells the architecture has a model for.               *)
THEOREM OnlyPlaceableHolds == Spec => []OnlyPlaceable
<1>1. KindsInv => OnlyPlaceable
  BY DEF KindsInv, BlifPlaceable, OnlyPlaceable, Of
<1> QED BY InvInit, StepKeeps, KindsInit, KindsStep, <1>1, PTL DEF Spec

------------------------------------------------------------------------------
(* Linking keeps what the list of clocks is made from.  Base(s): the modules *)
(* of the source are there; those not replaced by an IP are marked as they   *)
(* were; and the cells that flatten brings up are of such a module.          *)
LinkedSet == {linked[j] : j \in DOMAIN linked}

Cleared(t) == \A j \in 1 .. stamped : t # linked[j]
IsInner(s, m) ==
    \A c \in DOMAIN module[m].cells :
      module[m].cells[c].type \in DOMAIN s.module /\ Cleared(module[m].cells[c].type)

InOrder(s) ==
    /\ ips \in Seq(DOMAIN IpFile) /\ linked \in Seq(DOMAIN s.module \ {Top})
    /\ stamped \in Nat /\ stamped <= Len(linked)
    /\ ips # <<>> => stamped = 0
    /\ stamped = 0 => DOMAIN module = DOMAIN s.module
    /\ DOMAIN flat # {} => ips = <<>> /\ stamped = Len(linked)

Marked(s) ==
    /\ DOMAIN s.module \subseteq DOMAIN module
    /\ \A m \in DOMAIN module : IsDefinition(module[m])
    /\ \A m \in DOMAIN s.module \ LinkedSet : module[m].clk = (m \in ClockedTypes)
    /\ ~module[Top].box /\ DOMAIN module[Top].cells = DOMAIN s.module[Top].cells

FlatOf(s) ==
    /\ IsFiniteSet(DOMAIN flat)
    /\ \A p \in DOMAIN flat : flat[p].type \in DOMAIN s.module \ LinkedSet

Base(s) ==
    /\ InOrder(s) /\ Marked(s) /\ FlatOf(s)
    /\ \A m \in DOMAIN module \ {Top} : IsInner(s, m)

LinkInv == \E s \in Sources : Base(s)

LEMMA LinkInit == Init => LinkInv
<1> SUFFICES ASSUME Init PROVE LinkInv
  OBVIOUS
<1>1. PICK s \in Sources : module = s.module /\ ips = s.ips
  BY DEF Init
<1>2. linked = <<>> /\ stamped = 0 /\ flat = Written
  BY DEF Init
<1>3. DOMAIN flat = {}
  BY <1>2 DEF Written
<1>4. InOrder(s)
  BY <1>1, <1>2, <1>3, ModulesAssumption DEF InOrder
<1>5. Marked(s)
  BY <1>1, ModulesAssumption DEF Marked
<1>6. FlatOf(s)
  BY <1>3, FS_EmptySet DEF FlatOf
<1>7. \A m \in DOMAIN module \ {Top} : IsInner(s, m)
  BY <1>1, <1>2, ModulesAssumption DEF IsInner, Cleared
<1> QED BY <1>4, <1>5, <1>6, <1>7 DEF Base, LinkInv

LEMMA SameLink ==
  ASSUME LinkInv, UNCHANGED <<module, ips, linked, stamped, flat>>
  PROVE  LinkInv'
<1>1. PICK s \in Sources : Base(s)
  BY DEF LinkInv
<1>2. InOrder(s)' /\ Marked(s)' /\ FlatOf(s)'
  BY <1>1 DEF Base, InOrder, Marked, FlatOf, LinkedSet
<1>3. (\A m \in DOMAIN module \ {Top} : IsInner(s, m))'
  BY <1>1 DEF Base, IsInner, Cleared
<1>4. Base(s)'
  BY <1>2, <1>3 DEF Base
<1> QED BY <1>4 DEF LinkInv

LEMMA AppendSet ==
  ASSUME NEW S, NEW q \in Seq(S), NEW e \in S
  PROVE  {Append(q, e)[j] : j \in DOMAIN Append(q, e)} = {q[j] : j \in DOMAIN q} \cup {e}
<1>1. /\ DOMAIN q = 1 .. Len(q) /\ Len(q) \in Nat
      /\ DOMAIN Append(q, e) = 1 .. Len(q) + 1
      /\ Append(q, e)[Len(q) + 1] = e
      /\ \A j \in 1 .. Len(q) : Append(q, e)[j] = q[j]
  BY AppendProperties
<1>2. ASSUME NEW j \in DOMAIN Append(q, e)
      PROVE  Append(q, e)[j] \in {q[k] : k \in DOMAIN q} \cup {e}
  <2>1. j \in 1 .. Len(q) \/ j = Len(q) + 1
    BY <1>1
  <2> QED BY <1>1, <2>1
<1>3. Len(q) + 1 \in DOMAIN Append(q, e) /\ 1 .. Len(q) \subseteq DOMAIN Append(q, e)
  BY <1>1
<1> QED BY <1>1, <1>2, <1>3

LEMMA ImportLink ==
  ASSUME LinkInv, ImportIp
  PROVE  LinkInv'
<1>1. CASE UNCHANGED <<module, ips, linked, stamped, flat>>
  BY <1>1, SameLink
<1>2. CASE ~UNCHANGED <<module, ips, linked, stamped, flat>>
  <2> DEFINE f == Head(ips)
             t == IpModule(f)
  <2>1. /\ ips # <<>> /\ ~WrongFile(f) /\ ~WrongStub(f) /\ ~WrongCells(f)
        /\ module' = [m \in DOMAIN module |-> IF m \in {t} THEN IpFile[f][m] ELSE module[m]]
        /\ ips' = Tail(ips) /\ linked' = Append(linked, t)
        /\ stamped' = stamped /\ flat' = flat
    BY <1>2 DEF ImportIp, Fail, Taken
  <2>2. PICK s \in Sources : Base(s)
    BY DEF LinkInv
  <2>3. /\ stamped = 0 /\ DOMAIN module = DOMAIN s.module /\ DOMAIN flat = {}
        /\ f \in DOMAIN IpFile /\ Tail(ips) \in Seq(DOMAIN IpFile)
    <3>1. ips \in Seq(DOMAIN IpFile) /\ ips # <<>>
      BY <2>1, <2>2 DEF Base, InOrder
    <3>2. f \in DOMAIN IpFile /\ Tail(ips) \in Seq(DOMAIN IpFile)
      BY <3>1, HeadTailProperties
    <3> QED BY <2>2, <3>1, <3>2 DEF Base, InOrder
  <2>4. t \in DOMAIN IpFile[f]
    <3>1. Cardinality(Contents(f)) = 1
      BY <2>1 DEF WrongFile
    <3>2. Contents(f) # {}
      BY <3>1, FS_EmptySet
    <3> QED BY <3>2 DEF IpModule, Contents
  <2>5. t \in DOMAIN module /\ module[t].box
    BY <2>1 DEF WrongStub
  <2>6. \A c \in DOMAIN IpFile[f][t].cells : IpFile[f][t].cells[c].type \in DOMAIN module
    BY <2>1 DEF WrongCells
  <2>7. IsDefinition(IpFile[f][t])
    BY <2>3, <2>4, FilesAssumption
  <2>8. t # Top /\ t \in DOMAIN s.module
    BY <2>2, <2>3, <2>5 DEF Base, Marked
  <2> HIDE DEF f, t
  <2>9. /\ DOMAIN module' = DOMAIN module /\ module'[t] = IpFile[f][t]
        /\ \A m \in DOMAIN module : m # t => module'[m] = module[m]
    BY <2>1, <2>5
  <2>10. LinkedSet' = LinkedSet \cup {t}
    <3>1. linked \in Seq(DOMAIN s.module \ {Top}) /\ t \in DOMAIN s.module \ {Top}
      BY <2>2, <2>8 DEF Base, InOrder
    <3>2. {Append(linked, t)[j] : j \in DOMAIN Append(linked, t)}
            = {linked[j] : j \in DOMAIN linked} \cup {t}
      BY <3>1, AppendSet
    <3> QED BY <2>1, <3>2 DEF LinkedSet
  <2>11. InOrder(s)'
    <3>1. linked \in Seq(DOMAIN s.module \ {Top}) /\ t \in DOMAIN s.module \ {Top}
      BY <2>2, <2>8 DEF Base, InOrder
    <3>2. linked' \in Seq(DOMAIN s.module \ {Top}) /\ Len(linked') \in Nat
      BY <2>1, <3>1, AppendProperties
    <3> QED BY <2>1, <2>3, <2>9, <3>2 DEF InOrder
  <2>12. Marked(s)'
    <3>1. \A m \in DOMAIN module' : IsDefinition(module'[m])
      BY <2>2, <2>7, <2>9 DEF Base, Marked
    <3>2. \A m \in DOMAIN s.module \ LinkedSet' : module'[m].clk = (m \in ClockedTypes)
      BY <2>2, <2>3, <2>9, <2>10 DEF Base, Marked
    <3>3. Top \in DOMAIN module /\ module'[Top] = module[Top]
      BY <2>2, <2>3, <2>8, <2>9, ModulesAssumption
    <3> QED BY <2>2, <2>9, <3>1, <3>2, <3>3 DEF Base, Marked
  <2>13. FlatOf(s)'
    BY <2>1, <2>2, <2>3 DEF Base, FlatOf
  <2>14. \A m \in DOMAIN module' \ {Top} : IsInner(s, m)'
    <3>0. SUFFICES ASSUME NEW m \in DOMAIN module, m # Top,
                          NEW c \in DOMAIN module'[m].cells
                   PROVE  module'[m].cells[c].type \in DOMAIN s.module
      <4>1. 1 .. stamped' = {}
        BY <2>1, <2>3
      <4> QED BY <2>9, <4>1 DEF IsInner, Cleared
    <3>1. CASE m = t
      BY <2>3, <2>6, <2>9, <3>0, <3>1
    <3>2. CASE m # t
      BY <2>2, <2>9, <3>0, <3>2 DEF Base, IsInner
    <3> QED BY <3>1, <3>2
  <2>15. Base(s)'
    BY <2>11, <2>12, <2>13, <2>14 DEF Base
  <2> QED BY <2>15 DEF LinkInv
<1> QED BY <1>1, <1>2

(* A definition with other cells of the same names.                          *)
IsCell(x) == x = [type |-> x.type, rel |-> x.rel, macro |-> x.macro, net |-> x.net]

LEMMA OtherCells ==
  ASSUME NEW d, IsDefinition(d), NEW C, DOMAIN C = DOMAIN d.cells,
         \A c \in DOMAIN C : IsCell(C[c])
  PROVE  LET e == [d EXCEPT !.cells = C]
         IN  IsDefinition(e) /\ e.clk = d.clk /\ e.box = d.box /\ e.cells = C
<1> DEFINE e == [d EXCEPT !.cells = C]
<1>1. d = [box |-> d.box, ports |-> d.ports, clk |-> d.clk, cells |-> d.cells]
  BY DEF IsDefinition
<1>2. e = [box |-> d.box, ports |-> d.ports, clk |-> d.clk, cells |-> C]
  BY <1>1
<1> HIDE DEF e
<1>3. e.clk = d.clk /\ e.box = d.box /\ e.cells = C /\ e.ports = d.ports
  BY <1>2
<1>4. IsDefinition(e)
  BY <1>2, <1>3 DEF IsDefinition, IsCell
<1> QED BY <1>3, <1>4 DEF e

LEMMA StampIs ==
  ASSUME NEW d, IsDefinition(d), NEW inst
  PROVE  LET e == Stamp(d, inst)
         IN  /\ IsDefinition(e) /\ DOMAIN e.cells = DOMAIN d.cells
             /\ \A c \in DOMAIN d.cells : e.cells[c].type = d.cells[c].type
<1> DEFINE C == [c \in DOMAIN d.cells |->
                   IF d.cells[c].rel = "none" THEN d.cells[c]
                   ELSE [d.cells[c] EXCEPT !.macro = inst]]
<1>1. Stamp(d, inst) = [d EXCEPT !.cells = C]
  BY DEF Stamp
<1>2. ASSUME NEW c \in DOMAIN d.cells
      PROVE  IsCell(C[c]) /\ C[c].type = d.cells[c].type
  <2> DEFINE x == d.cells[c]
             y == [x EXCEPT !.macro = inst]
  <2>1. IsCell(x)
    BY DEF IsDefinition, IsCell
  <2> HIDE DEF x
  <2>2. y = [type |-> x.type, rel |-> x.rel, macro |-> inst, net |-> x.net]
    BY <2>1 DEF IsCell
  <2>3. IsCell(y) /\ y.type = x.type
    BY <2>2 DEF IsCell
  <2>4. C[c] = x \/ C[c] = y
    BY DEF x
  <2> QED BY <2>1, <2>3, <2>4 DEF x
<1> HIDE DEF C
<1>3. DOMAIN C = DOMAIN d.cells
  BY DEF C
<1>4. IsDefinition([d EXCEPT !.cells = C]) /\ [d EXCEPT !.cells = C].cells = C
  BY <1>2, <1>3, OtherCells
<1> QED BY <1>1, <1>2, <1>3, <1>4

(* The instances of the top module get other types and nothing else.         *)
TopCells(d, insts, t, first) ==
  [d EXCEPT !.cells =
     [c \in DOMAIN @ |->
        IF c \in insts THEN [@[c] EXCEPT !.type = OwnModule(t, c, first)] ELSE @[c]]]

LEMMA TopIs ==
  ASSUME NEW d, IsDefinition(d), NEW insts, NEW t, NEW first
  PROVE  LET e == TopCells(d, insts, t, first)
         IN  IsDefinition(e) /\ e.clk = d.clk /\ e.box = d.box /\ DOMAIN e.cells = DOMAIN d.cells
<1> DEFINE C == [c \in DOMAIN d.cells |->
                   IF c \in insts THEN [d.cells[c] EXCEPT !.type = OwnModule(t, c, first)]
                   ELSE d.cells[c]]
<1>2. ASSUME NEW c \in DOMAIN d.cells
      PROVE  IsCell(C[c])
  <2> DEFINE x == d.cells[c]
             w == OwnModule(t, c, first)
             y == [x EXCEPT !.type = w]
  <2>1. IsCell(x)
    BY DEF IsDefinition, IsCell
  <2>4. C[c] = x \/ C[c] = y
    OBVIOUS
  <2> HIDE DEF x, w
  <2>2. y = [type |-> w, rel |-> x.rel, macro |-> x.macro, net |-> x.net]
    BY <2>1 DEF IsCell
  <2>3. IsCell(y)
    BY <2>2 DEF IsCell
  <2> HIDE DEF y, C
  <2> QED BY <2>1, <2>3, <2>4
<1>3. DOMAIN C = DOMAIN d.cells
  OBVIOUS
<1> HIDE DEF C
<1>4. LET e == [d EXCEPT !.cells = C]
      IN  IsDefinition(e) /\ e.clk = d.clk /\ e.box = d.box /\ e.cells = C
  BY <1>2, <1>3, OtherCells
<1>5. TopCells(d, insts, t, first) = [d EXCEPT !.cells = C]
  BY DEF TopCells, C
<1> QED BY <1>3, <1>4, <1>5

(* What a step of stamping does to the modules.                              *)
StampFacts(t, insts, first) ==
  LET Own == {OwnModule(t, i, first) : i \in insts}
      same(m) == /\ IsDefinition(module'[m]) /\ module'[m].clk = module[m].clk
                 /\ module'[m].box = module[m].box
                 /\ DOMAIN module'[m].cells = DOMAIN module[m].cells
      typed(m, n) == /\ IsDefinition(module'[m])
                     /\ DOMAIN module'[m].cells = DOMAIN module[n].cells
                     /\ \A c \in DOMAIN module[n].cells :
                          module'[m].cells[c].type = module[n].cells[c].type
  IN  /\ DOMAIN module' = DOMAIN module \cup Own
      /\ same(Top)
      /\ \A m \in DOMAIN module' \ {Top} :
           IF m \in Own THEN typed(m, t) ELSE module'[m] = module[m]

LEMMA StampModules ==
  ASSUME StampIp, ~UNCHANGED <<module, ips, linked, stamped, flat>>,
         Top \in DOMAIN module, \A m \in DOMAIN module : IsDefinition(module[m]),
         linked[stamped + 1] \in DOMAIN module
  PROVE  LET t     == linked[stamped + 1]
             insts == Instances(Top, t)
         IN  /\ ips = <<>> /\ stamped < Len(linked)
             /\ \A m \in DOMAIN module \ {Top} : Instances(m, t) = {}
             /\ stamped' = stamped + 1 /\ UNCHANGED <<ips, linked, flat>>
             /\ \E first \in insts : StampFacts(t, insts, first)
<1> DEFINE t == linked[stamped + 1]
           insts == Instances(Top, t)
           topCells(first) == TopCells(module[Top], insts, t, first)
           last(m, first) == CHOOSE i \in insts : OwnModule(t, i, first) = m
<1>1. /\ ips = <<>> /\ stamped < Len(linked)
      /\ \A m \in DOMAIN module \ {Top} : Instances(m, t) = {}
      /\ stamped' = stamped + 1 /\ UNCHANGED <<ips, linked, flat>>
  BY DEF StampIp, Fail
<1>2. PICK first \in insts :
        module' = [m \in DOMAIN module \cup {OwnModule(t, i, first) : i \in insts} |->
                     IF m = Top THEN topCells(first)
                     ELSE IF \E i \in insts : OwnModule(t, i, first) = m
                     THEN Stamp(module[t], last(m, first)) ELSE module[m]]
  BY DEF StampIp, Fail, TopCells
<1> DEFINE Own == {OwnModule(t, i, first) : i \in insts}
<1>3. DOMAIN module' = DOMAIN module \cup Own
  BY <1>2
<1>4. module'[Top] = topCells(first)
  BY <1>2
<1>6. ASSUME NEW m \in DOMAIN module', m # Top, m \in Own
      PROVE  module'[m] = Stamp(module[t], last(m, first))
  BY <1>2, <1>6
<1>7. ASSUME NEW m \in DOMAIN module', m # Top, m \notin Own
      PROVE  module'[m] = module[m]
  BY <1>2, <1>7
<1> HIDE DEF t, insts
<1>0. IsDefinition(module[Top])
  OBVIOUS
<1>5. LET e == topCells(first)
      IN  /\ IsDefinition(e) /\ e.clk = module[Top].clk /\ e.box = module[Top].box
          /\ DOMAIN e.cells = DOMAIN module[Top].cells
  BY <1>0, TopIs
<1> HIDE DEF topCells, last
<1>8. ASSUME NEW inst
      PROVE  LET e == Stamp(module[t], inst)
             IN  /\ IsDefinition(e) /\ DOMAIN e.cells = DOMAIN module[t].cells
                 /\ \A c \in DOMAIN module[t].cells : e.cells[c].type = module[t].cells[c].type
  BY StampIs DEF t
<1>9. StampFacts(t, insts, first)
  BY <1>3, <1>4, <1>5, <1>6, <1>7, <1>8 DEF StampFacts
<1> QED BY <1>1, <1>2, <1>9 DEF t, insts

(* Own modules of instances of an IP are the IP or are new.                  *)
LEMMA OwnIsNew ==
  ASSUME NEW s \in Sources, NEW t \in DOMAIN s.module,
         NEW insts, insts \subseteq DOMAIN s.module[Top].cells, NEW first
  PROVE  \A m \in DOMAIN s.module : m \in {OwnModule(t, i, first) : i \in insts} => m = t
BY ModulesAssumption DEF OwnModule

LEMMA StampLink ==
  ASSUME LinkInv, StampIp
  PROVE  LinkInv'
<1>1. CASE UNCHANGED <<module, ips, linked, stamped, flat>>
  BY <1>1, SameLink
<1>2. CASE ~UNCHANGED <<module, ips, linked, stamped, flat>>
  <2> DEFINE t == linked[stamped + 1]
             insts == Instances(Top, t)
  <2>1. PICK s \in Sources : Base(s)
    BY DEF LinkInv
  <2>2. Top \in DOMAIN s.module /\ Top \in DOMAIN module
    BY <2>1, ModulesAssumption DEF Base, Marked
  <2>3. stamped < Len(linked)
    BY <1>2 DEF StampIp, Fail
  <2>4. /\ t \in LinkedSet /\ t \in DOMAIN s.module /\ t # Top /\ t \in DOMAIN module
        /\ stamped \in Nat /\ stamped + 1 <= Len(linked) /\ Len(linked) \in Nat
    <3>1. linked \in Seq(DOMAIN s.module \ {Top}) /\ stamped \in Nat
      BY <2>1 DEF Base, InOrder
    <3>2. stamped + 1 \in DOMAIN linked /\ Len(linked) \in Nat
      BY <2>3, <3>1
    <3>3. t \in DOMAIN s.module \ {Top}
      BY <3>1, <3>2
    <3> QED BY <2>1, <2>3, <3>1, <3>2, <3>3 DEF Base, Marked, LinkedSet
  <2>5. /\ ips = <<>>
        /\ \A m \in DOMAIN module \ {Top} : Instances(m, t) = {}
        /\ stamped' = stamped + 1 /\ UNCHANGED <<ips, linked, flat>>
        /\ \E first \in insts : StampFacts(t, insts, first)
    BY <1>2, <2>1, <2>2, <2>4, StampModules DEF Base, Marked
  <2>6. PICK first \in insts : StampFacts(t, insts, first)
    BY <2>5
  <2>7. insts \subseteq DOMAIN s.module[Top].cells
    BY <2>1 DEF Base, Marked, Instances
  <2> HIDE DEF t, insts
  <2> DEFINE Own == {OwnModule(t, i, first) : i \in insts}
  <2>8. \A m \in DOMAIN s.module : m \in Own => m = t
    BY <2>4, <2>7, OwnIsNew
  <2> HIDE DEF Own
  <2>9. /\ DOMAIN module' = DOMAIN module \cup Own
        /\ IsDefinition(module'[Top]) /\ module'[Top].clk = module[Top].clk
        /\ module'[Top].box = module[Top].box
        /\ DOMAIN module'[Top].cells = DOMAIN module[Top].cells
        /\ \A m \in DOMAIN module' \ {Top} : m \notin Own => module'[m] = module[m]
        /\ \A m \in Own \ {Top} :
             /\ IsDefinition(module'[m])
             /\ DOMAIN module'[m].cells = DOMAIN module[t].cells
             /\ \A c \in DOMAIN module[t].cells :
                  module'[m].cells[c].type = module[t].cells[c].type
    BY <2>6 DEF StampFacts, Own
  <2>10. InOrder(s)'
    BY <2>1, <2>4, <2>5 DEF Base, InOrder
  <2>11. LinkedSet' = LinkedSet
    BY <2>5 DEF LinkedSet
  <2>12. Marked(s)'
    <3>1. \A m \in DOMAIN module' : IsDefinition(module'[m])
      BY <2>1, <2>9 DEF Base, Marked
    <3>2. \A m \in DOMAIN s.module \ LinkedSet : module'[m].clk = module[m].clk
      <4> SUFFICES ASSUME NEW m \in DOMAIN s.module \ LinkedSet, m # Top
                   PROVE  module'[m] = module[m]
        BY <2>9
      <4>1. m \notin Own /\ m \in DOMAIN module
        BY <2>1, <2>4, <2>8 DEF Base, Marked
      <4> QED BY <2>9, <4>1
    <3> QED BY <2>1, <2>9, <2>11, <3>1, <3>2 DEF Base, Marked
  <2>13. FlatOf(s)'
    BY <2>1, <2>5, <2>11 DEF Base, FlatOf
  <2>14. ASSUME NEW m \in DOMAIN module \ {Top}
         PROVE  \A c \in DOMAIN module[m].cells :
                  /\ module[m].cells[c].type \in DOMAIN s.module
                  /\ \A j \in 1 .. stamped + 1 : module[m].cells[c].type # linked[j]
    <3> SUFFICES ASSUME NEW c \in DOMAIN module[m].cells
                 PROVE  /\ module[m].cells[c].type \in DOMAIN s.module
                        /\ \A j \in 1 .. stamped + 1 : module[m].cells[c].type # linked[j]
      OBVIOUS
    <3>1. /\ module[m].cells[c].type \in DOMAIN s.module
          /\ \A j \in 1 .. stamped : module[m].cells[c].type # linked[j]
      BY <2>1 DEF Base, IsInner, Cleared
    <3>2. module[m].cells[c].type # linked[stamped + 1]
      BY <2>5 DEF Instances, t
    <3>3. \A j \in 1 .. stamped + 1 : j \in 1 .. stamped \/ j = stamped + 1
      BY <2>4
    <3> QED BY <3>1, <3>2, <3>3
  <2>15. \A m \in DOMAIN module' \ {Top} : IsInner(s, m)'
    <3> SUFFICES ASSUME NEW m \in DOMAIN module' \ {Top},
                        NEW c \in DOMAIN module'[m].cells
                 PROVE  /\ module'[m].cells[c].type \in DOMAIN s.module
                        /\ \A j \in 1 .. stamped + 1 : module'[m].cells[c].type # linked[j]
      BY <2>5 DEF IsInner, Cleared
    <3>1. CASE m \in Own
      BY <2>4, <2>9, <2>14, <3>1
    <3>2. CASE m \notin Own
      BY <2>9, <2>14, <3>2
    <3> QED BY <3>1, <3>2
  <2>16. Base(s)'
    BY <2>10, <2>12, <2>13, <2>15 DEF Base
  <2> QED BY <2>16 DEF LinkInv
<1> QED BY <1>1, <1>2

(* The image of a finite set under a function is finite.                     *)
LEMMA ImageFinite ==
  ASSUME NEW S, IsFiniteSet(S), NEW f, S \subseteq DOMAIN f
  PROVE  IsFiniteSet({f[x] : x \in S})
<1> DEFINE T == {f[x] : x \in S}
           g == [x \in S |-> f[x]]
<1>1. g \in [S -> T]
  OBVIOUS
<1>2. \A y \in T : \E x \in S : g[x] = y
  OBVIOUS
<1>3. g \in Surjection(S, T)
  BY <1>1, <1>2, Fun_IsSurj
<1> HIDE DEF g, T
<1>4. IsFiniteSet(T)
  BY <1>3, FS_Surjection
<1> QED BY <1>4 DEF T

LEMMA FlattenLink ==
  ASSUME LinkInv, FlattenIps
  PROVE  LinkInv'
<1> DEFINE insts == {i \in DOMAIN module[Top].cells : IsIp(module[Top].cells[i].type)}
           cells(i) == module[module[Top].cells[i].type].cells
           names(i) == {<<i, c>> : c \in DOMAIN cells(i)}
<1>1. PICK s \in Sources : Base(s)
  BY DEF LinkInv
<1>2. /\ ips = <<>> /\ stamped = Len(linked)
      /\ UNCHANGED <<module, ips, linked, stamped, verdict>>
      /\ flat' = [p \in UNION {names(i) : i \in insts} |-> cells(p[1])[p[2]]]
  BY DEF FlattenIps
<1>3. Top \in DOMAIN module
  BY <1>1, ModulesAssumption DEF Base, Marked
<1>4. IsFiniteSet(insts)
  <2>1. IsFiniteSet(DOMAIN module[Top].cells)
    BY <1>1, <1>3 DEF Base, Marked, IsDefinition
  <2> QED BY <2>1, FS_Subset
<1>5. ASSUME NEW i \in insts PROVE IsFiniteSet(names(i))
  <2> DEFINE D == DOMAIN cells(i)
             f == [c \in D |-> <<i, c>>]
  <2>1. module[Top].cells[i].type \in DOMAIN module
    BY DEF IsIp
  <2>2. IsFiniteSet(D)
    BY <1>1, <2>1 DEF Base, Marked, IsDefinition
  <2>3. names(i) = {f[c] : c \in D} /\ D \subseteq DOMAIN f
    OBVIOUS
  <2> HIDE DEF D, f, names
  <2> QED BY <2>2, <2>3, ImageFinite
<1>6. IsFiniteSet(UNION {names(i) : i \in insts})
  <2> DEFINE f == [i \in insts |-> names(i)]
             N == {f[i] : i \in insts}
  <2>1. insts \subseteq DOMAIN f /\ N = {names(i) : i \in insts}
    OBVIOUS
  <2>2. \A T \in N : IsFiniteSet(T)
    BY <1>5
  <2> HIDE DEF f, names, insts
  <2>3. IsFiniteSet(N)
    BY <1>4, <2>1, ImageFinite
  <2> HIDE DEF N
  <2>4. IsFiniteSet(UNION N)
    BY <2>2, <2>3, FS_UNION
  <2> QED BY <2>1, <2>4
<1>7. ASSUME NEW p \in DOMAIN flat'
      PROVE  flat'[p].type \in DOMAIN s.module \ LinkedSet
  <2>1. PICK i \in insts : p \in names(i)
    BY <1>2, <1>7
  <2>2. PICK c \in DOMAIN cells(i) : p = <<i, c>>
    BY <2>1
  <2> DEFINE m == module[Top].cells[i].type
  <2>3. flat'[p] = module[m].cells[c]
    BY <1>2, <1>7, <2>2
  <2>4. m \in DOMAIN module \ {Top} /\ c \in DOMAIN module[m].cells
    BY <2>1, <2>2 DEF IsIp
  <2> HIDE DEF m
  <2>5. /\ module[m].cells[c].type \in DOMAIN s.module
        /\ \A j \in 1 .. stamped : module[m].cells[c].type # linked[j]
    BY <1>1, <2>4 DEF Base, IsInner, Cleared
  <2>6. DOMAIN linked = 1 .. stamped
    <3>1. linked \in Seq(DOMAIN s.module \ {Top})
      BY <1>1 DEF Base, InOrder
    <3>2. DOMAIN linked = 1 .. Len(linked)
      BY <3>1
    <3> QED BY <1>2, <3>2
  <2> QED BY <2>3, <2>5, <2>6 DEF LinkedSet
<1>8. FlatOf(s)'
  <2>1. LinkedSet' = LinkedSet
    BY <1>2 DEF LinkedSet
  <2>2. IsFiniteSet(DOMAIN flat')
    BY <1>2, <1>6
  <2> QED BY <1>7, <2>1, <2>2 DEF FlatOf
<1>9. InOrder(s)' /\ Marked(s)'
  BY <1>1, <1>2 DEF Base, InOrder, Marked, LinkedSet
<1>10. (\A m \in DOMAIN module \ {Top} : IsInner(s, m))'
  <2>1. \A m : IsInner(s, m)' <=> IsInner(s, m)
    <3>1. module' = module /\ stamped' = stamped /\ linked' = linked
      BY <1>2
    <3> HIDE DEF insts, cells, names
    <3>2. \A t : Cleared(t)' <=> Cleared(t)
      BY <3>1 DEF Cleared
    <3> QED BY <3>1, <3>2 DEF IsInner
  <2>2. \A m \in DOMAIN module \ {Top} : IsInner(s, m)
    BY <1>1 DEF Base
  <2> QED BY <1>2, <2>1, <2>2
<1>11. Base(s)'
  BY <1>8, <1>9, <1>10 DEF Base
<1> QED BY <1>11 DEF LinkInv

LEMMA LinkStep == LinkInv /\ [Next]_vars => LinkInv'
<1> SUFFICES ASSUME LinkInv, [Next]_vars PROVE LinkInv'
  OBVIOUS
<1>1. \/ ImportIp \/ StampIp \/ FlattenIps
      \/ UNCHANGED <<module, ips, linked, stamped, flat>>
  BY DEF Next, Begin, Prepare, MapDsp, Coarse, MapBram, MapFfram, MapGates, MapFfs,
         MapLuts, Passive, MapSynplify, LinkRelIps, Clocks, Blif, Edif, Verilog,
         Stopped, vars, flowVars, linkVars, Same, Fail
<1> QED BY <1>1, ImportLink, StampLink, FlattenLink, SameLink

------------------------------------------------------------------------------
(* From the label clocks on the list is written, and what it is made from    *)
(* stays as it is.                                                           *)
Listed == {"blif", "edif", "verilog", "end"}
ClockNets == {p[1] : p \in Pins(ClockedTypes)}
ClocksListed ==
    label \in Listed =>
      "clocks" \in DOMAIN out /\ out["clocks"] = {<<n, "net">> : n \in ClockNets}

LEMMA PinsOfMarked == LinkInv => ClockPins = Pins(ClockedTypes)
<1> SUFFICES ASSUME LinkInv PROVE ClockPins = Pins(ClockedTypes)
  OBVIOUS
<1>1. PICK s \in Sources : Base(s)
  BY DEF LinkInv
<1> DEFINE marked == {t \in DOMAIN module : module[t].clk}
<1>2. ASSUME NEW p \in DOMAIN flat
      PROVE  flat[p].type \in marked <=> flat[p].type \in ClockedTypes
  <2> DEFINE t == flat[p].type
  <2>1. t \in DOMAIN s.module \ LinkedSet
    BY <1>1 DEF Base, FlatOf
  <2> HIDE DEF t
  <2>2. t \in DOMAIN module /\ module[t].clk = (t \in ClockedTypes)
    BY <1>1, <2>1 DEF Base, Marked
  <2> QED BY <2>2 DEF t
<1>3. {p \in DOMAIN flat : flat[p].type \in marked}
        = {p \in DOMAIN flat : flat[p].type \in ClockedTypes}
  BY <1>2
<1> HIDE DEF marked
<1>4. Pins(marked) = Pins(ClockedTypes)
  BY <1>3 DEF Pins
<1> QED BY <1>4 DEF ClockPins, marked

(* A net is "clk" or one that an instance of an IP connects.                 *)
LEMMA NetsFinite == LinkInv => IsFiniteSet(ClockNets)
<1> SUFFICES ASSUME LinkInv PROVE IsFiniteSet(ClockNets)
  OBVIOUS
<1>1. PICK s \in Sources : Base(s)
  BY DEF LinkInv
<1>2. IsFiniteSet(DOMAIN flat)
  BY <1>1 DEF Base, FlatOf
<1> DEFINE f == [p \in DOMAIN flat |-> module[Top].cells[p[1]].net]
           N == {f[p] : p \in DOMAIN flat}
<1>3. ClockNets \subseteq N \cup {"clk"}
  <2> SUFFICES ASSUME NEW q \in Pins(ClockedTypes) PROVE q[1] \in N \cup {"clk"}
    BY DEF ClockNets
  <2>1. \/ \E i \in Clocked : q = <<"clk", i>>
        \/ \E p \in DOMAIN flat : q = <<module[Top].cells[p[1]].net, p>>
    BY DEF Pins
  <2> QED BY <2>1
<1> HIDE DEF f
<1>4. DOMAIN flat \subseteq DOMAIN f
  BY DEF f
<1>5. IsFiniteSet(N)
  BY <1>2, <1>4, ImageFinite
<1> HIDE DEF N
<1>6. IsFiniteSet(N \cup {"clk"})
  BY <1>5, FS_AddElement
<1> QED BY <1>3, <1>6, FS_Subset

LEMMA WiresAreNets ==
  ASSUME NEW N, IsFiniteSet(N)
  PROVE  LET W == {<<n, "net">> : n \in N}
         IN  {w[1] : w \in W} = N /\ Cardinality(W) = Cardinality(N)
<1> DEFINE W == {<<n, "net">> : n \in N}
           f == [n \in N |-> <<n, "net">>]
<1>1. {w[1] : w \in W} = N
  <2>1. \A n \in N : n \in {w[1] : w \in W}
    <3> SUFFICES ASSUME NEW n \in N PROVE \E w \in W : n = w[1]
      OBVIOUS
    <3>1. <<n, "net">> \in W /\ <<n, "net">>[1] = n
      OBVIOUS
    <3> QED BY <3>1
  <2>2. \A w \in W : w[1] \in N
    OBVIOUS
  <2> QED BY <2>1, <2>2
<1>2. f \in [N -> W]
  OBVIOUS
<1>3. \A a, b \in N : f[a] = f[b] => a = b
  OBVIOUS
<1>4. \A w \in W : \E n \in N : f[n] = w
  OBVIOUS
<1>5. f \in Bijection(N, W)
  BY <1>2, <1>3, <1>4, Fun_IsBij
<1> HIDE DEF W, f
<1>6. ExistsBijection(N, W)
  BY <1>5 DEF ExistsBijection
<1>7. Cardinality(W) = Cardinality(N)
  BY <1>6, FS_Bijection
<1> QED BY <1>1, <1>7 DEF W

(* The step of the label clocks writes the list.                             *)
LEMMA ClocksWrites ==
  ASSUME LinkInv, Clocks
  PROVE  ClocksListed'
<1>1. /\ "clocks" \in DOMAIN out' /\ out'["clocks"] = {ClockWire(p) : p \in ClockPins}
      /\ UNCHANGED <<items, module, flat>>
  BY DEF Clocks, Write, Same, linkVars
<1>2. ClockPins = Pins(ClockedTypes)
  BY PinsOfMarked
<1>3. {ClockWire(p) : p \in ClockPins} = {<<n, "net">> : n \in ClockNets}
  BY <1>2 DEF ClockNets, ClockWire
<1>4. ClockNets' = ClockNets
  BY <1>1 DEF ClockNets, Pins, Clocked
<1> QED BY <1>1, <1>3, <1>4 DEF ClocksListed

(* Later labels keep it and the cells it was made from.                      *)
LEMMA LaterKeepsList ==
  ASSUME ClocksListed, saved = <<>>, Blif \/ Edif \/ Verilog
  PROVE  ClocksListed'
<1>1. label \in Listed
  BY DEF Blif, Edif, Verilog, At, Listed
<1>2. items' = items /\ UNCHANGED linkVars
  BY BlifRestores DEF Blif, Edif, Verilog, Same
<1>3. ClockNets' = ClockNets
  BY <1>2 DEF ClockNets, Pins, Clocked, linkVars
<1>4. \/ out' = out
      \/ \E f, what : f # "clocks" /\ Write(f, what)
  BY DEF Blif, Edif, Verilog
<1>5. "clocks" \in DOMAIN out' /\ out'["clocks"] = out["clocks"]
  BY <1>1, <1>4 DEF ClocksListed, Write
<1> QED BY <1>1, <1>3, <1>5 DEF ClocksListed

LEMMA ToClocks ==
  /\ label = "map_synplify" => NextLabel = "link_rel_ips"
  /\ label = "link_rel_ips" => NextLabel = "clocks"
<1> DEFINE After(a, b) == label = a => NextLabel = b
<1>1. \A i \in 1 .. 19 : After(Order[i], Order[i + 1])
  BY NextIs
<1>2. After(Order[14], Order[15]) /\ After(Order[15], Order[16])
  <2> HIDE DEF After
  <2> QED BY <1>1
<1> QED BY <1>2 DEF Order

(* No label before clocks leads to a later one.                              *)
LEMMA EarlierNotListed ==
  ASSUME label \notin Listed \cup {"clocks"},
         Begin \/ Prepare \/ MapDsp \/ Coarse \/ MapBram \/ MapFfram \/ MapGates
           \/ MapFfs \/ MapLuts \/ Passive \/ MapSynplify \/ LinkRelIps
  PROVE  label' \notin Listed
<1>1. label' = label \/ label' = NextLabel
  BY DEF Begin, Prepare, MapDsp, Coarse, MapBram, MapFfram, MapGates, MapFfs, MapLuts,
         Passive, MapSynplify, LinkRelIps, At, flowVars
<1>2. label \in (Early \cup Later) \ (Listed \cup {"clocks"})
  BY DEF Begin, Prepare, MapDsp, Coarse, MapBram, MapFfram, MapGates, MapFfs, MapLuts,
         Passive, MapSynplify, LinkRelIps, At, Early, Later, Listed
<1>3. NextLabel \notin Listed
  BY <1>2, LabelsInTurn, ToClocks DEF Early, Later, Listed
<1> QED BY <1>1, <1>3

LEMMA ListStep ==
  ASSUME Inv, LinkInv, ClocksListed, [Next]_vars
  PROVE  ClocksListed'
<1>1. CASE Clocks
  BY <1>1, ClocksWrites
<1>2. CASE Blif \/ Edif \/ Verilog
  BY <1>2, LaterKeepsList DEF Inv
<1>3. CASE Stopped \/ UNCHANGED vars
  <2>1. UNCHANGED <<label, out, items, module, flat>>
    BY <1>3 DEF Stopped, vars, flowVars, linkVars
  <2>2. ClockNets' = ClockNets
    BY <2>1 DEF ClockNets, Pins, Clocked
  <2> QED BY <2>1, <2>2 DEF ClocksListed
<1>4. CASE \/ Begin \/ Prepare \/ MapDsp \/ Coarse \/ MapBram \/ MapFfram \/ MapGates
           \/ MapFfs \/ MapLuts \/ Passive \/ MapSynplify \/ LinkRelIps
  <2>1. label \notin Listed \cup {"clocks"}
    BY <1>4 DEF Begin, Prepare, MapDsp, Coarse, MapBram, MapFfram, MapGates, MapFfs,
                MapLuts, Passive, MapSynplify, LinkRelIps, At, Listed
  <2> QED BY <1>4, <2>1, EarlierNotListed DEF ClocksListed
<1> QED BY <1>1, <1>2, <1>3, <1>4 DEF Next

(* The clock list names every net with a clock pin in the netlist of the     *)
(* BLIF, and each once.                                                      *)
THEOREM ClocksOfBlifHolds == Spec => []ClocksOfBlif
<1>1. Init => ClocksListed
  BY DEF Init, ClocksListed, Listed
<1>2. LinkInv /\ ClocksListed => ClocksOfBlif
  <2> SUFFICES ASSUME LinkInv, ClocksListed, Ended
               PROVE  /\ {w[1] : w \in out["clocks"]} = ClockNets
                      /\ Cardinality(out["clocks"]) = Cardinality(ClockNets)
    BY DEF ClocksOfBlif, ClockNets
  <2>1. out["clocks"] = {<<n, "net">> : n \in ClockNets}
    BY DEF Ended, ClocksListed, Listed
  <2> QED BY <2>1, NetsFinite, WiresAreNets
<1>3. Inv /\ LinkInv /\ ClocksListed /\ [Next]_vars => ClocksListed'
  BY ListStep
<1> QED BY InvInit, StepKeeps, LinkInit, LinkStep, <1>1, <1>2, <1>3, PTL DEF Spec
==============================================================================
