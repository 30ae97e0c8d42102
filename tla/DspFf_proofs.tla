---------------------------- MODULE DspFf_proofs ----------------------------
(* What load_rules() makes of a file, for every file.                        *)
EXTENDS DspFf, SequenceTheorems, TLAPS

ItemsOf(s) == {s[i] : i \in DOMAIN s}

LEMMA SequenceIs ==
  ASSUME NEW s, IsSequence(s)
  PROVE  s \in Seq(ItemsOf(s)) /\ DOMAIN s = 1 .. Len(s) /\ Len(s) \in Nat
<1>1. Len(s) \in Nat /\ s = [i \in 1 .. Len(s) |-> s[i]]
  BY DEF IsSequence
<1>2. DOMAIN s = 1 .. Len(s)
  BY <1>1
<1>3. s \in [1 .. Len(s) -> ItemsOf(s)]
  BY <1>1, <1>2 DEF ItemsOf
<1>4. s \in UNION {[1 .. n -> ItemsOf(s)] : n \in Nat}
  BY <1>1, <1>3
<1>5. s \in Seq(ItemsOf(s))
  BY <1>4, SeqDef
<1> QED BY <1>1, <1>2, <1>5

LEMMA MemberOfSeq ==
  ASSUME NEW S, NEW s \in Seq(S)
  PROVE  IsSequence(s)
<1>1. Len(s) \in Nat /\ s \in [1 .. Len(s) -> S]
  BY LenProperties
<1> QED BY <1>1 DEF IsSequence

(* One sequence after another.                                               *)
LEMMA ConcatIs ==
  ASSUME NEW s, NEW t, IsSequence(s), IsSequence(t)
  PROVE  /\ IsSequence(s \o t) /\ ItemsOf(s \o t) = ItemsOf(s) \cup ItemsOf(t)
         /\ DOMAIN s \subseteq DOMAIN (s \o t)
         /\ \A i \in DOMAIN s : (s \o t)[i] = s[i]
         /\ \A i \in DOMAIN t : Len(s) + i \in DOMAIN (s \o t) /\ (s \o t)[Len(s) + i] = t[i]
         /\ Len(s \o t) = Len(s) + Len(t)
<1> DEFINE S == ItemsOf(s) \cup ItemsOf(t)
           u == s \o t
<1>1. /\ DOMAIN s = 1 .. Len(s) /\ DOMAIN t = 1 .. Len(t)
      /\ Len(s) \in Nat /\ Len(t) \in Nat
  BY SequenceIs
<1>2. s \in Seq(S) /\ t \in Seq(S)
  <2>1. s \in Seq(ItemsOf(s)) /\ t \in Seq(ItemsOf(t))
    BY SequenceIs
  <2>2. ItemsOf(s) \subseteq S /\ ItemsOf(t) \subseteq S
    OBVIOUS
  <2> HIDE DEF S
  <2> QED BY <2>1, <2>2
<1> HIDE DEF S
<1>3. /\ u \in Seq(S) /\ Len(u) = Len(s) + Len(t)
      /\ \A i \in 1 .. Len(s) + Len(t) : u[i] = IF i <= Len(s) THEN s[i] ELSE t[i - Len(s)]
  BY <1>2, ConcatProperties
<1> HIDE DEF u
<1>4. IsSequence(u) /\ DOMAIN u = 1 .. Len(s) + Len(t)
  BY <1>3, MemberOfSeq, SequenceIs
<1>5. \A i \in DOMAIN s : i \in DOMAIN u /\ u[i] = s[i]
  BY <1>1, <1>3, <1>4
<1>6. \A i \in DOMAIN t : Len(s) + i \in DOMAIN u /\ u[Len(s) + i] = t[i]
  <2> SUFFICES ASSUME NEW i \in 1 .. Len(t)
               PROVE  Len(s) + i \in DOMAIN u /\ u[Len(s) + i] = t[i]
    BY <1>1
  <2>1. Len(s) + i \in 1 .. Len(s) + Len(t) /\ ~(Len(s) + i <= Len(s)) /\ (Len(s) + i) - Len(s) = i
    BY <1>1
  <2> QED BY <1>3, <1>4, <2>1
<1>7. \A i \in DOMAIN u : u[i] \in ItemsOf(s) \cup ItemsOf(t)
  <2> SUFFICES ASSUME NEW i \in 1 .. Len(s) + Len(t)
               PROVE  u[i] \in ItemsOf(s) \cup ItemsOf(t)
    BY <1>4
  <2>1. CASE i <= Len(s)
    BY <1>1, <1>3, <2>1 DEF ItemsOf
  <2>2. CASE ~(i <= Len(s))
    <3>1. i - Len(s) \in DOMAIN t /\ u[i] = t[i - Len(s)]
      BY <1>1, <1>3, <2>2
    <3> QED BY <3>1 DEF ItemsOf
  <2> QED BY <2>1, <2>2
<1>8. ItemsOf(u) = ItemsOf(s) \cup ItemsOf(t)
  BY <1>5, <1>6, <1>7 DEF ItemsOf
<1> QED BY <1>3, <1>4, <1>5, <1>6, <1>8 DEF u

------------------------------------------------------------------------------
(* What a section has said of its register, one line later.                  *)
LEMMA InsideGrows ==
  ASSUME NEW p \in Nat, NEW l \in Nat, p < l, NEW kw
  PROVE  /\ file[l].kw = kw => Inside(<<p, l>>, kw) = Inside(<<p, l - 1>>, kw) \cup {l}
         /\ file[l].kw # kw => Inside(<<p, l>>, kw) = Inside(<<p, l - 1>>, kw)
<1>1. p .. l = (p .. l - 1) \cup {l} /\ l \notin p .. l - 1
  OBVIOUS
<1>2. <<p, l>>[1] = p /\ <<p, l>>[2] = l /\ <<p, l - 1>>[1] = p /\ <<p, l - 1>>[2] = l - 1
  OBVIOUS
<1> QED BY <1>1, <1>2 DEF Inside

LEMMA LatestIs ==
  ASSUME NEW I, NEW l \in Int, I \subseteq Int, \A i \in I : i < l
  PROVE  LatestOf(I \cup {l}) = l
<1>1. l \in I \cup {l} /\ \A j \in I \cup {l} : j <= l
  OBVIOUS
<1>2. \A i \in I \cup {l} : (\A j \in I \cup {l} : j <= i) => i = l
  OBVIOUS
<1> QED BY <1>1, <1>2 DEF LatestOf

LEMMA InsideBelow ==
  ASSUME NEW p \in Nat, NEW l \in Nat, NEW kw
  PROVE  Inside(<<p, l - 1>>, kw) \subseteq Int /\ \A i \in Inside(<<p, l - 1>>, kw) : i < l
BY DEF Inside

LEMMA LatestInside ==
  ASSUME NEW p \in Nat, NEW l \in Nat, NEW kw
  PROVE  LatestOf(Inside(<<p, l - 1>>, kw) \cup {l}) = l
<1> DEFINE I == Inside(<<p, l - 1>>, kw)
<1>1. I \subseteq Int /\ \A i \in I : i < l
  BY InsideBelow
<1>0. l \in Int
  OBVIOUS
<1> HIDE DEF I
<1>2. LatestOf(I \cup {l}) = l
  BY <1>0, <1>1, LatestIs, Zenon
<1> QED BY <1>2 DEF I

LEMMA LastGrows ==
  ASSUME NEW p \in Nat, NEW l \in Nat, p < l, NEW kw
  PROVE  WrittenLast(<<p, l>>, kw) =
           IF file[l].kw = kw THEN file[l].val ELSE WrittenLast(<<p, l - 1>>, kw)
<1>1. CASE file[l].kw = kw
  <2>1. Inside(<<p, l>>, kw) = Inside(<<p, l - 1>>, kw) \cup {l}
    BY <1>1, InsideGrows
  <2>2. LatestOf(Inside(<<p, l - 1>>, kw) \cup {l}) = l
    BY LatestInside
  <2> QED BY <1>1, <2>1, <2>2 DEF WrittenLast
<1>2. CASE file[l].kw # kw
  BY <1>2, InsideGrows DEF WrittenLast
<1> QED BY <1>1, <1>2

LEMMA AssocGrows ==
  ASSUME NEW p \in Nat, NEW l \in Nat, p < l
  PROVE  WrittenAssoc(<<p, l>>) =
           [k \in Kinds |-> IF file[l].kw = k
                            THEN [port |-> file[l].args[1], default |-> file[l].args[2]]
                            ELSE WrittenAssoc(<<p, l - 1>>)[k]]
<1> SUFFICES ASSUME NEW k \in Kinds
             PROVE  WrittenAssoc(<<p, l>>)[k] =
                      IF file[l].kw = k
                      THEN [port |-> file[l].args[1], default |-> file[l].args[2]]
                      ELSE WrittenAssoc(<<p, l - 1>>)[k]
  BY DEF WrittenAssoc
<1>1. CASE file[l].kw = k
  <2>1. Inside(<<p, l>>, k) = Inside(<<p, l - 1>>, k) \cup {l}
    BY <1>1, InsideGrows
  <2>2. LatestOf(Inside(<<p, l - 1>>, k) \cup {l}) = l
    BY LatestInside
  <2> QED BY <1>1, <2>1, <2>2 DEF WrittenAssoc
<1>2. CASE file[l].kw # k
  BY <1>2, InsideGrows DEF WrittenAssoc
<1> QED BY <1>1, <1>2

(* Of the lines that give a key there is a first one.                        *)
Giving(span, kw, k) == {i \in Inside(span, kw) : k \in DOMAIN file[i].val}
HasFirst(span, kw) ==
  \A k : Giving(span, kw, k) # {} =>
    \E i \in Giving(span, kw, k) : \A j \in Giving(span, kw, k) : i <= j

LEMMA EarliestIs ==
  ASSUME NEW I, NEW i \in I, I \subseteq Int, \A j \in I : i <= j
  PROVE  EarliestOf(I) = i
<1>1. \A h \in I : (\A j \in I : h <= j) => h = i
  OBVIOUS
<1> QED BY <1>1 DEF EarliestOf

LEMMA FirstIs ==
  ASSUME NEW span, NEW kw
  PROVE  /\ WrittenFirst(span, kw) =
              [k \in UNION {DOMAIN file[i].val : i \in Inside(span, kw)} |->
                 file[EarliestOf(Giving(span, kw, k))].val[k]]
         /\ \A k : k \in DOMAIN WrittenFirst(span, kw) <=> Giving(span, kw, k) # {}
         /\ \A k \in DOMAIN WrittenFirst(span, kw) :
              WrittenFirst(span, kw)[k] = file[EarliestOf(Giving(span, kw, k))].val[k]
<1>1. \A k : k \in UNION {DOMAIN file[i].val : i \in Inside(span, kw)}
               <=> Giving(span, kw, k) # {}
  BY DEF Giving
<1>2. WrittenFirst(span, kw) =
        [k \in UNION {DOMAIN file[i].val : i \in Inside(span, kw)} |->
           file[EarliestOf(Giving(span, kw, k))].val[k]]
  BY DEF WrittenFirst, Giving
<1> QED BY <1>1, <1>2

LEMMA FirstGrows ==
  ASSUME NEW p \in Nat, NEW l \in Nat, p < l, NEW kw, HasFirst(<<p, l - 1>>, kw)
  PROVE  /\ HasFirst(<<p, l>>, kw)
         /\ WrittenFirst(<<p, l>>, kw) =
              IF file[l].kw = kw THEN Over(WrittenFirst(<<p, l - 1>>, kw), file[l].val)
              ELSE WrittenFirst(<<p, l - 1>>, kw)
<1>1. CASE file[l].kw = kw
  <2> DEFINE G(k) == Giving(<<p, l - 1>>, kw, k)
             H(k) == Giving(<<p, l>>, kw, k)
             first == WrittenFirst(<<p, l - 1>>, kw)
             both == WrittenFirst(<<p, l>>, kw)
  <2>1. \A k : H(k) = IF k \in DOMAIN file[l].val THEN G(k) \cup {l} ELSE G(k)
    <3>1. Inside(<<p, l>>, kw) = Inside(<<p, l - 1>>, kw) \cup {l}
      BY <1>1, InsideGrows
    <3> QED BY <3>1 DEF Giving
  <2>2. \A k : G(k) \subseteq Int /\ \A i \in G(k) : i < l
    BY InsideBelow DEF Giving
  <2>3. ASSUME NEW k, G(k) # {}
        PROVE  /\ H(k) # {} /\ EarliestOf(H(k)) = EarliestOf(G(k))
               /\ \E i \in H(k) : \A j \in H(k) : i <= j
    <3>1. PICK i \in G(k) : \A j \in G(k) : i <= j
      BY <2>3 DEF HasFirst
    <3>2. G(k) \subseteq Int /\ i \in Int /\ i < l
      BY <2>2
    <3>3. H(k) = G(k) \/ H(k) = G(k) \cup {l}
      BY <2>1
    <3>4. i \in H(k) /\ H(k) \subseteq Int /\ \A j \in H(k) : i <= j
      <4> HIDE DEF G, H
      <4> QED BY <3>1, <3>2, <3>3
    <3> HIDE DEF G, H
    <3> QED BY <3>1, <3>2, <3>4, EarliestIs
  <2>4. ASSUME NEW k, G(k) = {}, H(k) # {}
        PROVE  /\ EarliestOf(H(k)) = l /\ k \in DOMAIN file[l].val
               /\ \E i \in H(k) : \A j \in H(k) : i <= j
    <3>1. H(k) = {l} /\ k \in DOMAIN file[l].val
      BY <2>1, <2>4
    <3>2. EarliestOf({l}) = l
      BY EarliestIs
    <3> HIDE DEF G, H
    <3> QED BY <3>1, <3>2
  <2>5. \A k : k \in DOMAIN first <=> G(k) # {}
    BY FirstIs
  <2>6. \A k : k \in DOMAIN both <=> H(k) # {}
    BY FirstIs
  <2>7. \A k \in DOMAIN first : first[k] = file[EarliestOf(G(k))].val[k]
    BY FirstIs
  <2>8. \A k \in DOMAIN both : both[k] = file[EarliestOf(H(k))].val[k]
    BY FirstIs
  <2>9. both = [k \in DOMAIN both |-> both[k]]
    BY FirstIs
  <2>10. HasFirst(<<p, l>>, kw)
    BY <2>3, <2>4 DEF HasFirst
  <2>11. \A k : k \in DOMAIN both <=> k \in DOMAIN first \cup DOMAIN file[l].val
    BY <2>1, <2>5, <2>6
  <2> HIDE DEF G, H, first, both
  <2>12. ASSUME NEW k \in DOMAIN both
         PROVE  both[k] = IF k \in DOMAIN first THEN first[k] ELSE file[l].val[k]
    <3>1. CASE k \in DOMAIN first
      BY <2>3, <2>5, <2>7, <2>8, <3>1
    <3>2. CASE k \notin DOMAIN first
      <4>1. EarliestOf(H(k)) = l
        BY <2>4, <2>5, <2>6, <3>2
      <4> QED BY <2>8, <3>2, <4>1
    <3> QED BY <3>1, <3>2
  <2>13. DOMAIN both = DOMAIN first \cup DOMAIN file[l].val
    BY <2>11
  <2>14. both = Over(first, file[l].val)
    BY <2>9, <2>12, <2>13 DEF Over
  <2> QED BY <1>1, <2>10, <2>14 DEF first, both
<1>2. CASE file[l].kw # kw
  <2>1. Inside(<<p, l>>, kw) = Inside(<<p, l - 1>>, kw)
    BY <1>2, InsideGrows
  <2> QED BY <1>2, <2>1 DEF HasFirst, Giving, WrittenFirst
<1> QED BY <1>1, <1>2

LEMMA RegisterGrows ==
  ASSUME NEW p \in Nat, NEW l \in Nat, p < l, HasFirst(<<p, l - 1>>, "con")
  PROVE  /\ HasFirst(<<p, l>>, "con")
         /\ WrittenRegister(<<p, l>>) =
              CASE file[l].kw = "con" ->
                     [WrittenRegister(<<p, l - 1>>) EXCEPT !.con = Over(@, file[l].val)]
                [] file[l].kw = "set" ->
                     [WrittenRegister(<<p, l - 1>>) EXCEPT !.set = file[l].val]
                [] file[l].kw = "map" ->
                     [WrittenRegister(<<p, l - 1>>) EXCEPT !.map = file[l].val]
                [] OTHER -> WrittenRegister(<<p, l - 1>>)
<1>1. /\ HasFirst(<<p, l>>, "con")
      /\ WrittenFirst(<<p, l>>, "con") =
           IF file[l].kw = "con" THEN Over(WrittenFirst(<<p, l - 1>>, "con"), file[l].val)
           ELSE WrittenFirst(<<p, l - 1>>, "con")
  BY FirstGrows
<1>2. /\ WrittenLast(<<p, l>>, "set") =
           IF file[l].kw = "set" THEN file[l].val ELSE WrittenLast(<<p, l - 1>>, "set")
      /\ WrittenLast(<<p, l>>, "map") =
           IF file[l].kw = "map" THEN file[l].val ELSE WrittenLast(<<p, l - 1>>, "map")
  BY LastGrows
<1> QED BY <1>1, <1>2 DEF WrittenRegister

(* A line that opens a `port' section has said nothing yet.                  *)
LEMMA NothingYet ==
  ASSUME NEW p \in Nat, file[p].kw = "port"
  PROVE  /\ WrittenRegister(<<p, p>>) = NoRegister /\ WrittenAssoc(<<p, p>>) = NoAssoc
         /\ HasFirst(<<p, p>>, "con")
<1>1. ASSUME NEW kw, kw # "port"
      PROVE  Inside(<<p, p>>, kw) = {}
  BY <1>1 DEF Inside
<1>2. /\ Inside(<<p, p>>, "set") = {} /\ Inside(<<p, p>>, "map") = {}
      /\ Inside(<<p, p>>, "con") = {}
      /\ \A k \in Kinds : Inside(<<p, p>>, k) = {}
  BY <1>1 DEF Kinds
<1>3. WrittenFirst(<<p, p>>, "con") = Nothing
  <2>1. \A k : Giving(<<p, p>>, "con", k) = {}
    BY <1>2 DEF Giving
  <2>2. UNION {DOMAIN file[i].val : i \in Inside(<<p, p>>, "con")} = {}
    BY <1>2
  <2> QED BY <2>2, FirstIs DEF Nothing
<1>4. WrittenAssoc(<<p, p>>) = NoAssoc
  BY <1>2 DEF WrittenAssoc, NoAssoc
<1>5. HasFirst(<<p, p>>, "con")
  BY <1>2 DEF HasFirst, Giving
<1> QED BY <1>2, <1>3, <1>4, <1>5 DEF WrittenRegister, WrittenLast, NoRegister

------------------------------------------------------------------------------
(* The entries of a map of registers, and those the port sections between    *)
(* two lines ask for.                                                        *)
Entries(R)    == UNION {{<<r, R[r][i]>> : i \in DOMAIN R[r]} : r \in DOMAIN R}
PortsIn(a, e) == {p \in Spans("port", "endport") : a < p[1] /\ p[2] < e}
Said(a, e)    == UNION {{<<WrittenRegister(p),
                           [spec |-> file[p[1]].args[i], assoc |-> WrittenAssoc(p)]>> :
                           i \in DOMAIN file[p[1]].args} : p \in PortsIn(a, e)}

Sequences(R) == \A r \in DOMAIN R : IsSequence(R[r])
Describes(R, a, e) == Sequences(R) /\ Entries(R) = Said(a, e)

(* The description at the end of the list is that of the open section, ...   *)
OpenAt(a) ==
    /\ a < line
    /\ file[a].kw = "dsp" /\ Len(file[a].args) >= 1
    /\ \A i \in a + 1 .. line - 1 : file[i].kw \notin {"dsp", "enddsp"}
    /\ Len(dspTypes) >= 1 /\ EndOf(dspTypes).name = Head(file[a].args)
    /\ aliases = Tail(file[a].args)
    /\ Describes(EndOf(dspTypes).regs, a, line)

(* ... the members are what the open port section has said so far, ...       *)
PortAt(a, p) ==
    /\ a < p /\ p < line
    /\ file[p].kw = "port"
    /\ \A i \in p + 1 .. line - 1 : file[i].kw \notin {"port", "endport"}
    /\ names = file[p].args
    /\ reg = WrittenRegister(<<p, line - 1>>)
    /\ assoc = WrittenAssoc(<<p, line - 1>>)
    /\ HasFirst(<<p, line - 1>>, "con")

Open == sec \in {"dsp", "port"} =>
          \E a \in DOMAIN file :
            OpenAt(a) /\ (sec = "port" => \E p \in DOMAIN file : PortAt(a, p))

(* ... and those of closed sections stand in the list under all their names. *)
Listed(s, x) ==
    \E i \in DOMAIN dspTypes :
      /\ sec \in {"dsp", "port"} => i # Len(dspTypes)
      /\ dspTypes[i].name = file[s[1]].args[x]
      /\ Describes(dspTypes[i].regs, s[1], s[2])

Closed == \A s \in Spans("dsp", "enddsp") : s[2] < line =>
            \A x \in DOMAIN file[s[1]].args : Listed(s, x)

Described(d) == d = [name |-> d.name, regs |-> d.regs]

Reading ==
    /\ file \in DOMAIN Designs /\ line \in 1 .. Len(file) + 1
    /\ sec \in {"", "dsp", "port", "ff"}
    /\ IsSequence(dspTypes) /\ \A i \in DOMAIN dspTypes : Described(dspTypes[i])

LoadInv == Reading /\ Open /\ Closed /\ (status = "loaded" => DescribedAsWritten)

------------------------------------------------------------------------------
(* Which port sections stand between two lines, and which section a line     *)
(* closes.                                                                   *)
LEMMA Lines ==
  ASSUME Reading
  PROVE  /\ IsFile(file) /\ Len(file) \in Nat /\ DOMAIN file = 1 .. Len(file)
         /\ \A l \in DOMAIN file : l \in Nat /\ l - 1 \in Nat /\ IsSequence(file[l].args)
         /\ line \in Nat /\ line >= 1 /\ line - 1 \in Nat
<1>1. IsFile(file)
  BY FilesAssumption DEF Reading
<1>2. DOMAIN file = 1 .. Len(file) /\ Len(file) \in Nat
  BY <1>1, SequenceIs DEF IsFile
<1>3. line \in 1 .. Len(file) + 1
  BY DEF Reading
<1>4. \A l \in DOMAIN file : IsSequence(file[l].args)
  BY <1>1 DEF IsFile
<1>5. \A l \in DOMAIN file : l \in Nat /\ l - 1 \in Nat
  BY <1>2
<1>6. line \in Nat /\ line >= 1 /\ line - 1 \in Nat
  BY <1>2, <1>3
<1> QED BY <1>1, <1>2, <1>4, <1>5, <1>6

LEMMA SpanOf ==
  ASSUME Reading, NEW open, NEW close, open # close,
         NEW b \in DOMAIN file, NEW l \in DOMAIN file, b < l,
         file[b].kw = open, file[l].kw = close,
         \A i \in b + 1 .. l - 1 : file[i].kw \notin {open, close}
  PROVE  <<b, l>> \in Spans(open, close)
           /\ \A s \in Spans(open, close) : s[2] = l => s = <<b, l>>
<1>1. \A i \in DOMAIN file : i \in Nat
  BY Lines
<1>2. <<b, l>> \in Spans(open, close)
  BY DEF Spans
<1>3. ASSUME NEW s \in Spans(open, close), s[2] = l
      PROVE  s = <<b, l>>
  <2>1. /\ s \in (DOMAIN file) \X (DOMAIN file)
        /\ file[s[1]].kw = open /\ s[1] < l
        /\ \A i \in s[1] + 1 .. l - 1 : file[i].kw \notin {open, close}
    BY <1>3 DEF Spans
  <2>2. s[1] \in Nat /\ b \in Nat /\ l \in Nat
    BY <1>1, <2>1
  <2>3. ~(s[1] < b)
    BY <2>1, <2>2
  <2>4. ~(b < s[1])
    BY <2>1, <2>2
  <2>5. s[1] = b
    BY <2>2, <2>3, <2>4
  <2> QED BY <1>3, <2>1, <2>5
<1> QED BY <1>2, <1>3

LEMMA SaidBefore ==
  ASSUME Reading, NEW a \in Nat, NEW l \in Nat, file[l].kw # "endport"
  PROVE  Said(a, l + 1) = Said(a, l)
<1>1. ASSUME NEW s \in Spans("port", "endport")
      PROVE  s[2] < l + 1 <=> s[2] < l
  <2>1. s[2] \in Nat /\ s[2] # l
    BY Lines DEF Spans
  <2> QED BY <2>1
<1>2. PortsIn(a, l + 1) = PortsIn(a, l)
  BY <1>1 DEF PortsIn
<1> QED BY <1>2 DEF Said

LEMMA SaidOfPort ==
  ASSUME Reading, NEW a \in Nat, NEW p \in DOMAIN file, NEW l \in DOMAIN file, a < p, p < l,
         file[p].kw = "port", file[l].kw = "endport",
         \A i \in p + 1 .. l - 1 : file[i].kw \notin {"port", "endport"}
  PROVE  Said(a, l + 1) = Said(a, l) \cup
           {<<WrittenRegister(<<p, l>>),
              [spec |-> file[p].args[i], assoc |-> WrittenAssoc(<<p, l>>)]>> :
              i \in DOMAIN file[p].args}
<1> DEFINE here == <<p, l>>
<1>1. /\ here \in Spans("port", "endport")
      /\ \A s \in Spans("port", "endport") : s[2] = l => s = here
  <2>1. "port" # "endport"
    OBVIOUS
  <2> QED BY <2>1, SpanOf
<1>2. here[1] = p /\ here[2] = l
  OBVIOUS
<1> HIDE DEF here
<1>3. \A s \in Spans("port", "endport") : s[2] \in Nat
  BY Lines DEF Spans
<1>4. l \in Nat
  BY Lines
<1>5. PortsIn(a, l + 1) = PortsIn(a, l) \cup {here}
  <2>1. here \in PortsIn(a, l + 1)
    BY <1>1, <1>2, <1>4 DEF PortsIn
  <2>2. \A s \in PortsIn(a, l + 1) : s \in PortsIn(a, l) \/ s = here
    BY <1>1, <1>3, <1>4 DEF PortsIn
  <2>3. \A s \in PortsIn(a, l) : s \in PortsIn(a, l + 1)
    BY <1>3, <1>4 DEF PortsIn
  <2> QED BY <2>1, <2>2, <2>3
<1>6. Said(a, l + 1) = Said(a, l) \cup
        {<<WrittenRegister(here),
           [spec |-> file[here[1]].args[i], assoc |-> WrittenAssoc(here)]>> :
           i \in DOMAIN file[here[1]].args}
  BY <1>5 DEF Said
<1> QED BY <1>2, <1>6 DEF here

(* The file stands while it is read.                                         *)
LEMMA FileStands ==
  ASSUME Reading, file' = file
  PROVE  /\ \A a, e : Said(a, e)' = Said(a, e)
         /\ \A open, close : Spans(open, close)' = Spans(open, close)
<1>1. \A a, e : Said(a, e)' = Said(a, e)
  BY DEF Said, PortsIn, Spans, WrittenRegister, WrittenAssoc, WrittenLast,
         WrittenFirst, Inside
<1>2. \A open, close : Spans(open, close)' = Spans(open, close)
  BY DEF Spans
<1> QED BY <1>1, <1>2

LEMMA LineRead ==
  ASSUME Reading, file' = file, line' = line + 1
  PROVE  /\ \A a : Said(a, line)' = Said(a, line + 1)
         /\ \A p : /\ WrittenRegister(<<p, line - 1>>)' = WrittenRegister(<<p, line>>)
                   /\ WrittenAssoc(<<p, line - 1>>)' = WrittenAssoc(<<p, line>>)
                   /\ HasFirst(<<p, line - 1>>, "con")' <=> HasFirst(<<p, line>>, "con")
<1>1. line' - 1 = line
  BY Lines
<1>2. \A a : Said(a, line)' = Said(a, line + 1)
  BY DEF Said, PortsIn, Spans, WrittenRegister, WrittenAssoc, WrittenLast,
         WrittenFirst, Inside
<1>3. \A p : <<p, line - 1>>' = <<p, line>>
  BY <1>1
<1>4. \A p : WrittenRegister(<<p, line - 1>>)' = WrittenRegister(<<p, line>>)
  <2> SUFFICES ASSUME NEW p
               PROVE  WrittenRegister(<<p, line - 1>>)' = WrittenRegister(<<p, line>>)
    OBVIOUS
  <2>1. \A kw : WrittenLast(<<p, line - 1>>, kw)' = WrittenLast(<<p, line>>, kw)
    BY <1>3 DEF WrittenLast, Inside
  <2>2. WrittenFirst(<<p, line - 1>>, "con")' = WrittenFirst(<<p, line>>, "con")
    <3> DEFINE lines == Inside(<<p, line>>, "con")
    <3>1. Inside(<<p, line - 1>>, "con")' = lines
      BY <1>3 DEF Inside
    <3> HIDE DEF lines
    <3>2. WrittenFirst(<<p, line - 1>>, "con")' =
            [k \in UNION {DOMAIN file[i].val : i \in lines} |->
               file[EarliestOf({i \in lines : k \in DOMAIN file[i].val})].val[k]]
      BY <3>1 DEF WrittenFirst
    <3> QED BY <3>2 DEF lines, WrittenFirst
  <2>3. /\ WrittenLast(<<p, line - 1>>, "set")' = WrittenLast(<<p, line>>, "set")
        /\ WrittenLast(<<p, line - 1>>, "map")' = WrittenLast(<<p, line>>, "map")
    BY <1>3 DEF WrittenLast, Inside
  <2> QED BY <2>2, <2>3 DEF WrittenRegister
<1>5. \A p : WrittenAssoc(<<p, line - 1>>)' = WrittenAssoc(<<p, line>>)
  BY <1>3 DEF WrittenAssoc, Inside
<1>6. \A p : HasFirst(<<p, line - 1>>, "con")' <=> HasFirst(<<p, line>>, "con")
  <2>1. \A p, k : Giving(<<p, line - 1>>, "con", k)' = Giving(<<p, line>>, "con", k)
    <3> SUFFICES ASSUME NEW p, NEW k
                 PROVE  Giving(<<p, line - 1>>, "con", k)' = Giving(<<p, line>>, "con", k)
      OBVIOUS
    <3>1. Inside(<<p, line - 1>>, "con")' = Inside(<<p, line>>, "con")
      BY <1>3 DEF Inside
    <3> QED BY <3>1 DEF Giving
  <2> QED BY <2>1 DEF HasFirst
<1> QED BY <1>2, <1>4, <1>5, <1>6

------------------------------------------------------------------------------
(* A step that reads a line.                                                 *)
Reader == file' = file /\ line <= Len(file) /\ line' = line + 1

(* Descriptions of closed sections stay where they are.                      *)
Keeps ==
    \A i \in DOMAIN dspTypes : (sec \in {"dsp", "port"} => i # Len(dspTypes)) =>
      /\ i \in DOMAIN dspTypes' /\ dspTypes'[i] = dspTypes[i]
      /\ sec' \in {"dsp", "port"} => i # Len(dspTypes')

LEMMA ListedStays ==
  ASSUME Reading, Closed, file' = file, Keeps,
         NEW s \in Spans("dsp", "enddsp"), s[2] < line, NEW x \in DOMAIN file[s[1]].args
  PROVE  Listed(s, x)'
<1>1. PICK i \in DOMAIN dspTypes :
        /\ sec \in {"dsp", "port"} => i # Len(dspTypes)
        /\ dspTypes[i].name = file[s[1]].args[x]
        /\ Describes(dspTypes[i].regs, s[1], s[2])
  BY DEF Closed, Listed
<1>2. /\ i \in DOMAIN dspTypes' /\ dspTypes'[i] = dspTypes[i]
      /\ sec' \in {"dsp", "port"} => i # Len(dspTypes')
  BY <1>1 DEF Keeps
<1>3. Said(s[1], s[2])' = Said(s[1], s[2])
  BY FileStands
<1> QED BY <1>1, <1>2, <1>3 DEF Listed, Describes

LEMMA ClosedStays ==
  ASSUME Reading, Closed, Reader, Keeps, file[line].kw # "enddsp"
  PROVE  Closed'
<1>1. Spans("dsp", "enddsp")' = Spans("dsp", "enddsp")
  BY FileStands DEF Reader
<1>2. ASSUME NEW s \in Spans("dsp", "enddsp"), s[2] < line + 1
      PROVE  s[2] < line
  <2>1. s[2] \in DOMAIN file /\ file[s[2]].kw = "enddsp"
    BY DEF Spans
  <2>2. s[2] \in Nat /\ line \in Nat /\ s[2] # line
    BY <2>1, Lines
  <2> QED BY <1>2, <2>2
<1>3. \A s \in Spans("dsp", "enddsp") : s[2] < line + 1 =>
        \A x \in DOMAIN file[s[1]].args : Listed(s, x)'
  BY <1>2, ListedStays DEF Reader
<1> QED BY <1>1, <1>3 DEF Closed, Reader

(* An open section stays open over a line that does not close a port.        *)
LEMMA OpenStays ==
  ASSUME Reading, Reader, NEW a \in DOMAIN file, OpenAt(a),
         file[line].kw \notin {"dsp", "enddsp", "endport"}, UNCHANGED <<dspTypes, aliases>>
  PROVE  OpenAt(a)'
<1>1. a \in Nat /\ line \in Nat
  BY Lines
<1>2. \A i \in a + 1 .. line : file[i].kw \notin {"dsp", "enddsp"}
  BY <1>1 DEF OpenAt
<1>3. Said(a, line)' = Said(a, line + 1)
  BY LineRead DEF Reader
<1>4. Said(a, line + 1) = Said(a, line)
  BY <1>1, SaidBefore
<1>5. line' - 1 = line /\ a < line'
  BY <1>1 DEF Reader, OpenAt
<1>6. Describes(EndOf(dspTypes).regs, a, line)'
  BY <1>3, <1>4 DEF Describes, OpenAt, EndOf
<1> QED BY <1>2, <1>5, <1>6 DEF OpenAt, Reader, EndOf

LEMMA LineIs ==
  ASSUME Reading, Reader
  PROVE  /\ line \in DOMAIN file /\ line \in Nat /\ Len(file) \in Nat
         /\ line' \in 1 .. Len(file) + 1 /\ line' - 1 = line
<1>1. /\ line \in Nat /\ line >= 1 /\ Len(file) \in Nat
      /\ DOMAIN file = 1 .. Len(file)
  BY Lines
<1>2. line <= Len(file) /\ line' = line + 1
  BY DEF Reader
<1>3. line + 1 \in 1 .. Len(file) + 1 /\ line \in 1 .. Len(file) /\ (line + 1) - 1 = line
  BY <1>1, <1>2
<1> QED BY <1>1, <1>2, <1>3

LEMMA ReadingStays ==
  ASSUME Reading, Reader, sec' \in {"", "dsp", "port", "ff"}, UNCHANGED dspTypes
  PROVE  Reading'
BY LineIs DEF Reading, Reader

------------------------------------------------------------------------------
(* Each statement keeps what is known of the reading.                        *)
LEMMA AppendIs ==
  ASSUME NEW s, NEW v, IsSequence(s)
  PROVE  /\ IsSequence(Append(s, v)) /\ Len(Append(s, v)) = Len(s) + 1
         /\ DOMAIN Append(s, v) = 1 .. Len(s) + 1
         /\ \A i \in DOMAIN s : Append(s, v)[i] = s[i]
         /\ Append(s, v)[Len(s) + 1] = v
<1> DEFINE S == ItemsOf(s) \cup {v}
           u == Append(s, v)
<1>1. s \in Seq(ItemsOf(s)) /\ DOMAIN s = 1 .. Len(s) /\ Len(s) \in Nat
  BY SequenceIs
<1>2. s \in Seq(S) /\ v \in S
  <2>1. ItemsOf(s) \subseteq S /\ v \in S
    OBVIOUS
  <2> HIDE DEF S
  <2> QED BY <1>1, <2>1
<1> HIDE DEF S
<1>3. /\ u \in Seq(S) /\ Len(u) = Len(s) + 1 /\ u[Len(s) + 1] = v
      /\ \A i \in 1 .. Len(s) : u[i] = s[i]
  BY <1>2, AppendProperties
<1> HIDE DEF u
<1>4. IsSequence(u) /\ DOMAIN u = 1 .. Len(s) + 1
  BY <1>3, MemberOfSeq, SequenceIs
<1> QED BY <1>1, <1>3, <1>4 DEF u

LEMMA AtEndIs ==
  ASSUME NEW s, NEW v, IsSequence(s), Len(s) >= 1
  PROVE  /\ IsSequence(AtEnd(s, v)) /\ Len(AtEnd(s, v)) = Len(s)
         /\ DOMAIN AtEnd(s, v) = DOMAIN s /\ Len(s) \in DOMAIN s
         /\ \A i \in DOMAIN s : AtEnd(s, v)[i] = IF i = Len(s) THEN v ELSE s[i]
<1> DEFINE S == ItemsOf(s) \cup {v}
           u == AtEnd(s, v)
<1>1. /\ s \in Seq(ItemsOf(s)) /\ DOMAIN s = 1 .. Len(s) /\ Len(s) \in Nat
      /\ Len(s) \in DOMAIN s
  BY SequenceIs
<1>2. s \in Seq(S) /\ v \in S
  <2>1. ItemsOf(s) \subseteq S /\ v \in S
    OBVIOUS
  <2> HIDE DEF S
  <2> QED BY <1>1, <2>1
<1> HIDE DEF S
<1>3. /\ u \in Seq(S) /\ Len(u) = Len(s)
      /\ \A i \in 1 .. Len(s) : u[i] = IF i = Len(s) THEN v ELSE s[i]
  BY <1>1, <1>2, ExceptSeq DEF AtEnd
<1> HIDE DEF u
<1>4. IsSequence(u) /\ DOMAIN u = 1 .. Len(s)
  BY <1>3, MemberOfSeq, SequenceIs
<1> QED BY <1>1, <1>3, <1>4 DEF u

LEMMA KeepsSame ==
  ASSUME UNCHANGED dspTypes, sec' \in {"dsp", "port"} => sec \in {"dsp", "port"}
  PROVE  Keeps
BY DEF Keeps

(* What the guards say of the line that is read.                             *)
LEMMA ReadsLine ==
  ASSUME NEW kws, Reads(kws), UNCHANGED file
  PROVE  /\ Reader /\ file[line].kw \in kws /\ status = "load"
         /\ sec \in Section(file[line]) /\ Arity(file[line])
BY DEF Reads, Reader

LEMMA OpenDspReads ==
  ASSUME Reading, Open, Closed, OpenDsp
  PROVE  Reading' /\ Open' /\ Closed'
<1> DEFINE args == file[line].args
           new == [name |-> Head(args), regs |-> Nothing]
<1>1. /\ Reader /\ sec = "" /\ sec' = "dsp" /\ file[line].kw = "dsp" /\ Len(args) >= 1
      /\ dspTypes' = Append(dspTypes, new) /\ aliases' = Tail(args)
  <2>1. Reads({"dsp"}) /\ UNCHANGED file
    BY DEF OpenDsp
  <2>2. Reader /\ file[line].kw = "dsp" /\ sec \in Section(file[line]) /\ Arity(file[line])
    BY <2>1, ReadsLine
  <2>3. sec = "" /\ Len(args) >= 1
    BY <2>2 DEF Section, Arity, Kinds
  <2> QED BY <2>2, <2>3 DEF OpenDsp
<1>2. /\ line \in DOMAIN file /\ line \in Nat /\ line' \in 1 .. Len(file) + 1
      /\ line' - 1 = line /\ line' = line + 1
  BY <1>1, LineIs DEF Reader
<1>3. IsSequence(dspTypes) /\ DOMAIN dspTypes = 1 .. Len(dspTypes) /\ Len(dspTypes) \in Nat
  BY SequenceIs DEF Reading
<1> HIDE DEF new
<1>4. /\ IsSequence(dspTypes') /\ Len(dspTypes') = Len(dspTypes) + 1
      /\ DOMAIN dspTypes' = 1 .. Len(dspTypes) + 1
      /\ \A i \in DOMAIN dspTypes : dspTypes'[i] = dspTypes[i]
      /\ dspTypes'[Len(dspTypes) + 1] = new
  <2>1. /\ IsSequence(Append(dspTypes, new)) /\ Len(Append(dspTypes, new)) = Len(dspTypes) + 1
        /\ DOMAIN Append(dspTypes, new) = 1 .. Len(dspTypes) + 1
        /\ \A i \in DOMAIN dspTypes : Append(dspTypes, new)[i] = dspTypes[i]
        /\ Append(dspTypes, new)[Len(dspTypes) + 1] = new
    BY <1>3, AppendIs
  <2>2. dspTypes' = Append(dspTypes, new)
    BY <1>1
  <2> QED BY <2>1, <2>2
<1>5. Reading'
  <2>1. Described(new)
    BY DEF Described, new
  <2>2. \A i \in DOMAIN dspTypes' : Described(dspTypes'[i])
    <3> SUFFICES ASSUME NEW i \in 1 .. Len(dspTypes) + 1
                 PROVE  Described(dspTypes'[i])
      BY <1>4
    <3>1. CASE i = Len(dspTypes) + 1
      BY <1>4, <2>1, <3>1
    <3>2. CASE i # Len(dspTypes) + 1
      <4>1. i \in DOMAIN dspTypes
        BY <1>3, <3>2
      <4> QED BY <1>4, <4>1 DEF Reading
    <3> QED BY <3>1, <3>2
  <2>3. line' \in 1 .. Len(file) + 1
    BY <1>1, <1>2 DEF Reader
  <2> QED BY <1>1, <1>4, <2>2, <2>3 DEF Reading, Reader
<1>6. Keeps
  <2>1. \A i \in DOMAIN dspTypes : i \in 1 .. Len(dspTypes) + 1 /\ i # Len(dspTypes) + 1
    BY <1>3
  <2> QED BY <2>1, <1>4 DEF Keeps
<1>7. Closed'
  <2>1. file[line].kw # "enddsp"
    BY <1>1
  <2> QED BY <1>1, <1>6, <2>1, ClosedStays
<1>8. ASSUME NEW a \in DOMAIN file, a = line
      PROVE  OpenAt(a)'
  <2>1. a < line' /\ line' - 1 = a /\ line' = a + 1 /\ a \in Nat
    BY <1>2, <1>8
  <2>2. \A i \in a + 1 .. line' - 1 : FALSE
    BY <2>1
  <2>3. EndOf(dspTypes)' = new
    BY <1>4 DEF EndOf
  <2>4. Said(a, line)' = {}
    <3>1. Said(a, line)' = Said(a, line + 1)
      BY <1>1, LineRead DEF Reader
    <3>2. PortsIn(a, line + 1) = {}
      <4>1. ASSUME NEW s \in Spans("port", "endport")
            PROVE  ~(a < s[1] /\ s[2] < line + 1)
        <5>1. s[1] \in Nat /\ s[2] \in Nat /\ s[1] < s[2]
          BY Lines DEF Spans
        <5> QED BY <5>1, <2>1, <1>8
      <4> QED BY <4>1 DEF PortsIn
    <3> QED BY <3>1, <3>2 DEF Said
  <2>5. Entries(Nothing) = {} /\ Sequences(Nothing)
    BY DEF Entries, Sequences, Nothing
  <2>6. Describes(EndOf(dspTypes).regs, a, line)'
    BY <2>3, <2>4, <2>5 DEF Describes, new
  <2>7. Len(dspTypes') >= 1
    BY <1>3, <1>4
  <2>8. EndOf(dspTypes)'.name = Head(args)
    BY <2>3 DEF new
  <2> QED BY <1>1, <1>8, <2>1, <2>2, <2>6, <2>7, <2>8 DEF OpenAt, Reader
<1>9. Open'
  BY <1>1, <1>2, <1>8 DEF Open, Reader
<1> QED BY <1>5, <1>7, <1>9

LEMMA OpenPortReads ==
  ASSUME Reading, Open, Closed, OpenPort
  PROVE  Reading' /\ Open' /\ Closed'
<1>1. /\ Reader /\ sec = "dsp" /\ sec' = "port" /\ file[line].kw = "port"
      /\ names' = file[line].args /\ assoc' = NoAssoc /\ reg' = NoRegister
      /\ UNCHANGED <<dspTypes, aliases>>
  <2>1. Reads({"port"}) /\ UNCHANGED file
    BY DEF OpenPort
  <2>2. Reader /\ file[line].kw = "port" /\ sec \in Section(file[line])
    BY <2>1, ReadsLine
  <2>3. sec = "dsp"
    BY <2>2 DEF Section, Kinds
  <2> QED BY <2>2, <2>3 DEF OpenPort
<1>2. line \in DOMAIN file /\ line \in Nat /\ line' - 1 = line /\ line' = line + 1
  BY <1>1, LineIs DEF Reader
<1>3. Reading'
  BY <1>1, ReadingStays
<1>4. Closed'
  BY <1>1, KeepsSame, ClosedStays
<1>5. PICK a \in DOMAIN file : OpenAt(a)
  BY <1>1 DEF Open
<1>6. OpenAt(a)'
  <2>1. file[line].kw \notin {"dsp", "enddsp", "endport"}
    BY <1>1
  <2> QED BY <1>1, <1>5, <2>1, OpenStays
<1>7. ASSUME NEW p \in DOMAIN file, p = line
      PROVE  PortAt(a, p)'
  <2>1. /\ WrittenRegister(<<p, p>>) = NoRegister /\ WrittenAssoc(<<p, p>>) = NoAssoc
        /\ HasFirst(<<p, p>>, "con")
    <3>1. p \in Nat /\ file[p].kw = "port"
      BY <1>1, <1>2, <1>7
    <3> QED BY <3>1, NothingYet
  <2>2. /\ WrittenRegister(<<p, line - 1>>)' = WrittenRegister(<<p, p>>)
        /\ WrittenAssoc(<<p, line - 1>>)' = WrittenAssoc(<<p, p>>)
        /\ HasFirst(<<p, line - 1>>, "con")' <=> HasFirst(<<p, p>>, "con")
    BY <1>1, <1>7, LineRead DEF Reader
  <2>3. a < p /\ p < line' /\ line' - 1 = p /\ \A i \in p + 1 .. line' - 1 : FALSE
    BY <1>2, <1>5, <1>7 DEF OpenAt
  <2> QED BY <1>1, <1>7, <2>1, <2>2, <2>3 DEF PortAt, Reader
<1>8. Open'
  BY <1>1, <1>2, <1>6, <1>7 DEF Open, Reader
<1> QED BY <1>3, <1>4, <1>8

LEMMA PortStatementReads ==
  ASSUME Reading, Open, Closed, PortStatement
  PROVE  Reading' /\ Open' /\ Closed'
<1> DEFINE s == file[line]
<1>1. /\ Reader /\ sec = "port" /\ sec' = "port" /\ s.kw \in Kinds \cup {"set", "map", "con"}
      /\ UNCHANGED <<dspTypes, aliases, names>>
      /\ assoc' = (IF s.kw \in Kinds
                   THEN [assoc EXCEPT ![s.kw] = [port |-> s.args[1], default |-> s.args[2]]]
                   ELSE assoc)
      /\ reg' = CASE s.kw = "con" -> [reg EXCEPT !.con = Over(@, s.val)]
                  [] s.kw = "set" -> [reg EXCEPT !.set = s.val]
                  [] s.kw = "map" -> [reg EXCEPT !.map = s.val]
                  [] OTHER        -> reg
  <2>1. Reads(Kinds \cup {"set", "map", "con"}) /\ UNCHANGED file
    BY DEF PortStatement
  <2>2. Reader /\ s.kw \in Kinds \cup {"set", "map", "con"}
    BY <2>1, ReadsLine
  <2> QED BY <2>2 DEF PortStatement
<1>2. line \in DOMAIN file /\ line \in Nat /\ line' - 1 = line /\ line' = line + 1
  BY <1>1, LineIs DEF Reader
<1>3. /\ s.kw \notin {"dsp", "enddsp", "endport"} /\ s.kw # "enddsp"
      /\ s.kw \notin {"port", "endport"}
  BY <1>1 DEF Kinds
<1>4. Reading'
  BY <1>1, ReadingStays
<1>5. Closed'
  BY <1>1, <1>3, KeepsSame, ClosedStays
<1>6. PICK a \in DOMAIN file : OpenAt(a) /\ \E p \in DOMAIN file : PortAt(a, p)
  BY <1>1 DEF Open
<1>7. PICK p \in DOMAIN file : PortAt(a, p)
  BY <1>6
<1>8. OpenAt(a)'
  BY <1>1, <1>3, <1>6, OpenStays
<1>9. a < p /\ p < line /\ p \in Nat
  <2>1. p \in Nat
    BY Lines
  <2> QED BY <2>1, <1>7 DEF PortAt
<1>10. /\ reg = WrittenRegister(<<p, line - 1>>) /\ assoc = WrittenAssoc(<<p, line - 1>>)
       /\ HasFirst(<<p, line - 1>>, "con") /\ names = file[p].args /\ file[p].kw = "port"
       /\ \A i \in p + 1 .. line - 1 : file[i].kw \notin {"port", "endport"}
  BY <1>7 DEF PortAt
<1>11. /\ HasFirst(<<p, line>>, "con")
       /\ WrittenRegister(<<p, line>>) =
            CASE s.kw = "con" -> [reg EXCEPT !.con = Over(@, s.val)]
              [] s.kw = "set" -> [reg EXCEPT !.set = s.val]
              [] s.kw = "map" -> [reg EXCEPT !.map = s.val]
              [] OTHER        -> reg
  BY <1>2, <1>9, <1>10, RegisterGrows
<1>12. WrittenAssoc(<<p, line>>) = assoc'
  <2>1. WrittenAssoc(<<p, line>>) =
          [k \in Kinds |-> IF s.kw = k THEN [port |-> s.args[1], default |-> s.args[2]]
                           ELSE assoc[k]]
    BY <1>2, <1>9, <1>10, AssocGrows
  <2>2. assoc = [k \in Kinds |-> assoc[k]]
    BY <1>10 DEF WrittenAssoc
  <2>3. CASE s.kw \in Kinds
    <3>1. assoc' = [k \in Kinds |-> IF s.kw = k
                                    THEN [port |-> s.args[1], default |-> s.args[2]]
                                    ELSE assoc[k]]
      BY <1>1, <2>2, <2>3
    <3> QED BY <2>1, <3>1
  <2>4. CASE s.kw \notin Kinds
    <3>1. \A k \in Kinds : s.kw # k
      BY <2>4
    <3> QED BY <1>1, <2>1, <2>2, <2>4, <3>1
  <2> QED BY <2>3, <2>4
<1>13. /\ WrittenRegister(<<p, line - 1>>)' = WrittenRegister(<<p, line>>)
       /\ WrittenAssoc(<<p, line - 1>>)' = WrittenAssoc(<<p, line>>)
       /\ HasFirst(<<p, line - 1>>, "con")' <=> HasFirst(<<p, line>>, "con")
  BY <1>1, LineRead DEF Reader
<1>14. p < line' /\ \A i \in p + 1 .. line' - 1 : file[i].kw \notin {"port", "endport"}
  <2>1. p < line' /\ \A i \in p + 1 .. line' - 1 : i \in p + 1 .. line - 1 \/ i = line
    BY <1>2, <1>9
  <2> QED BY <2>1, <1>3, <1>10
<1>15. reg' = WrittenRegister(<<p, line>>)
  BY <1>1, <1>11
<1>16. PortAt(a, p)'
  BY <1>1, <1>9, <1>10, <1>11, <1>12, <1>13, <1>14, <1>15 DEF PortAt, Reader
<1>17. Open'
  BY <1>1, <1>8, <1>16 DEF Open, Reader
<1> QED BY <1>4, <1>5, <1>17

LEMMA FlopLinesRead ==
  ASSUME Reading, Open, Closed, OpenFlop \/ CloseFlop \/ FlopStatement
  PROVE  Reading' /\ Open' /\ Closed'
<1>1. /\ Reader /\ file[line].kw # "enddsp" /\ UNCHANGED dspTypes
      /\ sec' \in {"", "ff"}
  <2>1. CASE OpenFlop
    <3>1. Reads({"ff"}) /\ UNCHANGED file
      BY <2>1 DEF OpenFlop
    <3>2. Reader /\ file[line].kw \in {"ff"}
      BY <3>1, ReadsLine
    <3> QED BY <2>1, <3>2 DEF OpenFlop
  <2>2. CASE CloseFlop
    <3>1. Reads({"endff"}) /\ UNCHANGED file
      BY <2>2 DEF CloseFlop
    <3>2. Reader /\ file[line].kw \in {"endff"}
      BY <3>1, ReadsLine
    <3> QED BY <2>2, <3>2 DEF CloseFlop
  <2>3. CASE FlopStatement
    <3>1. Reads(Kinds \cup {"d", "q", "require", "match", "set", "map"}) /\ UNCHANGED file
      BY <2>3 DEF FlopStatement
    <3>2. /\ Reader
          /\ file[line].kw \in Kinds \cup {"d", "q", "require", "match", "set", "map"}
      BY <3>1, ReadsLine
    <3>3. file[line].kw # "enddsp"
      BY <3>2 DEF Kinds
    <3> QED BY <2>3, <3>2, <3>3 DEF FlopStatement
  <2> QED BY <2>1, <2>2, <2>3
<1>2. Reading' /\ Closed'
  <2>1. sec' \notin {"dsp", "port"} /\ sec' \in {"", "dsp", "port", "ff"}
    BY <1>1
  <2> QED BY <1>1, <2>1, ReadingStays, KeepsSame, ClosedStays
<1> QED BY <1>1, <1>2 DEF Open

LEMMA ClosePortReads ==
  ASSUME Reading, Open, Closed, ClosePort
  PROVE  Reading' /\ Open' /\ Closed'
<1> DEFINE open  == EndOf(dspTypes)
           ports == [i \in DOMAIN names |-> [spec |-> names[i], assoc |-> assoc]]
           known == IF reg \in DOMAIN open.regs THEN open.regs[reg] ELSE <<>>
           regs  == [r \in DOMAIN open.regs \cup {reg} |->
                       IF r = reg THEN known \o ports ELSE open.regs[r]]
           new   == [open EXCEPT !.regs = regs]
<1>1. /\ Reader /\ sec = "port" /\ sec' = "dsp" /\ file[line].kw = "endport"
      /\ dspTypes' = AtEnd(dspTypes, new) /\ UNCHANGED aliases
  <2>1. Reads({"endport"}) /\ UNCHANGED file
    BY DEF ClosePort
  <2>2. Reader /\ file[line].kw = "endport" /\ sec \in Section(file[line])
    BY <2>1, ReadsLine
  <2>3. sec = "port"
    BY <2>2 DEF Section, Kinds
  <2> QED BY <2>2, <2>3 DEF ClosePort
<1>2. /\ line \in DOMAIN file /\ line \in Nat /\ line' \in 1 .. Len(file) + 1
      /\ line' - 1 = line /\ line' = line + 1
  BY <1>1, LineIs DEF Reader
<1>3. PICK a \in DOMAIN file : OpenAt(a) /\ \E p \in DOMAIN file : PortAt(a, p)
  BY <1>1 DEF Open
<1>4. PICK p \in DOMAIN file : PortAt(a, p)
  BY <1>3
<1>5. /\ a \in Nat /\ p \in Nat /\ a < line /\ a < p /\ p < line
      /\ IsSequence(file[p].args)
  <2>1. a \in Nat /\ p \in Nat /\ IsSequence(file[p].args)
    BY Lines
  <2> QED BY <2>1, <1>3, <1>4 DEF OpenAt, PortAt
<1>6. /\ Len(dspTypes) >= 1 /\ Sequences(open.regs) /\ Entries(open.regs) = Said(a, line)
      /\ open.name = Head(file[a].args)
  BY <1>3 DEF OpenAt, Describes
<1>7. IsSequence(dspTypes) /\ Described(open)
  <2>1. IsSequence(dspTypes) /\ \A i \in DOMAIN dspTypes : Described(dspTypes[i])
    BY DEF Reading
  <2>2. Len(dspTypes) \in DOMAIN dspTypes
    BY <2>1, <1>6, AtEndIs
  <2> QED BY <2>1, <2>2 DEF EndOf
<1>8. /\ reg = WrittenRegister(<<p, line - 1>>) /\ assoc = WrittenAssoc(<<p, line - 1>>)
      /\ HasFirst(<<p, line - 1>>, "con") /\ names = file[p].args /\ file[p].kw = "port"
      /\ \A i \in p + 1 .. line - 1 : file[i].kw \notin {"port", "endport"}
  BY <1>4 DEF PortAt
<1>9. WrittenRegister(<<p, line>>) = reg
  <2>1. WrittenRegister(<<p, line>>) = WrittenRegister(<<p, line - 1>>)
    BY <1>1, <1>2, <1>5, <1>8, RegisterGrows
  <2> QED BY <1>8, <2>1
<1>10. WrittenAssoc(<<p, line>>) = assoc
  <2>1. \A k \in Kinds : file[line].kw # k
    BY <1>1 DEF Kinds
  <2>2. WrittenAssoc(<<p, line>>) =
          [k \in Kinds |-> IF file[line].kw = k
                           THEN [port |-> file[line].args[1], default |-> file[line].args[2]]
                           ELSE WrittenAssoc(<<p, line - 1>>)[k]]
    BY <1>2, <1>5, AssocGrows
  <2>3. WrittenAssoc(<<p, line>>) = [k \in Kinds |-> WrittenAssoc(<<p, line - 1>>)[k]]
    BY <2>1, <2>2
  <2>4. WrittenAssoc(<<p, line - 1>>) = [k \in Kinds |-> WrittenAssoc(<<p, line - 1>>)[k]]
    BY DEF WrittenAssoc
  <2> QED BY <1>8, <2>3, <2>4
<1>11. Said(a, line + 1) = Said(a, line) \cup {<<reg, ports[i]>> : i \in DOMAIN ports}
  <2>1. Said(a, line + 1) = Said(a, line) \cup
          {<<WrittenRegister(<<p, line>>),
             [spec |-> file[p].args[i], assoc |-> WrittenAssoc(<<p, line>>)]>> :
             i \in DOMAIN file[p].args}
    BY <1>1, <1>2, <1>5, <1>8, SaidOfPort
  <2> QED BY <1>8, <1>9, <1>10, <2>1
<1>12. IsSequence(ports)
  <2>1. IsSequence(names) /\ names \in Seq(ItemsOf(names))
        /\ DOMAIN names = 1 .. Len(names) /\ Len(names) \in Nat
    BY <1>5, <1>8, SequenceIs
  <2>2. ports \in Seq({ports[i] : i \in DOMAIN names})
    <3> DEFINE T == {ports[i] : i \in DOMAIN names}
    <3>1. ports \in [1 .. Len(names) -> T]
      BY <2>1
    <3> HIDE DEF T, ports
    <3> QED BY <2>1, <3>1, SeqDef
  <2> QED BY <2>2, MemberOfSeq
<1>13. IsSequence(known)
  <2>1. IsSequence(<<>>)
    BY DEF IsSequence
  <2> QED BY <1>6, <2>1 DEF Sequences
<1> HIDE DEF known, ports, open
<1>14. IsSequence(known \o ports) /\ ItemsOf(known \o ports) = ItemsOf(known) \cup ItemsOf(ports)
  BY <1>12, <1>13, ConcatIs
<1>15. Sequences(regs)
  BY <1>6, <1>14 DEF Sequences
<1>16. Entries(regs) = Entries(open.regs) \cup {<<reg, ports[i]>> : i \in DOMAIN ports}
  <2>1. \A r \in DOMAIN open.regs : r # reg => regs[r] = open.regs[r]
    OBVIOUS
  <2>2. ItemsOf(regs[reg]) = ItemsOf(known) \cup ItemsOf(ports)
    BY <1>14
  <2>3. ItemsOf(known) = IF reg \in DOMAIN open.regs THEN ItemsOf(open.regs[reg]) ELSE {}
    <3>1. ItemsOf(<<>>) = {}
      BY DEF ItemsOf
    <3> QED BY <3>1 DEF known
  <2>4. DOMAIN regs = DOMAIN open.regs \cup {reg}
    OBVIOUS
  <2>5. \A R : Entries(R) = UNION {{<<r, v>> : v \in ItemsOf(R[r])} : r \in DOMAIN R}
    BY DEF Entries, ItemsOf
  <2>6. {<<reg, ports[i]>> : i \in DOMAIN ports} = {<<reg, v>> : v \in ItemsOf(ports)}
    BY DEF ItemsOf
  <2> HIDE DEF regs
  <2>7. ASSUME NEW e, e \in Entries(regs)
        PROVE  e \in Entries(open.regs) \/ e \in {<<reg, v>> : v \in ItemsOf(ports)}
    <3>0. PICK r \in DOMAIN regs : e \in {<<r, v>> : v \in ItemsOf(regs[r])}
      BY <2>5, <2>7
    <3>1. PICK v \in ItemsOf(regs[r]) : e = <<r, v>>
      BY <3>0
    <3>2. CASE r # reg
      <4>1. r \in DOMAIN open.regs /\ v \in ItemsOf(open.regs[r])
        BY <2>1, <2>4, <3>1, <3>2
      <4> QED BY <2>5, <3>1, <4>1
    <3>3. CASE r = reg
      <4>1. v \in ItemsOf(ports) \/ (reg \in DOMAIN open.regs /\ v \in ItemsOf(open.regs[reg]))
        BY <2>2, <2>3, <3>1, <3>3
      <4> QED BY <2>5, <3>1, <3>3, <4>1
    <3> QED BY <3>2, <3>3
  <2>8. ASSUME NEW e, e \in Entries(open.regs)
        PROVE  e \in Entries(regs)
    <3>0. PICK r \in DOMAIN open.regs : e \in {<<r, v>> : v \in ItemsOf(open.regs[r])}
      BY <2>5, <2>8
    <3>1. PICK v \in ItemsOf(open.regs[r]) : e = <<r, v>>
      BY <3>0
    <3>2. v \in ItemsOf(regs[r]) /\ r \in DOMAIN regs
      BY <2>1, <2>2, <2>3, <2>4, <3>1
    <3> QED BY <2>5, <3>1, <3>2
  <2>9. ASSUME NEW v \in ItemsOf(ports)
        PROVE  <<reg, v>> \in Entries(regs)
    BY <2>2, <2>4, <2>5
  <2> QED BY <2>6, <2>7, <2>8, <2>9
<1> HIDE DEF regs
<1>17. new = [name |-> open.name, regs |-> regs]
  BY <1>7 DEF Described
<1> HIDE DEF new
<1>18. /\ IsSequence(dspTypes') /\ Len(dspTypes') = Len(dspTypes)
       /\ DOMAIN dspTypes' = DOMAIN dspTypes
       /\ \A i \in DOMAIN dspTypes : dspTypes'[i] = IF i = Len(dspTypes) THEN new
                                                    ELSE dspTypes[i]
       /\ Len(dspTypes) \in DOMAIN dspTypes
  <2>1. dspTypes' = AtEnd(dspTypes, new)
    BY <1>1
  <2> QED BY <2>1, <1>6, <1>7, AtEndIs
<1>19. Reading'
  <2>1. Described(new)
    BY <1>17 DEF Described
  <2>2. \A i \in DOMAIN dspTypes' : Described(dspTypes'[i])
    BY <1>18, <2>1 DEF Reading
  <2> QED BY <1>1, <1>2, <1>18, <2>2 DEF Reading, Reader
<1>20. Closed'
  <2>1. Keeps
    BY <1>1, <1>18 DEF Keeps
  <2>2. file[line].kw # "enddsp"
    BY <1>1
  <2> QED BY <1>1, <2>1, <2>2, ClosedStays
<1>21. OpenAt(a)'
  <2>1. EndOf(dspTypes)' = new
    BY <1>18 DEF EndOf
  <2>2. Said(a, line)' = Said(a, line + 1)
    BY <1>1, LineRead DEF Reader
  <2>3. Said(a, line + 1) = Entries(regs)
    BY <1>6, <1>11, <1>16
  <2>4. Describes(EndOf(dspTypes).regs, a, line)'
    BY <1>15, <1>17, <2>1, <2>2, <2>3 DEF Describes
  <2>5. a < line' /\ \A i \in a + 1 .. line' - 1 : file[i].kw \notin {"dsp", "enddsp"}
    <3>1. a < line' /\ \A i \in a + 1 .. line' - 1 : i \in a + 1 .. line - 1 \/ i = line
      BY <1>2, <1>5
    <3>2. file[line].kw \notin {"dsp", "enddsp"}
      BY <1>1
    <3> QED BY <3>1, <3>2, <1>3 DEF OpenAt
  <2>6. EndOf(dspTypes)'.name = Head(file[a].args) /\ Len(dspTypes') >= 1
    BY <1>6, <1>17, <1>18, <2>1
  <2> QED BY <1>1, <1>3, <2>4, <2>5, <2>6 DEF OpenAt, Reader
<1>22. Open'
  BY <1>1, <1>21 DEF Open, Reader
<1> QED BY <1>19, <1>20, <1>22

LEMMA CloseDspReads ==
  ASSUME Reading, Open, Closed, CloseDsp
  PROVE  Reading' /\ Open' /\ Closed'
<1> DEFINE open   == EndOf(dspTypes)
           copies == [i \in DOMAIN aliases |-> [open EXCEPT !.name = aliases[i]]]
<1>1. /\ Reader /\ sec = "dsp" /\ sec' = "" /\ file[line].kw = "enddsp"
      /\ dspTypes' = dspTypes \o copies
  <2>1. Reads({"enddsp"}) /\ UNCHANGED file
    BY DEF CloseDsp
  <2>2. Reader /\ file[line].kw = "enddsp" /\ sec \in Section(file[line])
    BY <2>1, ReadsLine
  <2>3. sec = "dsp"
    BY <2>2 DEF Section, Kinds
  <2> QED BY <2>2, <2>3 DEF CloseDsp
<1>2. /\ line \in DOMAIN file /\ line \in Nat /\ line' \in 1 .. Len(file) + 1
      /\ line' - 1 = line /\ line' = line + 1
  BY <1>1, LineIs DEF Reader
<1>3. PICK a \in DOMAIN file : OpenAt(a)
  BY <1>1 DEF Open
<1>4. /\ a \in Nat /\ a < line /\ IsSequence(file[a].args) /\ file[a].kw = "dsp"
      /\ \A i \in a + 1 .. line - 1 : file[i].kw \notin {"dsp", "enddsp"}
  <2>1. a \in Nat /\ IsSequence(file[a].args)
    BY Lines
  <2> QED BY <2>1, <1>3 DEF OpenAt
<1>5. /\ Len(dspTypes) >= 1 /\ Len(file[a].args) >= 1
      /\ open.name = Head(file[a].args) /\ aliases = Tail(file[a].args)
      /\ Describes(open.regs, a, line)
  BY <1>3 DEF OpenAt
<1>6. /\ IsSequence(dspTypes) /\ Described(open) /\ Len(dspTypes) \in DOMAIN dspTypes
      /\ DOMAIN dspTypes = 1 .. Len(dspTypes) /\ Len(dspTypes) \in Nat
  <2>1. IsSequence(dspTypes) /\ \A i \in DOMAIN dspTypes : Described(dspTypes[i])
    BY DEF Reading
  <2>2. Len(dspTypes) \in DOMAIN dspTypes
    BY <2>1, <1>5, AtEndIs
  <2> QED BY <2>1, <2>2, SequenceIs DEF EndOf
<1>7. \A x \in DOMAIN file[a].args :
        \/ x = 1 /\ file[a].args[x] = Head(file[a].args)
        \/ x - 1 \in DOMAIN aliases /\ file[a].args[x] = aliases[x - 1]
  <2> DEFINE args == file[a].args
  <2>1. args \in Seq(ItemsOf(args)) /\ DOMAIN args = 1 .. Len(args) /\ Len(args) \in Nat
    BY <1>4, SequenceIs
  <2>2. args # <<>>
    BY <1>5
  <2> HIDE DEF args
  <2>3. /\ Head(args) = args[1] /\ Tail(args) \in Seq(ItemsOf(args))
        /\ Len(Tail(args)) = Len(args) - 1
        /\ \A i \in 1 .. Len(Tail(args)) : Tail(args)[i] = args[i + 1]
    BY <2>1, <2>2, HeadTailProperties
  <2>4. DOMAIN Tail(args) = 1 .. Len(args) - 1
    <3>1. Tail(args) \in Seq(ItemsOf(args))
      BY <2>3
    <3>2. DOMAIN Tail(args) = 1 .. Len(Tail(args))
      BY <3>1, MemberOfSeq, SequenceIs
    <3> QED BY <3>2, <2>3
  <2>5. ASSUME NEW x \in DOMAIN args, x # 1
        PROVE  x - 1 \in DOMAIN Tail(args) /\ args[x] = Tail(args)[x - 1]
    <3>1. x - 1 \in 1 .. Len(args) - 1 /\ (x - 1) + 1 = x
      BY <2>1, <2>5
    <3> QED BY <2>3, <2>4, <3>1
  <2>6. aliases = Tail(args)
    BY <1>5 DEF args
  <2>7. \A x \in DOMAIN args : \/ x = 1 /\ args[x] = Head(args)
                               \/ x - 1 \in DOMAIN aliases /\ args[x] = aliases[x - 1]
    BY <2>3, <2>5, <2>6
  <2> QED BY <2>7 DEF args
<1>8. IsSequence(aliases)
  <2> DEFINE args == file[a].args
  <2>1. args \in Seq(ItemsOf(args))
    BY <1>4, SequenceIs
  <2>2. args # <<>>
    BY <1>5
  <2> HIDE DEF args
  <2>3. Tail(args) \in Seq(ItemsOf(args))
    BY <2>1, <2>2, HeadTailProperties
  <2>4. IsSequence(Tail(args))
    BY <2>3, MemberOfSeq
  <2> QED BY <2>4, <1>5 DEF args
<1>9. IsSequence(copies) /\ DOMAIN copies = DOMAIN aliases
  <2>1. DOMAIN aliases = 1 .. Len(aliases) /\ Len(aliases) \in Nat
    BY <1>8, SequenceIs
  <2>2. copies \in Seq({copies[i] : i \in DOMAIN aliases})
    <3> DEFINE T == {copies[i] : i \in DOMAIN aliases}
    <3>1. copies \in [1 .. Len(aliases) -> T]
      BY <2>1
    <3> HIDE DEF T, copies
    <3> QED BY <2>1, <3>1, SeqDef
  <2> QED BY <2>2, MemberOfSeq
<1>10. \A i \in DOMAIN aliases : copies[i] = [name |-> aliases[i], regs |-> open.regs]
  BY <1>6 DEF Described
<1> HIDE DEF copies, open
<1>11. /\ IsSequence(dspTypes')
       /\ \A i \in DOMAIN dspTypes : i \in DOMAIN dspTypes' /\ dspTypes'[i] = dspTypes[i]
       /\ \A i \in DOMAIN aliases : /\ Len(dspTypes) + i \in DOMAIN dspTypes'
                                    /\ dspTypes'[Len(dspTypes) + i] = copies[i]
       /\ ItemsOf(dspTypes') = ItemsOf(dspTypes) \cup ItemsOf(copies)
  <2>1. dspTypes' = dspTypes \o copies
    BY <1>1
  <2> QED BY <2>1, <1>6, <1>9, ConcatIs
<1>12. Reading'
  <2>1. \A d \in ItemsOf(dspTypes) : Described(d)
    BY DEF Reading, ItemsOf
  <2>2. \A d \in ItemsOf(copies) : Described(d)
    BY <1>9, <1>10 DEF ItemsOf, Described
  <2>3. \A i \in DOMAIN dspTypes' : dspTypes'[i] \in ItemsOf(dspTypes')
    BY DEF ItemsOf
  <2>4. \A i \in DOMAIN dspTypes' : Described(dspTypes'[i])
    BY <1>11, <2>1, <2>2, <2>3
  <2> QED BY <1>1, <1>2, <1>11, <2>4 DEF Reading, Reader
<1>13. Keeps
  BY <1>1, <1>11 DEF Keeps
<1>14. /\ Spans("dsp", "enddsp")' = Spans("dsp", "enddsp")
       /\ \A s \in Spans("dsp", "enddsp") : s[2] = line => s = <<a, line>>
  <2>1. "dsp" # "enddsp"
    OBVIOUS
  <2>2. line \in DOMAIN file /\ file[line].kw = "enddsp"
    BY <1>1, <1>2
  <2>3. \A s \in Spans("dsp", "enddsp") : s[2] = line => s = <<a, line>>
    BY <1>4, <2>1, <2>2, SpanOf
  <2> QED BY <1>1, <2>3, FileStands DEF Reader
<1>15. ASSUME NEW s \in Spans("dsp", "enddsp"), s[2] = line,
              NEW x \in DOMAIN file[s[1]].args
       PROVE  Listed(s, x)'
  <2>1. s[1] = a
    BY <1>14, <1>15
  <2>2. \E i \in DOMAIN dspTypes' : /\ dspTypes'[i].name = file[a].args[x]
                                    /\ dspTypes'[i].regs = open.regs
    <3>1. CASE file[a].args[x] = Head(file[a].args)
      <4>1. dspTypes'[Len(dspTypes)] = open /\ Len(dspTypes) \in DOMAIN dspTypes'
        BY <1>6, <1>11 DEF EndOf, open
      <4> QED BY <1>5, <3>1, <4>1
    <3>2. CASE x - 1 \in DOMAIN aliases /\ file[a].args[x] = aliases[x - 1]
      <4>1. /\ Len(dspTypes) + (x - 1) \in DOMAIN dspTypes'
            /\ dspTypes'[Len(dspTypes) + (x - 1)] = [name |-> aliases[x - 1],
                                                     regs |-> open.regs]
        BY <1>10, <1>11, <3>2
      <4> QED BY <3>2, <4>1
    <3> QED BY <1>7, <1>15, <2>1, <3>1, <3>2
  <2>3. Said(s[1], s[2])' = Said(a, line)
    BY <1>1, <1>15, <2>1, FileStands DEF Reader
  <2>4. Sequences(open.regs) /\ Entries(open.regs) = Said(a, line)
    BY <1>5 DEF Describes
  <2>5. sec' \notin {"dsp", "port"} /\ file' = file
    BY <1>1 DEF Reader
  <2>6. PICK i \in DOMAIN dspTypes' : /\ dspTypes'[i].name = file[a].args[x]
                                     /\ dspTypes'[i].regs = open.regs
    BY <2>2
  <2>7. Describes(dspTypes[i].regs, s[1], s[2])'
    BY <2>3, <2>4, <2>6 DEF Describes
  <2> QED BY <2>1, <2>5, <2>6, <2>7 DEF Listed, Describes
<1>16. Closed'
  <2> SUFFICES ASSUME NEW s \in Spans("dsp", "enddsp"), s[2] < line + 1,
                      NEW x \in DOMAIN file[s[1]].args
               PROVE  Listed(s, x)'
    BY <1>1, <1>14 DEF Closed, Reader
  <2>1. s[2] \in Nat
    BY Lines DEF Spans
  <2>2. s[2] < line \/ s[2] = line
    BY <1>2, <2>1
  <2>3. CASE s[2] < line
    BY <1>1, <1>13, <2>3, ListedStays DEF Reader
  <2> QED BY <1>15, <2>2, <2>3
<1>17. Open'
  BY <1>1 DEF Open
<1> QED BY <1>12, <1>16, <1>17

(* A step that reads no line.                                                *)
LEMMA NoLineRead ==
  ASSUME Reading, Open, Closed,
         UNCHANGED <<file, line, sec, dspTypes, aliases, names, assoc, reg>>
  PROVE  Reading' /\ Open' /\ Closed'
<1>1. Reading'
  BY DEF Reading
<1>2. Open'
  <2>1. \A a : OpenAt(a) => OpenAt(a)'
    <3>1. \A a : Said(a, line)' = Said(a, line)
      BY DEF Said, PortsIn, Spans, WrittenRegister, WrittenAssoc, WrittenLast,
             WrittenFirst, Inside
    <3> QED BY <3>1 DEF OpenAt, Describes
  <2>2. \A a, p : PortAt(a, p) => PortAt(a, p)'
    <3>1. \A p : WrittenRegister(<<p, line - 1>>)' = WrittenRegister(<<p, line - 1>>)
      BY DEF WrittenRegister, WrittenLast, WrittenFirst, Inside
    <3>2. \A p : WrittenAssoc(<<p, line - 1>>)' = WrittenAssoc(<<p, line - 1>>)
      BY DEF WrittenAssoc, Inside
    <3>3. \A p : HasFirst(<<p, line - 1>>, "con") => HasFirst(<<p, line - 1>>, "con")'
      BY DEF HasFirst, Giving, Inside
    <3> QED BY <3>1, <3>2, <3>3 DEF PortAt
  <2> QED BY <2>1, <2>2 DEF Open
<1>3. Closed'
  <2>1. Keeps /\ Spans("dsp", "enddsp")' = Spans("dsp", "enddsp")
    BY FileStands DEF Keeps
  <2> QED BY <2>1, ListedStays DEF Closed
<1> QED BY <1>1, <1>2, <1>3

LEMMA AsWrittenIs ==
  /\ DescribedAsWritten <=>
       \A s \in Spans("dsp", "enddsp") : \A x \in DOMAIN file[s[1]].args :
         Said(s[1], s[2]) = Entries(dsps[file[s[1]].args[x]])
  /\ DescribedAsWritten' <=>
       \A s \in Spans("dsp", "enddsp")' : \A x \in DOMAIN file'[s[1]].args :
         Said(s[1], s[2])' = Entries(dsps'[file'[s[1]].args[x]])
BY DEF DescribedAsWritten, Said, PortsIn, Entries

(* When the file ends, every name has the description it was listed with.    *)
LEMMA EndOfFileLoads ==
  ASSUME LoadInv, EndOfFile
  PROVE  LoadInv'
<1>1. /\ line > Len(file)
      /\ UNCHANGED <<file, line, sec, dspTypes, flopTypes, aliases, names, assoc, reg>>
  BY DEF EndOfFile
<1>2. Reading /\ Open /\ Closed
  BY DEF LoadInv
<1>3. Reading' /\ Open' /\ Closed'
  BY <1>1, <1>2, NoLineRead
<1>4. ASSUME status' = "loaded"
      PROVE  DescribedAsWritten'
  <2>1. /\ ~NamedTwice(dspTypes)
        /\ dsps' = [n \in Named(dspTypes) |-> dspTypes[Entry(dspTypes, n)].regs]
    BY <1>4 DEF EndOfFile
  <2>2. ASSUME NEW s \in Spans("dsp", "enddsp"), NEW x \in DOMAIN file[s[1]].args
        PROVE  Said(s[1], s[2]) = Entries(dsps'[file[s[1]].args[x]])
    <3>1. s[2] < line
      <4>1. /\ s[2] \in DOMAIN file /\ DOMAIN file = 1 .. Len(file)
            /\ Len(file) \in Nat /\ line \in Nat
        BY <1>2, Lines DEF Spans
      <4> QED BY <1>1, <4>1
    <3>2. PICK i \in DOMAIN dspTypes : /\ dspTypes[i].name = file[s[1]].args[x]
                                       /\ Describes(dspTypes[i].regs, s[1], s[2])
      BY <1>2, <3>1 DEF Closed, Listed
    <3> DEFINE n == file[s[1]].args[x]
    <3>3. \A j \in DOMAIN dspTypes : dspTypes[j].name = n => j = i
      BY <2>1, <3>2 DEF NamedTwice
    <3>4. Entry(dspTypes, n) = i
      BY <3>2, <3>3 DEF Entry
    <3>5. n \in Named(dspTypes)
      BY <3>2 DEF Named
    <3>6. dsps'[n] = dspTypes[i].regs
      BY <2>1, <3>4, <3>5
    <3> QED BY <3>2, <3>6 DEF Describes
  <2>3. /\ \A a, e : Said(a, e)' = Said(a, e)
        /\ Spans("dsp", "enddsp")' = Spans("dsp", "enddsp")
    BY <1>1, <1>2, FileStands
  <2> QED BY <1>1, <2>2, <2>3, AsWrittenIs
<1> QED BY <1>3, <1>4 DEF LoadInv

LEMMA LoadKeeps ==
  ASSUME LoadInv, LoadNext
  PROVE  LoadInv'
<1>1. Reading /\ Open /\ Closed
  BY DEF LoadInv
<1>2. ASSUME Reading' /\ Open' /\ Closed', status = "load", UNCHANGED status
      PROVE  LoadInv'
  BY <1>2 DEF LoadInv
<1>3. CASE OpenDsp
  BY <1>1, <1>2, <1>3, OpenDspReads DEF OpenDsp, Reads
<1>4. CASE CloseDsp
  BY <1>1, <1>2, <1>4, CloseDspReads DEF CloseDsp, Reads
<1>5. CASE OpenPort
  BY <1>1, <1>2, <1>5, OpenPortReads DEF OpenPort, Reads
<1>6. CASE ClosePort
  <2>1. status = "load" /\ UNCHANGED status
    BY <1>6 DEF ClosePort, Reads
  <2> QED BY <1>1, <1>2, <1>6, <2>1, ClosePortReads
<1>7. CASE OpenFlop \/ CloseFlop \/ FlopStatement
  <2>1. status = "load" /\ UNCHANGED status
    BY <1>7 DEF OpenFlop, CloseFlop, FlopStatement, Reads
  <2> QED BY <1>1, <1>2, <1>7, <2>1, FlopLinesRead
<1>8. CASE PortStatement
  <2>1. status = "load" /\ UNCHANGED status
    BY <1>8 DEF PortStatement, Reads
  <2> QED BY <1>1, <1>2, <1>8, <2>1, PortStatementReads
<1>9. CASE SyntaxError
  <2>1. /\ UNCHANGED <<file, line, sec, dspTypes, aliases, names, assoc, reg>>
        /\ status' = "error"
    BY <1>9 DEF SyntaxError
  <2>2. Reading' /\ Open' /\ Closed'
    BY <1>1, <2>1, NoLineRead
  <2> QED BY <2>1, <2>2 DEF LoadInv
<1>10. CASE EndOfFile
  BY <1>10, EndOfFileLoads
<1> QED BY <1>3, <1>4, <1>5, <1>6, <1>7, <1>8, <1>9, <1>10 DEF LoadNext

(* Nothing else touches what was read.                                       *)
LEMMA LoadedStands ==
  ASSUME LoadInv, UNCHANGED loadVars
  PROVE  LoadInv'
<1>1. UNCHANGED <<file, line, sec, dspTypes, aliases, names, assoc, reg, dsps, status>>
  BY DEF loadVars
<1>2. Reading /\ Open /\ Closed
  BY DEF LoadInv
<1>3. Reading' /\ Open' /\ Closed'
  BY <1>1, <1>2, NoLineRead
<1>4. DescribedAsWritten => DescribedAsWritten'
  <2>1. /\ \A a, e : Said(a, e)' = Said(a, e)
        /\ Spans("dsp", "enddsp")' = Spans("dsp", "enddsp")
    BY <1>1, <1>2, FileStands
  <2> QED BY <1>1, <2>1, AsWrittenIs
<1> QED BY <1>1, <1>3, <1>4 DEF LoadInv

------------------------------------------------------------------------------
(* Rules that are loaded say of every type a `dsp' section of the file names *)
(* what the section says, for every file: no port is added or lost, and none *)
(* is in a register another section describes (dsp_ff.cc:310-420).           *)
THEOREM RulesAsWrittenHolds == Spec => []RulesAsWritten
<1>1. Init => LoadInv
  <2> SUFFICES ASSUME Init
               PROVE  LoadInv
    OBVIOUS
  <2>1. /\ file \in DOMAIN Designs /\ line = 1 /\ sec = "" /\ status = "load"
        /\ dspTypes = <<>>
    BY DEF Init, LoadInit
  <2>2. Len(file) \in Nat /\ DOMAIN file = 1 .. Len(file)
    BY <2>1, FilesAssumption, SequenceIs DEF IsFile
  <2>3. IsSequence(dspTypes) /\ \A i \in DOMAIN dspTypes : FALSE
    <3>1. IsSequence(<<>>)
      BY DEF IsSequence
    <3>2. dspTypes = <<>>
      BY <2>1
    <3>3. \A i \in DOMAIN <<>> : FALSE
      OBVIOUS
    <3> QED BY <3>1, <3>2, <3>3
  <2>4. line \in 1 .. Len(file) + 1
    <3>1. line = 1 /\ Len(file) \in Nat
      BY <2>1, <2>2
    <3> QED BY <3>1
  <2>5. Reading /\ Open
    BY <2>1, <2>3, <2>4 DEF Reading, Open
  <2>6. \A s \in Spans("dsp", "enddsp") : ~(s[2] < line)
    <3> SUFFICES ASSUME NEW s \in Spans("dsp", "enddsp")
                 PROVE  ~(s[2] < line)
      OBVIOUS
    <3>1. s[2] \in 1 .. Len(file)
      BY <2>2 DEF Spans
    <3>2. s[2] >= 1 /\ s[2] \in Nat
      BY <2>2, <3>1
    <3>3. line = 1
      BY <2>1
    <3> QED BY <3>2, <3>3
  <2> QED BY <2>1, <2>5, <2>6 DEF Closed, LoadInv
<1>2. LoadInv /\ [Next]_vars => LoadInv'
  <2> SUFFICES ASSUME LoadInv, [Next]_vars
               PROVE  LoadInv'
    OBVIOUS
  <2>1. LoadNext \/ UNCHANGED loadVars
    <3>1. Load => LoadNext
      BY DEF Load
    <3>2. Start \/ RemoveCells \/ Stopped => UNCHANGED loadVars
      BY DEF Start, RemoveCells, Stopped, vars
    <3>3. \A c, r : Refuse(c, r) \/ Integrate(c, r) \/ Crash(c, r) => UNCHANGED loadVars
      <4>1. \A c, r : Turn(c, r) => UNCHANGED loadVars
        BY DEF Turn
      <4>2. \A c, r : Refuse(c, r) => Turn(c, r)
        BY Zenon DEF Refuse
      <4>3. \A c, r : Crash(c, r) => Turn(c, r)
        BY Zenon DEF Crash
      <4>4. \A c, r : Integrate(c, r) => Turn(c, r)
        BY Zenon DEF Integrate
      <4> QED BY Zenon, <4>1, <4>2, <4>3, <4>4
    <3> QED BY <3>1, <3>2, <3>3 DEF Next, vars
  <2> QED BY <2>1, LoadKeeps, LoadedStands
<1>3. LoadInv => RulesAsWritten
  BY DEF LoadInv, RulesAsWritten
<1> QED BY <1>1, <1>2, <1>3, PTL DEF Spec
==============================================================================
