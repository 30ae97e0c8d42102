---------------------------- MODULE MCIntegrateInv ----------------------------
(* IntegrateInv on every wiring of three inverters, one behind the other or  *)
(* in a fork, and three pins.                                                *)
EXTENDS IntegrateInv

MCInv == {"i", "j", "k"}
MCPin == {"p", "q", "r"}
MCNet == {"in", "yi", "yj", "yk"}
MCY   == [c \in MCInv |-> CASE c = "i" -> "yi" [] c = "j" -> "yj"
                            [] c = "k" -> "yk"]

(* yi can be shared by two inverters: the map asserts that it is not.        *)
MCDesigns ==
    {[a |-> [c \in MCInv |-> CASE c = "i" -> "in" [] c = "j" -> aj
                               [] c = "k" -> ak],
      y |-> [MCY EXCEPT !["k"] = yk],
      reads |-> [p \in MCPin |-> CASE p = "p" -> rp [] p = "q" -> rq
                                   [] p = "r" -> rr],
      mask |-> [p \in MCPin |-> p = "q"],
      invertible |-> inv, selected |-> {"p", "q"} \cup sel,
      odd |-> odd, out |-> {"yi", "yj"} \cap (out \cup asg),
      assigned |-> {"yi", "yj"} \cap asg] :
       aj \in {"in", "yi"}, ak \in {"in", "yi", "yj"}, yk \in {"yk", "yi"},
       rp \in {"yi", "yj"}, rq \in MCNet, rr \in {"yi", "yj", "yk"},
       inv \in {MCPin, MCPin \ {"r"}, {"p"}}, sel \in {{}, {"r"}},
       odd \in {{}, {"q"}}, out \in {{}, {"yi"}}, asg \in {{}, {"yj"}}}
=============================================================================
