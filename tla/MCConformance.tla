---------------------------- MODULE MCConformance ----------------------------
(* Two fixed cases over seven sources, two of which have token names that   *)
(* RenderParser takes for placeholders.                                     *)
EXTENDS Conformance

LOCAL INSTANCE SequencesExt

Placeholders == {"PACKAGE", "FUNCTION", "STAGE", "DIGEST", "NAMES"}

MCSlots == Placeholders

MCTemplate == [s \in Placeholders |-> s]

Values(stage, names, digest) ==
  [PACKAGE |-> {"generated"}, FUNCTION |-> {IF stage = 1 THEN "ParseStage1" ELSE "ParseStage2"},
   STAGE |-> {ToString(stage)}, DIGEST |-> {digest}, NAMES |-> names]

Result(decision, tree, ir, names) ==
  [decision |-> decision, terminal |-> decision, digest |-> decision, accountable |-> TRUE,
   generations |-> <<tree, ir>>, tree |-> tree, ir |-> ir, rendered |-> ir # "none",
   values |-> <<Values(1, names, ir), Values(2, names, ir)>>]

MCBootstrapped ==
  [ base      |-> Result("CLOSED", "t1", "i1", {"A", "B"}),
    reordered |-> Result("CLOSED", "t2", "i1", {"A", "B"}),
    extended  |-> Result("CLOSED", "t3", "i2", {"A", "B", "C"}),
    ambiguous |-> Result("UNKNOWN", "t4", "i3", {"A"}),
    unparsed  |-> Result("REFUTED", "none", "none", {}),
    named     |-> Result("CLOSED", "t5", "i4", {"A", "STAGE"}),
    selfnamed |-> Result("CLOSED", "t6", "i5", {"NAMES"}) ]

Case(id, own, expected, reference, asked) ==
  [id |-> id, own |-> own, shared |-> Missing, expected |-> expected,
   reference |-> reference, syntax |-> "syntax" \in asked,
   semantic |-> "semantic" \in asked, replay |-> "replay" \in asked]

Replayed(id, source) == Case(id, source, Bootstrapped[source].decision, source, {"replay"})

Directories(id) ==
  { Case(id, "base", "CLOSED", Missing, {}),
    Case(id, "base", "UNKNOWN", Missing, {}),
    Case(id, "ambiguous", "UNKNOWN", Missing, {}),
    Case(id, "extended", "CLOSED", "base", {"syntax", "semantic"}),
    Case(id, "reordered", "CLOSED", "base", {"syntax"}),
    Case(id, "reordered", "CLOSED", "base", {"syntax", "semantic"}),
    Case(id, "base", "CLOSED", "base", {"syntax"}),
    Case(id, "base", "CLOSED", "unparsed", {"syntax", "semantic"}),
    Case(id, "base", "CLOSED", Missing, {"syntax"}),
    Case(id, "base", "CLOSED", "reordered", {"replay"}),
    Case(id, "base", "CLOSED", Missing, {"replay"}),
    Case(id, "base", "CLOSED", "base", {"replay", "semantic"}),
    [Case(id, Missing, "CLOSED", "base", {"replay"}) EXCEPT !.shared = "base"],
    Case(id, Missing, "CLOSED", Missing, {}) }
  \union {Replayed(id, source) : source \in {"base", "ambiguous", "unparsed", "named", "selfnamed"}}

MCIds == {1, 2}

AnyDirectory == UNION {Directories(id) : id \in 1 .. 3} \union {Unreadable}

Plain(id) == Case(id, "base", "CLOSED", Missing, {})

MCSuites ==
  TupleOf(AnyDirectory, 2)
    \union {<<Plain(i), Plain(j), Plain(k)>> : i, j, k \in 1 .. 3}
    \union {<<Plain(1)>>, <<>>}
=============================================================================
