----------------------------- MODULE MCBootstrap -----------------------------
(* Bootstrap on opaque trees: a tree is what lowering makes of it, and a     *)
(* source is named by what the seed parser returns for it.                   *)
EXTENDS Bootstrap

IRs == {"ir1", "ir2"}

Findings ==
  { {}, {"ambiguous-grammar"}, {"conflicting-precedence"},
    {"forbidden-effect", "ambiguous-grammar"},
    {"forbidden-stage-escape", "invalid-grammar"} }

\* The line layout of a tree is no part of its digest.
MCTrees ==
  [layout : {"dense", "spread"}, ok : {TRUE}, ir : IRs, classes : Findings]
    \union [layout : {"dense"}, ok : {FALSE}, ir : {"ir1"}, classes : {{}}]

SomeSources ==
  {NoTree} \union {t \in MCTrees : t.layout = "dense" /\ t.ir = "ir1"}

\* A build whose generated parsers have been replaced: they may return anything.
ReplacedOutcomes(g, s) == IF g = 0 THEN {s} ELSE MCTrees \union {NoTree}

MCLowered(t) == [ok |-> t.ok, ir |-> t.ir, classes |-> t.classes]

MCTreeDigest(t) == <<"tree", t.ok, t.ir, t.classes>>

MCIRDigest(i) == <<"ir", i>>

MCTerminalDigest(r) == <<"terminal", r>>
=============================================================================
