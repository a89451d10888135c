------------------------------ MODULE Bootstrap ------------------------------
(***************************************************************************)
(* compiler.Bootstrap: three generations of parsers read one grammar       *)
(* source, each tree is lowered, and the digests and diagnostics of the    *)
(* three are reduced to one decision with a terminal record.               *)
(*                                                                         *)
(* What a parser returns and how a tree is lowered are parameters, so that *)
(* the pipeline is checked both for the committed parsers and for a build  *)
(* in which the generated parsers have been replaced by any other.  Of the *)
(* diagnostics only the classes are kept: HasClass and the highest reason  *)
(* look at nothing else.                                                   *)
(***************************************************************************)
EXTENDS Naturals, Sequences

CONSTANTS
  Sources,          \* the grammar sources
  NoTree,           \* a parse that returned an error, or none yet
  NoIR,             \* no semantic IR yet
  NoTerminal,       \* no terminal record yet
  Outcomes(_, _),   \* what the parser of a generation may return on a source
  Lowered(_),       \* what lowering.Lower returns for a tree
  TreeDigest(_),    \* model.SyntaxTreeDigest
  IRDigest(_),      \* model.GrammarDigest
  TerminalDigest(_) \* model.TerminalDigest

Generations == 0 .. 2

\* The diagnostic classes that refute, the strongest reason first.
RefutingOrder ==
  << "conflicting-precedence", "forbidden-stage-escape", "forbidden-effect",
     "invalid-grammar" >>

Refuting == {RefutingOrder[i] : i \in DOMAIN RefutingOrder}

Classes == Refuting \union {"ambiguous-grammar", "evidence-incomplete"}

ASSUME LoweredAssumption ==
  \A s \in Sources : \A g \in Generations : \A t \in Outcomes(g, s) \ {NoTree} :
    /\ Lowered(t).ok \in BOOLEAN
    /\ Lowered(t).ir # NoIR
    /\ Lowered(t).classes \subseteq Classes \ {"evidence-incomplete"}

VARIABLES
  source,        \* the bytes being bootstrapped
  pc,            \* "parse", "lower", "decide" or "done"
  gen,           \* the generation being parsed or lowered
  tree,          \* tree of each generation
  ir,            \* semantic IR of each generation
  classes,       \* classes of the diagnostics appended so far
  records,       \* Result.Generations
  artifact,      \* the IR each of the two parser artifacts is rendered from
  decision,      \* Result.Decision, OPEN until it is set
  terminal,      \* Result.Terminal
  digest         \* Result.TerminalDigest

vars == <<source, pc, gen, tree, ir, classes, records, artifact, decision,
          terminal, digest>>

Init ==
  /\ source \in Sources
  /\ pc = "parse"
  /\ gen = 0
  /\ tree = [g \in Generations |-> NoTree]
  /\ ir = [g \in Generations |-> NoIR]
  /\ classes = {}
  /\ records = <<>>
  /\ artifact = [n \in {1, 2} |-> NoIR]
  /\ decision = "OPEN"
  /\ terminal = NoTerminal
  /\ digest = NoTerminal

-----------------------------------------------------------------------------
(* Terminal records.                                                       *)

Terminal(d, stage, step, reason, unknown, next, blocked) ==
  [decision |-> d, stage |-> stage, step |-> step, reason |-> reason,
   unknownClass |-> unknown, nextOperation |-> next, blockedBy |-> blocked]

closedTerminal ==
  Terminal("CLOSED", "compare", "generation-equivalence", "SEMANTIC_IR_CANONICAL", "", "", "")

StageName(g) == CASE g = 0 -> "stage0" [] g = 1 -> "stage1" [] g = 2 -> "stage2"

\* A terminalFor that knows one of the two refuting reasons only.
terminalForSyntaxOnly(stage, step, reason, blocked) ==
  IF reason = "SEED_SYNTAX_INVALID"
  THEN Terminal("REFUTED", stage, step, reason, "", "", blocked)
  ELSE Terminal("UNKNOWN", stage, step, reason,
                "evidence-incomplete", "inspect generation evidence", blocked)

\* The record of a failure takes its decision from the reason it is given.
terminalFor(stage, step, reason, blocked) ==
  IF reason \in {"SEED_SYNTAX_INVALID", "SEMANTIC_LOWERING_INVALID"}
  THEN Terminal("REFUTED", stage, step, reason, "", "", blocked)
  ELSE Terminal("UNKNOWN", stage, step, reason,
                "evidence-incomplete", "inspect generation evidence", blocked)

stampTerminalDigest(rs, d) == [i \in DOMAIN rs |-> [rs[i] EXCEPT !.terminal = d]]

-----------------------------------------------------------------------------
(* The returns.  Each sets decision, terminal, digest and stamps by itself.  *)

\* Bootstrap returns: what has been parsed, lowered and rendered stays.
Return == pc' = "done" /\ UNCHANGED <<source, gen, tree, ir, artifact>>

refutedResult(record) ==
  /\ decision' = "REFUTED"
  /\ terminal' = record
  /\ digest' = TerminalDigest(record)
  /\ classes' = classes \union {"invalid-grammar"}
  /\ records' = stampTerminalDigest(records, digest')
  /\ Return

\* An early return that leaves the generation records without their stamp.
unknownResultUnstamped(record) ==
  /\ decision' = "UNKNOWN"
  /\ terminal' = record
  /\ digest' = TerminalDigest(record)
  /\ classes' = classes \union {"evidence-incomplete"}
  /\ UNCHANGED records
  /\ Return

\* An early return that fills in a new Result and loses the generation records.
unknownResultAfresh(record) ==
  /\ decision' = "UNKNOWN"
  /\ terminal' = record
  /\ digest' = TerminalDigest(record)
  /\ classes' = {"evidence-incomplete"}
  /\ records' = <<>>
  /\ Return

unknownResult(record) ==
  /\ decision' = "UNKNOWN"
  /\ terminal' = record
  /\ digest' = TerminalDigest(record)
  /\ classes' = classes \union {"evidence-incomplete"}
  /\ records' = stampTerminalDigest(records, digest')
  /\ Return

-----------------------------------------------------------------------------
(* The decision.                                                           *)

\* highestDiagnosticReason: the strongest refuting class that was diagnosed.
highestDiagnosticReason(cs) ==
  RefutingOrder[CHOOSE i \in DOMAIN RefutingOrder :
                  /\ RefutingOrder[i] \in cs
                  /\ \A j \in 1 .. i - 1 : RefutingOrder[j] \notin cs]

\* A comparison that looks at the first two generations only.
DriftedEarly(rs, irs) ==
  \/ Len(rs) # 3
  \/ rs[1].syntaxTree # rs[2].syntaxTree
  \/ IRDigest(irs[0]) # IRDigest(irs[1])

Drifted(rs, irs) ==
  \/ Len(rs) # 3
  \/ rs[1].syntaxTree # rs[2].syntaxTree
  \/ rs[2].syntaxTree # rs[3].syntaxTree
  \/ IRDigest(irs[0]) # IRDigest(irs[1])
  \/ IRDigest(irs[1]) # IRDigest(irs[2])

violated(cs) ==
  << "REFUTED", Terminal("REFUTED", "compare", "contract-policy", highestDiagnosticReason(cs),
                         "", "", "") >>

ambiguous ==
  << "UNKNOWN", Terminal("UNKNOWN", "lower", "ambiguity-analysis", "AMBIGUITY_NOT_DECIDABLE",
                         "grammar-ambiguity",
                         "supply explicit disambiguation or bounded witness",
                         "duplicate-productions-have-multiple-derivations") >>

drifted ==
  << "REFUTED", Terminal("REFUTED", "compare", "generation-equivalence", "GENERATION_DRIFT",
                         "", "", "stage-digests-differ") >>

\* A decision that asks about ambiguity before it asks about violations.
decideAmbiguityFirst(cs, rs, irs) ==
  IF "ambiguous-grammar" \in cs THEN ambiguous
  ELSE IF cs \intersect Refuting # {} THEN violated(cs)
  ELSE IF Drifted(rs, irs) THEN drifted
  ELSE << "CLOSED", closedTerminal >>

\* The decision and, apart from it, the terminal record.
decide(cs, rs, irs) ==
  IF cs \intersect Refuting # {} THEN violated(cs)
  ELSE IF "ambiguous-grammar" \in cs THEN ambiguous
  ELSE IF Drifted(rs, irs) THEN drifted
  ELSE << "CLOSED", closedTerminal >>

-----------------------------------------------------------------------------
(* The steps of Bootstrap.                                                 *)

\* A parse whose tree is always stored as the seed's.
ParseOverSeed ==
  /\ pc = "parse"
  /\ \E t \in Outcomes(gen, source) \ {NoTree} : tree' = [tree EXCEPT ![0] = t, ![gen] = t]
  /\ pc' = "lower"
  /\ UNCHANGED <<source, gen, ir, classes, records, artifact, decision, terminal, digest>>

\* stage0.Parse, generated.ParseStage1 or generated.ParseStage2 returns a tree.
Parse ==
  /\ pc = "parse"
  /\ \E t \in Outcomes(gen, source) \ {NoTree} : tree' = [tree EXCEPT ![gen] = t]
  /\ pc' = "lower"
  /\ UNCHANGED <<source, gen, ir, classes, records, artifact, decision, terminal, digest>>

SeedParseFails ==
  /\ pc = "parse"
  /\ gen = 0
  /\ NoTree \in Outcomes(gen, source)
  /\ refutedResult(terminalFor("stage0", "seed-parse", "SEED_SYNTAX_INVALID", ""))

\* A failure of the seed parser handled like one of a generated parser.
AnyParseFails ==
  /\ pc = "parse"
  /\ NoTree \in Outcomes(gen, source)
  /\ unknownResult(terminalFor(StageName(gen), "generated-parse", "EVIDENCE_INCOMPLETE",
                                "generated-parser-cannot-parse"))

GeneratedParseFails ==
  /\ pc = "parse"
  /\ gen > 0
  /\ NoTree \in Outcomes(gen, source)
  /\ unknownResult(terminalFor(StageName(gen), "generated-parse", "EVIDENCE_INCOMPLETE",
                                "generated-parser-cannot-parse"))

\* Both artifacts rendered from the seed's IR.
RenderedFromSeed(irs) == [n \in {1, 2} |-> irs[0]]

\* RenderParser: lowering the stage1 tree completes both parser artifacts, the
\* stage1 one rendered from IR0 and the stage2 one from IR1.
Rendered(irs) == [n \in {1, 2} |-> irs[n - 1]]

Lower ==
  /\ pc = "lower"
  /\ Lowered(tree[gen]).ok
  /\ ir' = [ir EXCEPT ![gen] = Lowered(tree[gen]).ir]
  /\ classes' = classes \union Lowered(tree[gen]).classes
  /\ records' = Append(records, [generation |-> StageName(gen),
                                 syntaxTree |-> TreeDigest(tree[gen]),
                                 semanticIR |-> IRDigest(ir'[gen]),
                                 terminal |-> NoTerminal])
  /\ artifact' = IF gen = 1 THEN Rendered(ir') ELSE artifact
  /\ pc' = IF gen = 2 THEN "decide" ELSE "parse"
  /\ gen' = IF gen = 2 THEN gen ELSE gen + 1
  /\ UNCHANGED <<source, tree, decision, terminal, digest>>

SeedLoweringFails ==
  /\ pc = "lower"
  /\ gen = 0
  /\ ~Lowered(tree[gen]).ok
  /\ refutedResult(terminalFor("stage0", "lower", "SEMANTIC_LOWERING_INVALID", ""))

\* A generation that does not lower is parsed again.
GeneratedLoweringRetried ==
  /\ pc = "lower"
  /\ gen > 0
  /\ ~Lowered(tree[gen]).ok
  /\ classes' = classes \union {"evidence-incomplete"}
  /\ pc' = "parse"
  /\ UNCHANGED <<source, gen, tree, ir, records, artifact, decision, terminal, digest>>

GeneratedLoweringFails ==
  /\ pc = "lower"
  /\ gen > 0
  /\ ~Lowered(tree[gen]).ok
  /\ unknownResult(terminalFor(StageName(gen), "lower", "EVIDENCE_INCOMPLETE",
                                "lowering-failed"))

Decide ==
  /\ pc = "decide"
  /\ LET answer == decide(classes, records, ir)
     IN  /\ decision' = answer[1]
         /\ terminal' = answer[2]
         /\ digest' = TerminalDigest(answer[2])
         /\ records' = stampTerminalDigest(records, digest')
  /\ UNCHANGED classes
  /\ Return

\* Bootstrap has returned.
Returned == pc = "done" /\ UNCHANGED vars

Step ==
  \/ Parse \/ SeedParseFails \/ GeneratedParseFails
  \/ Lower \/ SeedLoweringFails \/ GeneratedLoweringFails
  \/ Decide

Next == Step \/ Returned

Spec == Init /\ [][Next]_vars

\* Bootstrap is one function call on one goroutine: it runs until it returns.
FairSpec == Spec /\ WF_vars(Step)

-----------------------------------------------------------------------------
(* Properties.                                                             *)

Trees(g) == Outcomes(g, source) \ {NoTree}

Done == pc = "done"

Possible == UNION {Trees(g) : g \in Generations}

RecordType ==
  [generation : {StageName(g) : g \in Generations},
   syntaxTree : {TreeDigest(t) : t \in Possible},
   semanticIR : {IRDigest(Lowered(t).ir) : t \in Possible},
   terminal   : {NoTerminal, digest}]

\* Type invariant.
TypeOK ==
  /\ source \in Sources
  /\ pc \in {"parse", "lower", "decide", "done"}
  /\ gen \in Generations
  /\ DOMAIN tree = Generations /\ DOMAIN ir = Generations
  /\ \A g \in Generations : tree[g] \in Trees(g) \union {NoTree}
  /\ classes \subseteq Classes
  /\ DOMAIN artifact = {1, 2}
  /\ records \in Seq(RecordType)
  /\ decision \in {"OPEN", "CLOSED", "UNKNOWN", "REFUTED"}

\* Where the pipeline stands: the first Len(records) generations are parsed, lowered
\* and recorded with the digests of their own tree and IR, their diagnostics are all
\* kept, and the artifacts exist from the second generation on.
PipelineSound ==
  /\ Len(records) <= 3
  /\ \A g \in Generations : g < Len(records) =>
       /\ tree[g] \in Trees(g)
       /\ Lowered(tree[g]).ok
       /\ ir[g] = Lowered(tree[g]).ir
       /\ Lowered(tree[g]).classes \subseteq classes
       /\ records[g + 1].syntaxTree = TreeDigest(tree[g])
       /\ records[g + 1].semanticIR = IRDigest(ir[g])
       /\ ~Done => records[g + 1].terminal = NoTerminal
  /\ pc \in {"parse", "lower"} => Len(records) = gen
  /\ pc = "lower" => tree[gen] \in Trees(gen)
  /\ pc = "decide" => Len(records) = 3
  /\ Len(records) >= 2 => \A n \in {1, 2} : artifact[n] = ir[n - 1]

\* Receipts tell what happened, whichever return was taken: decision, terminal
\* record, digest and the stamp on every generation record belong to one another,
\* and when generations are missing, the terminal names the first that has no
\* record and whether it was parsed or not; the seed's failure refutes, that of a
\* generated parser leaves open (compiler.go:58-96).
ReceiptsAgree ==
  Done =>
    /\ decision = terminal.decision
    /\ digest = TerminalDigest(terminal)
    /\ \A i \in DOMAIN records : records[i].terminal = digest
    /\ Len(records) < 3 =>
         /\ terminal.stage = StageName(Len(records))
         /\ terminal.step = "lower" <=> tree[Len(records)] # NoTree
         /\ decision = IF records = <<>> THEN "REFUTED" ELSE "UNKNOWN"

\* What a conclusion rests on: none is drawn before the end, and CLOSED only from
\* three records without drift and without a diagnostic.
ConclusionSound ==
  /\ ~Done => decision = "OPEN" /\ terminal = NoTerminal /\ digest = NoTerminal
  /\ decision = "CLOSED" =>
       Len(records) = 3 /\ classes \subseteq {"evidence-incomplete"} /\ ~Drifted(records, ir)

BootstrapInvariant == TypeOK /\ PipelineSound /\ ConclusionSound

\* CLOSED is earned: all three generations parsed and lowered the source, their
\* trees and IRs agree pairwise, none of the three lowerings diagnosed anything
\* that refutes or leaves open, and both artifacts were rendered, each from the IR
\* of the generation before it (contract-v1.md, generation boundary 1-5).
ClosedIsEarned ==
  decision = "CLOSED" =>
    /\ \A g \in Generations :
         /\ tree[g] \in Trees(g)
         /\ Lowered(tree[g]).ok
         /\ Lowered(tree[g]).classes = {}
    /\ \A g, h \in Generations :
         /\ TreeDigest(tree[g]) = TreeDigest(tree[h])
         /\ IRDigest(Lowered(tree[g]).ir) = IRDigest(Lowered(tree[h]).ir)
    /\ \A n \in {1, 2} : artifact[n] = Lowered(tree[n - 1]).ir

\* An UNKNOWN is accountable: its terminal names stage, step, reason, class, next
\* operation and blocker, and no other decision claims an unknown class or asks
\* for a next operation (contract-v1.md, decision lattice).
UnknownIsAccountable ==
  Done =>
    /\ decision = "UNKNOWN" => \A f \in DOMAIN terminal : terminal[f] # ""
    /\ decision # "UNKNOWN" => terminal.unknownClass = "" /\ terminal.nextOperation = ""

KeepsReceipts ==
  /\ classes \subseteq classes'
  /\ Len(records) <= Len(records')
  /\ \A i \in DOMAIN records :
       /\ records'[i].syntaxTree = records[i].syntaxTree
       /\ records'[i].semanticIR = records[i].semanticIR
       /\ records[i].terminal \in {NoTerminal, records'[i].terminal}

\* A generation record is a receipt: no step drops one or changes its digests, and
\* its stamp is set once; a diagnostic class is never withdrawn.
ReceiptsAreKept == [][KeepsReceipts]_vars

\* The call returns a decision.
Returns == <>Done

-----------------------------------------------------------------------------
(* The decision lattice.                                                   *)

\* What the records and diagnostics gathered so far call for.  Two records with
\* different digests are drift, whatever else has been found.
DriftRecorded ==
  \E i, j \in DOMAIN records :
    \/ records[i].syntaxTree # records[j].syntaxTree
    \/ records[i].semanticIR # records[j].semanticIR

Evidence ==
       {v \in {"REFUTED"} : classes \intersect Refuting # {} \/ DriftRecorded}
  \union
       {v \in {"UNKNOWN"} : classes \ Refuting # {}}
  \union
       {v \in {"CLOSED"} : Len(records) = 3}

Lattice == INSTANCE Verdict WITH evidence <- Evidence, verdict <- decision

\* The bootstrap reduces its evidence in the order REFUTED > UNKNOWN > CLOSED, and
\* evidence once gathered is not forgotten (contract-v1.md, decision lattice).
ReducesEvidence == Lattice!Spec

\* No false alarm: a result blames the machinery, as incomplete or as drifted, only
\* if a generated parser that was called has returned another tree than the seed, or
\* none, whatever parsers the build holds (compiler.go:70-96, 153-155).
AlarmIsEarned ==
  Done /\ terminal.reason \in {"EVIDENCE_INCOMPLETE", "GENERATION_DRIFT"} =>
    \E g \in 1 .. gen : tree[g] # tree[0]

\* The generated parsers answer like the seed on every source that it accepts.
CommittedBuild ==
  \A s \in Sources : \A t \in Outcomes(0, s) \ {NoTree} :
    Outcomes(1, s) = {t} /\ Outcomes(2, s) = {t}

\* A decision never comes from the machinery: a source that the seed lowers is
\* neither left incomplete nor reported as drifted.  (True of a committed build.)
OnlyTheGrammarDecides ==
  Done => terminal.reason \notin {"EVIDENCE_INCOMPLETE", "GENERATION_DRIFT"}

\* The decision is the worst verdict its evidence calls for.  (contract-v1.md:
\* "`REFUTED > UNKNOWN > CLOSED` is the only reduction order", "Drift is REFUTED".)
WorstEvidenceDecides == Done => decision = Lattice!Worst(Evidence)
=============================================================================
