--------------------------- MODULE BootstrapProofs ---------------------------
(***************************************************************************)
(* Proofs about Bootstrap, for all sources, parsers, lowerings and digests *)
(* that meet LoweredAssumption.                                            *)
(***************************************************************************)
EXTENDS Bootstrap, SequenceTheorems, TLAPS

\* A tree that has been returned lowers to a typed result.
LEMMA LoweredTyped ==
  ASSUME source \in Sources, NEW g \in Generations, NEW t \in Trees(g)
  PROVE  /\ Lowered(t).ok \in BOOLEAN
         /\ Lowered(t).ir # NoIR
         /\ Lowered(t).classes \subseteq Classes \ {"evidence-incomplete"}
         /\ t \in Possible
BY LoweredAssumption DEF Trees, Possible

\* Stamping keeps the number of records and every digest in them.
LEMMA StampShape ==
  ASSUME records \in Seq(RecordType), NEW d
  PROVE  /\ Len(stampTerminalDigest(records, d)) = Len(records)
         /\ DOMAIN stampTerminalDigest(records, d) = 1 .. Len(records)
         /\ \A i \in 1 .. Len(records) :
              /\ stampTerminalDigest(records, d)[i].syntaxTree = records[i].syntaxTree
              /\ stampTerminalDigest(records, d)[i].semanticIR = records[i].semanticIR
              /\ stampTerminalDigest(records, d)[i].terminal = d
<1> DEFINE s == stampTerminalDigest(records, d)
<1>1. Len(records) \in Nat /\ DOMAIN records = 1 .. Len(records)
  OBVIOUS
<1>2. s = [i \in 1 .. Len(records) |-> [records[i] EXCEPT !.terminal = d]]
  BY <1>1 DEF stampTerminalDigest
<1>3. \A i \in 1 .. Len(records) : records[i] \in RecordType
  OBVIOUS
<1>4. \A i \in 1 .. Len(records) :
        /\ s[i].syntaxTree = records[i].syntaxTree
        /\ s[i].semanticIR = records[i].semanticIR
        /\ s[i].terminal = d
  BY <1>2, <1>3 DEF RecordType
<1>5. Len(s) = Len(records)
  BY <1>1, <1>2
<1> QED
  BY <1>1, <1>2, <1>4, <1>5

\* What the three returns of Bootstrap have in common, each with a decision and a
\* terminal record of its own.
Concludes(d, record) ==
  /\ decision' = d
  /\ terminal' = record
  /\ digest' = TerminalDigest(record)
  /\ records' = stampTerminalDigest(records, TerminalDigest(record))
  /\ pc' = "done"
  /\ UNCHANGED <<source, gen, tree, ir, artifact>>

\* What decide answers, as its two results.
Answer == decide(classes, records, ir)

LEMMA RefutedConcludes ==
  ASSUME NEW record, refutedResult(record)
  PROVE  Concludes("REFUTED", record) /\ classes' = classes \union {"invalid-grammar"}
BY DEF refutedResult, Concludes, Return

LEMMA UnknownConcludes ==
  ASSUME NEW record, unknownResult(record)
  PROVE  Concludes("UNKNOWN", record) /\ classes' = classes \union {"evidence-incomplete"}
BY DEF unknownResult, Concludes, Return

LEMMA DecideConcludes ==
  ASSUME Decide
  PROVE  Concludes(Answer[1], Answer[2]) /\ classes' = classes /\ pc = "decide"
BY DEF Decide, Concludes, Return, Answer

\* The terminal that each failing step fills in.
LEMMA FailureConcludes ==
  /\ SeedParseFails =>
       /\ pc = "parse" /\ gen = 0 /\ classes' = classes \union {"invalid-grammar"}
       /\ Concludes("REFUTED", Terminal("REFUTED", "stage0", "seed-parse",
                                       "SEED_SYNTAX_INVALID", "", "", ""))
  /\ SeedLoweringFails =>
       /\ pc = "lower" /\ gen = 0 /\ classes' = classes \union {"invalid-grammar"}
       /\ Concludes("REFUTED", Terminal("REFUTED", "stage0", "lower",
                                       "SEMANTIC_LOWERING_INVALID", "", "", ""))
  /\ GeneratedParseFails =>
       /\ pc = "parse" /\ gen > 0 /\ classes' = classes \union {"evidence-incomplete"}
       /\ Concludes("UNKNOWN", Terminal("UNKNOWN", StageName(gen), "generated-parse",
                                       "EVIDENCE_INCOMPLETE", "evidence-incomplete",
                                       "inspect generation evidence",
                                       "generated-parser-cannot-parse"))
  /\ GeneratedLoweringFails =>
       /\ pc = "lower" /\ gen > 0 /\ classes' = classes \union {"evidence-incomplete"}
       /\ Concludes("UNKNOWN", Terminal("UNKNOWN", StageName(gen), "lower",
                                       "EVIDENCE_INCOMPLETE", "evidence-incomplete",
                                       "inspect generation evidence", "lowering-failed"))
<1>1. \A stage, step, blocked :
        /\ terminalFor(stage, step, "SEED_SYNTAX_INVALID", blocked)
             = Terminal("REFUTED", stage, step, "SEED_SYNTAX_INVALID", "", "", blocked)
        /\ terminalFor(stage, step, "SEMANTIC_LOWERING_INVALID", blocked)
             = Terminal("REFUTED", stage, step, "SEMANTIC_LOWERING_INVALID", "", "", blocked)
        /\ terminalFor(stage, step, "EVIDENCE_INCOMPLETE", blocked)
             = Terminal("UNKNOWN", stage, step, "EVIDENCE_INCOMPLETE", "evidence-incomplete",
                        "inspect generation evidence", blocked)
  BY DEF terminalFor
<1>2. SeedParseFails =>
        refutedResult(terminalFor("stage0", "seed-parse", "SEED_SYNTAX_INVALID", ""))
  BY DEF SeedParseFails
<1>3. SeedLoweringFails =>
        refutedResult(terminalFor("stage0", "lower", "SEMANTIC_LOWERING_INVALID", ""))
  BY DEF SeedLoweringFails
<1>4. GeneratedParseFails =>
        unknownResult(terminalFor(StageName(gen), "generated-parse", "EVIDENCE_INCOMPLETE",
                                  "generated-parser-cannot-parse"))
  BY DEF GeneratedParseFails
<1>5. GeneratedLoweringFails =>
        unknownResult(terminalFor(StageName(gen), "lower", "EVIDENCE_INCOMPLETE",
                                  "lowering-failed"))
  BY DEF GeneratedLoweringFails
<1>6. /\ SeedParseFails => pc = "parse" /\ gen = 0
      /\ SeedLoweringFails => pc = "lower" /\ gen = 0
      /\ GeneratedParseFails => pc = "parse" /\ gen > 0
      /\ GeneratedLoweringFails => pc = "lower" /\ gen > 0
  BY DEF SeedParseFails, SeedLoweringFails, GeneratedParseFails, GeneratedLoweringFails
<1> QED
  BY <1>1, <1>2, <1>3, <1>4, <1>5, <1>6, RefutedConcludes, UnknownConcludes

\* A record sequence that has been stamped has the type of the next state.
LEMMA StampTyped ==
  ASSUME records \in Seq(RecordType), NEW d, NEW record, Concludes(d, record)
  PROVE  records' \in Seq(RecordType')
<1>1. Len(records) \in Nat /\ DOMAIN records = 1 .. Len(records)
  OBVIOUS
<1>2. digest' = TerminalDigest(record) /\ source' = source
      /\ records' = stampTerminalDigest(records, TerminalDigest(record))
  BY DEF Concludes
<1>3. records' = [i \in 1 .. Len(records) |->
                    [records[i] EXCEPT !.terminal = TerminalDigest(record)]]
  BY <1>1, <1>2 DEF stampTerminalDigest
<1>4. Possible' = Possible
  BY <1>2 DEF Possible, Trees
<1>5. \A i \in 1 .. Len(records) : records[i] \in RecordType
  OBVIOUS
<1>6. \A i \in 1 .. Len(records) :
        [records[i] EXCEPT !.terminal = TerminalDigest(record)] \in RecordType'
  BY <1>2, <1>4, <1>5 DEF RecordType
<1> QED
  BY <1>1, <1>3, <1>6

-----------------------------------------------------------------------------
(* The initial state.                                                      *)

\* Nothing is recorded or decided at the start.
LEMMA BootstrapInit == Init => BootstrapInvariant
<1> SUFFICES ASSUME Init PROVE BootstrapInvariant
  OBVIOUS
<1>1. records = <<>> /\ Len(records) = 0 /\ records \in Seq(RecordType)
  BY DEF Init
<1>2. TypeOK
  BY <1>1 DEF Init, TypeOK, Generations, Trees
<1>3. PipelineSound
  BY <1>1 DEF Init, PipelineSound, Generations
<1>4. ConclusionSound
  BY DEF Init, ConclusionSound, Done
<1> QED
  BY <1>2, <1>3, <1>4 DEF BootstrapInvariant

-----------------------------------------------------------------------------
(* Every conclusion is sound when what it rests on is.                     *)

\* A conclusion keeps the invariant when it diagnoses within the classes and claims
\* CLOSED only at the end and without drift.
LEMMA ConcludeSound ==
  ASSUME BootstrapInvariant, pc # "done",
         NEW d \in {"CLOSED", "UNKNOWN", "REFUTED"}, NEW record, Concludes(d, record),
         classes \subseteq classes', classes' \subseteq Classes,
         d = "CLOSED" =>
           /\ pc = "decide" /\ classes' \subseteq {"evidence-incomplete"}
           /\ ~Drifted(records, ir)
  PROVE  BootstrapInvariant'
<1> USE DEF BootstrapInvariant
<1>1. /\ UNCHANGED <<source, gen, tree, ir, artifact>>
      /\ pc' = "done" /\ Done'
      /\ decision' = d
      /\ terminal' = record
      /\ digest' = TerminalDigest(record)
      /\ records' = stampTerminalDigest(records, TerminalDigest(record))
  BY DEF Concludes, Done
<1>2. records \in Seq(RecordType) /\ Len(records) \in Nat
  BY DEF TypeOK
<1>3. /\ Len(records') = Len(records)
      /\ DOMAIN records' = 1 .. Len(records)
      /\ \A i \in 1 .. Len(records) :
           /\ records'[i].syntaxTree = records[i].syntaxTree
           /\ records'[i].semanticIR = records[i].semanticIR
           /\ records'[i].terminal = digest'
  <2> DEFINE s == stampTerminalDigest(records, TerminalDigest(record))
  <2>1. /\ Len(s) = Len(records) /\ DOMAIN s = 1 .. Len(records)
        /\ \A i \in 1 .. Len(records) :
             /\ s[i].syntaxTree = records[i].syntaxTree
             /\ s[i].semanticIR = records[i].semanticIR
             /\ s[i].terminal = TerminalDigest(record)
    BY <1>2, StampShape
  <2> HIDE DEF s
  <2>2. records' = s
    BY <1>1 DEF s
  <2> QED
    BY <1>1, <2>1, <2>2
<1>4. TypeOK'
  <2>1. records' \in Seq(RecordType')
    BY <1>2, StampTyped
  <2>2. \A g \in Generations : Trees(g)' = Trees(g)
    BY <1>1 DEF Trees
  <2> QED
    BY <1>1, <2>1, <2>2 DEF TypeOK
<1>5. PipelineSound'
  <2>1. \A g \in Generations : g < Len(records) => g + 1 \in 1 .. Len(records)
    BY <1>2 DEF Generations
  <2>2. \A g \in Generations : Trees(g)' = Trees(g)
    BY <1>1 DEF Trees
  <2> QED
    BY <1>1, <1>2, <1>3, <2>1, <2>2 DEF PipelineSound
<1>6. ConclusionSound'
  <2>1. decision' = "CLOSED" => /\ Len(records') = 3
                                /\ classes' \subseteq {"evidence-incomplete"}
                                /\ ~Drifted(records', ir')
    <3> SUFFICES ASSUME decision' = "CLOSED"
                 PROVE  /\ Len(records') = 3
                        /\ classes' \subseteq {"evidence-incomplete"}
                        /\ ~Drifted(records', ir')
      OBVIOUS
    <3>1. Len(records) = 3 /\ ~Drifted(records, ir)
      BY <1>1 DEF PipelineSound
    <3>2. \A i \in 1 .. 3 : records'[i].syntaxTree = records[i].syntaxTree
      BY <1>3, <3>1
    <3>3. ~Drifted(records', ir')
      BY <1>1, <1>3, <3>1, <3>2 DEF Drifted
    <3> QED
      BY <1>1, <1>3, <3>1, <3>3
  <2> QED
    BY <1>1, <2>1 DEF ConclusionSound
<1> QED
  BY <1>4, <1>5, <1>6

\* What decide answers, by the first condition that holds.
LEMMA DecideShape ==
  ASSUME NEW cs \in SUBSET Classes, NEW rs, NEW irs
  PROVE  /\ decide(cs, rs, irs)[1] \in {"CLOSED", "UNKNOWN", "REFUTED"}
         /\ decide(cs, rs, irs)[1] = "CLOSED" =>
              cs \subseteq {"evidence-incomplete"} /\ ~Drifted(rs, irs)
         /\ decide(cs, rs, irs)[2].decision = decide(cs, rs, irs)[1]
BY DEF decide, violated, ambiguous, drifted, Terminal, closedTerminal, Classes

\* So it is with the answer to the classes and records at hand.
LEMMA AnswerShape ==
  ASSUME classes \in SUBSET Classes
  PROVE  /\ Answer[1] \in {"CLOSED", "UNKNOWN", "REFUTED"}
         /\ Answer[1] = "CLOSED" =>
              classes \subseteq {"evidence-incomplete"} /\ ~Drifted(records, ir)
         /\ Answer[2].decision = Answer[1]
BY DecideShape DEF Answer

-----------------------------------------------------------------------------
(* Every step preserves the invariant.                                     *)

\* A returned tree is kept for lowering and disturbs no record.
LEMMA ParseSound ==
  ASSUME BootstrapInvariant, Parse
  PROVE  BootstrapInvariant'
<1> USE DEF BootstrapInvariant
<1>1. PICK t \in Trees(gen) : tree' = [tree EXCEPT ![gen] = t]
  BY DEF Parse, Trees
<1>2. /\ UNCHANGED <<source, gen, ir, classes, records, artifact, decision, terminal, digest>>
      /\ pc = "parse" /\ pc' = "lower" /\ gen \in Generations
      /\ Done' = FALSE /\ Done = FALSE
  BY DEF Parse, TypeOK, Done
<1>3. \A g \in Generations : Trees(g)' = Trees(g)
  BY <1>2 DEF Trees
<1>4. RecordType' = RecordType
  BY <1>2, <1>3 DEF RecordType, Possible
<1>5. \A g \in Generations : tree'[g] = IF g = gen THEN t ELSE tree[g]
  BY <1>1 DEF TypeOK
<1>6. TypeOK'
  BY <1>1, <1>2, <1>3, <1>4, <1>5 DEF TypeOK
<1>7. PipelineSound'
  <2>1. Len(records) = gen /\ gen \in Nat
    BY <1>2 DEF PipelineSound, Generations
  <2>2. \A g \in Generations : g < Len(records) => tree'[g] = tree[g]
    BY <1>5, <2>1
  <2>3. tree'[gen] \in Trees(gen)
    BY <1>2, <1>5
  <2> QED
    BY <1>2, <1>3, <2>1, <2>2, <2>3 DEF PipelineSound
<1>8. ConclusionSound'
  BY <1>2 DEF ConclusionSound
<1> QED
  BY <1>6, <1>7, <1>8

\* Lowering appends the record of the generation at hand, and with the second one
\* the two artifacts.
LEMMA LowerSound ==
  ASSUME BootstrapInvariant, Lower
  PROVE  BootstrapInvariant'
<1> USE DEF BootstrapInvariant
<1> DEFINE r == [generation |-> StageName(gen), syntaxTree |-> TreeDigest(tree[gen]),
                 semanticIR |-> IRDigest(ir'[gen]), terminal |-> NoTerminal]
<1>1. /\ UNCHANGED <<source, tree, decision, terminal, digest>>
      /\ pc = "lower" /\ gen \in Generations
      /\ Lowered(tree[gen]).ok
      /\ ir' = [ir EXCEPT ![gen] = Lowered(tree[gen]).ir]
      /\ classes' = classes \union Lowered(tree[gen]).classes
      /\ records' = Append(records, r)
      /\ artifact' = IF gen = 1 THEN Rendered(ir') ELSE artifact
      /\ pc' = IF gen = 2 THEN "decide" ELSE "parse"
      /\ gen' = IF gen = 2 THEN gen ELSE gen + 1
  BY DEF Lower, TypeOK
<1>2. /\ Len(records) = gen /\ gen \in Nat
      /\ tree[gen] \in Trees(gen)
      /\ records \in Seq(RecordType)
      /\ source \in Sources
  BY <1>1 DEF PipelineSound, TypeOK, Generations
<1>3. /\ tree[gen] \in Possible
      /\ Lowered(tree[gen]).classes \subseteq Classes
  BY <1>1, <1>2, LoweredTyped
<1>4. \A g \in Generations : ir'[g] = IF g = gen THEN Lowered(tree[gen]).ir ELSE ir[g]
  BY <1>1 DEF TypeOK
<1>5. RecordType' = RecordType /\ \A g \in Generations : Trees(g)' = Trees(g)
  BY <1>1 DEF RecordType, Possible, Trees
<1>6. r \in RecordType
  <2>1. ir'[gen] = Lowered(tree[gen]).ir
    BY <1>1, <1>4
  <2> QED
    BY <1>1, <1>3, <2>1 DEF RecordType
<1>7. /\ records' \in Seq(RecordType)
      /\ Len(records') = gen + 1
      /\ \A i \in 1 .. gen : records'[i] = records[i]
      /\ records'[gen + 1] = r
  BY <1>1, <1>2, <1>6, AppendProperties
<1>8. Done' = FALSE /\ Done = FALSE
  BY <1>1 DEF Done
<1>9. TypeOK'
  <2>1. gen' \in Generations /\ pc' \in {"parse", "lower", "decide", "done"}
    BY <1>1 DEF Generations
  <2>2. DOMAIN ir' = Generations /\ DOMAIN artifact' = {1, 2}
    BY <1>1 DEF TypeOK, Rendered
  <2>3. classes' \subseteq Classes
    BY <1>1, <1>3 DEF TypeOK
  <2> QED
    BY <1>1, <1>5, <1>7, <2>1, <2>2, <2>3 DEF TypeOK
<1>10. PipelineSound'
  <2>1. Len(records') <= 3 /\ Len(records') = gen + 1
    BY <1>1, <1>7 DEF Generations
  <2>2. ASSUME NEW g \in Generations, g < gen
        PROVE  /\ tree'[g] \in Trees(g)'
               /\ Lowered(tree'[g]).ok
               /\ ir'[g] = Lowered(tree'[g]).ir
               /\ Lowered(tree'[g]).classes \subseteq classes'
               /\ records'[g + 1].syntaxTree = TreeDigest(tree'[g])
               /\ records'[g + 1].semanticIR = IRDigest(ir'[g])
               /\ records'[g + 1].terminal = NoTerminal
    <3>1. g < Len(records) /\ g # gen /\ g + 1 \in 1 .. gen
      BY <1>2, <2>2 DEF Generations
    <3>2. records'[g + 1] = records[g + 1] /\ ir'[g] = ir[g] /\ tree' = tree
      BY <1>1, <1>4, <1>7, <3>1
    <3> QED
      BY <1>1, <1>5, <1>8, <3>1, <3>2 DEF PipelineSound
  <2>3. ASSUME NEW g \in Generations, g = gen
        PROVE  /\ tree'[g] \in Trees(g)'
               /\ Lowered(tree'[g]).ok
               /\ ir'[g] = Lowered(tree'[g]).ir
               /\ Lowered(tree'[g]).classes \subseteq classes'
               /\ records'[g + 1].syntaxTree = TreeDigest(tree'[g])
               /\ records'[g + 1].semanticIR = IRDigest(ir'[g])
               /\ records'[g + 1].terminal = NoTerminal
    <3>1. tree' = tree /\ ir'[g] = Lowered(tree[g]).ir /\ tree[g] \in Trees(g)'
      BY <1>1, <1>2, <1>4, <1>5, <2>3
    <3>2. /\ r.syntaxTree = TreeDigest(tree[g])
          /\ r.semanticIR = IRDigest(ir'[g])
          /\ r.terminal = NoTerminal
      BY <2>3
    <3> HIDE DEF r
    <3> QED
      BY <1>1, <1>7, <2>3, <3>1, <3>2
  <2>4. \A g \in Generations : g < gen + 1 => g < gen \/ g = gen
    BY <1>1 DEF Generations
  <2>5. Len(records') >= 2 => \A n \in {1, 2} : artifact'[n] = ir'[n - 1]
    <3>1. CASE gen = 0
      BY <2>1, <3>1
    <3>2. CASE gen = 1
      BY <1>1, <3>2 DEF Rendered
    <3>3. CASE gen = 2
      <4>1. ir'[0] = ir[0] /\ ir'[1] = ir[1] /\ artifact' = artifact
        BY <1>1, <1>4, <3>3 DEF Generations
      <4>2. \A n \in {1, 2} : artifact[n] = ir[n - 1]
        BY <1>2, <3>3 DEF PipelineSound
      <4> QED
        BY <4>1, <4>2
    <3> QED
      BY <1>1, <3>1, <3>2, <3>3 DEF Generations
  <2>6. pc' \in {"parse", "lower"} => Len(records') = gen'
    BY <1>1, <2>1
  <2>7. (pc' = "decide" => Len(records') = 3) /\ pc' # "lower"
    BY <1>1, <2>1
  <2>8. \A g \in Generations : g < Len(records') =>
          /\ tree'[g] \in Trees(g)'
          /\ Lowered(tree'[g]).ok
          /\ ir'[g] = Lowered(tree'[g]).ir
          /\ Lowered(tree'[g]).classes \subseteq classes'
          /\ records'[g + 1].syntaxTree = TreeDigest(tree'[g])
          /\ records'[g + 1].semanticIR = IRDigest(ir'[g])
          /\ records'[g + 1].terminal = NoTerminal
    BY <2>1, <2>2, <2>3, <2>4
  <2> QED
    BY <1>8, <2>1, <2>5, <2>6, <2>7, <2>8 DEF PipelineSound
<1>11. ConclusionSound'
  BY <1>1, <1>8 DEF ConclusionSound
<1> QED
  BY <1>9, <1>10, <1>11

\* Each of the four failures concludes UNKNOWN or REFUTED.
LEMMA FailureSound ==
  ASSUME BootstrapInvariant,
         SeedParseFails \/ GeneratedParseFails \/ SeedLoweringFails \/ GeneratedLoweringFails
  PROVE  BootstrapInvariant'
<1>0. {"invalid-grammar", "evidence-incomplete"} \subseteq Classes
  <2>1. 4 \in DOMAIN RefutingOrder /\ RefutingOrder[4] = "invalid-grammar"
    BY DEF RefutingOrder
  <2> QED
    BY <2>1 DEF Classes, Refuting
<1>1. classes \subseteq Classes
  BY DEF BootstrapInvariant, TypeOK
<1>2. ASSUME NEW d \in {"UNKNOWN", "REFUTED"}, NEW record, Concludes(d, record), pc # "done",
             NEW c \in {"invalid-grammar", "evidence-incomplete"}, classes' = classes \union {c}
      PROVE  BootstrapInvariant'
  <2>1. classes \subseteq classes' /\ classes' \subseteq Classes
    BY <1>0, <1>1, <1>2
  <2> QED
    BY <1>2, <2>1, ConcludeSound
<1>3. CASE SeedParseFails \/ SeedLoweringFails
  BY <1>2, <1>3, FailureConcludes
<1>4. CASE GeneratedParseFails \/ GeneratedLoweringFails
  BY <1>2, <1>4, FailureConcludes
<1> QED
  BY <1>3, <1>4

\* The decision is taken on three records, and CLOSED when nothing stands against it.
LEMMA DecideSound ==
  ASSUME BootstrapInvariant, Decide
  PROVE  BootstrapInvariant'
<1>1. classes' = classes /\ classes \in SUBSET Classes /\ pc = "decide"
      /\ Concludes(Answer[1], Answer[2])
  BY DecideConcludes DEF BootstrapInvariant, TypeOK
<1>2. /\ Answer[1] \in {"CLOSED", "UNKNOWN", "REFUTED"}
      /\ Answer[1] = "CLOSED" =>
           classes \subseteq {"evidence-incomplete"} /\ ~Drifted(records, ir)
  BY <1>1, AnswerShape
<1> QED
  BY <1>1, <1>2, ConcludeSound

\* The invariant is inductive.
LEMMA BootstrapStep == BootstrapInvariant /\ [Next]_vars => BootstrapInvariant'
<1> SUFFICES ASSUME BootstrapInvariant, [Next]_vars PROVE BootstrapInvariant'
  OBVIOUS
<1>1. CASE UNCHANGED vars
  <2>1. UNCHANGED <<source, pc, gen, tree, ir, classes, records, artifact, decision,
                    terminal, digest>>
    BY <1>1 DEF vars
  <2>2. RecordType' = RecordType /\ \A g \in Generations : Trees(g)' = Trees(g)
    BY <2>1 DEF RecordType, Possible, Trees
  <2> QED
    BY <2>1, <2>2 DEF BootstrapInvariant, TypeOK, PipelineSound, ConclusionSound, Done
<1>2. CASE Returned
  BY <1>1, <1>2 DEF Returned
<1> QED
  BY <1>1, <1>2, ParseSound, LowerSound, FailureSound, DecideSound DEF Next, Step

-----------------------------------------------------------------------------
(* What follows from the invariant.                                        *)

\* The pipeline is sound at every step, for any generated parsers whatsoever.
THEOREM PipelineCorrect == Spec => []BootstrapInvariant
BY BootstrapInit, BootstrapStep, PTL DEF Spec

\* Types hold at every step.
THEOREM TypeCorrect == Spec => []TypeOK
<1>1. BootstrapInvariant => TypeOK
  BY DEF BootstrapInvariant
<1> QED
  BY <1>1, PipelineCorrect, PTL

\* A CLOSED decision is always earned, even by a build whose generated parsers
\* answer arbitrarily.
THEOREM ClosedEarned == Spec => []ClosedIsEarned
<1>1. BootstrapInvariant => ClosedIsEarned
  <2> SUFFICES ASSUME BootstrapInvariant, decision = "CLOSED"
               PROVE  /\ \A g \in Generations :
                           /\ tree[g] \in Trees(g)
                           /\ Lowered(tree[g]).ok
                           /\ Lowered(tree[g]).classes = {}
                      /\ \A g, h \in Generations :
                           /\ TreeDigest(tree[g]) = TreeDigest(tree[h])
                           /\ IRDigest(Lowered(tree[g]).ir) = IRDigest(Lowered(tree[h]).ir)
                      /\ \A n \in {1, 2} : artifact[n] = Lowered(tree[n - 1]).ir
    BY DEF ClosedIsEarned
  <2>1. /\ Len(records) = 3 /\ classes \subseteq {"evidence-incomplete"}
        /\ ~Drifted(records, ir) /\ source \in Sources
    BY DEF BootstrapInvariant, ConclusionSound, TypeOK
  <2>2. \A g \in Generations :
          /\ tree[g] \in Trees(g)
          /\ Lowered(tree[g]).ok
          /\ ir[g] = Lowered(tree[g]).ir
          /\ Lowered(tree[g]).classes \subseteq classes
          /\ records[g + 1].syntaxTree = TreeDigest(tree[g])
    BY <2>1 DEF BootstrapInvariant, PipelineSound, Generations
  <2>3. \A g \in Generations : Lowered(tree[g]).classes = {}
    BY <2>1, <2>2, LoweredTyped
  <2>4. /\ TreeDigest(tree[0]) = TreeDigest(tree[1])
        /\ TreeDigest(tree[1]) = TreeDigest(tree[2])
        /\ IRDigest(ir[0]) = IRDigest(ir[1])
        /\ IRDigest(ir[1]) = IRDigest(ir[2])
    <3>1. /\ records[1].syntaxTree = TreeDigest(tree[0])
          /\ records[2].syntaxTree = TreeDigest(tree[1])
          /\ records[3].syntaxTree = TreeDigest(tree[2])
      BY <2>2 DEF Generations
    <3> QED
      BY <2>1, <3>1 DEF Drifted
  <2>5. \A g, h \in Generations :
          /\ TreeDigest(tree[g]) = TreeDigest(tree[h])
          /\ IRDigest(Lowered(tree[g]).ir) = IRDigest(Lowered(tree[h]).ir)
    BY <2>2, <2>4 DEF Generations
  <2>6. \A n \in {1, 2} : artifact[n] = Lowered(tree[n - 1]).ir
    <3>1. \A n \in {1, 2} : artifact[n] = ir[n - 1] /\ n - 1 \in Generations
      BY <2>1 DEF BootstrapInvariant, PipelineSound, Generations
    <3> QED
      BY <2>2, <3>1
  <2> QED
    BY <2>2, <2>3, <2>5, <2>6
<1> QED
  BY <1>1, PipelineCorrect, PTL

-----------------------------------------------------------------------------
(* Receipts tell which return was taken.                                   *)

\* The generations take their turns: one that has not been parsed has no tree, and
\* all have been when the call comes to decide.
Unparsed ==
  /\ \A g \in Generations : g > gen \/ (g = gen /\ pc = "parse") => tree[g] = NoTree
  /\ pc = "decide" => gen = 2

\* Parsers are called in the order of the generations.
LEMMA UnparsedKept ==
  ASSUME BootstrapInvariant, Unparsed, [Next]_vars
  PROVE  Unparsed'
<1>0. gen \in Generations /\ DOMAIN tree = Generations
  BY DEF BootstrapInvariant, TypeOK
<1>1. CASE Parse
  <2>1. /\ gen' = gen /\ pc' = "lower"
        /\ \A g \in Generations : g # gen => tree'[g] = tree[g]
    BY <1>0, <1>1 DEF Parse
  <2>2. \A g \in Generations : g > gen => g # gen
    BY <1>0 DEF Generations
  <2> QED
    BY <2>1, <2>2 DEF Unparsed
<1>2. CASE Lower
  <2>1. /\ UNCHANGED tree /\ pc' \in {"parse", "decide"}
        /\ gen' = IF gen = 2 THEN gen ELSE gen + 1
        /\ pc' = IF gen = 2 THEN "decide" ELSE "parse"
    BY <1>2 DEF Lower
  <2>2. \A g \in Generations : g > gen' \/ (g = gen' /\ pc' = "parse") => g > gen
    BY <1>0, <2>1 DEF Generations
  <2> QED
    BY <2>1, <2>2 DEF Unparsed
<1>3. ASSUME NEW d, NEW record, Concludes(d, record) PROVE Unparsed'
  BY <1>3 DEF Concludes, Unparsed
<1>4. CASE SeedParseFails \/ SeedLoweringFails \/ GeneratedParseFails \/ GeneratedLoweringFails
  BY <1>3, <1>4, FailureConcludes
<1>5. CASE Decide
  BY <1>3, <1>5, DecideConcludes
<1>6. CASE Returned \/ UNCHANGED vars
  BY <1>6 DEF Returned, vars, Unparsed
<1> QED
  BY <1>1, <1>2, <1>3, <1>4, <1>5, <1>6 DEF Next, Step

\* The receipts of one return agree when the terminal it fills in has the decision
\* it sets and, if generations are missing, tells which one is at fault.
LEMMA ConcludeAgrees ==
  ASSUME TypeOK, NEW d, NEW record, Concludes(d, record), record.decision = d,
         Len(records) < 3 =>
           /\ record.stage = StageName(Len(records))
           /\ record.step = "lower" <=> tree[Len(records)] # NoTree
           /\ d = IF records = <<>> THEN "REFUTED" ELSE "UNKNOWN"
  PROVE  ReceiptsAgree'
<1>1. /\ UNCHANGED tree /\ decision' = d /\ terminal' = record
      /\ digest' = TerminalDigest(record)
      /\ records \in Seq(RecordType)
      /\ records' = stampTerminalDigest(records, digest')
  BY DEF Concludes, TypeOK
<1>2. /\ Len(records') = Len(records)
      /\ DOMAIN records' = 1 .. Len(records)
      /\ \A i \in 1 .. Len(records) : records'[i].terminal = digest'
  BY <1>1, StampShape
<1>3. records' = <<>> <=> records = <<>>
  <2>1. records' \in Seq(RecordType')
    BY <1>1, StampTyped
  <2> QED
    BY <1>1, <1>2, <2>1
<1> QED
  BY <1>1, <1>2, <1>3 DEF ReceiptsAgree

\* Whatever the generated parsers do and whichever return is taken, decision,
\* terminal, digest and stamps belong to one another, and the terminal names the
\* generation that failed and how.
THEOREM ReceiptsCorrect == Spec => []ReceiptsAgree
<1>1. Init => Unparsed /\ ReceiptsAgree
  BY DEF Init, Unparsed, ReceiptsAgree, Done
<1>2. BootstrapInvariant /\ Unparsed /\ ReceiptsAgree /\ [Next]_vars
        => Unparsed' /\ ReceiptsAgree'
  <2> SUFFICES ASSUME BootstrapInvariant, Unparsed, ReceiptsAgree, [Next]_vars
               PROVE  Unparsed' /\ ReceiptsAgree'
    OBVIOUS
  <2>0. /\ TypeOK /\ gen \in Generations /\ DOMAIN tree = Generations
        /\ classes \in SUBSET Classes
        /\ records \in Seq(RecordType) /\ Len(records) \in Nat
        /\ pc \in {"parse", "lower"} => Len(records) = gen
        /\ pc = "decide" => Len(records) = 3
        /\ pc = "lower" => tree[gen] # NoTree
    BY DEF BootstrapInvariant, TypeOK, PipelineSound, Trees
  <2>1. Unparsed'
    BY UnparsedKept
  <2>2. CASE Parse \/ Lower
    <3>1. ~Done'
      BY <2>2 DEF Parse, Lower, Done
    <3> QED
      BY <2>1, <3>1 DEF ReceiptsAgree
  <2>4. /\ pc \in {"parse", "lower"} => records = <<>> <=> gen = 0
        /\ gen = 0 => StageName(gen) = "stage0"
    BY <2>0 DEF StageName
  <2>5. CASE SeedParseFails
    <3>1. tree[gen] = NoTree
      BY <2>0, <2>5, FailureConcludes DEF Unparsed
    <3> DEFINE record == Terminal("REFUTED", "stage0", "seed-parse",
                                  "SEED_SYNTAX_INVALID", "", "", "")
    <3>2. record.decision = "REFUTED" /\ record.stage = "stage0" /\ record.step # "lower"
      BY DEF Terminal
    <3>3. Concludes("REFUTED", record) /\ pc = "parse" /\ gen = 0
      BY <2>5, FailureConcludes
    <3> HIDE DEF record
    <3> QED
      BY <2>0, <2>1, <2>4, <3>1, <3>2, <3>3, ConcludeAgrees
  <2>6. CASE SeedLoweringFails
    <3> DEFINE record == Terminal("REFUTED", "stage0", "lower",
                                  "SEMANTIC_LOWERING_INVALID", "", "", "")
    <3>1. record.decision = "REFUTED" /\ record.stage = "stage0" /\ record.step = "lower"
      BY DEF Terminal
    <3>2. Concludes("REFUTED", record) /\ pc = "lower" /\ gen = 0
      BY <2>6, FailureConcludes
    <3> HIDE DEF record
    <3> QED
      BY <2>0, <2>1, <2>4, <3>1, <3>2, ConcludeAgrees
  <2>7. CASE GeneratedParseFails
    <3> DEFINE record == Terminal("UNKNOWN", StageName(gen), "generated-parse",
                                  "EVIDENCE_INCOMPLETE", "evidence-incomplete",
                                  "inspect generation evidence",
                                  "generated-parser-cannot-parse")
    <3>1. tree[gen] = NoTree
      BY <2>0, <2>7, FailureConcludes DEF Unparsed
    <3>2. record.decision = "UNKNOWN" /\ record.stage = StageName(gen) /\ record.step # "lower"
      BY DEF Terminal
    <3>3. Concludes("UNKNOWN", record) /\ pc = "parse" /\ gen > 0
      BY <2>7, FailureConcludes
    <3> HIDE DEF record
    <3>4. gen # 0
      BY <2>0, <3>3 DEF Generations
    <3> QED
      BY <2>0, <2>1, <2>4, <3>1, <3>2, <3>3, <3>4, ConcludeAgrees
  <2>8. CASE GeneratedLoweringFails
    <3> DEFINE record == Terminal("UNKNOWN", StageName(gen), "lower",
                                  "EVIDENCE_INCOMPLETE", "evidence-incomplete",
                                  "inspect generation evidence", "lowering-failed")
    <3>1. record.decision = "UNKNOWN" /\ record.stage = StageName(gen) /\ record.step = "lower"
      BY DEF Terminal
    <3>2. Concludes("UNKNOWN", record) /\ pc = "lower" /\ gen > 0
      BY <2>8, FailureConcludes
    <3> HIDE DEF record
    <3>3. gen # 0
      BY <2>0, <3>2 DEF Generations
    <3> QED
      BY <2>0, <2>1, <2>4, <3>1, <3>2, <3>3, ConcludeAgrees
  <2>9. CASE Decide
    <3>1. Concludes(Answer[1], Answer[2]) /\ pc = "decide"
      BY <2>9, DecideConcludes
    <3>2. Answer[2].decision = Answer[1]
      BY <2>0, AnswerShape
    <3>3. Len(records) = 3
      BY <2>0, <3>1
    <3> DEFINE d == Answer[1]
               record == Answer[2]
    <3>4. Concludes(d, record) /\ record.decision = d
      BY <3>1, <3>2
    <3> HIDE DEF d, record
    <3> QED
      BY <2>0, <2>1, <3>3, <3>4, ConcludeAgrees
  <2>10. CASE Returned \/ UNCHANGED vars
    BY <2>1, <2>10 DEF Returned, vars, Unparsed, ReceiptsAgree, Done
  <2> QED
    BY <2>2, <2>5, <2>6, <2>7, <2>8, <2>9, <2>10 DEF Next, Step
<1> QED
  BY <1>1, <1>2, PipelineCorrect, PTL DEF Spec

-----------------------------------------------------------------------------
(* An UNKNOWN names all that the contract asks for.                        *)

Accountable(record) ==
  /\ record.decision = "UNKNOWN" => \A f \in DOMAIN record : record[f] # ""
  /\ record.decision # "UNKNOWN" => record.unknownClass = "" /\ record.nextOperation = ""

\* A terminal record is accountable when its unknown fields fit its decision.
LEMMA TerminalAccountable ==
  ASSUME NEW d, NEW stage, NEW step, NEW reason, NEW unknown, NEW next, NEW blocked,
         d = "UNKNOWN" => "" \notin {stage, step, reason, unknown, next, blocked},
         d # "UNKNOWN" => unknown = "" /\ next = ""
  PROVE  Accountable(Terminal(d, stage, step, reason, unknown, next, blocked))
<1> DEFINE r == Terminal(d, stage, step, reason, unknown, next, blocked)
<1>1. /\ r.decision = d /\ r.stage = stage /\ r.step = step /\ r.reason = reason
      /\ r.unknownClass = unknown /\ r.nextOperation = next /\ r.blockedBy = blocked
  BY DEF Terminal
<1>2. DOMAIN r = {"decision", "stage", "step", "reason", "unknownClass", "nextOperation",
                  "blockedBy"}
  BY DEF Terminal
<1> HIDE DEF r
<1>3. r.decision = "UNKNOWN" => \A f \in DOMAIN r : r[f] # ""
  BY <1>1, <1>2
<1> QED
  BY <1>1, <1>3 DEF Accountable, r

\* A generation has a name.
LEMMA StageNamed ==
  ASSUME NEW g \in Generations
  PROVE  StageName(g) # ""
<1>1. g = 0 \/ g = 1 \/ g = 2
  BY DEF Generations
<1>2. CASE g = 0
  BY <1>2 DEF StageName
<1>3. CASE g = 1
  BY <1>3 DEF StageName
<1>4. CASE g = 2
  BY <1>4 DEF StageName
<1> QED
  BY <1>1, <1>2, <1>3, <1>4

\* The decision leaves the unknown fields empty, unless it is the one of an
\* ambiguous grammar, which fills them all in.
LEMMA DecisionAccountable ==
  ASSUME NEW cs \in SUBSET Classes, NEW rs, NEW irs
  PROVE  Accountable(decide(cs, rs, irs)[2])
<1>1. CASE cs \intersect Refuting # {}
  BY <1>1, TerminalAccountable DEF decide, violated
<1>2. CASE ~(cs \intersect Refuting # {}) /\ "ambiguous-grammar" \in cs
  BY <1>2, TerminalAccountable DEF decide, ambiguous
<1>3. CASE ~(cs \intersect Refuting # {}) /\ "ambiguous-grammar" \notin cs
  BY <1>3, TerminalAccountable DEF decide, drifted, closedTerminal
<1> QED
  BY <1>1, <1>2, <1>3

\* What is concluded is the record that the step fills in.
LEMMA ConcludeAccountable ==
  ASSUME NEW d, NEW record, Accountable(record), record.decision = d, Concludes(d, record)
  PROVE  UnknownIsAccountable'
<1>1. decision' = record.decision /\ terminal' = record
  BY DEF Concludes
<1> QED
  BY <1>1 DEF UnknownIsAccountable, Accountable

\* Whatever fails or is decided, an UNKNOWN terminal has all its fields and no
\* other terminal claims to be unknown.
THEOREM UnknownAccounted == Spec => []UnknownIsAccountable
<1>1. Init => UnknownIsAccountable
  BY DEF Init, UnknownIsAccountable, Done
<1>2. TypeOK /\ UnknownIsAccountable /\ [Next]_vars => UnknownIsAccountable'
  <2> SUFFICES ASSUME TypeOK, UnknownIsAccountable, [Next]_vars PROVE UnknownIsAccountable'
    OBVIOUS
  <2>0. gen \in Generations /\ classes \in SUBSET Classes /\ StageName(gen) # ""
    BY StageNamed DEF TypeOK
  <2>1. CASE Parse \/ Lower
    BY <2>1 DEF Parse, Lower, UnknownIsAccountable, Done
  <2>2. ASSUME NEW d, NEW stage, NEW step, NEW reason, NEW unknown, NEW next, NEW blocked,
               d = "UNKNOWN" => "" \notin {stage, step, reason, unknown, next, blocked},
               d # "UNKNOWN" => unknown = "" /\ next = "",
               Concludes(d, Terminal(d, stage, step, reason, unknown, next, blocked))
        PROVE  UnknownIsAccountable'
    <3> DEFINE record == Terminal(d, stage, step, reason, unknown, next, blocked)
    <3>1. Accountable(record) /\ record.decision = d
      BY <2>2, TerminalAccountable DEF Terminal
    <3> HIDE DEF record
    <3> QED
      BY <2>2, <3>1, ConcludeAccountable DEF record
  <2>3. CASE SeedParseFails \/ SeedLoweringFails
    BY <2>2, <2>3, FailureConcludes
  <2>4. CASE GeneratedParseFails \/ GeneratedLoweringFails
    BY <2>0, <2>2, <2>4, FailureConcludes
  <2>5. CASE Decide
    <3>1. Concludes(Answer[1], Answer[2])
      BY <2>5, DecideConcludes
    <3>2. Accountable(Answer[2])
      BY <2>0, DecisionAccountable DEF Answer
    <3>3. Answer[2].decision = Answer[1]
      BY <2>0, AnswerShape
    <3> QED
      BY <3>1, <3>2, <3>3, ConcludeAccountable
  <2>6. CASE Returned \/ UNCHANGED vars
    BY <2>6 DEF Returned, vars, UnknownIsAccountable, Done
  <2> QED
    BY <2>1, <2>3, <2>4, <2>5, <2>6 DEF Next, Step
<1> QED
  BY <1>1, <1>2, TypeCorrect, PTL DEF Spec

-----------------------------------------------------------------------------
(* A return without a generation record.                                   *)

UnrecordedIsRefuted == Done /\ records = <<>> => decision = "REFUTED"

\* Only a failure of the seed returns before the first record is written, and it
\* refutes.
THEOREM UnrecordedRefuted == Spec => []UnrecordedIsRefuted
<1>1. ReceiptsAgree => UnrecordedIsRefuted
  BY DEF ReceiptsAgree, UnrecordedIsRefuted
<1> QED
  BY <1>1, ReceiptsCorrect, PTL

-----------------------------------------------------------------------------
(* Receipts are kept.                                                      *)

\* Before the end no record is stamped, so a conclusion stamps each one once.
LEMMA ConcludeKeeps ==
  ASSUME BootstrapInvariant, pc # "done", classes \subseteq classes',
         NEW d, NEW record, Concludes(d, record)
  PROVE  KeepsReceipts
<1>1. records \in Seq(RecordType) /\ Len(records) \in Nat /\ Len(records) <= 3
  BY DEF BootstrapInvariant, TypeOK, PipelineSound
<1>2. \A i \in DOMAIN records : records[i].terminal = NoTerminal
  <2> SUFFICES ASSUME NEW i \in DOMAIN records PROVE records[i].terminal = NoTerminal
    OBVIOUS
  <2>1. i - 1 \in Generations /\ i - 1 < Len(records) /\ (i - 1) + 1 = i
    BY <1>1 DEF Generations
  <2> QED
    BY <2>1 DEF BootstrapInvariant, PipelineSound, Done
<1>3. /\ Len(records') = Len(records)
      /\ \A i \in DOMAIN records :
           /\ records'[i].syntaxTree = records[i].syntaxTree
           /\ records'[i].semanticIR = records[i].semanticIR
  <2> DEFINE stamp == TerminalDigest(record)
  <2>1. records' = stampTerminalDigest(records, stamp)
    BY DEF Concludes
  <2> HIDE DEF stamp
  <2> QED
    BY <1>1, <2>1, StampShape
<1> QED
  BY <1>1, <1>2, <1>3 DEF KeepsReceipts

\* No step loses a receipt.
LEMMA StepKeeps ==
  ASSUME BootstrapInvariant, [Next]_vars
  PROVE  KeepsReceipts \/ UNCHANGED vars
<1>1. records \in Seq(RecordType) /\ Len(records) \in Nat
  BY DEF BootstrapInvariant, TypeOK
<1>2. CASE Parse
  BY <1>1, <1>2 DEF Parse, KeepsReceipts
<1>3. CASE Lower
  <2>1. classes \subseteq classes'
    BY <1>3 DEF Lower
  <2>2. PICK r : records' = Append(records, r)
    BY <1>3 DEF Lower
  <2>3. /\ Len(records') = Len(records) + 1
        /\ \A i \in DOMAIN records : records'[i] = records[i]
    BY <1>1, <2>2
  <2> QED
    BY <1>1, <2>1, <2>3 DEF KeepsReceipts
<1>4. CASE SeedParseFails \/ SeedLoweringFails
  BY <1>4, FailureConcludes, ConcludeKeeps
<1>5. CASE GeneratedParseFails \/ GeneratedLoweringFails
  BY <1>5, FailureConcludes, ConcludeKeeps
<1>6. CASE Decide
  BY <1>6, DecideConcludes, ConcludeKeeps
<1>7. CASE Returned \/ UNCHANGED vars
  BY <1>7 DEF Returned
<1> QED
  BY <1>2, <1>3, <1>4, <1>5, <1>6, <1>7 DEF Next, Step

\* No step of the pipeline loses a record, a digest, a stamp or a diagnostic.
THEOREM ReceiptsKept == Spec => ReceiptsAreKept
<1>1. BootstrapInvariant /\ [Next]_vars => [KeepsReceipts]_vars
  BY StepKeeps
<1> QED
  BY <1>1, PipelineCorrect, PTL DEF Spec, ReceiptsAreKept

-----------------------------------------------------------------------------
(* Committed builds.                                                       *)

\* In a committed build all generations work on the seed's tree.
CommittedInvariant ==
  /\ BootstrapInvariant
  /\ \A g \in Generations : g < Len(records) => tree[g] = tree[0]
  /\ pc = "lower" => tree[gen] = tree[0]
  /\ "evidence-incomplete" \notin classes
  /\ OnlyTheGrammarDecides

\* The strongest refuting class exists and is a refuting class.
LEMMA HighestReason ==
  ASSUME NEW cs, cs \intersect Refuting # {}
  PROVE  highestDiagnosticReason(cs) \in Refuting
<1> DEFINE Strongest(i) == /\ RefutingOrder[i] \in cs
                           /\ \A j \in 1 .. i - 1 : RefutingOrder[j] \notin cs
<1>1. DOMAIN RefutingOrder = 1 .. 4
  BY DEF RefutingOrder
<1>2. \E i \in 1 .. 4 : RefutingOrder[i] \in cs
  BY <1>1 DEF Refuting
<1>3. \E i \in 1 .. 4 : Strongest(i)
  <2>1. CASE RefutingOrder[1] \in cs
    BY <2>1
  <2>2. CASE RefutingOrder[1] \notin cs /\ RefutingOrder[2] \in cs
    BY <2>2
  <2>3. CASE RefutingOrder[1] \notin cs /\ RefutingOrder[2] \notin cs /\ RefutingOrder[3] \in cs
    BY <2>3
  <2>4. CASE /\ RefutingOrder[1] \notin cs /\ RefutingOrder[2] \notin cs
             /\ RefutingOrder[3] \notin cs /\ RefutingOrder[4] \in cs
    BY <2>4
  <2>5. \A i \in 1 .. 4 : i = 1 \/ i = 2 \/ i = 3 \/ i = 4
    OBVIOUS
  <2> QED
    BY <1>2, <2>1, <2>2, <2>3, <2>4, <2>5
<1> HIDE DEF Strongest
<1>4. (CHOOSE i \in DOMAIN RefutingOrder : Strongest(i)) \in DOMAIN RefutingOrder
  BY <1>1, <1>3
<1> QED
  BY <1>4 DEF highestDiagnosticReason, Refuting, Strongest

\* Without drift, decide speaks of the grammar only.
LEMMA DecideOnGrammar ==
  ASSUME NEW cs, NEW rs, NEW irs, ~Drifted(rs, irs)
  PROVE  decide(cs, rs, irs)[2].reason \notin {"EVIDENCE_INCOMPLETE", "GENERATION_DRIFT"}
<1>1. CASE cs \intersect Refuting # {}
  <2>1. decide(cs, rs, irs)[2].reason \in Refuting
    BY <1>1, HighestReason DEF decide, violated, Terminal
  <2>2. \A c \in Refuting : c \notin {"EVIDENCE_INCOMPLETE", "GENERATION_DRIFT"}
    <3>1. DOMAIN RefutingOrder = 1 .. 4
      BY DEF RefutingOrder
    <3> QED
      BY <3>1 DEF Refuting, RefutingOrder
  <2> QED
    BY <2>1, <2>2
<1>2. CASE ~(cs \intersect Refuting # {}) /\ "ambiguous-grammar" \in cs
  BY <1>2 DEF decide, ambiguous, Terminal
<1>3. CASE ~(cs \intersect Refuting # {}) /\ "ambiguous-grammar" \notin cs
  BY <1>3 DEF decide, closedTerminal, Terminal
<1> QED
  BY <1>1, <1>2, <1>3

\* Generations that lowered one and the same tree have not drifted.
LEMMA SameTreeNoDrift ==
  ASSUME CommittedInvariant, pc = "decide"
  PROVE  ~Drifted(records, ir)
<1>1. Len(records) = 3
  BY DEF CommittedInvariant, BootstrapInvariant, PipelineSound
<1>2. \A g \in Generations :
        /\ tree[g] = tree[0]
        /\ ir[g] = Lowered(tree[g]).ir
        /\ records[g + 1].syntaxTree = TreeDigest(tree[g])
  BY <1>1 DEF CommittedInvariant, BootstrapInvariant, PipelineSound, Generations
<1>3. /\ ir[0] = Lowered(tree[0]).ir /\ ir[1] = ir[0] /\ ir[2] = ir[0]
      /\ records[1].syntaxTree = TreeDigest(tree[0])
      /\ records[2].syntaxTree = TreeDigest(tree[0])
      /\ records[3].syntaxTree = TreeDigest(tree[0])
  BY <1>2 DEF Generations
<1> QED
  BY <1>1, <1>3 DEF Drifted

\* In a committed build the generated parsers and their lowerings cannot fail.
LEMMA NoGeneratedFailure ==
  ASSUME CommittedBuild, CommittedInvariant
  PROVE  ~GeneratedParseFails /\ ~GeneratedLoweringFails
<1>1. /\ source \in Sources /\ gen \in Generations
      /\ pc \in {"parse", "lower"} => Len(records) = gen
      /\ \A g \in Generations : g < Len(records) => tree[g] \in Trees(g) /\ Lowered(tree[g]).ok
  BY DEF CommittedInvariant, BootstrapInvariant, TypeOK, PipelineSound
<1>2. ASSUME pc \in {"parse", "lower"}, gen > 0
      PROVE  tree[0] \in Outcomes(0, source) \ {NoTree} /\ Lowered(tree[0]).ok
  BY <1>1, <1>2 DEF Generations, Trees
<1>3. ASSUME GeneratedParseFails PROVE FALSE
  <2>1. pc = "parse" /\ gen > 0 /\ NoTree \in Outcomes(gen, source)
    BY <1>3 DEF GeneratedParseFails
  <2>2. Outcomes(1, source) = {tree[0]} /\ Outcomes(2, source) = {tree[0]} /\ tree[0] # NoTree
    BY <1>1, <1>2, <2>1 DEF CommittedBuild
  <2>3. gen = 1 \/ gen = 2
    BY <1>1, <2>1 DEF Generations
  <2> QED
    BY <2>1, <2>2, <2>3
<1>4. ASSUME GeneratedLoweringFails PROVE FALSE
  <2>1. pc = "lower" /\ gen > 0 /\ ~Lowered(tree[gen]).ok
    BY <1>4 DEF GeneratedLoweringFails
  <2>2. tree[gen] = tree[0]
    BY <2>1 DEF CommittedInvariant
  <2> QED
    BY <1>2, <2>1, <2>2
<1> QED
  BY <1>3, <1>4

\* The committed invariant is inductive: a generated parser returns the tree of the
\* seed, so it lowers as the seed did.
LEMMA CommittedStep ==
  ASSUME CommittedBuild
  PROVE  CommittedInvariant /\ [Next]_vars => CommittedInvariant'
<1> SUFFICES ASSUME CommittedInvariant, [Next]_vars PROVE CommittedInvariant'
  OBVIOUS
<1>0. BootstrapInvariant /\ BootstrapInvariant'
  BY BootstrapStep DEF CommittedInvariant
<1>1. /\ source \in Sources /\ gen \in Generations /\ Len(records) \in Nat
      /\ records \in Seq(RecordType)
      /\ DOMAIN tree = Generations
      /\ pc \in {"parse", "lower"} => Len(records) = gen
      /\ \A g \in Generations : g < Len(records) => tree[g] \in Trees(g)
  BY <1>0 DEF BootstrapInvariant, TypeOK, PipelineSound
<1>2. CASE Parse
  <2>1. PICK t \in Outcomes(gen, source) \ {NoTree} : tree' = [tree EXCEPT ![gen] = t]
    BY <1>2 DEF Parse
  <2>2. /\ UNCHANGED <<source, gen, classes, records, terminal>>
        /\ pc = "parse" /\ pc' = "lower" /\ Done' = FALSE
    BY <1>2 DEF Parse, Done
  <2>3. \A g \in Generations : tree'[g] = IF g = gen THEN t ELSE tree[g]
    BY <1>1, <2>1
  <2>4. CASE gen = 0
    <3>1. tree'[gen] = tree'[0]
      BY <2>4
    <3> QED
      BY <1>0, <1>1, <2>2, <2>4, <3>1 DEF CommittedInvariant, OnlyTheGrammarDecides, Generations
  <2>5. CASE gen # 0
    <3>1. 0 \in Generations /\ 0 < Len(records) /\ (gen = 1 \/ gen = 2)
      BY <1>1, <2>2, <2>5 DEF Generations
    <3>2. tree[0] \in Outcomes(0, source) \ {NoTree}
      BY <1>1, <3>1 DEF Trees
    <3>3. t = tree[0]
      BY <1>1, <2>1, <3>1, <3>2 DEF CommittedBuild
    <3>4. tree' = tree \/ \A g \in Generations : g # gen => tree'[g] = tree[g]
      BY <2>3
    <3>5. tree'[gen] = t /\ tree'[0] = tree[0]
      BY <1>1, <2>3, <2>5, <3>1
    <3>6. \A g \in Generations : g < Len(records) => tree'[g] = tree'[0]
      BY <1>1, <2>2, <2>3, <3>3, <3>5 DEF CommittedInvariant
    <3> QED
      BY <1>0, <2>2, <3>3, <3>5, <3>6 DEF CommittedInvariant, OnlyTheGrammarDecides
  <2> QED
    BY <2>4, <2>5
<1>3. CASE Lower
  <2>1. /\ UNCHANGED <<source, tree, terminal>>
        /\ pc = "lower" /\ pc' # "lower" /\ Done' = FALSE
        /\ classes' = classes \union Lowered(tree[gen]).classes
    BY <1>3 DEF Lower, Done
  <2>2. Len(records') = gen + 1
    <3>1. Len(records') = IF pc' = "decide" THEN 3 ELSE gen'
      BY <1>0, <1>3 DEF Lower, BootstrapInvariant, PipelineSound
    <3> QED
      BY <1>3, <3>1 DEF Lower
  <2>3. tree[gen] \in Trees(gen) /\ tree[gen] = tree[0]
    BY <1>0, <2>1 DEF BootstrapInvariant, PipelineSound, CommittedInvariant
  <2>4. "evidence-incomplete" \notin classes'
    BY <1>1, <2>1, <2>3, LoweredTyped DEF CommittedInvariant
  <2>5. \A g \in Generations : g < Len(records') => tree'[g] = tree'[0]
    BY <1>1, <2>1, <2>2, <2>3 DEF CommittedInvariant, Generations
  <2> QED
    BY <1>0, <2>1, <2>4, <2>5 DEF CommittedInvariant, OnlyTheGrammarDecides
<1>4. ASSUME NEW d, NEW record, Concludes(d, record),
             "evidence-incomplete" \notin classes',
             record.reason \notin {"EVIDENCE_INCOMPLETE", "GENERATION_DRIFT"}
      PROVE  CommittedInvariant'
  <2>1. tree' = tree /\ terminal' = record /\ pc' = "done" /\ Len(records') = Len(records)
    BY <1>1, <1>4, StampShape DEF Concludes
  <2> QED
    BY <1>0, <1>4, <2>1 DEF CommittedInvariant, OnlyTheGrammarDecides
<1>5. CASE SeedParseFails \/ SeedLoweringFails
  <2>1. \A step, reason :
          Terminal("REFUTED", "stage0", step, reason, "", "", "").reason = reason
    BY DEF Terminal
  <2>2. "evidence-incomplete" \notin classes'
    BY <1>5, FailureConcludes DEF CommittedInvariant
  <2> QED
    BY <1>4, <1>5, <2>1, <2>2, FailureConcludes
<1>7. CASE Decide
  <2>1. Answer[2].reason \notin {"EVIDENCE_INCOMPLETE", "GENERATION_DRIFT"}
    BY <1>7, SameTreeNoDrift, DecideOnGrammar DEF Decide, Answer
  <2> QED
    BY <1>4, <1>7, <2>1, DecideConcludes DEF CommittedInvariant
<1>8. CASE Returned \/ UNCHANGED vars
  <2>1. UNCHANGED <<source, pc, gen, tree, ir, classes, records, artifact, decision,
                    terminal, digest>>
    BY <1>8 DEF Returned, vars
  <2> QED
    BY <1>0, <2>1 DEF CommittedInvariant, OnlyTheGrammarDecides, Done
<1> QED
  BY <1>2, <1>3, <1>5, <1>7, <1>8, NoGeneratedFailure DEF Next, Step

\* No generation has a tree of its own at the start.
LEMMA CommittedInit == Init => CommittedInvariant
<1> SUFFICES ASSUME Init PROVE CommittedInvariant
  OBVIOUS
<1>1. BootstrapInvariant /\ Len(records) = 0 /\ classes = {} /\ pc = "parse"
  BY BootstrapInit DEF Init
<1> QED
  BY <1>1 DEF CommittedInvariant, OnlyTheGrammarDecides, Done, Generations

\* In a committed build every generation works on the tree that the seed returned.
LEMMA CommittedCorrect ==
  ASSUME CommittedBuild
  PROVE  Spec => []CommittedInvariant
BY CommittedInit, CommittedStep, PTL DEF Spec

\* When the generated parsers agree with the seed, every decision is about the
\* grammar: nothing is left incomplete and nothing has drifted.
THEOREM GrammarDecides ==
  ASSUME CommittedBuild
  PROVE  Spec => []OnlyTheGrammarDecides
<1>1. CommittedInvariant => OnlyTheGrammarDecides
  BY DEF CommittedInvariant
<1> QED
  BY <1>1, CommittedCorrect, PTL

-----------------------------------------------------------------------------
(* Any build: a generated parser is at fault for every alarm.              *)

\* Three generations with one tree have not drifted, whatever parsers returned it.
LEMMA OneTreeNoDrift ==
  ASSUME BootstrapInvariant, Unparsed, pc = "decide", \A g \in 1 .. gen : tree[g] = tree[0]
  PROVE  ~Drifted(records, ir)
<1>1. Len(records) = 3 /\ gen = 2
  BY DEF BootstrapInvariant, PipelineSound, Unparsed
<1>2. \A g \in Generations :
        /\ ir[g] = Lowered(tree[g]).ir
        /\ records[g + 1].syntaxTree = TreeDigest(tree[g])
  BY <1>1 DEF BootstrapInvariant, PipelineSound, Generations
<1>3. tree[1] = tree[0] /\ tree[2] = tree[0]
  BY <1>1
<1>4. /\ ir[0] = Lowered(tree[0]).ir /\ ir[1] = ir[0] /\ ir[2] = ir[0]
      /\ records[1].syntaxTree = TreeDigest(tree[0])
      /\ records[2].syntaxTree = TreeDigest(tree[0])
      /\ records[3].syntaxTree = TreeDigest(tree[0])
  BY <1>2, <1>3 DEF Generations
<1> QED
  BY <1>1, <1>4 DEF Drifted

\* A step that concludes leaves an alarm only if it is earned.
LEMMA ConcludeAlarms ==
  ASSUME NEW d, NEW record, Concludes(d, record),
         record.reason \in {"EVIDENCE_INCOMPLETE", "GENERATION_DRIFT"} =>
           \E g \in 1 .. gen : tree[g] # tree[0]
  PROVE  AlarmIsEarned'
BY DEF Concludes, AlarmIsEarned

\* Whatever the build holds, a result that is incomplete or drifted has a generated
\* parser that did not return the seed's tree.
THEOREM AlarmsEarned == Spec => []AlarmIsEarned
<1>1. Init => Unparsed /\ AlarmIsEarned
  BY DEF Init, Unparsed, AlarmIsEarned, Done
<1>2. BootstrapInvariant /\ Unparsed /\ AlarmIsEarned /\ [Next]_vars
        => Unparsed' /\ AlarmIsEarned'
  <2> SUFFICES ASSUME BootstrapInvariant, Unparsed, AlarmIsEarned, [Next]_vars
               PROVE  Unparsed' /\ AlarmIsEarned'
    OBVIOUS
  <2>1. Unparsed'
    BY UnparsedKept
  <2>2. CASE Parse \/ Lower
    <3>1. ~Done'
      BY <2>2 DEF Parse, Lower, Done
    <3> QED
      BY <2>1, <3>1 DEF AlarmIsEarned
  <2>3. CASE SeedParseFails \/ SeedLoweringFails
    <3>1. PICK step, reason :
            /\ reason \in {"SEED_SYNTAX_INVALID", "SEMANTIC_LOWERING_INVALID"}
            /\ Concludes("REFUTED", Terminal("REFUTED", "stage0", step, reason, "", "", ""))
      BY <2>3, FailureConcludes
    <3> DEFINE record == Terminal("REFUTED", "stage0", step, reason, "", "", "")
    <3>2. Concludes("REFUTED", record) /\ record.reason = reason
      BY <3>1 DEF Terminal
    <3> HIDE DEF record
    <3> QED
      BY <2>1, <3>1, <3>2, ConcludeAlarms
  <2>4. CASE GeneratedParseFails \/ GeneratedLoweringFails
    <3>1. /\ gen \in Generations /\ gen > 0 /\ Len(records) = gen
      BY <2>4, FailureConcludes DEF BootstrapInvariant, TypeOK, PipelineSound
    <3>2. tree[0] # NoTree /\ Lowered(tree[0]).ok
      BY <3>1 DEF BootstrapInvariant, PipelineSound, Trees, Generations
    <3>3. tree[gen] # tree[0]
      <4>1. GeneratedParseFails => tree[gen] = NoTree
        BY <3>1, FailureConcludes DEF Unparsed
      <4>2. GeneratedLoweringFails => ~Lowered(tree[gen]).ok
        BY DEF GeneratedLoweringFails
      <4> QED
        BY <2>4, <3>2, <4>1, <4>2
    <3>4. \E g \in 1 .. gen : tree[g] # tree[0]
      BY <3>1, <3>3 DEF Generations
    <3> QED
      BY <2>1, <2>4, <3>4, FailureConcludes, ConcludeAlarms
  <2>5. CASE Decide
    <3>1. Concludes(Answer[1], Answer[2]) /\ pc = "decide"
      BY <2>5, DecideConcludes
    <3>2. Answer[2].reason \in {"EVIDENCE_INCOMPLETE", "GENERATION_DRIFT"} =>
            \E g \in 1 .. gen : tree[g] # tree[0]
      BY <3>1, OneTreeNoDrift, DecideOnGrammar DEF Answer
    <3> DEFINE d == Answer[1]
               record == Answer[2]
    <3>3. /\ Concludes(d, record)
          /\ record.reason \in {"EVIDENCE_INCOMPLETE", "GENERATION_DRIFT"} =>
               \E g \in 1 .. gen : tree[g] # tree[0]
      BY <3>1, <3>2
    <3> HIDE DEF d, record
    <3> QED
      BY <2>1, <3>3, ConcludeAlarms
  <2>6. CASE Returned \/ UNCHANGED vars
    BY <2>1, <2>6 DEF Returned, vars, AlarmIsEarned, Done
  <2> QED
    BY <2>1, <2>2, <2>3, <2>4, <2>5, <2>6 DEF Next, Step
<1> QED
  BY <1>1, <1>2, PipelineCorrect, PTL DEF Spec

-----------------------------------------------------------------------------
(* The decision lattice: a committed build implements Verdict.             *)

\* One tree has one digest: nothing recorded has drifted.
LEMMA CommittedNoDrift == CommittedInvariant => ~DriftRecorded
<1> SUFFICES ASSUME CommittedInvariant PROVE ~DriftRecorded
  OBVIOUS
<1>1. /\ Len(records) \in Nat /\ DOMAIN records = 1 .. Len(records) /\ Len(records) <= 3
      /\ \A g \in Generations : g < Len(records) =>
           /\ ir[g] = Lowered(tree[g]).ir
           /\ tree[g] = tree[0]
           /\ records[g + 1].syntaxTree = TreeDigest(tree[g])
           /\ records[g + 1].semanticIR = IRDigest(ir[g])
  BY DEF CommittedInvariant, BootstrapInvariant, TypeOK, PipelineSound
<1>2. \A i \in DOMAIN records :
        /\ records[i].syntaxTree = TreeDigest(tree[0])
        /\ records[i].semanticIR = IRDigest(Lowered(tree[0]).ir)
  <2> SUFFICES ASSUME NEW i \in DOMAIN records
               PROVE  /\ records[i].syntaxTree = TreeDigest(tree[0])
                      /\ records[i].semanticIR = IRDigest(Lowered(tree[0]).ir)
    OBVIOUS
  <2>1. i - 1 \in Generations /\ i - 1 < Len(records) /\ (i - 1) + 1 = i
    BY <1>1 DEF Generations
  <2> QED
    BY <1>1, <2>1
<1> QED
  BY <1>2 DEF DriftRecorded

\* Evidence is a set of verdicts that only classes and the record count decide.
LEMMA CommittedEvidence ==
  ASSUME CommittedInvariant
  PROVE  /\ Evidence \subseteq {"CLOSED", "UNKNOWN", "REFUTED"}
         /\ "REFUTED" \in Evidence <=> classes \intersect Refuting # {}
         /\ "UNKNOWN" \in Evidence <=> classes \ Refuting # {}
         /\ "CLOSED" \in Evidence <=> Len(records) = 3
BY CommittedNoDrift DEF Evidence

\* Evidence only grows with the classes and the records.
LEMMA EvidenceKept ==
  ASSUME CommittedInvariant, ~DriftRecorded', classes \subseteq classes',
         Len(records) = 3 => Len(records') = 3
  PROVE  Evidence \subseteq Evidence' /\ Evidence' \subseteq {"CLOSED", "UNKNOWN", "REFUTED"}
<1>1. /\ Evidence' \subseteq {"CLOSED", "UNKNOWN", "REFUTED"}
      /\ "REFUTED" \in Evidence' <=> classes' \intersect Refuting # {}
      /\ "UNKNOWN" \in Evidence' <=> classes' \ Refuting # {}
      /\ "CLOSED" \in Evidence' <=> Len(records') = 3
  BY DEF Evidence
<1>2. Evidence \subseteq {"CLOSED", "UNKNOWN", "REFUTED"}
  BY CommittedEvidence
<1> QED
  BY <1>1, <1>2, CommittedEvidence

\* A conclusion that names the worst of its evidence is one of the lattice.
LEMMA CommittedConcludes ==
  ASSUME CommittedInvariant, ~DriftRecorded', pc # "done",
         NEW d, NEW record, Concludes(d, record), classes \subseteq classes',
         Evidence' # {}, d = Lattice!Worst(Evidence')
  PROVE  Lattice!Conclude
<1>1. decision = "OPEN" /\ decision' = d
  BY DEF CommittedInvariant, BootstrapInvariant, ConclusionSound, Done, Concludes
<1>2. Len(records') = Len(records)
  <2> DEFINE stamp == TerminalDigest(record)
  <2>1. records \in Seq(RecordType) /\ records' = stampTerminalDigest(records, stamp)
    BY DEF Concludes, CommittedInvariant, BootstrapInvariant, TypeOK
  <2> HIDE DEF stamp
  <2> QED
    BY <2>1, StampShape
<1>3. Evidence \subseteq Evidence' /\ Evidence' \in SUBSET {"CLOSED", "UNKNOWN", "REFUTED"}
  BY <1>2, EvidenceKept
<1> QED
  BY <1>1, <1>3 DEF Lattice!Conclude, Lattice!Verdicts

\* The order of the lattice.
LEMMA WorstOf ==
  ASSUME NEW E
  PROVE  /\ "REFUTED" \in E => Lattice!Worst(E) = "REFUTED"
         /\ "REFUTED" \notin E /\ "UNKNOWN" \in E => Lattice!Worst(E) = "UNKNOWN"
         /\ "REFUTED" \notin E /\ "UNKNOWN" \notin E => Lattice!Worst(E) = "CLOSED"
BY DEF Lattice!Worst

\* A step of a committed build gathers evidence, concludes, or is none of the lattice's.
LEMMA CommittedGathers ==
  ASSUME CommittedBuild, CommittedInvariant, ~DriftRecorded', [Next]_vars
  PROVE  Lattice!Next \/ UNCHANGED <<Evidence, decision>>
<1>0. /\ records \in Seq(RecordType) /\ Len(records) \in Nat
      /\ Len(records) <= 3
      /\ pc \in {"parse", "lower"} => Len(records) = gen /\ gen \in Generations
      /\ pc # "done" => decision = "OPEN"
      /\ pc = "decide" => Len(records) = 3
  BY DEF CommittedInvariant, BootstrapInvariant, TypeOK, PipelineSound, ConclusionSound, Done
<1>1. "invalid-grammar" \in Refuting
  <2>1. 4 \in DOMAIN RefutingOrder /\ RefutingOrder[4] = "invalid-grammar"
    BY DEF RefutingOrder
  <2> QED
    BY <2>1 DEF Refuting
<1>2. CASE Parse \/ Lower
  <2>1. /\ classes \subseteq classes' /\ decision = "OPEN" /\ decision' = decision
        /\ Len(records) = 3 => Len(records') = 3
    BY <1>0, <1>2 DEF Parse, Lower, Generations
  <2>2. Evidence \subseteq Evidence' /\ Evidence' \in SUBSET {"CLOSED", "UNKNOWN", "REFUTED"}
    BY <2>1, EvidenceKept
  <2> QED
    BY <2>1, <2>2 DEF Lattice!Next, Lattice!Gather, Lattice!Verdicts
<1>3. ASSUME NEW record, Concludes("REFUTED", record),
             pc # "done", classes' = classes \union {"invalid-grammar"}
      PROVE  Lattice!Next
  <2>1. classes' \intersect Refuting # {}
    BY <1>1, <1>3
  <2>2. "REFUTED" \in Evidence'
    BY <2>1 DEF Evidence
  <2> QED
    BY <1>3, <2>2, WorstOf, CommittedConcludes DEF Lattice!Next
<1>4. CASE SeedParseFails \/ SeedLoweringFails
  BY <1>3, <1>4, FailureConcludes
<1>6. CASE Decide
  <2>1. /\ Concludes(Answer[1], Answer[2]) /\ classes' = classes /\ pc = "decide"
        /\ ~Drifted(records, ir) /\ Len(records') = 3
    <3>1. Concludes(Answer[1], Answer[2]) /\ classes' = classes /\ pc = "decide"
      BY <1>6, DecideConcludes
    <3> QED
      BY <1>0, <3>1, SameTreeNoDrift, StampShape DEF Concludes
  <2>2. /\ "REFUTED" \in Evidence' <=> classes \intersect Refuting # {}
        /\ "UNKNOWN" \in Evidence' <=> classes \ Refuting # {}
        /\ "CLOSED" \in Evidence'
    BY <2>1 DEF Evidence
  <2>3. classes \ Refuting # {} <=> "ambiguous-grammar" \in classes
    <3>1. classes \subseteq Classes /\ "evidence-incomplete" \notin classes
      BY DEF CommittedInvariant, BootstrapInvariant, TypeOK
    <3>2. "ambiguous-grammar" \notin Refuting
      <4>1. DOMAIN RefutingOrder = 1 .. 4
        BY DEF RefutingOrder
      <4> QED
        BY <4>1 DEF Refuting, RefutingOrder
    <3> QED
      BY <3>1, <3>2 DEF Classes
  <2>4. Answer[1] = Lattice!Worst(Evidence')
    <3>1. CASE classes \intersect Refuting # {}
      BY <2>2, <3>1, WorstOf DEF Answer, decide, violated
    <3>2. CASE ~(classes \intersect Refuting # {}) /\ "ambiguous-grammar" \in classes
      BY <2>2, <2>3, <3>2, WorstOf DEF Answer, decide, ambiguous
    <3>3. CASE ~(classes \intersect Refuting # {}) /\ "ambiguous-grammar" \notin classes
      BY <2>1, <2>2, <2>3, <3>3, WorstOf DEF Answer, decide
    <3> QED
      BY <3>1, <3>2, <3>3
  <2> QED
    BY <2>1, <2>2, <2>4, CommittedConcludes DEF Lattice!Next
<1>7. CASE Returned \/ UNCHANGED vars
  BY <1>7 DEF Returned, vars, Evidence, DriftRecorded
<1> QED
  BY <1>2, <1>4, <1>6, <1>7, NoGeneratedFailure DEF Next, Step

\* A committed build reduces its evidence in the order REFUTED > UNKNOWN > CLOSED.
THEOREM CommittedReduces ==
  ASSUME CommittedBuild
  PROVE  Spec => ReducesEvidence
<1>1. Init => Lattice!Init
  BY DEF Init, Lattice!Init, Evidence, DriftRecorded
<1>2. CommittedInvariant /\ ~DriftRecorded' /\ [Next]_vars => [Lattice!Next]_(Lattice!vars)
  BY CommittedGathers DEF Lattice!vars
<1> QED
  BY <1>1, <1>2, CommittedCorrect, CommittedNoDrift, PTL DEF Spec, ReducesEvidence, Lattice!Spec

\* A step that returns sets a decision.
LEMMA ReturnDecides ==
  ASSUME [Next]_vars, ~Done, Done'
  PROVE  decision' # "OPEN"
<1>1. ASSUME Decide PROVE decision' # "OPEN"
  <2>1. Answer[1] # "OPEN"
    BY DEF Answer, decide, violated, ambiguous, drifted
  <2> QED
    BY <1>1, <2>1, DecideConcludes DEF Concludes
<1>2. ASSUME SeedParseFails \/ SeedLoweringFails \/ GeneratedParseFails \/ GeneratedLoweringFails
      PROVE  decision' # "OPEN"
  BY <1>2, FailureConcludes DEF Concludes
<1> QED
  BY <1>1, <1>2 DEF Next, Step, Parse, Lower, Returned, Done, vars

\* In a committed build the decision is the worst verdict that the evidence calls
\* for: what other generated parsers can break (a generated failure that overrides
\* a refuting diagnosis, a drift behind an ambiguity) does not come up.
THEOREM CommittedWorst ==
  ASSUME CommittedBuild
  PROVE  Spec => []WorstEvidenceDecides
<1>1. Init => WorstEvidenceDecides
  BY DEF Init, WorstEvidenceDecides, Done
<1>2. ASSUME CommittedInvariant, ~DriftRecorded', WorstEvidenceDecides, [Next]_vars
      PROVE  WorstEvidenceDecides'
  <2> SUFFICES ASSUME Done' PROVE decision' = Lattice!Worst(Evidence')
    BY DEF WorstEvidenceDecides
  <2>1. CASE Done
    <3>1. decision = Lattice!Worst(Evidence) /\ decision # "OPEN"
      BY <1>2, <2>1, WorstOf DEF WorstEvidenceDecides, Lattice!Worst
    <3>2. UNCHANGED <<Evidence, decision>>
      BY <1>2, <3>1, CommittedGathers DEF Lattice!Next, Lattice!Gather, Lattice!Conclude
    <3> QED
      BY <3>1, <3>2
  <2>2. CASE ~Done
    <3>1. decision = "OPEN" /\ decision' # "OPEN"
      BY <1>2, <2>2, ReturnDecides
         DEF CommittedInvariant, BootstrapInvariant, ConclusionSound
    <3> QED
      BY <1>2, <3>1, CommittedGathers DEF Lattice!Next, Lattice!Gather, Lattice!Conclude
  <2> QED
    BY <2>1, <2>2
<1> QED
  BY <1>1, <1>2, CommittedCorrect, CommittedNoDrift, PTL DEF Spec
=============================================================================
