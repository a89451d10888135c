-------------------------- MODULE ConformanceProofs --------------------------
(***************************************************************************)
(* Proofs about Conformance and Renderer: for any template, any number of  *)
(* fixed cases, any case root and any results of Bootstrap.                *)
(***************************************************************************)
EXTENDS Conformance, TLAPS, FiniteSetTheorems, FunctionTheorems

-----------------------------------------------------------------------------
(* Rendering.                                                              *)

\* A text has one set of pieces in every slot, and only keys are left.
RenderingTyped ==
  /\ left \subseteq Keys
  /\ text = [s \in Slots |-> text[s]]

\* Starting to render sets up a text in which nothing has been replaced.
LEMMA StartHidden ==
  ASSUME NEW v, StartRendering(v)
  PROVE  RenderingTyped' /\ OrderIsHidden'
<1>1. \A s \in Slots : Template[s] \in left'
  BY DEF StartRendering, Keys
<1>2. text' = [s \in Slots |-> {Template[s]}]
  BY DEF StartRendering
<1>3. text' = [s \in Slots |-> text'[s]] /\ left' \subseteq Keys
  BY <1>2 DEF StartRendering
<1>4. Substituted(values', left') = [s \in Slots |-> {Template[s]}]
  BY <1>1 DEF Substituted
<1> QED
  BY <1>2, <1>3, <1>4 DEF RenderingTyped, OrderIsHidden

\* Replacing one key, whichever it is, does to a text of clean values what
\* replacing all keys at once does for that key.
LEMMA ReplaceHidden ==
  ASSUME RenderingTyped, OrderIsHidden, NEW k \in left, Replace(k)
  PROVE  RenderingTyped' /\ OrderIsHidden'
<1>1. /\ left' = left \ {k} /\ values' = values
      /\ text' = [s \in Slots |->
                    IF k \in text[s] THEN (text[s] \ {k}) \union values[k] ELSE text[s]]
  BY DEF Replace
<1>2. RenderingTyped'
  <2>1. text' = [s \in Slots |-> text'[s]]
    BY <1>1
  <2> QED
    BY <1>1, <2>1 DEF RenderingTyped
<1>3. ASSUME Clean(values) PROVE text' = Substituted(values, left')
  <2>1. text = Substituted(values, left)
    BY <1>3 DEF OrderIsHidden
  <2>2. ASSUME NEW s \in Slots
        PROVE  (IF k \in text[s] THEN (text[s] \ {k}) \union values[k] ELSE text[s])
                 = (IF Template[s] \in left' THEN {Template[s]} ELSE values[Template[s]])
    <3>1. Template[s] \in Keys /\ k \in Keys
      BY DEF Keys, RenderingTyped
    <3>2. CASE Template[s] = k
      <4>1. text[s] = {k}
        BY <2>1, <3>2 DEF Substituted
      <4> QED
        BY <1>1, <3>2, <4>1
    <3>3. CASE Template[s] # k /\ Template[s] \in left
      <4>1. text[s] = {Template[s]}
        BY <2>1, <3>3 DEF Substituted
      <4> QED
        BY <1>1, <3>3, <4>1
    <3>4. CASE Template[s] \notin left
      <4>1. text[s] = values[Template[s]] /\ Template[s] # k
        BY <2>1, <3>4 DEF Substituted
      <4>2. k \notin values[Template[s]]
        BY <1>3, <3>1, <4>1 DEF Clean
      <4> QED
        BY <1>1, <3>4, <4>1, <4>2
    <3> QED
      BY <3>2, <3>3, <3>4
  <2> QED
    BY <1>1, <2>2 DEF Substituted
<1> QED
  BY <1>1, <1>2, <1>3 DEF OrderIsHidden

-----------------------------------------------------------------------------
(* The replay.                                                             *)

Case == definitions[index]

\* While a replay is rendered, the artifact under way is the next of the four, and
\* the finished ones are those that replacing all keys at once gives.
ReplayUnderWay ==
  pc = "render" =>
    /\ NeedsRendering(Case)
    /\ Len(artifacts) \in 0 .. 3 /\ (\E S : artifacts \in Seq(S))
    /\ values = ArtifactValues(Case, Len(artifacts) + 1)
    /\ \A n \in 1 .. Len(artifacts) :
         Clean(ArtifactValues(Case, n)) => artifacts[n] = Substituted(ArtifactValues(Case, n), {})

\* The cases recorded so far form a sequence.
CasesTyped == \E S : cases \in Seq(S)

\* The inductive invariant of RunDirectory.
ConformanceInvariant ==
  /\ RenderingTyped
  /\ OrderIsHidden
  /\ CasesTyped
  /\ ReplayUnderWay
  /\ ReplayReproduces

Recorded(d, pass) == [definition |-> d, decision |-> Actual(d).decision, pass |-> pass]

\* Recording appends one case.
LEMMA RecordAppends ==
  ASSUME CasesTyped, NEW d, NEW pass, Record(d, pass)
  PROVE  /\ CasesTyped'
         /\ Len(cases) \in Nat /\ Len(cases') = Len(cases) + 1
         /\ DOMAIN cases = 1 .. Len(cases) /\ DOMAIN cases' = 1 .. Len(cases) + 1
         /\ \A i \in 1 .. Len(cases) : cases'[i] = cases[i]
         /\ cases'[Len(cases) + 1] = Recorded(d, pass)
<1> DEFINE c == Recorded(d, pass)
<1>1. cases' = Append(cases, c)
  BY DEF Record, Recorded
<1>2. PICK S : cases \in Seq(S)
  BY DEF CasesTyped
<1>3. cases \in Seq(S \union {c}) /\ c \in S \union {c}
  BY <1>2
<1> HIDE DEF c
<1>4. cases' \in Seq(S \union {c})
  BY <1>1, <1>3
<1>5. /\ DOMAIN cases = 1 .. Len(cases) /\ DOMAIN cases' = 1 .. Len(cases) + 1
      /\ Len(cases) \in Nat /\ Len(cases') = Len(cases) + 1
      /\ cases'[Len(cases) + 1] = c
      /\ \A i \in 1 .. Len(cases) : cases'[i] = cases[i]
  BY <1>1, <1>3
<1> QED
  BY <1>4, <1>5 DEF CasesTyped, c

\* Recording one more case leaves the recorded ones as they are.
LEMMA RecordExtends ==
  ASSUME CasesTyped, NEW d, NEW pass, Record(d, pass)
  PROVE  /\ CasesTyped'
         /\ \A i \in DOMAIN cases' :
              \/ i \in DOMAIN cases /\ cases'[i] = cases[i]
              \/ cases'[i] = Recorded(d, pass)
<1> DEFINE n == Len(cases)
<1>1. /\ CasesTyped' /\ n \in Nat
      /\ DOMAIN cases = 1 .. n /\ DOMAIN cases' = 1 .. n + 1
      /\ \A i \in 1 .. n : cases'[i] = cases[i]
      /\ cases'[n + 1] = Recorded(d, pass)
  BY RecordAppends
<1> HIDE DEF n
<1>2. \A i \in 1 .. n + 1 : i \in 1 .. n \/ i = n + 1
  BY <1>1
<1> QED
  BY <1>1, <1>2

\* A reason in the input of a replay not to pass.
Excused(d) ==
  \/ Actual(d).decision # d.expected \/ ~TerminalStands(Actual(d))
  \/ d.reference # Source(d)
  \/ ~Clean(Actual(d).values[1]) \/ ~Clean(Actual(d).values[2])

\* A replay may be recorded if it passes or has a reason not to.
LEMMA RecordKeeps ==
  ASSUME CasesTyped, ReplayReproduces, NEW d, NEW pass \in BOOLEAN, Record(d, pass),
         d.replay /\ ~pass => Excused(d)
  PROVE  CasesTyped' /\ ReplayReproduces'
<1> DEFINE c == Recorded(d, pass)
<1>1. CasesTyped'
      /\ \A i \in DOMAIN cases' : (i \in DOMAIN cases /\ cases'[i] = cases[i]) \/ cases'[i] = c
  BY RecordExtends
<1>2. c.definition = d /\ c.decision = Actual(d).decision /\ c.pass = pass
  BY DEF Recorded
<1> HIDE DEF c
<1>3. ReplayReproduces'
  BY <1>1, <1>2 DEF ReplayReproduces, Excused
<1> QED
  BY <1>1, <1>3

\* Steps that neither record a case nor touch the rendering keep the rest.
LEMMA OthersKeep ==
  ASSUME ConformanceInvariant, UNCHANGED <<cases, rendering>>, pc' # "render"
  PROVE  ConformanceInvariant'
BY DEF ConformanceInvariant, RenderingTyped, OrderIsHidden, CasesTyped, ReplayUnderWay,
       ReplayReproduces, rendering

\* Failing empties the report.
LEMMA FailKeeps ==
  ASSUME ConformanceInvariant, Fail
  PROVE  ConformanceInvariant'
<1>1. cases' = <<>> /\ pc' = "failed" /\ UNCHANGED <<values, text, left>>
  BY DEF Fail, rendering
<1>2. CasesTyped' /\ ReplayReproduces'
  <2>1. cases' \in Seq({}) /\ DOMAIN cases' = {}
    BY <1>1
  <2> QED
    BY <2>1 DEF CasesTyped, ReplayReproduces
<1> QED
  BY <1>1, <1>2 DEF ConformanceInvariant, RenderingTyped, OrderIsHidden, ReplayUnderWay

\* A case that is judged at once gets the verdict it has earned.
LEMMA RunCaseKeeps ==
  ASSUME ConformanceInvariant, RunCase
  PROVE  ConformanceInvariant'
<1>1. Record(Case, Passes(Case)) /\ ~NeedsRendering(Case) /\ UNCHANGED <<values, text, left>>
  BY DEF RunCase, Case, rendering
<1>2. Passes(Case) \in BOOLEAN
  BY Zenon DEF Passes
<1>3. Case.replay /\ ~Passes(Case) => Excused(Case)
  BY DEF Passes, Stands, Excused
<1>4. CasesTyped' /\ ReplayReproduces'
  BY <1>1, <1>2, <1>3, RecordKeeps DEF ConformanceInvariant
<1>5. pc' = "run"
  BY <1>1 DEF Record
<1> QED
  BY <1>1, <1>4, <1>5
     DEF ConformanceInvariant, RenderingTyped, OrderIsHidden, ReplayUnderWay

\* The results of a replay are one result: its artifacts come in two equal pairs of
\* values.
LEMMA ReplayedAlike ==
  ASSUME NEW d, NeedsRendering(d)
  PROVE  /\ Reference(d) = Actual(d)
         /\ ArtifactValues(d, 1) = Actual(d).values[1]
         /\ ArtifactValues(d, 2) = Actual(d).values[2]
         /\ ArtifactValues(d, 3) = Actual(d).values[1]
         /\ ArtifactValues(d, 4) = Actual(d).values[2]
<1>1. Reference(d) = Actual(d)
  BY DEF NeedsRendering, Reference, Actual
<1> QED
  BY <1>1 DEF ArtifactValues

\* Between two artifacts rendered from the same clean values there is no difference
\* to find.
LEMMA CompareReplayKeeps ==
  ASSUME ConformanceInvariant, CompareReplay
  PROVE  ConformanceInvariant'
<1> DEFINE pass == SameArtifacts /\ SameEvidence(Actual(Case), Reference(Case))
<1>1. /\ Record(Case, pass) /\ pc = "render" /\ left = {} /\ Len(artifacts) = 3
      /\ UNCHANGED <<values, text, left>>
  BY DEF CompareReplay, AllRendered, Case, Rendered, rendering
<1>2. /\ NeedsRendering(Case) /\ values = ArtifactValues(Case, 4)
      /\ \A n \in 1 .. 3 : Clean(ArtifactValues(Case, n))
                              => artifacts[n] = Substituted(ArtifactValues(Case, n), {})
  BY <1>1 DEF ConformanceInvariant, ReplayUnderWay
<1>3. SameEvidence(Actual(Case), Reference(Case))
  BY <1>2, ReplayedAlike DEF SameEvidence
<1>4. Clean(Actual(Case).values[1]) /\ Clean(Actual(Case).values[2]) => SameArtifacts
  <2> SUFFICES ASSUME Clean(Actual(Case).values[1]), Clean(Actual(Case).values[2])
               PROVE  SameArtifacts
    OBVIOUS
  <2>1. /\ artifacts[1] = Substituted(Actual(Case).values[1], {})
        /\ artifacts[2] = Substituted(Actual(Case).values[2], {})
        /\ artifacts[3] = Substituted(Actual(Case).values[1], {})
    BY <1>2, ReplayedAlike
  <2>2. text = Substituted(Actual(Case).values[2], {})
    BY <1>1, <1>2, ReplayedAlike DEF ConformanceInvariant, OrderIsHidden
  <2> QED
    BY <2>1, <2>2 DEF SameArtifacts
<1>5. pass \in BOOLEAN
  BY Zenon DEF SameArtifacts, SameEvidence
<1>6. Case.replay /\ ~pass => Excused(Case)
  BY <1>3, <1>4 DEF Excused
<1> HIDE DEF pass
<1>7. CasesTyped' /\ ReplayReproduces'
  BY <1>1, <1>5, <1>6, RecordKeeps DEF ConformanceInvariant
<1>8. pc' = "run"
  BY <1>1 DEF Record
<1> QED
  BY <1>1, <1>7, <1>8
     DEF ConformanceInvariant, RenderingTyped, OrderIsHidden, ReplayUnderWay

\* The next artifact is begun when one is finished.
LEMMA RenderNextKeeps ==
  ASSUME ConformanceInvariant, RenderNext
  PROVE  ConformanceInvariant'
<1> DEFINE m == Len(artifacts)
<1>1. /\ pc = "render" /\ pc' = "render" /\ left = {} /\ m < 3
      /\ artifacts' = Append(artifacts, text)
      /\ StartRendering(ArtifactValues(Case, m + 2))
      /\ UNCHANGED <<definitions, index, cases>>
  BY DEF RenderNext, Rendered, Case, report
<1>2. /\ NeedsRendering(Case) /\ m \in 0 .. 3 /\ values = ArtifactValues(Case, m + 1)
      /\ \A n \in 1 .. m : Clean(ArtifactValues(Case, n))
                              => artifacts[n] = Substituted(ArtifactValues(Case, n), {})
  BY <1>1 DEF ConformanceInvariant, ReplayUnderWay
<1>3. PICK S : artifacts \in Seq(S)
  BY <1>1 DEF ConformanceInvariant, ReplayUnderWay
<1>4. artifacts \in Seq(S \union {text}) /\ text \in S \union {text}
  BY <1>3
<1>5. /\ artifacts' \in Seq(S \union {text}) /\ Len(artifacts') = m + 1
      /\ artifacts'[m + 1] = text
      /\ \A n \in 1 .. m : artifacts'[n] = artifacts[n]
  BY <1>1, <1>4
<1>6. Clean(values) => text = Substituted(values, {})
  BY <1>1 DEF ConformanceInvariant, OrderIsHidden
<1>7. RenderingTyped' /\ OrderIsHidden'
  BY <1>1, StartHidden
<1>8. Case' = Case
  BY <1>1 DEF Case
<1> HIDE DEF m
<1>9. \A n \in 1 .. m + 1 : n \in 1 .. m \/ n = m + 1
  BY <1>2
<1>10. \A n \in 1 .. Len(artifacts') :
         Clean(ArtifactValues(Case, n)) => artifacts'[n] = Substituted(ArtifactValues(Case, n), {})
  BY <1>2, <1>5, <1>6, <1>9
<1>11. values' = ArtifactValues(Case, Len(artifacts') + 1) /\ Len(artifacts') \in 0 .. 3
  BY <1>1, <1>2, <1>5 DEF StartRendering
<1>12. ReplayUnderWay'
  BY <1>1, <1>2, <1>5, <1>8, <1>10, <1>11 DEF ReplayUnderWay
<1> QED
  BY <1>1, <1>7, <1>12 DEF ConformanceInvariant, CasesTyped, ReplayReproduces

\* Every step keeps the invariant.
LEMMA ConformanceStep ==
  ConformanceInvariant /\ [Next]_vars => ConformanceInvariant'
<1> SUFFICES ASSUME ConformanceInvariant, [Next]_vars PROVE ConformanceInvariant'
  OBVIOUS
<1>1. CASE Load
  BY <1>1, OthersKeep DEF Load, report
<1>2. CASE RefuseSuite \/ SourceMissing
  BY <1>2, FailKeeps DEF RefuseSuite, SourceMissing
<1>3. CASE RunCase
  BY <1>3, RunCaseKeeps
<1>4. CASE RenderCase
  <2>1. /\ StartRendering(ArtifactValues(Case, 1)) /\ NeedsRendering(Case) /\ pc' = "render"
        /\ artifacts' = <<>> /\ UNCHANGED <<definitions, index, cases>>
    BY <1>4 DEF RenderCase, Case, report
  <2>2. RenderingTyped' /\ OrderIsHidden'
    BY <2>1, StartHidden
  <2>3. Len(artifacts') = 0 /\ artifacts' \in Seq({}) /\ Case' = Case
        /\ values' = ArtifactValues(Case, 1)
    BY <2>1 DEF Case, StartRendering
  <2>4. ReplayUnderWay'
    BY <2>1, <2>3 DEF ReplayUnderWay
  <2> QED
    BY <2>1, <2>2, <2>4 DEF ConformanceInvariant, CasesTyped, ReplayReproduces
<1>5. CASE ReplaceKey
  <2>1. PICK k \in left : Replace(k)
    BY <1>5 DEF ReplaceKey
  <2>2. RenderingTyped' /\ OrderIsHidden'
    BY <2>1, ReplaceHidden DEF ConformanceInvariant
  <2>3. values' = values /\ UNCHANGED <<pc, definitions, index, artifacts, cases>>
    BY <1>5, <2>1 DEF ReplaceKey, Replace, report
  <2>4. ReplayUnderWay'
    BY <2>3 DEF ConformanceInvariant, ReplayUnderWay, Case
  <2> QED
    BY <2>2, <2>3, <2>4 DEF ConformanceInvariant, CasesTyped, ReplayReproduces
<1>6. CASE RenderNext
  BY <1>6, RenderNextKeeps
<1>7. CASE CompareReplay
  BY <1>7, CompareReplayKeeps
<1>8. CASE Finish
  BY <1>8, OthersKeep DEF Finish
<1>9. CASE UNCHANGED vars
  BY <1>9 DEF vars, report, rendering, ConformanceInvariant, RenderingTyped, OrderIsHidden,
              CasesTyped, ReplayUnderWay, Case, ReplayReproduces
<1> QED
  BY <1>1, <1>2, <1>3, <1>4, <1>5, <1>6, <1>7, <1>8, <1>9 DEF Next, Step

\* The invariant holds before anything is loaded.
LEMMA ConformanceInit == Init => ConformanceInvariant
<1> SUFFICES ASSUME Init PROVE ConformanceInvariant
  OBVIOUS
<1>1. RenderingTyped
  <2>1. text = [s \in Slots |-> {}]
    BY DEF Init
  <2>2. text = [s \in Slots |-> text[s]]
    BY <2>1
  <2> QED
    BY <2>2 DEF Init, RenderingTyped
<1>2. OrderIsHidden
  <2>1. Substituted(values, left) = [s \in Slots |-> {}]
    BY DEF Init, Substituted, Keys
  <2> QED
    BY <2>1 DEF Init, OrderIsHidden
<1>3. cases \in Seq({}) /\ DOMAIN cases = {} /\ pc = "load"
  BY DEF Init
<1> QED
  BY <1>1, <1>2, <1>3 DEF ConformanceInvariant, CasesTyped, ReplayUnderWay, ReplayReproduces

\* What holds throughout RunDirectory.
THEOREM ConformanceCorrect == Spec => []ConformanceInvariant
BY ConformanceInit, ConformanceStep, PTL DEF Spec

\* RenderParser does not show the iteration order of its map, for any template and
\* any values that bring in no placeholder of each other.
THEOREM RenderingIsConfluent == Spec => []OrderIsHidden
<1>1. ConformanceInvariant => OrderIsHidden
  BY DEF ConformanceInvariant
<1> QED
  BY <1>1, ConformanceCorrect, PTL

\* A byte replay of clean token names can fail only for its input.
THEOREM ReplaysReproduce == Spec => []ReplayReproduces
<1>1. ConformanceInvariant => ReplayReproduces
  BY DEF ConformanceInvariant
<1> QED
  BY <1>1, ConformanceCorrect, PTL

-----------------------------------------------------------------------------
(* The counters.                                                           *)

\* What the denominator check leaves: every fixed case, each once.
DefinitionsWhole ==
  /\ Len(definitions) \in Nat /\ DOMAIN definitions = 1 .. Len(definitions)
  /\ Len(definitions) = Cardinality(FixedCaseIDs)
  /\ {definitions[i].id : i \in DOMAIN definitions} = FixedCaseIDs

Counted ==
  /\ executed = Len(cases)
  /\ failed = Cardinality({i \in DOMAIN cases : ~cases[i].pass})
  /\ unknown = Cardinality({i \in DOMAIN cases : cases[i].decision = "UNKNOWN"})

\* The report lists the cases that have run, in the order of the definitions.
Listing ==
  /\ DefinitionsWhole
  /\ index \in 1 .. Len(definitions) + 1
  /\ Len(cases) = index - 1
  /\ \A i \in DOMAIN cases : cases[i].definition = definitions[i]

\* The inductive invariant of the report.
ReportInvariant ==
  /\ suite \in Suites
  /\ CasesTyped
  /\ Counted
  /\ pc = "load" => cases = <<>> /\ index = 1
  /\ pc \in {"run", "render", "done"} => Listing
  /\ pc = "render" => index <= Len(definitions)
  /\ pc = "done" => index = Len(definitions) + 1
  /\ allPass => pc = "done" /\ failed = 0

\* As many definitions as fixed cases, and all fixed cases among them: no other id,
\* and none twice.
LEMMA WholeIsFixed ==
  ASSUME suite \in Suites, Whole
  PROVE  /\ Len(suite) \in Nat /\ DOMAIN suite = 1 .. Len(suite)
         /\ Len(suite) = Cardinality(FixedCaseIDs)
         /\ {suite[i].id : i \in DOMAIN suite} = FixedCaseIDs
<1> DEFINE I == {suite[i].id : i \in DOMAIN suite}
           F == [i \in DOMAIN suite |-> suite[i].id]
<1>1. Len(suite) \in Nat /\ DOMAIN suite = 1 .. Len(suite)
  BY ListAssumption
<1>2. Len(suite) = Cardinality(FixedCaseIDs) /\ FixedCaseIDs \subseteq I
  BY DEF Whole, Ids
<1>3. IsFiniteSet(DOMAIN suite) /\ Cardinality(DOMAIN suite) = Len(suite)
  <2>1. \A n \in Nat : IsFiniteSet(1 .. n) /\ Cardinality(1 .. n) = n
    <3> TAKE n \in Nat
    <3>1. IsFiniteSet(1 .. n) /\ Cardinality(1 .. n) = IF 1 > n THEN 0 ELSE n - 1 + 1
      BY FS_Interval
    <3> QED
      BY <3>1
  <2> HIDE DEF F, I
  <2> QED
    BY <1>1, <2>1, Zenon
<1>4. F \in Surjection(DOMAIN suite, I)
  <2>1. F \in [DOMAIN suite -> I]
    OBVIOUS
  <2>2. \A x \in I : \E i \in DOMAIN suite : F[i] = x
    OBVIOUS
  <2> HIDE DEF F, I
  <2> QED
    BY <2>1, <2>2, Zenon DEF Surjection
<1>5. IsFiniteSet(I) /\ Cardinality(I) <= Cardinality(DOMAIN suite)
  <2> HIDE DEF F, I
  <2> QED
    BY <1>3, <1>4, FS_Surjection, Zenon
<1> HIDE DEF I
<1>6. Cardinality(FixedCaseIDs) <= Cardinality(I)
      /\ (Cardinality(FixedCaseIDs) = Cardinality(I) => FixedCaseIDs = I)
  BY <1>2, <1>5, FS_Subset
<1>7. Cardinality(I) \in Nat /\ Cardinality(FixedCaseIDs) \in Nat
  BY <1>5, FixedAssumption, FS_CardinalityType
<1>8. FixedCaseIDs = I
  BY <1>2, <1>3, <1>5, <1>6, <1>7
<1> QED
  BY <1>1, <1>2, <1>8 DEF I

\* Loading leaves the whole fixed denominator, whatever order the sort finds.
LEMMA LoadWhole ==
  ASSUME suite \in Suites, Load
  PROVE  DefinitionsWhole'
<1>1. /\ Len(suite) \in Nat /\ DOMAIN suite = 1 .. Len(suite)
      /\ Len(suite) = Cardinality(FixedCaseIDs)
      /\ {suite[i].id : i \in DOMAIN suite} = FixedCaseIDs
  BY WholeIsFixed DEF Load
<1>2. PICK order : /\ order \in [DOMAIN suite -> DOMAIN suite]
                   /\ \A i \in DOMAIN suite : \E j \in DOMAIN suite : order[j] = i
                   /\ definitions' = [i \in DOMAIN suite |-> suite[order[i]]]
  BY Zenon DEF Load
<1>3. DOMAIN definitions' = 1 .. Len(suite) /\ Len(definitions') = Len(suite)
  BY <1>1, <1>2
<1>4. {definitions'[i].id : i \in DOMAIN suite} = {suite[i].id : i \in DOMAIN suite}
  BY <1>2
<1> QED
  BY <1>1, <1>3, <1>4 DEF DefinitionsWhole

\* Counting one more.
LEMMA OneMore ==
  ASSUME NEW n \in Nat, NEW A \in SUBSET (1 .. n), NEW P \in BOOLEAN
  PROVE  Cardinality(A \union {k \in {n + 1} : P})
           = IF P THEN Cardinality(A) + 1 ELSE Cardinality(A)
<1>1. IsFiniteSet(A) /\ n + 1 \notin A
  <2>1. IsFiniteSet(1 .. n)
    BY FS_Interval
  <2>2. IsFiniteSet(A)
    BY <2>1, FS_Subset
  <2>3. n + 1 \notin 1 .. n
    OBVIOUS
  <2> QED
    BY <2>2, <2>3
<1>2. CASE P
  <2>1. A \union {k \in {n + 1} : P} = A \union {n + 1}
    BY <1>2
  <2> QED
    BY <1>1, <1>2, <2>1, FS_AddElement
<1>3. CASE ~P
  <2>1. A \union {k \in {n + 1} : P} = A
    BY <1>3
  <2> QED
    BY <1>3, <2>1
<1> QED
  BY <1>2, <1>3

\* Recording a case counts it.
LEMMA RecordCounts ==
  ASSUME CasesTyped, Counted, NEW d, NEW pass \in BOOLEAN, Record(d, pass)
  PROVE  Counted'
<1> DEFINE n == Len(cases)
           A == {i \in DOMAIN cases : ~cases[i].pass}
           B == {i \in DOMAIN cases : cases[i].decision = "UNKNOWN"}
           P == ~pass
           Q == Actual(d).decision = "UNKNOWN"
<1>1. /\ n \in Nat /\ Len(cases') = n + 1
      /\ DOMAIN cases = 1 .. n /\ DOMAIN cases' = 1 .. n + 1
      /\ \A i \in 1 .. n : cases'[i] = cases[i]
      /\ cases'[n + 1].pass = pass /\ cases'[n + 1].decision = Actual(d).decision
  <2>1. /\ n \in Nat /\ Len(cases') = n + 1
        /\ DOMAIN cases = 1 .. n /\ DOMAIN cases' = 1 .. n + 1
        /\ \A i \in 1 .. n : cases'[i] = cases[i]
        /\ cases'[n + 1] = Recorded(d, pass)
    BY RecordAppends
  <2>2. /\ Recorded(d, pass).pass = pass
        /\ Recorded(d, pass).decision = Actual(d).decision
    BY DEF Recorded
  <2> HIDE DEF n
  <2> QED
    BY <2>1, <2>2
<1> HIDE DEF n
<1>2. 1 .. n + 1 = (1 .. n) \union {n + 1}
  BY <1>1
<1>3. {i \in DOMAIN cases' : ~cases'[i].pass} = A \union {k \in {n + 1} : P}
  BY <1>1, <1>2
<1>4. {i \in DOMAIN cases' : cases'[i].decision = "UNKNOWN"} = B \union {k \in {n + 1} : Q}
  BY <1>1, <1>2
<1>5. A \in SUBSET (1 .. n) /\ B \in SUBSET (1 .. n) /\ P \in BOOLEAN /\ Q \in BOOLEAN
  BY <1>1
<1> HIDE DEF A, B, P, Q
<1>6. /\ Cardinality(A \union {k \in {n + 1} : P}) = IF P THEN Cardinality(A) + 1 ELSE Cardinality(A)
      /\ Cardinality(B \union {k \in {n + 1} : Q}) = IF Q THEN Cardinality(B) + 1 ELSE Cardinality(B)
  BY <1>1, <1>5, OneMore
<1>7. /\ executed' = executed + 1
      /\ failed' = IF P THEN failed + 1 ELSE failed
      /\ unknown' = IF Q THEN unknown + 1 ELSE unknown
  BY DEF Record, P, Q
<1>8. executed = n /\ failed = Cardinality(A) /\ unknown = Cardinality(B)
  BY DEF Counted, n, A, B
<1> QED
  BY <1>1, <1>3, <1>4, <1>6, <1>7, <1>8 DEF Counted

\* A recorded case is the next in the list.
LEMMA RecordReports ==
  ASSUME ReportInvariant, pc \in {"run", "render"}, index <= Len(definitions),
         NEW pass \in BOOLEAN, Record(Case, pass)
  PROVE  ReportInvariant'
<1>1. Counted' /\ CasesTyped'
  BY RecordCounts, RecordAppends DEF ReportInvariant
<1>2. /\ pc' = "run" /\ index' = index + 1 /\ UNCHANGED <<suite, definitions, allPass>>
      /\ ~allPass
  BY DEF Record, ReportInvariant
<1> DEFINE n == Len(cases)
<1>3. /\ n \in Nat /\ Len(cases') = n + 1
      /\ DOMAIN cases = 1 .. n /\ DOMAIN cases' = 1 .. n + 1
      /\ \A i \in 1 .. n : cases'[i] = cases[i]
      /\ cases'[n + 1].definition = definitions[index]
  <2>1. /\ n \in Nat /\ Len(cases') = n + 1
        /\ DOMAIN cases = 1 .. n /\ DOMAIN cases' = 1 .. n + 1
        /\ \A i \in 1 .. n : cases'[i] = cases[i]
        /\ cases'[n + 1] = Recorded(Case, pass)
    BY RecordAppends DEF ReportInvariant
  <2>2. Recorded(Case, pass).definition = definitions[index]
    BY DEF Recorded, Case
  <2> HIDE DEF n
  <2> QED
    BY <2>1, <2>2
<1>4. /\ DefinitionsWhole /\ index \in 1 .. Len(definitions) + 1 /\ n = index - 1
      /\ \A i \in 1 .. n : cases[i].definition = definitions[i]
      /\ Len(definitions) \in Nat
  BY <1>3 DEF ReportInvariant, Listing, DefinitionsWhole
<1> HIDE DEF n
<1>5. DefinitionsWhole'
  BY <1>2, <1>4 DEF DefinitionsWhole
<1>6. index' \in 1 .. Len(definitions') + 1 /\ Len(cases') = index' - 1
  BY <1>2, <1>3, <1>4
<1>7. \A i \in DOMAIN cases' : cases'[i].definition = definitions'[i]
  <2>1. \A i \in 1 .. n + 1 : i \in 1 .. n \/ (i = n + 1 /\ i = index)
    BY <1>3, <1>4
  <2> QED
    BY <1>2, <1>3, <1>4, <2>1
<1>8. Listing'
  BY <1>5, <1>6, <1>7 DEF Listing
<1> QED
  BY <1>1, <1>2, <1>8 DEF ReportInvariant

\* A failing run returns an empty report.
LEMMA FailReports ==
  ASSUME ReportInvariant, Fail
  PROVE  ReportInvariant'
<1>1. /\ cases' = <<>> /\ executed' = 0 /\ unknown' = 0 /\ failed' = 0 /\ ~allPass'
      /\ pc' = "failed" /\ suite' = suite
  BY DEF Fail
<1>2. cases' \in Seq({}) /\ DOMAIN cases' = {} /\ Len(cases') = 0
  BY <1>1
<1>3. Counted'
  <2>1. /\ {i \in DOMAIN cases' : ~cases'[i].pass} = {}
        /\ {i \in DOMAIN cases' : cases'[i].decision = "UNKNOWN"} = {}
    BY <1>2
  <2> QED
    BY <1>1, <1>2, <2>1, FS_EmptySet DEF Counted
<1> QED
  BY <1>1, <1>2, <1>3 DEF ReportInvariant, CasesTyped

\* Nothing is listed at the start.
LEMMA ReportInit == Init => ReportInvariant
<1> SUFFICES ASSUME Init PROVE ReportInvariant
  OBVIOUS
<1>1. /\ cases = <<>> /\ executed = 0 /\ unknown = 0 /\ failed = 0 /\ ~allPass
      /\ pc = "load" /\ suite \in Suites /\ index = 1
  BY DEF Init
<1>2. cases \in Seq({}) /\ DOMAIN cases = {} /\ Len(cases) = 0
  BY <1>1
<1>3. Counted
  <2>1. /\ {i \in DOMAIN cases : ~cases[i].pass} = {}
        /\ {i \in DOMAIN cases : cases[i].decision = "UNKNOWN"} = {}
    BY <1>2
  <2> QED
    BY <1>1, <1>2, <2>1, FS_EmptySet DEF Counted
<1> QED
  BY <1>1, <1>2, <1>3 DEF ReportInvariant, CasesTyped

\* Every step keeps the report's invariant.
LEMMA ReportStep == ReportInvariant /\ [Next]_vars => ReportInvariant'
<1> SUFFICES ASSUME ReportInvariant, [Next]_vars PROVE ReportInvariant'
  OBVIOUS
<1>1. ASSUME UNCHANGED <<suite, definitions, index, report>>,
             pc = "run" => pc' \in {"run", "render"},
             pc # "run" => pc' = pc,
             pc' = "render" => index <= Len(definitions)
      PROVE  ReportInvariant'
  BY <1>1 DEF ReportInvariant, CasesTyped, Counted, Listing, DefinitionsWhole, report
<1>2. CASE Load
  <2>1. DefinitionsWhole'
    BY <1>2, LoadWhole DEF ReportInvariant
  <2>2. /\ cases = <<>> /\ index = 1 /\ pc' = "run" /\ ~allPass
        /\ UNCHANGED <<suite, index, cases, executed, unknown, failed, allPass>>
    BY <1>2 DEF Load, report, ReportInvariant
  <2>3. Listing'
    <3>1. Len(cases') = 0 /\ DOMAIN cases' = {}
      BY <2>2
    <3>2. 1 \in 1 .. Len(definitions') + 1
      BY <2>1 DEF DefinitionsWhole
    <3> QED
      BY <2>1, <2>2, <3>1, <3>2 DEF Listing
  <2> QED
    BY <2>2, <2>3 DEF ReportInvariant, CasesTyped, Counted
<1>3. CASE RefuseSuite \/ SourceMissing
  BY <1>3, FailReports DEF RefuseSuite, SourceMissing
<1>4. CASE RunCase
  <2>1. Passes(Case) \in BOOLEAN
    BY Zenon DEF Passes
  <2> QED
    BY <1>4, <2>1, RecordReports DEF RunCase, Running, Case
<1>5. CASE RenderCase
  BY <1>1, <1>5 DEF RenderCase, Running
<1>6. CASE ReplaceKey
  BY <1>1, <1>6 DEF ReplaceKey, ReportInvariant
<1>7. CASE RenderNext
  BY <1>1, <1>7 DEF RenderNext, ReportInvariant
<1>8. CASE CompareReplay
  <2> DEFINE pass == SameArtifacts /\ SameEvidence(Actual(Case), Reference(Case))
  <2>1. index <= Len(definitions) /\ pc = "render" /\ Record(Case, pass)
    BY <1>8 DEF CompareReplay, AllRendered, Case, ReportInvariant
  <2>2. pass \in BOOLEAN
    BY Zenon DEF SameArtifacts, SameEvidence
  <2> HIDE DEF pass
  <2> QED
    BY <2>1, <2>2, RecordReports
<1>9. CASE Finish
  <2>1. /\ pc = "run" /\ pc' = "done" /\ index > Len(definitions) /\ allPass' = (failed = 0)
        /\ UNCHANGED <<suite, definitions, index, cases, executed, unknown, failed>>
    BY <1>9 DEF Finish
  <2>2. index = Len(definitions) + 1
    BY <2>1 DEF ReportInvariant, Listing, DefinitionsWhole
  <2> QED
    BY <2>1, <2>2 DEF ReportInvariant, CasesTyped, Counted, Listing, DefinitionsWhole
<1>10. CASE UNCHANGED vars
  BY <1>10 DEF vars, report, ReportInvariant, CasesTyped, Counted, Listing, DefinitionsWhole
<1> QED
  BY <1>2, <1>3, <1>4, <1>5, <1>6, <1>7, <1>8, <1>9, <1>10 DEF Next, Step

\* AllPass means every fixed case once, passed, and nothing else; the counters are
\* those of the list, for any number of fixed cases and any case root.
THEOREM AllPassWhole == Spec => []AllPassIsWhole
<1>1. ReportInvariant => AllPassIsWhole
  <2> SUFFICES ASSUME ReportInvariant, allPass
               PROVE  /\ {cases[i].definition.id : i \in DOMAIN cases} = FixedCaseIDs
                      /\ Len(cases) = Cardinality(FixedCaseIDs)
                      /\ \A i \in DOMAIN cases : cases[i].pass
    BY DEF ReportInvariant, Counted, AllPassIsWhole
  <2>1. /\ DefinitionsWhole /\ index = Len(definitions) + 1 /\ Len(cases) = index - 1
        /\ \A i \in DOMAIN cases : cases[i].definition = definitions[i]
        /\ Cardinality({i \in DOMAIN cases : ~cases[i].pass}) = 0
    BY DEF ReportInvariant, Listing, Counted
  <2>2. Len(cases) = Len(definitions) /\ DOMAIN cases = 1 .. Len(cases)
    BY <2>1 DEF DefinitionsWhole, ReportInvariant, CasesTyped
  <2>3. DOMAIN cases = DOMAIN definitions
    BY <2>1, <2>2 DEF DefinitionsWhole
  <2>4. {i \in DOMAIN cases : ~cases[i].pass} = {}
    <3> DEFINE A == {i \in DOMAIN cases : ~cases[i].pass}
    <3>1. IsFiniteSet(1 .. Len(cases)) /\ A \in SUBSET (1 .. Len(cases))
      BY <2>1, <2>2, FS_Interval DEF DefinitionsWhole
    <3>2. IsFiniteSet(A)
      BY <3>1, FS_Subset
    <3> HIDE DEF A
    <3> QED
      BY <2>1, <3>2, FS_EmptySet DEF A
  <2>5. \A i \in DOMAIN cases : cases[i].definition.id = definitions[i].id
    BY <2>1
  <2> QED
    BY <2>1, <2>2, <2>3, <2>4, <2>5 DEF DefinitionsWhole
<1> QED
  BY <1>1, ReportInit, ReportStep, PTL DEF Spec
=============================================================================
