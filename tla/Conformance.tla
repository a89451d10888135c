----------------------------- MODULE Conformance -----------------------------
(***************************************************************************)
(* conformance.RunDirectory: the case directories are loaded, counted and  *)
(* held against the fixed denominator, then every case is bootstrapped and *)
(* judged, with a replay or a comparison to a reference where it asks for  *)
(* one.                                                                    *)
(*                                                                         *)
(* A directory is what its case.json says, together with the bytes found   *)
(* at the three paths it leads to.  compiler.Bootstrap enters by what it   *)
(* returns on those bytes; the artifacts of a replay are rendered step by  *)
(* step, since the order of the replacements is where two calls on equal   *)
(* bytes may differ.                                                       *)
(***************************************************************************)
EXTENDS Naturals, Sequences, FiniteSets, Renderer

CONSTANTS
  FixedCaseIDs,   \* the fixed cases, named by numbers in the order of their ids
  Suites,         \* the case roots that are tried, as sequences of directories
  Unreadable,     \* a case.json that is missing, malformed or incomplete
  Missing,        \* no file at a path
  NoDigest,       \* a terminal digest that has not been set
  Bootstrapped    \* what compiler.Bootstrap returns on each source

ASSUME FixedAssumption == IsFiniteSet(FixedCaseIDs)

ASSUME ListAssumption ==
  \A suite \in Suites : Len(suite) \in Nat /\ DOMAIN suite = 1 .. Len(suite)

ASSUME SuitesAssumption ==
  \A suite \in Suites : \A i \in DOMAIN suite :
    suite[i] # Unreadable =>
      {suite[i].own, suite[i].shared, suite[i].reference}
        \subseteq DOMAIN Bootstrapped \union {Missing}

VARIABLES
  suite,        \* the case root
  pc,           \* "load", "run", "render", then "done" or "failed"
  definitions,  \* the definitions, sorted by id
  index,        \* the case that runs
  artifacts,    \* of the replay that is rendered: the artifacts that are finished
  cases,        \* Report.Cases
  executed, unknown, failed,   \* the counters of the report
  allPass       \* Report.AllPass

report == <<cases, executed, unknown, failed, allPass>>

vars == <<suite, pc, definitions, index, artifacts, report, rendering>>

Init ==
  /\ suite \in Suites
  /\ pc = "load"
  /\ definitions = <<>>
  /\ index = 1
  /\ cases = <<>>
  /\ executed = 0 /\ unknown = 0 /\ failed = 0
  /\ allPass = FALSE
  /\ values = [k \in Keys |-> {}]
  /\ text = [s \in Slots |-> {}]
  /\ artifacts = <<>>
  /\ left = {}

-----------------------------------------------------------------------------
(* Loading.                                                                *)

Loaded == {i \in DOMAIN suite : suite[i] # Unreadable}

Ids == {suite[i].id : i \in Loaded}

\* A denominator check that only looks for the missing cases.
WholeWithExtras == Loaded = DOMAIN suite /\ FixedCaseIDs \subseteq Ids

\* Every directory has a definition, they are as many as the fixed cases, and no
\* fixed case is missing.
Whole ==
  /\ Loaded = DOMAIN suite
  /\ Len(suite) = Cardinality(FixedCaseIDs)
  /\ FixedCaseIDs \subseteq Ids

Sorted(s) == \A i, j \in DOMAIN s : i < j => s[i].id <= s[j].id

\* sort.Slice puts the definitions in the order of their ids.
Load ==
  /\ pc = "load"
  /\ Whole
  /\ \E order \in [DOMAIN suite -> DOMAIN suite] :
       /\ \A i \in DOMAIN suite : \E j \in DOMAIN suite : order[j] = i
       /\ definitions' = [i \in DOMAIN suite |-> suite[order[i]]]
  /\ Sorted(definitions')
  /\ pc' = "run"
  /\ UNCHANGED <<suite, index, artifacts, report, rendering>>

\* RunDirectory returns an empty report with its error.
Fail ==
  /\ pc' = "failed"
  /\ cases' = <<>>
  /\ executed' = 0 /\ unknown' = 0 /\ failed' = 0
  /\ allPass' = FALSE
  /\ UNCHANGED <<suite, definitions, index, artifacts, rendering>>

RefuseSuite == pc = "load" /\ ~Whole /\ Fail

-----------------------------------------------------------------------------
(* Judging a case.                                                         *)

\* The source is looked up in the directory of the case, then beside it.
Source(d) == IF d.own # Missing THEN d.own ELSE d.shared

Actual(d) == Bootstrapped[Source(d)]

Reference(d) == Bootstrapped[d.reference]

\* validateTerminal: the terminal record names the decision, its digest has been
\* taken, and a record of UNKNOWN has all six fields.  (ReceiptsAgree and
\* UnknownIsAccountable of Bootstrap say that it never objects.)
TerminalStands(r) ==
  /\ r.terminal = r.decision /\ r.digest # NoDigest
  /\ r.decision = "UNKNOWN" => r.accountable

\* validateChange: the digests that had to change differ from the reference's,
\* whatever the reference's own decision is.
Changed(d) ==
  /\ d.reference # Missing
  /\ d.syntax => Actual(d).tree # Reference(d).tree
  /\ d.semantic => Actual(d).ir # Reference(d).ir

\* The case has come as far as the checks that its definition asks for.
Stands(d) == Actual(d).decision = d.expected /\ TerminalStands(Actual(d))

\* A replay that comes to comparing artifacts; a result of a call that has ended
\* before they are rendered has none.
NeedsRendering(d) ==
  d.replay /\ Stands(d) /\ d.reference = Source(d) /\ Actual(d).rendered

\* The artifacts of a replay in the order of their rendering: those of the case,
\* then those of the reference.
ArtifactValues(d, n) ==
  IF n <= 2 THEN Actual(d).values[n] ELSE Reference(d).values[n - 2]

\* The judgement on any other case: the else-if chain asks for the changes only
\* where no replay is asked for.
Passes(d) ==
  /\ Stands(d)
  /\ IF d.replay
     THEN d.reference = Source(d)
     ELSE d.syntax \/ d.semantic => Changed(d)

Record(d, pass) ==
  /\ cases' = Append(cases, [definition |-> d, decision |-> Actual(d).decision, pass |-> pass])
  /\ executed' = executed + 1
  /\ unknown' = IF Actual(d).decision = "UNKNOWN" THEN unknown + 1 ELSE unknown
  /\ failed' = IF pass THEN failed ELSE failed + 1
  /\ index' = index + 1
  /\ pc' = "run"
  /\ UNCHANGED <<suite, definitions, allPass>>

Running == pc = "run" /\ index <= Len(definitions)

\* A run that waits for a source to appear.
SourceAwaited ==
  /\ Running
  /\ Source(definitions[index]) = Missing
  /\ UNCHANGED vars

\* A source at neither path ends the whole run.
SourceMissing ==
  /\ Running
  /\ Source(definitions[index]) = Missing
  /\ Fail

RunCase ==
  LET d == definitions[index] IN
    /\ Running
    /\ Source(d) # Missing
    /\ ~NeedsRendering(d)
    /\ Record(d, Passes(d))
    /\ UNCHANGED <<artifacts, rendering>>

\* The case and its reference are bootstrapped one after the other.
RenderCase ==
  LET d == definitions[index] IN
    /\ Running
    /\ Source(d) # Missing
    /\ NeedsRendering(d)
    /\ StartRendering(ArtifactValues(d, 1))
    /\ artifacts' = <<>>
    /\ pc' = "render"
    /\ UNCHANGED <<suite, definitions, index, report>>

ReplaceKey ==
  /\ pc = "render"
  /\ \E k \in left : Replace(k)
  /\ UNCHANGED <<suite, pc, definitions, index, artifacts, report>>

\* A rendering that takes an artifact before it is complete.
RenderNextEarly ==
  /\ pc = "render"
  /\ Len(artifacts) < 3
  /\ artifacts' = Append(artifacts, text)
  /\ StartRendering(ArtifactValues(definitions[index], Len(artifacts) + 2))
  /\ UNCHANGED <<suite, pc, definitions, index, report>>

RenderNext ==
  /\ pc = "render"
  /\ Rendered /\ Len(artifacts) < 3
  /\ artifacts' = Append(artifacts, text)
  /\ StartRendering(ArtifactValues(definitions[index], Len(artifacts) + 2))
  /\ UNCHANGED <<suite, pc, definitions, index, report>>

AllRendered == pc = "render" /\ Rendered /\ Len(artifacts) = 3

SameArtifacts == artifacts[1] = artifacts[3] /\ artifacts[2] = text

\* What the decision evidence of two results says about them.
SameEvidence(r, other) == r.generations = other.generations /\ r.digest = other.digest

CompareReplay ==
  LET d == definitions[index] IN
    /\ AllRendered
    /\ Record(d, SameArtifacts /\ SameEvidence(Actual(d), Reference(d)))
    /\ UNCHANGED <<artifacts, rendering>>

Finish ==
  /\ pc = "run"
  /\ index > Len(definitions)
  /\ allPass' = (failed = 0)
  /\ pc' = "done"
  /\ UNCHANGED <<suite, definitions, index, artifacts, cases, executed, unknown, failed, rendering>>

Step ==
  \/ Load \/ RefuseSuite
  \/ SourceMissing \/ RunCase
  \/ RenderCase \/ ReplaceKey \/ RenderNext \/ CompareReplay
  \/ Finish

Next == Step \/ (pc \in {"done", "failed"} /\ UNCHANGED vars)

\* RunDirectory is one sequential call.
Spec == Init /\ [][Next]_vars /\ WF_vars(Step)

-----------------------------------------------------------------------------
(* Properties.                                                             *)

\* Byte replay fails for a reason in its input only: other bytes, another decision
\* or record, or a token that is named like a placeholder, never for the iteration
\* order of a map (contract-v1.md:36-37, compiler.go:196).
ReplayReproduces ==
  \A i \in DOMAIN cases :
    LET c == cases[i]  d == c.definition IN
      d.replay /\ ~c.pass =>
        \/ c.decision # d.expected \/ ~TerminalStands(Actual(d))
        \/ d.reference # Source(d)
        \/ ~Clean(Actual(d).values[1]) \/ ~Clean(Actual(d).values[2])

\* "All parser-source differences become evidence, not hidden side effects"
\* (compiler.go:47-49): parsers that two calls have rendered from the same bytes
\* differ only where the evidence of the calls differs.
DifferencesAreEvidence ==
  AllRendered =>
    LET d == definitions[index] IN
      SameArtifacts \/ ~SameEvidence(Actual(d), Reference(d))

\* The report counts what it lists, and AllPass is never less than all of the
\* fixed denominator: each fixed case once, passed, and nothing else
\* (conformance.go:86-98, 129-139).
AllPassIsWhole ==
  /\ executed = Len(cases)
  /\ failed = Cardinality({i \in DOMAIN cases : ~cases[i].pass})
  /\ unknown = Cardinality({i \in DOMAIN cases : cases[i].decision = "UNKNOWN"})
  /\ allPass =>
       /\ {cases[i].definition.id : i \in DOMAIN cases} = FixedCaseIDs
       /\ Len(cases) = Cardinality(FixedCaseIDs)
       /\ \A i \in DOMAIN cases : cases[i].pass

\* A report or an error is returned for every case root.
Reports == <>(pc \in {"done", "failed"})
=============================================================================
