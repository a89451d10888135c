------------------------------ MODULE Evidence ------------------------------
(***************************************************************************)
(* evidence.Command: the five phases of ci-evidence, of which the fourth   *)
(* runs the conformance command as a child process and reads its report    *)
(* back from the disk, composed with the other commands.                   *)
(***************************************************************************)
EXTENDS CommandLine

\* A later failure that replaces the first.
NotedLast(phase) == firstErr' = phase

Noted(phase) == firstErr' = IF firstErr = "none" THEN phase ELSE firstErr

NextPhase == [compile |-> "build", build |-> "test", test |-> "judge"]

\* Phases of which the first to fail ends the command.
PhaseAborts ==
  /\ pc \in DOMAIN NextPhase
  /\ \/ pc' = NextPhase[pc] /\ UNCHANGED <<disk, runs, input, local>>
     \/ Exit("error")

\* compile, build and test: the command that go runs exits with 0 or not.
Phase ==
  /\ pc \in DOMAIN NextPhase
  /\ \/ UNCHANGED <<failures, firstErr>>
     \/ failures' = failures \union {pc} /\ Noted(pc)
  /\ pc' = NextPhase[pc]
  /\ UNCHANGED <<disk, runs, input, open, verdict, seen>>

\* The error of the integration run is dropped, only the failing tests among its
\* events count: a package that does not build has none, and counts stops
\* silently at a line that its scanner cannot hold.
Integrate ==
  /\ pc = "integration"
  /\ \/ UNCHANGED <<failures, firstErr>>
     \/ failures' = failures \union {"integration"} /\ Noted("integration")
     \/ failures' = failures \union {"unseen"} /\ UNCHANGED firstErr
  /\ pc' = "readback"
  /\ UNCHANGED <<disk, runs, input, open, verdict, seen>>

\* A read-back that takes the bootstrap report for the conformance report.
ReadBackOther ==
  /\ pc = "readback"
  /\ seen' \in {disk["bootstrap"], Absent}
  /\ pc' = "evidence"
  /\ UNCHANGED <<disk, runs, input, open, verdict, failures, firstErr>>

\* The report on the disk is read, or cannot be and is passed over.
ReadBack ==
  /\ pc = "readback"
  /\ seen' \in {disk["conformance"], Absent}
  /\ pc' = "evidence"
  /\ UNCHANGED <<disk, runs, input, open, verdict, failures, firstErr>>

Step == CommandStep \/ Phase \/ Integrate \/ ReadBack

Next == Begin \/ Step \/ Killed \/ (Run = MaxRuns /\ pc = "idle" /\ UNCHANGED vars)

\* A command that runs keeps running until it ends, its children included.
Spec == Init /\ [][Next]_vars /\ WF_vars(Step)

-----------------------------------------------------------------------------
(* Properties.                                                             *)

Phases == <<"compile", "build", "test", "conformance", "integration">>

Contents(things) == {file \in Written(things) : file.by <= Run}

Reports == Contents(BOOLEAN) \union {Absent, Torn}

TypeOK ==
  /\ \A f \in {"stage1", "stage2", "bootstrap", "parser"} :
       disk[f] \in Contents(Grammars) \union {Absent, Torn}
  /\ disk["conformance"] \in Reports
  /\ disk["evidence"] \in Contents(Reports) \union {Absent, Torn}
  /\ DOMAIN disk = Files
  /\ runs \in Seq([command : Commands, ended : {"running", "ok", "error", "killed"}])
  /\ input \in Grammars \union {Absent}
  /\ Run <= MaxRuns
  /\ pc \in Files \union {"idle", "read", "compile", "build", "test", "judge",
                          "reported", "integration", "readback", "end"}
  /\ open \in BOOLEAN /\ verdict \in BOOLEAN
  /\ firstErr \in {Phases[i] : i \in DOMAIN Phases} \union {"none"}
  /\ failures \subseteq {Phases[i] : i \in DOMAIN Phases} \union {"unseen"}
  /\ seen \in Reports

\* bootstrap.json speaks of the artifacts that lie beside it, unless a later
\* bootstrap has not come to its end: the report is written after what it reports
\* (main.go:62-68).
BundleFollowsReport ==
  Whole(disk["bootstrap"]) =>
    \A f \in {"stage1", "stage2"} :
      \/ disk[f] = disk["bootstrap"]
      \/ \E r \in DOMAIN runs : /\ r > disk["bootstrap"].by
                                /\ runs[r].command = "bootstrap"
                                /\ runs[r].ended # "ok"

\* A command that has just succeeded has left everything it writes, complete, of
\* this run and of the grammar it was given; for ci-evidence that includes the
\* passing report of its child (main.go:44-69, :98-99, :125-159, evidence.go:116-145).
SuccessIsWhole ==
  Run > 0 /\ Current.ended = "ok" =>
    LET written(x) == [by |-> Run, of |-> x] IN
      /\ Current.command = "bootstrap" =>
           \A f \in {"stage1", "stage2", "bootstrap"} : disk[f] = written(input)
      /\ Current.command = "generate" => disk["parser"] = written(input)
      /\ Current.command \in {"conformance", "ci-evidence"} =>
           disk["conformance"] = written(TRUE)
      /\ Current.command = "ci-evidence" =>
           disk["evidence"] \in {written(disk["conformance"]), written(Absent)}

\* ConformancePass of an evidence file.
SaysPass(content) == Whole(content) /\ Whole(content.of) /\ content.of.of = TRUE

\* An evidence file that claims a conformance pass on the word of an earlier run's
\* report comes from a command that has not succeeded (evidence.go:116-140: the
\* report is read back even if the child has failed before writing it).
StalePassIsFlagged ==
  SaysPass(disk["evidence"]) /\ disk["evidence"].of.by # disk["evidence"].by
    => runs[disk["evidence"].by].ended # "ok"

\* No parser that generate has left complete comes from a grammar with diagnostics,
\* however many refused or interrupted calls came after it (main.go:91-98).
GeneratedIsClean == Whole(disk["parser"]) => disk["parser"].of \in Undiagnosed

Failing(i) == Phases[i] \in failures

\* firstErr is the first of the phases that have failed, so a success means that no
\* failure was seen in any of the five (evidence.go:95-129).  A failure of the
\* integration phase that shows no failing test is not among them.
FirstErrorIsFirst ==
  /\ firstErr = "none" <=> failures \subseteq {"unseen"}
  /\ \A i \in DOMAIN Phases :
       firstErr = Phases[i] => Failing(i) /\ \A j \in 1 .. i - 1 : ~Failing(j)

\* Whatever fails on the way, in a phase or in its child, ci-evidence comes to the
\* point where it writes what it has found, unless it is killed
\* (evidence.go:104-141: no phase returns early).
EvidenceIsReached ==
  (pc = "compile") ~> (pc = "evidence" \/ (Run > 0 /\ Current.ended = "killed"))
=============================================================================
