---------------------------- MODULE CommandLine ----------------------------
(***************************************************************************)
(* The commands of cmd/gooo-grammar-compiler and the files they leave.     *)
(* Commands run one at a time, as the steps of a CI job or the tests run   *)
(* them, over the same directories; between two commands the grammar may   *)
(* be edited.  A file is written in place: os.WriteFile truncates it first *)
(* and a process may be killed at any moment, so a file can be torn.  The  *)
(* children of a process that is killed end with it.                       *)
(*                                                                         *)
(* The conformance command and ci-evidence share their conformance.json,   *)
(* as ci.yml and collect-evidence.sh call them.                            *)
(*                                                                         *)
(* What the compiler computes is abstracted to what a command does next:   *)
(* whether the input is there, is taken by the generated parser, lowers,   *)
(* and does so without diagnostics, and whether the fixed cases pass.  The *)
(* command ci-evidence adds its phases in the module Evidence.             *)
(***************************************************************************)
EXTENDS Naturals, Sequences

CONSTANTS
  Grammars,    \* the inputs, in the versions they are edited to
  Taken,       \* those that the committed stage2 parser takes, programs among them
  Lowered,     \* those that the seed takes and that lower
  Undiagnosed, \* those that also lower without a diagnostic
  Absent,      \* no file
  Torn,        \* a truncated file, not yet or never completed
  MaxRuns      \* bound on the number of commands

ASSUME GrammarsAssumption ==
  Undiagnosed \subseteq Lowered /\ Lowered \subseteq Taken /\ Taken \subseteq Grammars

\* What files hold of things: by which run each was written.
Written(things) == [by : 1 .. MaxRuns, of : things]

ASSUME FilesAssumption ==
  /\ Absent # Torn
  /\ {Absent, Torn} \intersect
       (Written(Grammars) \union Written(BOOLEAN)
          \union Written(Written(BOOLEAN) \union {Absent, Torn})) = {}

ASSUME MaxRunsAssumption == MaxRuns \in Nat

\* The files, in the order in which the commands that write several write them.
Files == {"stage1", "stage2", "bootstrap", "parser", "conformance", "evidence"}

Commands == {"bootstrap", "generate", "sample", "conformance", "ci-evidence"}

VARIABLES
  disk,      \* each file: Absent, Torn, or by which run it was written and of what
  runs,      \* the commands started so far and how they ended
  input,     \* the grammar that the last of them was given
  pc,        \* the next step of the command that runs, "idle" between commands
  open,      \* the file at pc has been truncated
  verdict,   \* Report.AllPass of the conformance run under way
  failures,  \* the phases of ci-evidence that have failed
  firstErr,  \* its local firstErr
  seen       \* what it has read back of the conformance report

local == <<open, verdict, failures, firstErr, seen>>

vars == <<disk, runs, input, pc, local>>

Init ==
  /\ disk = [f \in Files |-> Absent]
  /\ runs = <<>>
  /\ input = Absent
  /\ pc = "idle"
  /\ open = FALSE
  /\ verdict = FALSE
  /\ failures = {}
  /\ firstErr = "none"
  /\ seen = Absent

Run == Len(runs)

Current == runs[Run]

Whole(content) == content \notin {Absent, Torn}

-----------------------------------------------------------------------------
(* Starting and ending.                                                    *)

Begin ==
  /\ pc = "idle"
  /\ Run < MaxRuns
  /\ \E c \in Commands :
       /\ runs' = Append(runs, [command |-> c, ended |-> "running"])
       /\ IF c = "conformance"
          THEN input' = Absent /\ pc' = "judge"
          ELSE input' \in Grammars \union {Absent} /\ pc' = "read"
  /\ UNCHANGED <<disk, local>>

\* The process ends, and its memory with it; main turns every error into exit
\* status 1.
Exit(status) ==
  /\ runs' = [runs EXCEPT ![Run].ended = status]
  /\ pc' = "idle"
  /\ open' = FALSE
  /\ verdict' = FALSE
  /\ failures' = {}
  /\ firstErr' = "none"
  /\ seen' = Absent
  /\ UNCHANGED <<disk, input>>

\* The conformance command is its own process or a child of ci-evidence, which
\* goes on whatever becomes of the child.
Child == Current.command = "ci-evidence" /\ pc \in {"judge", "conformance", "reported"}

\* A ci-evidence that does not look at how its conformance run has ended.
LeaveUnnoticed(status) ==
  IF Child
  THEN /\ failures' = IF status = "ok" THEN failures ELSE failures \union {"conformance"}
       /\ pc' = "integration"
       /\ open' = FALSE
       /\ UNCHANGED <<disk, runs, input, verdict, firstErr, seen>>
  ELSE Exit(status)

Leave(status) ==
  IF Child
  THEN /\ failures' = IF status = "ok" THEN failures ELSE failures \union {"conformance"}
       /\ firstErr' = IF status # "ok" /\ firstErr = "none" THEN "conformance" ELSE firstErr
       /\ pc' = "integration"
       /\ open' = FALSE
       /\ UNCHANGED <<disk, runs, input, verdict, seen>>
  ELSE Exit(status)

\* A signal, a panic or the end of the machine; the child may die alone.
Killed ==
  \/ pc # "idle" /\ Exit("killed")
  \/ pc # "idle" /\ Child /\ Leave("killed")

-----------------------------------------------------------------------------
(* Files.                                                                  *)

Content ==
  [by |-> Run,
   of |-> CASE pc = "conformance" -> verdict
            [] pc = "evidence" -> seen
            [] OTHER -> input]

\* A bootstrap that reports before it has written the second artifact.
AfterReportEarly(f) ==
  CASE f = "stage1" -> "bootstrap" [] f = "bootstrap" -> "stage2"
    [] f = "conformance" -> "reported" [] OTHER -> "end"

After(f) ==
  CASE f = "stage1" -> "stage2" [] f = "stage2" -> "bootstrap"
    [] f = "conformance" -> "reported" [] OTHER -> "end"

\* os.WriteFile has opened the file with O_TRUNC.
Truncate ==
  /\ pc \in Files
  /\ ~open
  /\ disk' = [disk EXCEPT ![pc] = Torn]
  /\ open' = TRUE
  /\ UNCHANGED <<runs, input, pc, verdict, failures, firstErr, seen>>

Complete ==
  /\ pc \in Files
  /\ open
  /\ disk' = [disk EXCEPT ![pc] = Content]
  /\ open' = FALSE
  /\ pc' = After(pc)
  /\ UNCHANGED <<runs, input, verdict, failures, firstErr, seen>>

\* A command that goes on when a file cannot be written.
WriteErrorDropped ==
  /\ pc \in Files
  /\ open' = FALSE
  /\ pc' = After(pc)
  /\ UNCHANGED <<disk, runs, input, verdict, failures, firstErr, seen>>

\* The directory, the file or the rest of the bytes cannot be written.
WriteFails ==
  /\ pc \in Files
  /\ Leave("error")

-----------------------------------------------------------------------------
(* bootstrap, generate, sample, and what ci-evidence does first.           *)

\* A generate that does not ask whether the grammar has diagnostics.
UsableUnchecked(c, g) ==
  CASE c \in {"bootstrap", "ci-evidence"} -> g # Absent
    [] c = "generate" -> g \in Lowered
    [] c = "sample" -> g \in Taken

\* The input a command accepts: bootstrap renders artifacts whatever its decision
\* will be, generate refuses a grammar with diagnostics, sample parses with the
\* committed stage2 parser, which takes programs besides all that the seed takes.
Usable(c, g) ==
  CASE c \in {"bootstrap", "ci-evidence"} -> g # Absent
    [] c = "generate" -> g \in Undiagnosed
    [] c = "sample" -> g \in Taken

FirstStep(c) ==
  CASE c = "bootstrap" -> "stage1" [] c = "generate" -> "parser"
    [] c = "sample" -> "end" [] c = "ci-evidence" -> "compile"

Read ==
  /\ pc = "read"
  /\ Usable(Current.command, input)
  /\ pc' = FirstStep(Current.command)
  /\ UNCHANGED <<disk, runs, input, local>>

RefuseInput ==
  /\ pc = "read"
  /\ ~Usable(Current.command, input)
  /\ Exit("error")

-----------------------------------------------------------------------------
(* conformance.                                                            *)

\* RunDirectory returns a report.
Judge ==
  /\ pc = "judge"
  /\ verdict' \in BOOLEAN
  /\ pc' = "conformance"
  /\ UNCHANGED <<disk, runs, input, open, failures, firstErr, seen>>

\* RunDirectory returns an error: nothing is written.
JudgeFails == pc = "judge" /\ Leave("error")

\* The report is written even if it says that a case has failed.
Reported ==
  /\ pc = "reported"
  /\ Leave(IF verdict THEN "ok" ELSE "error")

\* Every command ends here unless it has failed before.
Return ==
  /\ pc = "end"
  /\ Exit(IF firstErr = "none" THEN "ok" ELSE "error")

CommandStep ==
  \/ Truncate \/ Complete \/ WriteFails
  \/ Read \/ RefuseInput
  \/ Judge \/ JudgeFails \/ Reported
  \/ Return
=============================================================================
