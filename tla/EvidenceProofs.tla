--------------------------- MODULE EvidenceProofs ---------------------------
(***************************************************************************)
(* Proofs about CommandLine and Evidence: for any grammars and any number  *)
(* of commands, of which each may fail or be killed at any of its steps.   *)
(***************************************************************************)
EXTENDS Evidence, SequenceTheorems, TLAPS

-----------------------------------------------------------------------------
(* The inductive invariant.                                                *)

\* Where each command can be.
Itinerary(c) ==
  CASE c = "bootstrap" -> {"read", "stage1", "stage2", "bootstrap", "end"}
    [] c = "generate" -> {"read", "parser", "end"}
    [] c = "sample" -> {"read", "end"}
    [] c = "conformance" -> {"judge", "conformance", "reported"}
    [] c = "ci-evidence" -> {"read", "compile", "build", "test", "judge", "conformance",
                             "reported", "integration", "readback", "evidence", "end"}

Underway ==
  /\ pc # "idle" =>
       /\ Run > 0
       /\ Current.ended = "running"
       /\ pc \in Itinerary(Current.command)
  /\ pc \in {"stage1", "stage2", "bootstrap"} => input \in Grammars
  /\ pc = "parser" => input \in Undiagnosed

Mine(x) == [by |-> Run, of |-> x]

\* What bootstrap has left behind it, and that its report is of an earlier run
\* until it has come to write its own.
BundleGrows ==
  /\ pc \in {"stage2", "bootstrap"} => disk["stage1"] = Mine(input)
  /\ pc = "bootstrap" => disk["stage2"] = Mine(input)
  /\ pc = "end" /\ Current.command = "bootstrap" =>
       \A f \in {"stage1", "stage2", "bootstrap"} : disk[f] = Mine(input)
  /\ pc \in {"read", "stage1", "stage2", "bootstrap"} /\ Whole(disk["bootstrap"]) =>
       disk["bootstrap"].by < Run

Generated ==
  pc = "end" /\ Current.command = "generate" => disk["parser"] = Mine(input)

\* What ci-evidence knows of its child by what it has noted.
ReportGrows ==
  /\ pc = "reported" => disk["conformance"] = Mine(verdict)
  /\ /\ pc \in {"integration", "readback", "evidence", "end"}
     /\ Current.command = "ci-evidence"
     /\ firstErr = "none"
     => disk["conformance"] = Mine(TRUE)
  /\ pc = "evidence" => seen \in {disk["conformance"], Absent}
  /\ pc = "end" /\ Current.command = "ci-evidence" =>
       disk["evidence"] = Mine(seen) /\ seen \in {disk["conformance"], Absent}

\* Evidence is written by nothing but ci-evidence.
EvidenceIsOurs ==
  Whole(disk["evidence"]) => runs[disk["evidence"].by].command = "ci-evidence"

\* The phases that lie behind are all that can have failed.
FailedSoFar ==
  /\ pc \in {"idle", "read", "compile"} => failures = {} /\ firstErr = "none"
  /\ pc = "build" => failures \subseteq {"compile"}
  /\ pc = "test" => failures \subseteq {"compile", "build"}
  /\ pc \in {"judge", "conformance", "reported"} =>
       failures \subseteq {"compile", "build", "test"}
  /\ pc = "integration" => failures \subseteq {"compile", "build", "test", "conformance"}

IInv ==
  /\ TypeOK
  /\ Underway
  /\ BundleGrows /\ BundleFollowsReport
  /\ Generated /\ GeneratedIsClean
  /\ ReportGrows /\ EvidenceIsOurs /\ StalePassIsFlagged
  /\ FailedSoFar /\ FirstErrorIsFirst
  /\ SuccessIsWhole

-----------------------------------------------------------------------------
(* Steps that start or end no command and write no file.                   *)

Steps == Files \union {"idle", "read", "compile", "build", "test", "judge",
                       "reported", "integration", "readback", "end"}

PhaseNames == {"compile", "build", "test", "conformance", "integration"}

LEMMA PhaseSequence ==
  /\ DOMAIN Phases = 1 .. 5
  /\ Phases[1] = "compile" /\ Phases[2] = "build" /\ Phases[3] = "test"
  /\ Phases[4] = "conformance" /\ Phases[5] = "integration"
  /\ {Phases[i] : i \in DOMAIN Phases} = PhaseNames
BY DEF Phases, PhaseNames

RunRecords == [command : Commands, ended : {"running", "ok", "error", "killed"}]

LEMMA RunEnds ==
  ASSUME NEW run \in RunRecords, NEW status \in {"running", "ok", "error", "killed"}
  PROVE  /\ [run EXCEPT !.ended = status] \in RunRecords
         /\ [run EXCEPT !.ended = status].ended = status
         /\ [run EXCEPT !.ended = status].command = run.command
BY DEF RunRecords

LEMMA RunIsNat ==
  ASSUME TypeOK
  PROVE  Run \in Nat /\ Run <= MaxRuns /\ runs \in Seq(RunRecords)
BY DEF TypeOK, Run, RunRecords

\* Init.
LEMMA InitInv == Init => IInv
<1> SUFFICES ASSUME Init PROVE IInv
  OBVIOUS
<1> USE DEF Init
<1>1. Run = 0 /\ \A f \in Files : ~Whole(disk[f])
  BY DEF Run, Whole
<1>2. TypeOK
  <2>1. \A f \in Files : disk[f] = Absent
    OBVIOUS
  <2>2. runs \in Seq(RunRecords)
    OBVIOUS
  <2>3. firstErr \in {Phases[i] : i \in DOMAIN Phases} \union {"none"}
    OBVIOUS
  <2>4. /\ \A f \in {"stage1", "stage2", "bootstrap", "parser"} :
             disk[f] \in Contents(Grammars) \union {Absent, Torn}
        /\ disk["conformance"] \in Reports
        /\ disk["evidence"] \in Contents(Reports) \union {Absent, Torn}
        /\ DOMAIN disk = Files
        /\ seen \in Reports
    BY <2>1 DEF Files, Reports
  <2>5. pc \in Steps /\ Run <= MaxRuns
    BY <1>1, MaxRunsAssumption DEF Steps
  <2> QED
    BY <2>2, <2>3, <2>4, <2>5 DEF TypeOK, Steps, RunRecords
<1>3. Underway /\ BundleGrows /\ Generated /\ ReportGrows /\ FailedSoFar
  BY <1>1 DEF Underway, BundleGrows, Generated, ReportGrows, FailedSoFar
<1>4. BundleFollowsReport /\ GeneratedIsClean /\ EvidenceIsOurs
  BY <1>1 DEF BundleFollowsReport, GeneratedIsClean, EvidenceIsOurs, Files
<1>5. StalePassIsFlagged
  BY <1>1 DEF StalePassIsFlagged, SaysPass, Files
<1>6. FirstErrorIsFirst /\ SuccessIsWhole
  BY <1>1, PhaseSequence DEF FirstErrorIsFirst, SuccessIsWhole, PhaseNames
<1> QED
  BY <1>2, <1>3, <1>4, <1>5, <1>6 DEF IInv

\* What the place of a command says of the command.
LEMMA WhereItIs ==
  ASSUME NEW c \in Commands, NEW p \in Itinerary(c)
  PROVE  /\ p \in {"stage1", "stage2", "bootstrap"} => c = "bootstrap"
         /\ p = "parser" => c = "generate"
         /\ p \in {"judge", "conformance", "reported"} => c \in {"conformance", "ci-evidence"}
         /\ p \in {"compile", "build", "test", "integration", "readback", "evidence"}
              => c = "ci-evidence"
         /\ p \in {"read", "end"} => c # "conformance"
BY DEF Commands, Itinerary

LEMMA CurrentIsRun ==
  ASSUME IInv, pc # "idle"
  PROVE  /\ Run \in 1 .. MaxRuns /\ Run \in DOMAIN runs
         /\ Current \in RunRecords /\ Current.command \in Commands
         /\ Current.ended = "running"
         /\ pc \in Itinerary(Current.command)
<1>1. Run \in Nat /\ Run <= MaxRuns /\ runs \in Seq(RunRecords) /\ Run > 0
  BY RunIsNat DEF IInv, Underway
<1>2. Run \in DOMAIN runs /\ Current \in RunRecords
  BY <1>1 DEF Run, Current
<1> QED
  BY <1>1, <1>2, MaxRunsAssumption DEF IInv, Underway, RunRecords

\* What depends on the disk and the runs alone stays as they stay.
LEMMA RecordsKept ==
  ASSUME IInv, UNCHANGED <<disk, runs, input>>
  PROVE  /\ BundleFollowsReport' /\ GeneratedIsClean' /\ EvidenceIsOurs'
         /\ StalePassIsFlagged' /\ SuccessIsWhole'
         /\ Run' = Run /\ Current' = Current
         /\ Reports' = Reports
BY DEF IInv, BundleFollowsReport, GeneratedIsClean, EvidenceIsOurs, StalePassIsFlagged,
       SaysPass, SuccessIsWhole, Run, Current, Whole, Reports, Contents

\* The memory of the command that runs has its types.
MemoryTyped ==
  /\ pc \in Steps
  /\ open \in BOOLEAN /\ verdict \in BOOLEAN
  /\ firstErr \in PhaseNames \union {"none"}
  /\ failures \subseteq PhaseNames \union {"unseen"}
  /\ seen \in Reports

LEMMA TypesKept ==
  ASSUME IInv, UNCHANGED <<disk, runs, input>>, MemoryTyped'
  PROVE  TypeOK'
BY PhaseSequence DEF IInv, TypeOK, MemoryTyped, Steps, Reports, Contents, Run

LEMMA MemoryIsTyped ==
  ASSUME IInv
  PROVE  MemoryTyped
BY PhaseSequence DEF IInv, TypeOK, MemoryTyped, Steps

\* An action of the command that runs which leaves files, runs and input alone.
LEMMA ReadKeeps ==
  ASSUME IInv, Read
  PROVE  IInv'
<1> USE DEF Read
<1>1. UNCHANGED <<disk, runs, input>> /\ UNCHANGED local
  OBVIOUS
<1>2. Current.command \in {"bootstrap", "generate", "sample", "ci-evidence"}
  BY CurrentIsRun, WhereItIs DEF Commands
<1>3. pc' \in {"stage1", "parser", "end", "compile"} /\ pc' \in Itinerary(Current.command)
  BY <1>2 DEF FirstStep, Itinerary
<1>4. TypeOK'
  <2>1. MemoryTyped'
    BY <1>1, <1>3, MemoryIsTyped, RecordsKept DEF MemoryTyped, Steps, Files, local
  <2> QED
    BY <1>1, <2>1, TypesKept
<1>5. Underway'
  <2>1. pc' = "stage1" => input \in Grammars
    BY <1>2, GrammarsAssumption DEF FirstStep, Usable, IInv, TypeOK
  <2>2. pc' = "parser" => input \in Undiagnosed
    BY <1>2 DEF FirstStep, Usable
  <2> QED
    BY <1>1, <1>3, <2>1, <2>2, RecordsKept DEF IInv, Underway
<1>6. BundleGrows' /\ Generated' /\ ReportGrows'
  <2>1. pc' = "end" => Current.command = "sample"
    BY <1>2 DEF FirstStep
  <2> QED
    BY <1>1, <1>3, <2>1, RecordsKept
    DEF IInv, BundleGrows, Generated, ReportGrows, Whole
<1>7. FailedSoFar' /\ FirstErrorIsFirst'
  BY <1>1, <1>3 DEF IInv, FailedSoFar, FirstErrorIsFirst, Failing, local
<1> QED
  BY <1>1, <1>4, <1>5, <1>6, <1>7, RecordsKept DEF IInv

\* A run ends: it has left everything whole if it says that it has succeeded.
LeftWhole ==
  /\ Current.command = "bootstrap" =>
       \A f \in {"stage1", "stage2", "bootstrap"} : disk[f] = Mine(input)
  /\ Current.command = "generate" => disk["parser"] = Mine(input)
  /\ Current.command \in {"conformance", "ci-evidence"} => disk["conformance"] = Mine(TRUE)
  /\ Current.command = "ci-evidence" =>
       disk["evidence"] \in {Mine(disk["conformance"]), Mine(Absent)}

LEMMA ExitKeeps ==
  ASSUME IInv, pc # "idle", NEW status \in {"ok", "error", "killed"}, Exit(status),
         status = "ok" => LeftWhole
  PROVE  IInv'
<1> USE DEF Exit
<1>1. /\ Run \in 1 .. MaxRuns /\ Run \in Nat /\ runs \in Seq(RunRecords)
      /\ DOMAIN runs = 1 .. Run
  BY CurrentIsRun, RunIsNat DEF IInv, Run
<1>2. /\ runs' \in Seq(RunRecords) /\ Run' = Run /\ DOMAIN runs' = 1 .. Run
      /\ \A r \in 1 .. Run : runs'[r].command = runs[r].command
      /\ \A r \in 1 .. Run : r # Run => runs'[r] = runs[r]
      /\ runs'[Run].ended = status
  <2> DEFINE ended == [runs[Run] EXCEPT !.ended = status]
  <2>1. runs' = [runs EXCEPT ![Run] = ended] /\ Run = Len(runs)
    BY DEF Run
  <2>2. ended \in RunRecords /\ ended.ended = status /\ ended.command = runs[Run].command
    <3>1. runs[Run] \in RunRecords
      BY <1>1
    <3>2. status \in {"running", "ok", "error", "killed"}
      OBVIOUS
    <3> QED
      BY <3>1, <3>2, RunEnds, Zenon
  <2> HIDE DEF ended
  <2>3. runs' \in Seq(RunRecords) /\ Len(runs') = Len(runs)
    BY <1>1, <2>1, <2>2, ExceptSeq
  <2>4. \A r \in 1 .. Run : runs'[r] = IF r = Run THEN ended ELSE runs[r]
    BY <1>1, <2>1
  <2>5. Run' = Run /\ DOMAIN runs' = 1 .. Run
    BY <2>1, <2>3 DEF Run
  <2>6. \A r \in 1 .. Run : runs'[r].command = runs[r].command
    BY <2>2, <2>4
  <2>7. \A r \in 1 .. Run : r # Run => runs'[r] = runs[r]
    BY <2>4
  <2>8. runs'[Run].ended = status
    BY <1>1, <2>2, <2>4
  <2> QED
    BY <2>3, <2>5, <2>6, <2>7, <2>8
<1>3. Current' = runs'[Run] /\ Current'.ended = status
      /\ Current'.command = Current.command /\ Reports' = Reports
  BY <1>1, <1>2 DEF Current, Reports, Contents
<1>4. TypeOK'
  <2>1. \A T : Contents(T)' = Contents(T)
    BY <1>2 DEF Contents
  <2> QED
    BY <1>2, <1>3, <2>1 DEF IInv, TypeOK, RunRecords, Contents, Reports
<1>5. Underway' /\ BundleGrows' /\ Generated' /\ ReportGrows' /\ FailedSoFar'
  BY DEF Underway, BundleGrows, Generated, ReportGrows, FailedSoFar
<1>6. FirstErrorIsFirst'
  BY PhaseSequence DEF FirstErrorIsFirst, Failing, PhaseNames
<1>7. SuccessIsWhole'
  BY <1>2, <1>3 DEF SuccessIsWhole, LeftWhole, Mine
<1>8. BundleFollowsReport'
  <2> SUFFICES ASSUME Whole(disk["bootstrap"]), NEW f \in {"stage1", "stage2"},
                      disk[f] # disk["bootstrap"]
               PROVE  \E r \in 1 .. Run : /\ r > disk["bootstrap"].by
                                         /\ runs'[r].command = "bootstrap"
                                         /\ runs'[r].ended # "ok"
    BY <1>2 DEF BundleFollowsReport, Whole
  <2>1. PICK r \in 1 .. Run : /\ r > disk["bootstrap"].by
                              /\ runs[r].command = "bootstrap"
                              /\ runs[r].ended # "ok"
    BY <1>1 DEF IInv, BundleFollowsReport
  <2>2. CASE r # Run
    BY <1>2, <2>1, <2>2
  <2>3. CASE r = Run
    <3>1. status # "ok"
      BY <2>1, <2>3 DEF LeftWhole, Current
    <3> QED
      BY <1>2, <2>1, <2>3, <3>1
  <2> QED
    BY <2>2, <2>3
<1>9. GeneratedIsClean'
  BY DEF IInv, GeneratedIsClean, Whole
<1>10. ASSUME Whole(disk["evidence"]) PROVE disk["evidence"].by \in 1 .. Run
  BY <1>1, <1>10 DEF IInv, TypeOK, Whole, Contents, Written
<1>11. EvidenceIsOurs'
  BY <1>2, <1>10 DEF IInv, EvidenceIsOurs, Whole
<1>12. StalePassIsFlagged'
  <2> SUFFICES ASSUME SaysPass(disk["evidence"]),
                      disk["evidence"].of.by # disk["evidence"].by
               PROVE  runs'[disk["evidence"].by].ended # "ok"
    BY DEF StalePassIsFlagged, SaysPass, Whole
  <2>1. Whole(disk["evidence"]) /\ Whole(disk["evidence"].of)
    BY DEF SaysPass
  <2>2. CASE disk["evidence"].by # Run
    BY <1>2, <1>10, <2>1, <2>2 DEF IInv, StalePassIsFlagged
  <2>3. CASE disk["evidence"].by = Run
    <3>1. Current.command = "ci-evidence"
      BY <2>1, <2>3 DEF IInv, EvidenceIsOurs, Current
    <3>2. status # "ok"
      <4> SUFFICES ASSUME status = "ok" PROVE FALSE
        OBVIOUS
      <4>1. disk["conformance"] = Mine(TRUE)
            /\ disk["evidence"].of \in {disk["conformance"], Absent}
        BY <3>1 DEF LeftWhole, Mine
      <4> QED
        BY <2>1, <2>3, <4>1 DEF Mine, Whole
    <3> QED
      BY <1>2, <2>3, <3>2
  <2> QED
    BY <2>2, <2>3
<1> QED
  BY <1>4, <1>5, <1>6, <1>7, <1>8, <1>9, <1>11, <1>12 DEF IInv

\* The child of ci-evidence ends and ci-evidence goes on.
LEMMA ChildKeeps ==
  ASSUME IInv, Child, pc # "idle", NEW status \in {"ok", "error", "killed"}, Leave(status),
         status = "ok" => pc = "reported" /\ verdict = TRUE
  PROVE  IInv'
<1> USE DEF Leave, Child
<1>1. UNCHANGED <<disk, runs, input, verdict, seen>> /\ pc' = "integration" /\ open' = FALSE
  OBVIOUS
<1>2. Run' = Run /\ Current' = Current /\ Reports' = Reports
  BY <1>1, RecordsKept
<1>3. failures \subseteq {"compile", "build", "test"}
  BY DEF IInv, FailedSoFar
<1>4. MemoryTyped'
  BY <1>1, <1>2, MemoryIsTyped DEF MemoryTyped, Steps, PhaseNames
<1>5. TypeOK'
  BY <1>1, <1>4, TypesKept
<1>6. Underway' /\ BundleGrows' /\ Generated'
  BY <1>1, <1>2, CurrentIsRun DEF Underway, BundleGrows, Generated, Itinerary
<1>7. ReportGrows'
  <2>1. ASSUME firstErr' = "none" PROVE disk["conformance"] = Mine(TRUE)
    BY <2>1 DEF IInv, ReportGrows, Mine
  <2> QED
    BY <1>1, <1>2, <2>1 DEF ReportGrows, Mine
<1>8. FailedSoFar'
  BY <1>1, <1>3 DEF FailedSoFar
<1>9. FirstErrorIsFirst'
  <2> USE PhaseSequence
  <2>1. CASE status = "ok"
    BY <2>1 DEF IInv, FirstErrorIsFirst, Failing
  <2>2. CASE status # "ok"
    BY <1>3, <2>2 DEF IInv, FirstErrorIsFirst, Failing
  <2> QED
    BY <2>1, <2>2
<1> QED
  BY <1>1, <1>5, <1>6, <1>7, <1>8, <1>9, RecordsKept DEF IInv

\* Whichever way a conformance run ends, or any command.
LEMMA LeaveKeeps ==
  ASSUME IInv, pc # "idle", NEW status \in {"ok", "error", "killed"}, Leave(status),
         status = "ok" => pc = "reported" /\ verdict = TRUE
  PROVE  IInv'
<1>1. CASE Child
  BY <1>1, ChildKeeps
<1>2. CASE ~Child
  <2>1. Exit(status)
    BY <1>2 DEF Leave
  <2>2. ASSUME status = "ok" PROVE LeftWhole
    <3>1. Current.command = "conformance"
      BY <1>2, <2>2, CurrentIsRun, WhereItIs DEF Child
    <3> QED
      BY <2>2, <3>1 DEF IInv, ReportGrows, LeftWhole
  <2> QED
    BY <2>1, <2>2, ExitKeeps
<1> QED
  BY <1>1, <1>2

LEMMA ReturnKeeps ==
  ASSUME IInv, Return
  PROVE  IInv'
<1> DEFINE status == IF firstErr = "none" THEN "ok" ELSE "error"
<1>1. pc = "end" /\ Exit(status) /\ status \in {"ok", "error", "killed"}
  BY DEF Return
<1>2. ASSUME status = "ok" PROVE LeftWhole
  <2>1. Current.command # "conformance"
    BY <1>1, CurrentIsRun, WhereItIs
  <2>2. firstErr = "none"
    BY <1>2
  <2> QED
    BY <1>1, <2>1, <2>2 DEF IInv, BundleGrows, Generated, ReportGrows, LeftWhole, Mine
<1> HIDE DEF status
<1> QED
  BY <1>1, <1>2, ExitKeeps

-----------------------------------------------------------------------------
(* The phases of ci-evidence and the verdict of conformance.               *)

LEMMA JudgeKeeps ==
  ASSUME IInv, Judge
  PROVE  IInv'
<1> USE DEF Judge
<1>1. Run' = Run /\ Current' = Current /\ Reports' = Reports
  BY RecordsKept
<1>2. Current.command \in {"conformance", "ci-evidence"}
  BY CurrentIsRun, WhereItIs
<1>3. TypeOK'
  <2>1. MemoryTyped'
    BY <1>1, MemoryIsTyped DEF MemoryTyped, Steps, Files
  <2> QED
    BY <2>1, TypesKept
<1>4. Underway' /\ BundleGrows' /\ Generated' /\ ReportGrows'
  BY <1>1, <1>2, CurrentIsRun
  DEF Underway, BundleGrows, Generated, ReportGrows, Itinerary
<1>5. FailedSoFar' /\ FirstErrorIsFirst'
  BY DEF IInv, FailedSoFar, FirstErrorIsFirst, Failing
<1> QED
  BY <1>1, <1>3, <1>4, <1>5, RecordsKept DEF IInv

LEMMA PhaseKeeps ==
  ASSUME IInv, Phase
  PROVE  IInv'
<1> USE DEF Phase
<1>1. /\ pc \in {"compile", "build", "test"} /\ pc' \in {"build", "test", "judge"}
      /\ pc = "compile" => pc' = "build"
      /\ pc = "build" => pc' = "test"
      /\ pc = "test" => pc' = "judge"
  BY DEF NextPhase
<1>2. Run' = Run /\ Current' = Current /\ Reports' = Reports
  BY RecordsKept
<1>3. Current.command = "ci-evidence"
  BY <1>1, CurrentIsRun, WhereItIs
<1>4. \/ failures' = failures /\ firstErr' = firstErr
      \/ /\ failures' = failures \union {pc}
         /\ firstErr' = IF firstErr = "none" THEN pc ELSE firstErr
  BY DEF Noted
<1>5. TypeOK'
  <2>1. MemoryTyped'
    BY <1>1, <1>2, <1>4, MemoryIsTyped DEF MemoryTyped, Steps, Files, PhaseNames
  <2> QED
    BY <2>1, TypesKept
<1>6. Underway' /\ BundleGrows' /\ Generated' /\ ReportGrows'
  <2>1. pc' \in Itinerary(Current.command)
    BY <1>1, <1>3 DEF Itinerary
  <2>2. Underway'
    BY <1>1, <1>2, <2>1, CurrentIsRun DEF Underway
  <2> QED
    BY <1>1, <2>2 DEF BundleGrows, Generated, ReportGrows
<1>7. FailedSoFar'
  BY <1>1, <1>4 DEF IInv, FailedSoFar
<1>8. FirstErrorIsFirst'
  <2> USE PhaseSequence
  <2>1. CASE failures' = failures /\ firstErr' = firstErr
    BY <2>1 DEF IInv, FirstErrorIsFirst, Failing
  <2>2. CASE failures' = failures \union {pc}
             /\ firstErr' = IF firstErr = "none" THEN pc ELSE firstErr
    BY <1>1, <2>2 DEF IInv, FailedSoFar, FirstErrorIsFirst, Failing
  <2> QED
    BY <1>4, <2>1, <2>2
<1> QED
  BY <1>2, <1>5, <1>6, <1>7, <1>8, RecordsKept DEF IInv

LEMMA IntegrateKeeps ==
  ASSUME IInv, Integrate
  PROVE  IInv'
<1> USE DEF Integrate
<1>1. Run' = Run /\ Current' = Current /\ Reports' = Reports
  BY RecordsKept
<1>2. Current.command = "ci-evidence"
  BY CurrentIsRun, WhereItIs
<1>3. firstErr' = "none" => firstErr = "none"
  BY DEF Noted
<1>4. TypeOK'
  <2>1. MemoryTyped'
    BY <1>1, MemoryIsTyped DEF MemoryTyped, Steps, PhaseNames, Noted
  <2> QED
    BY <2>1, TypesKept
<1>5. Underway' /\ BundleGrows' /\ Generated' /\ ReportGrows'
  BY <1>1, <1>2, <1>3, CurrentIsRun
  DEF IInv, Underway, BundleGrows, Generated, ReportGrows, Itinerary, Mine
<1>6. FailedSoFar'
  BY DEF FailedSoFar
<1>7. FirstErrorIsFirst'
  <2> USE PhaseSequence
  <2>1. CASE failures' = failures /\ firstErr' = firstErr
    BY <2>1 DEF IInv, FirstErrorIsFirst, Failing
  <2>2. CASE failures' = failures \union {"integration"}
             /\ firstErr' = IF firstErr = "none" THEN "integration" ELSE firstErr
    BY <2>2 DEF IInv, FailedSoFar, FirstErrorIsFirst, Failing
  <2>3. CASE failures' = failures \union {"unseen"} /\ firstErr' = firstErr
    BY <2>3 DEF IInv, FirstErrorIsFirst, Failing
  <2> QED
    BY <2>1, <2>2, <2>3 DEF Noted
<1> QED
  BY <1>1, <1>4, <1>5, <1>6, <1>7, RecordsKept DEF IInv

LEMMA ReadBackKeeps ==
  ASSUME IInv, ReadBack
  PROVE  IInv'
<1> USE DEF ReadBack
<1>1. Run' = Run /\ Current' = Current /\ Reports' = Reports
  BY RecordsKept
<1>2. Current.command = "ci-evidence"
  BY CurrentIsRun, WhereItIs
<1>3. TypeOK'
  <2>1. seen' \in Reports
    BY DEF IInv, TypeOK, Reports
  <2>2. MemoryTyped'
    BY <1>1, <2>1, MemoryIsTyped DEF MemoryTyped, Steps, Files
  <2> QED
    BY <2>2, TypesKept
<1>4. Underway' /\ BundleGrows' /\ Generated' /\ ReportGrows'
  BY <1>1, <1>2, CurrentIsRun
  DEF IInv, Underway, BundleGrows, Generated, ReportGrows, Itinerary, Mine
<1>5. FailedSoFar' /\ FirstErrorIsFirst'
  BY DEF IInv, FailedSoFar, FirstErrorIsFirst, Failing
<1> QED
  BY <1>1, <1>3, <1>4, <1>5, RecordsKept DEF IInv

-----------------------------------------------------------------------------
(* Files.                                                                  *)

\* What a step of a writing command puts into the file at pc.
LEMMA PutKeeps ==
  ASSUME IInv, pc \in Files, UNCHANGED <<runs, input>>,
         NEW x, x = Torn \/ x = Content, disk' = [disk EXCEPT ![pc] = x]
  PROVE  /\ \A f \in {"stage1", "stage2", "bootstrap", "parser"} :
              disk'[f] \in Contents(Grammars) \union {Absent, Torn}
         /\ disk'["conformance"] \in Reports
         /\ disk'["evidence"] \in Contents(Reports) \union {Absent, Torn}
         /\ BundleFollowsReport' /\ GeneratedIsClean' /\ EvidenceIsOurs'
         /\ StalePassIsFlagged' /\ SuccessIsWhole'
         /\ Run' = Run /\ Current' = Current /\ Reports' = Reports
<1>1. Run' = Run /\ Current' = Current /\ Reports' = Reports
  BY DEF Run, Current, Reports, Contents
<1>2. /\ \A f \in Files : disk'[f] = IF f = pc THEN x ELSE disk[f]
      /\ pc # "idle"
  BY DEF IInv, TypeOK, Files
<1>3. Run \in 1 .. MaxRuns /\ Run \in DOMAIN runs /\ Current.ended = "running"
      /\ Current.command \in Commands /\ pc \in Itinerary(Current.command)
  BY <1>2, CurrentIsRun
<1>4. /\ pc \in {"stage1", "stage2", "bootstrap", "parser"} => Content = Mine(input)
      /\ pc = "conformance" => Content = Mine(verdict)
      /\ pc = "evidence" => Content = Mine(seen)
  BY DEF Content, Mine
<1>5. /\ pc \in {"stage1", "stage2", "bootstrap"} => input \in Grammars
      /\ pc = "parser" => input \in Undiagnosed
  BY DEF IInv, Underway
<1>6. /\ pc \in {"stage1", "stage2", "bootstrap"} => Current.command = "bootstrap"
      /\ pc = "evidence" => Current.command = "ci-evidence"
  BY <1>3, WhereItIs
<1>7. \A T : \A y \in T : Mine(y) \in Contents(T)
  BY <1>3 DEF Mine, Contents, Written
<1>8. \A f \in {"stage1", "stage2", "bootstrap", "parser"} :
        disk'[f] \in Contents(Grammars) \union {Absent, Torn}
  BY <1>2, <1>4, <1>5, <1>7, GrammarsAssumption DEF IInv, TypeOK, Files
<1>9. disk'["conformance"] \in Reports
  BY <1>2, <1>4, <1>7 DEF IInv, TypeOK, Files, Reports
<1>10. disk'["evidence"] \in Contents(Reports) \union {Absent, Torn}
  BY <1>2, <1>4, <1>7 DEF IInv, TypeOK, Files
<1>11. BundleFollowsReport'
  <2> SUFFICES ASSUME Whole(disk'["bootstrap"]), NEW f \in {"stage1", "stage2"}
               PROVE  \/ disk'[f] = disk'["bootstrap"]
                      \/ \E r \in DOMAIN runs : /\ r > disk'["bootstrap"].by
                                                /\ runs[r].command = "bootstrap"
                                                /\ runs[r].ended # "ok"
    BY DEF BundleFollowsReport, Whole
  <2>1. CASE pc = "bootstrap"
    BY <1>2, <1>4, <2>1 DEF IInv, BundleGrows, Whole, Files
  <2>2. CASE pc \in {"stage1", "stage2"}
    <3>1. disk["bootstrap"].by < Run /\ disk'["bootstrap"] = disk["bootstrap"]
      BY <1>2, <2>2 DEF IInv, BundleGrows, Whole, Files
    <3>2. disk["bootstrap"].by \in 1 .. MaxRuns
      BY <1>2, <2>2 DEF IInv, TypeOK, Whole, Files, Contents, Written
    <3> QED
      BY <1>3, <1>6, <2>2, <3>1, <3>2, MaxRunsAssumption DEF Current
  <2>3. CASE pc \notin {"stage1", "stage2", "bootstrap"}
    BY <1>2, <2>3 DEF IInv, BundleFollowsReport, Whole, Files
  <2> QED
    BY <2>1, <2>2, <2>3
<1>12. GeneratedIsClean'
  <2>1. CASE pc = "parser"
    BY <1>2, <1>4, <1>5, <2>1 DEF GeneratedIsClean, Whole, Files, Mine
  <2>2. CASE pc # "parser"
    BY <1>2, <2>2 DEF IInv, GeneratedIsClean, Whole, Files
  <2> QED
    BY <2>1, <2>2
<1>13. EvidenceIsOurs' /\ StalePassIsFlagged'
  <2>1. CASE pc = "evidence"
    <3>1. Whole(disk'["evidence"]) => disk'["evidence"].by = Run
      BY <1>2, <1>4, <2>1 DEF Whole, Files, Mine
    <3>2. runs[Run].command = "ci-evidence" /\ runs[Run].ended # "ok"
      BY <1>3, <1>6, <2>1 DEF Current
    <3> QED
      BY <3>1, <3>2 DEF EvidenceIsOurs, StalePassIsFlagged, SaysPass, Whole
  <2>2. CASE pc # "evidence"
    <3>1. disk'["evidence"] = disk["evidence"]
      BY <1>2, <2>2 DEF Files
    <3> QED
      BY <3>1 DEF IInv, EvidenceIsOurs, StalePassIsFlagged, SaysPass, Whole
  <2> QED
    BY <2>1, <2>2
<1>14. SuccessIsWhole'
  BY <1>1, <1>3 DEF SuccessIsWhole
<1> QED
  BY <1>1, <1>8, <1>9, <1>10, <1>11, <1>12, <1>13, <1>14

LEMMA TruncateKeeps ==
  ASSUME IInv, Truncate
  PROVE  IInv'
<1> USE DEF Truncate
<1>1. /\ \A f \in {"stage1", "stage2", "bootstrap", "parser"} :
           disk'[f] \in Contents(Grammars) \union {Absent, Torn}
      /\ disk'["conformance"] \in Reports
      /\ disk'["evidence"] \in Contents(Reports) \union {Absent, Torn}
      /\ BundleFollowsReport' /\ GeneratedIsClean' /\ EvidenceIsOurs'
      /\ StalePassIsFlagged' /\ SuccessIsWhole'
      /\ Run' = Run /\ Current' = Current /\ Reports' = Reports
  BY PutKeeps
<1>2. /\ \A f \in Files : disk'[f] = IF f = pc THEN Torn ELSE disk[f]
      /\ DOMAIN disk' = Files
  BY DEF IInv, TypeOK
<1>3. TypeOK'
  <2>1. \A T : Contents(T)' = Contents(T)
    BY <1>1 DEF Contents
  <2> QED
    BY <1>1, <1>2, <2>1 DEF IInv, TypeOK, Contents, Reports
<1>4. Underway' /\ FailedSoFar' /\ FirstErrorIsFirst'
  BY <1>1 DEF IInv, Underway, FailedSoFar, FirstErrorIsFirst, Failing
<1>5. BundleGrows' /\ Generated'
  BY <1>1, <1>2 DEF IInv, BundleGrows, Generated, Mine, Whole, Files
<1>6. ReportGrows'
  BY <1>1, <1>2 DEF IInv, ReportGrows, Mine, Files
<1> QED
  BY <1>1, <1>3, <1>4, <1>5, <1>6 DEF IInv

LEMMA CompleteKeeps ==
  ASSUME IInv, Complete
  PROVE  IInv'
<1> USE DEF Complete
<1>1. /\ \A f \in {"stage1", "stage2", "bootstrap", "parser"} :
           disk'[f] \in Contents(Grammars) \union {Absent, Torn}
      /\ disk'["conformance"] \in Reports
      /\ disk'["evidence"] \in Contents(Reports) \union {Absent, Torn}
      /\ BundleFollowsReport' /\ GeneratedIsClean' /\ EvidenceIsOurs'
      /\ StalePassIsFlagged' /\ SuccessIsWhole'
      /\ Run' = Run /\ Current' = Current /\ Reports' = Reports
  BY PutKeeps
<1>2. /\ \A f \in Files : disk'[f] = IF f = pc THEN Content ELSE disk[f]
      /\ DOMAIN disk' = Files
  BY DEF IInv, TypeOK
<1>3. /\ pc \in {"stage1", "stage2", "bootstrap", "parser"} => Content = Mine(input)
      /\ pc = "conformance" => Content = Mine(verdict)
      /\ pc = "evidence" => Content = Mine(seen)
  BY DEF Content, Mine
<1>4. /\ pc = "stage1" => pc' = "stage2"
      /\ pc = "stage2" => pc' = "bootstrap"
      /\ pc = "conformance" => pc' = "reported"
      /\ pc \in {"bootstrap", "parser", "evidence"} => pc' = "end"
  BY DEF After
<1>5. /\ pc \in Itinerary(Current.command) /\ Current.command \in Commands
      /\ Run > 0 /\ Current.ended = "running"
  BY CurrentIsRun DEF Files
<1>6. /\ pc \in {"stage1", "stage2", "bootstrap"} => Current.command = "bootstrap"
      /\ pc = "parser" => Current.command = "generate"
      /\ pc = "conformance" => Current.command \in {"conformance", "ci-evidence"}
      /\ pc = "evidence" => Current.command = "ci-evidence"
  BY <1>5, WhereItIs
<1>7. TypeOK'
  <2>1. \A T : Contents(T)' = Contents(T)
    BY <1>1 DEF Contents
  <2>2. pc' \in {"stage2", "bootstrap", "reported", "end"}
    BY <1>4 DEF Files
  <2>3. pc' \in Steps /\ Reports' = Reports
    BY <1>1, <2>2 DEF Steps, Files
  <2>4. /\ runs' \in Seq(RunRecords) /\ input' \in Grammars \union {Absent}
        /\ Run' <= MaxRuns /\ DOMAIN disk' = Files
    BY <1>1, <1>2 DEF IInv, TypeOK, RunRecords
  <2>5. /\ open' \in BOOLEAN /\ verdict' \in BOOLEAN /\ seen' \in Reports
        /\ firstErr' \in {Phases[i] : i \in DOMAIN Phases} \union {"none"}
        /\ failures' \subseteq {Phases[i] : i \in DOMAIN Phases} \union {"unseen"}
    BY DEF IInv, TypeOK
  <2>6. /\ \A f \in {"stage1", "stage2", "bootstrap", "parser"} :
             disk'[f] \in Contents(Grammars)' \union {Absent, Torn}
        /\ disk'["conformance"] \in Reports'
        /\ disk'["evidence"] \in Contents(Reports)' \union {Absent, Torn}
    BY <1>1, <2>1, <2>3
  <2> QED
    BY <2>3, <2>4, <2>5, <2>6 DEF TypeOK, Steps, RunRecords
<1>8. Underway'
  <2>1. pc' \in Itinerary(Current.command)
    BY <1>4, <1>6 DEF Itinerary, Files
  <2> QED
    BY <1>1, <1>4, <1>5, <2>1 DEF IInv, Underway, Files
<1>9. FailedSoFar' /\ FirstErrorIsFirst'
  BY <1>4 DEF IInv, FailedSoFar, FirstErrorIsFirst, Failing, Files
<1>10. BundleGrows'
  <2>1. CASE pc \in {"stage1", "stage2"}
    BY <1>1, <1>2, <1>3, <1>4, <2>1 DEF IInv, BundleGrows, Mine, Whole, Files
  <2>2. CASE pc = "bootstrap"
    BY <1>1, <1>2, <1>3, <1>4, <2>2 DEF IInv, BundleGrows, Mine, Files
  <2>3. CASE pc \in {"parser", "conformance", "evidence"}
    BY <1>1, <1>4, <1>6, <2>3 DEF BundleGrows
  <2> QED
    BY <2>1, <2>2, <2>3 DEF Files
<1>11. Generated'
  BY <1>1, <1>2, <1>3, <1>4, <1>6 DEF Generated, Mine, Files
<1>12. ReportGrows'
  <2>1. CASE pc \in {"stage1", "stage2", "bootstrap", "parser"}
    BY <1>1, <1>4, <1>6, <2>1 DEF ReportGrows
  <2>2. CASE pc = "conformance"
    BY <1>1, <1>2, <1>3, <1>4, <2>2 DEF ReportGrows, Mine, Files
  <2>3. CASE pc = "evidence"
    BY <1>1, <1>2, <1>3, <1>4, <1>6, <2>3 DEF IInv, ReportGrows, Mine, Files
  <2> QED
    BY <2>1, <2>2, <2>3 DEF Files
<1> QED
  BY <1>1, <1>7, <1>8, <1>9, <1>10, <1>11, <1>12 DEF IInv

\* A command starts: nothing of what lies on the disk is of its run.
LEMMA BeginKeeps ==
  ASSUME IInv, Begin
  PROVE  IInv'
<1> USE DEF Begin
<1>1. PICK c \in Commands :
        /\ runs' = Append(runs, [command |-> c, ended |-> "running"])
        /\ IF c = "conformance"
           THEN input' = Absent /\ pc' = "judge"
           ELSE input' \in Grammars \union {Absent} /\ pc' = "read"
  OBVIOUS
<1>2. Run \in Nat /\ Run < MaxRuns /\ runs \in Seq(RunRecords) /\ DOMAIN runs = 1 .. Run
      /\ UNCHANGED <<disk, local>> /\ pc = "idle"
  BY RunIsNat DEF IInv, Run
<1>3. /\ runs' \in Seq(RunRecords) /\ Run' = Run + 1 /\ DOMAIN runs' = 1 .. Run + 1
      /\ \A r \in 1 .. Run : runs'[r] = runs[r]
      /\ runs'[Run + 1] = [command |-> c, ended |-> "running"]
  <2>1. [command |-> c, ended |-> "running"] \in RunRecords
    BY DEF RunRecords
  <2> QED
    BY <1>1, <1>2, <2>1 DEF Run
<1>4. Current' = [command |-> c, ended |-> "running"]
  BY <1>3 DEF Current
<1>5. pc' \in {"judge", "read"} /\ pc' \in Itinerary(c)
  <2>1. CASE c = "conformance"
    BY <1>1, <2>1 DEF Itinerary
  <2>2. CASE c # "conformance"
    BY <1>1, <2>2 DEF Itinerary, Commands
  <2> QED
    BY <2>1, <2>2
<1>6. \A T, U : T \subseteq U => Contents(T) \subseteq Contents(U)'
  BY <1>2, <1>3, MaxRunsAssumption DEF Contents, Written
<1>7. Reports \subseteq Reports'
  BY <1>6 DEF Reports
<1>8. TypeOK'
  <2>1. input' \in Grammars \union {Absent} /\ Run' <= MaxRuns
    BY <1>1, <1>2, <1>3, MaxRunsAssumption
  <2>2. \A f \in {"stage1", "stage2", "bootstrap", "parser"} :
          disk'[f] \in Contents(Grammars)' \union {Absent, Torn}
    BY <1>2, <1>6 DEF IInv, TypeOK
  <2>3. disk'["conformance"] \in Reports' /\ seen' \in Reports'
    BY <1>2, <1>7 DEF IInv, TypeOK, local
  <2>4. disk'["evidence"] \in Contents(Reports)' \union {Absent, Torn}
    <3>1. disk["evidence"] \in Contents(Reports) \union {Absent, Torn}
      BY DEF IInv, TypeOK
    <3>2. \A file : file \in Contents(Reports) => file \in Contents(Reports)'
      BY <1>2, <1>3, <1>7, MaxRunsAssumption DEF Contents, Written
    <3> QED
      BY <1>2, <3>1, <3>2
  <2>5. /\ DOMAIN disk' = Files /\ pc' \in Steps /\ open' \in BOOLEAN /\ verdict' \in BOOLEAN
        /\ firstErr' \in {Phases[i] : i \in DOMAIN Phases} \union {"none"}
        /\ failures' \subseteq {Phases[i] : i \in DOMAIN Phases} \union {"unseen"}
    BY <1>2, <1>5 DEF IInv, TypeOK, local, Steps
  <2> QED
    BY <1>3, <2>1, <2>2, <2>3, <2>4, <2>5 DEF TypeOK, Steps, RunRecords
<1>9. ASSUME NEW f \in {"bootstrap", "evidence"}, Whole(disk[f])
      PROVE  disk[f].by \in 1 .. Run
  BY <1>2, <1>9 DEF IInv, TypeOK, Whole, Contents, Written
<1>10. Underway'
  BY <1>2, <1>3, <1>4, <1>5 DEF Underway
<1>11. BundleGrows' /\ Generated' /\ ReportGrows'
  <2>1. Whole(disk["bootstrap"]) => disk["bootstrap"].by < Run + 1
    BY <1>2, <1>9
  <2>2. Whole(disk["bootstrap"])' = Whole(disk["bootstrap"])
    BY <1>2 DEF Whole
  <2>3. BundleGrows'
    BY <1>2, <1>3, <1>5, <2>1, <2>2 DEF BundleGrows
  <2>4. Generated' /\ ReportGrows'
    BY <1>5 DEF Generated, ReportGrows
  <2> QED
    BY <2>3, <2>4
<1>12. FailedSoFar' /\ FirstErrorIsFirst'
  BY <1>2, <1>5 DEF IInv, FailedSoFar, FirstErrorIsFirst, Failing, local
<1>13. BundleFollowsReport'
  BY <1>2, <1>3 DEF IInv, BundleFollowsReport, Whole
<1>14. GeneratedIsClean' /\ SuccessIsWhole'
  BY <1>2, <1>4 DEF IInv, GeneratedIsClean, SuccessIsWhole, Whole
<1>15. EvidenceIsOurs' /\ StalePassIsFlagged'
  BY <1>2, <1>3, <1>9
  DEF IInv, EvidenceIsOurs, StalePassIsFlagged, SaysPass, Whole
<1> QED
  BY <1>8, <1>10, <1>11, <1>12, <1>13, <1>14, <1>15 DEF IInv

-----------------------------------------------------------------------------
(* Theorems.                                                               *)

LEMMA StutterKeeps ==
  ASSUME IInv, UNCHANGED vars
  PROVE  IInv'
<1>1. UNCHANGED <<disk, runs, input, pc, open, verdict, failures, firstErr, seen>>
  BY DEF vars, local
<1>2. MemoryTyped'
  BY <1>1, MemoryIsTyped, RecordsKept DEF MemoryTyped
<1>3. TypeOK'
  BY <1>1, <1>2, TypesKept
<1>4. Underway' /\ BundleGrows' /\ Generated' /\ ReportGrows'
  <2>1. Run' = Run /\ Current' = Current
    BY <1>1, RecordsKept
  <2>2. Underway' /\ BundleGrows'
    BY <1>1, <2>1 DEF IInv, Underway, BundleGrows, Mine, Whole
  <2>3. Generated' /\ ReportGrows'
    BY <1>1, <2>1 DEF IInv, Generated, ReportGrows, Mine
  <2> QED
    BY <2>2, <2>3
<1>5. FailedSoFar' /\ FirstErrorIsFirst'
  BY <1>1 DEF IInv, FailedSoFar, FirstErrorIsFirst, Failing
<1> QED
  BY <1>1, <1>3, <1>4, <1>5, RecordsKept DEF IInv

LEMMA NextKeeps ==
  ASSUME IInv, [Next]_vars
  PROVE  IInv'
<1>1. CASE Begin
  BY <1>1, BeginKeeps
<1>2. CASE Killed
  <2>1. CASE pc # "idle" /\ Exit("killed")
    BY <2>1, ExitKeeps
  <2>2. CASE pc # "idle" /\ Child /\ Leave("killed")
    BY <2>2, LeaveKeeps
  <2> QED
    BY <1>2, <2>1, <2>2 DEF Killed
<1>3. CASE CommandStep
  <2>1. CASE Truncate
    BY <2>1, TruncateKeeps
  <2>2. CASE Complete
    BY <2>2, CompleteKeeps
  <2>3. CASE WriteFails
    BY <2>3, LeaveKeeps DEF WriteFails, Files
  <2>4. CASE Read
    BY <2>4, ReadKeeps
  <2>5. CASE RefuseInput
    BY <2>5, ExitKeeps DEF RefuseInput
  <2>6. CASE Judge
    BY <2>6, JudgeKeeps
  <2>7. CASE JudgeFails
    BY <2>7, LeaveKeeps DEF JudgeFails
  <2>8. CASE Reported
    <3>1. verdict \in BOOLEAN /\ pc = "reported"
      BY <2>8 DEF Reported, IInv, TypeOK
    <3>2. CASE verdict = TRUE
      BY <2>8, <3>1, <3>2, LeaveKeeps DEF Reported
    <3>3. CASE verdict = FALSE
      BY <2>8, <3>1, <3>3, LeaveKeeps DEF Reported
    <3> QED
      BY <3>1, <3>2, <3>3
  <2>9. CASE Return
    BY <2>9, ReturnKeeps
  <2> QED
    BY <1>3, <2>1, <2>2, <2>3, <2>4, <2>5, <2>6, <2>7, <2>8, <2>9 DEF CommandStep
<1>4. CASE Phase
  BY <1>4, PhaseKeeps
<1>5. CASE Integrate
  BY <1>5, IntegrateKeeps
<1>6. CASE ReadBack
  BY <1>6, ReadBackKeeps
<1>7. CASE UNCHANGED vars
  BY <1>7, StutterKeeps
<1> QED
  BY <1>1, <1>2, <1>3, <1>4, <1>5, <1>6, <1>7 DEF Next, Step

\* Every state of the commands and of their files satisfies the inductive invariant.
THEOREM CommandsCorrect == Spec => []IInv
BY InitInv, NextKeeps, PTL DEF Spec

\* The state of the commands keeps its types (main.go, evidence.go).
THEOREM CommandsTyped == Spec => []TypeOK
BY CommandsCorrect, PTL DEF IInv

\* bootstrap.json never speaks of artifacts other than those beside it, unless a
\* later bootstrap has not succeeded (main.go:62-68).
THEOREM BundleIsReported == Spec => []BundleFollowsReport
BY CommandsCorrect, PTL DEF IInv

\* Success means that everything is written, complete, by this run
\* (main.go:44-69, :98-99, :125-159, evidence.go:116-145).
THEOREM SuccessLeavesAll == Spec => []SuccessIsWhole
BY CommandsCorrect, PTL DEF IInv

\* Evidence that passes on an earlier run's report comes from a command that has
\* not succeeded (evidence.go:116-140).
THEOREM StaleEvidenceIsFlagged == Spec => []StalePassIsFlagged
BY CommandsCorrect, PTL DEF IInv

\* generate leaves no complete parser of a grammar with diagnostics (main.go:91-98).
THEOREM GeneratedParsersAreClean == Spec => []GeneratedIsClean
BY CommandsCorrect, PTL DEF IInv

\* firstErr is the first phase that has failed (evidence.go:95-129).
THEOREM FirstErrorsAreFirst == Spec => []FirstErrorIsFirst
BY CommandsCorrect, PTL DEF IInv
=============================================================================
