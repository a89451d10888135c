------------------------------- MODULE Verdict -------------------------------
(***************************************************************************)
(* The decision lattice of the bootstrap: evidence is gathered, never      *)
(* dropped, and one conclusion is drawn from it, its worst element in the  *)
(* order REFUTED > UNKNOWN > CLOSED.                                       *)
(***************************************************************************)
EXTENDS Naturals

VARIABLES evidence,   \* the verdicts the evidence gathered so far calls for
          verdict     \* the conclusion, or OPEN

vars == <<evidence, verdict>>

Verdicts == {"CLOSED", "UNKNOWN", "REFUTED"}

Worst(E) ==
  IF "REFUTED" \in E THEN "REFUTED" ELSE IF "UNKNOWN" \in E THEN "UNKNOWN" ELSE "CLOSED"

Init == evidence = {} /\ verdict = "OPEN"

\* Work goes on: what has been gathered stays.
Gather ==
  /\ verdict = "OPEN"
  /\ evidence' \in SUBSET Verdicts
  /\ evidence \subseteq evidence'
  /\ UNCHANGED verdict

\* The conclusion may rest on evidence that the last step gathers.
Conclude ==
  /\ verdict = "OPEN"
  /\ evidence' \in (SUBSET Verdicts) \ {{}}
  /\ evidence \subseteq evidence'
  /\ verdict' = Worst(evidence')

Next == Gather \/ Conclude

Spec == Init /\ [][Next]_vars
=============================================================================
