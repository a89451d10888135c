----------------------------- MODULE MCEvidence -----------------------------
(* Two commands in a row over a grammar that closes, one with diagnostics, a *)
(* program, which only the generated parsers take, and a text that is no     *)
(* source at all.                                                            *)
EXTENDS Evidence

CONSTANTS closed, diagnosed, program, refused

MCGrammars == {closed, diagnosed, program, refused}

MCTaken == {closed, diagnosed, program}

MCLowered == {closed, diagnosed}

MCUndiagnosed == {closed}
=============================================================================
