---------------------------- MODULE ParseContract ----------------------------
(***************************************************************************)
(* What the parsers promise: parsing is one step, and its outcome is a     *)
(* function of the parser and the source alone -- never of what was parsed *)
(* before it, of the order of the parses, or of where a bad line stands.   *)
(***************************************************************************)
EXTENDS GooSource

CONSTANT Sources     \* the sources that are tried

VARIABLES source,    \* the bytes being bootstrapped
          result     \* outcome of each parser

vars == <<source, result>>

Init ==
  /\ source \in Sources
  /\ result = [p \in Parsers |-> Pending]

Parse(p) ==
  /\ result[p] = Pending
  /\ result' = [result EXCEPT ![p] = Parsed(p, source)]
  /\ UNCHANGED source

Next == \E p \in Parsers : Parse(p)

Spec == Init /\ [][Next]_vars
=============================================================================
