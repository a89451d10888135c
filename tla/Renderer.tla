------------------------------ MODULE Renderer ------------------------------
(***************************************************************************)
(* compiler.RenderParser: the placeholders of parserTemplate are replaced  *)
(* one key after another, in the order in which Go happens to iterate a    *)
(* map.  A later replacement also rewrites what an earlier one has put in. *)
(*                                                                         *)
(* The text is kept as its slots, the places where the template has a      *)
(* placeholder; the pieces of a slot are a set, which is how the token     *)
(* names enter (they are sorted first).  format.Source maps equal texts to *)
(* equal texts and is left out.                                            *)
(***************************************************************************)
CONSTANTS Slots,       \* the slots of parserTemplate
          Template     \* the placeholder in each slot

Keys == {Template[s] : s \in Slots}

VARIABLES values,      \* the replacements: the pieces that each key stands for
          text,        \* the pieces in each slot
          left         \* the keys that are yet to be replaced

rendering == <<values, text, left>>

\* No replacement brings in the placeholder of another key.
Clean(v) == \A k \in Keys : v[k] \intersect Keys \subseteq {k}

StartRendering(v) ==
  /\ values' = v
  /\ text' = [s \in Slots |-> {Template[s]}]
  /\ left' = Keys

\* A replacement in the template, which forgets what the ones before have put in.
ReplaceInTemplate(k) ==
  /\ k \in left
  /\ text' = [s \in Slots |-> IF Template[s] = k THEN values[k] ELSE {Template[s]}]
  /\ left' = left \ {k}
  /\ UNCHANGED values

\* strings.ReplaceAll for one key; what it inserts is not searched again.
Replace(k) ==
  /\ k \in left
  /\ text' = [s \in Slots |->
                IF k \in text[s] THEN (text[s] \ {k}) \union values[k] ELSE text[s]]
  /\ left' = left \ {k}
  /\ UNCHANGED values

Rendered == left = {}

\* What a text is when all keys outside left have been replaced at once.
Substituted(v, pending) ==
  [s \in Slots |-> IF Template[s] \in pending THEN {Template[s]} ELSE v[Template[s]]]

\* Whatever the order, values that bring in no placeholder of each other give the
\* text that replacing all keys at once gives (compiler.go:188-197).
OrderIsHidden == Clean(values) => text = Substituted(values, left)
=============================================================================
