------------------------------ MODULE GooSource ------------------------------
(***************************************************************************)
(* A .gooo source as its parsers see it, and what each parser accepts.     *)
(*                                                                         *)
(* A source is a sequence of lines.  Splitting a line into fields is       *)
(* abstracted to its outcome: the sequence of its fields (empty for a      *)
(* blank line or a comment), Malformed when the field lexer returns an     *)
(* error, Fatal when it panics (FieldLexer says which lines those are),    *)
(* Oversize when the line exceeds the buffer of bufio.Scanner.             *)
(*                                                                         *)
(* Four parsers read this format.  They share no parsing code, so their    *)
(* rules are translated one by one:                                        *)
(*   "stage0"           internal/stage0, the seed                          *)
(*   "stage1","stage2"  generated/, the two committed entry points         *)
(*   "fresh"            the parser that RenderParser's template emits      *)
(***************************************************************************)
EXTENDS Naturals, Sequences

CONSTANTS Malformed,   \* a line the field lexer rejects
          Fatal,       \* a line the field lexer panics on
          Oversize     \* a line too long for the scanner

-----------------------------------------------------------------------------
(* Fields.  A text "k=v" is the pair of k and v, any other text has no key. *)

Text == [key : STRING, val : STRING]

Field == [form : {"bare", "literal", "regex"}, text : Text]

Word(w) == [key |-> "", val |-> w]

Pair(k, v) == [key |-> k, val |-> v]

Bare(t) == [form |-> "bare", text |-> t]

Literal(t) == [form |-> "literal", text |-> t]

Regex(t) == [form |-> "regex", text |-> t]

Line == Seq(Field) \union {Malformed, Fatal, Oversize}

\* The three kinds of line are told apart.
ASSUME SentinelsAssumption ==
  /\ Malformed # Oversize /\ Malformed # Fatal /\ Fatal # Oversize
  /\ <<>> \notin {Malformed, Fatal, Oversize}

Readable(l) == l \notin {Malformed, Fatal, Oversize}

KindIn(fields, kinds) == fields[1].text \in {Word(k) : k \in kinds}

IsArrow(fields) == fields[3].text = Word("->")

-----------------------------------------------------------------------------
(* Which non-empty lines a parser takes as a declaration, context aside.   *)

SeedAdmits(fields) ==
  \/ KindIn(fields, {"grammar"}) /\ Len(fields) = 3
  \/ KindIn(fields, {"stage", "ambiguity", "type"}) /\ Len(fields) >= 2
  \/ KindIn(fields, {"effect", "fixed_denominator"}) /\ Len(fields) >= 2
  \/ KindIn(fields, {"token"}) /\ Len(fields) >= 3
  \/ KindIn(fields, {"production"}) /\ Len(fields) >= 4 /\ IsArrow(fields)
  \/ KindIn(fields, {"precedence", "associativity"}) /\ Len(fields) >= 3

\* A committed parser that lost the production arrow check.
CommittedAdmitsAnyArrow(fields) ==
  \/ KindIn(fields, {"package", "namespace"}) /\ Len(fields) = 2
  \/ KindIn(fields, {"program"}) /\ Len(fields) >= 2
  \/ KindIn(fields, {"entity", "activity"}) /\ Len(fields) >= 2
  \/ KindIn(fields, {"grammar"}) /\ Len(fields) = 3
  \/ /\ KindIn(fields, {"stage", "ambiguity", "type", "effect", "fixed_denominator"})
     /\ Len(fields) >= 2
  \/ KindIn(fields, {"token"}) /\ Len(fields) >= 3
  \/ KindIn(fields, {"production"}) /\ Len(fields) >= 4
  \/ KindIn(fields, {"precedence", "associativity"}) /\ Len(fields) >= 3

\* A committed parser that demands more fields of a precedence than the seed.
CommittedAdmitsStrictly(fields) ==
  /\ CommittedAdmitsAnyArrow(fields)
  /\ KindIn(fields, {"precedence"}) => Len(fields) > 3

CommittedAdmits(fields) ==
  \/ KindIn(fields, {"package", "namespace"}) /\ Len(fields) = 2
  \/ KindIn(fields, {"program"}) /\ Len(fields) >= 2
  \/ KindIn(fields, {"entity"}) /\ Len(fields) >= 2
  \/ KindIn(fields, {"activity"}) /\ Len(fields) >= 2
  \/ KindIn(fields, {"grammar"}) /\ Len(fields) = 3
  \/ /\ KindIn(fields, {"stage", "ambiguity", "type", "effect", "fixed_denominator"})
     /\ Len(fields) >= 2
  \/ KindIn(fields, {"token"}) /\ Len(fields) >= 3
  \/ KindIn(fields, {"production"}) /\ Len(fields) >= 4 /\ IsArrow(fields)
  \/ KindIn(fields, {"precedence", "associativity"}) /\ Len(fields) >= 3

\* A template in which one declaration demands more fields than the committed parser.
TemplateAdmitsStrictly(fields) ==
  /\ CommittedAdmits(fields)
  /\ KindIn(fields, {"entity", "activity"}) => Len(fields) > 2

\* The else-if chain of the template: the branch for package and program comes
\* first and checks no size, so the later branches are left with the rest.
TemplateAdmits(fields) ==
  \/ KindIn(fields, {"grammar"}) /\ Len(fields) = 3
  \/ KindIn(fields, {"package", "program"})
  \/ KindIn(fields, {"namespace"}) /\ Len(fields) = 2
  \/ KindIn(fields, {"entity", "activity"}) /\ Len(fields) >= 2
  \/ /\ KindIn(fields, {"stage", "ambiguity", "type", "effect", "fixed_denominator"})
     /\ Len(fields) >= 2
  \/ KindIn(fields, {"token"}) /\ Len(fields) >= 3
  \/ KindIn(fields, {"production"}) /\ Len(fields) >= 4 /\ IsArrow(fields)
  \/ KindIn(fields, {"precedence", "associativity"}) /\ Len(fields) >= 3

Parsers == {"stage0", "stage1", "stage2", "fresh"}

Admits(p, fields) ==
  \/ p = "stage0" /\ SeedAdmits(fields)
  \/ p \in {"stage1", "stage2"} /\ CommittedAdmits(fields)
  \/ p = "fresh" /\ TemplateAdmits(fields)

-----------------------------------------------------------------------------
(* What a parse means, independently of how the line loop computes it.     *)

IsGrammar(fields) == KindIn(fields, {"grammar"})

\* The declarations that let a file stand without a grammar declaration: none
\* for the seed, a Gooo program's for the generated parsers.
Founds(p, fields) == p # "stage0" /\ KindIn(fields, {"package", "program"})

Content(s) == {n \in DOMAIN s : s[n] # <<>>}

Acceptable(p, s) ==
  /\ \A n \in DOMAIN s : Readable(s[n])
  /\ \A n \in Content(s) : Admits(p, s[n])
  /\ \A m, n \in Content(s) : IsGrammar(s[m]) /\ IsGrammar(s[n]) => m = n
  /\ \E n \in Content(s) : IsGrammar(s[n]) \/ Founds(p, s[n])

\* A tree is the declarations by line number; an error comes with no tree.
EmptyTree == [n \in {} |-> <<>>]

Pending == [status |-> "pending", tree |-> EmptyTree]

Failed == [status |-> "failed", tree |-> EmptyTree]

Accepted(t) == [status |-> "parsed", tree |-> t]

Parsed(p, s) ==
  IF Acceptable(p, s) THEN Accepted([n \in Content(s) |-> s[n]]) ELSE Failed
=============================================================================
