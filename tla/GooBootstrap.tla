----------------------------- MODULE GooBootstrap -----------------------------
(***************************************************************************)
(* The bootstrap as it is built: the pipeline of Bootstrap fed by the      *)
(* committed parsers (as LineParsers shows each of them to behave) and by  *)
(* Lower, on grammar sources.                                              *)
(***************************************************************************)
EXTENDS Lowering

CONSTANTS Sources, NoTree, NoIR, NoTerminal

VARIABLES source, pc, gen, tree, ir, classes, records, artifact, decision,
          terminal, digest

ParserOf(g) == CASE g = 0 -> "stage0" [] g = 1 -> "stage1" [] g = 2 -> "stage2"

\* The one outcome of a deterministic parser.
CommittedOutcomes(g, s) ==
  LET outcome == Parsed(ParserOf(g), s)
  IN  {IF outcome.status = "parsed" THEN outcome.tree ELSE NoTree}

ASSUME SourcesAssumption == Sources \subseteq Seq(Line)

\* What stands for no tree and no IR is none.
ASSUME NothingAssumption ==
  \A s \in Sources : \A g \in 0 .. 2 :
    LET outcome == Parsed(ParserOf(g), s)
    IN  outcome.status = "parsed" => outcome.tree # NoTree /\ Lower(outcome.tree).ir # NoIR

\* SHA-256 over canonical JSON tells apart whatever differs in the value.
Sha(kind, value) == <<kind, value>>

\* A digest that covers the line numbers too.
LineTreeDigest(t) == Sha("tree", t)

\* Line numbers are no part of the syntax tree digest.
SyntaxTreeDigest(t) == Sha("tree", Nodes(t))

GrammarDigest(i) == Sha("ir", i)

TerminalDigest(r) == Sha("terminal", r)

Compiler == INSTANCE Bootstrap WITH
  Outcomes <- CommittedOutcomes, Lowered <- Lower,
  TreeDigest <- SyntaxTreeDigest, IRDigest <- GrammarDigest

Spec == Compiler!Spec

-----------------------------------------------------------------------------
(* The source read as a set of declarations.                               *)

Lines(kind) == {n \in Content(source) : Readable(source[n]) /\ KindIn(source[n], {kind})}

NameAt(n) == source[n][2].text

SymbolsAt(n) == SubSeq(source[n], 4, Len(source[n]))

SameBody(m, n) ==
  /\ NameAt(m) = NameAt(n)
  /\ Len(source[m]) = Len(source[n])
  /\ \A i \in DOMAIN SymbolsAt(m) :
       LET a == SymbolsAt(m)[i]
           b == SymbolsAt(n)[i]
       IN  a.text = b.text /\ (a.form = "bare" <=> b.form = "bare")

LevelAt(n) == Numeral(keyValue(Tail2(Texts(source[n])), "level"))

OneLevelEach ==
  \A m, n \in Lines("precedence") :
    NameAt(m) = NameAt(n) => LevelAt(m) = LevelAt(n)

OneSideEach ==
  /\ \A m, n \in Lines("associativity") :
       NameAt(m) = NameAt(n) => source[m][3].text = source[n][3].text
  /\ \A m \in Lines("associativity") :
       \E n \in Lines("precedence") : NameAt(m) = NameAt(n)

NoRepeatedProduction == \A m, n \in Lines("production") : SameBody(m, n) => m = n

Bound(t) == \E n \in Lines("token") \union Lines("production") : NameAt(n) = t

EverySymbolBound ==
  \A n \in Lines("production") : \A i \in DOMAIN SymbolsAt(n) :
    SymbolsAt(n)[i].form = "bare" => Bound(SymbolsAt(n)[i].text)

DistinctTokens ==
  \A m, n \in Lines("token") : NameAt(m) = NameAt(n) => m = n

WithinPolicy ==
  /\ \E n \in Lines("stage") :
       /\ Numeral(NameAt(n).val) = 1
       /\ keyValue(Tail2(Texts(source[n])), "origin") = "generated-from-stage0"
  /\ \A n \in Lines("effect") : ToSet(Tail(Texts(source[n]))) \subseteq AllowedEffects

-----------------------------------------------------------------------------
(* Properties.                                                             *)

Done == pc = "done"

\* A CLOSED grammar is sound as declared: no operator has two levels or two sides,
\* every side has a level, no production is repeated, every nonterminal symbol is a
\* token or a production, tokens have distinct names, stage and effects are the
\* permitted ones (README.md, fixture table).
ClosedIsSound ==
  decision = "CLOSED" =>
    /\ OneLevelEach /\ OneSideEach
    /\ NoRepeatedProduction /\ EverySymbolBound
    /\ DistinctTokens /\ WithinPolicy

\* Contract violations are refuted, also when the grammar is ambiguous as well: a
\* grammar that lowers and has a conflict or an escape never ends UNKNOWN or
\* CLOSED (contract-v1.md: "Forbidden stage origins and conflicting precedence are
\* refutations").
ViolationsAreRefuted ==
  Done /\ records # <<>> /\ ~(OneLevelEach /\ OneSideEach /\ WithinPolicy)
    => decision = "REFUTED"

\* With the committed parsers the premise of the proofs about Bootstrap holds, and
\* a decision never comes from the machinery.
GrammarAloneDecides == Compiler!CommittedBuild /\ Compiler!OnlyTheGrammarDecides

\* The bootstrap with the committed parsers and the real lowering reduces its
\* evidence in the contract's order (contract-v1.md:27), also where one grammar is
\* both ambiguous and in conflict.
ReducesEvidence == Compiler!ReducesEvidence

\* An ambiguity that is reported has a witness: two productions of one name with
\* the same symbols.  (internal/lowering/lowering.go:211 "duplicate production
\* admits more than one derivation")
AmbiguityIsWitnessed ==
  decision = "UNKNOWN" /\ terminal.unknownClass = "grammar-ambiguity" => ~NoRepeatedProduction

Swapped(n) ==
  [m \in DOMAIN source |-> source[IF m = n THEN n + 1 ELSE IF m = n + 1 THEN n ELSE m]]

OrderMatters(m, n) ==
  \E kind \in {"production", "fixed_denominator"} : {m, n} \subseteq Lines(kind)

\* What the seed and Lower make of a source.
SeedView(s) ==
  LET outcome == Parsed("stage0", s)
  IN  IF outcome.status = "parsed" THEN Lower(outcome.tree) ELSE LoweringError

\* Where the order of two neighbouring declarations carries no meaning it leaves no
\* trace: exchanging them changes neither the semantic IR nor what is diagnosed.
\* (fixture precedence-preserving-change: "Declaration order changes, but canonical
\* precedence and associativity do not.")  A refuted grammar is exempt: the sort of
\* clashing names keeps their order.
OrderLeavesNoTrace ==
  Done /\ decision # "REFUTED" =>
    \A n \in 1 .. Len(source) - 1 :
      ~OrderMatters(n, n + 1) => SeedView(Swapped(n)) = SeedView(source)

\* Layout is evidence, not syntax: a blank line anywhere changes no digest
\* (internal/model/model.go:110 "Source line numbers are evidence, not syntax").
LayoutLeavesNoTrace ==
  Done /\ records # <<>> =>
    \A n \in 1 .. Len(source) :
      LET t == CHOOSE t \in CommittedOutcomes(0, InsertAt(source, n, <<>>)) : TRUE
      IN  /\ SyntaxTreeDigest(t) = records[1].syntaxTree
          /\ GrammarDigest(Lower(t).ir) = records[1].semanticIR
=============================================================================
