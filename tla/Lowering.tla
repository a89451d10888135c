------------------------------- MODULE Lowering -------------------------------
(***************************************************************************)
(* lowering.Lower: from a syntax tree to the semantic grammar IR and the   *)
(* classes of its diagnostics, or to an error.                             *)
(*                                                                         *)
(* The loop over the declarations stops at the first faulty one and every  *)
(* error has the same effect on the bootstrap, so the loop is the          *)
(* condition that no declaration is faulty.  Everything that the order of  *)
(* declarations decides is kept: productions stay a sequence, the last     *)
(* fixed_denominator counts, and a map that is overwritten while it is     *)
(* being checked is consulted for the nearest earlier entry.               *)
(***************************************************************************)
EXTENDS GooSource, Integers, SequencesExt, FiniteSetsExt

CONSTANTS
  Numeral(_),   \* strconv.Atoi: the integer a word denotes, or NotANumber
  NotANumber,
  Truth(_),     \* strconv.ParseBool: TRUE, FALSE or NotABool
  NotABool,
  Rank(_),      \* position of a word in byte order, where words are compared
  Absent        \* keyValue and attributeValue found nothing

Policies == {"reject", "prefer-first", "preserve-all"}

Sides == {Word("left"), Word("right"), Word("nonassoc")}

AllowedEffects == {Word(e) : e \in {"parse", "lower", "generate", "execute", "verify"}}

\* How many of the numbers that a function is defined on come up to n.
Position(f, n) == Cardinality({m \in DOMAIN f : m <= n})

\* The values of a function on finitely many numbers, as a sequence in their order.
InOrder(f) ==
  LET at(i) == CHOOSE n \in DOMAIN f : Position(f, n) = i
  IN  [i \in 1 .. Cardinality(DOMAIN f) |-> f[at(i)]]

\* The declarations of a tree in source order.
Nodes(tree) == InOrder(tree)

Texts(node) == [i \in DOMAIN node |-> node[i].text]

Tail2(s) == SubSeq(s, 3, Len(s))

\* The value of the first field k=v with a value.
keyValue(texts, k) ==
  LET hits == {i \in DOMAIN texts : texts[i].key = k /\ texts[i].val # ""}
  IN  IF hits = {} THEN Absent ELSE texts[Min(hits)].val

\* Attributes are sorted before they are looked up, so the least value counts.
skipValue(texts) ==
  LET values == {t.val : t \in {u \in ToSet(texts) : u.key = "skip" /\ u.val # ""}}
  IN  IF values = {} THEN Absent
      ELSE CHOOSE v \in values : \A w \in values : Rank(v) <= Rank(w)

Attributes(texts) == ToBag(SelectSeq(texts, LAMBDA t : t.key # "" /\ t.val # ""))

-----------------------------------------------------------------------------
(* Which declarations Lower returns an error for.                          *)

AcceptableStage(texts) ==
  /\ Len(texts) >= 3
  /\ texts[2].key = "" /\ Numeral(texts[2].val) # NotANumber
  /\ keyValue(Tail2(texts), "origin") # Absent

AcceptableDenominator(texts) ==
  /\ Len(texts) = 2
  /\ texts[2].key = "cases"
  /\ Numeral(texts[2].val) # NotANumber
  /\ Numeral(texts[2].val) >= 1

AcceptableToken(texts) ==
  /\ Len(texts) >= 3
  /\ LET v == skipValue(SubSeq(texts, 4, Len(texts)))
     IN  v = Absent \/ Truth(v) # NotABool

AcceptablePrecedence(texts) ==
  /\ Len(texts) >= 3
  /\ LET v == keyValue(Tail2(texts), "level")
     IN  v # Absent /\ Numeral(v) # NotANumber /\ Numeral(v) >= 0

WellFormed(node) ==
  LET texts == Texts(node) IN
  \/ KindIn(node, {"grammar"}) /\ Len(texts) = 3
  \/ KindIn(node, {"stage"}) /\ AcceptableStage(texts)
  \/ KindIn(node, {"ambiguity"}) /\ keyValue(Tail(texts), "policy") \in Policies
  \/ KindIn(node, {"type"}) /\ Len(texts) = 2 /\ texts[2] # Word("")
  \/ KindIn(node, {"effect"}) /\ Len(texts) >= 2
  \/ KindIn(node, {"fixed_denominator"}) /\ AcceptableDenominator(texts)
  \/ KindIn(node, {"token"}) /\ AcceptableToken(texts)
  \/ KindIn(node, {"production"}) /\ Len(texts) >= 4 /\ texts[3] = Word("->")
  \/ KindIn(node, {"precedence"}) /\ AcceptablePrecedence(texts)
  \/ KindIn(node, {"associativity"}) /\ Len(texts) = 3 /\ texts[3] \in Sides

-----------------------------------------------------------------------------
(* The declarations of an IR.                                              *)

Of(nodes, kind) == InOrder(Restrict(nodes, {i \in DOMAIN nodes : KindIn(nodes[i], {kind})}))

Each(f(_), s) == [i \in DOMAIN s |-> f(s[i])]

StageOf(node) ==
  [number |-> Numeral(node[2].text.val), origin |-> keyValue(Tail2(Texts(node)), "origin")]

TokenOf(node) ==
  LET rest == SubSeq(Texts(node), 4, Len(node))
  IN  [name |-> node[2].text, pattern |-> node[3].text, attributes |-> Attributes(rest),
       skip |-> skipValue(rest) # Absent /\ Truth(skipValue(rest))]

ProductionOf(node) ==
  [name |-> node[2].text,
   rhs |-> [i \in 1 .. Len(node) - 3 |->
              [value |-> node[i + 3].text, terminal |-> node[i + 3].form # "bare"]]]

PrecedenceOf(node) ==
  [name |-> node[2].text, level |-> Numeral(keyValue(Tail2(Texts(node)), "level"))]

AssociativityOf(node) == [name |-> node[2].text, value |-> node[3].text]

\* Lower's result before it is put into canonical form.
Declared(nodes) ==
  LET grammar == Last(Of(nodes, "grammar"))
      policy  == Last(Of(nodes, "ambiguity"))
      cases   == Of(nodes, "fixed_denominator")
  IN  [name |-> grammar[2].text, version |-> grammar[3].text,
       stage |-> StageOf(Last(Of(nodes, "stage"))),
       policy |-> keyValue(Tail(Texts(policy)), "policy"),
       types |-> Each(LAMBDA n : n[2].text, Of(nodes, "type")),
       effects |-> FlattenSeq(Each(LAMBDA n : Tail(Texts(n)), Of(nodes, "effect"))),
       denominator |-> IF cases = <<>> THEN 0 ELSE Numeral(Last(cases)[2].text.val),
       tokens |-> Each(TokenOf, Of(nodes, "token")),
       productions |-> Each(ProductionOf, Of(nodes, "production")),
       precedences |-> Each(PrecedenceOf, Of(nodes, "precedence")),
       associativities |-> Each(AssociativityOf, Of(nodes, "associativity"))]

Complete(ir) ==
  /\ ir.name # Word("") /\ ir.version # Word("")
  /\ ir.denominator = 7
  /\ <<>> \notin {ir.types, ir.effects, ir.tokens, ir.productions, ir.precedences,
                  ir.associativities}

-----------------------------------------------------------------------------
(* validateCollections, check by check.                                    *)

Names(s) == {s[i].name : i \in DOMAIN s}

TokensClash(tokens) ==
  \/ Word("") \in Names(tokens)
  \/ \E i, j \in DOMAIN tokens : i < j /\ tokens[i].name = tokens[j].name

Spelled(text) == IF text.key = "" THEN text.val ELSE text.key \o "=" \o text.val

\* The string under which a production body is remembered.
Key(production) ==
  LET spell(symbol) == (IF symbol.terminal THEN "true:" ELSE "false:") \o Spelled(symbol.value)
      join(text, symbol) == text \o " " \o spell(symbol)
  IN  Spelled(production.name) \o "->"
        \o FoldLeft(join, spell(Head(production.rhs)), Tail(production.rhs))

Ambiguous(productions) ==
  \E i, j \in DOMAIN productions : i < j /\ Key(productions[i]) = Key(productions[j])

\* A check that compares neighbouring declarations only.
ConflictingNeighbours(s, field) ==
  \E j \in DOMAIN s \ {1} : s[j - 1].name = s[j].name /\ s[j - 1][field] # s[j][field]

\* A map from name to what was declared last, overwritten at every entry: an entry
\* conflicts when it differs from the nearest earlier entry of its name.
Conflicting(s, field) ==
  \E j \in DOMAIN s :
    LET earlier == {i \in 1 .. j - 1 : s[i].name = s[j].name}
    IN  earlier # {} /\ s[Max(earlier)][field] # s[j][field]

\* A binding check that looks at the first symbol of a body only.
UnboundHead(ir) ==
  \E i \in DOMAIN ir.productions :
    LET symbol == Head(ir.productions[i].rhs)
    IN  ~symbol.terminal /\ symbol.value \notin Names(ir.tokens) \union Names(ir.productions)

Unbound(ir) ==
  \E i \in DOMAIN ir.productions :
    \E symbol \in ToSet(ir.productions[i].rhs) :
      ~symbol.terminal /\ symbol.value \notin Names(ir.tokens) \union Names(ir.productions)

DiagnosedClasses(ir) ==
       {c \in {"forbidden-stage-escape"} :
          ir.stage # [number |-> 1, origin |-> "generated-from-stage0"]}
  \union
       {c \in {"forbidden-effect"} : ~ (ToSet(ir.effects) \subseteq AllowedEffects)}
  \union
       {c \in {"invalid-grammar"} :
          \/ TokensClash(ir.tokens)
          \/ Unbound(ir)
          \/ ~ (Names(ir.associativities) \subseteq Names(ir.precedences))}
  \union
       {c \in {"ambiguous-grammar"} : Ambiguous(ir.productions)}
  \union
       {c \in {"conflicting-precedence"} :
          \/ Conflicting(ir.precedences, "level")
          \/ Conflicting(ir.associativities, "value")}

-----------------------------------------------------------------------------
(* Canonical and Lower.                                                    *)

\* Sorting by name alone keeps entries of one name in a fixed order.
ByName(s) ==
  [n \in Names(s) |-> InOrder(Restrict(s, {i \in DOMAIN s : s[i].name = n}))]

\* A canonical form that leaves the precedences as they were declared.
CanonicalUnsorted(ir) ==
  [ir EXCEPT !.types = ToBag(@), !.effects = ToBag(@), !.tokens = ByName(@),
             !.associativities = ByName(@)]

\* A sort of every entry forgets all order; productions are not sorted.
Canonical(ir) ==
  [ir EXCEPT !.types = ToBag(@), !.effects = ToBag(@), !.tokens = ByName(@),
             !.precedences = ToBag(@), !.associativities = ByName(@)]

LoweringError == [ok |-> FALSE, ir |-> {}, classes |-> {}]

Lower(tree) ==
  LET nodes == Nodes(tree)
      ir    == Declared(nodes)
  IN  IF /\ \A i \in DOMAIN nodes : WellFormed(nodes[i])
         /\ \A kind \in {"grammar", "stage", "ambiguity"} : Len(Of(nodes, kind)) = 1
         /\ Complete(ir)
      THEN [ok |-> TRUE, ir |-> Canonical(ir), classes |-> DiagnosedClasses(ir)]
      ELSE LoweringError
=============================================================================
