---------------------------- MODULE MCGooBootstrap ----------------------------
(* A small complete grammar in the shape of fixtures/cases, and the sources   *)
(* that one or two edits make of it.                                          *)
EXTENDS GooBootstrap

W(w) == Bare(Word(w))
KV(k, v) == Bare(Pair(k, v))

Base ==
  << <<W("grammar"), W("gooo"), W("v1")>>,
     <<W("stage"), W("1"), KV("origin", "generated-from-stage0")>>,
     <<W("ambiguity"), KV("policy", "reject")>>,
     <<W("type"), W("GrammarSource")>>,
     <<W("effect"), W("parse"), W("lower")>>,
     <<W("fixed_denominator"), KV("cases", "7")>>,
     <<W("token"), W("A"), Regex(Word("a")), KV("role", "identifier")>>,
     <<W("token"), W("WS"), Regex(Word("w")), KV("skip", "true")>>,
     <<W("production"), W("file"), W("->"), W("expr"), W("A")>>,
     <<W("production"), W("expr"), W("->"), Literal(Word("a"))>>,
     <<W("precedence"), W("A"), KV("level", "10")>>,
     <<W("associativity"), W("A"), W("left")>> >>

Alterations ==
  { <<W("grammar"), Literal(Word("")), W("v1")>>,
    <<W("stage"), W("2"), KV("origin", "external")>>,
    <<W("stage"), W("x"), KV("origin", "external")>>,
    <<W("ambiguity"), KV("policy", "preserve-all")>>,
    <<W("ambiguity"), KV("policy", "maybe")>>,
    <<W("type"), Literal(Word(""))>>,
    <<W("effect"), W("network")>>,
    <<W("fixed_denominator"), KV("cases", "8")>>,
    <<W("fixed_denominator"), KV("cases", "7")>>,
    <<W("token"), W("A"), Regex(Word("b"))>>,
    <<W("token"), W("B"), Regex(Word("b")), KV("skip", "maybe")>>,
    <<W("token"), W("B"), Regex(Word("b")), KV("skip", "true"), KV("skip", "false")>>,
    <<W("production"), W("expr"), W("->"), Literal(Word("a"))>>,
    <<W("production"), W("expr"), W("->"), Regex(Word("a"))>>,
    <<W("production"), W("expr"), W("->"), W("missing")>>,
    <<W("precedence"), W("A"), KV("level", "20")>>,
    <<W("precedence"), W("A"), KV("level", "-1")>>,
    <<W("precedence"), W("B"), KV("level", "20")>>,
    <<W("associativity"), W("A"), W("right")>>,
    <<W("associativity"), W("B"), W("left")>>,
    <<W("associativity"), W("A"), W("sideways")>>,
    <<W("package"), W("sample")>>,
    <<>>, Malformed, Oversize }

Altered == {ReplaceAt(Base, n, l) : n \in DOMAIN Base, l \in Alterations}

Inserted == {InsertAt(Base, n, l) : n \in 1 .. Len(Base) + 1, l \in Alterations}

Shortened == {RemoveAt(Base, n) : n \in DOMAIN Base}

Extended == {Base \o <<k, l>> : k \in Alterations, l \in Alterations}

\* Levels that return to an earlier value after a different one.
Wavering == {Base \o <<k, l, m>> :
               k, l, m \in {<<W("precedence"), W("A"), KV("level", v)>> : v \in {"10", "20"}}}

MCSources == {Base} \union Altered \union Inserted \union Shortened \union Extended
               \union Wavering

\* Two productions whose bodies read alike once they are joined by blanks.
Lookalikes ==
  { Base \o << <<W("production"), W("expr"), W("->"), Literal(Word("a false:expr"))>>,
               <<W("production"), W("expr"), W("->"), Literal(Word("a")), W("expr")>> >> }

LookalikeSources == Lookalikes \union Shortened

MCNumeral(w) ==
  CASE w = "1" -> 1 [] w = "2" -> 2 [] w = "7" -> 7 [] w = "8" -> 8 [] w = "10" -> 10
    [] w = "20" -> 20 [] w = "-1" -> -1 [] OTHER -> NotANumber

MCTruth(w) == CASE w = "true" -> TRUE [] w = "false" -> FALSE [] OTHER -> NotABool

MCRank(w) == CASE w = "false" -> 1 [] w = "maybe" -> 2 [] OTHER -> 3
=============================================================================
