---------------------------- MODULE MCLineParsers ----------------------------
(* Small sources for LineParsers.  The short sources take every pair of the *)
(* lines below, the longer ones mix the lines whose order matters.          *)
EXTENDS LineParsers

LOCAL INSTANCE SequencesExt

Decl(w) == Bare(Word(w))

GrammarLine == <<Decl("grammar"), Decl("gooo"), Decl("v1")>>
ShortGrammar == <<Decl("grammar"), Decl("gooo")>>
QuotedGrammar == <<Literal(Word("grammar")), Decl("gooo"), Decl("v1")>>
StageLine == <<Decl("stage"), Decl("1"), Bare(Pair("origin", "external"))>>
TokenLine == <<Decl("token"), Decl("A"), Regex(Word("a"))>>
ProductionLine == <<Decl("production"), Decl("file"), Decl("->"), Decl("A")>>
ArrowlessLine == <<Decl("production"), Decl("file"), Decl("A"), Decl("A")>>
PrecedenceLine == <<Decl("precedence"), Decl("A"), Bare(Pair("level", "1"))>>
PackageLine == <<Decl("package"), Decl("sample")>>
WidePackage == <<Decl("package"), Decl("sample"), Decl("v1")>>
BareProgram == <<Decl("program")>>
ProgramLine == <<Decl("program"), Decl("main")>>
NamespaceLine == <<Decl("namespace"), Decl("n")>>
EntityLine == <<Decl("entity"), Decl("User")>>
UnknownLine == <<Decl("frobnicate"), Decl("x")>>
BlankLine == <<>>

AllLines ==
  { GrammarLine, ShortGrammar, QuotedGrammar, StageLine, TokenLine, ProductionLine,
    ArrowlessLine, PrecedenceLine, PackageLine, WidePackage, BareProgram,
    ProgramLine, NamespaceLine, EntityLine, UnknownLine, BlankLine,
    Malformed, Fatal, Oversize }

MixedLines == { GrammarLine, PackageLine, BlankLine, Fatal, Oversize }

MCSources == BoundedSeq(AllLines, 2) \union TupleOf(MixedLines, 3)
=============================================================================
