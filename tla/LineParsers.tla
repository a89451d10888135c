----------------------------- MODULE LineParsers -----------------------------
(***************************************************************************)
(* The line loops of the four parsers: stage0.Parse, parseGeneratedGrammar *)
(* behind ParseStage1 and ParseStage2, and the loop of parserTemplate.     *)
(* Every step of the loop is an action: a line is skipped, appended to the *)
(* tree or refused, the lexer panics, the scanner gives up, or the input   *)
(* ends.                                                                   *)
(*                                                                         *)
(* One process runs the parsers one after another over the same source,    *)
(* in any order (Bootstrap runs three of them, CI compiles the fresh one). *)
(***************************************************************************)
EXTENDS GooSource

CONSTANTS Sources,   \* the sources that are tried
          Idle,      \* no parser is running
          Crashed    \* a panic has ended the process

ASSUME SourcesAssumption == Sources \subseteq Seq(Line)

ASSUME IdleAssumption ==
  Idle \notin Parsers /\ Crashed \notin Parsers /\ Idle # Crashed

VARIABLES source,       \* the source, fixed from the start
          active,       \* the parser that runs, Idle or Crashed
          line,         \* the line it is about to read
          grammarSeen,  \* its local grammarSeen
          programSeen,  \* its local programSeen (stays FALSE in the seed)
          tree,         \* the declarations it has appended, by line number
          result        \* what each finished parser returned

vars == <<source, active, line, grammarSeen, programSeen, tree, result>>

Init ==
  /\ source \in Sources
  /\ active = Idle
  /\ line = 1
  /\ grammarSeen = FALSE
  /\ programSeen = FALSE
  /\ tree = EmptyTree
  /\ result = [p \in Parsers |-> Pending]

-----------------------------------------------------------------------------

Begin(p) ==
  /\ active = Idle
  /\ result[p] = Pending
  /\ active' = p
  /\ line' = 1
  /\ grammarSeen' = FALSE
  /\ programSeen' = FALSE
  /\ tree' = EmptyTree
  /\ UNCHANGED <<source, result>>

Running == active \in Parsers

Reading == Running /\ line <= Len(source)

Return(outcome) ==
  /\ result' = [result EXCEPT ![active] = outcome]
  /\ active' = Idle
  /\ UNCHANGED <<source, line, grammarSeen, programSeen, tree>>

\* A loop that forgets that grammar may be declared once.
TakenRepeatedly == Admits(active, source[line])

\* The declaration at the current line passes every check of the loop.
Taken ==
  /\ Admits(active, source[line])
  /\ ~(IsGrammar(source[line]) /\ grammarSeen)

\* A loop that stops at a blank line without returning.
SkipBlankStays ==
  /\ Reading
  /\ source[line] = <<>>
  /\ UNCHANGED vars

SkipBlank ==
  /\ Reading
  /\ source[line] = <<>>
  /\ line' = line + 1
  /\ UNCHANGED <<source, active, grammarSeen, programSeen, tree, result>>

\* A loop that does not remember the grammar declaration it has read.
AcceptLineUnrecorded ==
  /\ Reading
  /\ Readable(source[line])
  /\ source[line] # <<>>
  /\ Taken
  /\ line' = line + 1
  /\ programSeen' = (programSeen \/ Founds(active, source[line]))
  /\ tree' = [n \in DOMAIN tree \union {line} |->
                IF n = line THEN source[line] ELSE tree[n]]
  /\ UNCHANGED <<source, active, grammarSeen, result>>

\* A loop that counts the line before it records it.
AcceptLineLate ==
  /\ Reading
  /\ Readable(source[line])
  /\ source[line] # <<>>
  /\ Taken
  /\ line' = line + 1
  /\ grammarSeen' = (grammarSeen \/ IsGrammar(source[line]))
  /\ programSeen' = (programSeen \/ Founds(active, source[line]))
  /\ tree' = [n \in DOMAIN tree \union {line'} |->
                IF n = line' THEN source[line] ELSE tree[n]]
  /\ UNCHANGED <<source, active, result>>

AcceptLine ==
  /\ Reading
  /\ Readable(source[line])
  /\ source[line] # <<>>
  /\ Taken
  /\ line' = line + 1
  /\ grammarSeen' = (grammarSeen \/ IsGrammar(source[line]))
  /\ programSeen' = (programSeen \/ Founds(active, source[line]))
  /\ tree' = [n \in DOMAIN tree \union {line} |->
                IF n = line THEN source[line] ELSE tree[n]]
  /\ UNCHANGED <<source, active, result>>

RejectLine ==
  /\ Reading
  /\ \/ source[line] = Malformed
     \/ Readable(source[line]) /\ source[line] # <<>> /\ ~Taken
  /\ Return(Failed)

\* Nothing recovers from a panic: the process is gone, with what it was parsing.
Panics ==
  /\ Reading
  /\ source[line] = Fatal
  /\ active' = Crashed
  /\ UNCHANGED <<source, line, grammarSeen, programSeen, tree, result>>

\* A parser that ignores scanner.Err returns what it has read so far.
ScanStopsSilently ==
  /\ Reading
  /\ source[line] = Oversize
  /\ Return(IF grammarSeen \/ programSeen THEN Accepted(tree) ELSE Failed)

ScanFails ==
  /\ Reading
  /\ source[line] = Oversize
  /\ Return(Failed)

EndOfInput ==
  /\ Running
  /\ line > Len(source)
  /\ Return(IF grammarSeen \/ programSeen THEN Accepted(tree) ELSE Failed)

\* Every parser has returned, or none can any more.
Finished ==
  /\ active = Crashed \/ \A p \in Parsers : result[p] # Pending
  /\ UNCHANGED vars

Step == SkipBlank \/ AcceptLine \/ RejectLine \/ Panics \/ ScanFails \/ EndOfInput

Next == (\E p \in Parsers : Begin(p)) \/ Step \/ Finished

Spec == Init /\ [][Next]_vars

\* A sequential program that has been started keeps taking steps.
FairSpec == Spec /\ WF_vars(Step) /\ \A p \in Parsers : WF_vars(Begin(p))

-----------------------------------------------------------------------------
(* Properties.                                                             *)

Returned(p) == result[p].status = "parsed"

\* Type invariant: the locals of the loop stay in range and a finished parser
\* has returned an error or a tree of the source's declarations.
TypeOK ==
  /\ source \in Sources
  /\ active \in Parsers \union {Idle, Crashed}
  /\ line \in 1 .. Len(source) + 1
  /\ grammarSeen \in BOOLEAN
  /\ programSeen \in BOOLEAN
  /\ DOMAIN tree \subseteq DOMAIN source
  /\ \A n \in DOMAIN tree : tree[n] = source[n]
  /\ DOMAIN result = Parsers
  /\ \A p \in Parsers : result[p].status \in {"pending", "failed", "parsed"}

Before == {n \in DOMAIN source : n < line}

\* The parser that runs: the lines before the current one were all readable
\* and admitted, the tree holds exactly their declarations, the two flags
\* summarise them, grammar occurs once, and the parser has not yet returned.
LoopSound ==
  Running =>
    /\ result[active] = Pending
    /\ \A n \in Before : Readable(source[n])
    /\ \A n \in Before : source[n] # <<>> => Admits(active, source[n])
    /\ tree = [n \in {m \in Before : source[m] # <<>>} |-> source[n]]
    /\ grammarSeen <=> \E n \in DOMAIN tree : IsGrammar(tree[n])
    /\ programSeen <=> \E n \in DOMAIN tree : Founds(active, tree[n])
    /\ \A m, n \in DOMAIN tree : IsGrammar(tree[m]) /\ IsGrammar(tree[n]) => m = n

\* Whatever a parser has returned is the outcome its format prescribes.
OutcomesFollow ==
  \A p \in Parsers : result[p] # Pending => result[p] = Parsed(p, source)

\* The inductive invariant: it explains at every line why the outcome will be
\* the prescribed one, wherever the loop stops.
LoopInvariant == TypeOK /\ LoopSound /\ OutcomesFollow

\* What the seed accepts, every generated parser accepts with the same tree:
\* three translations of one format, kept in three places, do not drift on
\* the grammar language (contract-v1.md, generation boundary).
SeedAcceptanceCarries ==
  \A p \in Parsers :
    Returned("stage0") /\ result[p] # Pending => result[p] = result["stage0"]

\* A freshly generated parser accepts whatever the committed one accepts, with
\* the same tree.
CommittedWithinFresh ==
  Returned("stage1") /\ result["fresh"] # Pending => result["fresh"] = result["stage1"]

\* The committed parser is what the template generates: the two return the same
\* outcome.  (generated/stage1_parser.go:1 "Code generated for the gooo grammar
\* bootstrap. DO NOT EDIT.")  The template does not check package and program.
CommittedIsGenerated ==
  result["stage1"] # Pending /\ result["fresh"] # Pending
    => result["fresh"] = result["stage1"]

Contract == INSTANCE ParseContract

\* The loops implement the one-step contract: whichever line a loop stops at and
\* whatever ran before it, the outcome is the function Parsed of the source.
RefinesContract == Contract!Spec

\* Unless the lexer panics, every parser that is called returns (no line is
\* waited on for ever); a source with such a line may still be refused first.
AllReturn ==
  (\A n \in DOMAIN source : source[n] # Fatal)
    => <>(\A p \in Parsers : result[p] # Pending)
=============================================================================
