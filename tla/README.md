# Verification of the gooo self-hosted grammar compiler

The repository bootstraps a parser. A grammar file (`.gooo`) is read by an independent seed
parser, lowered to a semantic IR, read again by a generated parser, lowered again, read once
more by the next generated parser, and the digests and diagnostics of the three generations
are reduced to one decision: `CLOSED`, `UNKNOWN` or `REFUTED`. Around that comparison stand a
conformance suite, a command line, the collection of evidence in CI and the verification of a
release. The specifications concentrate on five questions:

1. do the parsers, written down in three places, agree on the language;
2. does the pipeline draw the right conclusion from what it has seen, on every way through it
   and for every generated parser it may be built with;
3. what does `CLOSED` say about a grammar, and what must not influence it;
4. what does a passing conformance case say, and is a replay reproducible;
5. what can be concluded from the files that the commands leave, when any of them may fail or be
   killed half way.

## The system

| Component | State it keeps | Operations | Depends on |
| --- | --- | --- | --- |
| Seed parser, `internal/stage0/parser.go` | line counter, `grammarSeen`, tree so far | `Parse`, `seedFields`, `seedCommentless` | model |
| Committed generated parsers, `generated/` | the same and `programSeen` | `ParseStage1`, `ParseStage2` over `parseGeneratedGrammar` | model |
| Parser template, `compiler.go:174-302` | none; the emitted parser keeps the same locals | `RenderParser`, and the emitted `Parse...` | model |
| Lowering, `internal/lowering/lowering.go` | IR under construction, maps of the checks | `Lower`, `validateCollections`, `Canonical`, `HasClass` | model |
| Bootstrap, `compiler.go:51-172` | `Result`: trees, generation records, diagnostics, artifacts, decision, terminal, digest | `Bootstrap`, `decide`, `refutedResult`, `unknownResult`, `stampTerminalDigest` | all of the above |
| Data model, `internal/model` | none | digests of bytes, trees, IR, terminal; an unused `ExactImprovementPair` | |
| Conformance, `internal/conformance` | report under construction | `LoadDefinition`, `RunDirectory`, `validateTerminal`, `validateReplay`, `validateChange` | Bootstrap, fixture files |
| CI evidence, `internal/evidence` | evidence under construction, first error | `Command` with five child processes, `counts`, `inventory`, `write` | Conformance through a child process and a file |
| Command line, `cmd/gooo-grammar-compiler` | files in a caller's directory | `bootstrap`, `generate`, `sample`, `conformance`, `ci-evidence` | everything |
| Release verification, `scripts/ci/verify-immutable-release.sh` | none | compares asset digests | GitHub API |
| CI workflow, grammar, fixtures, schemas | files | | |

Calls are synchronous and on one goroutine. Components interact by return values (parser to
lowering to pipeline), by generated source that is committed and compiled later (template to
committed parsers), and by files (`conformance.json` between two processes).

The hard behaviours are therefore not races but *order and agreement*: three independent
translations of one format; evidence gathered over three generations with an early return at
each; the order of the tests in `decide`; loops whose verdict depends on what an overwritten
map held a moment ago; digests that must cover exactly what matters; two automata that decide
separately where a string ends; a map iterated in any order; files left from an earlier, failed or
killed run; discarded errors.

What makes each component correct:

- *parsers*: each returns, on every source; the outcome is a function of the source; what one
  generation accepts the next accepts with the same tree; the committed parser is what the
  template generates.
- *lowering*: the IR forgets the order that carries no meaning and keeps the order that does;
  the diagnosed classes are exactly the faults of the declared grammar.
- *pipeline*: `CLOSED` is earned; `UNKNOWN` is accountable; decision, terminal, digest and stamps
  agree whichever return is taken; evidence is never dropped; the verdict is the worst that the
  evidence calls for.
- *field lexer*: it loses and repeats no character, refuses only what cannot be read, ends on every
  line, and agrees with the comment stripper on what is a comment.
- *conformance*: a case passes only for the reason its definition states; a replay fails only for a
  reason in its input; a full pass is the whole fixed denominator.
- *command line and evidence*: a report speaks of the files beside it; success means that everything
  is written by this run; an old conformance report never supplies a pass unflagged.
- *release*: a verification that succeeds has compared every asset.

## The modules

| Module | Models |
| --- | --- |
| `GooSource` | a source as a sequence of lines, the declaration rules of the four parsers, and `Parsed(p, s)`, what a parse means |
| `ParseContract` | abstract: a parse is one step whose outcome is `Parsed` |
| `LineParsers` | the line loops: one action per way a line is handled, implements `ParseContract` |
| `LineParsersProofs` | theorems about `LineParsers` |
| `FieldLexer` | how a line becomes fields: the comment stripper, then the field automaton, one action per character and per way a field ends |
| `FieldLexerProofs` | theorems about `FieldLexer` |
| `Verdict` | abstract: evidence is gathered, one conclusion is drawn, its worst element |
| `Bootstrap` | the pipeline, with parsers, lowering and digests as parameters |
| `BootstrapProofs` | theorems about `Bootstrap` |
| `Lowering` | `Lower` as operators over a tree |
| `LoweringProofs` | lemmas about those operators, for trees of any size |
| `GooBootstrap` | `Bootstrap` instantiated with the committed parsers, `Lowering` and the digests |
| `GooBootstrapProofs` | theorems about `GooBootstrap` |
| `LeastNumbers` | lemmas only: least counterexamples and recursive functions, for the proof modules |
| `Renderer` | the placeholders of the template replaced key by key in any order |
| `Conformance` | `RunDirectory` over case directories, composed with `Renderer` for replays |
| `ConformanceProofs` | theorems about `Renderer` and `Conformance` |
| `CommandLine` | the commands, the files they write, failing writes and kills |
| `Evidence` | the phases of `ci-evidence`, composed with `CommandLine` through its child and the files |
| `EvidenceProofs` | theorems about `CommandLine` and `Evidence` |
| `Release` | the script that verifies a release, its listing running beside its loop |
| `MCLineParsers`, `MCFieldLexer`, `MCBootstrap`, `MCGooBootstrap`, `MCConformance`, `MCEvidence`, `MCRelease` | the instances that TLC checks |

Operators whose comment describes a mistake (for example "A comparison that looks at the first
two generations only") stand before the definition they vary. No specification uses them; they
are substituted one at a time to see that a property notices the mistake, and `PROJECT.json`
lists which property notices which.

### State and actions against the code

*LineParsers.* `line`, `grammarSeen`, `programSeen` and `tree` are the locals of the loop,
`active` says which of the four parsers runs, `result` what each has returned. `SkipBlank` is the
`continue` for a line without fields; `AcceptLine` the checks, the flag and the appended node;
`RejectLine` every error return inside the loop; `ScanFails` the `scanner.Err` return after
the loop has been left on a line too long for the scanner; `EndOfInput` the test after the loop;
`Panics` the line whose lexer panics, which ends the parse without a result.
The four parsers are told apart by `SeedAdmits` (the switch in `stage0.Parse`), `CommittedAdmits`
(`validateGeneratedDeclaration`), `TemplateAdmits` (the else-if chain of the template, whose first
branch shadows later ones) and `Founds`.

*Bootstrap.* `pc` and `gen` say where in the function the call stands; the other variables are its
locals and the fields of `Result`. There is one action for each of the seven ways on: a parse or a
lowering succeeds, the seed's fails (`refutedResult`), a generated one fails (`unknownResult`), the
decision (`Decide`). The last three are the ways to return. As in the code each sets decision,
terminal, digest and stamps for itself, the two failures with a decision of their own beside the one
that `terminalFor` derives from the reason; it is a property (`ReceiptsAgree`), not the shape of the
model, that they fit together. Each is one step because no other code runs between these
assignments. Of the diagnostics the set of classes is kept: `HasClass` and `highestDiagnosticReason`
look at nothing else, and the order in which they were appended does not matter to them.

*Lowering.* `Lower` stops at the first faulty declaration, and every error has the same effect on
the bootstrap, so the loop becomes the condition that no declaration is faulty. What depends on
the order of declarations is kept: productions are a sequence, the last `fixed_denominator` counts,
`Conflicting` consults the nearest earlier entry as the overwritten map does, attributes are looked
up in sorted order. A sort of complete entries yields a bag, a sort by name alone yields a sequence
per name. (Go's sort of entries of one name is stable for short slices only; such grammars are
refuted and nothing compares their digests across different orders.) The key under which a
production body is remembered is the real string, because its ambiguity is the point.

*FieldLexer.* `pos` is the index of the loop that runs, `mode` and `escaped` its flags, `limit` the
end of the text that the first pass leaves, `fields` the result, each field with the part of the
line it came from. `StripChar` and `Strip` are the first pass; `OpenField` is the switch on the first
character of a field; `LiteralChar`, `RegexChar` and `BareChar` are one turn of the three inner
loops; the `End...`, `Refuse...` and `SliceOutOfRange` actions are the ways on after them. The seed,
the committed parsers and the template hold three copies, which run the same automaton (the template
writes the switch as `if`, and two copies test `i == 0`, which is never so).

*Conformance.* A directory is a definition together with what lies at the paths it names. `Load` and
`RefuseSuite` are the denominator checks; `SourceMissing`, `RunCase` and the four steps of a replay
are one turn of the loop. `Bootstrapped` gives what `compiler.Bootstrap` returns on each source, but
for its artifacts: those of a replay, two of the case and two of the reference, are rendered one
after the other (`ReplaceKey`, `RenderNext`), because there two calls on equal bytes may differ. The
artifacts of other cases are compared with nothing and are not rendered. The test of `runErr` is left
out: `Bootstrap` returns no error.

*CommandLine and Evidence.* `pc` is where the command that runs stands; on a file it is about to write
it. `Truncate` and `Complete` are the two halves of `os.WriteFile`; `WriteFails` may happen before or
between them; `Killed` at any step. Files remember by which run they were written and of what, which
is how the properties tell a fresh report from an old one; the code itself cannot. The child of
`ci-evidence` runs the same actions as the conformance command and `Leave` decides who goes on. A
parent that is killed takes its child with it, as a CI runner does with a process group.

*Release.* `List` and `ListingEnds` are the process behind `< <(...)`, `Compare` is the body of the
loop, where every `test` that fails ends the script.

### Abstractions

- In `LineParsers` a line is the outcome of its field lexer: fields, blank, malformed, fatal,
  oversize. That the three copies of the lexer agree is read from the code and is an assumption
  behind "what the seed accepts the generated parsers accept"; `FieldLexer` says what they all do.
- `Bootstrap` and `GooBootstrap` assume that the parsers they call return: no source holds a fatal
  line (a panic would end the whole call; finding 4 says which line that is).
- In `FieldLexer` characters are six classes: the four that the automaton looks at, a blank, and a
  letter that may follow a backslash in a Go string. White space that is trimmed but does not
  separate fields (such as a form feed) and escapes of several characters are left out.
- In `Renderer` a text is what stands in each slot of the template; `format.Source` is a function of
  the text.
- In `CommandLine` an input is known by whether it is there, is taken by the committed stage2 parser
  (programs are, too), lowers, and lowers without diagnostics.
  Refused arguments and paths are commands that end with an error before their first step.
- A field text is a key with a value or a word. Numbers and truth values are read by `Numeral` and
  `Truth` (strconv), given by the instance; `Rank` is byte order.
- SHA-256 over JSON is injective: a digest is a tagged copy of what it covers.
- Error texts, the blocker's wording per stage and parser identities are left out. Of the generation
  records and the terminal digest `Conformance` asks only whether they are equal and set.
- The pipeline's artifact is the IR it was rendered from.

## What is checked

| Run | Shows | Bounds |
| --- | --- | --- |
| `line_parsers` | the loops have the types and the invariant, implement `ParseContract`, return, and acceptance carries from seed to committed to fresh | 18 lines, one for each rule the formats tell apart, most in a good and a bad shape, a blank, a malformed and an oversize one; all sources of up to 2 of them, all of 3 over four lines whose order matters; every order of the four parsers |
| `bootstrap_replaced` | the pipeline is sound whatever the generated parsers return | trees that differ in IR, diagnosed classes and whether they lower; every combination of returns in generations 1 and 2 |
| `gooo_bootstrap` | the meaning of `CLOSED` and `REFUTED`, independence from order and layout, and the refinement of `Verdict`, with the committed parsers and the real lowering | a complete grammar of 12 lines in the shape of the fixtures; one of 25 alterations replacing any line or inserted anywhere; any line removed; any two appended; three levels for one operator in every order |
| `field_lexer` | what the lexer takes, refuses and where it stops, and that it agrees with the comment stripper | every line of up to 5 characters of 6 classes |
| `conformance` | what a failed replay and a full pass mean; a report or an error comes | suites of up to 3 directories over 2 fixed cases, with missing, duplicated and unreadable ones; sources that close, that differ in tree or IR, that are unknown or refused, and two whose tokens are named like placeholders; every order of replacement |
| `commands` | what the files on disk say after any sequence of commands | 2 commands, each of the 5 and on a grammar that closes, one with diagnostics, a program, a text that no parser takes and nothing; a failure or a kill at every step |
| `unterminated_regex` | finding 4 | every line of up to 4 characters |
| `release` | finding 5 | up to 2 assets, 2 digests, any of them missing |
| `template_diverges` | finding 1 | as `line_parsers` |
| `drift_order` | finding 2 | as `bootstrap_replaced` |
| `replay_order` | finding 6 | as `conformance` |
| `lookalikes` | finding 3 | the grammar with two productions of one key, and shortened grammars |

The bounds are enough for these reasons. A line loop looks at the current line and two flags, so
two lines reach every state of the flags followed by every kind of line, and three reach a repeated
declaration with something between. The pipeline compares two digests at a time, so two IRs and
two outcomes of lowering give every pattern of equality among three generations. Each diagnosis
relates at most two declarations, except that a conflict may be undone by a third, for which three
levels in every order are tried. In the lexer the longest pattern that a check looks at is a
delimiter, an escape and a closing delimiter beside another field, four characters and a blank. The
properties about files relate the latest writer of one file to the latest writer of another, so two
runs show every mixture; theorems cover any number.

*Fairness.* `FairSpec` of `LineParsers` and `Bootstrap` is weak fairness of the step relation:
each is one function call on one goroutine that waits for nothing, so it takes its next step as
long as there is one. In `LineParsers` a parser that has been called is never starved by another
(they run one at a time) and the caller makes every call. No fairness among alternatives is
assumed: which line, tree or failure comes is never fair. `FieldLexer` and `Conformance` are single
calls and get the same weak fairness. In `Evidence` it is weak fairness of `Step`, the steps of the
command that runs and of its children: `CombinedOutput` waits for a child that runs to its end. No
command is ever forced to start and none is forced to be killed. Every run stutters explicitly when all
is done, so deadlock is checked everywhere except in `release`, where the script simply ends.

### Findings

1. *The template accepts more than the committed parser.* In the template's else-if chain
   (`compiler.go:249`) `package` and `program` are caught by a branch without a size check, so the
   two following branches never see them. The committed parser, marked as generated, rejects
   `program` without a name and `package` with two. Theorem `FreshCarries` shows the difference is
   one-sided: a fresh parser never rejects what the committed one accepts.
2. *The order of the decision.* `decide` asks for ambiguity before drift, and a failing generated
   parser yields `UNKNOWN` even when the seed's lowering has diagnosed a violation. The contract says
   that `REFUTED` outranks `UNKNOWN` and that drift is `REFUTED`. This is latent: it takes a
   generated parser that disagrees with the seed; theorems `CommittedReduces` and `CommittedWorst` show
   that without such a disagreement the order is kept.
3. *Two productions, one key.* Symbols are joined by blanks and a literal may contain one, so
   `expr -> "a false:expr"` and `expr -> "a" expr` are taken for a repeated production.
4. *A lone slash.* The check for an unterminated regex takes the opening slash for the closing one when
   the field is a single slash at the end of the line, and the slice after it panics; an escaped
   slash at the end of the line closes a regex as well. All three copies have it. Theorem
   `RefusalsAreEarned` shows that there is no other cause for a panic, on lines of any length.
5. *A listing that fails.* The release script reads the assets from a process substitution. If the
   listing fails or ends early the loop simply stops and the verification succeeds, with no asset
   compared in the worst case.
6. *A token named like a placeholder.* `RenderParser` replaces its placeholders in the iteration order
   of a map (`compiler.go:196`) and token names are replacements. With a token named `__STAGE__` two
   calls on the same bytes may render different parsers, while their generations and terminal digests
   are equal: the difference is no evidence, which `compiler.go:47-49` says it always becomes, and a
   byte replay of such a grammar passes or fails by chance. Theorem `RenderingIsConfluent` shows that
   there is no other cause.

## What is proved

The theorems hold for every value of the constants: any sources, and in `Bootstrap` any parsers, any
lowering that satisfies `LoweredAssumption` (it returns a typed result and no diagnostic of the
class that only the pipeline appends) and any digest functions, injective or not. Every invariant,
action property and refinement that a passing run checks is a theorem; the last paragraph names the
rest.

Where a proof needs induction over the length of a text or a list, it takes the least counterexample:
`LeastNatural` and `LeastUpTo` in `LeastNumbers` are consequences of the well-foundedness of the
natural numbers. A recursive function that the model defines (`f[n] == ...`) is a CHOOSE until it is
known to exist; `Iterates` shows that it does for every function that computes its next value from the
last.

*LineParsers* (assumptions: sources are sequences of lines; the sentinels are distinct).
An outcome depends on all lines, a loop sees one at a time; `LoopSound` bridges the gap by saying that
the flags and the tree summarise the lines already read and that none of them was a reason to
refuse the source. With `OutcomesFollow` (what has been returned is `Parsed`) it is
inductive: `LoopsCorrect`. From it follow `LoopsRefineContract` (a returning step is the contract's
step, every other one stutters), `SeedCarries` and `FreshCarries`, which compare the declaration
rules through `Parsed` and so need no second induction.

*Bootstrap*. `ClosedIsEarned` speaks of trees and lowerings, while `decide` looks at records and
digests; `PipelineSound` ties the two together (the record of a generation carries the digests of its
own tree and IR, its diagnostics are all kept) and `ConclusionSound` says what a conclusion rests
on. `BootstrapInvariant` is their conjunction with the types and is inductive: `PipelineCorrect`.
`ClosedEarned`, `ReceiptsKept` (an action property) and `TypeCorrect` follow; `UnknownAccounted` is
inductive by itself. `ReceiptsCorrect` relates the terminal of a return to the records and trees
that the steps before it have left: it needs `Unparsed`, that no generation is parsed before its
turn, and that generations are recorded in order, so that the number of records says how far the call
has come. On the same two rests `AlarmsEarned`, which compares trees where `decide` compares
digests. Under `CommittedBuild` (the generated parsers answer like
the seed on what it accepts, which is what `SeedCarries` says of the committed ones, and what
`GooBootstrapProofs` proves of `GooBootstrap`) `CommittedInvariant`, which no run needs to check,
adds that all generations work on one tree; `GrammarDecides`, `CommittedWorst` and the refinement
`CommittedReduces` follow from it.

*Lowering and GooBootstrap* (assumptions: sources are sequences of lines; what stands for no tree
and no IR is none). The properties speak of the lines of the source, `Lower` of sequences made from
the tree. `DeclarationsOf` gives the correspondence: each line of a kind has its `Place` among the
entries of that kind, in the order of the lines. On it rest one lemma for each diagnosis. The
delicate one is `NearestIsEnough`: the code compares an entry only with the nearest earlier one of
its name, yet if any two of a name differ then some entry differs from its nearest, as a least pair
at which they differ shows. `FlattenJoins` and `FlattenHolds` say what the flattened effects hold,
and `RepetitionIsAmbiguous` that equal bodies have equal keys (the converse fails: finding 3).
`DiagnosesSound` puts them together: a grammar that lowers without diagnostics has none of the
faults. `LowerIsTyped` and `CommittedAgree` discharge `LoweredAssumption` and `CommittedBuild` for
the real lowering and the committed parsers, so that every theorem about `Bootstrap` holds of this
instance (`SameBehaviours`); with `SeedInvariant`, which says that the seed's tree is the source's
lines and that the classes on record are those of its lowering, follow `ClosedSound`,
`ViolationsRefuted` and `GrammarDecides`, and from `CommittedReduces` the refinement of the lattice,
`EvidenceReduced`. `LayoutUnseen` renumbers a tree: `RenumberedInOrder` shows
that a function on numbers that keeps their order leaves `InOrder` the same.

`OrderUnseen` needs more: that `Lower` is a function of the declarations up to the order that
carries no meaning. `Permuted` says that two lists differ in their order only, and
`ReorderedInOrder` that any renumbering leaves a tree's declarations so. A bag of a permuted list is
the same bag (`PermutedBag`, and `FlattenPermuted` for the effects, which are flattened first); a
list sorted by name is the same only if entries of one name are equal (`PermutedByName`), and that
is what the diagnoses give: a grammar that is neither invalid nor in conflict has `OneMeaning` for a
name, again through `NearestIsEnough`. `OrderForgotten` puts them together for trees of any size:
the canonical IR and the diagnosed classes of two such trees are equal. `ExchangeReorders` applies
it to two neighbouring lines. A grammar that is not refuted meets the hypothesis because its
diagnoses are on record, unless nothing is: `UnrecordedRefuted` shows that a return without a
generation record is a refutation.

*FieldLexer* (assumption: lines are sequences of the six classes). `EveryInkInOneField` speaks of
the end; `LexInvariant` says the same of the part before the frontier, the open field's start or the
current position, and is inductive: `LexerLosesNothing`, `FieldsPartitionTheText`, for lines of any
length. The shape of a field is defined by `EscapedIn`, which recurses over the text of the field,
while the automaton keeps one flag or jumps two characters. `FormInvariant` says what the open field
has been so far: for a literal, that the position is not an escaped one and that no closing quote
has been passed; for a regex, that the flag is what the recursion gives there and that no unescaped
slash has been passed. The lemmas `EscapesAgree` and `ClosedByOneMore` (a text read one character
further is escaped in the same places) make it inductive: `LexerForms`, `ShapesHold`,
`RefusalsAreEarned`. `CommentsAgree` compares two automata, one of which has stopped before the
other starts; `PassesInvariant` says that wherever the field lexer stands between fields on a tame
line the comment stripper was outside quotes and slashes at that character, and inside them with the
same escape flag where the field lexer is (`PassesAgree`, `TamePassesAgree`).

*Renderer and Conformance* (assumption: definitions lead to known sources). `OrderIsHidden` compares
the text half way with the text in which all keys replaced so far had been replaced at once;
replacing one more key keeps the equality because no value brings in another key
(`RenderingIsConfluent`). The inductive invariant `ConformanceInvariant` adds what each finished
rendering of a replay has left in `artifacts`, from which `ReplaysReproduce` follows for the two
pairs that the replay compares. `AllPassIsWhole` counts: its
inductive invariant `ReportInvariant` keeps the counters equal to the cardinalities of the records
they count, and `AllPassWhole` adds that a list as long as the fixed denominator which holds every
fixed id holds each once (assumptions: the fixed cases are finitely many, a case root is a list).

*CommandLine and Evidence* (assumptions: the two sentinels are no file contents; grammars that
lower are among the inputs that the committed parser takes). The files do not say where a command
stands, so the inductive invariant says what each has left behind it at each step: `BundleGrows`
for bootstrap (and that its report on disk is of an earlier run until it writes its own),
`ReportGrows` for conformance and its parent (no error noted means that the report on disk is this
run's and passes), `FailedSoFar` for the phases. `CommandsCorrect` proves `IInv`, from which all
six invariants of the run follow. One lemma for each action, and `ExitKeeps` for the one step
where a command says that it has succeeded.

Only model-checked: the liveness properties (`AllReturn`, `Returns`, `Finishes`, `Reports`,
`EvidenceIsReached`), which need fairness and ENABLED, beyond what the installed provers do. The six
findings are counterexamples that TLC exhibits.

## Not modelled, and the plan

- The inventory walk and the resource metrics of `ci-evidence`: measurements on which no decision rests.
  `counts` enters as what it can and cannot see of a failing test run.
- The flags and paths of the commands beyond their refusal; `--stage`, `--package` and `--function` of
  `generate`.
- `ExactImprovementPair`, which nothing calls.
- The workflow files; `release-verify.yml` tolerates a failing download, so that the script meets
  missing files, which `Release` includes.
- A child that outlives a killed `ci-evidence`, and two commands at once on one directory: nothing in
  the repository starts them so.

What could be added to the proofs: that any permutation of the lines which keeps the order of the
productions and of the denominators goes unseen, which `OrderForgotten` proves of trees and
`OrderUnseen` of one exchange.
