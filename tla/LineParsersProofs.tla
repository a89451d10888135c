-------------------------- MODULE LineParsersProofs --------------------------
(***************************************************************************)
(* Proofs about LineParsers, for every set of sources of any length.       *)
(***************************************************************************)
EXTENDS LineParsers, TLAPS

\* A source is a sequence of lines, so its line numbers are 1 .. Len(source).
LEMMA SourceShape ==
  ASSUME source \in Sources
  PROVE  /\ Len(source) \in Nat
         /\ DOMAIN source = 1 .. Len(source)
BY SourcesAssumption DEF Line

-----------------------------------------------------------------------------
(* The type invariant.                                                     *)

\* The empty tree has no line.
LEMMA EmptyTreeShape == DOMAIN EmptyTree = {}
BY DEF EmptyTree

\* The initial state is well typed.
LEMMA TypeInit == Init => TypeOK
<1> SUFFICES ASSUME Init PROVE TypeOK
  OBVIOUS
<1>1. Len(source) \in Nat /\ source \in Sources
  BY SourceShape DEF Init
<1>2. line \in 1 .. Len(source) + 1
  BY <1>1 DEF Init
<1>3. DOMAIN tree \subseteq DOMAIN source /\ \A n \in DOMAIN tree : tree[n] = source[n]
  BY EmptyTreeShape DEF Init
<1>4. DOMAIN result = Parsers /\ \A p \in Parsers : result[p].status = "pending"
  BY DEF Init, Pending
<1> QED
  BY <1>1, <1>2, <1>3, <1>4 DEF Init, TypeOK

\* The type invariant is inductive.
LEMMA TypeStep == TypeOK /\ [Next]_vars => TypeOK'
<1> SUFFICES ASSUME TypeOK, [Next]_vars PROVE TypeOK'
  OBVIOUS
<1>0. Len(source) \in Nat /\ DOMAIN source = 1 .. Len(source)
  BY SourceShape DEF TypeOK
<1>1. ASSUME NEW p \in Parsers, Begin(p) PROVE TypeOK'
  <2>1. line' = 1 /\ 1 \in 1 .. Len(source) + 1
    BY <1>0, <1>1 DEF Begin
  <2>4. grammarSeen' \in BOOLEAN /\ programSeen' \in BOOLEAN
    BY <1>1 DEF Begin
  <2>2. DOMAIN tree' = {}
    BY <1>1, EmptyTreeShape DEF Begin
  <2>3. source' = source /\ result' = result /\ active' \in Parsers
    BY <1>1 DEF Begin
  <2> QED
    BY <2>1, <2>2, <2>3, <2>4 DEF TypeOK
<1>2. CASE SkipBlank
  BY <1>0, <1>2 DEF SkipBlank, Reading, TypeOK
<1>3. CASE AcceptLine
  <2>1. line' \in 1 .. Len(source') + 1 /\ line \in DOMAIN source
    BY <1>0, <1>3 DEF AcceptLine, Reading, TypeOK
  <2>2. DOMAIN tree' = DOMAIN tree \union {line}
    BY <1>3 DEF AcceptLine
  <2>3. \A n \in DOMAIN tree' : tree'[n] = source[n]
    BY <1>3, <2>2 DEF AcceptLine, TypeOK
  <2>4. grammarSeen' \in BOOLEAN /\ programSeen' \in BOOLEAN
    BY <1>3 DEF AcceptLine, TypeOK
  <2> QED
    BY <1>3, <2>1, <2>2, <2>3, <2>4 DEF AcceptLine, TypeOK
<1>4. CASE RejectLine
  BY <1>4 DEF RejectLine, Return, TypeOK, Failed
<1>5. CASE ScanFails
  BY <1>5 DEF ScanFails, Return, TypeOK, Failed
<1>6. CASE EndOfInput
  BY <1>6 DEF EndOfInput, Return, TypeOK, Failed, Accepted
<1>7. CASE Finished \/ UNCHANGED vars
  BY <1>7 DEF Finished, vars, TypeOK
<1>8. CASE Panics
  BY <1>8 DEF Panics, TypeOK
<1> QED
  BY <1>1, <1>2, <1>3, <1>4, <1>5, <1>6, <1>7, <1>8 DEF Next, Step

\* The locals of every loop stay in range, whatever is parsed.
THEOREM TypeCorrect == Spec => []TypeOK
BY TypeInit, TypeStep, PTL DEF Spec

-----------------------------------------------------------------------------
(* The loop invariant.                                                     *)

Declared == {m \in Before : source[m] # <<>>}

\* No parser runs and none has returned.
LEMMA LoopInit == Init => LoopSound /\ OutcomesFollow
BY IdleAssumption DEF Init, LoopSound, Running, OutcomesFollow

\* Skipping a blank line or appending a declaration keeps the loop sound.
LEMMA BeginSound ==
  ASSUME TypeOK, NEW p \in Parsers, Begin(p)
  PROVE  LoopSound'
<1>1. Before' = {} /\ active' = p /\ result'[p] = Pending
  BY SourceShape DEF Begin, Before, TypeOK
<1>2. tree' = [n \in {m \in Before' : source'[m] # <<>>} |-> source'[n]]
  <2>1. {m \in Before' : source'[m] # <<>>} = {}
    BY <1>1
  <2> QED
    BY <2>1 DEF Begin, EmptyTree
<1>3. DOMAIN tree' = {} /\ grammarSeen' = FALSE /\ programSeen' = FALSE
  BY EmptyTreeShape DEF Begin
<1> QED
  BY <1>1, <1>2, <1>3 DEF LoopSound

\* A blank line adds nothing to the tree.
LEMMA SkipSound ==
  ASSUME TypeOK, LoopSound, SkipBlank
  PROVE  LoopSound'
<1>0. Len(source) \in Nat /\ DOMAIN source = 1 .. Len(source)
  BY SourceShape DEF TypeOK
<1>1. Before' = Before \union {line}
  BY <1>0 DEF SkipBlank, Reading, Before, TypeOK
<1>2. {m \in Before' : source'[m] # <<>>} = {m \in Before : source[m] # <<>>}
  BY <1>1 DEF SkipBlank
<1>3. Readable(<<>>)
  BY SentinelsAssumption DEF Readable
<1>4. UNCHANGED <<source, active, tree, grammarSeen, programSeen, result>> /\ Running
  BY DEF SkipBlank, Reading
<1>5. \A n \in Before' : Readable(source'[n])
  BY <1>1, <1>3, <1>4 DEF SkipBlank, LoopSound
<1>6. \A n \in Before' : source'[n] # <<>> => Admits(active', source'[n])
  BY <1>1, <1>4 DEF SkipBlank, LoopSound
<1> QED
  BY <1>2, <1>4, <1>5, <1>6 DEF LoopSound

\* An accepted line adds one declaration, and the flags say so.
LEMMA AcceptSound ==
  ASSUME TypeOK, LoopSound, AcceptLine
  PROVE  LoopSound'
<1>0. Len(source) \in Nat /\ DOMAIN source = 1 .. Len(source)
  BY SourceShape DEF TypeOK
<1>1. Before' = Before \union {line} /\ line \notin Before
  BY <1>0 DEF AcceptLine, Reading, Before, TypeOK
<1>2. UNCHANGED <<source, active, result>> /\ Running /\ source[line] # <<>>
  BY DEF AcceptLine, Reading
<1>3. {m \in Before' : source'[m] # <<>>} = Declared \union {line}
  BY <1>1, <1>2 DEF Declared
<1>4. DOMAIN tree = Declared /\ \A n \in Declared : tree[n] = source[n]
  BY <1>2 DEF LoopSound, Declared
<1>5. tree' = [n \in Declared \union {line} |-> source[n]]
  BY <1>4, <1>1 DEF AcceptLine, Declared
<1>6. \A n \in Before' : Readable(source'[n])
  BY <1>1, <1>2 DEF AcceptLine, LoopSound
<1>7. \A n \in Before' : source'[n] # <<>> => Admits(active', source'[n])
  BY <1>1, <1>2 DEF AcceptLine, LoopSound, Taken
<1>8. grammarSeen' <=> \E n \in DOMAIN tree' : IsGrammar(tree'[n])
  BY <1>2, <1>4, <1>5 DEF AcceptLine, LoopSound
<1>9. programSeen' <=> \E n \in DOMAIN tree' : Founds(active', tree'[n])
  <2>1. active' = active /\ programSeen' = (programSeen \/ Founds(active, source[line]))
    BY DEF AcceptLine
  <2>2. programSeen <=> \E n \in Declared : Founds(active, source[n])
    BY <1>2, <1>4 DEF LoopSound
  <2>3. (\E n \in DOMAIN tree' : Founds(active, tree'[n]))
          <=> (\E n \in Declared : Founds(active, source[n])) \/ Founds(active, source[line])
    BY <1>5
  <2> QED
    BY <2>1, <2>2, <2>3 DEF TypeOK
<1>10. \A m, n \in DOMAIN tree' : IsGrammar(tree'[m]) /\ IsGrammar(tree'[n]) => m = n
  BY <1>2, <1>4, <1>5 DEF AcceptLine, LoopSound, Taken
<1> QED
  BY <1>2, <1>3, <1>5, <1>6, <1>7, <1>8, <1>9, <1>10 DEF LoopSound

-----------------------------------------------------------------------------
(* Every way out of a loop returns the prescribed outcome.                 *)

\* A refused line is a reason why the source is not acceptable.
LEMMA RejectFollows ==
  ASSUME TypeOK, LoopSound, RejectLine
  PROVE  Parsed(active, source) = Failed
<1>0. line \in DOMAIN source /\ Running
  BY SourceShape DEF TypeOK, RejectLine, Reading
<1>1. CASE source[line] = Malformed
  BY <1>0, <1>1 DEF Parsed, Acceptable, Readable
<1>2. CASE source[line] # <<>> /\ ~Admits(active, source[line])
  BY <1>0, <1>2 DEF Parsed, Acceptable, Content
<1>3. CASE source[line] # <<>> /\ IsGrammar(source[line]) /\ grammarSeen
  <2>1. PICK m \in DOMAIN tree : IsGrammar(tree[m])
    BY <1>0, <1>3 DEF LoopSound
  <2>2. m \in Content(source) /\ IsGrammar(source[m]) /\ m # line
    BY <1>0, <2>1 DEF LoopSound, Content, Before, TypeOK
  <2> QED
    BY <1>0, <1>3, <2>2 DEF Parsed, Acceptable, Content
<1> QED
  BY <1>1, <1>2, <1>3 DEF RejectLine, Taken

\* So is a line that the scanner cannot read.
LEMMA ScanFollows ==
  ASSUME TypeOK, ScanFails
  PROVE  Parsed(active, source) = Failed
<1>0. line \in DOMAIN source
  BY SourceShape DEF TypeOK, ScanFails, Reading
<1> QED
  BY <1>0 DEF ScanFails, Parsed, Acceptable, Readable

\* At the end of the input the flags decide as the whole source does.
LEMMA EndFollows ==
  ASSUME TypeOK, LoopSound, EndOfInput
  PROVE  Parsed(active, source)
           = IF grammarSeen \/ programSeen THEN Accepted(tree) ELSE Failed
<1>0. Before = DOMAIN source /\ Running
  BY SourceShape DEF TypeOK, EndOfInput, Before
<1>1. tree = [n \in Content(source) |-> source[n]]
  BY <1>0 DEF LoopSound, Content
<1>2. DOMAIN tree = Content(source) /\ \A n \in Content(source) : tree[n] = source[n]
  BY <1>1
<1>3. Acceptable(active, source) <=> grammarSeen \/ programSeen
  <2>1. \A n \in DOMAIN source : Readable(source[n])
    BY <1>0 DEF LoopSound
  <2>2. \A n \in Content(source) : Admits(active, source[n])
    BY <1>0 DEF LoopSound, Content
  <2>3. \A m, n \in Content(source) : IsGrammar(source[m]) /\ IsGrammar(source[n]) => m = n
    BY <1>0, <1>2 DEF LoopSound
  <2>4. grammarSeen \/ programSeen
          <=> \E n \in Content(source) : IsGrammar(source[n]) \/ Founds(active, source[n])
    BY <1>0, <1>2 DEF LoopSound
  <2> QED
    BY <2>1, <2>2, <2>3, <2>4 DEF Acceptable
<1> QED
  BY <1>1, <1>3 DEF Parsed

\* Returning the prescribed outcome keeps the invariant.
LEMMA ReturnSound ==
  ASSUME TypeOK, OutcomesFollow, Running, Return(Parsed(active, source))
  PROVE  LoopSound' /\ OutcomesFollow'
<1>1. active' \notin Parsers /\ source' = source /\ active' = Idle
  BY IdleAssumption DEF Return
<1>2. \A p \in Parsers : result'[p] = IF p = active THEN Parsed(active, source) ELSE result[p]
  BY DEF Return, TypeOK
<1> QED
  BY <1>1, <1>2 DEF LoopSound, Running, OutcomesFollow

\* The loop invariant is inductive.
LEMMA LoopStep == LoopInvariant /\ [Next]_vars => LoopInvariant'
<1> SUFFICES ASSUME TypeOK, LoopSound, OutcomesFollow, [Next]_vars
             PROVE  LoopSound' /\ OutcomesFollow'
  BY TypeStep DEF LoopInvariant
<1>1. ASSUME NEW p \in Parsers, Begin(p) PROVE LoopSound' /\ OutcomesFollow'
  BY <1>1, BeginSound DEF Begin, OutcomesFollow
<1>2. CASE SkipBlank
  BY <1>2, SkipSound DEF SkipBlank, OutcomesFollow
<1>3. CASE AcceptLine
  BY <1>3, AcceptSound DEF AcceptLine, OutcomesFollow
<1>4. CASE RejectLine
  BY <1>4, RejectFollows, ReturnSound DEF RejectLine, Reading
<1>5. CASE ScanFails
  BY <1>5, ScanFollows, ReturnSound DEF ScanFails, Reading
<1>6. CASE EndOfInput
  BY <1>6, EndFollows, ReturnSound DEF EndOfInput
<1>7. CASE Finished \/ UNCHANGED vars
  <2>1. UNCHANGED <<source, active, line, grammarSeen, programSeen, tree, result>>
    BY <1>7 DEF Finished, vars
  <2>2. Before' = Before /\ Running' = Running
    BY <2>1 DEF Before, Running
  <2>3. LoopSound'
    BY <2>1, <2>2 DEF LoopSound
  <2> QED
    BY <2>1, <2>3 DEF OutcomesFollow
<1>8. CASE Panics
  BY <1>8, IdleAssumption DEF Panics, LoopSound, Running, OutcomesFollow
<1> QED
  BY <1>1, <1>2, <1>3, <1>4, <1>5, <1>6, <1>7, <1>8 DEF Next, Step

\* At every line of every source, what a parser has read so far explains the
\* outcome it will return, and what it has returned is what its format prescribes.
THEOREM LoopsCorrect == Spec => []LoopInvariant
<1>1. Init => LoopInvariant
  BY TypeInit, LoopInit DEF LoopInvariant
<1> QED
  BY <1>1, LoopStep, PTL DEF Spec

-----------------------------------------------------------------------------
(* How the formats of the parsers are included in one another.             *)

\* Every declaration the seed admits is admitted by all generated parsers.
LEMMA SeedWithinGenerated ==
  ASSUME NEW fields, SeedAdmits(fields), NEW p \in Parsers
  PROVE  Admits(p, fields)
BY DEF SeedAdmits, CommittedAdmits, TemplateAdmits, Admits, Parsers, KindIn

\* Every declaration the committed parser admits, a fresh one admits.
LEMMA CommittedAdmittedFresh ==
  ASSUME NEW fields, CommittedAdmits(fields)
  PROVE  TemplateAdmits(fields)
BY DEF CommittedAdmits, TemplateAdmits, KindIn

\* What the seed format accepts, every other format accepts.
LEMMA SeedOutcomeCarries ==
  ASSUME NEW s, Acceptable("stage0", s), NEW p \in Parsers
  PROVE  Parsed(p, s) = Parsed("stage0", s)
<1>1. \A n \in Content(s) : SeedAdmits(s[n])
  BY DEF Acceptable, Admits
<1>2. \A n \in Content(s) : Admits(p, s[n])
  BY <1>1, SeedWithinGenerated
<1>3. \E n \in Content(s) : IsGrammar(s[n]) \/ Founds(p, s[n])
  BY DEF Acceptable, Founds
<1> QED
  BY <1>2, <1>3 DEF Parsed, Acceptable

\* What the committed format accepts, the template accepts.
LEMMA CommittedOutcomeCarries ==
  ASSUME NEW s, Acceptable("stage1", s)
  PROVE  Parsed("fresh", s) = Parsed("stage1", s)
<1>1. \A n \in Content(s) : Admits("fresh", s[n])
  BY CommittedAdmittedFresh DEF Acceptable, Admits
<1>2. \E n \in Content(s) : IsGrammar(s[n]) \/ Founds("fresh", s[n])
  BY DEF Acceptable, Founds
<1> QED
  BY <1>1, <1>2 DEF Parsed, Acceptable

\* A parse tree comes out only of an acceptable source.
LEMMA ReturnedAcceptable ==
  ASSUME OutcomesFollow, NEW p \in Parsers, Returned(p)
  PROVE  Acceptable(p, source) /\ result[p] = Parsed(p, source)
BY DEF OutcomesFollow, Returned, Parsed, Pending, Failed

\* The generated parsers cannot drift from the seed on a grammar it accepts.
THEOREM SeedCarries == Spec => []SeedAcceptanceCarries
<1>1. LoopInvariant => SeedAcceptanceCarries
  <2> SUFFICES ASSUME OutcomesFollow, NEW p \in Parsers,
                      Returned("stage0"), result[p] # Pending
               PROVE  result[p] = result["stage0"]
    BY DEF LoopInvariant, SeedAcceptanceCarries
  <2>1. Acceptable("stage0", source) /\ result["stage0"] = Parsed("stage0", source)
    BY ReturnedAcceptable DEF Parsers
  <2> QED
    BY <2>1, SeedOutcomeCarries DEF OutcomesFollow
<1> QED
  BY <1>1, LoopsCorrect, PTL

\* A fresh parser is never stricter than the committed one.
THEOREM FreshCarries == Spec => []CommittedWithinFresh
<1>1. LoopInvariant => CommittedWithinFresh
  <2> SUFFICES ASSUME OutcomesFollow, Returned("stage1"), result["fresh"] # Pending
               PROVE  result["fresh"] = result["stage1"]
    BY DEF LoopInvariant, CommittedWithinFresh
  <2>1. Acceptable("stage1", source) /\ result["stage1"] = Parsed("stage1", source)
    BY ReturnedAcceptable DEF Parsers
  <2> QED
    BY <2>1, CommittedOutcomeCarries DEF OutcomesFollow, Parsers
<1> QED
  BY <1>1, LoopsCorrect, PTL

-----------------------------------------------------------------------------
(* Refinement of the contract.                                             *)

\* The contract prescribes the outcome that the loops are held to.
LEMMA SameOutcome ==
  ASSUME NEW p, NEW s
  PROVE  Contract!Parsed(p, s) = Parsed(p, s)
<1>1. \A f : Contract!Admits(p, f) <=> Admits(p, f)
  BY DEF Contract!Admits, Admits, Contract!SeedAdmits, SeedAdmits,
         Contract!CommittedAdmits, CommittedAdmits,
         Contract!TemplateAdmits, TemplateAdmits,
         Contract!KindIn, KindIn, Contract!IsArrow, IsArrow, Contract!Word, Word
<1>2. \A f : /\ Contract!IsGrammar(f) <=> IsGrammar(f)
             /\ Contract!Founds(p, f) <=> Founds(p, f)
             /\ Contract!Readable(f) <=> Readable(f)
  BY DEF Contract!IsGrammar, IsGrammar, Contract!Founds, Founds,
         Contract!Readable, Readable, Contract!KindIn, KindIn, Contract!Word, Word
<1>3. Contract!Content(s) = Content(s)
  BY DEF Contract!Content, Content
<1>4. Contract!Acceptable(p, s) <=> Acceptable(p, s)
  BY <1>1, <1>2, <1>3 DEF Contract!Acceptable, Acceptable
<1> QED
  BY <1>3, <1>4 DEF Contract!Parsed, Parsed, Contract!Accepted, Accepted,
                    Contract!Failed, Failed, Contract!EmptyTree, EmptyTree

\* Both modules write a parse that has not returned alike.
LEMMA SamePending == Contract!Pending = Pending
BY DEF Contract!Pending, Pending, Contract!EmptyTree, EmptyTree

\* A return of the outcome prescribed is the contract's one step.
LEMMA ReturnRefines ==
  ASSUME TypeOK, LoopSound, Running, Return(Parsed(active, source))
  PROVE  Contract!Next
<1>1. active \in Parsers /\ result[active] = Pending
  BY DEF TypeOK, Running, LoopSound
<1>2. Contract!Parse(active)
  BY <1>1, SamePending, SameOutcome DEF Return, Contract!Parse
<1> QED
  BY <1>1, <1>2 DEF Contract!Next, Contract!Parsers, Parsers

\* The four loops implement the contract: each run of the loops is a run in
\* which every parser answers in one step, by a function of the source.
THEOREM LoopsRefineContract == Spec => RefinesContract
<1>1. Init => Contract!Init
  BY SamePending DEF Init, Contract!Init, Contract!Parsers, Parsers
<1>2. LoopInvariant /\ [Next]_vars => [Contract!Next]_(Contract!vars)
  <2> SUFFICES ASSUME TypeOK, LoopSound, [Next]_vars
               PROVE  Contract!Next \/ UNCHANGED <<source, result>>
    BY DEF LoopInvariant, Contract!vars
  <2>1. ASSUME NEW p \in Parsers, Begin(p) PROVE UNCHANGED <<source, result>>
    BY <2>1 DEF Begin
  <2>2. CASE SkipBlank \/ AcceptLine
    BY <2>2 DEF SkipBlank, AcceptLine
  <2>3. CASE RejectLine
    BY <2>3, RejectFollows, ReturnRefines DEF RejectLine, Reading
  <2>4. CASE ScanFails
    BY <2>4, ScanFollows, ReturnRefines DEF ScanFails, Reading
  <2>5. CASE EndOfInput
    BY <2>5, EndFollows, ReturnRefines DEF EndOfInput
  <2>6. CASE Finished \/ Panics \/ UNCHANGED vars
    BY <2>6 DEF Finished, Panics, vars
  <2> QED
    BY <2>1, <2>2, <2>3, <2>4, <2>5, <2>6 DEF Next, Step
<1> QED
  BY <1>1, <1>2, LoopsCorrect, PTL DEF Spec, RefinesContract, Contract!Spec

=============================================================================
