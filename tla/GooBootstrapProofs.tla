-------------------------- MODULE GooBootstrapProofs --------------------------
(* What a decision of the bootstrap says about the source, read as a set of   *)
(* declarations, for sources of any length.                                   *)
EXTENDS GooBootstrap, LoweringProofs

Proofs == INSTANCE BootstrapProofs WITH
  Outcomes <- CommittedOutcomes, Lowered <- Lower,
  TreeDigest <- SyntaxTreeDigest, IRDigest <- GrammarDigest

-----------------------------------------------------------------------------
(* The declarations of an accepted source.                                 *)

SeedTree(s) == [n \in Content(s) |-> s[n]]

\* Finitely many numbered declarations.
LEMMA SourceNumbered ==
  ASSUME NEW s \in Seq(Line)
  PROVE  Numbered(SeedTree(s))
<1>1. Len(s) \in Nat /\ DOMAIN s = 1 .. Len(s)
  OBVIOUS
<1>2. Content(s) \in SUBSET (1 .. Len(s)) /\ IsFiniteSet(1 .. Len(s))
  BY <1>1, FS_Interval DEF Content
<1>3. IsFiniteSet(Content(s))
  BY <1>2, FS_Subset
<1> QED
  BY <1>1, <1>2, <1>3 DEF Numbered, SeedTree

\* The lines of an accepted source.
LEMMA AcceptedLines ==
  ASSUME source \in Sources, Acceptable("stage0", source)
  PROVE  /\ DOMAIN SeedTree(source) = Content(source)
         /\ Numbered(SeedTree(source))
         /\ \A n \in Content(source) : /\ n \in Nat
                                       /\ source[n] \in Seq(Field) /\ source[n] # <<>>
                                       /\ SeedTree(source)[n] = source[n]
<1>1. source \in Seq(Line)
  BY SourcesAssumption
<1>2. Len(source) \in Nat /\ DOMAIN source = 1 .. Len(source)
  BY <1>1
<1>3. DOMAIN SeedTree(source) = Content(source)
  BY DEF SeedTree
<1>4. Numbered(SeedTree(source))
  BY <1>1, SourceNumbered
<1>5. ASSUME NEW n \in Content(source)
      PROVE  /\ n \in Nat /\ source[n] \in Seq(Field) /\ source[n] # <<>>
             /\ SeedTree(source)[n] = source[n]
  <2>1. n \in DOMAIN source /\ n \in 1 .. Len(source) /\ source[n] # <<>>
    BY <1>2 DEF Content
  <2>2. source[n] \in Line /\ Readable(source[n])
    BY <1>1, <2>1 DEF Acceptable
  <2>3. source[n] \in Seq(Field)
    BY <2>2 DEF Line, Readable
  <2> QED
    BY <2>1, <2>3 DEF SeedTree
<1> QED
  BY <1>3, <1>4, <1>5

Order(kind, n) == Place(SeedTree(source), kind, n)

Entries(kind) == Of(Nodes(SeedTree(source)), kind)

\* Lower collects the lines of each kind, all of them and in order.
LEMMA EntriesShape ==
  ASSUME source \in Sources, Acceptable("stage0", source), NEW kind
  PROVE  /\ Listed(Entries(kind))
         /\ \A n \in Lines(kind) : /\ n \in Content(source)
                                   /\ Order(kind, n) \in DOMAIN Entries(kind)
                                   /\ Entries(kind)[Order(kind, n)] = source[n]
         /\ \A m, n \in Lines(kind) : m < n => Order(kind, m) < Order(kind, n)
         /\ \A i \in DOMAIN Entries(kind) :
              \E n \in Lines(kind) : Order(kind, n) = i /\ Entries(kind)[i] = source[n]
<1> DEFINE T == SeedTree(source)
<1>1. /\ DOMAIN T = Content(source) /\ Numbered(T)
      /\ \A n \in Content(source) : T[n] = source[n]
  BY AcceptedLines
<1>2. \A n \in Content(source) : Readable(source[n])
  BY DEF Acceptable, Content
<1>3. LinesOf(T, kind) = Lines(kind)
  <2> HIDE DEF T
  <2> QED
    BY <1>1, <1>2 DEF LinesOf, Lines
<1>4. \A n \in Lines(kind) : n \in Content(source) /\ T[n] = source[n]
  BY <1>1 DEF Lines
<1> HIDE DEF T
<1>5. LET o == Of(Nodes(T), kind)
          L == LinesOf(T, kind)
      IN  /\ Len(o) \in Nat
          /\ DOMAIN o = 1 .. Len(o)
          /\ \A n \in L : Place(T, kind, n) \in DOMAIN o
          /\ \A n \in L : o[Place(T, kind, n)] = T[n]
          /\ \A m, n \in L : m < n => Place(T, kind, m) < Place(T, kind, n)
          /\ \A i \in DOMAIN o : \E n \in L : Place(T, kind, n) = i /\ o[i] = T[n]
  BY <1>1, DeclarationsOf
<1> QED
  BY <1>3, <1>4, <1>5 DEF Entries, Order, T, Listed

-----------------------------------------------------------------------------
(* What each diagnosis says about the declarations.                        *)

Lowers == source \in Sources /\ Acceptable("stage0", source) /\ Lower(SeedTree(source)).ok

DeclaredIR == Declared(Nodes(SeedTree(source)))

Diagnosed == Lower(SeedTree(source)).classes

\* The diagnoses of a tree that lowers are those of its declarations.
LEMMA LoweredDeclarations ==
  ASSUME Lowers
  PROVE  /\ Diagnosed = DiagnosedClasses(DeclaredIR)
         /\ Len(Entries("stage")) = 1
         /\ DeclaredIR.stage = StageOf(Last(Entries("stage")))
         /\ DeclaredIR.effects = FlattenSeq(Each(LAMBDA n : Tail(Texts(n)), Entries("effect")))
         /\ DeclaredIR.tokens = Each(TokenOf, Entries("token"))
         /\ DeclaredIR.productions = Each(ProductionOf, Entries("production"))
         /\ DeclaredIR.precedences = Each(PrecedenceOf, Entries("precedence"))
         /\ DeclaredIR.associativities = Each(AssociativityOf, Entries("associativity"))
<1>1. Diagnosed = DiagnosedClasses(DeclaredIR) /\ Len(Entries("stage")) = 1
  BY DEF Lowers, Lower, LoweringError, Diagnosed, DeclaredIR, Entries
<1> QED
  BY <1>1 DEF DeclaredIR, Declared, Entries

SidesAgree ==
  \A m, n \in Lines("associativity") :
    NameAt(m) = NameAt(n) => source[m][3].text = source[n][3].text

\* A conflict of precedences is reported exactly if an operator has two levels.
LEMMA LevelConflict ==
  ASSUME Lowers
  PROVE  Conflicting(DeclaredIR.precedences, "level") <=> ~OneLevelEach
<1> DEFINE e == Entries("precedence")
           s == DeclaredIR.precedences
           o(n) == Order("precedence", n)
<1>1. s = [i \in DOMAIN e |-> PrecedenceOf(e[i])]
  BY LoweredDeclarations DEF Each
<1>2. /\ Listed(e)
      /\ \A n \in Lines("precedence") : o(n) \in DOMAIN e /\ e[o(n)] = source[n]
      /\ \A i \in DOMAIN e : \E n \in Lines("precedence") : o(n) = i /\ e[i] = source[n]
  BY EntriesShape DEF Lowers
<1> HIDE DEF e, s, o
<1>3. Listed(s) /\ DOMAIN s = DOMAIN e
  BY <1>1, <1>2 DEF Listed
<1>4. \A n \in Lines("precedence") :
        o(n) \in DOMAIN s /\ s[o(n)].name = NameAt(n) /\ s[o(n)]["level"] = LevelAt(n)
  BY <1>1, <1>2, <1>3 DEF PrecedenceOf, NameAt, LevelAt
<1>5. \A i \in DOMAIN s : \E n \in Lines("precedence") : o(n) = i
  BY <1>2, <1>3
<1>6. Conflicting(s, "level") <=>
        \E i, j \in DOMAIN s : s[i].name = s[j].name /\ s[i]["level"] # s[j]["level"]
  BY <1>3, NearestIsEnough
<1>7. OneLevelEach <=>
        \A i, j \in DOMAIN s : s[i].name = s[j].name => s[i]["level"] = s[j]["level"]
  BY <1>4, <1>5 DEF OneLevelEach
<1> QED
  BY <1>6, <1>7 DEF s

\* A conflict of associativities is reported exactly if an operator has two sides.
LEMMA SideConflict ==
  ASSUME Lowers
  PROVE  Conflicting(DeclaredIR.associativities, "value") <=> ~SidesAgree
<1> DEFINE e == Entries("associativity")
           s == DeclaredIR.associativities
           o(n) == Order("associativity", n)
<1>1. s = [i \in DOMAIN e |-> AssociativityOf(e[i])]
  BY LoweredDeclarations DEF Each
<1>2. /\ Listed(e)
      /\ \A n \in Lines("associativity") : o(n) \in DOMAIN e /\ e[o(n)] = source[n]
      /\ \A i \in DOMAIN e : \E n \in Lines("associativity") : o(n) = i /\ e[i] = source[n]
  BY EntriesShape DEF Lowers
<1> HIDE DEF e, s, o
<1>3. Listed(s) /\ DOMAIN s = DOMAIN e
  BY <1>1, <1>2 DEF Listed
<1>4. \A n \in Lines("associativity") :
        o(n) \in DOMAIN s /\ s[o(n)].name = NameAt(n) /\ s[o(n)]["value"] = source[n][3].text
  BY <1>1, <1>2, <1>3 DEF AssociativityOf, NameAt
<1>5. \A i \in DOMAIN s : \E n \in Lines("associativity") : o(n) = i
  BY <1>2, <1>3
<1>6. Conflicting(s, "value") <=>
        \E i, j \in DOMAIN s : s[i].name = s[j].name /\ s[i]["value"] # s[j]["value"]
  BY <1>3, NearestIsEnough
<1>7. SidesAgree <=>
        \A i, j \in DOMAIN s : s[i].name = s[j].name => s[i]["value"] = s[j]["value"]
  BY <1>4, <1>5 DEF SidesAgree
<1> QED
  BY <1>6, <1>7 DEF s

\* The names that Lower collects from the declarations of a kind.
LEMMA NamesCollected ==
  ASSUME Lowers
  PROVE  /\ Names(DeclaredIR.tokens) = {NameAt(n) : n \in Lines("token")}
         /\ Names(DeclaredIR.productions) = {NameAt(n) : n \in Lines("production")}
         /\ Names(DeclaredIR.precedences) = {NameAt(n) : n \in Lines("precedence")}
         /\ Names(DeclaredIR.associativities) = {NameAt(n) : n \in Lines("associativity")}
<1>1. ASSUME NEW kind, NEW s, DOMAIN s = DOMAIN Entries(kind),
             \A i \in DOMAIN s : s[i].name = Entries(kind)[i][2].text
      PROVE  Names(s) = {NameAt(n) : n \in Lines(kind)}
  <2>1. /\ \A n \in Lines(kind) : /\ Order(kind, n) \in DOMAIN s
                                  /\ s[Order(kind, n)].name = NameAt(n)
        /\ \A i \in DOMAIN s : \E n \in Lines(kind) : s[i].name = NameAt(n)
    BY <1>1, EntriesShape DEF Lowers, NameAt
  <2> QED
    BY <2>1 DEF Names
<1>2. Names(DeclaredIR.tokens) = {NameAt(n) : n \in Lines("token")}
  BY <1>1, LoweredDeclarations DEF Each, TokenOf
<1>3. Names(DeclaredIR.productions) = {NameAt(n) : n \in Lines("production")}
  BY <1>1, LoweredDeclarations DEF Each, ProductionOf
<1>4. Names(DeclaredIR.precedences) = {NameAt(n) : n \in Lines("precedence")}
  BY <1>1, LoweredDeclarations DEF Each, PrecedenceOf
<1>5. Names(DeclaredIR.associativities) = {NameAt(n) : n \in Lines("associativity")}
  BY <1>1, LoweredDeclarations DEF Each, AssociativityOf
<1> QED
  BY <1>2, <1>3, <1>4, <1>5

\* Tokens that do not clash have distinct names.
LEMMA TokensDistinct ==
  ASSUME Lowers, ~TokensClash(DeclaredIR.tokens)
  PROVE  DistinctTokens
<1> DEFINE s == DeclaredIR.tokens
           o(n) == Order("token", n)
<1>1. /\ DOMAIN s = DOMAIN Entries("token")
      /\ \A i \in DOMAIN s : s[i].name = Entries("token")[i][2].text
  BY LoweredDeclarations DEF Each, TokenOf
<1>2. /\ \A n \in Lines("token") : o(n) \in DOMAIN s /\ s[o(n)].name = NameAt(n)
      /\ \A m, n \in Lines("token") : m < n => o(m) < o(n)
      /\ \A n \in Lines("token") : n \in Nat
  BY <1>1, EntriesShape, AcceptedLines DEF Lowers, NameAt
<1>3. \A i, j \in DOMAIN s : i < j => s[i].name # s[j].name
  BY DEF TokensClash
<1> HIDE DEF s, o
<1>4. \A m, n \in Lines("token") : m < n => NameAt(m) # NameAt(n)
  BY <1>2, <1>3
<1> QED
  BY <1>2, <1>4 DEF DistinctTokens

\* The symbols of a production's body.
LEMMA BodyShape ==
  ASSUME Lowers, NEW n \in Lines("production")
  PROVE  /\ Len(source[n]) \in Nat
         /\ DOMAIN SymbolsAt(n) = 1 .. Len(source[n]) - 3
         /\ \A i \in DOMAIN SymbolsAt(n) : SymbolsAt(n)[i] = source[n][i + 3]
         /\ ProductionOf(source[n]).name = NameAt(n)
         /\ DOMAIN ProductionOf(source[n]).rhs = DOMAIN SymbolsAt(n)
         /\ \A i \in DOMAIN SymbolsAt(n) :
              ProductionOf(source[n]).rhs[i] =
                [value |-> SymbolsAt(n)[i].text, terminal |-> SymbolsAt(n)[i].form # "bare"]
<1> DEFINE l == source[n]
<1>1. l \in Seq(Field) /\ Len(l) \in Nat /\ DOMAIN l = 1 .. Len(l)
  BY AcceptedLines DEF Lowers, Lines
<1> HIDE DEF l
<1>2. \A i \in 4 .. Len(l) : l[i] \in Field
  BY <1>1
<1>3. /\ SubSeq(l, 4, Len(l)) \in Seq(Field)
      /\ Len(SubSeq(l, 4, Len(l))) = IF 4 <= Len(l) THEN Len(l) - 4 + 1 ELSE 0
      /\ \A i \in 1 .. Len(l) - 4 + 1 : SubSeq(l, 4, Len(l))[i] = l[4 + i - 1]
  <2>1. 4 \in Int /\ Len(l) \in Int
    BY <1>1
  <2> QED
    BY <1>2, <2>1, SubSeqProperties
<1>4. DOMAIN SubSeq(l, 4, Len(l)) = 1 .. Len(l) - 3
  <2>1. DOMAIN SubSeq(l, 4, Len(l)) = 1 .. Len(SubSeq(l, 4, Len(l)))
    BY <1>3
  <2> QED
    BY <1>1, <1>3, <2>1
<1>5. \A i \in 1 .. Len(l) - 3 : SubSeq(l, 4, Len(l))[i] = l[i + 3]
  <2> SUFFICES ASSUME NEW i \in 1 .. Len(l) - 3 PROVE SubSeq(l, 4, Len(l))[i] = l[i + 3]
    OBVIOUS
  <2>1. i \in 1 .. Len(l) - 4 + 1 /\ 4 + i - 1 = i + 3
    BY <1>1
  <2> QED
    BY <1>3, <2>1
<1>6. SymbolsAt(n) = SubSeq(l, 4, Len(l))
  BY DEF SymbolsAt, l
<1>7. /\ ProductionOf(l).name = l[2].text
      /\ DOMAIN ProductionOf(l).rhs = 1 .. Len(l) - 3
      /\ \A i \in 1 .. Len(l) - 3 :
           ProductionOf(l).rhs[i] = [value |-> l[i + 3].text, terminal |-> l[i + 3].form # "bare"]
  BY DEF ProductionOf
<1>8. /\ DOMAIN SymbolsAt(n) = 1 .. Len(l) - 3
      /\ \A i \in DOMAIN SymbolsAt(n) : SymbolsAt(n)[i] = l[i + 3]
      /\ DOMAIN ProductionOf(l).rhs = DOMAIN SymbolsAt(n)
  BY <1>4, <1>5, <1>6, <1>7
<1>9. \A i \in DOMAIN SymbolsAt(n) :
        ProductionOf(l).rhs[i] =
          [value |-> SymbolsAt(n)[i].text, terminal |-> SymbolsAt(n)[i].form # "bare"]
  <2> SUFFICES ASSUME NEW i \in DOMAIN SymbolsAt(n)
               PROVE  ProductionOf(l).rhs[i] =
                        [value |-> SymbolsAt(n)[i].text, terminal |-> SymbolsAt(n)[i].form # "bare"]
    OBVIOUS
  <2>1. i \in 1 .. Len(l) - 3 /\ SymbolsAt(n)[i] = l[i + 3]
    BY <1>8
  <2> QED
    BY <1>7, <2>1
<1>10. NameAt(n) = l[2].text
  BY DEF NameAt, l
<1> QED
  BY <1>1, <1>7, <1>8, <1>9, <1>10 DEF l

\* A production that is declared twice is remembered under the same string.
LEMMA RepetitionIsAmbiguous ==
  ASSUME Lowers, ~Ambiguous(DeclaredIR.productions)
  PROVE  NoRepeatedProduction
<1> DEFINE s == DeclaredIR.productions
           o(n) == Order("production", n)
<1>1. /\ DOMAIN s = DOMAIN Entries("production")
      /\ \A i \in DOMAIN s : s[i] = ProductionOf(Entries("production")[i])
  BY LoweredDeclarations DEF Each
<1>2. /\ \A n \in Lines("production") : o(n) \in DOMAIN s /\ s[o(n)] = ProductionOf(source[n])
      /\ \A m, n \in Lines("production") : m < n => o(m) < o(n)
      /\ \A n \in Lines("production") : n \in Nat
  BY <1>1, EntriesShape, AcceptedLines DEF Lowers
<1>3. ASSUME NEW m \in Lines("production"), NEW n \in Lines("production"), SameBody(m, n)
      PROVE  ProductionOf(source[m]) = ProductionOf(source[n])
  <2>1. /\ NameAt(m) = NameAt(n) /\ Len(source[m]) = Len(source[n])
        /\ \A i \in DOMAIN SymbolsAt(m) :
             /\ SymbolsAt(m)[i].text = SymbolsAt(n)[i].text
             /\ SymbolsAt(m)[i].form = "bare" <=> SymbolsAt(n)[i].form = "bare"
    BY <1>3 DEF SameBody
  <2> DEFINE k == Len(source[m]) - 3
             r(l) == [i \in 1 .. Len(l) - 3 |->
                        [value |-> l[i + 3].text, terminal |-> l[i + 3].form # "bare"]]
  <2>2. /\ DOMAIN SymbolsAt(m) = 1 .. k
        /\ \A i \in 1 .. k : /\ SymbolsAt(m)[i] = source[m][i + 3]
                             /\ SymbolsAt(n)[i] = source[n][i + 3]
    BY <2>1, BodyShape
  <2>3. \A i \in 1 .. k : /\ source[m][i + 3].text = source[n][i + 3].text
                          /\ (source[m][i + 3].form # "bare") = (source[n][i + 3].form # "bare")
    BY <2>1, <2>2
  <2>4. r(source[m]) = r(source[n])
    BY <2>1, <2>3
  <2>5. source[m][2].text = source[n][2].text
    BY <2>1 DEF NameAt
  <2> HIDE DEF r
  <2>6. \A l : ProductionOf(l) = [name |-> l[2].text, rhs |-> r(l)]
    BY DEF ProductionOf, r
  <2> QED
    BY <2>4, <2>5, <2>6
<1>4. \A i, j \in DOMAIN s : i < j => Key(s[i]) # Key(s[j])
  BY DEF Ambiguous
<1> HIDE DEF s, o
<1>5. \A m, n \in Lines("production") : m < n => ~SameBody(m, n) /\ ~SameBody(n, m)
  <2> SUFFICES ASSUME NEW m \in Lines("production"), NEW n \in Lines("production"), m < n
               PROVE  ~SameBody(m, n) /\ ~SameBody(n, m)
    OBVIOUS
  <2>1. Key(s[o(m)]) # Key(s[o(n)])
    BY <1>2, <1>4
  <2>2. s[o(m)] # s[o(n)]
    BY <2>1
  <2> QED
    BY <1>2, <1>3, <2>2
<1> QED
  BY <1>2, <1>5 DEF NoRepeatedProduction

\* The symbols of bodies are bound when no symbol is reported.
LEMMA SymbolsBound ==
  ASSUME Lowers, ~Unbound(DeclaredIR)
  PROVE  EverySymbolBound
<1> SUFFICES ASSUME NEW n \in Lines("production"), NEW i \in DOMAIN SymbolsAt(n),
                    SymbolsAt(n)[i].form = "bare"
             PROVE  Bound(SymbolsAt(n)[i].text)
  BY DEF EverySymbolBound
<1> DEFINE s == DeclaredIR.productions
           j == Order("production", n)
           symbol == ProductionOf(source[n]).rhs[i]
<1>1. j \in DOMAIN s /\ s[j] = ProductionOf(source[n])
  BY LoweredDeclarations, EntriesShape DEF Lowers, Each
<1>2. /\ i \in DOMAIN ProductionOf(source[n]).rhs
      /\ symbol = [value |-> SymbolsAt(n)[i].text, terminal |-> SymbolsAt(n)[i].form # "bare"]
  BY BodyShape
<1> HIDE DEF s, j, symbol
<1>3. symbol \in ToSet(s[j].rhs)
  BY <1>1, <1>2 DEF ToSet, symbol
<1>4. ~symbol.terminal /\ symbol.value = SymbolsAt(n)[i].text
  BY <1>2
<1>5. symbol.value \in Names(DeclaredIR.tokens) \union Names(DeclaredIR.productions)
  BY <1>1, <1>3, <1>4 DEF Unbound, s
<1> QED
  BY <1>4, <1>5, NamesCollected DEF Bound

\* The effects that Lower collects are those that the effect lines name.
LEMMA EffectsCollected ==
  ASSUME Lowers
  PROVE  ToSet(DeclaredIR.effects)
           = UNION {ToSet(Tail(Texts(source[n]))) : n \in Lines("effect")}
<1> DEFINE e == Entries("effect")
           ss == [i \in DOMAIN e |-> Tail(Texts(e[i]))]
<1>1. DeclaredIR.effects = FlattenSeq(ss)
  BY LoweredDeclarations DEF Each
<1>2. /\ Listed(e)
      /\ \A n \in Lines("effect") : /\ n \in Content(source)
                                    /\ Order("effect", n) \in DOMAIN e
                                    /\ e[Order("effect", n)] = source[n]
      /\ \A i \in DOMAIN e : \E n \in Lines("effect") : e[i] = source[n]
  BY EntriesShape DEF Lowers
<1>3. \A l \in Seq(Field) : l # <<>> => Tail(Texts(l)) \in Seq(Text)
  BY TailTexts
<1>4. /\ Listed(ss) /\ DOMAIN ss = DOMAIN e
      /\ \A i \in DOMAIN ss : ss[i] = Tail(Texts(e[i]))
  <2> HIDE DEF e
  <2> QED
    BY <1>2 DEF Listed
<1>5. \A i \in DOMAIN ss : ss[i] \in Seq(Text)
  <2> SUFFICES ASSUME NEW i \in DOMAIN ss PROVE ss[i] \in Seq(Text)
    OBVIOUS
  <2>1. PICK n \in Lines("effect") : e[i] = source[n]
    BY <1>2, <1>4
  <2>2. source[n] \in Seq(Field) /\ source[n] # <<>>
    BY <1>2, AcceptedLines DEF Lowers
  <2> HIDE DEF e, ss
  <2> QED
    BY <1>3, <1>4, <2>1, <2>2
<1> HIDE DEF e, ss
<1>6. ToSet(FlattenSeq(ss)) = UNION {ToSet(ss[i]) : i \in DOMAIN ss}
  <2>1. CASE Len(ss) = 0
    <3>1. DOMAIN ss = {}
      BY <1>4, <2>1 DEF Listed
    <3>2. FlattenSeq(ss) = ss
      BY <2>1 DEF FlattenSeq
    <3> QED
      BY <3>1, <3>2 DEF ToSet
  <2>2. CASE Len(ss) # 0
    BY <1>4, <1>5, <2>2, FlattenHolds
  <2> QED
    BY <2>1, <2>2
<1>7. {ToSet(ss[i]) : i \in DOMAIN ss} = {ToSet(Tail(Texts(source[n]))) : n \in Lines("effect")}
  <2>1. \A i \in DOMAIN ss : \E n \in Lines("effect") : ss[i] = Tail(Texts(source[n]))
    BY <1>2, <1>4
  <2>2. \A n \in Lines("effect") : \E i \in DOMAIN ss : ss[i] = Tail(Texts(source[n]))
    BY <1>2, <1>4
  <2> QED
    BY <2>1, <2>2
<1> QED
  BY <1>1, <1>6, <1>7

\* Lower takes the stage from the one stage line.
LEMMA StageCollected ==
  ASSUME Lowers
  PROVE  /\ \E n \in Lines("stage") : TRUE
         /\ \A n \in Lines("stage") : DeclaredIR.stage = StageOf(source[n])
<1> DEFINE e == Entries("stage")
<1>1. Len(e) = 1 /\ DeclaredIR.stage = StageOf(Last(e))
  BY LoweredDeclarations
<1>2. /\ DOMAIN e = 1 .. Len(e)
      /\ \A n \in Lines("stage") : Order("stage", n) \in DOMAIN e /\ e[Order("stage", n)] = source[n]
      /\ \A i \in DOMAIN e : \E n \in Lines("stage") : e[i] = source[n]
  BY EntriesShape DEF Lowers, Listed
<1> HIDE DEF e
<1>3. 1 \in DOMAIN e /\ \A i \in DOMAIN e : i = 1
  BY <1>1, <1>2
<1>4. Last(e) = e[1]
  BY <1>1 DEF Last
<1> QED
  BY <1>1, <1>2, <1>3, <1>4

SidesHaveLevels ==
  \A m \in Lines("associativity") : \E n \in Lines("precedence") : NameAt(m) = NameAt(n)

\* The diagnoses of a source that lowers: conflicts and escapes are reported exactly
\* when the declarations have them, and nothing unsound goes unreported.
LEMMA DiagnosesSound ==
  ASSUME Lowers
  PROVE  /\ "conflicting-precedence" \in Diagnosed <=> ~(OneLevelEach /\ SidesAgree)
         /\ Diagnosed \intersect {"forbidden-stage-escape", "forbidden-effect"} # {}
              <=> ~WithinPolicy
         /\ "invalid-grammar" \notin Diagnosed =>
              DistinctTokens /\ EverySymbolBound /\ SidesHaveLevels
         /\ "ambiguous-grammar" \notin Diagnosed => NoRepeatedProduction
<1>1. Diagnosed = DiagnosedClasses(DeclaredIR)
  BY LoweredDeclarations
<1>2. /\ "conflicting-precedence" \in Diagnosed <=>
           \/ Conflicting(DeclaredIR.precedences, "level")
           \/ Conflicting(DeclaredIR.associativities, "value")
      /\ "forbidden-stage-escape" \in Diagnosed <=>
           DeclaredIR.stage # [number |-> 1, origin |-> "generated-from-stage0"]
      /\ "forbidden-effect" \in Diagnosed <=> ~(ToSet(DeclaredIR.effects) \subseteq AllowedEffects)
      /\ "invalid-grammar" \in Diagnosed <=>
           \/ TokensClash(DeclaredIR.tokens)
           \/ Unbound(DeclaredIR)
           \/ ~(Names(DeclaredIR.associativities) \subseteq Names(DeclaredIR.precedences))
      /\ "ambiguous-grammar" \in Diagnosed <=> Ambiguous(DeclaredIR.productions)
  BY <1>1, Zenon DEF DiagnosedClasses
<1>3. "conflicting-precedence" \in Diagnosed <=> ~(OneLevelEach /\ SidesAgree)
  BY <1>2, LevelConflict, SideConflict
<1>4. ~(ToSet(DeclaredIR.effects) \subseteq AllowedEffects) <=>
        ~ \A n \in Lines("effect") : ToSet(Tail(Texts(source[n]))) \subseteq AllowedEffects
  BY EffectsCollected
<1>5. DeclaredIR.stage = [number |-> 1, origin |-> "generated-from-stage0"] <=>
        \E n \in Lines("stage") :
          /\ Numeral(NameAt(n).val) = 1
          /\ keyValue(Tail2(Texts(source[n])), "origin") = "generated-from-stage0"
  <2>1. \A n \in Lines("stage") :
          StageOf(source[n]) = [number |-> 1, origin |-> "generated-from-stage0"] <=>
            /\ Numeral(NameAt(n).val) = 1
            /\ keyValue(Tail2(Texts(source[n])), "origin") = "generated-from-stage0"
    BY DEF StageOf, NameAt
  <2> QED
    BY <2>1, StageCollected
<1>6. Names(DeclaredIR.associativities) \subseteq Names(DeclaredIR.precedences) => SidesHaveLevels
  BY NamesCollected DEF SidesHaveLevels
<1>7. Diagnosed \intersect {"forbidden-stage-escape", "forbidden-effect"} # {} <=> ~WithinPolicy
  BY <1>2, <1>4, <1>5 DEF WithinPolicy
<1> QED
  BY <1>2, <1>3, <1>6, <1>7, TokensDistinct, SymbolsBound, RepetitionIsAmbiguous

-----------------------------------------------------------------------------
(* The pipeline.                                                           *)

\* Every parser returns the tree of the declarations it accepts, or nothing.
LEMMA OutcomesShape ==
  ASSUME NEW s, NEW g
  PROVE  CommittedOutcomes(g, s)
           = {IF Acceptable(ParserOf(g), s) THEN SeedTree(s) ELSE NoTree}
BY DEF CommittedOutcomes, Parsed, Accepted, Failed, SeedTree

\* The premise of the theorems about Bootstrap.
LEMMA LowerIsTyped == Proofs!LoweredAssumption
<1> SUFFICES ASSUME NEW s \in Sources, NEW g \in Proofs!Generations,
                    NEW t \in CommittedOutcomes(g, s) \ {NoTree}
             PROVE  /\ Lower(t).ok \in BOOLEAN
                    /\ Lower(t).ir # NoIR
                    /\ Lower(t).classes \subseteq Proofs!Classes \ {"evidence-incomplete"}
  BY DEF Proofs!LoweredAssumption
<1>1. Parsed(ParserOf(g), s).status = "parsed" /\ t = Parsed(ParserOf(g), s).tree
  BY DEF CommittedOutcomes
<1>2. Lower(t).ir # NoIR
  BY <1>1, NothingAssumption DEF Proofs!Generations
<1>3. Lower(t).ok \in BOOLEAN
  BY DEF Lower, LoweringError
<1>4. DiagnosedClasses(Declared(Nodes(t))) \subseteq
        {"forbidden-stage-escape", "forbidden-effect", "invalid-grammar", "ambiguous-grammar",
         "conflicting-precedence"}
  BY DEF DiagnosedClasses
<1>5. Lower(t).classes \subseteq
        {"forbidden-stage-escape", "forbidden-effect", "invalid-grammar", "ambiguous-grammar",
         "conflicting-precedence"}
  BY <1>4 DEF Lower, LoweringError
<1>6. Proofs!Refuting = {"conflicting-precedence", "forbidden-stage-escape", "forbidden-effect",
                         "invalid-grammar"}
  <2>1. DOMAIN Proofs!RefutingOrder = 1 .. 4
    BY DEF Proofs!RefutingOrder
  <2> QED
    BY <2>1 DEF Proofs!Refuting, Proofs!RefutingOrder
<1> QED
  BY <1>2, <1>3, <1>5, <1>6 DEF Proofs!Classes

\* The committed parsers answer like the seed on what it accepts.
LEMMA CommittedAgree == Proofs!CommittedBuild
<1> SUFFICES ASSUME NEW s \in Sources, NEW t \in CommittedOutcomes(0, s) \ {NoTree}
             PROVE  CommittedOutcomes(1, s) = {t} /\ CommittedOutcomes(2, s) = {t}
  BY DEF Proofs!CommittedBuild
<1>1. Acceptable("stage0", s) /\ t = SeedTree(s)
  BY OutcomesShape DEF ParserOf
<1>2. \A n \in Content(s) : SeedAdmits(s[n])
  BY <1>1 DEF Acceptable, Admits
<1>3. ASSUME NEW fields, SeedAdmits(fields) PROVE CommittedAdmits(fields)
  BY <1>3 DEF SeedAdmits, CommittedAdmits, KindIn
<1>4. \A p \in {"stage1", "stage2"} : Acceptable(p, s)
  BY <1>1, <1>2, <1>3 DEF Acceptable, Admits, Founds
<1> QED
  BY <1>1, <1>4, OutcomesShape DEF ParserOf

\* What the pipeline's invariant says about the seed, for the committed parsers.
SeedInvariant ==
  /\ source \in Sources
  /\ pc = "done" /\ records # <<>> => Lowers /\ Diagnosed \subseteq classes
  /\ decision = "CLOSED" => Lowers /\ Diagnosed = {}
  /\ records # <<>> =>
       /\ records[1].syntaxTree = SyntaxTreeDigest(SeedTree(source))
       /\ records[1].semanticIR = GrammarDigest(Lower(SeedTree(source)).ir)

\* The seed of a run with a generation record has accepted and lowered the source.
LEMMA SeedLowered == Proofs!CommittedInvariant => SeedInvariant
<1> SUFFICES ASSUME Proofs!CommittedInvariant PROVE SeedInvariant
  OBVIOUS
<1>1. /\ source \in Sources
      /\ records \in Seq(Proofs!RecordType)
      /\ \A g \in Proofs!Generations : g < Len(records) =>
           /\ tree[g] \in CommittedOutcomes(g, source) \ {NoTree}
           /\ Lower(tree[g]).ok
           /\ Lower(tree[g]).classes \subseteq classes
           /\ records[g + 1].syntaxTree = SyntaxTreeDigest(tree[g])
           /\ records[g + 1].semanticIR = GrammarDigest(Lower(tree[g]).ir)
  BY DEF Proofs!CommittedInvariant, Proofs!BootstrapInvariant, Proofs!TypeOK,
         Proofs!PipelineSound, Proofs!Trees
<1>2. ASSUME records # <<>>
      PROVE  /\ Lowers /\ Diagnosed \subseteq classes
             /\ records[1].syntaxTree = SyntaxTreeDigest(SeedTree(source))
             /\ records[1].semanticIR = GrammarDigest(Lower(SeedTree(source)).ir)
  <2>1. 0 \in Proofs!Generations /\ 0 < Len(records)
    BY <1>1, <1>2 DEF Proofs!Generations
  <2>2. /\ tree[0] \in CommittedOutcomes(0, source) \ {NoTree}
        /\ Lower(tree[0]).ok /\ Lower(tree[0]).classes \subseteq classes
        /\ records[1].syntaxTree = SyntaxTreeDigest(tree[0])
        /\ records[1].semanticIR = GrammarDigest(Lower(tree[0]).ir)
    BY <1>1, <2>1
  <2>3. Acceptable("stage0", source) /\ tree[0] = SeedTree(source)
    BY <2>2, OutcomesShape DEF ParserOf
  <2> QED
    BY <1>1, <2>2, <2>3 DEF Lowers, Diagnosed
<1>3. ASSUME decision = "CLOSED"
      PROVE  Lowers /\ Diagnosed = {}
  <2>1. /\ Len(records) = 3 /\ classes \subseteq {"evidence-incomplete"}
        /\ "evidence-incomplete" \notin classes
    BY <1>3 DEF Proofs!CommittedInvariant, Proofs!BootstrapInvariant, Proofs!ConclusionSound
  <2>2. records # <<>>
    BY <1>1, <2>1
  <2>3. Lowers /\ Diagnosed \subseteq {}
    BY <1>2, <2>1, <2>2
  <2> QED
    BY <2>3
<1> QED
  BY <1>1, <1>2, <1>3 DEF SeedInvariant

-----------------------------------------------------------------------------
(* Layout.                                                                 *)

\* A source with a blank line put in at n: what stood at m stands at Moved(n, m).
Moved(n, m) == IF m < n THEN m ELSE m + 1

LEMMA InsertedLine ==
  ASSUME NEW s \in Seq(Line), NEW n \in 1 .. Len(s), NEW l \in Line
  PROVE  /\ InsertAt(s, n, l) \in Seq(Line)
         /\ Len(InsertAt(s, n, l)) = Len(s) + 1
         /\ InsertAt(s, n, l)[n] = l
         /\ \A m \in 1 .. Len(s) : InsertAt(s, n, l)[Moved(n, m)] = s[m]
<1> DEFINE N == Len(s)
           a == SubSeq(s, 1, n - 1)
           b == <<l>>
           c == SubSeq(s, n, N)
<1>0. N \in Nat /\ n \in Nat /\ 1 <= n /\ n <= N /\ \A i \in 1 .. N : s[i] \in Line
  OBVIOUS
<1> HIDE DEF N
<1>1. /\ a \in Seq(Line) /\ Len(a) = n - 1
      /\ \A i \in 1 .. n - 1 : a[i] = s[i]
  <2>1. 1 \in Int /\ n - 1 \in Int /\ \A i \in 1 .. n - 1 : s[i] \in Line
    BY <1>0
  <2>2. /\ SubSeq(s, 1, n - 1) \in Seq(Line)
        /\ Len(SubSeq(s, 1, n - 1)) = IF 1 <= n - 1 THEN n - 1 - 1 + 1 ELSE 0
        /\ \A i \in 1 .. n - 1 - 1 + 1 : SubSeq(s, 1, n - 1)[i] = s[1 + i - 1]
    BY <2>1, SubSeqProperties
  <2>3. n - 1 - 1 + 1 = n - 1 /\ \A i \in 1 .. n - 1 : 1 + i - 1 = i
    BY <1>0
  <2> QED
    BY <1>0, <2>2, <2>3
<1>2. /\ c \in Seq(Line) /\ Len(c) = N - n + 1
      /\ \A i \in 1 .. N - n + 1 : c[i] = s[n + i - 1]
  <2>1. n \in Int /\ N \in Int /\ \A i \in n .. N : s[i] \in Line
    BY <1>0
  <2>2. /\ SubSeq(s, n, N) \in Seq(Line)
        /\ Len(SubSeq(s, n, N)) = IF n <= N THEN N - n + 1 ELSE 0
        /\ \A i \in 1 .. N - n + 1 : SubSeq(s, n, N)[i] = s[n + i - 1]
    BY <2>1, SubSeqProperties
  <2> QED
    BY <1>0, <2>2
<1>3. b \in Seq(Line) /\ Len(b) = 1 /\ b[1] = l
  OBVIOUS
<1> HIDE DEF a, b, c
<1>4. /\ a \o b \in Seq(Line) /\ Len(a \o b) = n
      /\ \A i \in 1 .. n - 1 : (a \o b)[i] = s[i]
      /\ (a \o b)[n] = l
  <2>1. /\ a \o b \in Seq(Line) /\ Len(a \o b) = Len(a) + Len(b)
        /\ \A i \in 1 .. Len(a) + Len(b) :
             (a \o b)[i] = IF i <= Len(a) THEN a[i] ELSE b[i - Len(a)]
    BY <1>1, <1>3, ConcatProperties
  <2>2. Len(a) + Len(b) = n /\ n \in 1 .. n /\ n - (n - 1) = 1
    BY <1>0, <1>1, <1>3
  <2> QED
    BY <1>0, <1>1, <1>3, <2>1, <2>2
<1> DEFINE d == a \o b
           t == d \o c
<1>5. /\ t \in Seq(Line) /\ Len(t) = N + 1
      /\ \A i \in 1 .. n : t[i] = d[i]
      /\ \A i \in n + 1 .. N + 1 : t[i] = c[i - n]
  <2>1. d \in Seq(Line) /\ Len(d) = n
    BY <1>4
  <2> HIDE DEF d
  <2>2. /\ t \in Seq(Line) /\ Len(t) = Len(d) + Len(c)
        /\ \A i \in 1 .. Len(d) + Len(c) : t[i] = IF i <= Len(d) THEN d[i] ELSE c[i - Len(d)]
    BY <1>2, <2>1, ConcatProperties
  <2>3. Len(d) + Len(c) = N + 1
    BY <1>0, <1>2, <2>1
  <2> HIDE DEF t
  <2> QED
    BY <1>0, <2>1, <2>2, <2>3
<1> HIDE DEF t
<1>6. ASSUME NEW m \in 1 .. N PROVE t[Moved(n, m)] = s[m]
  <2>1. CASE m < n
    <3>1. Moved(n, m) = m /\ m \in 1 .. n /\ m \in 1 .. n - 1
      BY <1>0, <2>1 DEF Moved
    <3> QED
      BY <1>4, <1>5, <3>1
  <2>2. CASE ~(m < n)
    <3>1. /\ Moved(n, m) = m + 1 /\ m + 1 \in n + 1 .. N + 1
          /\ m + 1 - n \in 1 .. N - n + 1 /\ n + (m + 1 - n) - 1 = m
      BY <1>0, <2>2 DEF Moved
    <3> QED
      BY <1>2, <1>5, <3>1
  <2> QED
    BY <2>1, <2>2
<1>7. t[n] = l
  <2>1. n \in 1 .. n
    BY <1>0
  <2> QED
    BY <1>4, <1>5, <2>1
<1>8. InsertAt(s, n, l) = t
  BY DEF InsertAt, t, d, a, b, c, N
<1> QED
  BY <1>5, <1>6, <1>7, <1>8 DEF N

\* A blank line moves declarations and changes none.
LEMMA BlankLineMoves ==
  ASSUME NEW s \in Seq(Line), NEW n \in 1 .. Len(s)
  PROVE  LET t == InsertAt(s, n, <<>>)
         IN  /\ t \in Seq(Line)
             /\ \A k \in DOMAIN t : t[k] = <<>> \/ \E m \in DOMAIN s : t[k] = s[m]
             /\ \A m \in Content(s) : Moved(n, m) \in Content(t) /\ t[Moved(n, m)] = s[m]
             /\ \A k \in Content(t) : \E m \in Content(s) : Moved(n, m) = k
<1> DEFINE t == InsertAt(s, n, <<>>)
           N == Len(s)
<1>1. <<>> \in Line
  BY DEF Line
<1>2. /\ t \in Seq(Line) /\ Len(t) = N + 1 /\ t[n] = <<>>
      /\ \A m \in 1 .. N : t[Moved(n, m)] = s[m]
  BY <1>1, InsertedLine
<1>3. N \in Nat /\ DOMAIN s = 1 .. N /\ n \in 1 .. N
  OBVIOUS
<1> HIDE DEF t, N
<1>4. DOMAIN t = 1 .. N + 1
  BY <1>2
<1>5. \A m \in 1 .. N : Moved(n, m) \in 1 .. N + 1
  BY <1>3 DEF Moved
<1>6. \A k \in 1 .. N + 1 : k = n \/ \E m \in 1 .. N : Moved(n, m) = k
  <2> SUFFICES ASSUME NEW k \in 1 .. N + 1, k # n PROVE \E m \in 1 .. N : Moved(n, m) = k
    OBVIOUS
  <2>1. CASE k < n
    <3>1. k \in 1 .. N /\ Moved(n, k) = k
      BY <1>3, <2>1 DEF Moved
    <3> QED
      BY <3>1
  <2>2. CASE ~(k < n)
    <3>1. k - 1 \in 1 .. N /\ Moved(n, k - 1) = k
      BY <1>3, <2>2 DEF Moved
    <3> QED
      BY <3>1
  <2> QED
    BY <2>1, <2>2
<1>7. \A k \in DOMAIN t : t[k] = <<>> \/ \E m \in DOMAIN s : t[k] = s[m]
  BY <1>2, <1>3, <1>4, <1>6
<1>8. \A m \in Content(s) : Moved(n, m) \in Content(t) /\ t[Moved(n, m)] = s[m]
  BY <1>2, <1>3, <1>4, <1>5 DEF Content
<1>9. \A k \in Content(t) : \E m \in Content(s) : Moved(n, m) = k
  BY <1>2, <1>3, <1>4, <1>6 DEF Content
<1> QED
  BY <1>2, <1>7, <1>8, <1>9 DEF t

\* A blank line changes neither the acceptance of a source nor the declarations in
\* their order, and Lower looks at nothing else.
LEMMA BlankLineUnseen ==
  ASSUME NEW s \in Seq(Line), Acceptable("stage0", s), NEW n \in 1 .. Len(s)
  PROVE  LET t == InsertAt(s, n, <<>>)
         IN  Acceptable("stage0", t) /\ Nodes(SeedTree(t)) = Nodes(SeedTree(s))
<1> DEFINE t == InsertAt(s, n, <<>>)
<1>1. /\ t \in Seq(Line)
      /\ \A k \in DOMAIN t : t[k] = <<>> \/ \E m \in DOMAIN s : t[k] = s[m]
      /\ \A m \in Content(s) : Moved(n, m) \in Content(t) /\ t[Moved(n, m)] = s[m]
      /\ \A k \in Content(t) : \E m \in Content(s) : Moved(n, m) = k
  BY BlankLineMoves
<1> HIDE DEF t
<1>2. \A k \in DOMAIN t : Readable(t[k])
  BY <1>1, SentinelsAssumption DEF Acceptable, Readable
<1>3. \A k \in Content(t) : Admits("stage0", t[k])
  BY <1>1 DEF Acceptable
<1>4. \A j, k \in Content(t) : IsGrammar(t[j]) /\ IsGrammar(t[k]) => j = k
  <2> SUFFICES ASSUME NEW j \in Content(t), NEW k \in Content(t),
                      IsGrammar(t[j]), IsGrammar(t[k])
               PROVE  j = k
    OBVIOUS
  <2>1. PICK m \in Content(s) : Moved(n, m) = j
    BY <1>1
  <2>2. PICK o \in Content(s) : Moved(n, o) = k
    BY <1>1
  <2>3. IsGrammar(s[m]) /\ IsGrammar(s[o])
    BY <1>1, <2>1, <2>2
  <2> QED
    BY <2>1, <2>2, <2>3 DEF Acceptable
<1>5. \E k \in Content(t) : IsGrammar(t[k]) \/ Founds("stage0", t[k])
  BY <1>1 DEF Acceptable
<1>6. Acceptable("stage0", t)
  BY <1>2, <1>3, <1>4, <1>5 DEF Acceptable
<1> DEFINE f == SeedTree(s)
           g == SeedTree(t)
           F == [m \in DOMAIN f |-> Moved(n, m)]
<1>7. Numbered(f) /\ Numbered(g)
  BY <1>1, SourceNumbered
<1>8. DOMAIN f = Content(s) /\ DOMAIN g = Content(t)
      /\ (\A m \in Content(s) : f[m] = s[m]) /\ \A k \in Content(t) : g[k] = t[k]
  BY DEF SeedTree
<1> HIDE DEF f, g
<1>9. F \in [DOMAIN f -> DOMAIN g] /\ \A m \in DOMAIN f : F[m] = Moved(n, m)
  BY <1>1, <1>8
<1>10. \A l, m \in DOMAIN f : l < m => F[l] < F[m]
  <2> SUFFICES ASSUME NEW l \in DOMAIN f, NEW m \in DOMAIN f, l < m
               PROVE  Moved(n, l) < Moved(n, m)
    BY <1>9
  <2>1. l \in Nat /\ m \in Nat /\ n \in Nat
    BY <1>7 DEF Numbered
  <2> QED
    BY <2>1 DEF Moved
<1> HIDE DEF F
<1>11. /\ \A k \in DOMAIN g : \E m \in DOMAIN f : F[m] = k
       /\ \A m \in DOMAIN f : g[F[m]] = f[m]
  BY <1>1, <1>8, <1>9
<1>12. InOrder(f) = InOrder(g)
  BY <1>7, <1>9, <1>10, <1>11, RenumberedInOrder
<1> QED
  BY <1>6, <1>12 DEF Nodes, f, g, t

-----------------------------------------------------------------------------
(* The order of two neighbours.                                            *)

\* What stands at m stands at Across(n, m) once the lines n and n + 1 are exchanged.
Across(n, m) == IF m = n THEN n + 1 ELSE IF m = n + 1 THEN n ELSE m

\* Only the order of the two changes.
LEMMA AcrossIncreases ==
  ASSUME NEW n \in Nat, NEW l \in Nat, NEW m \in Nat, l < m, ~(l = n /\ m = n + 1)
  PROVE  Across(n, l) < Across(n, m)
<1>1. CASE l = n
  BY <1>1 DEF Across
<1>2. CASE l = n + 1
  BY <1>2 DEF Across
<1>3. CASE l # n /\ l # n + 1
  BY <1>3 DEF Across
<1> QED
  BY <1>1, <1>2, <1>3

\* Exchanging two lines moves declarations and changes none.
LEMMA ExchangeMoves ==
  ASSUME source \in Seq(Line), NEW n \in 1 .. Len(source) - 1
  PROVE  /\ Swapped(n) \in Seq(Line)
         /\ DOMAIN Swapped(n) = DOMAIN source
         /\ \A m \in DOMAIN source : /\ m \in Nat
                                     /\ Across(n, m) \in DOMAIN source
                                     /\ Across(n, Across(n, m)) = m
                                     /\ Swapped(n)[m] = source[Across(n, m)]
                                     /\ Swapped(n)[Across(n, m)] = source[m]
         /\ \A m \in Content(source) : Across(n, m) \in Content(Swapped(n))
         /\ \A k \in Content(Swapped(n)) : Across(n, k) \in Content(source)
<1> DEFINE N == Len(source)
<1>1. N \in Nat /\ DOMAIN source = 1 .. N /\ n \in Nat /\ n \in 1 .. N /\ n + 1 \in 1 .. N
  OBVIOUS
<1> HIDE DEF N
<1>2. \A m \in 1 .. N : /\ m \in Nat /\ Across(n, m) \in 1 .. N
                        /\ Across(n, Across(n, m)) = m
  BY <1>1 DEF Across
<1>3. Swapped(n) = [m \in 1 .. N |-> source[Across(n, m)]]
  BY <1>1 DEF Swapped, Across
<1>4. \A m \in 1 .. N : source[m] \in Line
  BY <1>1
<1>5. Swapped(n) \in Seq(Line) /\ DOMAIN Swapped(n) = 1 .. N
  BY <1>1, <1>2, <1>3, <1>4
<1>6. \A m \in 1 .. N : /\ Swapped(n)[m] = source[Across(n, m)]
                        /\ Swapped(n)[Across(n, m)] = source[m]
  BY <1>2, <1>3
<1> QED
  BY <1>1, <1>2, <1>5, <1>6 DEF Content

\* So an accepted source stays accepted.
LEMMA ExchangeAccepted ==
  ASSUME source \in Seq(Line), Acceptable("stage0", source), NEW n \in 1 .. Len(source) - 1
  PROVE  Acceptable("stage0", Swapped(n))
<1> DEFINE t == Swapped(n)
<1>1. /\ DOMAIN t = DOMAIN source
      /\ \A m \in DOMAIN source : /\ Across(n, m) \in DOMAIN source
                                  /\ Across(n, Across(n, m)) = m
                                  /\ t[m] = source[Across(n, m)]
                                  /\ t[Across(n, m)] = source[m]
      /\ \A m \in Content(source) : Across(n, m) \in Content(t)
      /\ \A k \in Content(t) : Across(n, k) \in Content(source)
  BY ExchangeMoves
<1>2. Content(source) \subseteq DOMAIN source /\ Content(t) \subseteq DOMAIN source
  BY <1>1 DEF Content
<1> HIDE DEF t
<1>3. \A k \in DOMAIN t : Readable(t[k])
  BY <1>1 DEF Acceptable
<1>4. \A k \in Content(t) : Admits("stage0", t[k])
  BY <1>1, <1>2 DEF Acceptable
<1>5. \A j, k \in Content(t) : IsGrammar(t[j]) /\ IsGrammar(t[k]) => j = k
  <2> SUFFICES ASSUME NEW j \in Content(t), NEW k \in Content(t),
                      IsGrammar(t[j]), IsGrammar(t[k])
               PROVE  j = k
    OBVIOUS
  <2>1. Across(n, j) = Across(n, k)
    BY <1>1, <1>2 DEF Acceptable
  <2> QED
    BY <1>1, <1>2, <2>1
<1>6. \E k \in Content(t) : IsGrammar(t[k]) \/ Founds("stage0", t[k])
  BY <1>1, <1>2 DEF Acceptable
<1> QED
  BY <1>3, <1>4, <1>5, <1>6 DEF Acceptable, t

\* The declarations are the same in another order, and those of a kind whose order
\* counts are in the same.
LEMMA ExchangeReorders ==
  ASSUME source \in Sources, Acceptable("stage0", source), NEW n \in 1 .. Len(source) - 1,
         ~OrderMatters(n, n + 1)
  PROVE  Reordered(Nodes(SeedTree(source)), Nodes(SeedTree(Swapped(n))))
<1> DEFINE t == Swapped(n)
           f == SeedTree(source)
           g == SeedTree(t)
<1>0. source \in Seq(Line)
  BY SourcesAssumption
<1>1. /\ t \in Seq(Line)
      /\ \A m \in DOMAIN source : /\ Across(n, Across(n, m)) = m
                                  /\ t[m] = source[Across(n, m)]
                                  /\ t[Across(n, m)] = source[m]
      /\ \A m \in Content(source) : Across(n, m) \in Content(t)
      /\ \A k \in Content(t) : Across(n, k) \in Content(source)
      /\ DOMAIN t = DOMAIN source
  BY <1>0, ExchangeMoves
<1>2. /\ Numbered(f) /\ Numbered(g)
      /\ DOMAIN f = Content(source) /\ DOMAIN g = Content(t)
      /\ (\A m \in Content(source) : f[m] = source[m])
      /\ (\A k \in Content(t) : g[k] = t[k])
  BY <1>0, <1>1, SourceNumbered DEF SeedTree
<1>3. \A m \in Content(source) : m \in DOMAIN source /\ Readable(source[m])
  BY DEF Content, Acceptable
<1>4. Content(t) \subseteq DOMAIN source
  BY <1>1 DEF Content
<1> HIDE DEF t, f, g
<1>5. /\ \A m \in DOMAIN f : /\ Across(n, m) \in DOMAIN g
                             /\ Across(n, Across(n, m)) = m
                             /\ g[Across(n, m)] = f[m]
      /\ \A k \in DOMAIN g : /\ Across(n, k) \in DOMAIN f
                             /\ Across(n, Across(n, k)) = k
                             /\ g[k] = f[Across(n, k)]
  BY <1>1, <1>2, <1>3, <1>4
<1>6. ASSUME NEW c, NEW d, Numbered(c), Numbered(d),
             \A m \in DOMAIN c : /\ Across(n, m) \in DOMAIN d
                                 /\ Across(n, Across(n, m)) = m
                                 /\ d[Across(n, m)] = c[m],
             \A k \in DOMAIN d : Across(n, k) \in DOMAIN c /\ Across(n, Across(n, k)) = k
      PROVE  /\ Permuted(InOrder(c), InOrder(d))
             /\ ~({n, n + 1} \subseteq DOMAIN c) => InOrder(c) = InOrder(d)
  <2> DEFINE F == [m \in DOMAIN c |-> Across(n, m)]
  <2>1. F \in [DOMAIN c -> DOMAIN d] /\ \A m \in DOMAIN c : F[m] = Across(n, m)
    BY <1>6
  <2> HIDE DEF F
  <2>2. /\ \A l, m \in DOMAIN c : F[l] = F[m] => l = m
        /\ \A k \in DOMAIN d : \E m \in DOMAIN c : F[m] = k
        /\ \A m \in DOMAIN c : d[F[m]] = c[m]
    BY <1>6, <2>1
  <2>3. Permuted(InOrder(c), InOrder(d))
    BY <1>6, <2>1, <2>2, ReorderedInOrder
  <2>4. ASSUME ~({n, n + 1} \subseteq DOMAIN c)
        PROVE  InOrder(c) = InOrder(d)
    <3>1. \A l, m \in DOMAIN c : l < m => Across(n, l) < Across(n, m)
      <4>1. \A m \in DOMAIN c : m \in Nat
        BY <1>6 DEF Numbered
      <4>2. n \notin DOMAIN c \/ n + 1 \notin DOMAIN c
        BY <2>4
      <4>3. n \in Nat
        BY <1>0
      <4> SUFFICES ASSUME NEW l \in DOMAIN c, NEW m \in DOMAIN c, l < m
                   PROVE  Across(n, l) < Across(n, m)
        OBVIOUS
      <4>4. l \in Nat /\ m \in Nat /\ ~(l = n /\ m = n + 1)
        BY <4>1, <4>2
      <4> QED
        BY <4>3, <4>4, AcrossIncreases
    <3>2. \A l, m \in DOMAIN c : l < m => F[l] < F[m]
      BY <2>1, <3>1
    <3> QED
      BY <1>6, <2>1, <2>2, <3>2, RenumberedInOrder
  <2> QED
    BY <2>3, <2>4
<1>7. Permuted(Nodes(f), Nodes(g))
  BY <1>2, <1>5, <1>6 DEF Nodes
<1>8. ASSUME NEW kind
      PROVE  /\ Permuted(Of(Nodes(f), kind), Of(Nodes(g), kind))
             /\ ~({n, n + 1} \subseteq LinesOf(f, kind)) =>
                  Of(Nodes(f), kind) = Of(Nodes(g), kind)
  <2> DEFINE c == Restrict(f, LinesOf(f, kind))
             d == Restrict(g, LinesOf(g, kind))
  <2>1. /\ Numbered(c) /\ DOMAIN c = LinesOf(f, kind)
        /\ (\A m \in LinesOf(f, kind) : c[m] = f[m])
        /\ Of(Nodes(f), kind) = InOrder(c)
    BY <1>2, DeclarationsInOrder
  <2>2. /\ Numbered(d) /\ DOMAIN d = LinesOf(g, kind)
        /\ (\A m \in LinesOf(g, kind) : d[m] = g[m])
        /\ Of(Nodes(g), kind) = InOrder(d)
    BY <1>2, DeclarationsInOrder
  <2> HIDE DEF c, d
  <2>3. /\ \A m \in LinesOf(f, kind) : m \in DOMAIN f /\ Across(n, m) \in LinesOf(g, kind)
        /\ \A k \in LinesOf(g, kind) : k \in DOMAIN g /\ Across(n, k) \in LinesOf(f, kind)
    BY <1>5 DEF LinesOf
  <2>4. /\ \A m \in DOMAIN c : /\ Across(n, m) \in DOMAIN d
                               /\ Across(n, Across(n, m)) = m
                               /\ d[Across(n, m)] = c[m]
        /\ \A k \in DOMAIN d : Across(n, k) \in DOMAIN c /\ Across(n, Across(n, k)) = k
    BY <1>5, <2>1, <2>2, <2>3
  <2> QED
    BY <1>6, <2>1, <2>2, <2>4
<1>9. ASSUME NEW kind \in {"production", "fixed_denominator"}
      PROVE  Of(Nodes(g), kind) = Of(Nodes(f), kind)
  <2>1. LinesOf(f, kind) = Lines(kind)
    BY <1>2, <1>3 DEF LinesOf, Lines
  <2>2. ~({n, n + 1} \subseteq LinesOf(f, kind))
    BY <2>1 DEF OrderMatters
  <2> QED
    BY <1>8, <2>2
<1> QED
  BY <1>7, <1>8, <1>9 DEF Reordered, f, g, t

\* Exchanging two neighbours whose order does not matter is not seen by Lower.
LEMMA ExchangeUnseen ==
  ASSUME Lowers, Diagnosed \intersect {"invalid-grammar", "conflicting-precedence"} = {},
         NEW n \in 1 .. Len(source) - 1, ~OrderMatters(n, n + 1)
  PROVE  SeedView(Swapped(n)) = SeedView(source)
<1> DEFINE f == SeedTree(source)
           g == SeedTree(Swapped(n))
<1>1. source \in Seq(Line) /\ Acceptable("stage0", source)
  BY SourcesAssumption DEF Lowers
<1>2. Swapped(n) \in Seq(Line) /\ Acceptable("stage0", Swapped(n))
  BY <1>1, ExchangeMoves, ExchangeAccepted
<1>3. ASSUME NEW s, Acceptable("stage0", s)
      PROVE  SeedView(s) = Lower(SeedTree(s))
  BY <1>3 DEF SeedView, Parsed, Accepted, SeedTree
<1>4. Lower(g) = Lower(f)
  <2>1. Numbered(f) /\ Numbered(g)
    BY <1>1, <1>2, SourceNumbered
  <2>2. Reordered(Nodes(f), Nodes(g))
    BY <1>1, ExchangeReorders DEF Lowers
  <2>3. \A m \in DOMAIN f : f[m] \in Seq(Field) /\ f[m] # <<>>
    BY <1>1, AcceptedLines DEF Lowers
  <2>4. Lower(f).ok /\ Lower(f).classes \intersect {"invalid-grammar", "conflicting-precedence"} = {}
    BY DEF Lowers, Diagnosed
  <2> HIDE DEF f, g
  <2> QED
    BY <2>1, <2>2, <2>3, <2>4, OrderForgotten
<1> QED
  BY <1>1, <1>2, <1>3, <1>4

-----------------------------------------------------------------------------
(* Results.                                                                *)

\* The machine of this module is the one that the theorems about Bootstrap are about.
LEMMA SameMachine ==
  /\ Compiler!Init <=> Proofs!Init
  /\ Compiler!vars = Proofs!vars
  /\ Compiler!Next <=> Proofs!Next
<1>1. Compiler!Init <=> Proofs!Init
  BY DEF Compiler!Init, Proofs!Init, Compiler!Generations, Proofs!Generations
<1>2. Compiler!vars = Proofs!vars
  BY DEF Compiler!vars, Proofs!vars
<1>3. \A record : /\ (Compiler!refutedResult(record) <=> Proofs!refutedResult(record))
                   /\ (Compiler!unknownResult(record) <=> Proofs!unknownResult(record))
  BY DEF Compiler!refutedResult, Proofs!refutedResult, Compiler!unknownResult,
         Proofs!unknownResult, Compiler!stampTerminalDigest, Proofs!stampTerminalDigest,
         Compiler!Return, Proofs!Return
<1>4. Compiler!Parse <=> Proofs!Parse
  BY DEF Compiler!Parse, Proofs!Parse
<1>5. \A stage, step, reason, blocked :
        Compiler!terminalFor(stage, step, reason, blocked)
          = Proofs!terminalFor(stage, step, reason, blocked)
  BY DEF Compiler!terminalFor, Proofs!terminalFor, Compiler!Terminal, Proofs!Terminal
<1>6. /\ Compiler!SeedParseFails <=> Proofs!SeedParseFails
      /\ Compiler!SeedLoweringFails <=> Proofs!SeedLoweringFails
      /\ Compiler!GeneratedParseFails <=> Proofs!GeneratedParseFails
      /\ Compiler!GeneratedLoweringFails <=> Proofs!GeneratedLoweringFails
  BY <1>3, <1>5 DEF Compiler!SeedParseFails, Proofs!SeedParseFails,
              Compiler!SeedLoweringFails, Proofs!SeedLoweringFails,
              Compiler!GeneratedParseFails, Proofs!GeneratedParseFails,
              Compiler!GeneratedLoweringFails, Proofs!GeneratedLoweringFails,
              Compiler!StageName, Proofs!StageName
<1>7. Compiler!Lower <=> Proofs!Lower
  BY DEF Compiler!Lower, Proofs!Lower, Compiler!Rendered, Proofs!Rendered,
         Compiler!StageName, Proofs!StageName
<1>8. Compiler!decide(classes, records, ir) = Proofs!decide(classes, records, ir)
  <2>1. Compiler!Refuting = Proofs!Refuting
    BY DEF Compiler!Refuting, Proofs!Refuting, Compiler!RefutingOrder, Proofs!RefutingOrder
  <2>2. Compiler!highestDiagnosticReason(classes) = Proofs!highestDiagnosticReason(classes)
    BY DEF Compiler!highestDiagnosticReason, Proofs!highestDiagnosticReason,
           Compiler!RefutingOrder, Proofs!RefutingOrder
  <2>3. Compiler!Drifted(records, ir) <=> Proofs!Drifted(records, ir)
    BY DEF Compiler!Drifted, Proofs!Drifted
  <2> QED
    BY <2>1, <2>2, <2>3 DEF Compiler!decide, Proofs!decide, Compiler!violated, Proofs!violated,
       Compiler!ambiguous, Proofs!ambiguous, Compiler!drifted, Proofs!drifted,
       Compiler!Terminal, Proofs!Terminal, Compiler!closedTerminal, Proofs!closedTerminal
<1>9. Compiler!Decide <=> Proofs!Decide
  BY <1>8 DEF Compiler!Decide, Proofs!Decide, Compiler!Return, Proofs!Return,
     Compiler!stampTerminalDigest, Proofs!stampTerminalDigest
<1>10. Compiler!Returned <=> Proofs!Returned
  BY DEF Compiler!Returned, Proofs!Returned, Compiler!vars, Proofs!vars
<1> QED
  BY <1>1, <1>2, <1>4, <1>6, <1>7, <1>9, <1>10
     DEF Compiler!Next, Proofs!Next, Compiler!Step, Proofs!Step

\* So its behaviours are.
LEMMA SameBehaviours == Spec => Proofs!Spec
<1>1. [Compiler!Next]_(Compiler!vars) => [Proofs!Next]_(Proofs!vars)
  BY SameMachine DEF Compiler!vars, Proofs!vars
<1> QED
  BY <1>1, SameMachine, PTL DEF Spec, Compiler!Spec, Proofs!Spec

\* The committed pipeline on grammar sources.
LEMMA CommittedPipeline == Spec => []SeedInvariant /\ []Proofs!WorstEvidenceDecides
                                     /\ []Proofs!OnlyTheGrammarDecides
                                     /\ []Proofs!UnrecordedIsRefuted
<1>1. Proofs!Spec => []Proofs!CommittedInvariant
  BY Proofs!CommittedCorrect, LowerIsTyped, CommittedAgree
<1>2. Proofs!Spec => []Proofs!WorstEvidenceDecides
  BY Proofs!CommittedWorst, LowerIsTyped, CommittedAgree
<1>3. Proofs!CommittedInvariant => Proofs!OnlyTheGrammarDecides
  BY DEF Proofs!CommittedInvariant
<1>4. Proofs!Spec => []Proofs!UnrecordedIsRefuted
  BY Proofs!UnrecordedRefuted, LowerIsTyped
<1> QED
  BY <1>1, <1>2, <1>3, <1>4, SameBehaviours, SeedLowered, PTL

\* A diagnosis of a violation refutes.
LEMMA DiagnosisRefutes ==
  ASSUME Done, Diagnosed \subseteq classes, Proofs!WorstEvidenceDecides,
         Diagnosed \intersect {"conflicting-precedence", "forbidden-stage-escape",
                              "forbidden-effect", "invalid-grammar"} # {}
  PROVE  decision = "REFUTED"
<1>1. classes \intersect Proofs!Refuting # {}
  <2>1. 1 .. 4 = DOMAIN Proofs!RefutingOrder
    BY DEF Proofs!RefutingOrder
  <2> QED
    BY <2>1 DEF Proofs!Refuting, Proofs!RefutingOrder
<1>2. "REFUTED" \in Proofs!Evidence
  BY <1>1 DEF Proofs!Evidence
<1> QED
  BY <1>2, LowerIsTyped, Proofs!WorstOf DEF Done, Proofs!WorstEvidenceDecides, Proofs!Done

\* A CLOSED grammar is sound as declared, however long the source: what Lower does
\* not diagnose is not there, and CLOSED needs that it has diagnosed nothing.
THEOREM ClosedSound == Spec => []ClosedIsSound
<1>1. SeedInvariant => ClosedIsSound
  <2> SUFFICES ASSUME Lowers, Diagnosed = {}
               PROVE  /\ OneLevelEach /\ OneSideEach
                      /\ NoRepeatedProduction /\ EverySymbolBound
                      /\ DistinctTokens /\ WithinPolicy
    BY DEF SeedInvariant, ClosedIsSound
  <2> QED
    BY DiagnosesSound DEF OneSideEach, SidesAgree, SidesHaveLevels
<1> QED
  BY <1>1, CommittedPipeline, PTL

\* A grammar that lowers and violates the contract is refuted, whatever else it is.
THEOREM ViolationsRefuted == Spec => []ViolationsAreRefuted
<1>1. SeedInvariant /\ Proofs!WorstEvidenceDecides => ViolationsAreRefuted
  <2> SUFFICES ASSUME Done, Lowers, Diagnosed \subseteq classes, Proofs!WorstEvidenceDecides,
                      ~(OneLevelEach /\ OneSideEach /\ WithinPolicy)
               PROVE  decision = "REFUTED"
    BY DEF SeedInvariant, ViolationsAreRefuted, Done
  <2>1. \/ "conflicting-precedence" \in Diagnosed
        \/ "forbidden-stage-escape" \in Diagnosed
        \/ "forbidden-effect" \in Diagnosed
        \/ "invalid-grammar" \in Diagnosed
    BY DiagnosesSound DEF OneSideEach, SidesAgree, SidesHaveLevels
  <2> QED
    BY <2>1, DiagnosisRefutes
<1> QED
  BY <1>1, CommittedPipeline, PTL

\* The committed parsers satisfy the premise, and no decision is the machinery's.
THEOREM GrammarDecides == Spec => []GrammarAloneDecides
<1>1. Compiler!CommittedBuild
  BY CommittedAgree DEF Compiler!CommittedBuild, Proofs!CommittedBuild
<1>2. Proofs!OnlyTheGrammarDecides => Compiler!OnlyTheGrammarDecides
  BY DEF Compiler!OnlyTheGrammarDecides, Proofs!OnlyTheGrammarDecides, Compiler!Done, Proofs!Done
<1>3. Proofs!OnlyTheGrammarDecides => GrammarAloneDecides
  BY <1>1, <1>2 DEF GrammarAloneDecides
<1> QED
  BY <1>3, CommittedPipeline, PTL

\* The bootstrap with the committed parsers and the real lowering implements the
\* decision lattice, for sources of any length.
THEOREM EvidenceReduced == Spec => ReducesEvidence
<1>1. Proofs!Spec => Proofs!ReducesEvidence
  BY Proofs!CommittedReduces, LowerIsTyped, CommittedAgree
<1>2. Compiler!Evidence = Proofs!Evidence
  <2>1. Compiler!Refuting = Proofs!Refuting
    BY DEF Compiler!Refuting, Proofs!Refuting, Compiler!RefutingOrder, Proofs!RefutingOrder
  <2>2. Compiler!DriftRecorded <=> Proofs!DriftRecorded
    BY DEF Compiler!DriftRecorded, Proofs!DriftRecorded
  <2> QED
    BY <2>1, <2>2 DEF Compiler!Evidence, Proofs!Evidence
<1>3. Proofs!Lattice!Init => Compiler!Lattice!Init
  BY <1>2 DEF Compiler!Lattice!Init, Proofs!Lattice!Init
<1>4. Compiler!Evidence' = Proofs!Evidence'
  <2>1. Compiler!Refuting = Proofs!Refuting
    BY DEF Compiler!Refuting, Proofs!Refuting, Compiler!RefutingOrder, Proofs!RefutingOrder
  <2>2. Compiler!DriftRecorded' <=> Proofs!DriftRecorded'
    BY DEF Compiler!DriftRecorded, Proofs!DriftRecorded
  <2> QED
    BY <2>1, <2>2 DEF Compiler!Evidence, Proofs!Evidence
<1>5. [Proofs!Lattice!Next]_(Proofs!Lattice!vars) => [Compiler!Lattice!Next]_(Compiler!Lattice!vars)
  BY <1>2, <1>4
     DEF Compiler!Lattice!Next, Proofs!Lattice!Next, Compiler!Lattice!Gather, Proofs!Lattice!Gather,
         Compiler!Lattice!Conclude, Proofs!Lattice!Conclude, Compiler!Lattice!Worst,
         Proofs!Lattice!Worst, Compiler!Lattice!Verdicts, Proofs!Lattice!Verdicts,
         Compiler!Lattice!vars, Proofs!Lattice!vars
<1> QED
  BY <1>1, <1>3, <1>5, SameBehaviours, PTL
     DEF ReducesEvidence, Compiler!ReducesEvidence, Proofs!ReducesEvidence,
         Compiler!Lattice!Spec, Proofs!Lattice!Spec

\* A blank line anywhere changes no digest of an accepted grammar, for sources of
\* any length.
THEOREM LayoutUnseen == Spec => []LayoutLeavesNoTrace
<1>1. SeedInvariant => LayoutLeavesNoTrace
  <2> SUFFICES ASSUME SeedInvariant, Done, records # <<>>, NEW n \in 1 .. Len(source)
               PROVE  LET t == CHOOSE t \in CommittedOutcomes(0, InsertAt(source, n, <<>>)) : TRUE
                      IN  /\ SyntaxTreeDigest(t) = records[1].syntaxTree
                          /\ GrammarDigest(Lower(t).ir) = records[1].semanticIR
    BY DEF LayoutLeavesNoTrace
  <2> DEFINE r == SeedTree(InsertAt(source, n, <<>>))
  <2>1. /\ source \in Seq(Line) /\ Acceptable("stage0", source)
        /\ records[1].syntaxTree = SyntaxTreeDigest(SeedTree(source))
        /\ records[1].semanticIR = GrammarDigest(Lower(SeedTree(source)).ir)
    BY SourcesAssumption DEF SeedInvariant, Lowers, Done
  <2>2. /\ Acceptable("stage0", InsertAt(source, n, <<>>))
        /\ Nodes(r) = Nodes(SeedTree(source))
    BY <2>1, BlankLineUnseen
  <2>3. CommittedOutcomes(0, InsertAt(source, n, <<>>)) = {r}
    BY <2>2, OutcomesShape DEF ParserOf
  <2> HIDE DEF r
  <2>4. Lower(r) = Lower(SeedTree(source))
    BY <2>2, Zenon DEF Lower
  <2>5. SyntaxTreeDigest(r) = SyntaxTreeDigest(SeedTree(source))
    BY <2>2 DEF SyntaxTreeDigest
  <2>6. (CHOOSE t \in CommittedOutcomes(0, InsertAt(source, n, <<>>)) : TRUE) = r
    BY <2>3
  <2> QED
    BY <2>1, <2>4, <2>5, <2>6
<1> QED
  BY <1>1, CommittedPipeline, PTL

\* Exchanging two neighbouring declarations whose order carries no meaning changes
\* neither the IR nor what is diagnosed, for sources of any length: a grammar that is
\* not refuted gives every name one meaning, so sorting by name undoes the exchange.
THEOREM OrderUnseen == Spec => []OrderLeavesNoTrace
<1>1. SeedInvariant /\ Proofs!WorstEvidenceDecides /\ Proofs!UnrecordedIsRefuted
        => OrderLeavesNoTrace
  <2> SUFFICES ASSUME SeedInvariant, Proofs!WorstEvidenceDecides, Proofs!UnrecordedIsRefuted,
                      Done, decision # "REFUTED",
                      NEW n \in 1 .. Len(source) - 1, ~OrderMatters(n, n + 1)
               PROVE  SeedView(Swapped(n)) = SeedView(source)
    BY DEF OrderLeavesNoTrace
  <2>1. records # <<>>
    BY DEF Done, Proofs!Done, Proofs!UnrecordedIsRefuted
  <2>2. Lowers /\ Diagnosed \subseteq classes
    BY <2>1 DEF SeedInvariant, Done
  <2>3. Diagnosed \intersect {"invalid-grammar", "conflicting-precedence"} = {}
    BY <2>2, DiagnosisRefutes
  <2> QED
    BY <2>2, <2>3, ExchangeUnseen
<1> QED
  BY <1>1, CommittedPipeline, PTL
=============================================================================
