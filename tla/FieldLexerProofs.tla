-------------------------- MODULE FieldLexerProofs --------------------------
(* The properties of FieldLexer, for lines of every length. *)
EXTENDS FieldLexer, LeastNumbers, TLAPS

Spans == [form : {"literal", "regex", "bare"}, from : Nat, to : Nat]

\* What the type invariant says of the numbers.
LEMMA Shapes ==
  ASSUME TypeOK
  PROVE  /\ Len(line) \in Nat /\ limit \in Nat /\ limit <= Len(line)
         /\ pos \in Nat /\ start \in Nat /\ Frontier \in Nat
         /\ fields \in Seq(Spans) /\ Len(fields) \in Nat
         /\ DOMAIN fields = 1 .. Len(fields)
         /\ \A i \in DOMAIN fields : fields[i].from \in Nat /\ fields[i].to \in Nat
<1>1. line \in Seq(Chars)
  BY LinesAssumption DEF TypeOK
<1>2. Len(line) \in Nat
  BY <1>1
<1>3. fields \in Seq(Spans)
  BY DEF TypeOK, Spans
<1>4. \A i \in 1 .. Len(fields) : fields[i] \in Spans
  BY <1>3
<1>5. \A i \in 1 .. Len(fields) : fields[i].from \in Nat /\ fields[i].to \in Nat
  BY <1>4 DEF Spans
<1> QED
  BY <1>2, <1>3, <1>5 DEF TypeOK, Frontier

\* The invariant holds when the line is handed over.
LEMMA LexInitially ==
  Init => LexInvariant
<1> SUFFICES ASSUME Init PROVE LexInvariant
  OBVIOUS
<1>1. Len(line) \in Nat
  BY LinesAssumption DEF Init
<1>2. fields \in Seq([form : {"literal", "regex", "bare"}, from : Nat, to : Nat])
  BY SMT DEF Init
<1>3. limit \in 0 .. Len(line) /\ pos \in 1 .. Len(line) + 1 /\ start \in Nat
  BY <1>1 DEF Init
<1> QED
  BY <1>1, <1>2, <1>3 DEF Init, LexInvariant, TypeOK

\* The first pass keeps it: no field exists yet, and the two toggles never make
\* the pass believe in a bare field.
LEMMA StripCharKeeps ==
  ASSUME LexInvariant, StripChar
  PROVE  LexInvariant'
<1> USE DEF LexInvariant, TypeOK, StripChar
<1>1. /\ pc = "strip" /\ pc' = "strip" /\ line' = line /\ fields' = fields /\ fields = <<>>
      /\ limit' = limit /\ start' = start /\ pos' \in 1 .. Len(line) + 1
  BY LinesAssumption
<1>2. mode' \in {"plain", "literal", "regex"}
  BY DEF Toggled, Opened
<1>3. escaped' \in BOOLEAN
  BY Zenon
<1> QED
  BY <1>1, <1>2, <1>3

\* Trimming leaves a text within the line.
LEMMA StripKeeps ==
  ASSUME LexInvariant, Strip
  PROVE  LexInvariant'
<1> USE DEF LexInvariant, TypeOK, Strip
<1>1. pc = "strip" /\ pc' = "lex" /\ line' = line /\ fields' = <<>> /\ mode' = "plain"
      /\ escaped' = FALSE /\ start' = start
  OBVIOUS
<1>2. line \in Seq(Chars) /\ Len(line) \in Nat
  BY LinesAssumption
<1>3. PICK first \in 1 .. pos, last \in 0 .. pos - 1 :
        Trimmed(pos, first, last) /\ pos' = first /\ limit' = last
  OBVIOUS
<1>4. pos' \in 1 .. limit' + 2 /\ limit' \in 0 .. Len(line) /\ pos' <= limit' + 1
  BY <1>1, <1>2, <1>3, SMT DEF Trimmed
<1>5. \A k \in 1 .. limit' : k < pos' => line[k] = "blank"
  BY <1>1, <1>2, <1>3, <1>4 DEF Trimmed
<1>6. SpansOrdered'
  BY <1>1 DEF SpansOrdered, Frontier
<1>7. InkIsCovered'
  BY <1>1, <1>5 DEF InkIsCovered, Frontier
<1> QED
  BY <1>1, <1>2, <1>4, <1>6, <1>7

\* A step inside the text that adds no field and hides no ink keeps it.
LEMMA MoveKeeps ==
  ASSUME LexInvariant, pc = "lex", pc' = "lex",
         UNCHANGED <<line, limit, fields>>,
         mode' \in {"plain", "literal", "regex", "bare"}, escaped' \in BOOLEAN,
         start' \in Nat, pos' \in 1 .. limit + 2,
         Frontier <= Frontier',
         \A k \in 1 .. limit : Frontier <= k /\ k < Frontier' => line[k] = "blank",
         mode' # "plain" => start' \in 1 .. limit /\ start' <= pos',
         mode' \in {"literal", "regex"} => start' < pos',
         mode' # "literal" => pos' <= limit + 1,
         mode' = "bare" /\ pos' = start' => line[pos'] # "blank"
  PROVE  LexInvariant'
<1>1. /\ Frontier \in Nat /\ Frontier' \in Nat /\ limit \in Nat
      /\ \A i \in DOMAIN fields : fields[i].from \in Nat /\ fields[i].to \in Nat
  BY Shapes DEF LexInvariant, Frontier
<1>4. SpansOrdered /\ InkIsCovered
  BY DEF LexInvariant
<1>2. SpansOrdered'
  BY <1>1, <1>4 DEF SpansOrdered
<1>3. InkIsCovered'
  <2> SUFFICES ASSUME NEW k \in 1 .. limit, k < Frontier', line[k] # "blank"
               PROVE  \E i \in DOMAIN fields : k \in fields[i].from .. fields[i].to
    BY DEF InkIsCovered
  <2>1. k < Frontier
    BY <1>1
  <2> QED
    BY <1>4, <2>1 DEF InkIsCovered
<1> QED
  BY <1>2, <1>3 DEF LexInvariant, TypeOK

\* Closing a field keeps it: the span reaches from the start of the field to the
\* character before the next one.
LEMMA PushKeeps ==
  ASSUME LexInvariant, pc = "lex", mode # "plain",
         NEW next \in Nat, start < next, next <= limit + 1, Push(next)
  PROVE  LexInvariant'
<1> DEFINE s == Span(mode, start, next - 1)
<1>1. /\ pc' = "lex" /\ mode' = "plain" /\ escaped' = FALSE /\ pos' = next
      /\ line' = line /\ limit' = limit /\ start' = start /\ fields' = Append(fields, s)
  BY DEF Push
<1>2. limit \in Nat /\ start \in 1 .. limit /\ limit \in 0 .. Len(line) /\ line \in Lines
  BY Shapes DEF LexInvariant, TypeOK
<1>3. s \in [form : {"literal", "regex", "bare"}, from : Nat, to : Nat]
      /\ s.from = start /\ s.to = next - 1
  BY <1>2 DEF LexInvariant, TypeOK, Span
<1>4. /\ fields \in Seq([form : {"literal", "regex", "bare"}, from : Nat, to : Nat])
      /\ SpansOrdered /\ InkIsCovered /\ Frontier = start
  BY DEF LexInvariant, TypeOK, Frontier
<1>5. /\ fields' \in Seq([form : {"literal", "regex", "bare"}, from : Nat, to : Nat])
      /\ Len(fields') = Len(fields) + 1 /\ Len(fields) \in Nat
      /\ fields'[Len(fields) + 1] = s
      /\ \A i \in 1 .. Len(fields) : fields'[i] = fields[i]
      /\ DOMAIN fields' = 1 .. Len(fields) + 1 /\ DOMAIN fields = 1 .. Len(fields)
  BY <1>1, <1>3, <1>4
<1>6. Frontier' = next
  BY <1>1 DEF Frontier
<1>7. SpansOrdered'
  <2>1. \A i \in DOMAIN fields : /\ 1 <= fields[i].from /\ fields[i].from <= fields[i].to
                                 /\ fields[i].to < start /\ fields[i].to <= limit
                                 /\ fields[i].from \in Nat /\ fields[i].to \in Nat
    BY <1>4, Shapes DEF SpansOrdered, LexInvariant
  <2>2. \A i \in DOMAIN fields' :
          \/ i \in DOMAIN fields /\ fields'[i] = fields[i]
          \/ i = Len(fields) + 1 /\ fields'[i].from = start /\ fields'[i].to = next - 1
    BY <1>3, <1>5
  <2>3. \A i \in DOMAIN fields' : 1 <= fields'[i].from /\ fields'[i].from <= fields'[i].to
    BY <1>2, <2>1, <2>2
  <2>4. \A i \in DOMAIN fields' : fields'[i].to < next /\ fields'[i].to <= limit
    BY <1>2, <2>1, <2>2
  <2>5. \A i, j \in DOMAIN fields' : i < j => fields'[i].to < fields'[j].from
    <3> SUFFICES ASSUME NEW i \in DOMAIN fields', NEW j \in DOMAIN fields', i < j
                 PROVE  fields'[i].to < fields'[j].from
      OBVIOUS
    <3>1. i \in DOMAIN fields
      BY <1>5
    <3>2. CASE j \in DOMAIN fields
      BY <1>4, <1>5, <3>1, <3>2 DEF SpansOrdered
    <3>3. CASE fields'[j].from = start
      BY <1>5, <2>1, <3>1, <3>3
    <3> QED
      BY <2>2, <3>2, <3>3
  <2> QED
    BY <1>1, <1>6, <2>3, <2>4, <2>5 DEF SpansOrdered
<1>8. InkIsCovered'
  <2> SUFFICES ASSUME NEW k \in 1 .. limit, k < next, line[k] # "blank"
               PROVE  \E i \in DOMAIN fields' : k \in fields'[i].from .. fields'[i].to
    BY <1>1, <1>6 DEF InkIsCovered
  <2>1. CASE k < start
    <3>1. PICK i \in DOMAIN fields : k \in fields[i].from .. fields[i].to
      BY <1>4, <2>1 DEF InkIsCovered
    <3> QED
      BY <1>5, <3>1
  <2>2. CASE start <= k
    <3>1. k \in s.from .. s.to
      BY <1>2, <1>3, <2>2
    <3>2. Len(fields) + 1 \in DOMAIN fields' /\ fields'[Len(fields) + 1] = s
      BY <1>5
    <3> QED
      BY <3>1, <3>2
  <2> QED
    BY <1>2, <2>1, <2>2, SMT
<1>9. limit + 2 \in Nat /\ next \in 1 .. limit + 2
  BY <1>2
<1> QED
  BY <1>1, <1>2, <1>5, <1>7, <1>8, <1>9 DEF LexInvariant, TypeOK

\* Returning, with or without fields, changes no position.
LEMMA GiveKeeps ==
  ASSUME LexInvariant, pc = "lex",
         NEW outcome \in {"lexed", "refused", "panicked"}, Give(outcome),
         outcome = "lexed" => mode = "plain" /\ pos > limit
  PROVE  LexInvariant'
<1> USE DEF LexInvariant, TypeOK, Give
<1>1. SpansOrdered' /\ InkIsCovered'
  BY DEF SpansOrdered, InkIsCovered, Frontier
<1> QED
  BY <1>1

\* Where a delimited field may end.
LEMMA StopRange ==
  ASSUME LexInvariant, pc = "lex", mode \in {"literal", "regex"}
  PROVE  Stop \in Nat /\ start < Stop
BY Shapes DEF LexInvariant, Stop, More

\* Every step of the lexer keeps the invariant.
LEMMA LexStep ==
  LexInvariant /\ [Next]_vars => LexInvariant'
<1> SUFFICES ASSUME LexInvariant, [Next]_vars PROVE LexInvariant'
  OBVIOUS
<1>0. TypeOK /\ limit \in Nat /\ pos \in Nat /\ start \in Nat /\ escaped \in BOOLEAN
  BY Shapes DEF LexInvariant, TypeOK
<1>1. CASE StripChar
  BY <1>1, StripCharKeeps
<1>2. CASE Strip
  BY <1>2, StripKeeps
<1>3. CASE SkipBlank
  <2>1. Frontier = pos /\ Frontier' = pos + 1
    BY <1>3 DEF SkipBlank, Reading, Frontier
  <2> QED
    BY <1>0, <1>3, <2>1, MoveKeeps DEF SkipBlank, Reading, More
<1>4. CASE OpenField
  <2>1. mode' \in {"literal", "regex", "bare"}
    BY <1>4 DEF OpenField, Opened
  <2>2. Frontier = pos /\ Frontier' = pos
    BY <1>4, <2>1 DEF OpenField, Reading, Frontier
  <2>3. mode' \in {"literal", "regex"} => pos' = pos + 1
    BY <1>4 DEF OpenField, Opened
  <2>4. mode' = "bare" => pos' = pos /\ line[pos] # "blank"
    BY <1>4 DEF OpenField, Opened
  <2>5. /\ pc = "lex" /\ pc' = "lex" /\ start' = pos /\ pos \in 1 .. limit
        /\ UNCHANGED <<line, escaped, limit, fields>> /\ pos' \in {pos, pos + 1}
    BY <1>0, <1>4, SMT DEF OpenField, Reading, More, TypeOK
  <2>6. pos' \in 1 .. limit + 2 /\ pos' <= limit + 1 /\ start' <= pos'
    BY <1>0, <2>5
  <2>7. mode' \in {"literal", "regex"} => start' < pos'
    BY <1>0, <2>3, <2>5
  <2>8. mode' = "bare" /\ pos' = start' => line[pos'] # "blank"
    BY <2>4
  <2> QED
    BY <1>0, <2>1, <2>2, <2>5, <2>6, <2>7, <2>8, MoveKeeps
<1>5. CASE LiteralChar
  <2>1. Frontier = start /\ Frontier' = start
    BY <1>5 DEF LiteralChar, Reading, Frontier
  <2>2. start \in 1 .. limit /\ start < pos
    BY <1>5 DEF LiteralChar, Reading, LexInvariant
  <2> QED
    BY <1>0, <1>5, <2>1, <2>2, MoveKeeps DEF LiteralChar, Reading, More
<1>6. CASE RegexChar
  <2>1. Frontier = start /\ Frontier' = start
    BY <1>6 DEF RegexChar, Reading, Frontier
  <2>2. start \in 1 .. limit /\ start < pos
    BY <1>6 DEF RegexChar, Reading, LexInvariant
  <2>3. escaped' \in BOOLEAN
    BY <1>6, Zenon DEF RegexChar
  <2> QED
    BY <1>0, <1>6, <2>1, <2>2, <2>3, MoveKeeps DEF RegexChar, Reading, More
<1>7. CASE BareChar
  <2>1. Frontier = start /\ Frontier' = start
    BY <1>7 DEF BareChar, Reading, Frontier
  <2>2. start \in 1 .. limit /\ start <= pos
    BY <1>7 DEF BareChar, Reading, LexInvariant
  <2> QED
    BY <1>0, <1>7, <2>1, <2>2, MoveKeeps DEF BareChar, Reading, More
<1>8. CASE EndLiteral
  <2>1. pc = "lex" /\ mode = "literal" /\ Stop <= limit + 1 /\ Push(Stop)
    BY <1>8 DEF EndLiteral, Reading, IsGoString, Ends
  <2> QED
    BY <2>1, StopRange, PushKeeps
<1>9. CASE EndRegex
  <2>1. pc = "lex" /\ mode = "regex" /\ Stop <= limit + 1 /\ Push(Stop)
    BY <1>9 DEF EndRegex, Reading, Ends
  <2> QED
    BY <2>1, StopRange, PushKeeps
<1>10. CASE EndBare
  <2>1. pc = "lex" /\ mode = "bare" /\ Push(pos) /\ (More => line[pos] = "blank")
    BY <1>10 DEF EndBare, Reading
  <2>2. start \in 1 .. limit /\ start <= pos /\ pos <= limit + 1
        /\ (pos = start => line[pos] # "blank")
    BY <2>1 DEF LexInvariant
  <2>3. start < pos
    BY <1>0, <2>1, <2>2 DEF More
  <2> QED
    BY <1>0, <2>1, <2>2, <2>3, PushKeeps
<1>11. CASE RefuseLiteral \/ RefuseRegex \/ SliceOutOfRange
  BY <1>11, GiveKeeps DEF RefuseLiteral, RefuseRegex, SliceOutOfRange, Reading
<1>12. CASE EndLine
  BY <1>0, <1>12, GiveKeeps DEF EndLine, Reading, More
<1>13. CASE UNCHANGED vars
  BY <1>13 DEF vars, LexInvariant, TypeOK, SpansOrdered, InkIsCovered, Frontier
<1> QED
  BY <1>1, <1>2, <1>3, <1>4, <1>5, <1>6, <1>7, <1>8, <1>9, <1>10, <1>11, <1>12, <1>13
     DEF Next, Step

\* The fields of a line of any length lie in order and without overlap in the
\* stripped text, and no character but a blank is lost between them, in
\* seedFields and in its two copies.
THEOREM LexerLosesNothing == Spec => []LexInvariant
<1>1. Init => LexInvariant
  BY LexInitially
<1>2. LexInvariant /\ [Next]_vars => LexInvariant'
  BY LexStep
<1> QED
  BY <1>1, <1>2, PTL DEF Spec

\* The consequence that the callers of seedFields and its copies rely on.
THEOREM FieldsPartitionTheText == Spec => []EveryInkInOneField
<1>1. LexInvariant => EveryInkInOneField
  <2> SUFFICES ASSUME LexInvariant, pc = "lexed", NEW k \in 1 .. limit, line[k] # "blank"
               PROVE  \E i \in DOMAIN fields :
                        /\ k \in fields[i].from .. fields[i].to
                        /\ \A j \in DOMAIN fields :
                             k \in fields[j].from .. fields[j].to => j = i
    BY DEF EveryInkInOneField
  <2>1. limit \in Nat /\ pos \in Nat /\ Len(fields) \in Nat /\ DOMAIN fields = 1 .. Len(fields)
        /\ \A i \in DOMAIN fields : fields[i].from \in Nat /\ fields[i].to \in Nat
    BY Shapes DEF LexInvariant
  <2>2. SpansOrdered /\ InkIsCovered /\ k < Frontier
    BY <2>1 DEF LexInvariant, Frontier
  <2>3. PICK i \in DOMAIN fields : k \in fields[i].from .. fields[i].to
    BY <2>2 DEF InkIsCovered
  <2>4. ASSUME NEW j \in DOMAIN fields, k \in fields[j].from .. fields[j].to
        PROVE  j = i
    <3>1. ~(i < j) /\ ~(j < i)
      BY <2>1, <2>2, <2>3, <2>4 DEF SpansOrdered
    <3> QED
      BY <2>1, <3>1
  <2> QED
    BY <2>3, <2>4
<1> QED
  BY <1>1, LexerLosesNothing, PTL

-----------------------------------------------------------------------------
(* Escapes.                                                                *)

\* The positions of l that are taken literally by whoever reads from s on.
Literally(l, s) ==
  {k \in s .. Len(l) : k - s + 1 \in EscapedIn(SubSeq(l, s, Len(l)))}

\* EscapedIn is what its recursion says.
LEMMA EscapedInBy ==
  ASSUME NEW t, Len(t) \in Nat
  PROVE  /\ EscapedIn(t) \subseteq 1 .. Len(t)
         /\ \A k \in 1 .. Len(t) :
              k \in EscapedIn(t) <=> k > 2 /\ t[k - 1] = "backslash" /\ k - 1 \notin EscapedIn(t)
<1> DEFINE N == Len(t)
           Def(f, k) == k > 2 /\ t[k - 1] = "backslash" /\ ~f[k - 1]
           Fits(f) == f = [k \in 1 .. N |-> Def(f, k)]
           F == CHOOSE f : Fits(f)
<1>0. N \in Nat
  OBVIOUS
<1>1. EscapedIn(t) = {k \in 1 .. N : F[k]}
  BY DEF EscapedIn
<1> HIDE DEF N
<1>2. \E f : Fits(f)
  <2>1. CASE N = 0
    <3>1. 1 .. N = {}
      BY <2>1
    <3>2. Fits([k \in {} |-> TRUE])
      BY <3>1
    <3> QED
      BY <3>2
  <2>2. CASE N # 0
    <3> DEFINE M == N - 1
               step == [i \in 1 .. M |-> [b \in BOOLEAN |-> i > 1 /\ t[i] = "backslash" /\ ~b]]
    <3>1. M \in Nat /\ M + 1 = N
      BY <1>0, <2>2
    <3> HIDE DEF M
    <3>2. \A i \in 1 .. M : \A b \in BOOLEAN : step[i][b] = (i > 1 /\ t[i] = "backslash" /\ ~b)
      BY Zenon
    <3>3. step \in [1 .. M -> [BOOLEAN -> BOOLEAN]]
      BY Zenon
    <3> HIDE DEF step
    <3>4. IsStepper(M, BOOLEAN, FALSE, step)
      BY <3>1, <3>3 DEF IsStepper
    <3>5. PICK f : /\ f \in [1 .. M + 1 -> BOOLEAN] /\ f[1] = FALSE
                   /\ \A i \in 1 .. M : f[i + 1] = step[i][f[i]]
      <4>1. \E f : IsRun(f, M, BOOLEAN, FALSE, step)
        BY <3>4, Iterates
      <4> QED
        BY <4>1 DEF IsRun
    <3>6. \A k \in 1 .. N : k = 1 \/ (k - 1 \in 1 .. M /\ (k - 1) + 1 = k /\ (k - 1 > 1 <=> k > 2))
      BY <3>1
    <3>7. \A i \in 1 .. M : i \in 1 .. N
      BY <3>1
    <3>8. ASSUME NEW k \in 1 .. N PROVE f[k] = Def(f, k)
      <4>1. CASE k = 1
        <5>1. ~(k > 2)
          BY <4>1
        <5> QED
          BY <3>5, <4>1, <5>1, Zenon
      <4>2. CASE k # 1
        <5> DEFINE j == k - 1
        <5>1. j \in 1 .. M /\ j + 1 = k /\ (j > 1 <=> k > 2) /\ j \in 1 .. N
          BY <3>6, <3>7, <4>2
        <5> HIDE DEF j
        <5>2. f[j] \in BOOLEAN
          BY <3>1, <3>5, <5>1, Zenon
        <5>3. f[k] = (j > 1 /\ t[j] = "backslash" /\ ~f[j])
          BY <3>2, <3>5, <5>1, <5>2, Zenon
        <5>4. f[k] = (k > 2 /\ t[j] = "backslash" /\ ~f[j])
          BY <5>1, <5>3, Zenon
        <5> QED
          BY <5>4 DEF j
      <4> QED
        BY <4>1, <4>2
    <3>9. f = [k \in 1 .. N |-> f[k]]
      BY <3>1, <3>5
    <3> HIDE DEF Def
    <3>10. f = [k \in 1 .. N |-> Def(f, k)]
      BY <3>8, <3>9, Zenon
    <3> QED
      BY <3>10
  <2> QED
    BY <2>1, <2>2
<1>3. Fits(F)
  BY <1>2
<1> HIDE DEF F
<1>4. \A k \in 1 .. N : F[k] = Def(F, k)
  BY <1>3, Zenon
<1>5. ASSUME NEW k \in 1 .. N
      PROVE  k \in EscapedIn(t) <=> k > 2 /\ t[k - 1] = "backslash" /\ k - 1 \notin EscapedIn(t)
  <2>1. k > 2 => k - 1 \in 1 .. N
    BY <1>0
  <2>2. k \in EscapedIn(t) <=> Def(F, k)
    BY <1>1, <1>4, Zenon
  <2>3. k > 2 => (k - 1 \in EscapedIn(t) <=> F[k - 1])
    BY <1>1, <2>1, Zenon
  <2> QED
    BY <2>2, <2>3, Zenon
<1> QED
  BY <1>1, <1>5 DEF N

\* Texts that begin alike escape alike.
LEMMA EscapesAgree ==
  ASSUME NEW t, NEW u, Len(t) \in Nat, Len(u) \in Nat,
         NEW n \in Nat, n <= Len(t), n <= Len(u), \A k \in 1 .. n : t[k] = u[k]
  PROVE  \A k \in 1 .. n : k \in EscapedIn(t) <=> k \in EscapedIn(u)
<1> DEFINE Bad == {k \in 1 .. n : ~(k \in EscapedIn(t) <=> k \in EscapedIn(u))}
<1>1. \A k \in 1 .. n :
        /\ k \in EscapedIn(t) <=> k > 2 /\ t[k - 1] = "backslash" /\ k - 1 \notin EscapedIn(t)
        /\ k \in EscapedIn(u) <=> k > 2 /\ u[k - 1] = "backslash" /\ k - 1 \notin EscapedIn(u)
  <2>1. \A k \in 1 .. n : k \in 1 .. Len(t) /\ k \in 1 .. Len(u)
    OBVIOUS
  <2> QED
    BY <2>1, EscapedInBy, Zenon
<1>2. Bad = {}
  <2> SUFFICES ASSUME Bad # {} PROVE FALSE
    OBVIOUS
  <2>1. PICK k \in Bad : k \in 1 .. n /\ (k # 1 => k - 1 \in (1 .. n) \ Bad /\ k \in 2 .. n)
    <3>1. Bad \in SUBSET (1 .. n)
      OBVIOUS
    <3> HIDE DEF Bad
    <3> QED
      BY <3>1, LeastUpTo
  <2>2. CASE k = 1
    <3>1. ~(k > 2)
      BY <2>2
    <3> QED
      BY <1>1, <2>1, <3>1
  <2>3. CASE k # 1
    <3>1. k - 1 \in 1 .. n /\ (k - 1 \in EscapedIn(t) <=> k - 1 \in EscapedIn(u))
      BY <2>1, <2>3
    <3> QED
      BY <1>1, <2>1, <3>1, Zenon
  <2> QED
    BY <2>2, <2>3
<1> QED
  BY <1>2

\* The text of a span.
LEMMA TextOf ==
  ASSUME NEW l \in Seq(Chars), NEW s \in 1 .. Len(l), NEW e \in s .. Len(l)
  PROVE  /\ Len(SubSeq(l, s, e)) = e - s + 1 /\ Len(SubSeq(l, s, e)) \in Nat
         /\ \A k \in 1 .. e - s + 1 : SubSeq(l, s, e)[k] = l[s + k - 1]
<1>1. Len(l) \in Nat
  OBVIOUS
<1> QED
  BY <1>1

\* What is taken literally, in positions of the line.
LEMMA LiterallyBy ==
  ASSUME NEW l \in Seq(Chars), NEW s \in 1 .. Len(l)
  PROVE  /\ Literally(l, s) \subseteq s .. Len(l)
         /\ \A k \in s .. Len(l) :
              k \in Literally(l, s) <=>
                s + 1 < k /\ l[k - 1] = "backslash" /\ k - 1 \notin Literally(l, s)
<1> DEFINE t == SubSeq(l, s, Len(l))
           L == Literally(l, s)
<1>0. Len(l) \in Nat /\ Len(l) \in s .. Len(l)
  OBVIOUS
<1>1. /\ Len(t) = Len(l) - s + 1 /\ Len(t) \in Nat
      /\ \A k \in 1 .. Len(l) - s + 1 : t[k] = l[s + k - 1]
  BY <1>0, TextOf
<1>2. \A k \in 1 .. Len(t) :
        k \in EscapedIn(t) <=> k > 2 /\ t[k - 1] = "backslash" /\ k - 1 \notin EscapedIn(t)
  BY <1>1, EscapedInBy
<1>3. L = {k \in s .. Len(l) : k - s + 1 \in EscapedIn(t)}
  BY DEF Literally
<1> HIDE DEF t, L
<1>4. ASSUME NEW k \in s .. Len(l)
      PROVE  k \in L <=> s + 1 < k /\ l[k - 1] = "backslash" /\ k - 1 \notin L
  <2> DEFINE j == k - s + 1
  <2>1. j \in 1 .. Len(t) /\ (j > 2 <=> s + 1 < k)
    BY <1>0, <1>1
  <2>2. s + 1 < k => /\ j - 1 \in 1 .. Len(l) - s + 1 /\ s + (j - 1) - 1 = k - 1
                     /\ k - 1 \in s .. Len(l) /\ (k - 1) - s + 1 = j - 1
    BY <1>0
  <2>3. k \in L <=> j \in EscapedIn(t)
    BY <1>3
  <2>4. s + 1 < k => (k - 1 \in L <=> j - 1 \in EscapedIn(t)) /\ t[j - 1] = l[k - 1]
    BY <1>1, <1>3, <2>2
  <2> HIDE DEF j
  <2> QED
    BY <1>2, <2>1, <2>3, <2>4
<1> QED
  BY <1>3, <1>4 DEF L

\* A text from s to e is delimited when e holds the first delimiter behind s that is
\* not taken literally.
LEMMA DelimitedBy ==
  ASSUME NEW l \in Seq(Chars), NEW s \in 1 .. Len(l), NEW e \in s .. Len(l), NEW d
  PROVE  Delimited(SubSeq(l, s, e), d) <=>
           /\ s < e /\ l[s] = d /\ l[e] = d /\ e \notin Literally(l, s)
           /\ \A k \in s + 1 .. e - 1 : l[k] = d => k \in Literally(l, s)
<1> DEFINE t == SubSeq(l, s, e)
           u == SubSeq(l, s, Len(l))
           n == e - s + 1
<1>0. Len(l) \in Nat /\ Len(l) \in s .. Len(l) /\ n \in Nat /\ n <= Len(l) - s + 1 /\ n >= 1
  OBVIOUS
<1>1. /\ Len(t) = n /\ \A k \in 1 .. n : t[k] = l[s + k - 1]
  BY TextOf
<1>2. /\ Len(u) = Len(l) - s + 1 /\ \A k \in 1 .. Len(l) - s + 1 : u[k] = l[s + k - 1]
  BY <1>0, TextOf
<1>3. /\ EscapedIn(t) \subseteq 1 .. n
      /\ \A k \in s .. Len(l) : k \in Literally(l, s) <=> k - s + 1 \in EscapedIn(u)
  BY <1>0, <1>1, EscapedInBy DEF Literally
<1> HIDE DEF t, u
<1>4. \A k \in 1 .. n : k \in EscapedIn(t) <=> k \in EscapedIn(u)
  <2>1. \A k \in 1 .. n : t[k] = u[k]
    BY <1>0, <1>1, <1>2
  <2>2. Len(t) \in Nat /\ Len(u) \in Nat /\ n <= Len(t) /\ n <= Len(u)
    BY <1>0, <1>1, <1>2
  <2> HIDE DEF n
  <2> QED
    BY <1>0, <2>1, <2>2, EscapesAgree
<1>5. \A k \in s .. e : /\ k \in Literally(l, s) <=> k - s + 1 \in EscapedIn(t)
                       /\ t[k - s + 1] = l[k]
                       /\ k - s + 1 \in 1 .. n
  <2> TAKE k \in s .. e
  <2>1. k - s + 1 \in 1 .. n /\ k \in s .. Len(l) /\ s + (k - s + 1) - 1 = k
    BY <1>0
  <2> QED
    BY <1>1, <1>3, <1>4, <2>1
<1>6. \A j \in 1 .. n : s + j - 1 \in s .. e /\ (s + j - 1) - s + 1 = j
  BY <1>0
<1> DEFINE D == {k \in 2 .. n : t[k] = d} \ EscapedIn(t)
<1>7. Delimited(t, d) <=> n >= 2 /\ t[1] = d /\ D = {n}
  BY <1>1 DEF Delimited
<1>8. t[1] = l[s]
  BY <1>0, <1>5
<1>9. ASSUME n >= 2, D = {n}
      PROVE  /\ s < e /\ l[e] = d /\ e \notin Literally(l, s)
             /\ \A k \in s + 1 .. e - 1 : l[k] = d => k \in Literally(l, s)
  <2>1. s < e /\ e \in s .. e
    BY <1>9
  <2>2. n \in D
    BY <1>9
  <2>3. l[e] = d /\ e \notin Literally(l, s)
    BY <1>5, <2>1, <2>2
  <2>4. ASSUME NEW k \in s + 1 .. e - 1, l[k] = d, k \notin Literally(l, s) PROVE FALSE
    <3>1. k \in s .. e /\ k - s + 1 \in 2 .. n /\ k - s + 1 # n
      BY <1>0
    <3>2. k - s + 1 \in D
      BY <1>5, <2>4, <3>1
    <3> HIDE DEF D
    <3> QED
      BY <1>9, <3>1, <3>2
  <2> QED
    BY <2>1, <2>3, <2>4
<1>10. ASSUME s < e, l[e] = d, e \notin Literally(l, s),
              \A k \in s + 1 .. e - 1 : l[k] = d => k \in Literally(l, s)
       PROVE  n >= 2 /\ D = {n}
  <2>1. n >= 2 /\ e \in s .. e
    BY <1>10
  <2>2. n \in D
    BY <1>5, <1>10, <2>1
  <2>3. ASSUME NEW j \in D, j # n PROVE FALSE
    <3>1. j \in 2 .. n /\ t[j] = d /\ j \notin EscapedIn(t)
      OBVIOUS
    <3>2. s + j - 1 \in s + 1 .. e - 1 /\ s + j - 1 \in s .. e /\ (s + j - 1) - s + 1 = j
      BY <1>0, <2>3, <3>1
    <3> HIDE DEF D, n
    <3> QED
      BY <1>5, <1>10, <3>1, <3>2
  <2> QED
    BY <2>1, <2>2, <2>3
<1> HIDE DEF D, n
<1> QED
  BY <1>7, <1>8, <1>9, <1>10 DEF t

\* What the loop of a literal or a regex knows: where it stands, and that it has
\* passed no delimiter that would have ended it.
InDelimiters ==
  mode \in {"literal", "regex"} =>
    /\ line[start] = Delimiter[mode]
    /\ \A k \in start + 1 .. limit :
         k < pos /\ line[k] = Delimiter[mode] => k \in Literally(line, start)
    /\ mode = "literal" => pos \notin Literally(line, start)
    /\ mode = "regex" =>
         (escaped <=> /\ start + 1 < pos /\ line[pos - 1] = "backslash"
                      /\ pos - 1 \notin Literally(line, start))

\* What the loop of a bare field knows.
InBare ==
  mode = "bare" =>
    /\ line[start] \notin {"quote", "slash"}
    /\ \A k \in start .. limit : k < pos => line[k] # "blank"

\* How a line came to be given up.
GivenUp ==
  /\ mode # "regex" => ~escaped
  /\ pc = "refused" => mode \in {"literal", "regex"}
  /\ pc = "refused" /\ mode = "literal" => (Closing \/ ~More) /\ ~IsGoString
  /\ pc = "refused" /\ mode = "regex" => ~More /\ ~Ends
  /\ pc = "panicked" => ~More /\ mode = "regex" /\ Ends /\ Stop - 1 = start

\* The inductive invariant of the second pass.
FormInvariant ==
  /\ LexInvariant
  /\ FieldsAreWellFormed
  /\ pc # "strip" => InDelimiters /\ InBare /\ GivenUp

\* A regex whose slashes are all escaped, the last of them at its end, would be
\* closed by one more.
LEMMA ClosedByOneMore ==
  ASSUME NEW l \in Seq(Chars), NEW s \in 1 .. Len(l), NEW e \in s .. Len(l),
         s < e, l[s] = "slash", l[e] = "slash",
         \A k \in s + 1 .. e : l[k] = "slash" => k \in Literally(l, s)
  PROVE  Delimited(Append(SubSeq(l, s, e), "slash"), "slash")
<1> DEFINE t == SubSeq(l, s, e)
           u == SubSeq(l, s, Len(l))
           v == Append(t, "slash")
           n == e - s + 1
<1>0. /\ Len(l) \in Nat /\ Len(l) \in s .. Len(l) /\ n \in Nat /\ n <= Len(l) - s + 1 /\ n >= 2
      /\ s + n - 1 = e
  OBVIOUS
<1>1. Len(t) = n /\ \A k \in 1 .. n : t[k] = l[s + k - 1]
  BY TextOf
<1>2. Len(u) = Len(l) - s + 1 /\ \A k \in 1 .. Len(l) - s + 1 : u[k] = l[s + k - 1]
  BY <1>0, TextOf
<1>3. \A k \in s .. Len(l) : k \in Literally(l, s) <=> k - s + 1 \in EscapedIn(u)
  BY DEF Literally
<1>4. t \in Seq(Chars) /\ "slash" \in Chars
  BY <1>0 DEF Chars
<1> HIDE DEF t, u
<1>5. Len(v) = n + 1 /\ v[n + 1] = "slash" /\ \A k \in 1 .. n : v[k] = t[k]
  <2>1. Len(v) = Len(t) + 1 /\ v[Len(t) + 1] = "slash" /\ \A k \in 1 .. Len(t) : v[k] = t[k]
    BY <1>4
  <2> HIDE DEF n, v
  <2> QED
    BY <1>1, <2>1
<1> HIDE DEF v
<1>6. \A k \in 1 .. n : k \in EscapedIn(v) <=> k \in EscapedIn(u)
  <2>1. \A k \in 1 .. n : v[k] = u[k]
    BY <1>0, <1>1, <1>2, <1>5
  <2>2. Len(v) \in Nat /\ Len(u) \in Nat /\ n <= Len(v) /\ n <= Len(u)
    BY <1>0, <1>2, <1>5
  <2> HIDE DEF n
  <2> QED
    BY <1>0, <2>1, <2>2, EscapesAgree
<1>7. \A j \in 2 .. n : v[j] = "slash" => j \in EscapedIn(v)
  <2> SUFFICES ASSUME NEW j \in 2 .. n, v[j] = "slash" PROVE j \in EscapedIn(v)
    OBVIOUS
  <2> DEFINE k == s + j - 1
  <2>1. j \in 1 .. n /\ k \in s + 1 .. e /\ k \in s .. Len(l) /\ k - s + 1 = j
    BY <1>0
  <2>2. l[k] = "slash"
    BY <1>1, <1>5, <2>1
  <2> HIDE DEF k, n
  <2> QED
    BY <1>3, <1>6, <2>1, <2>2
<1>8. n + 1 \notin EscapedIn(v)
  <2>1. n + 1 \in 1 .. Len(v) /\ Len(v) \in Nat /\ (n + 1) - 1 = n
    BY <1>0, <1>5
  <2>2. v[n] = "slash"
    BY <1>0, <1>1, <1>5
  <2> HIDE DEF n
  <2> QED
    BY <2>1, <2>2, EscapedInBy
<1>9. v[1] = "slash"
  BY <1>0, <1>1, <1>5
<1>10. {k \in 2 .. n + 1 : v[k] = "slash"} \ EscapedIn(v) = {n + 1}
  <2>1. \A k \in 2 .. n + 1 : k \in 2 .. n \/ k = n + 1
    BY <1>0
  <2>2. n + 1 \in 2 .. n + 1
    BY <1>0
  <2> HIDE DEF n
  <2> QED
    BY <1>5, <1>7, <1>8, <2>1, <2>2
<1>11. Len(v) >= 2
  BY <1>0, <1>5
<1> HIDE DEF n
<1> QED
  BY <1>5, <1>9, <1>10, <1>11 DEF Delimited, v, t

\* What LexInvariant says of the second pass.
LEMMA SecondPass ==
  ASSUME LexInvariant, pc # "strip"
  PROVE  /\ line \in Seq(Chars) /\ Len(line) \in Nat /\ limit \in Nat /\ limit <= Len(line)
         /\ pos \in Nat /\ 1 <= pos /\ start \in Nat /\ pos <= limit + 2
         /\ escaped \in BOOLEAN /\ mode \in {"plain", "literal", "regex", "bare"}
         /\ mode # "plain" => start \in 1 .. limit /\ start \in 1 .. Len(line) /\ start <= pos
         /\ mode \in {"literal", "regex"} => start < pos
         /\ mode # "literal" => pos <= limit + 1
BY Shapes, LinesAssumption DEF LexInvariant, TypeOK

\* Fields that were found keep their shape.
LEMMA ShapesKept ==
  ASSUME FieldsAreWellFormed, UNCHANGED <<line, limit, fields>>
  PROVE  FieldsAreWellFormed'
BY DEF FieldsAreWellFormed, WellFormed, Text

\* A field that is found has to have its shape.
LEMMA PushForm ==
  ASSUME LexInvariant, FieldsAreWellFormed, pc = "lex", NEW next, Push(next),
         WellFormed(Span(mode, start, next - 1))
  PROVE  FieldsAreWellFormed'
<1> DEFINE f == Span(mode, start, next - 1)
<1>1. line' = line /\ limit' = limit /\ fields' = Append(fields, f)
  BY DEF Push
<1>2. PICK S : fields \in Seq(S)
  BY Shapes DEF LexInvariant
<1> HIDE DEF f
<1>3. fields \in Seq(S \union {f}) /\ f \in S \union {f}
  BY <1>2
<1>4. \A i \in DOMAIN fields' : (i \in DOMAIN fields /\ fields'[i] = fields[i]) \/ fields'[i] = f
  BY <1>1, <1>3
<1>5. \A g : WellFormed(g) => WellFormed(g)'
  BY <1>1 DEF WellFormed, Text
<1>6. \A i \in DOMAIN fields' : WellFormed(fields'[i])
  BY <1>4 DEF FieldsAreWellFormed, f
<1> QED
  BY <1>1, <1>5, <1>6 DEF FieldsAreWellFormed, WellFormed, Text

\* Reading on inside of a string: what follows a backslash is passed by.
LEMMA LiteralCharForm ==
  ASSUME FormInvariant, LiteralChar
  PROVE  InDelimiters' /\ InBare' /\ GivenUp'
<1> DEFINE L == Literally(line, start)
<1>1. /\ pc = "lex" /\ mode = "literal" /\ pos <= limit /\ ~(~escaped /\ line[pos] = "quote")
      /\ pos' = IF line[pos] = "backslash" THEN pos + 2 ELSE pos + 1
      /\ UNCHANGED <<line, pc, mode, escaped, limit, start>>
  BY DEF LiteralChar, Reading, More, Closing, Delimiter
<1>2. InDelimiters /\ GivenUp
  BY <1>1 DEF FormInvariant
<1>3. /\ line \in Seq(Chars) /\ Len(line) \in Nat /\ limit \in Nat /\ limit <= Len(line)
      /\ pos \in Nat /\ start \in 1 .. Len(line) /\ start < pos
  BY <1>1, SecondPass DEF FormInvariant
<1>4. /\ L \subseteq start .. Len(line)
      /\ \A k \in start .. Len(line) :
           k \in L <=> start + 1 < k /\ line[k - 1] = "backslash" /\ k - 1 \notin L
  BY <1>3, LiterallyBy
<1>5. /\ line[start] = "quote" /\ pos \notin L /\ line[pos] # "quote"
      /\ \A k \in start + 1 .. limit : k < pos /\ line[k] = "quote" => k \in L
  BY <1>1, <1>2 DEF InDelimiters, GivenUp, Delimiter
<1> HIDE DEF L
<1>6. pos + 1 \in L <=> line[pos] = "backslash" /\ pos + 1 <= Len(line)
  <2>1. pos + 1 \in start .. Len(line) <=> pos + 1 <= Len(line)
    BY <1>3
  <2>2. start + 1 < pos + 1 /\ (pos + 1) - 1 = pos
    BY <1>3
  <2> QED
    BY <1>4, <1>5, <2>1, <2>2
<1>7. line[pos] = "backslash" => pos + 2 \notin L
  <2> SUFFICES ASSUME line[pos] = "backslash", pos + 2 \in L PROVE FALSE
    OBVIOUS
  <2>1. pos + 2 \in start .. Len(line) /\ (pos + 2) - 1 = pos + 1
    BY <1>3, <1>4
  <2>2. pos + 1 \notin L
    BY <1>4, <2>1
  <2> QED
    BY <1>3, <1>6, <2>1, <2>2
<1>8. pos' \notin L
  BY <1>1, <1>6, <1>7
<1>9. \A k \in start + 1 .. limit : k < pos' /\ line[k] = "quote" => k \in L
  <2> SUFFICES ASSUME NEW k \in start + 1 .. limit, k < pos', line[k] = "quote" PROVE k \in L
    OBVIOUS
  <2>1. k < pos \/ k = pos \/ (k = pos + 1 /\ line[pos] = "backslash")
    BY <1>1, <1>3
  <2>2. k <= Len(line)
    BY <1>3
  <2> QED
    BY <1>5, <1>6, <2>1, <2>2
<1>10. InDelimiters'
  BY <1>1, <1>5, <1>8, <1>9 DEF InDelimiters, Delimiter, L
<1> QED
  BY <1>1, <1>2, <1>10 DEF InBare, GivenUp

\* Reading on inside of a regex, the flag says whether the next character counts.
LEMMA RegexCharForm ==
  ASSUME FormInvariant, RegexChar
  PROVE  InDelimiters' /\ InBare' /\ GivenUp'
<1> DEFINE L == Literally(line, start)
<1>1. /\ pc = "lex" /\ mode = "regex" /\ pos <= limit /\ ~(~escaped /\ line[pos] = "slash")
      /\ pos' = pos + 1 /\ (escaped' <=> ~escaped /\ line[pos] = "backslash")
      /\ UNCHANGED <<line, pc, mode, limit, start>>
  BY Zenon DEF RegexChar, Reading, More, Closing, Delimiter
<1>2. InDelimiters /\ GivenUp
  BY <1>1 DEF FormInvariant
<1>3. /\ line \in Seq(Chars) /\ Len(line) \in Nat /\ limit \in Nat /\ limit <= Len(line)
      /\ pos \in Nat /\ start \in 1 .. Len(line) /\ start < pos
  BY <1>1, SecondPass DEF FormInvariant
<1>4. /\ L \subseteq start .. Len(line)
      /\ \A k \in start .. Len(line) :
           k \in L <=> start + 1 < k /\ line[k - 1] = "backslash" /\ k - 1 \notin L
  BY <1>3, LiterallyBy
<1>5. /\ line[start] = "slash"
      /\ escaped <=> start + 1 < pos /\ line[pos - 1] = "backslash" /\ pos - 1 \notin L
      /\ \A k \in start + 1 .. limit : k < pos /\ line[k] = "slash" => k \in L
  BY <1>1, <1>2 DEF InDelimiters, Delimiter
<1> HIDE DEF L
<1>6. escaped <=> pos \in L
  <2>1. pos \in start .. Len(line)
    BY <1>1, <1>3
  <2> QED
    BY <1>4, <1>5, <2>1
<1>7. escaped' <=> start + 1 < pos' /\ line[pos' - 1] = "backslash" /\ pos' - 1 \notin L
  <2>1. start + 1 < pos' /\ pos' - 1 = pos
    BY <1>1, <1>3
  <2> QED
    BY <1>1, <1>6, <2>1
<1>8. \A k \in start + 1 .. limit : k < pos' /\ line[k] = "slash" => k \in L
  <2> SUFFICES ASSUME NEW k \in start + 1 .. limit, k < pos', line[k] = "slash" PROVE k \in L
    OBVIOUS
  <2>1. k < pos \/ k = pos
    BY <1>1, <1>3
  <2> QED
    BY <1>1, <1>5, <1>6, <2>1
<1>9. InDelimiters'
  BY <1>1, <1>5, <1>7, <1>8 DEF InDelimiters, Delimiter, L
<1> QED
  BY <1>1, <1>2, <1>9 DEF InBare, GivenUp

\* A field begins.
LEMMA OpenFieldForm ==
  ASSUME FormInvariant, OpenField
  PROVE  InDelimiters' /\ InBare' /\ GivenUp'
<1>1. /\ pc = "lex" /\ mode = "plain" /\ pos <= limit /\ start' = pos
      /\ mode' \in {"literal", "regex", "bare"}
      /\ mode' = "literal" => pos' = pos + 1 /\ line[pos] = "quote"
      /\ mode' = "regex" => pos' = pos + 1 /\ line[pos] = "slash"
      /\ mode' = "bare" => pos' = pos /\ line[pos] \notin {"quote", "slash"}
      /\ UNCHANGED <<line, pc, escaped, limit, fields>>
  BY DEF OpenField, Reading, More, Opened
<1>2. ~escaped
  BY <1>1 DEF FormInvariant, GivenUp
<1>3. /\ line \in Seq(Chars) /\ Len(line) \in Nat /\ limit \in Nat /\ limit <= Len(line)
      /\ pos \in 1 .. Len(line)
  BY <1>1, SecondPass DEF FormInvariant
<1>4. pos + 1 \notin Literally(line, pos)
  <2>1. ~(pos + 1 < pos + 1)
    BY <1>3
  <2>2. CASE pos + 1 \in pos .. Len(line)
    BY <1>3, <2>1, <2>2, LiterallyBy
  <2>3. CASE pos + 1 \notin pos .. Len(line)
    BY <1>3, <2>3, LiterallyBy
  <2> QED
    BY <2>2, <2>3
<1>5. mode' = "literal" => InDelimiters'
  <2> SUFFICES ASSUME mode' = "literal" PROVE InDelimiters'
    OBVIOUS
  <2>1. \A k \in pos + 1 .. limit : ~(k < pos + 1)
    BY <1>3
  <2> QED
    BY <1>1, <1>4, <2>1 DEF InDelimiters, Delimiter
<1>6. mode' = "regex" => InDelimiters'
  <2> SUFFICES ASSUME mode' = "regex" PROVE InDelimiters'
    OBVIOUS
  <2>1. ~(pos + 1 < pos + 1) /\ \A k \in pos + 1 .. limit : ~(k < pos + 1)
    BY <1>3
  <2> QED
    BY <1>1, <1>2, <2>1 DEF InDelimiters, Delimiter
<1>7. InDelimiters'
  BY <1>5, <1>6 DEF InDelimiters
<1>8. InBare'
  <2>1. \A k \in pos .. limit : ~(k < pos)
    BY <1>3
  <2> QED
    BY <1>1, <2>1 DEF InBare
<1> QED
  BY <1>1, <1>2, <1>7, <1>8 DEF GivenUp

\* The characters of a bare field.
LEMMA BareCharForm ==
  ASSUME FormInvariant, BareChar
  PROVE  InDelimiters' /\ InBare' /\ GivenUp'
<1>1. /\ pc = "lex" /\ mode = "bare" /\ pos <= limit /\ line[pos] # "blank" /\ pos' = pos + 1
      /\ UNCHANGED <<line, pc, mode, escaped, limit, start>>
  BY DEF BareChar, Reading, More
<1>2. InBare /\ ~escaped /\ pos \in Nat /\ limit \in Nat /\ start \in Nat
  BY <1>1, SecondPass DEF FormInvariant, GivenUp
<1>3. \A k \in start .. limit : k < pos' => k < pos \/ k = pos
  BY <1>1, <1>2
<1> QED
  BY <1>1, <1>2, <1>3 DEF InDelimiters, InBare, GivenUp

\* Where the loop of a string or a regex stops.
LEMMA StopsAt ==
  ASSUME LexInvariant, pc # "strip", mode \in {"literal", "regex"}, Closing \/ ~More
  PROVE  \/ Closing /\ More /\ Stop = pos + 1 /\ line[pos] = Delimiter[mode] /\ Ends
         \/ ~More /\ Stop = pos /\ pos > limit
<1>1. pos \in Nat /\ limit \in Nat
  BY SecondPass
<1>2. CASE Closing
  <2>1. More /\ Stop = pos + 1 /\ line[pos] = Delimiter[mode]
    BY <1>2 DEF Closing, Stop
  <2>2. pos + 1 <= limit + 1 /\ (pos + 1) - 1 = pos
    BY <1>1, <2>1 DEF More
  <2> QED
    BY <1>2, <2>1, <2>2 DEF Ends
<1>3. CASE ~Closing /\ ~More
  BY <1>1, <1>3 DEF Stop, More
<1> QED
  BY <1>2, <1>3

\* A loop that stops on a delimiter has read a delimited text.
LEMMA ClosingDelimits ==
  ASSUME FormInvariant, pc # "strip", mode \in {"literal", "regex"}, Closing
  PROVE  Delimited(SubSeq(line, start, pos), Delimiter[mode])
<1> DEFINE L == Literally(line, start)
           d == Delimiter[mode]
<1>1. InDelimiters /\ line[pos] = d /\ ~escaped /\ pos <= limit
  BY DEF FormInvariant, Closing, More
<1>2. /\ line \in Seq(Chars) /\ Len(line) \in Nat /\ limit \in Nat /\ limit <= Len(line)
      /\ pos \in start .. Len(line) /\ start \in 1 .. Len(line) /\ start < pos
  BY <1>1, SecondPass DEF FormInvariant
<1>3. \A k \in start .. Len(line) :
        k \in L <=> start + 1 < k /\ line[k - 1] = "backslash" /\ k - 1 \notin L
  BY <1>2, LiterallyBy
<1>4. /\ line[start] = d
      /\ mode = "regex" =>
           (escaped <=> start + 1 < pos /\ line[pos - 1] = "backslash" /\ pos - 1 \notin L)
      /\ mode = "literal" => pos \notin L
      /\ \A k \in start + 1 .. limit : k < pos /\ line[k] = d => k \in L
  BY <1>1 DEF InDelimiters
<1> HIDE DEF d, L
<1>5. pos \notin L
  BY <1>1, <1>2, <1>3, <1>4
<1>6. \A k \in start + 1 .. pos - 1 : line[k] = d => k \in L
  <2>1. \A k \in start + 1 .. pos - 1 : k \in start + 1 .. limit /\ k < pos
    BY <1>1, <1>2
  <2> QED
    BY <1>4, <2>1
<1> QED
  BY <1>1, <1>2, <1>4, <1>5, <1>6, DelimitedBy DEF d, L

\* A regex that ends has its shape.
LEMMA EndRegexForm ==
  ASSUME FormInvariant, EndRegex
  PROVE  FieldsAreWellFormed'
<1> DEFINE L == Literally(line, start)
           e == Stop - 1
           f == Span(mode, start, e)
<1>1. /\ pc = "lex" /\ mode = "regex" /\ (Closing \/ ~More) /\ Ends /\ e # start /\ Push(Stop)
      /\ LexInvariant /\ FieldsAreWellFormed
  BY DEF EndRegex, Reading, FormInvariant
<1>2. InDelimiters
  BY <1>1 DEF FormInvariant
<1>3. /\ line \in Seq(Chars) /\ Len(line) \in Nat /\ limit \in Nat /\ limit <= Len(line)
      /\ pos \in Nat /\ start \in 1 .. Len(line) /\ start < pos /\ pos <= limit + 1
  BY <1>1, SecondPass
<1>4. /\ L \subseteq start .. Len(line)
      /\ \A k \in start .. Len(line) :
           k \in L <=> start + 1 < k /\ line[k - 1] = "backslash" /\ k - 1 \notin L
  BY <1>3, LiterallyBy
<1>5. /\ line[start] = "slash"
      /\ escaped <=> start + 1 < pos /\ line[pos - 1] = "backslash" /\ pos - 1 \notin L
      /\ \A k \in start + 1 .. limit : k < pos /\ line[k] = "slash" => k \in L
  BY <1>1, <1>2 DEF InDelimiters, Delimiter
<1>6. f.form = "regex" /\ f.from = start /\ f.to = e /\ Text(f) = SubSeq(line, start, e)
  BY <1>1 DEF Span, Text
<1> HIDE DEF f, L
<1>7. CASE Closing /\ More /\ Stop = pos + 1 /\ line[pos] = Delimiter[mode]
  <2>1. e = pos
    BY <1>3, <1>7
  <2>2. Delimited(SubSeq(line, start, pos), "slash")
    BY <1>1, <1>7, ClosingDelimits DEF Delimiter
  <2>3. Delimited(Text(f), "slash")
    BY <1>6, <2>1, <2>2
  <2> QED
    BY <1>1, <1>6, <2>3, PushForm DEF WellFormed, f
<1>8. CASE ~More /\ Stop = pos /\ pos > limit
  <2>1. pos = limit + 1 /\ e = limit
    BY <1>3, <1>8
  <2>2. line[limit] = "slash" /\ start < limit /\ limit \in start .. Len(line)
    BY <1>1, <1>3, <2>1 DEF Ends, Delimiter
  <2>3. \A k \in start + 1 .. limit : line[k] = "slash" => k \in L
    <3>1. \A k \in start + 1 .. limit : k < pos
      BY <1>3, <2>1
    <3> QED
      BY <1>5, <3>1
  <2>4. Delimited(Append(SubSeq(line, start, limit), "slash"), "slash")
    BY <1>3, <1>5, <2>2, <2>3, ClosedByOneMore DEF L
  <2>5. f.to = limit /\ line[f.to] = "slash" /\ Delimited(Append(Text(f), "slash"), "slash")
    BY <1>6, <2>1, <2>2, <2>4
  <2> QED
    BY <1>1, <1>6, <2>5, PushForm DEF WellFormed, f
<1> QED
  BY <1>1, <1>7, <1>8, StopsAt

\* A string that ends is one, and a bare field has no blank in it.
LEMMA EndOthersForm ==
  ASSUME FormInvariant, EndLiteral \/ EndBare
  PROVE  FieldsAreWellFormed'
<1>1. LexInvariant /\ FieldsAreWellFormed
  BY DEF FormInvariant
<1>2. CASE EndLiteral
  <2> DEFINE f == Span(mode, start, Stop - 1)
  <2>1. pc = "lex" /\ mode = "literal" /\ Unquotes(Text(f)) /\ Push(Stop)
    BY <1>2 DEF EndLiteral, Reading, IsGoString
  <2>2. f.form = "literal"
    BY <2>1 DEF Span
  <2> HIDE DEF f
  <2> QED
    BY <1>1, <2>1, <2>2, PushForm DEF WellFormed, f
<1>3. CASE EndBare
  <2> DEFINE f == Span(mode, start, pos - 1)
  <2>1. pc = "lex" /\ mode = "bare" /\ (More => line[pos] = "blank") /\ Push(pos)
    BY <1>3 DEF EndBare, Reading
  <2>2. InBare /\ pos \in Nat /\ limit \in Nat /\ start \in 1 .. limit /\ pos <= limit + 1
    BY <1>1, <2>1, SecondPass DEF FormInvariant
  <2>3. /\ f.form = "bare" /\ f.from = start /\ f.to = pos - 1
    BY <2>1 DEF Span
  <2> HIDE DEF f
  <2>4. line[f.from] \notin {"quote", "slash"}
    BY <2>1, <2>2, <2>3 DEF InBare
  <2>5. \A k \in f.from .. f.to : line[k] # "blank"
    <3>1. \A k \in start .. pos - 1 : k \in start .. limit /\ k < pos
      BY <2>2
    <3> QED
      BY <2>1, <2>2, <2>3, <3>1 DEF InBare
  <2>6. f.to < limit => line[f.to + 1] = "blank"
    <3>1. pos - 1 < limit => pos <= limit /\ (pos - 1) + 1 = pos
      BY <2>2
    <3> QED
      BY <2>1, <2>3, <3>1 DEF More
  <2> QED
    BY <1>1, <2>1, <2>3, <2>4, <2>5, <2>6, PushForm DEF WellFormed, f
<1> QED
  BY <1>2, <1>3

\* Giving a line up, or returning its fields, is recorded as it happened.
LEMMA GiveForm ==
  ASSUME FormInvariant, RefuseLiteral \/ RefuseRegex \/ SliceOutOfRange \/ EndLine
  PROVE  FieldsAreWellFormed' /\ InDelimiters' /\ InBare' /\ GivenUp'
<1>1. /\ pc = "lex" /\ UNCHANGED <<line, mode, escaped, pos, limit, start, fields>>
      /\ LexInvariant /\ FieldsAreWellFormed
  BY DEF RefuseLiteral, RefuseRegex, SliceOutOfRange, EndLine, Give, Reading, FormInvariant
<1>2. InDelimiters /\ InBare /\ GivenUp
  BY <1>1 DEF FormInvariant
<1>3. FieldsAreWellFormed'
  BY <1>1, ShapesKept
<1>4. InDelimiters' /\ InBare'
  BY <1>1, <1>2 DEF InDelimiters, InBare
<1>5. /\ More' = More /\ Closing' = Closing /\ Stop' = Stop /\ Ends' = Ends
      /\ IsGoString' = IsGoString
  BY <1>1 DEF More, Closing, Stop, Ends, IsGoString, Text
<1>6. CASE RefuseLiteral
  BY <1>1, <1>2, <1>3, <1>4, <1>5, <1>6 DEF RefuseLiteral, Reading, Give, GivenUp
<1>7. CASE RefuseRegex
  <2>1. pc' = "refused" /\ mode = "regex" /\ (Closing \/ ~More) /\ ~Ends
    BY <1>7 DEF RefuseRegex, Reading, Give
  <2>2. ~More
    BY <1>1, <2>1, StopsAt
  <2> QED
    BY <1>1, <1>2, <1>3, <1>4, <1>5, <2>1, <2>2 DEF GivenUp
<1>8. CASE SliceOutOfRange
  <2>1. pc' = "panicked" /\ mode = "regex" /\ (Closing \/ ~More) /\ Ends /\ Stop - 1 = start
    BY <1>8 DEF SliceOutOfRange, Reading, Give
  <2>2. ~More
    <3>1. pos \in Nat /\ start \in Nat /\ start < pos
      BY <1>1, <2>1, SecondPass
    <3>2. ~(Stop = pos + 1)
      BY <2>1, <3>1
    <3> QED
      BY <1>1, <2>1, <3>2, StopsAt
  <2> QED
    BY <1>1, <1>2, <1>3, <1>4, <1>5, <2>1, <2>2 DEF GivenUp
<1>9. CASE EndLine
  BY <1>1, <1>2, <1>3, <1>4, <1>9 DEF EndLine, Reading, Give, GivenUp
<1> QED
  BY <1>6, <1>7, <1>8, <1>9

\* Every step keeps the shapes and what the loops know.
LEMMA FormStep ==
  FormInvariant /\ [Next]_vars => FormInvariant'
<1> SUFFICES ASSUME FormInvariant, [Next]_vars PROVE FormInvariant'
  OBVIOUS
<1>0. LexInvariant' /\ LexInvariant /\ FieldsAreWellFormed
  BY LexStep DEF FormInvariant
<1>1. CASE StripChar
  <2>1. pc' = "strip" /\ fields' = <<>>
    BY <1>0, <1>1 DEF StripChar, LexInvariant
  <2> QED
    BY <1>0, <2>1 DEF FormInvariant, FieldsAreWellFormed
<1>2. CASE Strip
  <2>1. fields' = <<>> /\ mode' = "plain" /\ ~escaped' /\ pc' = "lex"
    BY <1>0, <1>2 DEF Strip, LexInvariant
  <2> QED
    BY <1>0, <2>1 DEF FormInvariant, FieldsAreWellFormed, InDelimiters, InBare, GivenUp
<1>3. CASE SkipBlank
  <2>1. /\ pc = "lex" /\ mode = "plain" /\ UNCHANGED <<line, pc, mode, escaped, limit, fields>>
    BY <1>3 DEF SkipBlank, Reading
  <2>2. FieldsAreWellFormed'
    BY <1>0, <2>1, ShapesKept
  <2> QED
    BY <1>0, <2>1, <2>2 DEF FormInvariant, InDelimiters, InBare, GivenUp
<1>4. CASE OpenField \/ LiteralChar \/ RegexChar \/ BareChar
  <2>1. UNCHANGED <<line, limit, fields>>
    BY <1>4 DEF OpenField, LiteralChar, RegexChar, BareChar
  <2>2. FieldsAreWellFormed'
    BY <1>0, <2>1, ShapesKept
  <2>3. InDelimiters' /\ InBare' /\ GivenUp'
    BY <1>4, OpenFieldForm, LiteralCharForm, RegexCharForm, BareCharForm
  <2> QED
    BY <1>0, <2>2, <2>3 DEF FormInvariant
<1>5. CASE EndLiteral \/ EndRegex \/ EndBare
  <2>1. mode' = "plain" /\ ~escaped' /\ pc' = "lex"
    BY <1>5 DEF EndLiteral, EndRegex, EndBare, Push, Reading
  <2>2. FieldsAreWellFormed'
    BY <1>5, EndRegexForm, EndOthersForm
  <2> QED
    BY <1>0, <2>1, <2>2 DEF FormInvariant, InDelimiters, InBare, GivenUp
<1>6. CASE RefuseLiteral \/ RefuseRegex \/ SliceOutOfRange \/ EndLine
  BY <1>0, <1>6, GiveForm DEF FormInvariant
<1>7. CASE UNCHANGED vars
  <2>1. UNCHANGED <<line, pc, mode, escaped, pos, limit, start, fields>>
    BY <1>7 DEF vars
  <2>2. FieldsAreWellFormed'
    BY <1>0, <2>1, ShapesKept
  <2>3. /\ More' = More /\ Closing' = Closing /\ Stop' = Stop /\ Ends' = Ends
        /\ IsGoString' = IsGoString
    BY <2>1 DEF More, Closing, Stop, Ends, IsGoString, Text
  <2>4. InDelimiters' = InDelimiters /\ InBare' = InBare /\ GivenUp' = GivenUp
    BY <2>1, <2>3 DEF InDelimiters, InBare, GivenUp
  <2> QED
    BY <1>0, <2>1, <2>2, <2>4 DEF FormInvariant
<1> QED
  BY <1>1, <1>2, <1>3, <1>4, <1>5, <1>6, <1>7 DEF Next, Step

\* The second pass knows what it has read, on lines of every length.
THEOREM LexerForms == Spec => []FormInvariant
<1>1. Init => FormInvariant
  <2>1. Init => fields = <<>> /\ pc = "strip"
    BY DEF Init
  <2> QED
    BY <2>1, LexInitially DEF FormInvariant, FieldsAreWellFormed
<1> QED
  BY <1>1, FormStep, PTL DEF Spec

\* Every field of a line of any length has the shape of its form: strings that
\* strconv.Unquote accepts, closed regular expressions but for the one exception,
\* bare fields up to a blank.
THEOREM ShapesHold == Spec => []FieldsAreWellFormed
<1>1. FormInvariant => FieldsAreWellFormed
  BY DEF FormInvariant
<1> QED
  BY <1>1, LexerForms, PTL

\* No line is refused that could be read, and a panic has its one cause.
THEOREM RefusalsAreEarned == Spec => []RefusalIsEarned
<1>1. FormInvariant => RefusalIsEarned
  <2> SUFFICES ASSUME FormInvariant, pc \in {"refused", "panicked"} PROVE RefusalIsEarned
    BY DEF RefusalIsEarned
  <2> DEFINE L == Literally(line, start)
  <2>1. LexInvariant /\ InDelimiters /\ GivenUp
    BY DEF FormInvariant
  <2>2. /\ line \in Seq(Chars) /\ Len(line) \in Nat /\ limit \in Nat /\ limit <= Len(line)
        /\ pos \in Nat /\ start \in Nat
        /\ mode # "plain" => start \in 1 .. limit /\ start \in 1 .. Len(line)
        /\ mode \in {"literal", "regex"} => start < pos
        /\ mode # "literal" => pos <= limit + 1
    BY <2>1, SecondPass
  <2>3. ASSUME mode \in {"literal", "regex"}, NEW e \in start .. limit,
               Delimited(SubSeq(line, start, e), Delimiter[mode])
        PROVE  e >= pos /\ e \notin L
    <3>1. start \in 1 .. Len(line) /\ e \in start .. Len(line)
      BY <2>2, <2>3
    <3>2. start < e /\ line[e] = Delimiter[mode] /\ e \notin L
      BY <2>2, <2>3, <3>1, DelimitedBy
    <3>3. e \in start + 1 .. limit
      BY <2>2, <3>2
    <3>4. ~(e < pos)
      BY <2>1, <2>3, <3>2, <3>3 DEF InDelimiters
    <3> QED
      BY <2>2, <3>2, <3>4
  <2>4. ASSUME pc = "refused", mode = "literal", NEW e \in start .. limit,
               Unquotes(SubSeq(line, start, e))
        PROVE  FALSE
    <3>1. Delimited(SubSeq(line, start, e), "quote") /\ Delimiter[mode] = "quote"
      BY <2>4 DEF Unquotes, Delimiter
    <3>2. e >= pos
      BY <2>3, <2>4, <3>1
    <3>3. (Closing \/ ~More) /\ ~IsGoString
      BY <2>1, <2>4 DEF GivenUp
    <3>4. Closing /\ Stop = pos + 1 /\ line[pos] = "quote" /\ Ends /\ More
      <4>1. ~(pos > limit)
        BY <2>2, <3>2
      <4> QED
        BY <2>1, <2>4, <3>1, <3>3, <4>1, StopsAt
    <3>5. pos \notin L
      BY <2>1, <2>4 DEF InDelimiters
    <3>6. e = pos
      <4>1. \A k \in start + 1 .. e - 1 : line[k] = "quote" => k \in L
        <5>1. start \in 1 .. Len(line) /\ e \in start .. Len(line)
          BY <2>2, <2>4
        <5> QED
          BY <2>2, <3>1, <5>1, DelimitedBy
      <4>2. start < pos
        BY <2>2, <2>4
      <4> HIDE DEF L
      <4> QED
        BY <2>2, <3>2, <3>4, <3>5, <4>1, <4>2
    <3>7. Text(Span(mode, start, Stop - 1)) = SubSeq(line, start, e)
      BY <2>2, <3>4, <3>6 DEF Text, Span
    <3> QED
      BY <2>4, <3>3, <3>4, <3>7 DEF IsGoString
  <2>5. ASSUME pc = "refused", mode = "regex", NEW e \in start .. limit,
               Delimited(SubSeq(line, start, e), "slash")
        PROVE  FALSE
    <3>1. e >= pos
      BY <2>3, <2>5 DEF Delimiter
    <3>2. pos > limit
      BY <2>1, <2>2, <2>5 DEF GivenUp, More
    <3> QED
      BY <2>2, <3>1, <3>2
  <2>6. pc = "panicked" => start = limit /\ line[start] = "slash"
    <3> SUFFICES ASSUME pc = "panicked" PROVE start = limit /\ line[start] = "slash"
      OBVIOUS
    <3>1. ~More /\ mode = "regex" /\ Ends /\ Stop - 1 = start
      BY <2>1 DEF GivenUp
    <3>2. pos = limit + 1 /\ Stop = pos
      BY <2>2, <3>1 DEF More, Stop
    <3>3. limit = start
      BY <2>2, <3>1, <3>2
    <3> QED
      BY <3>1, <3>3 DEF Ends, Delimiter
  <2> QED
    BY <2>4, <2>5, <2>6 DEF RefusalIsEarned
<1> QED
  BY <1>1, LexerForms, PTL

-----------------------------------------------------------------------------
(* Both passes.                                                            *)

Stepped(s, c) ==
  [mode |-> IF s.escaped THEN s.mode ELSE Toggled(s.mode, c),
   escaped |-> ~s.escaped /\ c = "backslash" /\ s.mode # "plain"]

\* What the first pass believes before each character of l, if no comment stops it.
Scan(l) ==
  LET at[k \in 1 .. Len(l) + 1] ==
        IF k = 1 THEN [mode |-> "plain", escaped |-> FALSE] ELSE Stepped(at[k - 1], l[k - 1])
  IN at

\* What the first pass believes before character k of the line.
Believes(k, m, e) == Scan(line)[k].mode = m /\ (Scan(line)[k].escaped <=> e)

CommentAt(k) == line[k] = "hash" /\ Scan(line)[k].mode = "plain"

\* What the first pass leaves behind: the text has no comment in it, and if
\* anything but blanks was cut, it ends outside of strings and regexes.
Cleared ==
  /\ \A k \in 1 .. limit : ~CommentAt(k)
  /\ Cut => Scan(line)[limit + 1].mode = "plain"

\* No character of X stands in a bare field, so far.
BareFree(X) ==
  /\ \A i \in DOMAIN fields : fields[i].form = "bare" =>
       \A k \in fields[i].from .. fields[i].to : line[k] \notin X
  /\ mode = "bare" => \A k \in start .. limit : k < pos => line[k] \notin X

\* The second pass is inside of what the first one took it to be inside of, unless
\* it has come to the end.
InStep ==
  /\ mode = "plain" => Believes(pos, "plain", FALSE) \/ pos = limit + 1
  /\ mode = "bare" => Believes(pos, "plain", FALSE)
  /\ mode = "literal" =>
       /\ pos <= limit + 1 => Believes(pos, "literal", FALSE)
       /\ pos > limit + 1 => Scan(line)[limit + 1].mode = "literal"
  /\ mode = "regex" => Believes(pos, "regex", escaped)

RegexesClosed ==
  Cut => \A i \in DOMAIN fields :
           fields[i].form = "regex" => Delimited(Text(fields[i]), "slash")

\* The inductive invariant of the two passes together.
PassesInvariant ==
  /\ pc = "strip" =>
       /\ Believes(pos, mode, escaped)
       /\ \A k \in 1 .. pos - 1 : ~CommentAt(k)
  /\ pc # "strip" => Cleared
  /\ pc # "strip" /\ BareFree({"quote", "slash"}) =>
       InStep /\ BareFree({"hash"}) /\ RegexesClosed

\* Scan is what its recursion says.
LEMMA ScanBy ==
  ASSUME NEW l \in Seq(Chars)
  PROVE  /\ Scan(l)[1].mode = "plain" /\ ~Scan(l)[1].escaped
         /\ \A k \in 1 .. Len(l) : Scan(l)[k + 1] = Stepped(Scan(l)[k], l[k])
         /\ \A k \in 1 .. Len(l) + 1 : Scan(l)[k].mode \in {"plain", "literal", "regex"}
<1> DEFINE N == Len(l)
           init == [mode |-> "plain", escaped |-> FALSE]
           S == [mode : {"plain", "literal", "regex"}, escaped : BOOLEAN]
           step == [i \in 1 .. N |-> [s \in S |-> Stepped(s, l[i])]]
           Def(f, k) == IF k = 1 THEN init ELSE Stepped(f[k - 1], l[k - 1])
           Fits(f) == f = [k \in 1 .. N + 1 |-> Def(f, k)]
           F == CHOOSE f : Fits(f)
<1>0. N \in Nat /\ init \in S
  OBVIOUS
<1>1. Scan(l) = F
  BY DEF Scan
<1>2. \A s \in S : \A c : Stepped(s, c) \in S
  <2> SUFFICES ASSUME NEW s \in S, NEW c PROVE Stepped(s, c) \in S
    OBVIOUS
  <2>1. (IF s.escaped THEN s.mode ELSE Toggled(s.mode, c)) \in {"plain", "literal", "regex"}
    BY DEF Toggled, Opened
  <2>2. (~s.escaped /\ c = "backslash" /\ s.mode # "plain") \in BOOLEAN
    BY Zenon
  <2> QED
    BY <2>1, <2>2, Zenon DEF Stepped
<1> HIDE DEF N, S, init
<1>3. /\ step \in [1 .. N -> [S -> S]]
      /\ \A i \in 1 .. N : \A s \in S : step[i][s] = Stepped(s, l[i])
  BY <1>2, Zenon
<1> HIDE DEF step
<1>4. PICK f : /\ f \in [1 .. N + 1 -> S] /\ f[1] = init
               /\ \A i \in 1 .. N : f[i + 1] = step[i][f[i]]
  <2>1. IsStepper(N, S, init, step)
    BY <1>0, <1>3 DEF IsStepper
  <2>2. \E f : IsRun(f, N, S, init, step)
    BY <2>1, Iterates
  <2> QED
    BY <2>2 DEF IsRun
<1>5. ASSUME NEW k \in 1 .. N + 1 PROVE f[k] = Def(f, k)
  <2>1. CASE k = 1
    BY <1>4, <2>1
  <2>2. CASE k # 1
    <3> DEFINE j == k - 1
    <3>1. j \in 1 .. N /\ j \in 1 .. N + 1 /\ j + 1 = k
      BY <1>0, <2>2
    <3> HIDE DEF j
    <3>2. f[k] = Stepped(f[j], l[j])
      BY <1>3, <1>4, <3>1, Zenon
    <3> QED
      BY <2>2, <3>2, Zenon DEF j
  <2> QED
    BY <2>1, <2>2
<1>6. Fits(f)
  <2>1. f = [k \in 1 .. N + 1 |-> f[k]]
    BY <1>4
  <2> HIDE DEF Def
  <2> QED
    BY <1>5, <2>1, Zenon
<1>7. Fits(F)
  BY <1>6
<1> HIDE DEF F
<1>8. \A k \in 1 .. N + 1 : F[k] = Def(F, k)
  BY <1>7, Zenon
<1>9. F[1] = init
  <2>1. 1 \in 1 .. N + 1
    BY <1>0
  <2> QED
    BY <1>8, <2>1, Zenon
<1>10. ASSUME NEW k \in 1 .. N PROVE F[k + 1] = Stepped(F[k], l[k])
  <2>1. k + 1 \in 1 .. N + 1 /\ k + 1 # 1 /\ (k + 1) - 1 = k
    BY <1>0
  <2> QED
    BY <1>8, <2>1
<1> DEFINE Bad == {k \in 1 .. N + 1 : F[k] \notin S}
<1>11. Bad = {}
  <2> SUFFICES ASSUME Bad # {} PROVE FALSE
    OBVIOUS
  <2>1. PICK k \in Bad : k \in 1 .. N + 1
                        /\ (k # 1 => k - 1 \in (1 .. N + 1) \ Bad /\ k \in 2 .. N + 1)
    <3>1. Bad \in SUBSET (1 .. N + 1) /\ N + 1 \in Nat
      BY <1>0
    <3> HIDE DEF Bad
    <3> QED
      BY <3>1, LeastUpTo
  <2>2. k # 1
    BY <1>0, <1>9
  <2>3. k - 1 \in 1 .. N /\ (k - 1) + 1 = k /\ F[k - 1] \in S
    BY <1>0, <2>1, <2>2
  <2> QED
    BY <1>2, <1>10, <2>3
<1>12. \A k \in 1 .. N + 1 : F[k].mode \in {"plain", "literal", "regex"}
  BY <1>11 DEF S
<1> QED
  BY <1>1, <1>9, <1>10, <1>12 DEF N, init

\* The same, field by field, and an escape is only ever believed in inside of
\* something.
LEMMA ScanStep ==
  ASSUME NEW l \in Seq(Chars), NEW k \in 1 .. Len(l)
  PROVE  /\ Scan(l)[k + 1].mode = IF Scan(l)[k].escaped THEN Scan(l)[k].mode
                                  ELSE Toggled(Scan(l)[k].mode, l[k])
         /\ Scan(l)[k + 1].escaped <=>
              ~Scan(l)[k].escaped /\ l[k] = "backslash" /\ Scan(l)[k].mode # "plain"
<1> DEFINE s == Scan(l)[k]
           t == Scan(l)[k + 1]
           c == l[k]
<1>1. t = Stepped(s, c)
  BY ScanBy
<1> HIDE DEF s, t, c
<1>2. t.mode = IF s.escaped THEN s.mode ELSE Toggled(s.mode, c)
  BY <1>1 DEF Stepped
<1>3. t.escaped = (~s.escaped /\ c = "backslash" /\ s.mode # "plain")
  BY <1>1, Zenon DEF Stepped
<1> QED
  BY <1>2, <1>3 DEF s, t, c

LEMMA PlainIsUnescaped ==
  ASSUME NEW l \in Seq(Chars), NEW k \in 1 .. Len(l) + 1, Scan(l)[k].mode = "plain"
  PROVE  ~Scan(l)[k].escaped
<1>1. CASE k = 1
  BY <1>1, ScanBy
<1>2. CASE k # 1
  <2> DEFINE j == k - 1
  <2>1. j \in 1 .. Len(l) /\ j + 1 = k /\ j \in 1 .. Len(l) + 1
    BY <1>2
  <2> HIDE DEF j
  <2>2. /\ Scan(l)[k].mode = IF Scan(l)[j].escaped THEN Scan(l)[j].mode
                              ELSE Toggled(Scan(l)[j].mode, l[j])
        /\ Scan(l)[k].escaped <=>
             ~Scan(l)[j].escaped /\ l[j] = "backslash" /\ Scan(l)[j].mode # "plain"
    BY <2>1, ScanStep
  <2>3. Scan(l)[j].mode \in {"plain", "literal", "regex"}
    BY <2>1, ScanBy
  <2>4. \A m \in {"literal", "regex"} : Toggled(m, "backslash") = m
    BY DEF Toggled, Delimiter
  <2> QED
    BY <2>2, <2>3, <2>4
<1> QED
  BY <1>1, <1>2

\* Blanks change nothing.
LEMMA BlanksKeep ==
  ASSUME NEW l \in Seq(Chars), NEW a \in 1 .. Len(l) + 1, NEW b \in a .. Len(l) + 1,
         \A k \in a .. b - 1 : l[k] = "blank"
  PROVE  Scan(l)[a].mode = Scan(l)[b].mode
<1> DEFINE Bad == {k \in 1 .. Len(l) + 1 : k \in a .. b /\ Scan(l)[k].mode # Scan(l)[a].mode}
<1>1. Bad = {}
  <2> SUFFICES ASSUME Bad # {} PROVE FALSE
    OBVIOUS
  <2>0. Len(l) \in Nat
    OBVIOUS
  <2>1. PICK k \in Bad : k \in 1 .. Len(l) + 1
               /\ (k # 1 => k - 1 \in (1 .. Len(l) + 1) \ Bad /\ k \in 2 .. Len(l) + 1)
    <3>1. Bad \in SUBSET (1 .. Len(l) + 1) /\ Len(l) + 1 \in Nat
      BY <2>0
    <3> HIDE DEF Bad
    <3> QED
      BY <3>1, LeastUpTo
  <2>2. k \in a .. b /\ k # a /\ Scan(l)[k].mode # Scan(l)[a].mode
    BY <2>1
  <2> DEFINE j == k - 1
  <2>3. j \in 1 .. Len(l) /\ j + 1 = k /\ j \in a .. b /\ j \in a .. b - 1 /\ j \in 1 .. Len(l) + 1
    BY <2>0, <2>1, <2>2
  <2>4. j \notin Bad
    BY <2>1, <2>3
  <2>5. Scan(l)[j].mode = Scan(l)[a].mode
    BY <2>3, <2>4
  <2> HIDE DEF j, Bad
  <2>6. l[j] = "blank" /\ Scan(l)[j].mode \in {"plain", "literal", "regex"}
    BY <2>3, ScanBy
  <2>7. \A m \in {"plain", "literal", "regex"} : Toggled(m, "blank") = m
    BY DEF Toggled, Delimiter, Opened
  <2>8. Scan(l)[k].mode = Scan(l)[j].mode
    BY <2>3, <2>6, <2>7, ScanStep
  <2> QED
    BY <2>2, <2>5, <2>8
<1>2. b \in 1 .. Len(l) + 1 /\ b \in a .. b
  OBVIOUS
<1> QED
  BY <1>1, <1>2

\* One character further, in terms of what is believed.
LEMMA BelievesNext ==
  ASSUME line \in Seq(Chars), NEW k \in 1 .. Len(line), NEW m, NEW e \in BOOLEAN,
         Believes(k, m, e)
  PROVE  Believes(k + 1, IF e THEN m ELSE Toggled(m, line[k]),
                  ~e /\ line[k] = "backslash" /\ m # "plain")
<1>1. Scan(line)[k].mode = m /\ (Scan(line)[k].escaped <=> e)
  BY DEF Believes
<1>2. /\ Scan(line)[k + 1].mode = IF Scan(line)[k].escaped THEN Scan(line)[k].mode
                                  ELSE Toggled(Scan(line)[k].mode, line[k])
      /\ Scan(line)[k + 1].escaped <=>
           ~Scan(line)[k].escaped /\ line[k] = "backslash" /\ Scan(line)[k].mode # "plain"
  BY ScanStep
<1>3. Scan(line)[k + 1].mode = IF e THEN m ELSE Toggled(m, line[k])
  BY <1>1, <1>2
<1>4. Scan(line)[k + 1].escaped <=> ~e /\ line[k] = "backslash" /\ m # "plain"
  BY <1>1, <1>2, Zenon
<1> QED
  BY <1>3, <1>4, Zenon DEF Believes

\* The same where nothing is escaped, and behind an escape.
LEMMA BelievesOn ==
  ASSUME line \in Seq(Chars), NEW k \in 1 .. Len(line), NEW m, Believes(k, m, FALSE)
  PROVE  Believes(k + 1, Toggled(m, line[k]), line[k] = "backslash" /\ m # "plain")
<1>1. FALSE \in BOOLEAN
  OBVIOUS
<1>2. Believes(k + 1, IF FALSE THEN m ELSE Toggled(m, line[k]),
               ~FALSE /\ line[k] = "backslash" /\ m # "plain")
  BY <1>1, BelievesNext
<1> QED
  BY <1>2 DEF Believes

LEMMA BelievesBehind ==
  ASSUME line \in Seq(Chars), NEW k \in 1 .. Len(line), NEW m, Believes(k, m, TRUE)
  PROVE  Believes(k + 1, m, FALSE)
<1>1. TRUE \in BOOLEAN
  OBVIOUS
<1>2. Believes(k + 1, IF TRUE THEN m ELSE Toggled(m, line[k]),
               ~TRUE /\ line[k] = "backslash" /\ m # "plain")
  BY <1>1, BelievesNext
<1> QED
  BY <1>2 DEF Believes

\* The first pass does as Scan says, up to the comment, and leaves a cleared text.
LEMMA StripPasses ==
  ASSUME LexInvariant, PassesInvariant, StripChar \/ Strip
  PROVE  PassesInvariant'
<1>1. /\ pc = "strip" /\ line \in Seq(Chars) /\ Len(line) \in Nat /\ pos \in 1 .. Len(line) + 1
      /\ escaped \in BOOLEAN /\ Believes(pos, mode, escaped) /\ fields = <<>> /\ line' = line
      /\ \A k \in 1 .. pos - 1 : ~CommentAt(k)
  BY Shapes, LinesAssumption DEF StripChar, Strip, LexInvariant, TypeOK, PassesInvariant
<1>2. CASE StripChar
  <2>1. /\ pc' = "strip" /\ pos \in 1 .. Len(line) /\ ~AtComment /\ pos' = pos + 1
        /\ mode' = IF escaped THEN mode ELSE Toggled(mode, line[pos])
        /\ (escaped' <=> ~escaped /\ line[pos] = "backslash" /\ mode # "plain")
    <3>1. /\ pc' = "strip" /\ pos <= Len(line) /\ ~AtComment /\ pos' = pos + 1
          /\ mode' = IF escaped THEN mode ELSE Toggled(mode, line[pos])
      BY <1>1, <1>2 DEF StripChar
    <3>2. escaped' <=> ~escaped /\ line[pos] = "backslash" /\ mode # "plain"
      BY <1>2, Zenon DEF StripChar
    <3> QED
      BY <1>1, <3>1, <3>2
  <2>2. Believes(pos + 1, IF escaped THEN mode ELSE Toggled(mode, line[pos]),
                 ~escaped /\ line[pos] = "backslash" /\ mode # "plain")
    BY <1>1, <2>1, BelievesNext
  <2>3. Believes(pos + 1, mode', escaped')
    BY <2>1, <2>2, Zenon DEF Believes
  <2>4. Believes(pos, mode, escaped)'
    BY <1>1, <2>1, <2>3 DEF Believes
  <2>5. ~CommentAt(pos)
    <3>1. Scan(line)[pos].mode = "plain" => mode = "plain" /\ ~escaped
      BY <1>1, PlainIsUnescaped DEF Believes
    <3> QED
      BY <2>1, <3>1 DEF CommentAt, AtComment
  <2>6. \A k \in 1 .. pos' - 1 : ~CommentAt(k)
    <3>1. \A k \in 1 .. pos' - 1 : k \in 1 .. pos - 1 \/ k = pos
      BY <1>1, <2>1
    <3> QED
      BY <1>1, <2>5, <3>1
  <2>7. \A k \in 1 .. pos' - 1 : ~CommentAt(k)'
    BY <1>1, <2>6 DEF CommentAt
  <2> QED
    BY <2>1, <2>4, <2>7 DEF PassesInvariant
<1>3. CASE Strip
  <2>1. PICK first \in 1 .. pos, last \in 0 .. pos - 1 :
          Trimmed(pos, first, last) /\ pos' = first /\ limit' = last
    BY <1>3 DEF Strip
  <2>2. pc' = "lex" /\ mode' = "plain" /\ fields' = fields /\ (pos > Len(line) \/ AtComment)
    BY <1>3 DEF Strip
  <2>3. /\ \A k \in 1 .. first - 1 : line[k] = "blank"
        /\ \A k \in last + 1 .. pos - 1 : line[k] = "blank"
    BY <2>1 DEF Trimmed
  <2>4. Scan(line)[first].mode = "plain"
    <3>1. 1 \in 1 .. Len(line) + 1 /\ first \in 1 .. Len(line) + 1
      BY <1>1, <2>1
    <3>2. Scan(line)[1].mode = Scan(line)[first].mode
      BY <1>1, <2>3, <3>1, BlanksKeep
    <3> QED
      BY <1>1, <3>2, ScanBy
  <2>5. ASSUME \E k \in last + 1 .. Len(line) : line[k] # "blank"
        PROVE  Scan(line)[last + 1].mode = "plain"
    <3>1. AtComment
      BY <1>1, <2>1, <2>2, <2>3, <2>5
    <3>2. Scan(line)[pos].mode = "plain"
      BY <1>1, <3>1 DEF AtComment, Believes
    <3>3. last + 1 \in 1 .. Len(line) + 1 /\ pos \in last + 1 .. Len(line) + 1
      BY <1>1, <2>1
    <3>4. Scan(line)[last + 1].mode = Scan(line)[pos].mode
      BY <1>1, <2>3, <3>3, BlanksKeep
    <3> QED
      BY <3>2, <3>4
  <2>6. Cleared'
    <3>1. \A k \in 1 .. last : ~CommentAt(k)
      BY <1>1, <2>1
    <3> QED
      BY <1>1, <2>1, <2>5, <3>1 DEF Cleared, Cut, CommentAt
  <2>7. InStep'
    <3>1. first \in 1 .. Len(line) + 1
      BY <1>1, <2>1
    <3>2. ~Scan(line)[first].escaped
      BY <1>1, <2>4, <3>1, PlainIsUnescaped
    <3> QED
      BY <1>1, <2>1, <2>2, <2>4, <3>2 DEF InStep, Believes
  <2>8. BareFree({"hash"})' /\ RegexesClosed'
    BY <1>1, <2>2 DEF BareFree, RegexesClosed
  <2> QED
    BY <2>2, <2>6, <2>7, <2>8 DEF PassesInvariant
<1> QED
  BY <1>2, <1>3

\* Bare fields, and a bare field that is being read, are the bare spans.
LEMMA BareSpansFree ==
  ASSUME LexInvariant, pc # "strip", NEW X
  PROVE  BareFree(X) <=> \A s \in BareSpans : Inside(s) \intersect X = {}
<1>1. /\ pos \in Nat /\ start \in Nat /\ limit \in Nat
      /\ mode # "plain" => start <= pos
      /\ mode = "bare" => pos <= limit + 1
  BY SecondPass
<1>2. \A s : Inside(s) \intersect X = {} <=> \A k \in s.from .. s.to : line[k] \notin X
  BY DEF Inside
<1> DEFINE f == Span("bare", start, pos - 1)
<1>3. f.from = start /\ f.to = pos - 1
  BY DEF Span
<1> HIDE DEF f
<1>4. mode = "bare" =>
        ((\A k \in start .. limit : k < pos => line[k] \notin X)
           <=> (pos > start => \A k \in f.from .. f.to : line[k] \notin X))
  <2> SUFFICES ASSUME mode = "bare"
               PROVE  (\A k \in start .. limit : k < pos => line[k] \notin X)
                        <=> (pos > start => \A k \in f.from .. f.to : line[k] \notin X)
    OBVIOUS
  <2>1. /\ \A k \in start .. limit : k < pos => k \in start .. pos - 1
        /\ \A k \in start .. pos - 1 : k \in start .. limit /\ k < pos
    BY <1>1
  <2>2. ~(pos > start) => \A k \in start .. pos - 1 : FALSE
    BY <1>1
  <2> QED
    BY <1>3, <2>1, <2>2
<1>5. (\A s \in BareSpans : Inside(s) \intersect X = {}) <=>
        /\ \A i \in DOMAIN fields : fields[i].form = "bare" => Inside(fields[i]) \intersect X = {}
        /\ mode = "bare" /\ pos > start => Inside(f) \intersect X = {}
  BY DEF BareSpans, f
<1> QED
  BY <1>2, <1>4, <1>5 DEF BareFree

\* Closing a bare field changes nothing about its characters.
LEMMA PushBare ==
  ASSUME LexInvariant, pc = "lex", mode # "plain", NEW next, Push(next),
         mode = "bare" => next = pos, NEW X
  PROVE  BareFree(X)' <=> BareFree(X)
<1> DEFINE f == Span(mode, start, next - 1)
           Free(g) == g.form = "bare" => \A k \in g.from .. g.to : line[k] \notin X
<1>1. line' = line /\ limit' = limit /\ fields' = Append(fields, f) /\ mode' = "plain"
  BY DEF Push
<1>2. PICK S : fields \in Seq(S)
  BY Shapes DEF LexInvariant
<1>3. f.form = mode /\ f.from = start /\ f.to = next - 1
  BY DEF Span
<1> HIDE DEF f
<1>4. fields \in Seq(S \union {f}) /\ f \in S \union {f}
  BY <1>2
<1>5. /\ \A i \in DOMAIN fields' : (i \in DOMAIN fields /\ fields'[i] = fields[i]) \/ fields'[i] = f
      /\ \A i \in DOMAIN fields : i \in DOMAIN fields' /\ fields'[i] = fields[i]
      /\ \E i \in DOMAIN fields' : fields'[i] = f
  BY <1>1, <1>4
<1>6. (\A i \in DOMAIN fields' : Free(fields'[i])) <=> (\A i \in DOMAIN fields : Free(fields[i])) /\ Free(f)
  <2> HIDE DEF Free
  <2> QED
    BY <1>5
<1>7. Free(f) <=> (mode = "bare" => \A k \in start .. limit : k < pos => line[k] \notin X)
  <2>1. CASE mode = "bare"
    <3>1. pos \in Nat /\ start \in Nat /\ limit \in Nat /\ pos <= limit + 1
      BY <2>1, SecondPass
    <3>2. \A k : k \in start .. limit /\ k < pos <=> k \in f.from .. f.to
      BY <1>3, <2>1, <3>1
    <3> QED
      BY <1>3, <2>1, <3>2
  <2>2. CASE mode # "bare"
    BY <1>3, <2>2
  <2> QED
    BY <2>1, <2>2
<1>8. BareFree(X)' <=> \A i \in DOMAIN fields' : Free(fields'[i])
  BY <1>1 DEF BareFree
<1>9. BareFree(X) <=>
        /\ \A i \in DOMAIN fields : Free(fields[i])
        /\ mode = "bare" => \A k \in start .. limit : k < pos => line[k] \notin X
  BY DEF BareFree
<1> QED
  BY <1>6, <1>7, <1>8, <1>9

\* A field that is no regex, or a delimited one, leaves the regexes closed.
LEMMA PushRegexes ==
  ASSUME LexInvariant, RegexesClosed, pc = "lex", NEW next, Push(next),
         mode = "regex" /\ Cut => Delimited(SubSeq(line, start, next - 1), "slash")
  PROVE  RegexesClosed'
<1> DEFINE f == Span(mode, start, next - 1)
<1>1. line' = line /\ limit' = limit /\ fields' = Append(fields, f)
  BY DEF Push
<1>2. PICK S : fields \in Seq(S)
  BY Shapes DEF LexInvariant
<1>3. f.form = mode /\ Text(f) = SubSeq(line, start, next - 1)
  BY DEF Span, Text
<1> HIDE DEF f
<1>4. fields \in Seq(S \union {f}) /\ f \in S \union {f}
  BY <1>2
<1>5. \A i \in DOMAIN fields' : (i \in DOMAIN fields /\ fields'[i] = fields[i]) \/ fields'[i] = f
  BY <1>1, <1>4
<1>6. Cut' = Cut /\ \A g : Text(g)' = Text(g)
  BY <1>1 DEF Cut, Text
<1>7. Cut => \A i \in DOMAIN fields' : fields'[i].form = "regex" => Delimited(Text(fields'[i]), "slash")
  BY <1>3, <1>5 DEF RegexesClosed
<1> QED
  BY <1>1, <1>6, <1>7 DEF RegexesClosed, Text

Tamed == BareFree({"quote", "slash"})

\* What PassesInvariant says of the second pass on a tame line.
LEMMA TamedPass ==
  ASSUME FormInvariant, PassesInvariant, pc = "lex", Tamed
  PROVE  /\ LexInvariant /\ Cleared /\ InStep /\ BareFree({"hash"}) /\ RegexesClosed
         /\ line \in Seq(Chars) /\ Len(line) \in Nat /\ limit \in Nat /\ limit <= Len(line)
         /\ pos \in Nat /\ 1 <= pos
         /\ mode # "literal" => pos <= limit + 1
BY SecondPass DEF FormInvariant, PassesInvariant, Tamed

\* What has to be shown of a step of the second pass.
LEMMA SecondPassKeeps ==
  ASSUME PassesInvariant, pc # "strip", pc' # "strip", UNCHANGED <<line, limit>>,
         Tamed' => InStep' /\ BareFree({"hash"})' /\ RegexesClosed'
  PROVE  PassesInvariant'
<1>1. Cleared'
  BY DEF PassesInvariant, Cleared, Cut, CommentAt
<1> QED
  BY <1>1 DEF PassesInvariant, Tamed

\* Steps that find no field.
LEMMA FieldsUntouched ==
  ASSUME UNCHANGED <<line, limit, fields>>
  PROVE  /\ RegexesClosed' = RegexesClosed
         /\ \A X : mode # "bare" /\ mode' # "bare" => BareFree(X)' = BareFree(X)
BY DEF RegexesClosed, Cut, Text, BareFree

\* Blanks between fields.
LEMMA SkipBlankPasses ==
  ASSUME FormInvariant, PassesInvariant, SkipBlank
  PROVE  PassesInvariant'
<1>1. /\ pc = "lex" /\ mode = "plain" /\ pos <= limit /\ line[pos] = "blank" /\ pos' = pos + 1
      /\ UNCHANGED <<line, pc, mode, escaped, limit, start, fields>>
  BY DEF SkipBlank, Reading, More
<1> SUFFICES ASSUME Tamed' PROVE InStep' /\ BareFree({"hash"})' /\ RegexesClosed'
  BY <1>1, SecondPassKeeps
<1>2. Tamed
  BY <1>1, FieldsUntouched DEF Tamed
<1>3. BareFree({"hash"})' /\ RegexesClosed'
  BY <1>1, <1>2, TamedPass, FieldsUntouched
<1>4. pos \in 1 .. Len(line) /\ line \in Seq(Chars) /\ Believes(pos, "plain", FALSE)
  <2>1. InStep /\ pos \in 1 .. Len(line) /\ line \in Seq(Chars) /\ pos # limit + 1
    BY <1>1, <1>2, TamedPass
  <2> QED
    BY <1>1, <2>1, Zenon DEF InStep
<1>5. Believes(pos + 1, "plain", FALSE)
  <2>1. Toggled("plain", "blank") = "plain"
    BY DEF Toggled, Opened
  <2> QED
    BY <1>1, <1>4, <2>1, BelievesOn DEF Believes
<1> QED
  BY <1>1, <1>3, <1>5 DEF InStep, Believes

\* A field begins where the first pass was outside as well.
LEMMA OpenFieldPasses ==
  ASSUME FormInvariant, PassesInvariant, OpenField
  PROVE  PassesInvariant'
<1>1. /\ pc = "lex" /\ mode = "plain" /\ pos <= limit /\ start' = pos
      /\ mode' \in {"literal", "regex", "bare"}
      /\ mode' = "literal" => pos' = pos + 1 /\ line[pos] = "quote"
      /\ mode' = "regex" => pos' = pos + 1 /\ line[pos] = "slash"
      /\ mode' = "bare" => pos' = pos
      /\ UNCHANGED <<line, pc, escaped, limit, fields>>
  BY DEF OpenField, Reading, More, Opened
<1> SUFFICES ASSUME Tamed' PROVE InStep' /\ BareFree({"hash"})' /\ RegexesClosed'
  BY <1>1, SecondPassKeeps
<1>2. Tamed
  BY <1>1 DEF Tamed, BareFree
<1>3. /\ InStep /\ BareFree({"hash"}) /\ RegexesClosed
      /\ pos \in 1 .. Len(line) /\ line \in Seq(Chars) /\ limit \in Nat
  BY <1>1, <1>2, TamedPass
<1>4. Believes(pos, "plain", FALSE) /\ ~escaped
  <2>1. pos # limit + 1
    BY <1>1, <1>3
  <2>2. ~escaped
    BY <1>1 DEF FormInvariant, GivenUp
  <2> QED
    BY <1>1, <1>3, <2>1, <2>2, Zenon DEF InStep
<1>5. BareFree({"hash"})'
  <2>1. \A k \in pos .. limit : ~(k < pos)
    BY <1>3
  <2> QED
    BY <1>1, <1>3, <2>1 DEF BareFree
<1>6. RegexesClosed'
  BY <1>1, <1>3, FieldsUntouched
<1>7. Believes(pos + 1, Toggled("plain", line[pos]), FALSE)
  BY <1>3, <1>4, BelievesOn DEF Believes
<1>8. Toggled("plain", "quote") = "literal" /\ Toggled("plain", "slash") = "regex"
  BY DEF Toggled, Opened
<1>9. InStep'
  <2>1. CASE mode' = "literal"
    <3>1. ~(pos + 1 > limit + 1)
      BY <1>1, <1>3
    <3> QED
      BY <1>1, <1>7, <1>8, <2>1, <3>1 DEF InStep, Believes
  <2>2. CASE mode' = "regex"
    BY <1>1, <1>4, <1>7, <1>8, <2>2 DEF InStep, Believes
  <2>3. CASE mode' = "bare"
    BY <1>1, <1>4, <2>3 DEF InStep, Believes
  <2> QED
    BY <1>1, <2>1, <2>2, <2>3
<1> QED
  BY <1>5, <1>6, <1>9

\* Inside of a string the two passes treat a backslash alike.
LEMMA LiteralCharPasses ==
  ASSUME FormInvariant, PassesInvariant, LiteralChar
  PROVE  PassesInvariant'
<1>1. /\ pc = "lex" /\ mode = "literal" /\ pos <= limit /\ ~(~escaped /\ line[pos] = "quote")
      /\ pos' = IF line[pos] = "backslash" THEN pos + 2 ELSE pos + 1
      /\ UNCHANGED <<line, pc, mode, escaped, limit, start, fields>>
  BY DEF LiteralChar, Reading, More, Closing, Delimiter
<1> SUFFICES ASSUME Tamed' PROVE InStep' /\ BareFree({"hash"})' /\ RegexesClosed'
  BY <1>1, SecondPassKeeps
<1>2. Tamed
  BY <1>1, FieldsUntouched DEF Tamed
<1>3. BareFree({"hash"})' /\ RegexesClosed'
  BY <1>1, <1>2, TamedPass, FieldsUntouched
<1>4. /\ pos \in 1 .. Len(line) /\ line \in Seq(Chars) /\ Len(line) \in Nat
      /\ limit \in Nat /\ limit <= Len(line) /\ InStep
  BY <1>1, <1>2, TamedPass
<1>5. Believes(pos, "literal", FALSE) /\ line[pos] # "quote"
  <2>1. pos <= limit + 1
    BY <1>1, <1>4
  <2>2. ~escaped
    BY <1>1 DEF FormInvariant, GivenUp
  <2> QED
    BY <1>1, <1>4, <2>1, <2>2, Zenon DEF InStep
<1>6. \A c : c # "quote" => Toggled("literal", c) = "literal"
  BY DEF Toggled, Delimiter
<1>7. Believes(pos + 1, "literal", line[pos] = "backslash")
  BY <1>4, <1>5, <1>6, BelievesOn DEF Believes
<1>8. CASE line[pos] # "backslash"
  <2>1. Believes(pos + 1, "literal", FALSE) /\ pos' = pos + 1 /\ ~(pos + 1 > limit + 1)
    BY <1>1, <1>4, <1>7, <1>8 DEF Believes
  <2> QED
    BY <1>1, <1>3, <2>1 DEF InStep, Believes
<1>9. CASE line[pos] = "backslash"
  <2>1. Believes(pos + 1, "literal", TRUE) /\ pos' = pos + 2
    BY <1>1, <1>7, <1>9 DEF Believes
  <2>2. CASE pos = limit
    <3>1. ~(pos + 2 <= limit + 1) /\ limit + 1 = pos + 1
      BY <1>4, <2>2
    <3> QED
      BY <1>1, <1>3, <2>1, <3>1 DEF InStep, Believes
  <2>3. CASE pos # limit
    <3>1. pos + 1 \in 1 .. Len(line) /\ (pos + 1) + 1 = pos + 2 /\ ~(pos + 2 > limit + 1)
      BY <1>1, <1>4, <2>3
    <3>2. Believes(pos + 2, "literal", FALSE)
      BY <1>4, <2>1, <3>1, BelievesBehind
    <3> QED
      BY <1>1, <1>3, <2>1, <3>1, <3>2 DEF InStep, Believes
  <2> QED
    BY <2>2, <2>3
<1> QED
  BY <1>8, <1>9

\* Inside of a regex they treat it alike as well.
LEMMA RegexCharPasses ==
  ASSUME FormInvariant, PassesInvariant, RegexChar
  PROVE  PassesInvariant'
<1>1. /\ pc = "lex" /\ mode = "regex" /\ pos <= limit /\ ~(~escaped /\ line[pos] = "slash")
      /\ pos' = pos + 1 /\ (escaped' <=> ~escaped /\ line[pos] = "backslash")
      /\ UNCHANGED <<line, pc, mode, limit, start, fields>>
  BY Zenon DEF RegexChar, Reading, More, Closing, Delimiter
<1> SUFFICES ASSUME Tamed' PROVE InStep' /\ BareFree({"hash"})' /\ RegexesClosed'
  BY <1>1, SecondPassKeeps
<1>2. Tamed
  BY <1>1, FieldsUntouched DEF Tamed
<1>3. BareFree({"hash"})' /\ RegexesClosed'
  BY <1>1, <1>2, TamedPass, FieldsUntouched
<1>4. /\ pos \in 1 .. Len(line) /\ line \in Seq(Chars) /\ escaped \in BOOLEAN
      /\ Believes(pos, "regex", escaped)
  BY <1>1, <1>2, TamedPass, SecondPass DEF InStep
<1>5. Believes(pos + 1, IF escaped THEN "regex" ELSE Toggled("regex", line[pos]),
               ~escaped /\ line[pos] = "backslash" /\ "regex" # "plain")
  BY <1>4, BelievesNext
<1>6. (IF escaped THEN "regex" ELSE Toggled("regex", line[pos])) = "regex"
  BY <1>1 DEF Toggled, Delimiter
<1>7. Believes(pos + 1, "regex", escaped')
  <2>1. escaped' <=> ~escaped /\ line[pos] = "backslash" /\ "regex" # "plain"
    BY <1>1
  <2> QED
    BY <1>5, <1>6, <2>1, Zenon DEF Believes
<1> QED
  BY <1>1, <1>3, <1>7 DEF InStep, Believes

\* In a tame bare field the first pass stays outside, and finds no comment there.
LEMMA BareCharPasses ==
  ASSUME FormInvariant, PassesInvariant, BareChar
  PROVE  PassesInvariant'
<1>1. /\ pc = "lex" /\ mode = "bare" /\ pos <= limit /\ pos' = pos + 1
      /\ UNCHANGED <<line, pc, mode, escaped, limit, start, fields>>
  BY DEF BareChar, Reading, More
<1> SUFFICES ASSUME Tamed' PROVE InStep' /\ BareFree({"hash"})' /\ RegexesClosed'
  BY <1>1, SecondPassKeeps
<1>0. pos \in Nat /\ limit \in Nat /\ start \in Nat /\ start <= pos
  BY <1>1, SecondPass DEF FormInvariant
<1>2. Tamed /\ line[pos] \notin {"quote", "slash"}
  <2>1. \A k \in start .. limit : k < pos => k < pos'
    BY <1>0, <1>1
  <2>2. pos \in start .. limit /\ pos < pos'
    BY <1>0, <1>1
  <2> QED
    BY <1>1, <2>1, <2>2 DEF Tamed, BareFree
<1>3. /\ Cleared /\ InStep /\ BareFree({"hash"}) /\ RegexesClosed
      /\ pos \in 1 .. Len(line) /\ line \in Seq(Chars)
  BY <1>1, <1>2, TamedPass
<1>4. RegexesClosed'
  BY <1>1, <1>3, FieldsUntouched
<1>5. Believes(pos, "plain", FALSE)
  BY <1>1, <1>3 DEF InStep
<1>6. line[pos] # "hash"
  <2>1. pos \in 1 .. limit
    BY <1>0, <1>1, <1>3
  <2> QED
    BY <1>3, <1>5, <2>1 DEF Cleared, CommentAt, Believes
<1>7. BareFree({"hash"})'
  <2>1. \A k \in start .. limit : k < pos' => k < pos \/ k = pos
    BY <1>0, <1>1
  <2> QED
    BY <1>1, <1>3, <1>6, <2>1 DEF BareFree
<1>8. Believes(pos + 1, "plain", FALSE)
  <2>1. Toggled("plain", line[pos]) = "plain"
    BY <1>2 DEF Toggled, Opened
  <2> QED
    BY <1>3, <1>5, <2>1, BelievesOn DEF Believes
<1> QED
  BY <1>1, <1>4, <1>7, <1>8 DEF InStep, Believes

\* A string that ends does so at a quote, and the first pass is outside behind it.
LEMMA EndLiteralPasses ==
  ASSUME FormInvariant, PassesInvariant, EndLiteral
  PROVE  PassesInvariant'
<1>1. /\ pc = "lex" /\ mode = "literal" /\ (Closing \/ ~More) /\ Push(Stop)
      /\ Ends /\ Unquotes(SubSeq(line, start, Stop - 1))
  BY DEF EndLiteral, Reading, IsGoString, Text, Span
<1>2. /\ pc' = "lex" /\ mode' = "plain" /\ pos' = Stop /\ UNCHANGED <<line, limit>>
  BY <1>1 DEF Push
<1>3. LexInvariant /\ InDelimiters
  BY <1>1 DEF FormInvariant
<1>4. Closing /\ Stop = pos + 1 /\ line[pos] = "quote" /\ pos <= limit
  <2>1. CASE Closing
    BY <1>1, <1>3, <2>1, StopsAt DEF Closing, More, Delimiter
  <2>2. CASE ~Closing
    <3>1. Stop = pos /\ pos > limit
      BY <1>1, <1>3, <2>2, StopsAt
    <3>2. /\ line \in Seq(Chars) /\ Len(line) \in Nat /\ limit \in Nat /\ limit <= Len(line)
          /\ pos \in Nat /\ start \in 1 .. limit /\ start \in 1 .. Len(line) /\ start < pos
      BY <1>1, <1>3, SecondPass
    <3>3. Stop - 1 = limit
      BY <3>1, <3>2, <1>1 DEF Ends
    <3>4. Delimited(SubSeq(line, start, limit), "quote")
      BY <1>1, <3>3 DEF Unquotes
    <3>5. /\ start < limit /\ line[limit] = "quote" /\ limit \notin Literally(line, start)
      <4>1. limit \in start .. Len(line)
        BY <3>2
      <4> QED
        BY <3>2, <3>4, <4>1, DelimitedBy
    <3>6. limit \in start + 1 .. limit /\ limit < pos
      BY <3>1, <3>2, <3>5
    <3> QED
      BY <1>1, <1>3, <3>5, <3>6 DEF InDelimiters, Delimiter
  <2> QED
    BY <2>1, <2>2
<1> SUFFICES ASSUME Tamed' PROVE InStep' /\ BareFree({"hash"})' /\ RegexesClosed'
  BY <1>1, <1>2, SecondPassKeeps
<1>5. Tamed
  BY <1>1, <1>3, PushBare DEF Tamed
<1>6. /\ InStep /\ BareFree({"hash"}) /\ RegexesClosed
      /\ pos \in 1 .. Len(line) /\ line \in Seq(Chars) /\ pos <= limit + 1
  BY <1>1, <1>4, <1>5, TamedPass
<1>7. BareFree({"hash"})'
  BY <1>1, <1>3, <1>6, PushBare
<1>8. RegexesClosed'
  BY <1>1, <1>3, <1>6, PushRegexes
<1>9. Believes(pos + 1, "plain", FALSE)
  <2>1. Believes(pos, "literal", FALSE)
    BY <1>1, <1>6, Zenon DEF InStep
  <2>2. Toggled("literal", "quote") = "plain"
    BY DEF Toggled, Delimiter
  <2> QED
    BY <1>4, <1>6, <2>1, <2>2, BelievesOn DEF Believes
<1> QED
  BY <1>2, <1>4, <1>7, <1>8, <1>9 DEF InStep, Believes

\* A regex ends at a slash, where the first pass is outside again, or at the end of
\* a text from which no comment was cut.
LEMMA EndRegexPasses ==
  ASSUME FormInvariant, PassesInvariant, EndRegex
  PROVE  PassesInvariant'
<1>1. /\ pc = "lex" /\ mode = "regex" /\ (Closing \/ ~More) /\ Push(Stop)
  BY DEF EndRegex, Reading
<1>2. /\ pc' = "lex" /\ mode' = "plain" /\ pos' = Stop /\ UNCHANGED <<line, limit>>
  BY <1>1 DEF Push
<1>3. LexInvariant
  BY DEF FormInvariant
<1> SUFFICES ASSUME Tamed' PROVE InStep' /\ BareFree({"hash"})' /\ RegexesClosed'
  BY <1>1, <1>2, SecondPassKeeps
<1>4. Tamed
  BY <1>1, <1>3, PushBare DEF Tamed
<1>5. /\ InStep /\ BareFree({"hash"}) /\ RegexesClosed /\ Cleared
      /\ pos \in Nat /\ 1 <= pos /\ line \in Seq(Chars) /\ Len(line) \in Nat
      /\ limit \in Nat /\ limit <= Len(line) /\ pos <= limit + 1
  BY <1>1, <1>4, TamedPass
<1>6. BareFree({"hash"})'
  BY <1>1, <1>3, <1>5, PushBare
<1>7. Believes(pos, "regex", escaped)
  BY <1>1, <1>5, Zenon DEF InStep
<1>8. CASE Closing
  <2>1. /\ Stop = pos + 1 /\ line[pos] = "slash" /\ pos \in 1 .. Len(line) /\ ~escaped
    BY <1>1, <1>3, <1>5, <1>8, StopsAt DEF Closing, More, Delimiter
  <2>2. Believes(pos + 1, "plain", FALSE)
    <3>1. Toggled("regex", "slash") = "plain"
      BY DEF Toggled, Delimiter
    <3>2. Believes(pos, "regex", FALSE)
      BY <1>7, <2>1 DEF Believes
    <3> QED
      BY <1>5, <2>1, <3>1, <3>2, BelievesOn DEF Believes
  <2>3. InStep'
    BY <1>2, <2>1, <2>2 DEF InStep, Believes
  <2>4. Delimited(SubSeq(line, start, Stop - 1), "slash")
    <3>1. Stop - 1 = pos
      BY <1>5, <2>1
    <3> QED
      BY <1>1, <1>8, <3>1, ClosingDelimits DEF Delimiter
  <2>5. RegexesClosed'
    BY <1>1, <1>3, <1>5, <2>4, PushRegexes
  <2> QED
    BY <1>6, <2>3, <2>5
<1>9. CASE ~Closing
  <2>1. Stop = pos /\ pos = limit + 1
    BY <1>1, <1>3, <1>5, <1>9, StopsAt
  <2>2. InStep'
    BY <1>2, <2>1 DEF InStep
  <2>3. ~Cut
    BY <1>5, <1>7, <2>1 DEF Cleared, Believes
  <2>4. RegexesClosed'
    BY <1>1, <1>3, <1>5, <2>3, PushRegexes
  <2> QED
    BY <1>6, <2>2, <2>4
<1> QED
  BY <1>8, <1>9

\* A bare field ends where both passes are outside.
LEMMA EndBarePasses ==
  ASSUME FormInvariant, PassesInvariant, EndBare
  PROVE  PassesInvariant'
<1>1. pc = "lex" /\ mode = "bare" /\ Push(pos)
  BY DEF EndBare, Reading
<1>2. /\ pc' = "lex" /\ mode' = "plain" /\ pos' = pos /\ UNCHANGED <<line, limit>>
  BY <1>1 DEF Push
<1>3. LexInvariant
  BY DEF FormInvariant
<1> SUFFICES ASSUME Tamed' PROVE InStep' /\ BareFree({"hash"})' /\ RegexesClosed'
  BY <1>1, <1>2, SecondPassKeeps
<1>4. Tamed
  BY <1>1, <1>3, PushBare DEF Tamed
<1>5. InStep /\ BareFree({"hash"}) /\ RegexesClosed
  BY <1>1, <1>4, TamedPass
<1>6. BareFree({"hash"})'
  BY <1>1, <1>3, <1>5, PushBare
<1>7. RegexesClosed'
  BY <1>1, <1>3, <1>5, PushRegexes
<1>8. Believes(pos, "plain", FALSE)
  BY <1>1, <1>5, Zenon DEF InStep
<1> QED
  BY <1>2, <1>6, <1>7, <1>8 DEF InStep, Believes

\* Every step keeps the two passes together.
LEMMA PassesStep ==
  FormInvariant /\ PassesInvariant /\ [Next]_vars => PassesInvariant'
<1> SUFFICES ASSUME FormInvariant, PassesInvariant, [Next]_vars PROVE PassesInvariant'
  OBVIOUS
<1>1. CASE StripChar \/ Strip
  BY <1>1, StripPasses DEF FormInvariant
<1>2. CASE SkipBlank \/ OpenField \/ LiteralChar \/ RegexChar \/ BareChar
  BY <1>2, SkipBlankPasses, OpenFieldPasses, LiteralCharPasses, RegexCharPasses, BareCharPasses
<1>3. CASE EndLiteral \/ EndRegex \/ EndBare
  BY <1>3, EndLiteralPasses, EndRegexPasses, EndBarePasses
<1>4. ASSUME UNCHANGED <<line, mode, escaped, pos, limit, start, fields>>,
             pc' = pc \/ (pc # "strip" /\ pc' # "strip")
      PROVE  PassesInvariant'
  <2>1. /\ Believes(pos, mode, escaped)' = Believes(pos, mode, escaped)
        /\ \A k : CommentAt(k)' = CommentAt(k)
        /\ Cleared' = Cleared /\ InStep' = InStep /\ RegexesClosed' = RegexesClosed
        /\ \A X : BareFree(X)' = BareFree(X)
    BY <1>4 DEF Believes, CommentAt, Cleared, InStep, RegexesClosed, Cut, Text, BareFree
  <2>2. pos' = pos /\ ((pc' = "strip") <=> (pc = "strip"))
    BY <1>4
  <2> QED
    BY <2>1, <2>2 DEF PassesInvariant
<1>5. CASE RefuseLiteral \/ RefuseRegex \/ SliceOutOfRange \/ EndLine
  BY <1>4, <1>5 DEF RefuseLiteral, RefuseRegex, SliceOutOfRange, EndLine, Give, Reading
<1>6. CASE UNCHANGED vars
  BY <1>4, <1>6 DEF vars
<1> QED
  BY <1>1, <1>2, <1>3, <1>5, <1>6 DEF Next, Step

\* The two passes over a line of any length, together.
THEOREM PassesAgree == Spec => [](FormInvariant /\ PassesInvariant)
<1>1. Init => PassesInvariant
  <2> SUFFICES ASSUME Init PROVE PassesInvariant
    OBVIOUS
  <2>1. line \in Seq(Chars) /\ pc = "strip" /\ pos = 1 /\ mode = "plain" /\ ~escaped
    BY LinesAssumption DEF Init
  <2>2. Believes(pos, mode, escaped)
    BY <2>1, ScanBy DEF Believes
  <2>3. \A k \in 1 .. pos - 1 : FALSE
    BY <2>1
  <2> QED
    BY <2>1, <2>2, <2>3 DEF PassesInvariant
<1> QED
  BY <1>1, PassesStep, LexerForms, PTL DEF Spec

\* On a tame line of any length, what the first pass takes for a comment is no part
\* of a string or a regex of the second, and what it leaves in a bare field is none.
THEOREM TamePassesAgree == Spec => []CommentsAgree
<1>1. FormInvariant /\ PassesInvariant => CommentsAgree
  <2> SUFFICES ASSUME FormInvariant, PassesInvariant, pc # "strip", Tame
               PROVE  /\ \A s \in BareSpans : "hash" \notin Inside(s)
                      /\ Cut => /\ pc # "panicked"
                                /\ pc = "refused" => Delimited(SubSeq(line, start, Stop - 1), "quote")
                                /\ \A i \in DOMAIN fields : fields[i].form = "regex" =>
                                                              Delimited(Text(fields[i]), "slash")
    BY DEF CommentsAgree
  <2>1. LexInvariant /\ GivenUp /\ Cleared
    BY DEF FormInvariant, PassesInvariant
  <2>2. BareFree({"quote", "slash"})
    BY <2>1, BareSpansFree DEF Tame
  <2>3. InStep /\ BareFree({"hash"}) /\ RegexesClosed
    BY <2>2 DEF PassesInvariant
  <2>4. ASSUME NEW s \in BareSpans PROVE "hash" \notin Inside(s)
    <3>1. Inside(s) \intersect {"hash"} = {}
      BY <2>1, <2>3, BareSpansFree
    <3> QED
      BY <3>1
  <2>5. /\ pos \in Nat /\ limit \in Nat /\ pos <= limit + 2
        /\ mode # "literal" => pos <= limit + 1
    BY <2>1, SecondPass
  <2>6. ASSUME mode = "regex", ~More, Cut PROVE FALSE
    <3>1. pos = limit + 1
      BY <2>5, <2>6 DEF More
    <3>2. Believes(pos, "regex", escaped)
      BY <2>3, <2>6, Zenon DEF InStep
    <3> QED
      BY <2>1, <2>6, <3>1, <3>2 DEF Cleared, Believes
  <2>7. ASSUME mode = "literal", ~More, Cut PROVE FALSE
    <3>1. Scan(line)[limit + 1].mode = "literal"
      <4>1. pos = limit + 1 \/ pos > limit + 1
        BY <2>5, <2>7 DEF More
      <4>2. CASE pos = limit + 1
        <5>1. pos <= limit + 1
          BY <2>5, <4>2
        <5>2. Believes(pos, "literal", FALSE)
          BY <2>3, <2>7, <5>1, Zenon DEF InStep
        <5> QED
          BY <4>2, <5>2 DEF Believes
      <4>3. CASE pos > limit + 1
        BY <2>3, <2>7, <4>3, Zenon DEF InStep
      <4> QED
        BY <4>1, <4>2, <4>3
    <3> QED
      BY <2>1, <2>7, <3>1 DEF Cleared
  <2>8. Cut => pc # "panicked"
    BY <2>1, <2>6 DEF GivenUp
  <2>9. ASSUME Cut, pc = "refused" PROVE Delimited(SubSeq(line, start, Stop - 1), "quote")
    <3>1. mode = "literal"
      BY <2>1, <2>6, <2>9 DEF GivenUp
    <3>2. Closing
      BY <2>1, <2>7, <2>9, <3>1 DEF GivenUp
    <3>3. Stop - 1 = pos
      <4>1. Stop = pos + 1
        BY <2>1, <3>1, <3>2, StopsAt DEF Closing
      <4> QED
        BY <2>5, <4>1
    <3> QED
      BY <3>1, <3>2, <3>3, ClosingDelimits DEF Delimiter
  <2> QED
    BY <2>3, <2>4, <2>8, <2>9 DEF RegexesClosed
<1> QED
  BY <1>1, PassesAgree, PTL
=============================================================================
