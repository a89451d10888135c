----------------------------- MODULE FieldLexer -----------------------------
(***************************************************************************)
(* How a line becomes fields: seedCommentless and seedFields, and their    *)
(* copies in generated/ and in parserTemplate, which run the same          *)
(* automaton.  A first pass looks for the comment, a second one reads the  *)
(* fields of what is left; the two decide separately where a string or a   *)
(* regular expression begins and ends.                                     *)
(*                                                                         *)
(* Positions count from 1 in the line as it was read: the stripped and     *)
(* trimmed text is the part from the first ink to limit.  "letter" stands  *)
(* for a character that is legal after a backslash in a Go string, such as *)
(* n; of white space only the characters that separate fields are kept.    *)
(***************************************************************************)
EXTENDS Naturals, Sequences

CONSTANT Lines   \* the lines that are tried

Chars == {"quote", "slash", "backslash", "hash", "blank", "letter"}

ASSUME LinesAssumption == Lines \subseteq Seq(Chars)

VARIABLES line,     \* the line, fixed from the start
          pc,       \* "strip", "lex", then "lexed", "refused" or "panicked"
          mode,     \* what the pass believes to be inside of
          escaped,  \* the next character is taken literally
          pos,      \* the next character
          limit,    \* the last character of the stripped text
          start,    \* where the open field starts
          fields    \* the fields found so far, by form and span

vars == <<line, pc, mode, escaped, pos, limit, start, fields>>

Init ==
  /\ line \in Lines
  /\ pc = "strip"
  /\ mode = "plain"
  /\ escaped = FALSE
  /\ pos = 1
  /\ limit = 0
  /\ start = 1
  /\ fields = <<>>

-----------------------------------------------------------------------------
(* The first pass: any quote or slash toggles, wherever it stands.         *)

Delimiter == [literal |-> "quote", regex |-> "slash"]

Opened(c) == CASE c = "quote" -> "literal" [] c = "slash" -> "regex" [] OTHER -> "plain"

Toggled(m, c) ==
  IF m = "plain" THEN Opened(c) ELSE IF c = Delimiter[m] THEN "plain" ELSE m

AtComment == pos <= Len(line) /\ line[pos] = "hash" /\ mode = "plain" /\ ~escaped

\* A comment stripper that does not know escapes.
StripCharUnescaped ==
  /\ pc = "strip"
  /\ pos <= Len(line)
  /\ ~AtComment
  /\ mode' = Toggled(mode, line[pos])
  /\ escaped' = FALSE
  /\ pos' = pos + 1
  /\ UNCHANGED <<line, pc, limit, start, fields>>

StripChar ==
  /\ pc = "strip"
  /\ pos <= Len(line)
  /\ ~AtComment
  /\ mode' = IF escaped THEN mode ELSE Toggled(mode, line[pos])
  /\ escaped' = (~escaped /\ line[pos] = "backslash" /\ mode # "plain")
  /\ pos' = pos + 1
  /\ UNCHANGED <<line, pc, limit, start, fields>>

\* strings.TrimSpace of the characters before k: from the first ink to the last.
Trimmed(k, first, last) ==
  /\ \A n \in 1 .. first - 1 : line[n] = "blank"
  /\ \A n \in last + 1 .. k - 1 : line[n] = "blank"
  /\ last # 0 => first <= last /\ line[first] # "blank" /\ line[last] # "blank"
  /\ last = 0 => first = 1

Strip ==
  /\ pc = "strip"
  /\ pos > Len(line) \/ AtComment
  /\ \E first \in 1 .. pos, last \in 0 .. pos - 1 :
       /\ Trimmed(pos, first, last)
       /\ pos' = first
       /\ limit' = last
  /\ pc' = "lex"
  /\ mode' = "plain"
  /\ escaped' = FALSE
  /\ UNCHANGED <<line, start, fields>>

-----------------------------------------------------------------------------
(* The second pass: a quote or slash opens a field where a field starts.   *)

Reading(m) == pc = "lex" /\ mode = m

More == pos <= limit

\* The loop of a literal or regex stands on the character that ends it.
Closing == More /\ ~escaped /\ line[pos] = Delimiter[mode]

\* Where the loop leaves i when it stops here.
Stop == IF More THEN pos + 1 ELSE pos

\* The check after the loop: the last character consumed is a delimiter.
Ends == Stop <= limit + 1 /\ line[Stop - 1] = Delimiter[mode]

Span(form, from, to) == [form |-> form, from |-> from, to |-> to]

Text(s) == SubSeq(line, s.from, s.to)

\* The characters of a text that follow an unescaped backslash; the opening
\* delimiter is never one.
EscapedIn(t) ==
  LET after[k \in 1 .. Len(t)] == k > 2 /\ t[k - 1] = "backslash" /\ ~after[k - 1]
  IN {k \in 1 .. Len(t) : after[k]}

\* The text opens with the delimiter and closes with the next unescaped one.
Delimited(t, delimiter) ==
  /\ Len(t) >= 2
  /\ t[1] = delimiter
  /\ {k \in 2 .. Len(t) : t[k] = delimiter} \ EscapedIn(t) = {Len(t)}

\* strconv.Unquote accepts the text: one Go string with legal escapes.
Unquotes(t) ==
  /\ Delimited(t, "quote")
  /\ \A k \in EscapedIn(t) : t[k] \in {"quote", "backslash", "letter"}

SkipBlank ==
  /\ Reading("plain")
  /\ More
  /\ line[pos] = "blank"
  /\ pos' = pos + 1
  /\ UNCHANGED <<line, pc, mode, escaped, limit, start, fields>>

\* A lexer that opens a bare field behind its first character.
OpenFieldLate ==
  /\ Reading("plain")
  /\ More
  /\ line[pos] # "blank"
  /\ mode' = IF Opened(line[pos]) = "plain" THEN "bare" ELSE Opened(line[pos])
  /\ pos' = pos + 1
  /\ start' = IF Opened(line[pos]) = "plain" THEN pos + 1 ELSE pos
  /\ UNCHANGED <<line, pc, escaped, limit, fields>>

OpenField ==
  /\ Reading("plain")
  /\ More
  /\ line[pos] # "blank"
  /\ mode' = IF Opened(line[pos]) = "plain" THEN "bare" ELSE Opened(line[pos])
  /\ pos' = IF Opened(line[pos]) = "plain" THEN pos ELSE pos + 1
  /\ start' = pos
  /\ UNCHANGED <<line, pc, escaped, limit, fields>>

\* A string loop that does not move past a backslash.
LiteralCharStays ==
  /\ Reading("literal")
  /\ More
  /\ ~Closing
  /\ pos' = IF line[pos] = "backslash" THEN pos ELSE pos + 1
  /\ UNCHANGED <<line, pc, mode, escaped, limit, start, fields>>

\* A string loop that steps onto the escaped character.
LiteralCharByOne ==
  /\ Reading("literal")
  /\ More
  /\ ~Closing
  /\ pos' = pos + 1
  /\ UNCHANGED <<line, pc, mode, escaped, limit, start, fields>>

LiteralChar ==
  /\ Reading("literal")
  /\ More
  /\ ~Closing
  /\ pos' = IF line[pos] = "backslash" THEN pos + 2 ELSE pos + 1
  /\ UNCHANGED <<line, pc, mode, escaped, limit, start, fields>>

\* A regex loop that does not know escapes.
RegexCharUnescaped ==
  /\ Reading("regex")
  /\ More
  /\ ~Closing
  /\ pos' = pos + 1
  /\ UNCHANGED <<line, pc, mode, escaped, limit, start, fields>>

RegexChar ==
  /\ Reading("regex")
  /\ More
  /\ ~Closing
  /\ pos' = pos + 1
  /\ escaped' = (~escaped /\ line[pos] = "backslash")
  /\ UNCHANGED <<line, pc, mode, limit, start, fields>>

BareChar ==
  /\ Reading("bare")
  /\ More
  /\ line[pos] # "blank"
  /\ pos' = pos + 1
  /\ UNCHANGED <<line, pc, mode, escaped, limit, start, fields>>

Push(next) ==
  /\ fields' = Append(fields, Span(mode, start, next - 1))
  /\ pos' = next
  /\ mode' = "plain"
  /\ escaped' = FALSE
  /\ UNCHANGED <<line, pc, limit, start>>

Give(outcome) ==
  /\ pc' = outcome
  /\ UNCHANGED <<line, mode, escaped, pos, limit, start, fields>>

IsGoString == Ends /\ Unquotes(Text(Span(mode, start, Stop - 1)))

EndLiteral ==
  /\ Reading("literal")
  /\ Closing \/ ~More
  /\ IsGoString
  /\ Push(Stop)

RefuseLiteral ==
  /\ Reading("literal")
  /\ Closing \/ ~More
  /\ ~IsGoString
  /\ Give("refused")

EndRegex ==
  /\ Reading("regex")
  /\ Closing \/ ~More
  /\ Ends
  /\ Stop - 1 # start
  /\ Push(Stop)

\* The check is satisfied by the opening slash: the value is line[i:i-1].
SliceOutOfRange ==
  /\ Reading("regex")
  /\ Closing \/ ~More
  /\ Ends
  /\ Stop - 1 = start
  /\ Give("panicked")

RefuseRegex ==
  /\ Reading("regex")
  /\ Closing \/ ~More
  /\ ~Ends
  /\ Give("refused")

EndBare ==
  /\ Reading("bare")
  /\ More => line[pos] = "blank"
  /\ Push(pos)

EndLine ==
  /\ Reading("plain")
  /\ ~More
  /\ Give("lexed")

Step ==
  \/ StripChar \/ Strip
  \/ SkipBlank \/ OpenField
  \/ LiteralChar \/ EndLiteral \/ RefuseLiteral
  \/ RegexChar \/ EndRegex \/ SliceOutOfRange \/ RefuseRegex
  \/ BareChar \/ EndBare
  \/ EndLine

Stopped == pc \in {"lexed", "refused", "panicked"}

Next == Step \/ (Stopped /\ UNCHANGED vars)

\* The lexer is plain sequential code: once called it keeps running.
Spec == Init /\ [][Next]_vars /\ WF_vars(Step)

-----------------------------------------------------------------------------
(* Properties.                                                             *)

TypeOK ==
  /\ line \in Lines
  /\ pc \in {"strip", "lex", "lexed", "refused", "panicked"}
  /\ mode \in {"plain", "literal", "regex", "bare"}
  /\ escaped \in BOOLEAN
  /\ limit \in 0 .. Len(line)
  /\ pos \in 1 .. (IF pc = "strip" THEN Len(line) + 1 ELSE limit + 2)
  /\ start \in Nat
  /\ fields \in Seq([form : {"literal", "regex", "bare"}, from : Nat, to : Nat])

\* Everything before this position has been turned into fields.
Frontier == IF mode = "plain" THEN pos ELSE start

SpansOrdered ==
  /\ \A i \in DOMAIN fields : 1 <= fields[i].from /\ fields[i].from <= fields[i].to
  /\ \A i \in DOMAIN fields : fields[i].to < Frontier /\ fields[i].to <= limit
  /\ \A i, j \in DOMAIN fields : i < j => fields[i].to < fields[j].from

InkIsCovered ==
  \A k \in 1 .. limit :
    k < Frontier /\ line[k] # "blank" =>
      \E i \in DOMAIN fields : k \in fields[i].from .. fields[i].to

\* Inductive invariant of the two passes (seedFields, generatedFields): the
\* fields found so far lie in the stripped text in order and without overlap,
\* and between them they hold every character read so far but blanks.
LexInvariant ==
  /\ TypeOK
  /\ pc = "strip" => fields = <<>> /\ mode # "bare"
  /\ pc # "strip" =>
       /\ SpansOrdered
       /\ InkIsCovered
       /\ mode # "plain" => start \in 1 .. limit /\ start <= pos
       /\ mode \in {"literal", "regex"} => start < pos
       /\ mode # "literal" => pos <= limit + 1
       /\ mode = "bare" /\ pos = start => line[pos] # "blank"
  /\ pc = "lexed" => mode = "plain" /\ pos > limit

\* When the lexer returns fields, every character of the text that is not a
\* blank lies in exactly one of them: the lexer loses and repeats nothing
\* (parser.go:88-151 and its copies).
EveryInkInOneField ==
  pc = "lexed" =>
    \A k \in 1 .. limit : line[k] # "blank" =>
      \E i \in DOMAIN fields :
        /\ k \in fields[i].from .. fields[i].to
        /\ \A j \in DOMAIN fields : k \in fields[j].from .. fields[j].to => j = i

\* The shape of a field of each form.
WellFormed(f) ==
  CASE f.form = "literal" -> Unquotes(Text(f))
    [] f.form = "regex" ->
         \/ Delimited(Text(f), "slash")
         \/ /\ f.to = limit /\ line[f.to] = "slash"
            /\ Delimited(Append(Text(f), "slash"), "slash")
    [] f.form = "bare" ->
         /\ line[f.from] \notin {"quote", "slash"}
         /\ \A k \in f.from .. f.to : line[k] # "blank"
         /\ f.to < limit => line[f.to + 1] = "blank"

\* Every field has the shape of its form: a literal is a Go string, a regex runs
\* to the first unescaped slash or, if there is none, to an escaped one that ends
\* the text, and a bare field to the next blank; wherever two fields touch, the
\* first one is delimited (parser.go:97-149).
FieldsAreWellFormed == \A i \in DOMAIN fields : WellFormed(fields[i])

\* A line is refused only for a field that could end nowhere: no text from its
\* start on is a Go string or a closed regular expression.  A panic has one cause,
\* a lone slash at the end of the text (parser.go:112, :136, :139).
RefusalIsEarned ==
  /\ pc = "refused" /\ mode = "literal" =>
       \A e \in start .. limit : ~Unquotes(SubSeq(line, start, e))
  /\ pc = "refused" /\ mode = "regex" =>
       \A e \in start .. limit : ~Delimited(SubSeq(line, start, e), "slash")
  /\ pc = "panicked" => start = limit /\ line[start] = "slash"

Inside(s) == {line[k] : k \in s.from .. s.to}

BareSpans ==
  {fields[i] : i \in {j \in DOMAIN fields : fields[j].form = "bare"}}
    \union (IF mode = "bare" /\ pos > start THEN {Span("bare", start, pos - 1)} ELSE {})

\* No quote or slash stands inside a bare field, so far.
Tame == \A s \in BareSpans : Inside(s) \intersect {"quote", "slash"} = {}

Cut == \E k \in limit + 1 .. Len(line) : line[k] # "blank"

\* On a tame line the two passes agree on what is a comment: no "#" is read as
\* part of a bare field, and a comment is never cut out of a string or a regex, so
\* a line with a comment fails only for an illegal escape (parser.go:153-180
\* against :88-151).
CommentsAgree ==
  pc # "strip" /\ Tame =>
    /\ \A s \in BareSpans : "hash" \notin Inside(s)
    /\ Cut => /\ pc # "panicked"
              /\ pc = "refused" => Delimited(SubSeq(line, start, Stop - 1), "quote")
              /\ \A i \in DOMAIN fields : fields[i].form = "regex" =>
                                            Delimited(Text(fields[i]), "slash")

\* Every line is lexed, refused or ends in a panic: no character is waited on for
\* ever, whatever the escapes.
Finishes == <>Stopped

\* A regular expression that no slash closes is refused (parser.go:136-137
\* "unterminated regex").  The check takes the opening slash, or an escaped one,
\* for the closing slash.
UnterminatedIsRefused ==
  /\ pc # "panicked"
  /\ \A i \in DOMAIN fields : fields[i].form = "regex" => Delimited(Text(fields[i]), "slash")
=============================================================================
