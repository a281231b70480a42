---------------------------- MODULE LogFormatter ----------------------------
(***************************************************************************)
(* sylar::LogFormatter::init (sylar/log.cpp): reads a pattern, as %m%n or  *)
(* %d{format}, into the list of items that lay out a message.              *)
(*                                                                         *)
(* One step is one turn of the loop over the pattern.  Characters are      *)
(* those the scanner tells apart.  vec holds what was read: literal text   *)
(* (0), a directive (1), one with a format (2).                            *)
(***************************************************************************)
EXTENDS Integers, SequencesExt

CONSTANTS
  Letters,   \* what isalpha accepts
  Known,     \* the names of s_format_items: strings of one letter
  Others,    \* characters that are none of Letters, "%", "{" and "}"
  MaxLen     \* bound: the length of a pattern

Percent == "%"
Brace == "{"
EndBrace == "}"
PatternError == "pattern error"

ASSUME FormatterAssumption ==
  /\ Known \subseteq {<<c>> : c \in Letters}
  /\ (Letters \cup Others) \cap {Percent, Brace, EndBrace} = {}
  /\ Letters \cap Others = {}
  /\ MaxLen \in Nat

Characters == Letters \cup Others \cup {Percent, Brace, EndBrace}

VARIABLES
  pattern,  \* pattern_
  i,        \* the position in it, from 1
  nstr,     \* the literal text that was read last
  vec,      \* vec
  items,    \* items_
  error,    \* if_error
  done

vars == <<pattern, i, nstr, vec, items, error, done>>

Strings == BoundedSeq(Characters, MaxLen)

TypeOK ==
  /\ pattern \in Seq(Characters) /\ Len(pattern) <= MaxLen
  /\ i \in 1 .. MaxLen + 1
  /\ nstr \in Seq(Characters)
  /\ \A k \in DOMAIN vec : vec[k].kind \in {0, 1, 2}
  /\ {error, done} \subseteq BOOLEAN

Init ==
  /\ pattern \in Strings
  /\ i = 1
  /\ nstr = <<>> /\ vec = <<>> /\ items = <<>>
  /\ error = FALSE /\ done = FALSE

-----------------------------------------------------------------------------
(* The inner loop: how far the directive at position k reaches.            *)

After(k) == (k + 1) .. Len(pattern)

\* The first position from k + 1 on whose character is in S, or the end.
First(S, k) ==
  LET hits == {n \in After(k) : pattern[n] \in S}
  IN  IF hits = {} THEN Len(pattern) + 1 ELSE CHOOSE n \in hits : \A m \in hits : n <= m

\* Letters and braces make up a directive.
StopAt(k) == First(Others \cup {Percent}, k)
Opened(k) == First({Brace}, k) < StopAt(k)
\* Mutant: any closing brace of the pattern will do.
ClosedAnywhere(k) == First({EndBrace}, First({Brace}, k)) <= Len(pattern)
ClosedBefore(k) == First({EndBrace}, First({Brace}, k)) < StopAt(k)

Between(k, n) == SubSeq(pattern, k + 1, n - 1)

-----------------------------------------------------------------------------
(* The turns of the outer loop.                                            *)

Entry(kind, str, fmt) == [kind |-> kind, str |-> str, fmt |-> fmt]

\* Literal text goes before what follows it.  Mutant: it waits for the end.
KeepText == vec
FlushText == IF nstr = <<>> THEN vec ELSE Append(vec, Entry(0, nstr, <<>>))

Here(c) == ~done /\ i <= Len(pattern) /\ pattern[i] = c
Escaped == i < Len(pattern) /\ pattern[i + 1] = Percent

Literal ==
  /\ ~done /\ i <= Len(pattern) /\ pattern[i] # Percent
  /\ nstr' = Append(nstr, pattern[i])
  /\ i' = i + 1
  /\ UNCHANGED <<pattern, vec, items, error, done>>

\* Two % signs: one is taken as text, the other is read again.
Escape ==
  /\ Here(Percent) /\ Escaped
  /\ nstr' = Append(nstr, Percent)
  /\ i' = i + 1
  /\ UNCHANGED <<pattern, vec, items, error, done>>

\* Where the scanner goes on: i = n - 1, then ++i.
GoOn(n) == n

Directive ==
  /\ Here(Percent) /\ ~Escaped /\ ~Opened(i)
  /\ vec' = Append(FlushText, Entry(1, Between(i, StopAt(i)), <<>>))
  /\ nstr' = <<>>
  /\ i' = GoOn(StopAt(i))
  /\ UNCHANGED <<pattern, items, error, done>>

\* The format ends at the first closing brace, which is then read as text.
WithFormat ==
  LET open == First({Brace}, i)
      close == First({EndBrace}, open)
  IN  /\ Here(Percent) /\ ~Escaped /\ Opened(i) /\ ClosedBefore(i)
      /\ vec' = Append(FlushText, Entry(2, Between(i, open), Between(open, close)))
      /\ nstr' = <<>>
      /\ i' = GoOn(close)
      /\ UNCHANGED <<pattern, items, error, done>>

\* A format that is not closed: a note in the output, ahead of the text before
\* it; what follows the % is read again as text.
Unclosed ==
  /\ Here(Percent) /\ ~Escaped /\ Opened(i) /\ ~ClosedBefore(i)
  /\ vec' = Append(vec, Entry(0, <<PatternError>>, <<>>))
  /\ error' = TRUE
  /\ i' = i + 1
  /\ UNCHANGED <<pattern, nstr, items, done>>

\* A name without an item.
Unknown(e) == e.kind # 0 /\ e.str \notin Known

\* A StringFormatItem for text and for unknown names, else the item of the
\* name with its format.
Item(e) ==
  IF e.kind = 0 \/ Unknown(e) THEN [item |-> "String", text |-> e.str]
  ELSE [item |-> e.str, text |-> e.fmt]

Finish ==
  /\ ~done /\ i > Len(pattern)
  /\ done' = TRUE
  /\ vec' = FlushText
  /\ items' = [k \in DOMAIN vec' |-> Item(vec'[k])]
  /\ error' = (error \/ \E k \in DOMAIN vec' : Unknown(vec'[k]))
  /\ UNCHANGED <<pattern, i, nstr>>

Next == Literal \/ Escape \/ Directive \/ WithFormat \/ Unclosed \/ Finish

Spec == Init /\ [][Next]_vars

-----------------------------------------------------------------------------
(* The pattern as its readers see it: each % that is not followed by       *)
(* another one starts a directive.                                         *)

Starts == {k \in DOMAIN pattern : pattern[k] = Percent /\ (k < Len(pattern) => pattern[k + 1] # Percent)}

\* A directive that is written rightly: a known name, then possibly a format
\* of letters in braces.
Right(k) ==
  \/ Between(k, StopAt(k)) \in Known
  \/ \E open, close \in After(k) :
       /\ pattern[open] = Brace /\ pattern[close] = EndBrace /\ Between(k, open) \in Known
       /\ open < close /\ \A n \in open .. close : pattern[n] \in Letters \cup {Brace, EndBrace}

\* The text that a vec entry was read from, but for the brace that ends it.
Source(e) ==
  CASE e.kind = 0 -> e.str
    [] e.kind = 1 -> <<Percent>> \o e.str
    [] e.kind = 2 -> <<Percent>> \o e.str \o <<Brace>> \o e.fmt

\* When a pattern has no unclosed format, everything in it is read once and in
\* its order: the entries, put together, are the pattern.
NothingLost ==
  done /\ (\A k \in DOMAIN vec : vec[k].str # <<PatternError>>)
    => FlattenSeq([k \in DOMAIN vec |-> Source(vec[k])]) = pattern

\* iserror, on which Logger::setFormatter rejects a pattern, says whether
\* some directive of the pattern is wrong.
ErrorExact == done => (error <=> \E k \in Starts : ~Right(k))

\* log.cpp:297: at the closing brace the format has ended: the scanner goes on
\* behind it, and does not read it once more as text.
BraceEndsFormat ==
  [][~done' /\ vec' # vec /\ Last(vec').kind = 2
       => i' = i + Len(Source(Last(vec'))) + 1]_vars
=============================================================================
