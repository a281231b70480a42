--------------------------- MODULE LogText_proofs ---------------------------
(***************************************************************************)
(* Theorems about what log.cpp reads from text, for patterns of any length *)
(* over any letters and names of items, and for any documents: the         *)
(* scanner's error flag is exact and nothing of a pattern is lost; a       *)
(* document becomes a usable value, and loggers survive that they are      *)
(* saved and loaded.                                                       *)
(***************************************************************************)
EXTENDS MCLogText, SequenceTheorems, FiniteSetTheorems, FunctionTheorems, WellFoundedInduction, TLAPS

Entries == [kind : {0, 1, 2}, str : Seq(Characters \cup {PatternError}), fmt : Seq(Characters)]

\* The scanner was told of an error, or has read a name that it will not find.
Seen == error \/ \E k \in DOMAIN vec : Unknown(vec[k])

\* A wrong directive begins before position n.
WrongBefore(n) == \E k \in Starts : k < n /\ ~Right(k)

\* The inductive invariant: what was seen is what is wrong so far.
FInv ==
  /\ pattern \in Seq(Characters) /\ Len(pattern) <= MaxLen
  /\ i \in 1 .. Len(pattern) + 1
  /\ nstr \in Seq(Characters) /\ vec \in Seq(Entries)
  /\ error \in BOOLEAN /\ done \in BOOLEAN
  /\ done => i > Len(pattern)
  /\ IF done THEN error <=> WrongBefore(i) ELSE Seen <=> WrongBefore(i)

-----------------------------------------------------------------------------
(* Positions.                                                              *)

LEMMA Least ==
  ASSUME NEW S \in SUBSET Nat, S # {}
  PROVE  \E n \in S : \A m \in S : n <= m
<1> DEFINE R == {p \in Nat \X Nat : p[1] < p[2]}
<1>1. IsWellFoundedOn(R, Nat)
  BY NatLessThanWellFounded DEF OpToRel
<1> HIDE DEF R
<1>2. PICK n \in S : \A m \in S : <<m, n>> \notin R
  BY <1>1, WFMin
<1>3. ASSUME NEW m \in S PROVE n <= m
  <2>1. m \in Nat /\ n \in Nat /\ <<m, n>> \notin R
    BY <1>2
  <2>2. m < n => <<m, n>> \in R
    BY <2>1 DEF R
  <2> QED
    BY <2>1, <2>2
<1> QED
  BY <1>3

\* Induction up to a bound, over a set instead of a predicate.
LEMMA Upwards ==
  ASSUME NEW m \in Nat, NEW S, 0 \in S, \A n \in 0 .. m : n \in S /\ n < m => n + 1 \in S
  PROVE  \A n \in 0 .. m : n \in S
<1> DEFINE bad == (0 .. m) \ S
<1> SUFFICES ASSUME bad # {} PROVE FALSE
  OBVIOUS
<1>1. bad \in SUBSET Nat
  OBVIOUS
<1> HIDE DEF bad
<1>2. PICK n \in bad : \A k \in bad : n <= k
  BY <1>1, Least
<1>3. n \in 0 .. m /\ n \notin S /\ n # 0
  BY DEF bad
<1>4. n - 1 \in 0 .. m /\ n - 1 \notin bad /\ n - 1 < m /\ n - 1 + 1 = n
  BY <1>1, <1>2, <1>3
<1> QED
  BY <1>3, <1>4 DEF bad

\* First finds the first of the characters, or the end.
LEMMA FirstFacts ==
  ASSUME pattern \in Seq(Characters), NEW S, NEW k \in 1 .. Len(pattern) + 1
  PROVE  /\ First(S, k) \in 1 .. Len(pattern) + 1
         /\ k <= Len(pattern) => k < First(S, k)
         /\ \A m \in (k + 1) .. Len(pattern) : m < First(S, k) => pattern[m] \notin S
         /\ First(S, k) <= Len(pattern) => pattern[First(S, k)] \in S /\ k < First(S, k)
<1> DEFINE hits == {n \in After(k) : pattern[n] \in S}
<1>1. Len(pattern) \in Nat /\ hits \in SUBSET Nat
  BY DEF After
<1>2. CASE hits = {}
  <2>1. First(S, k) = Len(pattern) + 1
    BY <1>2 DEF First
  <2> QED
    BY <1>1, <1>2, <2>1 DEF After
<1>3. CASE hits # {}
  <2>1. First(S, k) = CHOOSE n \in hits : \A m \in hits : n <= m
    BY <1>3 DEF First
  <2>2. \E n \in hits : \A m \in hits : n <= m
    BY <1>1, <1>3, Least
  <2>3. First(S, k) \in hits /\ \A m \in hits : First(S, k) <= m
    <3> HIDE DEF hits
    <3> QED
      BY <2>1, <2>2
  <2>4. First(S, k) \in (k + 1) .. Len(pattern) /\ pattern[First(S, k)] \in S
    BY <2>3 DEF After
  <2>5. ASSUME NEW m \in (k + 1) .. Len(pattern), m < First(S, k) PROVE pattern[m] \notin S
    <3>1. m \in hits => First(S, k) <= m
      BY <2>3
    <3>2. m \notin hits
      BY <1>1, <2>4, <2>5, <3>1
    <3> QED
      BY <2>5, <3>2 DEF After
  <2> QED
    BY <1>1, <2>4, <2>5
<1> QED
  BY <1>2, <1>3

\* The name of an item is one letter.
LEMMA KnownLetter ==
  ASSUME pattern \in Seq(Characters), NEW k \in DOMAIN pattern,
         NEW n \in (k + 1) .. Len(pattern) + 1
  PROVE  /\ Between(k, n) \in Seq(Characters)
         /\ Between(k, n) \in Known => n = k + 2 /\ pattern[k + 1] \in Letters
<1>1. /\ Between(k, n) \in Seq(Characters) /\ Len(Between(k, n)) = n - k - 1
      /\ \A j \in 1 .. n - k - 1 : Between(k, n)[j] = pattern[k + j]
  BY SMTT(30) DEF Between
<1>2. ASSUME Between(k, n) \in Known PROVE n = k + 2 /\ pattern[k + 1] \in Letters
  <2>a. Known \subseteq {<<c>> : c \in Letters}
    BY FormatterAssumption
  <2>1. PICK c \in Letters : Between(k, n) = <<c>>
    BY <1>2, <2>a, Zenon
  <2>2. n - k - 1 = 1
    BY <1>1, <2>1
  <2>3. Between(k, n)[1] = pattern[k + 1] /\ Between(k, n)[1] = c
    BY <1>1, <2>1, <2>2
  <2> QED
    BY <2>2, <2>3
<1> QED
  BY <1>1, <1>2

-----------------------------------------------------------------------------
(* The scanner against the readers' view, directive by directive.          *)

\* Letters, the other characters, and % and the braces are told apart.
LEMMA Apart ==
  /\ \A c \in Letters : c \notin Others \cup {Percent, Brace, EndBrace}
  /\ \A c \in Others : c \notin {Percent, Brace, EndBrace}
  /\ Percent # Brace /\ Percent # EndBrace /\ Brace # EndBrace
<1>1. (Letters \cup Others) \cap {Percent, Brace, EndBrace} = {} /\ Letters \cap Others = {}
  BY FormatterAssumption
<1>2. Percent # Brace /\ Percent # EndBrace /\ Brace # EndBrace
  BY Zenon DEF Percent, Brace, EndBrace
<1> QED
  BY <1>1, <1>2, Zenon

\* Up to where the directive stops there are letters and braces.
LEMMA Stretch ==
  ASSUME pattern \in Seq(Characters), NEW k \in DOMAIN pattern
  PROVE  /\ StopAt(k) \in (k + 1) .. Len(pattern) + 1
         /\ \A m \in (k + 1) .. Len(pattern) :
              m < StopAt(k) => pattern[m] \in Letters \cup {Brace, EndBrace} /\ pattern[m] # Percent
         /\ StopAt(k) <= Len(pattern) => pattern[StopAt(k)] \notin Letters \cup {Brace, EndBrace}
<1>1. k \in 1 .. Len(pattern) + 1 /\ k <= Len(pattern) /\ Len(pattern) \in Nat
  OBVIOUS
<1>2. /\ StopAt(k) \in 1 .. Len(pattern) + 1 /\ k < StopAt(k)
      /\ \A m \in (k + 1) .. Len(pattern) : m < StopAt(k) => pattern[m] \notin Others \cup {Percent}
      /\ StopAt(k) <= Len(pattern) => pattern[StopAt(k)] \in Others \cup {Percent}
  BY <1>1, FirstFacts DEF StopAt
<1>3. ASSUME NEW m \in (k + 1) .. Len(pattern), m < StopAt(k)
      PROVE  pattern[m] \in Letters \cup {Brace, EndBrace} /\ pattern[m] # Percent
  <2>1. pattern[m] \in Characters
    BY <1>1
  <2> QED
    BY <1>2, <1>3, <2>1, Apart DEF Characters
<1>4. StopAt(k) <= Len(pattern) => pattern[StopAt(k)] \notin Letters \cup {Brace, EndBrace}
  BY <1>2, Apart
<1> QED
  BY <1>1, <1>2, <1>3, <1>4

\* Where a directive that is written with a format opens it.
LEMMA Opening ==
  ASSUME pattern \in Seq(Characters), NEW k \in DOMAIN pattern,
         NEW open \in After(k), NEW close \in After(k),
         pattern[open] = Brace, Between(k, open) \in Known, open < close,
         \A n \in open .. close : pattern[n] \in Letters \cup {Brace, EndBrace}
  PROVE  open = k + 2 /\ First({Brace}, k) = open /\ close < StopAt(k)
<1>1. k \in 1 .. Len(pattern) + 1 /\ Len(pattern) \in Nat /\ k <= Len(pattern)
  OBVIOUS
<1>2. open \in (k + 1) .. Len(pattern) /\ close \in (k + 1) .. Len(pattern)
  BY DEF After
<1>3. open = k + 2 /\ pattern[k + 1] \in Letters
  BY <1>1, <1>2, KnownLetter
<1>4. First({Brace}, k) = open
  <2>1. /\ First({Brace}, k) \in 1 .. Len(pattern) + 1 /\ k < First({Brace}, k)
        /\ \A m \in (k + 1) .. Len(pattern) : m < First({Brace}, k) => pattern[m] # Brace
        /\ First({Brace}, k) <= Len(pattern) => pattern[First({Brace}, k)] = Brace
    BY <1>1, FirstFacts
  <2>2. pattern[k + 1] # Brace
    BY <1>3, Apart
  <2>3. First({Brace}, k) # k + 1
    BY <1>1, <1>2, <2>1, <2>2
  <2>4. ~(open < First({Brace}, k))
    BY <1>2, <2>1
  <2> QED
    BY <1>1, <1>2, <1>3, <2>1, <2>3, <2>4, SMTT(30)
<1>5. close < StopAt(k)
  <2>1. /\ StopAt(k) \in (k + 1) .. Len(pattern) + 1
        /\ StopAt(k) <= Len(pattern) => pattern[StopAt(k)] \notin Letters \cup {Brace, EndBrace}
    BY Stretch
  <2>2. StopAt(k) # k + 1
    BY <1>1, <1>2, <1>3, <2>1
  <2>3. ~(StopAt(k) \in open .. close)
    BY <1>1, <1>2, <2>1
  <2> QED
    BY <1>1, <1>2, <1>3, <2>1, <2>2, <2>3, SMTT(30)
<1> QED
  BY <1>3, <1>4, <1>5

\* Without a brace a directive is as good as its name.
LEMMA DirectiveRight ==
  ASSUME pattern \in Seq(Characters), NEW k \in DOMAIN pattern, ~Opened(k)
  PROVE  Right(k) <=> Between(k, StopAt(k)) \in Known
<1>1. ASSUME NEW open \in After(k), NEW close \in After(k),
             pattern[open] = Brace, Between(k, open) \in Known, open < close,
             \A n \in open .. close : pattern[n] \in Letters \cup {Brace, EndBrace}
      PROVE  FALSE
  <2>1. First({Brace}, k) = open /\ close < StopAt(k)
    BY <1>1, Opening
  <2>2. open \in Int /\ close \in Int /\ StopAt(k) \in Int
    BY Stretch DEF After
  <2> QED
    BY <1>1, <2>1, <2>2 DEF Opened
<1> QED
  BY <1>1 DEF Right

\* What is open before the directive stops.
LEMMA OpenedFacts ==
  ASSUME pattern \in Seq(Characters), NEW k \in DOMAIN pattern, Opened(k)
  PROVE  /\ First({Brace}, k) \in After(k) /\ pattern[First({Brace}, k)] = Brace
         /\ Between(k, StopAt(k)) \notin Known
         /\ First({EndBrace}, First({Brace}, k)) \in (First({Brace}, k) + 1) .. Len(pattern) + 1
         /\ \A m \in (First({Brace}, k) + 1) .. Len(pattern) :
              m < First({EndBrace}, First({Brace}, k)) => pattern[m] # EndBrace
         /\ First({EndBrace}, First({Brace}, k)) <= Len(pattern)
              => pattern[First({EndBrace}, First({Brace}, k))] = EndBrace
<1> DEFINE open == First({Brace}, k)
<1>1. k \in 1 .. Len(pattern) + 1 /\ Len(pattern) \in Nat /\ k <= Len(pattern)
  OBVIOUS
<1>2. /\ open \in 1 .. Len(pattern) + 1 /\ k < open
      /\ open <= Len(pattern) => pattern[open] = Brace
  BY <1>1, FirstFacts
<1>3. StopAt(k) \in (k + 1) .. Len(pattern) + 1 /\ open < StopAt(k)
  BY Stretch DEF Opened
<1>4. open \in (k + 1) .. Len(pattern) /\ pattern[open] = Brace
  BY <1>1, <1>2, <1>3
<1>5. ASSUME Between(k, StopAt(k)) \in Known PROVE FALSE
  <2>1. StopAt(k) = k + 2 /\ pattern[k + 1] \in Letters
    BY <1>3, <1>5, KnownLetter
  <2>2. open = k + 1
    BY <1>1, <1>3, <1>4, <2>1
  <2> QED
    BY <1>4, <2>1, <2>2, Apart
<1>6. /\ First({EndBrace}, open) \in 1 .. Len(pattern) + 1 /\ open < First({EndBrace}, open)
      /\ \A m \in (open + 1) .. Len(pattern) : m < First({EndBrace}, open) => pattern[m] # EndBrace
      /\ First({EndBrace}, open) <= Len(pattern) => pattern[First({EndBrace}, open)] = EndBrace
  <2>1. open \in 1 .. Len(pattern) + 1 /\ open <= Len(pattern)
    BY <1>1, <1>2, <1>4
  <2> HIDE DEF open
  <2> QED
    BY <2>1, FirstFacts
<1>7. open \in After(k)
  BY <1>4 DEF After
<1>8. First({EndBrace}, open) \in (open + 1) .. Len(pattern) + 1
  <2>1. First({EndBrace}, open) \in 1 .. Len(pattern) + 1 /\ open \in Int /\ open < First({EndBrace}, open)
    BY <1>4, <1>6
  <2> HIDE DEF open
  <2> QED
    BY <1>1, <2>1
<1> QED
  BY <1>4, <1>5, <1>6, <1>7, <1>8, Zenon

\* With a closed format a directive is as good as the name before the brace.
LEMMA FormatRight ==
  ASSUME pattern \in Seq(Characters), NEW k \in DOMAIN pattern, Opened(k), ClosedBefore(k)
  PROVE  Right(k) <=> Between(k, First({Brace}, k)) \in Known
<1> DEFINE open == First({Brace}, k)
           close == First({EndBrace}, First({Brace}, k))
<1>1. /\ open \in (k + 1) .. Len(pattern) /\ pattern[open] = Brace
      /\ Between(k, StopAt(k)) \notin Known
      /\ close \in (open + 1) .. Len(pattern) + 1
      /\ close <= Len(pattern) => pattern[close] = EndBrace
  BY OpenedFacts DEF After
<1>2. StopAt(k) \in (k + 1) .. Len(pattern) + 1 /\ close < StopAt(k) /\ Len(pattern) \in Nat
  BY Stretch DEF ClosedBefore
<1>3. ASSUME Right(k) PROVE Between(k, open) \in Known
  <2>1. PICK o \in After(k), c \in After(k) :
          /\ pattern[o] = Brace /\ pattern[c] = EndBrace /\ Between(k, o) \in Known
          /\ o < c /\ \A n \in o .. c : pattern[n] \in Letters \cup {Brace, EndBrace}
    BY <1>1, <1>3 DEF Right
  <2>2. open = o
    BY <2>1, Opening
  <2> QED
    BY <2>1, <2>2
<1>4. ASSUME Between(k, open) \in Known PROVE Right(k)
  <2>1. \A n \in open .. close : pattern[n] \in Letters \cup {Brace, EndBrace}
    BY <1>1, <1>2, Stretch, SMTT(30)
  <2>2. close \in (k + 1) .. Len(pattern) /\ open < close /\ pattern[close] = EndBrace
    BY <1>1, <1>2
  <2> HIDE DEF open, close
  <2> QED
    BY <1>1, <1>4, <2>1, <2>2 DEF Right, After
<1> QED
  BY <1>3, <1>4

\* A directive whose format is not closed is wrong.
LEMMA UnclosedWrong ==
  ASSUME pattern \in Seq(Characters), NEW k \in DOMAIN pattern, Opened(k), ~ClosedBefore(k)
  PROVE  ~Right(k)
<1>1. SUFFICES ASSUME Right(k) PROVE FALSE
  OBVIOUS
<1>2. /\ Between(k, StopAt(k)) \notin Known
      /\ First({EndBrace}, First({Brace}, k)) \in (First({Brace}, k) + 1) .. Len(pattern) + 1
      /\ \A m \in (First({Brace}, k) + 1) .. Len(pattern) :
           m < First({EndBrace}, First({Brace}, k)) => pattern[m] # EndBrace
  BY OpenedFacts
<1>3. PICK o \in After(k), c \in After(k) :
        /\ pattern[o] = Brace /\ pattern[c] = EndBrace /\ Between(k, o) \in Known
        /\ o < c /\ \A n \in o .. c : pattern[n] \in Letters \cup {Brace, EndBrace}
  BY <1>1, <1>2 DEF Right
<1>4. First({Brace}, k) = o /\ c < StopAt(k)
  BY <1>3, Opening
<1>5. o \in Int /\ c \in (o + 1) .. Len(pattern) /\ StopAt(k) \in Int
  BY <1>3, Stretch DEF After
<1>6. First({EndBrace}, o) \in Int /\ ~(c < First({EndBrace}, o))
  <2>1. /\ First({EndBrace}, o) \in (o + 1) .. Len(pattern) + 1
        /\ \A m \in (o + 1) .. Len(pattern) : m < First({EndBrace}, o) => pattern[m] # EndBrace
    BY <1>2, <1>4, Zenon
  <2>2. pattern[c] = EndBrace
    BY <1>3
  <2>3. First({EndBrace}, o) \in Int
    BY <1>5, <2>1
  <2>4. ASSUME c < First({EndBrace}, o) PROVE FALSE
    BY <1>5, <2>1, <2>2, <2>4
  <2> QED
    BY <2>3, <2>4
<1>7. First({EndBrace}, o) < StopAt(k)
  BY <1>4, <1>5, <1>6
<1> QED
  BY <1>4, <1>7 DEF ClosedBefore

-----------------------------------------------------------------------------
(* What a step changes of the two sides of the invariant.                  *)

\* Right, with the pattern as an argument.
FirstIn(p, S, k) ==
  LET hits == {n \in (k + 1) .. Len(p) : p[n] \in S}
  IN  IF hits = {} THEN Len(p) + 1 ELSE CHOOSE n \in hits : \A m \in hits : n <= m
RightIn(p, k) ==
  \/ SubSeq(p, k + 1, FirstIn(p, Others \cup {Percent}, k) - 1) \in Known
  \/ \E open, close \in (k + 1) .. Len(p) :
       /\ p[open] = Brace /\ p[close] = EndBrace /\ SubSeq(p, k + 1, open - 1) \in Known
       /\ open < close /\ \A n \in open .. close : p[n] \in Letters \cup {Brace, EndBrace}
WrongIn(p, n) ==
  \E k \in {k \in DOMAIN p : p[k] = Percent /\ (k < Len(p) => p[k + 1] # Percent)} :
    k < n /\ ~RightIn(p, k)

\* What is wrong depends on the pattern alone, and no step changes it.
LEMMA SameWrong ==
  ASSUME pattern' = pattern
  PROVE  WrongBefore(i)' <=> WrongBefore(i')
<1>1. WrongBefore(i)' = WrongIn(pattern', i')
  BY DEF WrongBefore, Starts, Right, StopAt, Between, First, After, WrongIn, RightIn, FirstIn
<1>2. WrongBefore(i') = WrongIn(pattern, i')
  BY DEF WrongBefore, Starts, Right, StopAt, Between, First, After, WrongIn, RightIn, FirstIn
<1> QED
  BY <1>1, <1>2

\* From one turn to the next only the directive that the turn began at counts.
LEMMA NextWrong ==
  ASSUME pattern \in Seq(Characters), NEW n \in 1 .. Len(pattern),
         NEW next \in (n + 1) .. Len(pattern) + 1,
         \A m \in (n + 1) .. Len(pattern) : m < next => m \notin Starts
  PROVE  WrongBefore(next) <=> WrongBefore(n) \/ (n \in Starts /\ ~Right(n))
<1>1. \A k \in Starts : k \in 1 .. Len(pattern)
  BY DEF Starts
<1>2. \A k \in Starts : k < next <=> k < n \/ k = n
  BY <1>1
<1> QED
  BY <1>2 DEF WrongBefore

\* An unknown name is seen in a longer list as in its parts.
LEMMA AppendUnknown ==
  ASSUME NEW s \in Seq(Entries), NEW e \in Entries
  PROVE  /\ Append(s, e) \in Seq(Entries)
         /\ (\E k \in DOMAIN Append(s, e) : Unknown(Append(s, e)[k]))
              <=> (\E k \in DOMAIN s : Unknown(s[k])) \/ Unknown(e)
<1>1. /\ Append(s, e) \in Seq(Entries) /\ Len(s) \in Nat
      /\ DOMAIN s = 1 .. Len(s) /\ DOMAIN Append(s, e) = 1 .. Len(s) + 1
      /\ Append(s, e)[Len(s) + 1] = e
      /\ \A k \in 1 .. Len(s) : Append(s, e)[k] = s[k]
  OBVIOUS
<1>2. 1 .. Len(s) + 1 = (1 .. Len(s)) \cup {Len(s) + 1}
  BY <1>1
<1> HIDE DEF Entries
<1>3. (\E k \in DOMAIN Append(s, e) : Unknown(Append(s, e)[k]))
        <=> (\E k \in DOMAIN s : Unknown(s[k])) \/ Unknown(e)
  BY <1>1, <1>2, Zenon
<1> QED
  BY <1>1, <1>3

\* Text that is put away is no name.
LEMMA FlushUnknown ==
  ASSUME nstr \in Seq(Characters), vec \in Seq(Entries)
  PROVE  /\ FlushText \in Seq(Entries)
         /\ (\E k \in DOMAIN FlushText : Unknown(FlushText[k]))
              <=> (\E k \in DOMAIN vec : Unknown(vec[k]))
<1>1. CASE nstr = <<>>
  BY <1>1 DEF FlushText
<1>2. CASE nstr # <<>>
  <2>1. Entry(0, nstr, <<>>) \in Entries
    BY DEF Entry, Entries
  <2>2. ~Unknown(Entry(0, nstr, <<>>))
    BY DEF Unknown, Entry
  <2>3. FlushText = Append(vec, Entry(0, nstr, <<>>))
    BY <1>2 DEF FlushText
  <2> QED
    BY <2>1, <2>2, <2>3, AppendUnknown
<1> QED
  BY <1>1, <1>2

-----------------------------------------------------------------------------
(* The steps.                                                              *)

\* Init begins before the first directive, with an empty list.
LEMMA InitFInv == ASSUME Init PROVE FInv
<1>1. pattern \in Seq(Characters) /\ Len(pattern) <= MaxLen
  <2>1. PICK m \in 0 .. MaxLen : pattern \in [1 .. m -> Characters]
    BY DEF Init, Strings, BoundedSeq, SeqOf
  <2>2. m \in Nat /\ m <= MaxLen
    BY FormatterAssumption
  <2> HIDE DEF Characters
  <2>3. Len(pattern) = m
    BY <2>1, <2>2
  <2> QED
    BY <2>1, <2>2, <2>3
<1>2. i = 1 /\ nstr = <<>> /\ vec = <<>> /\ error = FALSE /\ done = FALSE
  BY DEF Init
<1>3. ~WrongBefore(1)
  BY <1>1 DEF WrongBefore, Starts
<1>4. ~Seen
  BY <1>2 DEF Seen
<1>5. i \in 1 .. Len(pattern) + 1 /\ nstr \in Seq(Characters) /\ vec \in Seq(Entries)
  BY <1>1, <1>2
<1> QED
  BY <1>1, <1>2, <1>3, <1>4, <1>5 DEF FInv

\* A turn of the loop at position i that goes on at next, and reports what is
\* wrong with the directive at i, if one begins there.
LEMMA TurnFInv ==
  ASSUME FInv, ~done, i <= Len(pattern), UNCHANGED <<pattern, done>>,
         i' \in (i + 1) .. Len(pattern) + 1,
         \A m \in (i + 1) .. Len(pattern) : m < i' => m \notin Starts,
         nstr' \in Seq(Characters), vec' \in Seq(Entries), error' \in BOOLEAN,
         Seen' <=> Seen \/ (i \in Starts /\ ~Right(i))
  PROVE  FInv'
<1>1. pattern \in Seq(Characters) /\ Len(pattern) \in Nat /\ i \in 1 .. Len(pattern)
  BY DEF FInv
<1>2. WrongBefore(i)' <=> WrongBefore(i) \/ (i \in Starts /\ ~Right(i))
  <2>1. WrongBefore(i') <=> WrongBefore(i) \/ (i \in Starts /\ ~Right(i))
    <3> DEFINE next == i'
    <3>1. next \in (i + 1) .. Len(pattern) + 1
      OBVIOUS
    <3>2. \A m \in (i + 1) .. Len(pattern) : m < next => m \notin Starts
      OBVIOUS
    <3> HIDE DEF next
    <3>3. WrongBefore(next) <=> WrongBefore(i) \/ (i \in Starts /\ ~Right(i))
      BY <1>1, <3>1, <3>2, NextWrong
    <3> QED
      BY <3>3 DEF next
  <2> QED
    BY <2>1, SameWrong
<1>3. Seen' <=> WrongBefore(i)'
  BY <1>2 DEF FInv
<1>4. i' \in 1 .. Len(pattern') + 1
  BY <1>1
<1> QED
  BY <1>3, <1>4 DEF FInv

LEMMA LiteralFInv == ASSUME FInv, Literal PROVE FInv'
<1>1. /\ ~done /\ i <= Len(pattern) /\ pattern[i] # Percent /\ UNCHANGED <<pattern, done>>
      /\ i' = i + 1 /\ nstr' = Append(nstr, pattern[i]) /\ vec' = vec /\ error' = error
  BY DEF Literal
<1>2. pattern \in Seq(Characters) /\ i \in 1 .. Len(pattern) /\ Len(pattern) \in Nat
  BY <1>1 DEF FInv
<1>3. nstr' \in Seq(Characters) /\ vec' \in Seq(Entries) /\ error' \in BOOLEAN
  BY <1>1, <1>2 DEF FInv
<1>4. i \notin Starts
  BY <1>1 DEF Starts
<1>5. Seen' <=> Seen
  BY <1>1 DEF Seen
<1>6. i' \in (i + 1) .. Len(pattern) + 1 /\ \A m \in (i + 1) .. Len(pattern) : ~(m < i')
  BY <1>1, <1>2
<1> QED
  BY <1>1, <1>3, <1>4, <1>5, <1>6, TurnFInv

LEMMA EscapeFInv == ASSUME FInv, Escape PROVE FInv'
<1>1. /\ ~done /\ i <= Len(pattern) /\ i < Len(pattern) /\ pattern[i + 1] = Percent
      /\ UNCHANGED <<pattern, done>>
      /\ i' = i + 1 /\ nstr' = Append(nstr, Percent) /\ vec' = vec /\ error' = error
  BY DEF Escape, Escaped, Here
<1>2. pattern \in Seq(Characters) /\ i \in 1 .. Len(pattern) /\ Len(pattern) \in Nat
  BY <1>1 DEF FInv
<1>3. nstr' \in Seq(Characters) /\ vec' \in Seq(Entries) /\ error' \in BOOLEAN
  <2>1. Percent \in Characters
    BY DEF Characters
  <2> QED
    BY <1>1, <2>1 DEF FInv
<1>4. i \notin Starts
  BY <1>1 DEF Starts
<1>5. Seen' <=> Seen
  BY <1>1 DEF Seen
<1>6. i' \in (i + 1) .. Len(pattern) + 1 /\ \A m \in (i + 1) .. Len(pattern) : ~(m < i')
  BY <1>1, <1>2
<1> QED
  BY <1>1, <1>3, <1>4, <1>5, <1>6, TurnFInv

\* What the turns that read a directive have in common: the text before it is
\* put away, then the entry of the directive.
LEMMA DirectiveFInv ==
  ASSUME FInv, Here(Percent), ~Escaped, UNCHANGED <<pattern, error, done>>,
         i' \in (i + 1) .. StopAt(i), nstr' = <<>>,
         NEW e \in Entries, vec' = Append(FlushText, e), Unknown(e) <=> ~Right(i)
  PROVE  FInv'
<1>1. ~done /\ i <= Len(pattern) /\ pattern[i] = Percent /\ (i < Len(pattern) => pattern[i + 1] # Percent)
  BY DEF Here, Escaped
<1>2. pattern \in Seq(Characters) /\ i \in 1 .. Len(pattern) /\ Len(pattern) \in Nat
  BY <1>1 DEF FInv
<1>3. i \in DOMAIN pattern /\ i \in Starts
  BY <1>1, <1>2 DEF Starts
<1>4. i' \in (i + 1) .. Len(pattern) + 1 /\ \A m \in (i + 1) .. Len(pattern) : m < i' => m \notin Starts
  <2>1. /\ StopAt(i) \in (i + 1) .. Len(pattern) + 1
        /\ \A m \in (i + 1) .. Len(pattern) : m < StopAt(i) => pattern[m] # Percent
    BY <1>2, <1>3, Stretch
  <2> QED
    BY <1>2, <2>1 DEF Starts
<1>5. vec' \in Seq(Entries) /\ (Seen' <=> Seen \/ Unknown(e))
  <2>1. nstr \in Seq(Characters) /\ vec \in Seq(Entries)
    BY DEF FInv
  <2>2. /\ FlushText \in Seq(Entries)
        /\ (\E k \in DOMAIN FlushText : Unknown(FlushText[k])) <=> (\E k \in DOMAIN vec : Unknown(vec[k]))
    BY <2>1, FlushUnknown
  <2>3. /\ vec' \in Seq(Entries)
        /\ (\E k \in DOMAIN vec' : Unknown(vec'[k])) <=> (\E k \in DOMAIN FlushText : Unknown(FlushText[k])) \/ Unknown(e)
    BY <2>2, AppendUnknown
  <2>4. Seen' <=> error \/ \E k \in DOMAIN vec' : Unknown(vec'[k])
    BY DEF Seen, Unknown
  <2> QED
    BY <2>2, <2>3, <2>4 DEF Seen
<1>6. nstr' \in Seq(Characters) /\ error' \in BOOLEAN
  BY DEF FInv
<1> QED
  BY <1>1, <1>3, <1>4, <1>5, <1>6, TurnFInv

\* What lies between two positions of the pattern is a string.
LEMMA BetweenIsString ==
  ASSUME pattern \in Seq(Characters), NEW k \in DOMAIN pattern, NEW n \in (k + 1) .. Len(pattern) + 1
  PROVE  Between(k, n) \in Seq(Characters) /\ Between(k, n) \in Seq(Characters \cup {PatternError})
<1>1. Between(k, n) \in Seq(Characters)
  BY KnownLetter
<1> HIDE DEF Characters
<1> QED
  BY <1>1

LEMMA PlainDirectiveFInv == ASSUME FInv, Directive PROVE FInv'
<1> DEFINE e == Entry(1, Between(i, StopAt(i)), <<>>)
<1>1. /\ Here(Percent) /\ ~Escaped /\ ~Opened(i) /\ UNCHANGED <<pattern, error, done>>
      /\ i' = StopAt(i) /\ nstr' = <<>> /\ vec' = Append(FlushText, e)
  BY DEF Directive, GoOn
<1>2. pattern \in Seq(Characters) /\ i \in DOMAIN pattern
  BY <1>1 DEF FInv, Here
<1>3. StopAt(i) \in (i + 1) .. Len(pattern) + 1
  BY <1>2, Stretch
<1>4. e \in Entries
  <2>1. Between(i, StopAt(i)) \in Seq(Characters \cup {PatternError})
    BY <1>2, <1>3, BetweenIsString
  <2> QED
    BY <2>1 DEF Entry, Entries
<1>5. Unknown(e) <=> ~Right(i)
  <2>1. Unknown(e) <=> Between(i, StopAt(i)) \notin Known
    BY DEF Unknown, Entry
  <2> QED
    BY <1>1, <1>2, <2>1, DirectiveRight
<1>6. i' \in (i + 1) .. StopAt(i)
  BY <1>1, <1>2, <1>3
<1> HIDE DEF e
<1> QED
  BY <1>1, <1>4, <1>5, <1>6, DirectiveFInv

LEMMA WithFormatFInv == ASSUME FInv, WithFormat PROVE FInv'
<1> DEFINE open == First({Brace}, i)
           close == First({EndBrace}, First({Brace}, i))
           e == Entry(2, Between(i, open), Between(open, close))
<1>1. /\ Here(Percent) /\ ~Escaped /\ Opened(i) /\ ClosedBefore(i) /\ UNCHANGED <<pattern, error, done>>
      /\ i' = close /\ nstr' = <<>> /\ vec' = Append(FlushText, e)
  BY DEF WithFormat, GoOn
<1>2. pattern \in Seq(Characters) /\ i \in DOMAIN pattern /\ Len(pattern) \in Nat
  BY <1>1 DEF FInv, Here
<1>3. open \in After(i) /\ close \in (open + 1) .. Len(pattern) + 1
  BY <1>1, <1>2, OpenedFacts, Zenon
<1>4. open \in (i + 1) .. Len(pattern)
  BY <1>3 DEF After
<1>5. StopAt(i) \in (i + 1) .. Len(pattern) + 1 /\ close < StopAt(i)
  BY <1>1, <1>2, Stretch DEF ClosedBefore
<1>6. e \in Entries
  <2>1. Between(i, open) \in Seq(Characters \cup {PatternError})
    <3>1. open \in (i + 1) .. Len(pattern) + 1
      BY <1>2, <1>4
    <3> HIDE DEF open
    <3> QED
      BY <1>2, <3>1, BetweenIsString
  <2>2. Between(open, close) \in Seq(Characters)
    <3>1. open \in DOMAIN pattern
      BY <1>2, <1>4
    <3> HIDE DEF open, close
    <3> QED
      BY <1>2, <1>3, <3>1, BetweenIsString
  <2> QED
    BY <2>1, <2>2 DEF Entry, Entries
<1>7. Unknown(e) <=> ~Right(i)
  <2>1. Unknown(e) <=> Between(i, open) \notin Known
    BY DEF Unknown, Entry
  <2> QED
    BY <1>1, <1>2, <2>1, FormatRight
<1>8. i' \in (i + 1) .. StopAt(i)
  <2> HIDE DEF open, close, e
  <2> QED
    BY <1>1, <1>2, <1>3, <1>4, <1>5
<1> HIDE DEF e
<1> QED
  BY <1>1, <1>6, <1>7, <1>8, DirectiveFInv

LEMMA UnclosedFInv == ASSUME FInv, Unclosed PROVE FInv'
<1>1. /\ ~done /\ i <= Len(pattern) /\ pattern[i] = Percent /\ (i < Len(pattern) => pattern[i + 1] # Percent)
      /\ Opened(i) /\ ~ClosedBefore(i) /\ UNCHANGED <<pattern, nstr, done>>
      /\ i' = i + 1 /\ error' = TRUE /\ vec' = Append(vec, Entry(0, <<PatternError>>, <<>>))
  BY DEF Unclosed, Here, Escaped
<1>2. pattern \in Seq(Characters) /\ i \in DOMAIN pattern /\ Len(pattern) \in Nat
      /\ nstr \in Seq(Characters) /\ vec \in Seq(Entries)
  BY <1>1 DEF FInv
<1>3. vec' \in Seq(Entries)
  <2>1. Entry(0, <<PatternError>>, <<>>) \in Entries
    BY DEF Entry, Entries
  <2> QED
    BY <1>1, <1>2, <2>1, AppendUnknown
<1>4. i \in Starts /\ ~Right(i)
  BY <1>1, <1>2, UnclosedWrong DEF Starts
<1>5. Seen'
  BY <1>1 DEF Seen
<1>6. i' \in (i + 1) .. Len(pattern) + 1 /\ \A m \in (i + 1) .. Len(pattern) : ~(m < i')
  BY <1>1, <1>2
<1> QED
  BY <1>1, <1>2, <1>3, <1>4, <1>5, <1>6, TurnFInv

\* At the end of the pattern what was seen becomes the error flag.
LEMMA FinishFInv == ASSUME FInv, Finish PROVE FInv'
<1>1. /\ ~done /\ i > Len(pattern) /\ done' = TRUE /\ UNCHANGED <<pattern, i, nstr>>
      /\ vec' = FlushText
      /\ error' = (error \/ \E k \in DOMAIN vec' : Unknown(vec'[k]))
  BY DEF Finish
<1>2. nstr \in Seq(Characters) /\ vec \in Seq(Entries) /\ error \in BOOLEAN /\ (Seen <=> WrongBefore(i))
  BY <1>1 DEF FInv
<1>3. /\ vec' \in Seq(Entries)
      /\ (\E k \in DOMAIN vec' : Unknown(vec'[k])) <=> (\E k \in DOMAIN vec : Unknown(vec[k]))
  BY <1>1, <1>2, FlushUnknown
<1>4. error' \in BOOLEAN /\ (error' <=> Seen)
  BY <1>1, <1>2, <1>3, Zenon DEF Seen
<1>5. WrongBefore(i)' <=> WrongBefore(i)
  BY <1>1, SameWrong
<1> QED
  BY <1>1, <1>2, <1>3, <1>4, <1>5 DEF FInv

LEMMA StepFInv == ASSUME FInv, [Next]_vars PROVE FInv'
<1>1. CASE Literal
  BY <1>1, LiteralFInv
<1>2. CASE Escape
  BY <1>2, EscapeFInv
<1>3. CASE Directive
  BY <1>3, PlainDirectiveFInv
<1>4. CASE WithFormat
  BY <1>4, WithFormatFInv
<1>5. CASE Unclosed
  BY <1>5, UnclosedFInv
<1>6. CASE Finish
  BY <1>6, FinishFInv
<1>7. CASE UNCHANGED vars
  <2>1. WrongBefore(i)' <=> WrongBefore(i)
    BY <1>7, SameWrong DEF vars
  <2>2. Seen' <=> Seen
    BY <1>7 DEF vars, Seen
  <2> QED
    BY <1>7, <2>1, <2>2 DEF FInv, vars
<1> QED
  BY <1>1, <1>2, <1>3, <1>4, <1>5, <1>6, <1>7 DEF Next

-----------------------------------------------------------------------------
(* What FlattenSeq computes: Joined says it entry by entry.                *)

IsFlat(f, s) == f = [j \in 1 .. Len(s) |-> IF j = 1 THEN s[j] ELSE f[j - 1] \o s[j]]
Flat(s) == CHOOSE f : IsFlat(f, s)

LEMMA FlattenIs ==
  ASSUME NEW s, Len(s) # 0
  PROVE  FlattenSeq(s) = Flat(s)[Len(s)]
BY Zenon DEF FlattenSeq, Flat, IsFlat

Joined(f, s, n) == \A j \in 1 .. n : f[j] = IF j = 1 THEN s[j] ELSE f[j - 1] \o s[j]

LEMMA FlatExists ==
  ASSUME NEW C, NEW s \in Seq(Seq(C))
  PROVE  \E f \in [1 .. Len(s) -> Seq(C)] : IsFlat(f, s)
<1> DEFINE S == {n \in 0 .. Len(s) : \E f \in [1 .. n -> Seq(C)] : Joined(f, s, n)}
<1>1. Len(s) \in Nat /\ \A j \in 1 .. Len(s) : s[j] \in Seq(C)
  BY LenProperties, ElementOfSeq
<1>2. 0 \in S
  <2> DEFINE none == [j \in 1 .. 0 |-> <<>>]
  <2>1. none \in [1 .. 0 -> Seq(C)]
    OBVIOUS
  <2>2. Joined(none, s, 0)
    BY DEF Joined
  <2> HIDE DEF none
  <2>3. 0 \in 0 .. Len(s)
    BY <1>1
  <2> QED
    BY <2>1, <2>2, <2>3, Zenon
<1>3. ASSUME NEW n \in 0 .. Len(s), n \in S, n < Len(s) PROVE n + 1 \in S
  <2>1. PICK f \in [1 .. n -> Seq(C)] : Joined(f, s, n)
    BY <1>3
  <2> DEFINE last == IF n = 0 THEN s[1] ELSE f[n] \o s[n + 1]
             g == [j \in 1 .. n + 1 |-> IF j = n + 1 THEN last ELSE f[j]]
  <2>2. last \in Seq(C)
    <3>1. CASE n = 0
      BY <1>1, <1>3, <3>1
    <3>2. CASE n # 0
      <4>1. f[n] \in Seq(C) /\ s[n + 1] \in Seq(C)
        BY <1>1, <1>3, <3>2
      <4> QED
        BY <3>2, <4>1, ConcatProperties
    <3> QED
      BY <3>1, <3>2
  <2>3. g \in [1 .. n + 1 -> Seq(C)]
    <3> HIDE DEF last
    <3> QED
      BY <2>2
  <2>4. /\ g[n + 1] = last
        /\ \A j \in 1 .. n : g[j] = f[j]
    <3> HIDE DEF last
    <3> QED
      BY <1>1, <1>3
  <2> HIDE DEF g
  <2>5. Joined(g, s, n + 1)
    <3> SUFFICES ASSUME NEW j \in 1 .. n + 1
                 PROVE  g[j] = IF j = 1 THEN s[j] ELSE g[j - 1] \o s[j]
      BY DEF Joined
    <3>1. CASE j = n + 1
      <4>1. n # 0 => g[n] = f[n]
        BY <1>3, <2>4
      <4>2. j - 1 = n /\ (j = 1 <=> n = 0)
        BY <1>3, <3>1
      <4> QED
        BY <2>4, <3>1, <4>1, <4>2
    <3>2. CASE j # n + 1
      <4>1. j \in 1 .. n /\ (j # 1 => j - 1 \in 1 .. n)
        BY <1>3, <3>2
      <4> QED
        BY <2>1, <2>4, <4>1 DEF Joined
    <3> QED
      BY <3>1, <3>2
  <2>6. n + 1 \in 0 .. Len(s)
    BY <1>1, <1>3
  <2> QED
    BY <2>3, <2>5, <2>6
<1> HIDE DEF S
<1>4. Len(s) \in S
  <2>1. \A n \in 0 .. Len(s) : n \in S
    <3> DEFINE m == Len(s)
    <3>1. m \in Nat /\ 0 \in S /\ \A n \in 0 .. m : n \in S /\ n < m => n + 1 \in S
      BY <1>1, <1>2, <1>3
    <3> HIDE DEF m
    <3>2. \A n \in 0 .. m : n \in S
      BY <3>1, Upwards
    <3> QED
      BY <3>2 DEF m
  <2> QED
    BY <1>1, <2>1
<1>5. PICK f \in [1 .. Len(s) -> Seq(C)] : Joined(f, s, Len(s))
  BY <1>4 DEF S
<1>6. IsFlat(f, s)
  <2> DEFINE g == [j \in 1 .. Len(s) |-> IF j = 1 THEN s[j] ELSE f[j - 1] \o s[j]]
  <2>1. \A j \in 1 .. Len(s) : f[j] = g[j]
    BY <1>5 DEF Joined
  <2>2. f = [j \in 1 .. Len(s) |-> f[j]]
    OBVIOUS
  <2> QED
    BY <2>1, <2>2 DEF IsFlat
<1> QED
  BY <1>5, <1>6

\* The equations have one solution.
LEMMA SameJoin ==
  ASSUME NEW s, NEW m \in Nat, NEW f, NEW g, Joined(f, s, m), Joined(g, s, m)
  PROVE  \A j \in 1 .. m : f[j] = g[j]
<1> DEFINE S == {n \in 0 .. m : n = 0 \/ f[n] = g[n]}
<1>1. 0 \in S
  OBVIOUS
<1>2. ASSUME NEW n \in 0 .. m, n \in S, n < m PROVE n + 1 \in S
  <2>1. n + 1 \in 1 .. m /\ (n # 0 => n + 1 # 1 /\ n + 1 - 1 = n)
    BY <1>2
  <2>2. f[n + 1] = g[n + 1]
    BY <1>2, <2>1 DEF Joined
  <2> QED
    BY <2>1, <2>2
<1> HIDE DEF S
<1>3. \A n \in 0 .. m : n \in S
  BY <1>1, <1>2, Upwards
<1> QED
  BY <1>3 DEF S

LEMMA FlatIsJoined ==
  ASSUME NEW f, NEW s, IsFlat(f, s)
  PROVE  /\ f = [j \in 1 .. Len(s) |-> f[j]]
         /\ Joined(f, s, Len(s))
<1>1. f = [j \in 1 .. Len(s) |-> IF j = 1 THEN s[j] ELSE f[j - 1] \o s[j]]
  BY DEF IsFlat
<1>2. DOMAIN f = 1 .. Len(s) /\ \A j \in 1 .. Len(s) : f[j] = IF j = 1 THEN s[j] ELSE f[j - 1] \o s[j]
  BY <1>1, Zenon
<1>3. f = [j \in DOMAIN f |-> f[j]]
  BY <1>1, Zenon
<1> QED
  BY <1>2, <1>3, Zenon DEF Joined

LEMMA FlatFacts ==
  ASSUME NEW C, NEW s \in Seq(Seq(C))
  PROVE  /\ Flat(s) \in [1 .. Len(s) -> Seq(C)]
         /\ Joined(Flat(s), s, Len(s))
<1>1. IsFlat(Flat(s), s)
  BY FlatExists, Zenon DEF Flat
<1>2. PICK g \in [1 .. Len(s) -> Seq(C)] : IsFlat(g, s)
  BY FlatExists
<1>3. Joined(Flat(s), s, Len(s)) /\ Joined(g, s, Len(s))
  <2>1. Joined(Flat(s), s, Len(s))
    BY <1>1, FlatIsJoined, Zenon
  <2>2. Joined(g, s, Len(s))
    BY <1>2, FlatIsJoined, Zenon
  <2> QED
    BY <2>1, <2>2
<1>4. Flat(s) = [j \in 1 .. Len(s) |-> Flat(s)[j]]
  BY <1>1, FlatIsJoined, Zenon
<1>5. Len(s) \in Nat
  BY LenProperties
<1>6. \A j \in 1 .. Len(s) : Flat(s)[j] = g[j]
  BY <1>3, <1>5, SameJoin
<1>7. Flat(s) \in [1 .. Len(s) -> Seq(C)]
  <2>1. \A j \in 1 .. Len(s) : Flat(s)[j] \in Seq(C)
    BY <1>2, <1>6, Zenon
  <2> QED
    BY <1>4, <2>1, Zenon
<1> QED
  BY <1>3, <1>7

\* Two sequences that begin alike have sums that begin alike.
LEMMA JoinPrefix ==
  ASSUME NEW n \in Nat, NEW s, NEW t, NEW G, Joined(G, t, n + 1), \A j \in 1 .. n : t[j] = s[j]
  PROVE  Joined(G, s, n)
<1> SUFFICES ASSUME NEW j \in 1 .. n
             PROVE  G[j] = IF j = 1 THEN s[j] ELSE G[j - 1] \o s[j]
  BY DEF Joined
<1>1. j \in 1 .. n + 1 /\ t[j] = s[j]
  OBVIOUS
<1> QED
  BY <1>1 DEF Joined

LEMMA JoinNext ==
  ASSUME NEW n \in Nat, n # 0, NEW t, NEW G, Joined(G, t, n + 1)
  PROVE  G[n + 1] = G[n] \o t[n + 1]
<1>1. n + 1 \in 1 .. n + 1
  OBVIOUS
<1> SUFFICES ASSUME NEW k \in 1 .. n + 1, k = n + 1 PROVE G[k] = G[n] \o t[k]
  BY <1>1
<1>2. G[k] = IF k = 1 THEN t[k] ELSE G[k - 1] \o t[k]
  BY DEF Joined
<1>3. k # 1 /\ k - 1 = n
  OBVIOUS
<1> QED
  BY <1>2, <1>3

\* One entry more: its text is added behind.
LEMMA FlattenAppend ==
  ASSUME NEW C, NEW s \in Seq(Seq(C)), NEW e \in Seq(C)
  PROVE  /\ FlattenSeq(s) \in Seq(C)
         /\ FlattenSeq(Append(s, e)) = FlattenSeq(s) \o e
<1> DEFINE t == Append(s, e)
<1>1. /\ t \in Seq(Seq(C)) /\ Len(s) \in Nat /\ Len(t) = Len(s) + 1
      /\ t[Len(s) + 1] = e /\ \A j \in 1 .. Len(s) : t[j] = s[j]
  BY AppendProperties, LenProperties
<1> HIDE DEF t
<1>2. /\ Flat(s) \in [1 .. Len(s) -> Seq(C)] /\ Joined(Flat(s), s, Len(s))
      /\ Flat(t) \in [1 .. Len(t) -> Seq(C)] /\ Joined(Flat(t), t, Len(t))
  BY <1>1, FlatFacts
<1>3. FlattenSeq(t) = Flat(t)[Len(s) + 1]
  BY <1>1, FlattenIs
<1>4. CASE Len(s) = 0
  <2>1. s = <<>> /\ FlattenSeq(s) = s
    BY <1>4, EmptySeq, Zenon DEF FlattenSeq
  <2>2. Flat(t)[1] = t[1]
    BY <1>1, <1>2, <1>4 DEF Joined
  <2>3. <<>> \o e = e
    BY ConcatEmptySeq
  <2>4. FlattenSeq(t) = e
    BY <1>1, <1>3, <1>4, <2>2
  <2>5. <<>> \in Seq(C)
    OBVIOUS
  <2> QED
    BY <2>1, <2>3, <2>4, <2>5, Zenon DEF t
<1>5. CASE Len(s) # 0
  <2>1. FlattenSeq(s) = Flat(s)[Len(s)]
    BY <1>5, FlattenIs
  <2>2. Flat(s)[Len(s)] \in Seq(C) /\ Flat(t)[Len(s) + 1] = Flat(s)[Len(s)] \o e
    <3>1. PICK n, F, G : n = Len(s) /\ F = Flat(s) /\ G = Flat(t)
      OBVIOUS
    <3>2. n \in Nat /\ n # 0 /\ \A j \in 1 .. n : t[j] = s[j]
      BY <1>1, <1>5, <3>1
    <3>3. F \in [1 .. n -> Seq(C)] /\ Joined(F, s, n)
      BY <1>2, <3>1
    <3>4. Joined(G, t, n + 1)
      BY <1>1, <1>2, <3>1
    <3>5. F[n] \in Seq(C)
      BY <3>2, <3>3
    <3>6. G[n + 1] = F[n] \o t[n + 1]
      <4>1. Joined(G, s, n)
        BY <3>2, <3>4, JoinPrefix
      <4>2. n \in 1 .. n
        BY <3>2
      <4>3. G[n] = F[n]
        BY <3>2, <3>3, <4>1, <4>2, SameJoin
      <4> QED
        BY <3>2, <3>4, <4>3, JoinNext, ZenonT(40)
    <3> QED
      BY <1>1, <3>1, <3>5, <3>6
  <2> QED
    BY <1>3, <2>1, <2>2 DEF t
<1> QED
  BY <1>1, <1>4, <1>5

-----------------------------------------------------------------------------
(* LogFormatter: the error flag.                                           *)

\* While LogFormatter::init reads a pattern, it has noticed as much as is wrong
\* with the directives before its position.
THEOREM FormatterInvariance == Spec => []FInv
<1> QED
  BY InitFInv, StepFInv, PTL DEF Spec

\* When LogFormatter::init is done, iserror holds exactly if some directive of
\* the pattern has no item or a format that is not closed.
THEOREM ErrorIsExact == Spec => []ErrorExact
<1>1. ASSUME FInv PROVE ErrorExact
  <2>1. ASSUME done PROVE error <=> \E k \in Starts : ~Right(k)
    <3>1. /\ pattern \in Seq(Characters) /\ i > Len(pattern) /\ i \in 1 .. Len(pattern) + 1
          /\ (error <=> WrongBefore(i))
      BY <1>1, <2>1 DEF FInv
    <3>2. \A k \in Starts : k < i
      BY <3>1 DEF Starts
    <3> QED
      BY <3>1, <3>2 DEF WrongBefore
  <2> QED
    BY <2>1 DEF ErrorExact
<1> QED
  BY <1>1, FormatterInvariance, PTL

\* What LogFormatter::init keeps while it reads has the types it declares.
THEOREM FormatterTypes == Spec => []TypeOK
<1>1. ASSUME FInv PROVE TypeOK
  <2>1. MaxLen \in Nat /\ Len(pattern) \in Nat /\ i \in 1 .. MaxLen + 1
    BY <1>1, FormatterAssumption DEF FInv
  <2>2. \A k \in DOMAIN vec : vec[k].kind \in {0, 1, 2}
    <3>1. vec \in Seq(Entries)
      BY <1>1 DEF FInv
    <3>2. \A k \in DOMAIN vec : vec[k] \in Entries
      <4> HIDE DEF Entries
      <4> QED
        BY <3>1
    <3>3. \A e \in Entries : e.kind \in {0, 1, 2}
      BY DEF Entries
    <3> QED
      BY <3>2, <3>3
  <2> QED
    BY <1>1, <2>1, <2>2 DEF TypeOK, FInv
<1> QED
  BY <1>1, FormatterInvariance, PTL

-----------------------------------------------------------------------------
(* The entries, put together, against the pattern.                         *)

Texts == Characters \cup {PatternError}

TextOf(v) == FlattenSeq([k \in DOMAIN v |-> Source(v[k])])
Clean(v) == \A k \in DOMAIN v : v[k].str # <<PatternError>>

\* The inductive invariant: as long as no format is unclosed, the entries and
\* the text that waits are what was read of the pattern.
NInv == Clean(vec) => IF done THEN TextOf(vec) = pattern
                      ELSE TextOf(vec) \o nstr = SubSeq(pattern, 1, i - 1)

LEMMA Widen == \A s \in Seq(Characters) : s \in Seq(Texts)
<1>1. Characters \subseteq Texts
  BY DEF Texts
<1> HIDE DEF Characters
<1> QED
  BY <1>1, SeqMonotonic

LEMMA MapSeq ==
  ASSUME NEW S, NEW n \in Nat, NEW f \in [1 .. n -> S]
  PROVE  f \in Seq(S) /\ Len(f) = n
<1>1. f \in Seq(S)
  BY SeqDef
<1> QED
  BY <1>1, LenProperties

LEMMA SourceText == ASSUME NEW e \in Entries PROVE Source(e) \in Seq(Texts)
<1>1. e.kind \in {0, 1, 2} /\ e.str \in Seq(Texts) /\ e.fmt \in Seq(Texts)
  BY Widen DEF Entries, Texts
<1>2. <<Percent>> \in Seq(Texts) /\ <<Brace>> \in Seq(Texts)
  BY DEF Texts, Characters
<1>3. \A s, t \in Seq(Texts) : s \o t \in Seq(Texts)
  BY ConcatProperties
<1>4. <<Percent>> \o e.str \in Seq(Texts) /\ <<Percent>> \o e.str \o <<Brace>> \o e.fmt \in Seq(Texts)
  BY <1>1, <1>2, <1>3
<1>5. e.kind = 0 \/ e.kind = 1 \/ e.kind = 2
  BY <1>1
<1> QED
  BY <1>1, <1>4, <1>5 DEF Source

\* One more entry: its source comes behind.
LEMMA TextAppend ==
  ASSUME NEW v \in Seq(Entries), NEW e \in Entries
  PROVE  /\ TextOf(v) \in Seq(Texts) /\ Append(v, e) \in Seq(Entries)
         /\ TextOf(Append(v, e)) = TextOf(v) \o Source(e)
         /\ Clean(Append(v, e)) <=> Clean(v) /\ e.str # <<PatternError>>
<1> DEFINE sources == [k \in DOMAIN v |-> Source(v[k])]
           w == Append(v, e)
<1>1. /\ Len(v) \in Nat /\ DOMAIN v = 1 .. Len(v) /\ \A k \in 1 .. Len(v) : v[k] \in Entries
      /\ w \in Seq(Entries) /\ Len(w) = Len(v) + 1 /\ w[Len(v) + 1] = e
      /\ \A k \in 1 .. Len(v) : w[k] = v[k]
  BY LenProperties, ElementOfSeq, AppendProperties
<1> HIDE DEF w
<1>2. DOMAIN w = 1 .. Len(v) + 1
  BY <1>1, LenProperties
<1>3. sources \in Seq(Seq(Texts)) /\ Len(sources) = Len(v)
  <2>1. \A k \in 1 .. Len(v) : Source(v[k]) \in Seq(Texts)
    BY <1>1, SourceText
  <2>2. sources \in [1 .. Len(v) -> Seq(Texts)]
    <3> HIDE DEF Source, Texts
    <3> QED
      BY <1>1, <2>1
  <2> QED
    BY <1>1, <2>2, MapSeq
<1>4. [k \in DOMAIN w |-> Source(w[k])] = Append(sources, Source(e))
  <2> DEFINE more == [k \in DOMAIN w |-> Source(w[k])]
             longer == Append(sources, Source(e))
  <2>1. more \in Seq(Seq(Texts)) /\ Len(more) = Len(v) + 1
    <3>1. \A k \in 1 .. Len(v) + 1 : w[k] \in Entries
      BY <1>1, ElementOfSeq
    <3>2. \A k \in 1 .. Len(v) + 1 : Source(w[k]) \in Seq(Texts)
      BY <3>1, SourceText
    <3>3. more \in [1 .. Len(v) + 1 -> Seq(Texts)]
      <4> HIDE DEF Source, Texts
      <4> QED
        BY <1>2, <3>2
    <3>4. Len(v) + 1 \in Nat
      BY <1>1
    <3> QED
      BY <3>3, <3>4, MapSeq
  <2>2. Source(e) \in Seq(Texts)
    BY SourceText
  <2>3. /\ longer \in Seq(Seq(Texts)) /\ Len(longer) = Len(v) + 1 /\ longer[Len(v) + 1] = Source(e)
        /\ \A k \in 1 .. Len(v) : longer[k] = sources[k]
    <3> HIDE DEF sources
    <3> QED
      BY <1>3, <2>2, AppendProperties
  <2>4. \A k \in 1 .. Len(v) + 1 : more[k] = Source(w[k])
    BY <1>2
  <2>5. \A k \in 1 .. Len(v) : sources[k] = Source(v[k])
    BY <1>1
  <2> HIDE DEF more, longer, sources
  <2>6. \A k \in 1 .. Len(v) + 1 : more[k] = longer[k]
    <3> SUFFICES ASSUME NEW k \in 1 .. Len(v) + 1 PROVE more[k] = longer[k]
      OBVIOUS
    <3>1. CASE k = Len(v) + 1
      BY <1>1, <2>3, <2>4, <3>1
    <3>2. CASE k # Len(v) + 1
      <4>1. k \in 1 .. Len(v)
        BY <1>1, <3>2
      <4> QED
        BY <1>1, <2>3, <2>4, <2>5, <4>1, ZenonT(40)
    <3> QED
      BY <3>1, <3>2
  <2>7. more = longer
    BY <2>1, <2>3, <2>6, SeqEqual
  <2> QED
    BY <2>7 DEF more, longer
<1>5. TextOf(v) = FlattenSeq(sources) /\ TextOf(w) = FlattenSeq(Append(sources, Source(e)))
  BY <1>4 DEF TextOf
<1>6. TextOf(v) \in Seq(Texts) /\ TextOf(w) = TextOf(v) \o Source(e)
  <2>1. Source(e) \in Seq(Texts)
    BY SourceText
  <2> HIDE DEF sources
  <2> QED
    BY <1>3, <1>5, <2>1, FlattenAppend
<1>7. Clean(w) <=> Clean(v) /\ e.str # <<PatternError>>
  <2> DEFINE bad == <<PatternError>>
  <2> HIDE DEF bad
  <2>1. (\A k \in 1 .. Len(v) + 1 : w[k].str # bad) <=> (\A k \in 1 .. Len(v) : v[k].str # bad) /\ e.str # bad
    <3>1. \A k \in 1 .. Len(v) + 1 : k = Len(v) + 1 \/ k \in 1 .. Len(v)
      BY <1>1
    <3>2. Len(v) + 1 \in 1 .. Len(v) + 1 /\ 1 .. Len(v) \subseteq 1 .. Len(v) + 1
      BY <1>1
    <3> QED
      BY <1>1, <3>1, <3>2
  <2> QED
    BY <1>1, <1>2, <2>1 DEF Clean, bad
<1> QED
  BY <1>1, <1>6, <1>7 DEF w

\* The text before a directive is put away: nothing is added and nothing lost.
LEMMA FlushTextOf ==
  ASSUME nstr \in Seq(Characters), vec \in Seq(Entries)
  PROVE  /\ FlushText \in Seq(Entries)
         /\ TextOf(FlushText) = TextOf(vec) \o nstr /\ TextOf(vec) \in Seq(Texts)
         /\ Clean(FlushText) => Clean(vec)
<1> DEFINE e == Entry(0, nstr, <<>>)
<1>1. e \in Entries /\ Source(e) = nstr
  <2>1. nstr \in Seq(Characters \cup {PatternError})
    BY Widen DEF Texts
  <2>2. <<>> \in Seq(Characters)
    BY EmptySeq
  <2> QED
    BY <2>1, <2>2 DEF Entry, Entries, Source
<1> HIDE DEF e
<1>2. /\ TextOf(vec) \in Seq(Texts) /\ Append(vec, e) \in Seq(Entries)
      /\ TextOf(Append(vec, e)) = TextOf(vec) \o nstr
      /\ Clean(Append(vec, e)) => Clean(vec)
  BY <1>1, TextAppend
<1>3. CASE nstr = <<>>
  <2>1. TextOf(vec) \o <<>> = TextOf(vec)
    BY <1>2, ConcatEmptySeq
  <2> QED
    BY <1>2, <1>3, <2>1 DEF FlushText
<1>4. CASE nstr # <<>>
  BY <1>2, <1>4 DEF FlushText, e
<1> QED
  BY <1>3, <1>4

LEMMA ConcatOne ==
  ASSUME NEW S, NEW s \in Seq(S), NEW t \in Seq(S), NEW c \in S
  PROVE  s \o Append(t, c) = (s \o t) \o <<c>>
<1>0. <<c>> \in Seq(S)
  OBVIOUS
<1>1. PICK u \in Seq(S) : u = <<c>>
  BY <1>0, Zenon
<1>2. Append(t, c) = t \o u
  BY <1>1, AppendIsConcat
<1>3. (s \o t) \o u = s \o (t \o u)
  BY ConcatAssociative, SMTT(30)
<1> QED
  BY <1>1, <1>2, <1>3, Zenon

\* One character more of the pattern is read as text.
LEMMA ReadCharacter ==
  ASSUME pattern \in Seq(Characters), nstr \in Seq(Characters), NEW k \in 1 .. Len(pattern),
         NEW text \in Seq(Texts), text \o nstr = SubSeq(pattern, 1, k - 1)
  PROVE  text \o Append(nstr, pattern[k]) = SubSeq(pattern, 1, k)
<1>1. /\ pattern[k] \in Characters /\ Characters \subseteq Texts /\ nstr \in Seq(Texts)
      /\ Len(pattern) \in Nat
  <2>1. pattern[k] \in Characters /\ Len(pattern) \in Nat
    <3> HIDE DEF Characters
    <3> QED
      BY ElementOfSeq, LenProperties
  <2>2. Characters \subseteq Texts
    BY DEF Texts
  <2> QED
    BY <2>1, <2>2, Widen
<1>2. text \o Append(nstr, pattern[k]) = (text \o nstr) \o <<pattern[k]>>
  <2>1. PICK c \in Texts : c = pattern[k]
    BY <1>1
  <2>2. PICK t \in Seq(Texts) : t = nstr
    BY <1>1
  <2>3. text \o Append(t, c) = (text \o t) \o <<c>>
    BY ConcatOne
  <2> QED
    BY <2>1, <2>2, <2>3, Zenon
<1>3. SubSeq(pattern, 1, k) = SubSeq(pattern, 1, k - 1) \o <<pattern[k]>>
  <2>1. 1 \in 1 .. Len(pattern) /\ k \in 1 .. Len(pattern)
    BY <1>1
  <2> QED
    BY <2>1, SubSeqRecursiveSecond
<1> QED
  BY <1>2, <1>3, Zenon

\* The stretch of the pattern from one of its characters on.
LEMMA FromCharacter ==
  ASSUME pattern \in Seq(Characters), NEW k \in DOMAIN pattern, NEW n \in (k + 1) .. Len(pattern) + 1
  PROVE  /\ <<pattern[k]>> \o Between(k, n) = SubSeq(pattern, k, n - 1)
         /\ SubSeq(pattern, 1, k - 1) \o SubSeq(pattern, k, n - 1) = SubSeq(pattern, 1, n - 1)
<1>1. k \in 1 .. Len(pattern) /\ Len(pattern) \in Nat
  BY LenProperties
<1>2. SubSeq(pattern, k, n - 1) = <<pattern[k]>> \o SubSeq(pattern, k + 1, n - 1)
  <2>1. n - 1 \in k .. Len(pattern)
    BY <1>1
  <2> QED
    BY <1>1, <2>1, SubSeqRecursiveFirst
<1>3. SubSeq(pattern, 1, k - 1) \o SubSeq(pattern, k, n - 1) = SubSeq(pattern, 1, n - 1)
  <2> DEFINE a == k - 1
             b == n - 1
  <2>1. a \in 1 - 1 .. Len(pattern) /\ b \in a .. Len(pattern) /\ 1 \in 1 .. Len(pattern) + 1 /\ a + 1 = k
    BY <1>1
  <2> HIDE DEF a, b
  <2>2. SubSeq(pattern, 1, a) \o SubSeq(pattern, a + 1, b) = SubSeq(pattern, 1, b)
    BY <2>1, ConcatAdjacentSubSeq
  <2> QED
    BY <2>1, <2>2 DEF a, b
<1> QED
  BY <1>2, <1>3 DEF Between

LEMMA InitNInv == ASSUME Init PROVE NInv
<1>1. i = 1 /\ nstr = <<>> /\ vec = <<>> /\ done = FALSE
  BY DEF Init
<1>2. TextOf(vec) = <<>>
  <2>1. [k \in DOMAIN vec |-> Source(vec[k])] = <<>>
    BY <1>1
  <2> QED
    BY <2>1, EmptySeq, Zenon DEF TextOf, FlattenSeq
<1>3. SubSeq(pattern, 1, i - 1) = <<>>
  BY <1>1, SubSeqEmpty
<1>4. TextOf(vec) \o nstr = <<>>
  BY <1>1, <1>2
<1> QED
  BY <1>1, <1>3, <1>4 DEF NInv

\* What the turns that read a directive have in common: the entry is the stretch
\* from the % to where the loop goes on.
LEMMA DirectiveNInv ==
  ASSUME FInv, NInv, Here(Percent), UNCHANGED <<pattern, done>>,
         NEW n \in (i + 1) .. Len(pattern) + 1, i' = n, nstr' = <<>>,
         NEW e \in Entries, vec' = Append(FlushText, e), Source(e) = SubSeq(pattern, i, n - 1)
  PROVE  NInv'
<1>1. /\ ~done /\ ~done' /\ pattern \in Seq(Characters) /\ i \in DOMAIN pattern
      /\ nstr \in Seq(Characters) /\ vec \in Seq(Entries)
  BY DEF FInv, Here
<1>2. /\ FlushText \in Seq(Entries)
      /\ TextOf(FlushText) = TextOf(vec) \o nstr /\ TextOf(vec) \in Seq(Texts)
      /\ Clean(FlushText) => Clean(vec)
  BY <1>1, FlushTextOf
<1>3. TextOf(vec') = TextOf(FlushText) \o Source(e) /\ (Clean(vec') => Clean(FlushText))
      /\ TextOf(vec') \in Seq(Texts)
  <2> DEFINE before == FlushText
  <2>1. before \in Seq(Entries) /\ vec' = Append(before, e)
    BY <1>2
  <2> HIDE DEF before
  <2>2. /\ TextOf(Append(before, e)) = TextOf(before) \o Source(e) /\ (Clean(Append(before, e)) => Clean(before))
        /\ Append(before, e) \in Seq(Entries)
    BY <2>1, TextAppend
  <2>3. TextOf(Append(before, e)) \in Seq(Texts)
    BY <2>2, TextAppend
  <2> QED
    BY <2>1, <2>2, <2>3 DEF before
<1>4. ASSUME Clean(vec') PROVE TextOf(vec') \o nstr' = SubSeq(pattern', 1, i' - 1)
  <2>1. TextOf(vec) \o nstr = SubSeq(pattern, 1, i - 1)
    BY <1>1, <1>2, <1>3, <1>4 DEF NInv
  <2>2. SubSeq(pattern, 1, i - 1) \o SubSeq(pattern, i, n - 1) = SubSeq(pattern, 1, n - 1)
    BY <1>1, FromCharacter
  <2>3. TextOf(vec') = SubSeq(pattern, 1, n - 1)
    BY <1>2, <1>3, <2>1, <2>2
  <2>4. TextOf(vec') \o <<>> = TextOf(vec')
    BY <1>3, ConcatEmptySeq
  <2> QED
    BY <2>3, <2>4
<1> QED
  BY <1>1, <1>4 DEF NInv

LEMMA TextNInv ==
  ASSUME FInv, NInv, Literal \/ Escape
  PROVE  NInv'
<1>1. /\ ~done /\ i <= Len(pattern) /\ UNCHANGED <<pattern, vec, done>> /\ i' = i + 1
      /\ nstr' = Append(nstr, pattern[i])
  BY DEF Literal, Escape, Escaped, Here
<1>2. pattern \in Seq(Characters) /\ i \in 1 .. Len(pattern) /\ nstr \in Seq(Characters) /\ vec \in Seq(Entries)
  BY <1>1 DEF FInv
<1>3. TextOf(vec) \in Seq(Texts)
  BY <1>2, FlushTextOf
<1>4. ASSUME Clean(vec) PROVE TextOf(vec) \o nstr' = SubSeq(pattern, 1, i)
  <2>1. TextOf(vec) \o nstr = SubSeq(pattern, 1, i - 1)
    BY <1>1, <1>4 DEF NInv
  <2> QED
    BY <1>1, <1>2, <1>3, <2>1, ReadCharacter
<1>5. i' - 1 = i
  BY <1>1, <1>2
<1> QED
  BY <1>1, <1>4, <1>5 DEF NInv

LEMMA PlainDirectiveNInv == ASSUME FInv, NInv, Directive PROVE NInv'
<1> DEFINE n == StopAt(i)
           e == Entry(1, Between(i, n), <<>>)
<1>1. /\ Here(Percent) /\ UNCHANGED <<pattern, done>>
      /\ i' = n /\ nstr' = <<>> /\ vec' = Append(FlushText, e)
  BY DEF Directive, GoOn
<1>2. pattern \in Seq(Characters) /\ i \in DOMAIN pattern /\ pattern[i] = Percent
  BY <1>1 DEF FInv, Here
<1>3. n \in (i + 1) .. Len(pattern) + 1
  BY <1>2, Stretch
<1>4. e \in Entries
  <2>1. Between(i, n) \in Seq(Characters \cup {PatternError})
    BY <1>2, <1>3, BetweenIsString
  <2> QED
    BY <2>1 DEF Entry, Entries
<1>5. Source(e) = SubSeq(pattern, i, n - 1)
  <2>1. Source(e) = <<Percent>> \o Between(i, n)
    BY DEF Source, Entry
  <2>2. <<pattern[i]>> \o Between(i, n) = SubSeq(pattern, i, n - 1)
    <3> HIDE DEF n
    <3> QED
      BY <1>2, <1>3, FromCharacter
  <2> QED
    BY <1>2, <2>1, <2>2
<1> HIDE DEF n, e
<1> QED
  BY <1>1, <1>3, <1>4, <1>5, DirectiveNInv

LEMMA UnclosedNInv == ASSUME FInv, NInv, Unclosed PROVE NInv'
<1>1. vec' = Append(vec, Entry(0, <<PatternError>>, <<>>)) /\ vec \in Seq(Entries)
  BY DEF Unclosed, FInv
<1>2. Entry(0, <<PatternError>>, <<>>) \in Entries /\ Entry(0, <<PatternError>>, <<>>).str = <<PatternError>>
  BY DEF Entry, Entries
<1>3. ~Clean(vec')
  BY <1>1, <1>2, TextAppend
<1> QED
  BY <1>3 DEF NInv

LEMMA FinishNInv == ASSUME FInv, NInv, Finish PROVE NInv'
<1>1. ~done /\ i > Len(pattern) /\ done' /\ UNCHANGED pattern /\ vec' = FlushText
  BY DEF Finish
<1>2. /\ pattern \in Seq(Characters) /\ i \in 1 .. Len(pattern) + 1
      /\ nstr \in Seq(Characters) /\ vec \in Seq(Entries)
  BY DEF FInv
<1>3. TextOf(vec') = TextOf(vec) \o nstr /\ (Clean(vec') => Clean(vec))
  BY <1>1, <1>2, FlushTextOf
<1>4. SubSeq(pattern, 1, i - 1) = pattern
  <2>1. i - 1 = Len(pattern)
    BY <1>1, <1>2
  <2>2. SubSeq(pattern, 1, Len(pattern)) = pattern
    BY <1>2, SubSeqFull
  <2> QED
    BY <2>1, <2>2
<1> QED
  BY <1>1, <1>3, <1>4 DEF NInv

LEMMA WithFormatNInv == ASSUME FInv, NInv, WithFormat PROVE NInv'
<1> DEFINE open == First({Brace}, i)
           close == First({EndBrace}, First({Brace}, i))
           e == Entry(2, Between(i, open), Between(open, close))
<1>1. /\ Here(Percent) /\ Opened(i) /\ UNCHANGED <<pattern, done>>
      /\ ClosedBefore(i)
      /\ i' = close /\ nstr' = <<>> /\ vec' = Append(FlushText, e)
  BY DEF WithFormat, GoOn
<1>2. /\ pattern \in Seq(Characters) /\ i \in DOMAIN pattern /\ pattern[i] = Percent
      /\ Len(pattern) \in Nat /\ i \in 1 .. Len(pattern)
  BY <1>1 DEF FInv, Here
<1>3. /\ open \in (i + 1) .. Len(pattern) /\ pattern[open] = Brace
      /\ close \in (open + 1) .. Len(pattern) + 1
  <2>1. open \in After(i) /\ close \in (open + 1) .. Len(pattern) + 1
    BY <1>1, <1>2, OpenedFacts, Zenon
  <2>2. open <= Len(pattern) => pattern[open] \in {Brace}
    <3>1. i \in 1 .. Len(pattern) + 1
      BY <1>2
    <3> QED
      BY <1>2, <3>1, FirstFacts, Zenon
  <2> QED
    BY <1>2, <2>1, <2>2 DEF After
<1> HIDE DEF open, close
<1>4. e \in Entries
  <2>1. Between(i, open) \in Seq(Characters \cup {PatternError})
    <3>1. open \in (i + 1) .. Len(pattern) + 1
      BY <1>2, <1>3
    <3> QED
      BY <1>2, <3>1, BetweenIsString
  <2>2. Between(open, close) \in Seq(Characters)
    <3>1. open \in DOMAIN pattern
      BY <1>2, <1>3
    <3> QED
      BY <1>2, <1>3, <3>1, BetweenIsString
  <2> QED
    BY <2>1, <2>2 DEF Entry, Entries
<1>5. close \in (i + 1) .. Len(pattern) + 1
  BY <1>2, <1>3
<1>6. Source(e) = SubSeq(pattern, i, close - 1)
  <2>1. Source(e) = <<Percent>> \o Between(i, open) \o <<Brace>> \o Between(open, close)
    BY DEF Source, Entry
  <2>2. <<Percent>> \o Between(i, open) = SubSeq(pattern, i, open - 1)
    <3>1. open \in (i + 1) .. Len(pattern) + 1
      BY <1>2, <1>3
    <3> QED
      BY <1>2, <3>1, FromCharacter
  <2>3. SubSeq(pattern, i, open) = SubSeq(pattern, i, open - 1) \o <<Brace>>
    <3>1. i \in 1 .. Len(pattern) /\ open \in i .. Len(pattern)
      BY <1>2, <1>3
    <3>2. SubSeq(pattern, i, open) = SubSeq(pattern, i, open - 1) \o <<pattern[open]>>
      BY <1>2, <3>1, SubSeqRecursiveSecond
    <3> QED
      BY <1>3, <3>2
  <2>4. SubSeq(pattern, i, open) \o SubSeq(pattern, open + 1, close - 1) = SubSeq(pattern, i, close - 1)
    <3> DEFINE b == close - 1
    <3>1. i \in 1 .. Len(pattern) + 1 /\ open \in i - 1 .. Len(pattern) /\ b \in open .. Len(pattern)
      BY <1>2, <1>3
    <3> HIDE DEF b
    <3>2. SubSeq(pattern, i, open) \o SubSeq(pattern, open + 1, b) = SubSeq(pattern, i, b)
      BY <1>2, <3>1, ConcatAdjacentSubSeq
    <3> QED
      BY <3>2 DEF b
  <2> QED
    BY <2>1, <2>2, <2>3, <2>4 DEF Between
<1> HIDE DEF e
<1> QED
  BY <1>1, <1>4, <1>5, <1>6, DirectiveNInv

LEMMA StepNInv == ASSUME FInv, NInv, [Next]_vars PROVE NInv'
<1>1. CASE Literal \/ Escape
  BY <1>1, TextNInv
<1>2. CASE Directive
  BY <1>2, PlainDirectiveNInv
<1>3. CASE WithFormat
  BY <1>3, WithFormatNInv
<1>4. CASE Unclosed
  BY <1>4, UnclosedNInv
<1>5. CASE Finish
  BY <1>5, FinishNInv
<1>6. CASE UNCHANGED vars
  BY <1>6 DEF NInv, vars
<1> QED
  BY <1>1, <1>2, <1>3, <1>4, <1>5, <1>6 DEF Next

-----------------------------------------------------------------------------
(* LogFormatter: nothing is lost.                                          *)

\* While LogFormatter::init reads a pattern in which every format so far is
\* closed, its entries and the waiting text are the pattern up to its position.
THEOREM TextInvariance == Spec => []NInv
<1>1. Init => NInv
  BY InitNInv
<1>2. FInv /\ NInv /\ [Next]_vars => NInv'
  BY StepNInv
<1> QED
  BY <1>1, <1>2, FormatterInvariance, PTL DEF Spec

\* LogFormatter::init reads everything of a pattern without an unclosed format
\* once and in its order.
THEOREM NothingIsLost == Spec => []NothingLost
<1>1. ASSUME NInv PROVE NothingLost
  <2>1. done /\ Clean(vec) => TextOf(vec) = pattern
    BY <1>1 DEF NInv
  <2> QED
    BY <2>1 DEF NothingLost, Clean, TextOf
<1> QED
  BY <1>1, TextInvariance, PTL

-----------------------------------------------------------------------------
(* LogDefiner: levels.                                                     *)

LEMMA LevelRange == \A text : D!LevelFrom(text) \in 0 .. 5
<1> SUFFICES ASSUME NEW text PROVE D!LevelFrom(text) \in 0 .. 5
  OBVIOUS
<1>1. CASE text \in D!LevelNames
  <2>1. D!Value(text) \in 1 .. 5
    BY <1>1 DEF D!LevelNames, D!Value
  <2> QED
    BY <1>1, <2>1 DEF D!LevelFrom
<1>2. CASE text \notin D!LevelNames
  BY <1>2 DEF D!LevelFrom
<1> QED
  BY <1>1, <1>2

\* A level is written as a text that is read as this level.
LEMMA LevelSurvives ==
  ASSUME NEW level \in 0 .. 5
  PROVE  D!LevelText(level) \in D!Levels /\ D!LevelFrom(D!LevelText(level)) = level
<1>1. CASE level = 0
  <2>1. D!LevelText(level) = "UNKNOW" /\ "UNKNOW" \notin D!LevelNames
    BY <1>1 DEF D!LevelText, D!LevelNames
  <2> QED
    BY <1>1, <2>1 DEF D!LevelFrom, D!Levels
<1>2. CASE level # 0
  <2>1. \E n \in D!LevelNames : D!Value(n) = level
    <3>1. level \in {1, 2, 3, 4, 5}
      BY <1>2
    <3> QED
      BY <3>1 DEF D!LevelNames, D!Value
  <2>2. D!LevelText(level) = CHOOSE n \in D!LevelNames : D!Value(n) = level
    BY <1>2 DEF D!LevelText
  <2>3. D!LevelText(level) \in D!LevelNames /\ D!Value(D!LevelText(level)) = level
    BY <2>1, <2>2, Zenon
  <2> QED
    BY <2>3 DEF D!LevelFrom, D!Levels
<1> QED
  BY <1>1, <1>2

-----------------------------------------------------------------------------
(* LogDefiner: from a document to the value.                               *)

\* An appender that an object can be made for.
Useful == [type : {1, 2}, level : 0 .. 5]

LEMMA FlattenType == ASSUME NEW C, NEW s \in Seq(Seq(C)) PROVE FlattenSeq(s) \in Seq(C)
<1>1. <<>> \in Seq(C)
  BY EmptySeq
<1> QED
  BY <1>1, FlattenAppend

LEMMA AppendersUseful ==
  ASSUME NEW aps \in Seq(D!AppenderEntries)
  PROVE  D!Appenders(aps) \in Seq(Useful)
<1> DEFINE one(k) == IF D!Kept(aps[k]) THEN <<D!Appender(aps[k])>> ELSE <<>>
           each == [k \in DOMAIN aps |-> one(k)]
<1>1. ASSUME NEW k \in DOMAIN aps PROVE one(k) \in Seq(Useful)
  <2>1. CASE D!Kept(aps[k])
    <3>1. D!Appender(aps[k]) \in Useful
      <4>1. D!LevelFrom(aps[k].level) \in 0 .. 5
        BY LevelRange
      <4>2. aps[k].type = D!FileType \/ aps[k].type = D!StdoutType
        BY <2>1 DEF D!Kept
      <4> QED
        BY <4>1, <4>2 DEF D!Appender, Useful
    <3> HIDE DEF Useful
    <3> QED
      BY <2>1, <3>1
  <2>2. CASE ~D!Kept(aps[k])
    BY <2>2, EmptySeq
  <2> QED
    BY <2>1, <2>2
<1>2. each \in Seq(Seq(Useful))
  <2>1. Len(aps) \in Nat /\ DOMAIN aps = 1 .. Len(aps)
    BY LenProperties
  <2>2. each \in [1 .. Len(aps) -> Seq(Useful)]
    <3> HIDE DEF one, Useful
    <3> QED
      BY <1>1, <2>1
  <2> QED
    BY <2>1, <2>2, MapSeq
<1>3. D!Appenders(aps) = FlattenSeq(each)
  BY Zenon DEF D!Appenders, D!FlattenSeq, FlattenSeq
<1> HIDE DEF each
<1> QED
  BY <1>2, <1>3, FlattenType

\* What holds of a value: one definition for a name, which can be used.
Usable ==
  [name : Names, level : 0 .. 5, formatter_ : Formatters \cup {Absent}, appenders_ : Seq(Useful)]

ValueOK(v) ==
  /\ IsFiniteSet(v)
  /\ \A def \in v : def \in Usable
  /\ \A a, b \in v : a.name = b.name => a = b

LEMMA DefinerUsable ==
  ASSUME NEW e \in D!Entries, e.name # Absent
  PROVE  /\ D!Definer(e) \in Usable /\ D!Definer(e).name = e.name
<1>1. /\ e.name \in Names /\ e.formatter_ \in Formatters \cup {Absent}
      /\ e.appenders \in Seq(D!AppenderEntries)
  BY DEF D!Entries
<1>2. D!Appenders(e.appenders) \in Seq(Useful) /\ D!LevelFrom(e.level) \in 0 .. 5
  BY <1>1, AppendersUseful, LevelRange
<1> QED
  BY <1>1, <1>2 DEF D!Definer, Usable

\* A document gives a value with one definition for a name.
LEMMA LoadedOK ==
  ASSUME NEW d \in Seq(D!Entries)
  PROVE  ValueOK(D!fromString(d))
<1> DEFINE firsts == {j \in DOMAIN d : D!FirstOfName(d, j)}
           v == D!fromString(d)
           f == [k \in firsts |-> D!Definer(d[k])]
<1>1. Len(d) \in Nat /\ DOMAIN d = 1 .. Len(d)
  BY LenProperties
<1>2. \A k \in firsts : k \in 1 .. Len(d) /\ d[k] \in D!Entries /\ d[k].name # Absent
  BY <1>1, ElementOfSeq DEF D!FirstOfName
<1>3. v = {D!Definer(d[k]) : k \in firsts}
  BY DEF D!fromString
<1>4. ASSUME NEW def \in v
      PROVE  \E k \in firsts : def = D!Definer(d[k]) /\ def.name = d[k].name /\ def \in Usable
  <2>1. PICK k \in firsts : def = D!Definer(d[k])
    BY <1>3
  <2> QED
    BY <1>2, <2>1, DefinerUsable
<1>5. ASSUME NEW a \in v, NEW b \in v, a.name = b.name PROVE a = b
  <2>1. PICK j \in firsts : a = D!Definer(d[j]) /\ a.name = d[j].name
    BY <1>4
  <2>2. PICK k \in firsts : b = D!Definer(d[k]) /\ b.name = d[k].name
    BY <1>4
  <2>3. ~(j < k) /\ ~(k < j)
    <3>1. j \in Nat /\ k \in Nat /\ j >= 1 /\ k >= 1
      BY <1>1, <1>2
    <3>2. /\ \A m \in 1 .. (k - 1) : d[m].name # d[k].name
          /\ \A m \in 1 .. (j - 1) : d[m].name # d[j].name
      BY DEF D!FirstOfName
    <3> QED
      BY <1>5, <2>1, <2>2, <3>1, <3>2
  <2>4. j = k
    BY <1>1, <1>2, <2>3
  <2> QED
    BY <2>1, <2>2, <2>4
<1>6. IsFiniteSet(v)
  <2>1. IsFiniteSet(firsts)
    <3>1. IsFiniteSet(1 .. Len(d))
      BY <1>1, FS_Interval
    <3>2. firsts \in SUBSET (1 .. Len(d))
      BY <1>2
    <3> QED
      BY <3>1, <3>2, FS_Subset
  <2>2. f \in Surjection(firsts, v)
    <3>1. f \in [firsts -> v]
      BY <1>3
    <3>2. \A t \in v : \E k \in firsts : f[k] = t
      BY <1>3
    <3> HIDE DEF firsts, v, f
    <3> QED
      BY <3>1, <3>2, Fun_IsSurj
  <2> HIDE DEF firsts, v, f
  <2> QED
    BY <2>1, <2>2, FS_Surjection
<1>7. \A def \in v : def \in Usable
  BY <1>4
<1> HIDE DEF v
<1>8. ValueOK(v)
  BY <1>5, <1>6, <1>7 DEF ValueOK
<1> QED
  BY <1>8 DEF v

-----------------------------------------------------------------------------
(* LogDefiner: from the value to a document.                               *)

LEMMA SameSetToSeq == ASSUME NEW s PROVE D!SetToSeq(s) = SetToSeq(s)
<1>1. D!Cardinality(s) = Cardinality(s)
  BY Zenon DEF Cardinality, D!Cardinality
<1> QED
  BY <1>1, Zenon DEF SetToSeq, D!SetToSeq, IsInjective, D!IsInjective

\* The set is written entry by entry, each of its members once.
LEMMA SetToSeqFacts ==
  ASSUME NEW v, IsFiniteSet(v)
  PROVE  /\ Cardinality(v) \in Nat
         /\ SetToSeq(v) \in [1 .. Cardinality(v) -> v]
         /\ \A j, k \in 1 .. Cardinality(v) : SetToSeq(v)[j] = SetToSeq(v)[k] => j = k
         /\ \A def \in v : \E k \in 1 .. Cardinality(v) : SetToSeq(v)[k] = def
<1> DEFINE n == Cardinality(v)
           s == SetToSeq(v)
<1>1. n \in Nat /\ ExistsBijection(1 .. n, v)
  BY FS_CardinalityType
<1> HIDE DEF n
<1>2. PICK g : g \in Bijection(1 .. n, v)
  BY <1>1, Fun_ExistsBij
<1>3. g \in Injection(1 .. n, v)
  BY <1>2, Fun_BijectionProperties
<1>4. s = CHOOSE f \in [1 .. n -> v] : IsInjective(f)
  BY DEF SetToSeq, n
<1> HIDE DEF s
<1>5. s \in [1 .. n -> v] /\ IsInjective(s)
  <2>1. \E f \in [1 .. n -> v] : IsInjective(f)
    BY <1>3 DEF Injection
  <2> QED
    BY <1>4, <2>1, Zenon
<1>6. s \in Injection(1 .. n, v)
  BY <1>5 DEF Injection
<1>7. IsFiniteSet(1 .. n) /\ Cardinality(1 .. n) = Cardinality(v)
  <2>1. Cardinality(1 .. n) = n
    BY <1>1, FS_Interval
  <2>2. IsFiniteSet(1 .. n)
    BY <1>1, FS_Interval
  <2> QED
    BY <2>1, <2>2 DEF n
<1>8. s \in Surjection(1 .. n, v)
  BY <1>6, <1>7, FS_Injection
<1>9. /\ \A j, k \in 1 .. n : s[j] = s[k] => j = k
      /\ \A def \in v : \E k \in 1 .. n : s[k] = def
  <2>1. \A j, k \in 1 .. n : s[j] = s[k] => j = k
    BY <1>6, Fun_InjectionProperties, Zenon
  <2>2. \A def \in v : \E k \in 1 .. n : s[k] = def
    BY <1>8, Zenon DEF Surjection
  <2> QED
    BY <2>1, <2>2
<1> QED
  BY <1>1, <1>5, <1>9 DEF n, s

\* An entry of a saved document is one that documents may have.
LEMMA EntryTyped == ASSUME NEW def \in Usable PROVE D!EntryOf(def) \in D!Entries
<1> DEFINE aps == def.appenders_
           entries == [k \in DOMAIN aps |-> D!AppenderEntry(aps[k])]
<1>1. /\ def.name \in Names /\ def.level \in 0 .. 5 /\ def.formatter_ \in Formatters \cup {Absent}
      /\ aps \in Seq(Useful)
  BY DEF Usable
<1>2. ASSUME NEW ap \in Useful PROVE D!AppenderEntry(ap) \in D!AppenderEntries
  <2>1. D!LevelText(ap.level) \in D!Levels
    BY LevelSurvives DEF Useful
  <2> QED
    BY <2>1 DEF D!AppenderEntry, D!AppenderEntries, Useful
<1>3. entries \in Seq(D!AppenderEntries)
  <2>1. Len(aps) \in Nat /\ DOMAIN aps = 1 .. Len(aps) /\ \A k \in 1 .. Len(aps) : aps[k] \in Useful
    BY <1>1, LenProperties, ElementOfSeq
  <2> HIDE DEF aps
  <2>2. \A k \in 1 .. Len(aps) : D!AppenderEntry(aps[k]) \in D!AppenderEntries
    BY <1>2, <2>1
  <2>3. entries \in [1 .. Len(aps) -> D!AppenderEntries]
    BY <2>1, <2>2
  <2> QED
    BY <2>1, <2>3, MapSeq
<1>4. D!LevelText(def.level) \in D!Levels
  BY <1>1, LevelSurvives
<1>5. <<>> \in Seq(D!AppenderEntries)
  BY EmptySeq
<1> HIDE DEF aps
<1>6. D!EntryOf(def) = [name |-> def.name, level |-> D!LevelText(def.level), formatter_ |-> def.formatter_,
                        appenders |-> <<>>, appenders_ |-> entries]
  BY DEF D!EntryOf, D!WrittenLevel, aps
<1> HIDE DEF entries
<1> QED
  BY <1>1, <1>3, <1>4, <1>5, <1>6 DEF D!Entries

\* A saved value is a document that has an entry for each of its definitions.
LEMMA SavedDocument ==
  ASSUME NEW v, ValueOK(v)
  PROVE  /\ Cardinality(v) \in Nat /\ D!toString(v) \in Seq(D!Entries)
         /\ DOMAIN D!toString(v) = 1 .. Cardinality(v)
         /\ \A k \in 1 .. Cardinality(v) :
              SetToSeq(v)[k] \in v /\ D!toString(v)[k] = D!EntryOf(SetToSeq(v)[k])
<1> DEFINE s == SetToSeq(v)
           n == Cardinality(v)
           d == D!toString(v)
<1>1. n \in Nat /\ s \in [1 .. n -> v] /\ DOMAIN s = 1 .. n
  BY SetToSeqFacts DEF ValueOK
<1>2. d = [k \in DOMAIN s |-> D!EntryOf(s[k])]
  BY SameSetToSeq DEF D!toString
<1> HIDE DEF s, n, d
<1>3. /\ DOMAIN d = 1 .. n
      /\ \A k \in 1 .. n : s[k] \in v /\ d[k] = D!EntryOf(s[k])
  BY <1>1, <1>2
<1>4. \A k \in 1 .. n : d[k] \in D!Entries
  <2>1. \A def \in v : def \in Usable
    BY DEF ValueOK
  <2> QED
    BY <1>3, <2>1, EntryTyped
<1>5. d \in Seq(D!Entries)
  <2>1. d \in [1 .. n -> D!Entries]
    BY <1>1, <1>2, <1>4
  <2> QED
    BY <1>1, <2>1, MapSeq
<1> QED
  BY <1>1, <1>3, <1>5 DEF s, n, d

\* In a saved document no name comes twice, so that every entry is read.
LEMMA SavedNames ==
  ASSUME NEW v, ValueOK(v), NEW k \in 1 .. Cardinality(v)
  PROVE  D!FirstOfName(D!toString(v), k)
<1> DEFINE s == SetToSeq(v)
           n == Cardinality(v)
           d == D!toString(v)
<1>1. /\ n \in Nat /\ k \in 1 .. n
      /\ \A j \in 1 .. n : s[j] \in v /\ d[j] = D!EntryOf(s[j])
  BY SavedDocument
<1>2. \A i1, i2 \in 1 .. n : s[i1] = s[i2] => i1 = i2
  BY SetToSeqFacts DEF ValueOK
<1> HIDE DEF s, n, d
<1>3. \A j \in 1 .. n : d[j].name = s[j].name /\ s[j].name \in Names
  <2>1. \A def \in v : D!EntryOf(def).name = def.name /\ def.name \in Names
    BY DEF ValueOK, Usable, D!EntryOf
  <2> QED
    BY <1>1, <2>1
<1>4. d[k].name # Absent
  <2>1. Absent \notin Names
    BY MCTextAssumption DEF D!DefinerAssumption
  <2> QED
    BY <1>1, <1>3, <2>1
<1>5. ASSUME NEW j \in 1 .. (k - 1) PROVE d[j].name # d[k].name
  <2>1. j \in 1 .. n /\ j # k
    BY <1>1
  <2>2. s[j] # s[k] /\ s[j] \in v /\ s[k] \in v
    BY <1>1, <1>2, <2>1
  <2>3. s[j].name # s[k].name
    BY <2>2 DEF ValueOK
  <2> QED
    BY <1>1, <1>3, <2>1, <2>3
<1> QED
  BY <1>4, <1>5 DEF D!FirstOfName, d

\* Loading what was saved: the definitions are those of its entries.
LEMMA SavedLoads ==
  ASSUME NEW v, ValueOK(v)
  PROVE  D!fromString(D!toString(v)) = {D!Definer(D!EntryOf(def)) : def \in v}
<1> DEFINE s == SetToSeq(v)
           n == Cardinality(v)
           d == D!toString(v)
<1>1. /\ DOMAIN d = 1 .. n
      /\ \A k \in 1 .. n : s[k] \in v /\ d[k] = D!EntryOf(s[k])
  BY SavedDocument
<1>2. \A k \in 1 .. n : D!FirstOfName(d, k)
  BY SavedNames
<1>3. \A def \in v : \E k \in 1 .. n : s[k] = def
  BY SetToSeqFacts DEF ValueOK
<1> HIDE DEF s, n, d
<1>4. {j \in DOMAIN d : D!FirstOfName(d, j)} = 1 .. n
  BY <1>1, <1>2
<1>5. D!fromString(d) = {D!Definer(d[k]) : k \in 1 .. n}
  BY <1>4 DEF D!fromString
<1>6. {D!Definer(d[k]) : k \in 1 .. n} = {D!Definer(D!EntryOf(def)) : def \in v}
  BY <1>1, <1>3
<1> QED
  BY <1>5, <1>6 DEF d

\* A definition survives but for its appenders.
LEMMA DefinitionSurvives ==
  ASSUME NEW def \in Usable
  PROVE  [D!Definer(D!EntryOf(def)) EXCEPT !.appenders_ = <<>>] = [def EXCEPT !.appenders_ = <<>>]
<1>1. D!LevelFrom(D!LevelText(def.level)) = def.level
  BY LevelSurvives DEF Usable
<1>2. def = [name |-> def.name, level |-> def.level, formatter_ |-> def.formatter_,
             appenders_ |-> def.appenders_]
  BY DEF Usable
<1>3. PICK aps : D!Definer(D!EntryOf(def)) =
                   [name |-> def.name, level |-> def.level, formatter_ |-> def.formatter_, appenders_ |-> aps]
  BY <1>1 DEF D!Definer, D!EntryOf, D!WrittenLevel
<1> QED
  BY <1>2, <1>3

-----------------------------------------------------------------------------
(* LogDefiner: the invariant.                                              *)

\* The inductive invariant: the value can be used, and after a save the document
\* is the one that was made of the value that was saved.
DInv ==
  /\ doc \in Seq(D!Entries)
  /\ ValueOK(value)
  /\ saved # {} => ValueOK(saved) /\ doc = D!toString(saved)

LEMMA NoneOK == ValueOK({})
<1>1. IsFiniteSet({})
  BY FS_EmptySet
<1> QED
  BY <1>1 DEF ValueOK

LEMMA InitDInv == ASSUME MCInit PROVE DInv
<1>1. value = {} /\ saved = {} /\ (doc = <<>> \/ doc \in Documents)
  BY DEF MCInit, NoDocument, D!Init
<1>2. doc \in Seq(D!Entries)
  <2>1. \A d \in Documents : d \in Seq(D!Entries)
    BY MCTextAssumption DEF D!DefinerAssumption
  <2>2. <<>> \in Seq(D!Entries)
    BY EmptySeq
  <2> QED
    BY <1>1, <2>1, <2>2
<1> QED
  BY <1>1, <1>2, NoneOK DEF DInv

LEMMA StepDInv == ASSUME DInv, [D!Next]_D!vars PROVE DInv'
<1>1. CASE D!Load
  <2>1. value' = D!fromString(doc) /\ doc' = doc /\ saved' = saved
    BY <1>1 DEF D!Load
  <2>2. ValueOK(D!fromString(doc))
    BY LoadedOK DEF DInv
  <2>3. ValueOK(value')
    BY <2>1, <2>2
  <2> QED
    BY <2>1, <2>3 DEF DInv, ValueOK
<1>2. CASE D!Save
  <2>1. doc' = D!toString(value) /\ saved' = value /\ value' = value
    BY <1>2 DEF D!Save
  <2>2. ValueOK(value) /\ D!toString(value) \in Seq(D!Entries)
    BY SavedDocument DEF DInv
  <2>3. doc' \in Seq(D!Entries) /\ ValueOK(value') /\ ValueOK(saved') /\ doc' = D!toString(saved')
    BY <2>1, <2>2
  <2> QED
    BY <2>3 DEF DInv, ValueOK
<1>3. CASE UNCHANGED D!vars
  BY <1>3 DEF DInv, ValueOK, D!vars
<1> QED
  BY <1>1, <1>2, <1>3 DEF D!Next

\* What was saved is loaded with its names, levels and formatters.
LEMMA StepSurvives ==
  ASSUME DInv, D!Load, saved # {}
  PROVE  D!WithoutAppenders(value') = D!WithoutAppenders(saved)
<1>1. ValueOK(saved) /\ value' = {D!Definer(D!EntryOf(def)) : def \in saved}
  <2>1. ValueOK(saved) /\ value' = D!fromString(D!toString(saved))
    BY DEF DInv, D!Load
  <2> QED
    BY <2>1, SavedLoads
<1>2. D!WithoutAppenders(value') =
        {[D!Definer(D!EntryOf(def)) EXCEPT !.appenders_ = <<>>] : def \in saved}
  BY <1>1 DEF D!WithoutAppenders
<1>3. \A def \in saved :
        [D!Definer(D!EntryOf(def)) EXCEPT !.appenders_ = <<>>] = [def EXCEPT !.appenders_ = <<>>]
  BY <1>1, DefinitionSurvives DEF ValueOK
<1> QED
  BY <1>2, <1>3 DEF D!WithoutAppenders
-----------------------------------------------------------------------------
(* The two together, as MCLogText puts them: a behaviour is one of either. *)

LEMMA EitherInit == MCInit => Init /\ DInv
BY InitDInv DEF MCInit

LEMMA EitherStep ==
  ASSUME [MCNext]_<<part, vars, doc, value, saved>>
  PROVE  [Next]_vars /\ [D!Next]_D!vars
BY DEF MCNext, D!vars

\* Whatever is loaded and saved, Log_Config holds a usable value, and what
\* ConfigVar::toString wrote is the value that was saved.
THEOREM DefinerInvariance == MCSpec => []DInv
<1>1. MCInit => DInv
  BY EitherInit
<1>2. DInv /\ [MCNext]_<<part, vars, doc, value, saved>> => DInv'
  BY EitherStep, StepDInv
<1> QED
  BY <1>1, <1>2, PTL DEF MCSpec

\* A pattern is read whole by LogFormatter::init, and what LexicalCast makes of
\* a document can be used by the callback of Loginit: one definition for a name,
\* with appenders of the two known types only.
THEOREM TextIsRead == MCSpec => []TextInv
<1>1. MCSpec => Spec
  <2>1. MCInit => Init
    BY EitherInit
  <2>2. [MCNext]_<<part, vars, doc, value, saved>> => [Next]_vars
    BY EitherStep
  <2> QED
    BY <2>1, <2>2, PTL DEF MCSpec, Spec
<1>2. ASSUME DInv PROVE D!ValueUsable
  <2>1. \A def \in value : def \in Usable
    BY <1>2 DEF DInv, ValueOK
  <2>2. \A def \in Usable : def \in D!Definers /\ \A ap \in Range(def.appenders_) : ap.type \in {1, 2}
    <3> SUFFICES ASSUME NEW def \in Usable
                 PROVE  def \in D!Definers /\ \A ap \in Range(def.appenders_) : ap.type \in {1, 2}
      OBVIOUS
    <3>1. def.appenders_ \in Seq(Useful)
      BY DEF Usable
    <3>2. Useful \subseteq [type : 0 .. 2, level : 0 .. 5] /\ \A ap \in Useful : ap.type \in {1, 2}
      BY DEF Useful
    <3>3. def.appenders_ \in Seq([type : 0 .. 2, level : 0 .. 5])
      BY <3>1, <3>2, SeqMonotonic, Zenon
    <3>4. \A ap \in Range(def.appenders_) : ap \in Useful
      BY <3>1, LenProperties, ElementOfSeq DEF Range
    <3> QED
      BY <3>2, <3>3, <3>4 DEF Usable, D!Definers
  <2> QED
    BY <1>2, <2>1, <2>2 DEF D!ValueUsable, D!Range, Range, DInv, ValueOK
<1>3. TypeOK /\ NothingLost /\ D!ValueUsable => TextInv
  BY DEF TextInv
<1> QED
  BY <1>1, <1>2, <1>3, FormatterTypes, NothingIsLost, DefinerInvariance, PTL

\* Saving Log_Config and loading it again keeps every logger with its name, its
\* level and its formatter.
THEOREM LoggersAreKept == MCSpec => LoggersSurvive
<1>1. DInv /\ [MCNext]_<<part, vars, doc, value, saved>>
        => [D!Load /\ saved # {} => D!WithoutAppenders(value') = D!WithoutAppenders(saved)]_D!vars
  BY StepSurvives
<1> QED
  BY <1>1, DefinerInvariance, PTL DEF MCSpec, LoggersSurvive, D!LoggersSurvive
=============================================================================
