------------------------------ MODULE MCLogText -----------------------------
(***************************************************************************)
(* Small instances of what log.cpp reads from text: all patterns of up to  *)
(* MaxLen characters, with one known and one unknown letter; documents of  *)
(* up to two loggers with fields that are absent or unknown, and the one   *)
(* in conf.  The two share nothing: a behaviour is one of either.          *)
(***************************************************************************)
EXTENDS LogFormatter

CONSTANTS n1, n2, fm, Names, Formatters, LevelTexts, TypeTexts, Documents, Absent

VARIABLES part, doc, value, saved

D == INSTANCE LogDefiner

ASSUME MCTextAssumption == D!DefinerAssumption

KnownLetters == {<<"d">>}

Ap(type, level) == [type |-> type, level |-> level]
E(name, level, formatter, aps) ==
  [name |-> name, level |-> level, formatter_ |-> formatter, appenders |-> aps, appenders_ |-> <<>>]

SmallEntries ==
  {E(name, level, formatter, aps) :
     name \in {n1, n2, Absent}, level \in {"DEBUG", "info", Absent}, formatter \in {fm, Absent},
     aps \in {<<>>, <<Ap("RollingLogAppender", "INFO"), Ap("StdoutLogAppender", "FATAL")>>,
              <<Ap("FileLogAppender", Absent)>>}}
SmallDocuments == BoundedSeq(SmallEntries, 2)

\* conf/config.YAML.
ConfAppenders(types) == [k \in DOMAIN types |-> Ap(types[k], Absent)]
ConfDocument ==
  {<<E(n1, "info", Absent, ConfAppenders(<<"FileLogAppender", "StdoutLogAppender", "FileLogAppender">>)),
     E(n2, "info", Absent, ConfAppenders(<<"FileLogAppender", "StdoutLogAppender">>))>>}

-----------------------------------------------------------------------------
NoDocument == doc = <<>> /\ value = {} /\ saved = {}

MCInit ==
  \/ part = "pattern" /\ NoDocument /\ Init
  \/ part = "document" /\ pattern = <<>> /\ Init /\ D!Init

MCNext ==
  \/ part = "pattern" /\ Next /\ UNCHANGED <<part, doc, value, saved>>
  \/ part = "document" /\ D!Next /\ UNCHANGED <<part, vars>>

MCSpec == MCInit /\ [][MCNext]_<<part, vars, doc, value, saved>>

-----------------------------------------------------------------------------
(* The properties of both.                                                 *)

\* A pattern is read whole, and what is read of a document can be used by the
\* callback of Loginit.
TextInv == TypeOK /\ NothingLost /\ D!ValueUsable
\* A configuration survives that it is written and read: name, level, formatter.
LoggersSurvive == D!LoggersSurvive
\* config.h:114: it survives with its appenders, as the two conversions promise.
RoundTrip == D!RoundTrip
\* conf/config.YAML:3: a level that a document has is the level of its logger.
LevelsRead == D!LevelsRead
=============================================================================
