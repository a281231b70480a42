----------------------------- MODULE LogDefiner -----------------------------
(***************************************************************************)
(* The conversions between a YAML document and the value of Log_Config, a  *)
(* std::set<LogDefiner> (sylar/config.h, log.h, log.cpp): what a document  *)
(* says of loggers becomes the value, and ConfigVar::toString makes a      *)
(* document of it again.                                                   *)
(*                                                                         *)
(* A document is a sequence of entries whose fields may be absent.  The    *)
(* formatter and the file of an entry are copied as they are; of these two *)
(* only the formatter is kept, an appender is its type and its level.      *)
(***************************************************************************)
EXTENDS Integers, SequencesExt

CONSTANTS
  Names,       \* the names of loggers
  Formatters,  \* the formatters that are not empty
  LevelTexts,  \* what documents have for a level, other than level names
  TypeTexts,   \* what documents have for a type, other than the two known
  Documents,   \* the documents that are loaded
  Absent       \* no field; also the empty formatter

LevelNames == {"DEBUG", "INFO", "WARN", "ERROR", "FATAL"}
FileType == "FileLogAppender"
StdoutType == "StdoutLogAppender"

Levels == LevelTexts \cup LevelNames \cup {"UNKNOW", Absent}
AppenderEntries == [type : TypeTexts \cup {FileType, StdoutType, Absent}, level : Levels]
\* The key of the appenders is "appenders" or "appenders_".
Entries ==
  [name : Names \cup {Absent}, level : Levels, formatter_ : Formatters \cup {Absent},
   appenders : Seq(AppenderEntries), appenders_ : Seq(AppenderEntries)]

DefinerAssumption ==
  /\ LevelTexts \cap (LevelNames \cup {"UNKNOW"}) = {}
  /\ TypeTexts \cap {FileType, StdoutType} = {}
  /\ Absent \notin Names \cup Formatters
  /\ \A d \in Documents : d \in Seq(Entries)

VARIABLES
  doc,    \* the document
  value,  \* the value of Log_Config
  saved   \* the value of which doc was made, if it was

vars == <<doc, value, saved>>

-----------------------------------------------------------------------------
(* LogLevel.                                                               *)

Value(name) ==
  CASE name = "DEBUG" -> 1 [] name = "INFO" -> 2 [] name = "WARN" -> 3
    [] name = "ERROR" -> 4 [] name = "FATAL" -> 5

\* Only the names in capital letters are known.
LevelFrom(text) == IF text \in LevelNames THEN Value(text) ELSE 0

LevelText(level) == IF level = 0 THEN "UNKNOW" ELSE CHOOSE n \in LevelNames : Value(n) = level

-----------------------------------------------------------------------------
(* From a document to the value.                                           *)

\* An appender without a known type is left out.
Kept(ap) == ap.type \in {FileType, StdoutType}

Appender(ap) ==
  [type |-> CASE ap.type = FileType -> 2 [] ap.type = StdoutType -> 1 [] OTHER -> 0,
   level |-> LevelFrom(ap.level)]

Appenders(aps) ==
  FlattenSeq([k \in DOMAIN aps |-> IF Kept(aps[k]) THEN <<Appender(aps[k])>> ELSE <<>>])

Definer(e) ==
  [name |-> e.name, level |-> LevelFrom(e.level), formatter_ |-> e.formatter_,
   appenders_ |-> Appenders(e.appenders)]

\* Entries without a name are left out; insert leaves a name that the set has.
FirstOfName(d, k) == d[k].name # Absent /\ \A j \in 1 .. (k - 1) : d[j].name # d[k].name

fromString(d) == {Definer(d[k]) : k \in {j \in DOMAIN d : FirstOfName(d, j)}}

-----------------------------------------------------------------------------
(* From the value to a document.                                           *)

AppenderEntry(ap) ==
  [type |-> CASE ap.type = 1 -> StdoutType [] ap.type = 2 -> FileType [] OTHER -> Absent,
   level |-> LevelText(ap.level)]

\* The level as toString writes it.  Mutant: as a number, which is no name.
LevelNumber(level) == Absent
WrittenLevel(level) == LevelText(level)

EntryOf(def) ==
  [name |-> def.name, level |-> WrittenLevel(def.level), formatter_ |-> def.formatter_,
   appenders |-> <<>>,
   appenders_ |-> [k \in DOMAIN def.appenders_ |-> AppenderEntry(def.appenders_[k])]]

\* The set is in the order of the names; any order gives the same value.
toString(defs) == LET s == SetToSeq(defs) IN [k \in DOMAIN s |-> EntryOf(s[k])]

-----------------------------------------------------------------------------
Definers ==
  [name : Names, level : 0 .. 5, formatter_ : Formatters \cup {Absent},
   appenders_ : Seq([type : 0 .. 2, level : 0 .. 5])]

Init ==
  /\ doc \in Documents
  /\ value = {}
  /\ saved = {}

\* fromString and toString of Log_Config.
Load ==
  /\ value' = fromString(doc)
  /\ UNCHANGED <<doc, saved>>

Save ==
  /\ value # {}
  /\ doc' = toString(value)
  /\ saved' = value
  /\ UNCHANGED value

Next == Load \/ Save

Spec == Init /\ [][Next]_vars

-----------------------------------------------------------------------------
\* Log_Config has one definition for a name, and what the callback of Loginit
\* makes of one can be used: each appender is of one of the two types, for
\* which it makes an object.
ValueUsable ==
  /\ value \subseteq Definers
  /\ \A a, b \in value : a.name = b.name => a = b
  /\ \A def \in value : \A ap \in Range(def.appenders_) : ap.type \in {1, 2}

\* Saving a value and loading it again keeps the loggers with their names,
\* levels and formatters.
WithoutAppenders(defs) == {[def EXCEPT !.appenders_ = <<>>] : def \in defs}
LoggersSurvive ==
  [][Load /\ saved # {} => WithoutAppenders(value') = WithoutAppenders(saved)]_vars

\* config.h:114: the two conversions are inverse to each other, so that a saved
\* value is loaded as it was.
RoundTrip == [][Load /\ saved # {} => value' = saved]_vars

\* conf/config.YAML:3: a level that a document has is the level of its logger.
LevelsRead ==
  [][Load => \A def \in value' :
       def.level = 0 => \E k \in DOMAIN doc : doc[k].name = def.name /\ doc[k].level = Absent]_vars
=============================================================================
