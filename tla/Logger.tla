------------------------------- MODULE Logger -------------------------------
(***************************************************************************)
(* sylar::Logger, LoggerManager and the configuration callback that        *)
(* Loginit registers (sylar/log.h, log.cpp, Singleton.h, defineLogger.h).  *)
(*                                                                         *)
(* LoggerManager::log goes through all loggers under a read lock; the      *)
(* callback makes, changes and removes loggers under the write lock.       *)
(* getLogger takes no lock, and a program may log to a logger it has       *)
(* looked up (SYLAR_LOG_LEVEL) at any moment.  A logger's own lock covers  *)
(* one call of log, clearAppender or addAppender: one step each.           *)
(*                                                                         *)
(* What a message says and how it is laid out is left out; an appender is  *)
(* its type and its level.  The callback reads through an iterator or a    *)
(* pointer that may be invalid: that ends the program, see crash.          *)
(***************************************************************************)
EXTENDS Integers

CONSTANTS
  Threads,     \* the threads that log
  Names,       \* the names of loggers
  Levels,      \* the levels of messages and definitions
  Defs,        \* the definitions that may occur in a configuration
  Direct,      \* whether threads use getLogger and log to what they get
  Deletes,     \* whether a new configuration may leave out a logger
  MaxConfigs,  \* bound: how often the configuration changes
  None         \* no logger, definition or message

Appenders == UNION {d.appenders : d \in Defs}

\* A logger made by getLogger of a thread, or by the callback.
Objects == Names \X (Threads \cup {"config"})

\* type 1 is Stdout, 2 is a file (log.h:234, the other way round in config.h).
ASSUME LoggerAssumption ==
  /\ Levels \subseteq Nat
  /\ Defs \subseteq [level : Levels, appenders : SUBSET [type : 0 .. 2, level : Levels]]
  /\ {Direct, Deletes} \subseteq BOOLEAN
  /\ MaxConfigs \in Nat
  /\ "config" \notin Threads
  /\ None \notin Names \cup Defs \cup Objects

DEBUG == 1

VARIABLES
  loggers,   \* loggers_
  obj,       \* level_, appenders_ of each logger, and whether it has a root_
  root,      \* whether LoggerManager::root_ exists, and the level_ of its
             \* appender, which nothing initialises
  lock,      \* LoggerManager::mutex_: who reads, whether the callback writes
  conf,      \* the value of Log_Config: a definition for some of the names
  update,    \* the callback
  configs,   \* how often it was called
  msg,       \* the message each thread is logging
  held,      \* the logger each thread got from getLogger
  crash      \* the invalid access

vars == <<loggers, obj, root, lock, conf, update, configs, msg, held, crash>>

NoUpdate == [pc |-> "none", new |-> [n \in Names |-> None], todo |-> {}, cur |-> None,
             left |-> {}]
NoMessage == [pc |-> "none", level |-> DEBUG, todo |-> {}, cur |-> None,
              seen |-> [n \in Names |-> None], conf |-> [n \in Names |-> None]]

TypeOK ==
  /\ loggers \in [Names -> Objects \cup {None}]
  /\ obj \in [Objects -> [level : Levels \cup {DEBUG}, appenders : SUBSET Appenders, root : BOOLEAN]]
  /\ root \in [made : BOOLEAN, level : Levels]
  /\ lock \in [readers : SUBSET Threads, writer : BOOLEAN]
  /\ lock.writer => lock.readers = {}
  /\ conf \in [Names -> Defs \cup {None}]
  /\ update.pc \in {"none", "each", "clear", "add"} /\ update.left \subseteq Appenders
  /\ update.todo \subseteq Names
  /\ configs \in 0 .. MaxConfigs
  /\ \A t \in Threads : msg[t].pc \in {"none", "find", "insert", "each"}
  /\ held \in [Threads -> Objects \cup {None}]
  /\ crash \in {"none", "root", "end", "appender"}

Fresh == [level |-> DEBUG, appenders |-> {}, root |-> FALSE]

Init ==
  /\ loggers = [n \in Names |-> None]
  /\ obj = [o \in Objects |-> Fresh]
  /\ root \in [made : {FALSE}, level : Levels]
  /\ lock = [readers |-> {}, writer |-> FALSE]
  /\ conf = [n \in Names |-> None]
  /\ update = NoUpdate
  /\ configs = 0
  /\ msg = [t \in Threads |-> NoMessage]
  /\ held = [t \in Threads |-> None]
  /\ crash = "none"

-----------------------------------------------------------------------------
(* Logging.                                                                *)

\* StdoutAppender::log and FileAppender::log: a file leaves out its own level.
Accepts(ap, level) == IF ap.type = 2 THEN level > ap.level ELSE level >= ap.level

\* What a logger with these fields and a root does with a message: the
\* appenders that print it, or "root" for the root logger's.
Printed(x, level) ==
  CASE level < x.level -> {}
    [] x.appenders # {} -> {ap \in x.appenders : Accepts(ap, level)}
    [] OTHER -> IF level >= root.level THEN {"root"} ELSE {}

\* Logger::log without appenders and without a root_.
NoRoot(x, level) == level >= x.level /\ x.appenders = {} /\ ~x.root

Crash(what, happens) == crash' = IF happens THEN what ELSE "none"

\* The read lock.
MayRead == ~lock.writer

\* LoggerManager::log, called by LogManagerWrap at the end of a statement; its
\* singleton is made on first use.
BeginLog(t, level) ==
  /\ crash = "none" /\ msg[t].pc = "none" /\ MayRead
  /\ lock' = [lock EXCEPT !.readers = @ \cup {t}]
  /\ root' = [root EXCEPT !.made = TRUE]
  /\ msg' = [msg EXCEPT ![t] = [NoMessage EXCEPT !.pc = "each", !.level = level,
                !.todo = {n \in Names : loggers[n] # None}, !.conf = conf]]
  /\ UNCHANGED <<loggers, obj, conf, update, configs, held, crash>>

\* What is left of the two loops after n.  Mutant: the iterator stays there.
SameOnes(S, n) == S
LoggersAfter(S, n) == S \ {n}
Others(S, n) == S \ {n}

\* The next logger of the map.
LogTo(t, n) ==
  /\ crash = "none" /\ msg[t].pc = "each"
  /\ n \in msg[t].todo
  /\ LET x == obj[loggers[n]]
     IN  /\ Crash("root", NoRoot(x, msg[t].level))
         /\ msg' = [msg EXCEPT ![t].todo = LoggersAfter(@, n),
                               ![t].seen[n] = Printed(x, msg[t].level)]
  /\ UNCHANGED <<loggers, obj, root, lock, conf, update, configs, held>>

EndLog(t) ==
  /\ crash = "none" /\ msg[t].pc = "each" /\ msg[t].todo = {}
  /\ lock' = [lock EXCEPT !.readers = @ \ {t}]
  /\ msg' = [msg EXCEPT ![t] = NoMessage]
  /\ UNCHANGED <<loggers, obj, root, conf, update, configs, held, crash>>

\* SYLAR_LOG_LEVEL on a logger obtained earlier: no lock but the logger's.
\* What it prints is not recorded.
LogDirectly(t, level) ==
  /\ crash = "none" /\ msg[t].pc = "none" /\ held[t] # None
  /\ Crash("root", NoRoot(obj[held[t]], level))
  /\ UNCHANGED <<loggers, obj, root, lock, conf, update, configs, msg, held>>

-----------------------------------------------------------------------------
(* getLogger: find, then insert.                                           *)

getLogger(t, n) ==
  /\ crash = "none" /\ Direct /\ msg[t].pc = "none" /\ held[t] = None
  /\ root' = [root EXCEPT !.made = TRUE]
  /\ IF loggers[n] # None
     THEN held' = [held EXCEPT ![t] = loggers[n]] /\ UNCHANGED msg
     ELSE msg' = [msg EXCEPT ![t].pc = "insert", ![t].cur = n] /\ UNCHANGED held
  /\ UNCHANGED <<loggers, obj, lock, conf, update, configs, crash>>

\* root_ of a logger that getLogger makes.
RootSet == root.made

Insert(t) ==
  /\ crash = "none" /\ msg[t].pc = "insert"
  /\ LET n == msg[t].cur
         o == <<n, t>>
     IN  /\ loggers' = [loggers EXCEPT ![n] = o]
         /\ obj' = [obj EXCEPT ![o] = [Fresh EXCEPT !.root = RootSet]]
         /\ held' = [held EXCEPT ![t] = o]
  /\ msg' = [msg EXCEPT ![t] = NoMessage]
  /\ UNCHANGED <<root, lock, conf, update, configs, crash>>

-----------------------------------------------------------------------------
(* The callback, called by setVal of Log_Config with the old and the new   *)
(* value; the new one is stored when it returns.                           *)

\* Mutant: the write lock is not waited for.
MayWriteAlways == TRUE
MayWrite == lock.readers = {}

BeginUpdate(new) ==
  /\ crash = "none" /\ update.pc = "none" /\ configs < MaxConfigs
  /\ Deletes \/ \A n \in Names : conf[n] # None => new[n] # None
  /\ MayWrite
  /\ lock' = [lock EXCEPT !.writer = TRUE]
  /\ update' = [NoUpdate EXCEPT !.pc = "each", !.new = new,
                                !.todo = {n \in Names : new[n] # None}]
  /\ configs' = configs + 1
  /\ UNCHANGED <<loggers, obj, root, conf, msg, held, crash>>

\* An appender of another type is a null pointer.
BadAppender(d) == \E ap \in d.appenders : ap.type \notin {1, 2}

\* A name without an old definition: a new logger, added when it is complete.
AddLogger(n) ==
  /\ crash = "none" /\ update.pc = "each" /\ n \in update.todo /\ conf[n] = None
  /\ LET d == update.new[n]
         o == <<n, "config">>
     IN  /\ Crash("appender", BadAppender(d))
         /\ obj' = [obj EXCEPT ![o] = [level |-> d.level, appenders |-> d.appenders, root |-> FALSE]]
         /\ loggers' = [loggers EXCEPT ![n] = o]
  /\ update' = [update EXCEPT !.todo = Others(@, n)]
  /\ UNCHANGED <<root, lock, conf, configs, msg, held>>

\* A name with an old definition: its logger is changed in place.
SetLevel(n) ==
  /\ crash = "none" /\ update.pc = "each" /\ n \in update.todo /\ conf[n] # None
  /\ obj' = [obj EXCEPT ![loggers[n]].level = update.new[n].level]
  /\ update' = [update EXCEPT !.pc = "clear", !.cur = n, !.todo = Others(@, n)]
  /\ UNCHANGED <<loggers, root, lock, conf, configs, msg, held, crash>>

\* Mutant: the old appenders stay.
OldAppenders(x) == x.appenders
NoAppenders(x) == {}

ClearAppender ==
  /\ crash = "none" /\ update.pc = "clear"
  /\ obj' = [obj EXCEPT ![loggers[update.cur]].appenders = NoAppenders(obj[loggers[update.cur]])]
  /\ update' = [update EXCEPT !.pc = "add", !.left = update.new[update.cur].appenders]
  /\ UNCHANGED <<loggers, root, lock, conf, configs, msg, held, crash>>

AddAppender(ap) ==
  /\ crash = "none" /\ update.pc = "add" /\ ap \in update.left
  /\ Crash("appender", ap.type \notin {1, 2})
  /\ obj' = [obj EXCEPT ![loggers[update.cur]].appenders = @ \cup {ap}]
  /\ update' = [update EXCEPT !.left = @ \ {ap}]
  /\ UNCHANGED <<loggers, root, lock, conf, configs, msg, held>>

NextDefinition ==
  /\ crash = "none" /\ update.pc = "add" /\ update.left = {}
  /\ update' = [update EXCEPT !.pc = "each", !.cur = None]
  /\ UNCHANGED <<loggers, obj, root, lock, conf, configs, msg, held, crash>>

\* The loop over the old definitions: for one that is gone, the name is read
\* through i, which is new_val.end().
Gone == \E n \in Names : conf[n] # None /\ update.new[n] = None

EndUpdate ==
  /\ crash = "none" /\ update.pc = "each" /\ update.todo = {}
  /\ Crash("end", Gone)
  /\ conf' = update.new
  /\ lock' = [lock EXCEPT !.writer = FALSE]
  /\ update' = NoUpdate
  /\ UNCHANGED <<loggers, obj, root, configs, msg, held>>

-----------------------------------------------------------------------------
LogStep(t) == (\E n \in Names : LogTo(t, n)) \/ EndLog(t) \/ Insert(t)

UpdateStep ==
  \/ \E n \in Names : AddLogger(n) \/ SetLevel(n)
  \/ ClearAppender \/ NextDefinition \/ EndUpdate
  \/ \E ap \in Appenders : AddAppender(ap)

Next ==
  \/ \E t \in Threads :
       \/ LogStep(t)
       \/ \E level \in Levels : BeginLog(t, level) \/ LogDirectly(t, level)
       \/ \E n \in Names : getLogger(t, n)
  \/ \E new \in [Names -> Defs \cup {None}] : BeginUpdate(new)
  \/ UpdateStep

Spec == Init /\ [][Next]_vars

\* A message that is being logged and a change that has begun go on.
FairSpec == Spec /\ WF_vars(UpdateStep) /\ \A t \in Threads : WF_vars(LogStep(t))

-----------------------------------------------------------------------------
\* The logger of n is the one the callback made, or was changed by it since;
\* getLogger may have put an empty one in its place.
Configured(n) == loggers[n] = <<n, "config">>

\* A message is printed by every configured logger it has come to as the
\* configuration says that held when LoggerManager::log began: never by a
\* logger that is half changed, and never by some loggers of the old and some
\* of the new configuration.
MessageSeesOneConfiguration ==
  \A t \in Threads, n \in Names :
    msg[t].seen[n] # None /\ msg[t].conf[n] # None /\ Configured(n)
      => msg[t].seen[n] = Printed(msg[t].conf[n], msg[t].level)

\* Between two changes every definition is that of the logger of its name, if
\* no getLogger came between.
ConfigurationApplied ==
  update.pc = "none" /\ crash = "none" =>
    \A n \in Names : conf[n] # None =>
      /\ loggers[n] # None
      /\ Configured(n) => /\ obj[loggers[n]].level = conf[n].level
                          /\ obj[loggers[n]].appenders = conf[n].appenders

\* LoggerManager::log, under its read lock, never comes to a logger that has
\* neither appenders nor a root: only who logs to a logger directly may do so
\* while the callback has cleared it.
ReadersFindAppenders ==
  \A t \in Threads : \A n \in msg[t].todo : ~NoRoot(obj[loggers[n]], msg[t].level)

\* The invariant of the loggers.
LoggerInv == TypeOK /\ ConfigurationApplied /\ ReadersFindAppenders

\* log.cpp:459-467: a logger whose definition is gone is cleared and gets the
\* level del_flag, with which it prints nothing.
DeletionWorks == crash # "end"

\* A message that is being logged is logged in the end, and a change of the
\* configuration is carried out, unless the program crashes.
CallsEnd ==
  /\ \A t \in Threads : msg[t].pc # "none" ~> msg[t].pc = "none" \/ crash # "none"
  /\ update.pc # "none" ~> update.pc = "none" \/ crash # "none"
=============================================================================
