--------------------------- MODULE Logger_proofs ----------------------------
(***************************************************************************)
(* For any threads that log and look up loggers, and any configurations,   *)
(* also such that leave out a logger: a message is printed as one          *)
(* configuration says.                                                     *)
(***************************************************************************)
EXTENDS Logger, TLAPS

USE LoggerAssumption

\* A definition without appenders makes a logger that has no root_ either
\* (log.cpp:436-454): the first message to it goes through a null pointer.
EveryDefinitionPrints == \A d \in Defs : d.appenders # {}

LoggerRecord == [level : Levels \cup {DEBUG}, appenders : SUBSET Appenders, root : BOOLEAN]
Message == [pc : {"none", "insert", "each"}, level : Levels \cup {DEBUG}, todo : SUBSET Names,
            cur : Names \cup {None}, seen : [Names -> {None} \cup SUBSET (Appenders \cup {"root"})],
            conf : [Names -> Defs \cup {None}]]
Update == [pc : {"none", "each", "clear", "add"}, new : [Names -> Defs \cup {None}],
           todo : SUBSET Names, cur : Names \cup {None}, left : SUBSET Appenders]

Typed == TypeOK /\ msg \in [Threads -> Message] /\ update \in Update

LockOK ==
  /\ lock.writer <=> update.pc # "none"
  /\ \A t \in Threads : msg[t].pc = "each" <=> t \in lock.readers
  /\ crash = "end" => lock.readers = {}

MessageOK(t) ==
  /\ msg[t].pc # "each" => msg[t].todo = {} /\ \A n \in Names : msg[t].seen[n] = None
  /\ msg[t].pc = "each" => msg[t].conf = conf
  /\ msg[t].pc = "insert" => msg[t].cur \in Names /\ root.made
  /\ \A n \in msg[t].todo : loggers[n] # None
  /\ \A n \in Names :
       msg[t].seen[n] # None /\ msg[t].conf[n] # None /\ Configured(n)
         => msg[t].seen[n] = Printed(msg[t].conf[n], msg[t].level)

\* A logger belongs to its name, and one that getLogger made has a root.
LoggerOK(n) ==
  loggers[n] # None =>
    \/ Configured(n)
    \/ \E t \in Threads : loggers[n] = <<n, t>> /\ obj[<<n, t>>].root

\* The definition the logger of n is to have: the callback changes one name
\* after the other.
Means(n) == IF update.pc # "none" /\ update.new[n] # None /\ n \notin update.todo
            THEN update.new[n] ELSE conf[n]
Half(n) == update.pc \in {"clear", "add"} /\ update.cur = n

Follows(n) ==
  /\ Means(n) # None => loggers[n] # None
  /\ Configured(n) =>
       /\ Means(n) # None
       /\ obj[<<n, "config">>].level = Means(n).level
       /\ ~Half(n) => obj[<<n, "config">>].appenders = Means(n).appenders
       /\ Half(n) /\ update.pc = "add" =>
            obj[<<n, "config">>].appenders \cup update.left = Means(n).appenders

UpdateOK ==
  /\ update.pc \in {"clear", "add"} =>
       /\ update.cur \in Names \ update.todo
       /\ update.new[update.cur] # None
  /\ \A n \in update.todo : update.new[n] # None
  /\ crash # "end" => \A n \in Names : Follows(n)

\* The inductive invariant.
LInv ==
  /\ Typed /\ LockOK /\ UpdateOK
  /\ \A t \in Threads : MessageOK(t)
  /\ \A n \in Names : LoggerOK(n)

-----------------------------------------------------------------------------
(* Logging.                                                                *)

\* What is printed depends on the level and the appenders only.
LEMMA PrintedAlike ==
  ASSUME NEW x, NEW y, NEW level, x.level = y.level, x.appenders = y.appenders
  PROVE  Printed(x, level) = Printed(y, level)
BY DEF Printed

LEMMA PrintedTyped ==
  ASSUME NEW x \in LoggerRecord, NEW level
  PROVE  Printed(x, level) \in {None} \cup SUBSET (Appenders \cup {"root"})
BY DEF Printed, LoggerRecord

LEMMA NoMessageTyped ==
  /\ NoMessage \in Message /\ NoMessage.pc = "none" /\ NoMessage.todo = {}
  /\ \A n \in Names : NoMessage.seen[n] = None
BY DEF NoMessage, Message

\* The callback has not begun while a message is being logged.
LEMMA ReaderAlone ==
  ASSUME LInv, NEW t \in Threads, msg[t].pc = "each"
  PROVE  /\ update.pc = "none" /\ msg[t].conf = conf /\ ~lock.writer /\ crash # "end"
         /\ \A n \in Names : Means(n) = conf[n] /\ ~Half(n) /\ Follows(n)
<1>1. t \in lock.readers /\ ~lock.writer /\ update.pc = "none" /\ crash # "end"
  BY DEF LInv, LockOK, Typed, TypeOK
<1>2. msg[t].conf = conf
  BY DEF LInv, MessageOK
<1>3. \A n \in Names : Means(n) = conf[n] /\ ~Half(n)
  BY <1>1 DEF Means, Half
<1> QED
  BY <1>1, <1>2, <1>3 DEF LInv, UpdateOK

\* A step that leaves the loggers and the callback alone.
LEMMA SameLoggers ==
  ASSUME LInv, crash = "none", UNCHANGED <<loggers, obj, conf, update>>
  PROVE  UpdateOK' /\ \A n \in Names : LoggerOK(n)'
<1>1. UpdateOK /\ \A n \in Names : LoggerOK(n) /\ Follows(n)
  BY DEF LInv, UpdateOK
<1>2. \A n \in Names : LoggerOK(n)'
  BY <1>1 DEF LoggerOK, Configured
<1>3. \A n \in Names : Follows(n)'
  BY <1>1, ZenonT(40) DEF Follows, Configured, Means, Half
<1> QED
  BY <1>1, <1>2, <1>3 DEF UpdateOK

\* A step of one thread: its message becomes m.
LEMMA MessageStep ==
  ASSUME LInv, crash = "none", crash' \in {"none", "root"}, NEW t \in Threads, NEW m \in Message,
         msg' = [msg EXCEPT ![t] = m],
         lock' \in [readers : SUBSET Threads, writer : BOOLEAN], lock'.writer = lock.writer,
         lock'.readers = IF m.pc = "each" THEN lock.readers \cup {t} ELSE lock.readers \ {t},
         m.pc = "each" => ~lock.writer,
         root' \in [made : BOOLEAN, level : Levels], root'.level = root.level,
         root.made => root'.made,
         held' \in [Threads -> Objects \cup {None}], MessageOK(t)',
         UNCHANGED <<loggers, obj, conf, update, configs>>
  PROVE  LInv'
<1>1. Typed /\ LockOK /\ UpdateOK /\ \A u \in Threads : MessageOK(u)
  BY DEF LInv
<1>2. msg'[t] = m /\ \A u \in Threads : u # t => msg'[u] = msg[u]
  BY <1>1 DEF Typed
<1>3. msg' \in [Threads -> Message]
  BY <1>1 DEF Typed
<1>4. Typed'
  <2>1. \A u \in Threads : msg'[u].pc \in {"none", "find", "insert", "each"}
    BY <1>3 DEF Message
  <2>2. lock'.writer => lock'.readers = {}
    BY <1>1 DEF Typed, TypeOK
  <2>3. lock' \in [readers : SUBSET Threads, writer : BOOLEAN]
    OBVIOUS
  <2>4. crash' \in {"none", "root", "end", "appender"}
    OBVIOUS
  <2> QED
    BY <1>1, <1>3, <2>1, <2>2, <2>3, <2>4 DEF Typed, TypeOK
<1>5. LockOK'
  BY <1>1, <1>2 DEF LockOK
<1>6. ASSUME NEW u \in Threads PROVE MessageOK(u)'
  <2>1. CASE u # t
    <3>1. MessageOK(u) /\ msg'[u] = msg[u]
      BY <1>1, <1>2, <2>1
    <3>2. \A x, level : Printed(x, level)' = Printed(x, level)
      BY DEF Printed
    <3> QED
      BY <3>1, <3>2 DEF MessageOK, Configured
  <2> QED
    BY <2>1
<1> QED
  BY <1>4, <1>5, <1>6, SameLoggers DEF LInv

\* LoggerManager::log takes the read lock.
LEMMA BeginLogLInv ==
  ASSUME LInv, NEW t \in Threads, NEW level \in Levels, BeginLog(t, level) PROVE LInv'
<1>1. PICK m : m = [NoMessage EXCEPT !.pc = "each", !.level = level,
                       !.todo = {n \in Names : loggers[n] # None}, !.conf = conf]
  OBVIOUS
<1>2. Typed
  BY DEF LInv
<1>3. /\ m \in Message /\ m.pc = "each" /\ m.todo = {n \in Names : loggers[n] # None}
      /\ m.conf = conf /\ \A n \in Names : m.seen[n] = None
  BY <1>1, <1>2 DEF NoMessage, Message, Typed, TypeOK
<1>4. /\ crash = "none" /\ ~lock.writer /\ msg' = [msg EXCEPT ![t] = m]
      /\ lock' = [lock EXCEPT !.readers = @ \cup {t}] /\ root' = [root EXCEPT !.made = TRUE]
      /\ UNCHANGED <<loggers, obj, conf, update, configs, held, crash>>
  BY <1>1 DEF BeginLog, MayRead
<1>5. msg'[t] = m
  BY <1>2, <1>4 DEF Typed
<1>6. MessageOK(t)'
  BY <1>3, <1>4, <1>5 DEF MessageOK
<1>7. /\ lock' \in [readers : SUBSET Threads, writer : BOOLEAN] /\ lock'.writer = lock.writer
      /\ lock'.readers = lock.readers \cup {t}
  BY <1>2, <1>4 DEF Typed, TypeOK
<1>8. root' \in [made : BOOLEAN, level : Levels] /\ root'.level = root.level /\ root'.made
  BY <1>2, <1>4 DEF Typed, TypeOK
<1>9. held' \in [Threads -> Objects \cup {None}] /\ crash' \in {"none", "root"}
  BY <1>2, <1>4 DEF Typed, TypeOK
<1> QED
  BY <1>3, <1>4, <1>6, <1>7, <1>8, <1>9, MessageStep

\* The message comes to the logger of n, under the read lock.
LEMMA LogToLInv ==
  ASSUME LInv, NEW t \in Threads, NEW n \in Names, LogTo(t, n) PROVE LInv'
<1> DEFINE x == obj[loggers[n]]
<1>1. /\ crash = "none" /\ msg[t].pc = "each" /\ n \in msg[t].todo
      /\ crash' \in {"none", "root"}
      /\ UNCHANGED <<loggers, obj, root, lock, conf, update, configs, held>>
  BY DEF LogTo, Crash
<1>2. Typed /\ LockOK /\ MessageOK(t) /\ LoggerOK(n) /\ msg[t] \in Message
  BY DEF LInv, Typed
<1>3. x \in LoggerRecord
  <2>1. loggers[n] \in Objects
    BY <1>1, <1>2 DEF MessageOK, Typed, TypeOK
  <2> QED
    BY <1>2, <2>1 DEF Typed, TypeOK, LoggerRecord
<1>4. PICK p : p = Printed(x, msg[t].level)
  OBVIOUS
<1>5. PICK m \in Message :
        /\ m.pc = "each" /\ m.level = msg[t].level /\ m.todo = msg[t].todo \ {n}
        /\ m.conf = msg[t].conf /\ m.cur = msg[t].cur
        /\ m.seen = [msg[t].seen EXCEPT ![n] = p]
        /\ msg' = [msg EXCEPT ![t] = m]
  <2>1. p \in {None} \cup SUBSET (Appenders \cup {"root"})
    BY <1>3, <1>4, PrintedTyped
  <2>2. msg' = [msg EXCEPT ![t].todo = @ \ {n}, ![t].seen[n] = p]
    BY <1>4 DEF LogTo, LoggersAfter
  <2>3. msg' = [msg EXCEPT ![t] = [msg[t] EXCEPT !.todo = msg[t].todo \ {n},
                                                !.seen = [msg[t].seen EXCEPT ![n] = p]]]
    BY <1>2, <2>2 DEF Typed, Message
  <2>4. [msg[t].seen EXCEPT ![n] = p] \in [Names -> {None} \cup SUBSET (Appenders \cup {"root"})]
    BY <1>2, <2>1 DEF Message
  <2>5. [msg[t] EXCEPT !.todo = msg[t].todo \ {n},
                       !.seen = [msg[t].seen EXCEPT ![n] = p]] \in Message
    BY <1>2, <2>4 DEF Message
  <2> QED
    BY <1>1, <1>2, <2>3, <2>5 DEF Message
<1>6. msg'[t] = m /\ m.seen[n] = p /\ \A k \in Names : k # n => m.seen[k] = msg[t].seen[k]
  BY <1>2, <1>5 DEF Typed, Message
<1>7. /\ ~lock.writer /\ msg[t].conf = conf
      /\ Means(n) = conf[n] /\ ~Half(n) /\ Follows(n)
  BY <1>1, ReaderAlone
<1>8. Configured(n) => p = Printed(conf[n], msg[t].level)
  <2>1. CASE Configured(n)
    <3>1. x.level = conf[n].level /\ x.appenders = conf[n].appenders
      BY <1>7, <2>1 DEF Follows, Configured
    <3> QED
      BY <1>4, <3>1, PrintedAlike
  <2> QED
    BY <2>1
<1>9. MessageOK(t)'
  <2>1. \A y, level : Printed(y, level)' = Printed(y, level)
    BY <1>1 DEF Printed
  <2>2. \A k \in Names : Configured(k)' = Configured(k)
    BY <1>1 DEF Configured
  <2>3. ASSUME NEW k \in Names, m.seen[k] # None, m.conf[k] # None, Configured(k)
        PROVE  m.seen[k] = Printed(m.conf[k], m.level)
    BY <1>2, <1>5, <1>6, <1>7, <1>8, <2>3 DEF MessageOK
  <2> QED
    BY <1>1, <1>2, <1>5, <1>6, <1>7, <2>1, <2>2, <2>3, ZenonT(40) DEF MessageOK
<1>10. /\ lock' \in [readers : SUBSET Threads, writer : BOOLEAN] /\ lock'.writer = lock.writer
       /\ lock'.readers = lock.readers \cup {t}
       /\ root' \in [made : BOOLEAN, level : Levels] /\ root'.level = root.level
       /\ root'.made = root.made /\ held' \in [Threads -> Objects \cup {None}]
  BY <1>1, <1>2 DEF Typed, TypeOK, LockOK
<1> QED
  BY <1>1, <1>5, <1>7, <1>9, <1>10, MessageStep

\* It returns, and releases the read lock.
LEMMA EndLogLInv == ASSUME LInv, NEW t \in Threads, EndLog(t) PROVE LInv'
<1>1. /\ crash = "none" /\ msg' = [msg EXCEPT ![t] = NoMessage]
      /\ lock' = [lock EXCEPT !.readers = @ \ {t}]
      /\ UNCHANGED <<loggers, obj, root, conf, update, configs, held, crash>>
  BY DEF EndLog
<1>2. Typed
  BY DEF LInv
<1>3. PICK m \in Message : m = NoMessage /\ m.pc = "none" /\ m.todo = {}
                           /\ \A n \in Names : m.seen[n] = None
  BY NoMessageTyped
<1>4. msg' = [msg EXCEPT ![t] = m] /\ msg'[t] = m
  BY <1>1, <1>2, <1>3 DEF Typed
<1>5. MessageOK(t)'
  BY <1>3, <1>4 DEF MessageOK
<1>6. /\ lock' \in [readers : SUBSET Threads, writer : BOOLEAN] /\ lock'.writer = lock.writer
      /\ lock'.readers = lock.readers \ {t}
      /\ root' \in [made : BOOLEAN, level : Levels] /\ root'.level = root.level
      /\ root'.made = root.made /\ held' \in [Threads -> Objects \cup {None}]
      /\ crash' \in {"none", "root"}
  BY <1>1, <1>2 DEF Typed, TypeOK
<1> QED
  BY <1>1, <1>3, <1>4, <1>5, <1>6, MessageStep

\* A message to a logger got from getLogger may end the program.
LEMMA LogDirectlyLInv ==
  ASSUME LInv, NEW t \in Threads, NEW level \in Levels, LogDirectly(t, level) PROVE LInv'
<1>1. /\ crash = "none" /\ crash' \in {"none", "root"}
      /\ UNCHANGED <<loggers, obj, root, lock, conf, update, configs, msg, held>>
  BY DEF LogDirectly, Crash
<1>2. Typed /\ LockOK /\ \A u \in Threads : MessageOK(u)
  BY DEF LInv
<1>3. Typed'
  BY <1>1, <1>2 DEF Typed, TypeOK
<1>4. LockOK'
  BY <1>1, <1>2 DEF LockOK
<1>5. ASSUME NEW u \in Threads PROVE MessageOK(u)'
  <2>1. \A y, l : Printed(y, l)' = Printed(y, l)
    BY <1>1 DEF Printed
  <2> QED
    BY <1>1, <1>2, <2>1 DEF MessageOK, Configured
<1> QED
  BY <1>1, <1>3, <1>4, <1>5, SameLoggers DEF LInv

\* getLogger looks the name up, without a lock.
LEMMA getLoggerLInv ==
  ASSUME LInv, NEW t \in Threads, NEW n \in Names, getLogger(t, n) PROVE LInv'
<1>1. /\ crash = "none" /\ msg[t].pc = "none" /\ root' = [root EXCEPT !.made = TRUE]
      /\ UNCHANGED <<loggers, obj, lock, conf, update, configs, crash>>
  BY DEF getLogger
<1>2. Typed /\ LockOK /\ MessageOK(t) /\ msg[t] \in Message
  BY DEF LInv, Typed
<1>3. PICK m \in Message : /\ msg' = [msg EXCEPT ![t] = m] /\ m.pc \in {"none", "insert"}
                           /\ m.pc = "insert" => m.cur = n
                           /\ m.todo = msg[t].todo /\ m.seen = msg[t].seen
  <2>1. CASE loggers[n] # None
    <3>1. msg' = [msg EXCEPT ![t] = msg[t]]
      BY <1>2, <2>1 DEF getLogger, Typed
    <3> QED
      BY <1>1, <1>2, <3>1
  <2>2. CASE loggers[n] = None
    <3>1. msg' = [msg EXCEPT ![t] = [msg[t] EXCEPT !.pc = "insert", !.cur = n]]
      BY <1>2, <2>2 DEF getLogger, Typed
    <3>2. [msg[t] EXCEPT !.pc = "insert", !.cur = n] \in Message
      BY <1>2 DEF Message
    <3> QED
      BY <1>2, <3>1, <3>2 DEF Message
  <2> QED
    BY <2>1, <2>2
<1>4. msg'[t] = m
  BY <1>2, <1>3 DEF Typed
<1>5. root' \in [made : BOOLEAN, level : Levels] /\ root'.level = root.level /\ root'.made
  BY <1>1, <1>2 DEF Typed, TypeOK
<1>6. MessageOK(t)'
  BY <1>1, <1>2, <1>3, <1>4, <1>5 DEF MessageOK
<1>7. /\ lock' \in [readers : SUBSET Threads, writer : BOOLEAN] /\ lock'.writer = lock.writer
      /\ lock'.readers = lock.readers \ {t}
  BY <1>1, <1>2 DEF Typed, TypeOK, LockOK
<1>8. held' \in [Threads -> Objects \cup {None}] /\ crash' \in {"none", "root"}
  BY <1>1, <1>2 DEF Typed, TypeOK, getLogger
<1> QED
  BY <1>1, <1>3, <1>5, <1>6, <1>7, <1>8, MessageStep

\* It puts an empty logger with a root in, perhaps in the place of one that the
\* callback has made meanwhile.
LEMMA InsertLInv == ASSUME LInv, NEW t \in Threads, Insert(t) PROVE LInv'
<1>1. Typed /\ LockOK /\ UpdateOK /\ MessageOK(t)
  BY DEF LInv
<1>2. PICK n \in Names : n = msg[t].cur /\ root.made
  BY <1>1 DEF MessageOK, Insert
<1>3. PICK o \in Objects : o = <<n, t>>
  BY DEF Objects
<1>4. PICK x \in LoggerRecord : x = [Fresh EXCEPT !.root = RootSet] /\ x.root
  <2>1. RootSet = TRUE
    BY <1>1, <1>2 DEF RootSet, Typed, TypeOK
  <2>2. [Fresh EXCEPT !.root = TRUE] \in LoggerRecord /\ [Fresh EXCEPT !.root = TRUE].root
    BY DEF LoggerRecord, Fresh
  <2> QED
    BY <2>1, <2>2
<1>5. /\ crash = "none" /\ msg[t].pc = "insert"
      /\ loggers' = [loggers EXCEPT ![n] = o] /\ obj' = [obj EXCEPT ![o] = x]
      /\ held' = [held EXCEPT ![t] = o] /\ msg' = [msg EXCEPT ![t] = NoMessage]
      /\ UNCHANGED <<root, lock, conf, update, configs, crash>>
  BY <1>2, <1>3, <1>4 DEF Insert
<1>6. /\ loggers'[n] = o /\ \A k \in Names : k # n => loggers'[k] = loggers[k]
      /\ obj'[o] = x /\ \A p \in Objects : p # o => obj'[p] = obj[p]
      /\ msg'[t] = NoMessage /\ \A u \in Threads : u # t => msg'[u] = msg[u]
  BY <1>1, <1>5 DEF Typed, TypeOK
<1>7. o # None /\ ~Configured(n)' /\ \A k \in Names : k # n => Configured(k)' = Configured(k)
  BY <1>3, <1>6 DEF Configured
<1>8. Typed'
  <2>1. /\ msg' \in [Threads -> Message] /\ obj' \in [Objects -> LoggerRecord]
        /\ loggers' \in [Names -> Objects \cup {None}] /\ held' \in [Threads -> Objects \cup {None}]
    BY <1>1, <1>5, NoMessageTyped DEF Typed, TypeOK, LoggerRecord
  <2>2. \A u \in Threads : msg'[u].pc \in {"none", "find", "insert", "each"}
    BY <2>1 DEF Message
  <2> QED
    BY <1>1, <1>5, <2>1, <2>2 DEF Typed, TypeOK, LoggerRecord
<1>9. LockOK'
  BY <1>1, <1>5, <1>6, NoMessageTyped DEF LockOK
<1>10. ASSUME NEW u \in Threads PROVE MessageOK(u)'
  <2>1. CASE u = t
    BY <1>6, <2>1, NoMessageTyped DEF MessageOK
  <2>2. CASE u # t
    <3>1. MessageOK(u) /\ msg'[u] = msg[u]
      BY <1>6, <2>2 DEF LInv
    <3>2. \A y, l : Printed(y, l)' = Printed(y, l)
      BY <1>5 DEF Printed
    <3>3. \A k \in Names : loggers[k] # None => loggers'[k] # None
      BY <1>6, <1>7
    <3>4. msg[u].todo \subseteq Names
      BY <1>1 DEF Typed, Message
    <3>5. \A k \in Names : Configured(k)' => Configured(k)
      BY <1>7
    <3> QED
      BY <1>5, <3>1, <3>2, <3>3, <3>4, <3>5 DEF MessageOK
  <2> QED
    BY <2>1, <2>2
<1>11. ASSUME NEW k \in Names PROVE LoggerOK(k)'
  <2>1. CASE k = n
    <3>1. loggers'[k] = <<k, t>> /\ obj'[<<k, t>>] = x
      BY <1>3, <1>6, <2>1
    <3> QED
      BY <1>4, <3>1 DEF LoggerOK
  <2>2. CASE k # n
    <3>1. \A u \in Threads : <<k, u>> \in Objects /\ <<k, u>> # o
      BY <1>3, <2>2 DEF Objects
    <3> QED
      BY <1>6, <1>7, <2>2, <3>1, ZenonT(40) DEF LInv, LoggerOK
  <2> QED
    BY <2>1, <2>2
<1>12. ASSUME NEW k \in Names PROVE Follows(k)'
  <2>1. Follows(k) /\ Means(k)' = Means(k) /\ Half(k)' = Half(k)
    BY <1>1, <1>5 DEF UpdateOK, Means, Half
  <2>2. <<k, "config">> \in Objects /\ <<k, "config">> # o
    BY <1>3 DEF Objects
  <2>3. CASE k = n
    BY <1>6, <1>7, <2>3 DEF Follows
  <2>4. CASE k # n
    BY <1>5, <1>6, <1>7, <2>1, <2>2, <2>4 DEF Follows
  <2> QED
    BY <2>3, <2>4
<1>13. UpdateOK'
  BY <1>1, <1>5, <1>12 DEF UpdateOK
<1> QED
  BY <1>8, <1>9, <1>10, <1>11, <1>13 DEF LInv

-----------------------------------------------------------------------------
(* The callback.                                                           *)

\* While the callback is at work no message is being logged.
LEMMA WriterAlone ==
  ASSUME LInv, update.pc # "none"
  PROVE  /\ lock.writer /\ lock.readers = {}
         /\ \A t \in Threads : msg[t].pc # "each" /\ msg[t].todo = {}
                               /\ \A n \in Names : msg[t].seen[n] = None
<1>1. lock.writer /\ lock.readers = {}
  BY DEF LInv, LockOK, Typed, TypeOK
<1> QED
  BY <1>1 DEF LInv, LockOK, MessageOK

LEMMA MessagesRest ==
  ASSUME LInv, UNCHANGED <<msg, root>>,
         \A t \in Threads : msg[t].pc # "each" /\ msg[t].todo = {}
                            /\ \A n \in Names : msg[t].seen[n] = None
  PROVE  \A t \in Threads : MessageOK(t)'
BY DEF LInv, MessageOK

\* The callback is called, when no message is being logged.
LEMMA BeginUpdateLInv ==
  ASSUME LInv, NEW new \in [Names -> Defs \cup {None}], BeginUpdate(new) PROVE LInv'
<1>1. Typed /\ LockOK /\ UpdateOK /\ \A t \in Threads : MessageOK(t)
  BY DEF LInv
<1>2. PICK u : u = [NoUpdate EXCEPT !.pc = "each", !.new = new, !.todo = {n \in Names : new[n] # None}]
  OBVIOUS
<1>3. /\ u \in Update /\ u.pc = "each" /\ u.new = new /\ u.todo = {n \in Names : new[n] # None}
  BY <1>2 DEF NoUpdate, Update
<1>4. /\ crash = "none" /\ update.pc = "none" /\ lock.readers = {} /\ update' = u
      /\ lock' = [lock EXCEPT !.writer = TRUE] /\ configs < MaxConfigs /\ configs' = configs + 1
      /\ UNCHANGED <<loggers, obj, root, conf, msg, held, crash>>
  BY <1>2 DEF BeginUpdate, MayWrite
<1>5. lock' = [readers |-> {}, writer |-> TRUE]
  BY <1>1, <1>4 DEF Typed, TypeOK
<1>6. Typed'
  <2>1. configs' \in 0 .. MaxConfigs
    BY <1>1, <1>4 DEF Typed, TypeOK
  <2>2. update'.pc \in {"none", "each", "clear", "add"} /\ update'.left \subseteq Appenders
        /\ update'.todo \subseteq Names
    BY <1>3, <1>4 DEF Update
  <2> QED
    BY <1>1, <1>3, <1>4, <1>5, <2>1, <2>2 DEF Typed, TypeOK
<1>7. LockOK'
  BY <1>1, <1>3, <1>4, <1>5 DEF LockOK
<1>8. \A t \in Threads : MessageOK(t)'
  BY <1>1, <1>4, MessagesRest DEF LockOK, MessageOK
<1>9. \A n \in Names : LoggerOK(n)'
  BY <1>4 DEF LInv, LoggerOK, Configured
<1>10. ASSUME NEW n \in Names PROVE Follows(n)'
  <2>1. Follows(n) /\ Means(n) = conf[n] /\ ~Half(n)
    BY <1>1, <1>4 DEF UpdateOK, Means, Half
  <2>2. Means(n)' = conf[n] /\ ~Half(n)'
    BY <1>3, <1>4 DEF Means, Half
  <2> QED
    BY <1>4, <2>1, <2>2 DEF Follows, Configured
<1>11. UpdateOK'
  BY <1>3, <1>4, <1>10 DEF UpdateOK
<1> QED
  BY <1>6, <1>7, <1>8, <1>9, <1>11 DEF LInv

\* A step of the callback, at the logger of one name: what it does to this one
\* is left to show.
LEMMA UpdateOne ==
  ASSUME LInv, crash = "none", crash' \in {"none", "appender"}, update.pc # "none",
         NEW n \in Names, NEW o \in Objects, NEW x \in LoggerRecord, NEW u \in Update,
         obj' = [obj EXCEPT ![o] = x], update' = u, u.pc # "none", u.new = update.new,
         \/ o = loggers[n] /\ loggers' = loggers /\ x.root = obj[o].root
         \/ o = <<n, "config">> /\ loggers' = [loggers EXCEPT ![n] = o],
         u.pc \in {"clear", "add"} => u.cur = n /\ n \notin u.todo /\ u.new[n] # None,
         update.pc \in {"clear", "add"} => update.cur = n,
         u.todo \subseteq update.todo, \A k \in Names : k # n /\ k \in update.todo => k \in u.todo,
         Follows(n)',
         UNCHANGED <<root, lock, conf, configs, msg, held>>
  PROVE  LInv'
<1>1. Typed /\ LockOK /\ UpdateOK
  BY DEF LInv
<1>2. LoggerOK(n)
  BY DEF LInv
<1>3. /\ obj'[o] = x /\ \A p \in Objects : p # o => obj'[p] = obj[p]
      /\ \A k \in Names : k # n => loggers'[k] = loggers[k]
  BY <1>1 DEF Typed, TypeOK
<1>4. \A k \in Names : k # n => \A y : <<k, y>> \in Objects => <<k, y>> # o
  <2>1. o = loggers[n] => \E y \in Threads \cup {"config"} : o = <<n, y>>
    BY <1>2 DEF LoggerOK, Configured
  <2> QED
    BY <2>1
<1>5. Typed'
  <2>1. obj' \in [Objects -> LoggerRecord]
    BY <1>1 DEF Typed, TypeOK, LoggerRecord
  <2>2. loggers' \in [Names -> Objects \cup {None}]
    BY <1>1 DEF Typed, TypeOK
  <2>3. update'.pc \in {"none", "each", "clear", "add"} /\ update'.left \subseteq Appenders
        /\ update'.todo \subseteq Names
    BY DEF Update
  <2>4. crash' \in {"none", "root", "end", "appender"}
    OBVIOUS
  <2> QED
    BY <1>1, <2>1, <2>2, <2>3, <2>4 DEF Typed, TypeOK, LoggerRecord
<1>6. LockOK'
  BY <1>1 DEF LockOK
<1>7. \A t \in Threads : MessageOK(t)'
  BY WriterAlone, MessagesRest
<1>8. ASSUME NEW k \in Names PROVE LoggerOK(k)'
  <2>1. LoggerOK(k)
    BY DEF LInv
  <2>2. \A t \in Threads : <<k, t>> \in Objects
    BY DEF Objects
  <2>3. CASE k # n
    BY <1>3, <1>4, <2>1, <2>2, <2>3 DEF LoggerOK, Configured
  <2>4. CASE k = n /\ loggers' = loggers /\ o = loggers[n] /\ x.root = obj[o].root
    <3>1. Configured(k)' = Configured(k) /\ loggers'[k] = o /\ loggers[k] = o
      BY <2>4 DEF Configured
    <3>2. \A t \in Threads : o = <<k, t>> => obj'[<<k, t>>].root = obj[<<k, t>>].root
      BY <1>3, <2>4
    <3> QED
      BY <2>1, <3>1, <3>2 DEF LoggerOK
  <2>5. CASE k = n /\ o = <<n, "config">> /\ loggers' = [loggers EXCEPT ![n] = o]
    BY <1>1, <2>5 DEF LoggerOK, Configured, Typed, TypeOK
  <2> QED
    BY <2>3, <2>4, <2>5
<1>9. ASSUME NEW k \in Names PROVE Follows(k)'
  <2>1. CASE k # n
    <3>1. Follows(k) /\ <<k, "config">> \in Objects
      BY <1>1 DEF UpdateOK, Objects
    <3>2. Means(k)' = Means(k) /\ ~Half(k) /\ ~Half(k)'
      BY <2>1 DEF Means, Half
    <3>3. obj'[<<k, "config">>] = obj[<<k, "config">>] /\ loggers'[k] = loggers[k]
      BY <1>3, <1>4, <2>1, <3>1
    <3> QED
      BY <3>1, <3>2, <3>3 DEF Follows, Configured
  <2> QED
    BY <2>1
<1>10. UpdateOK'
  BY <1>1, <1>9 DEF UpdateOK, Update
<1> QED
  BY <1>5, <1>6, <1>7, <1>8, <1>10 DEF LInv

\* What a definition makes of a logger is a logger.
LEMMA DefinitionTyped ==
  ASSUME NEW d \in Defs
  PROVE  d # None /\ d.level \in Levels /\ d.appenders \subseteq Appenders
BY DEF Appenders

\* A new name: its logger is complete when it is added.
LEMMA AddLoggerLInv == ASSUME LInv, NEW n \in Names, AddLogger(n) PROVE LInv'
<1>1. Typed /\ LockOK /\ UpdateOK
  BY DEF LInv
<1>2. /\ crash = "none" /\ update.pc = "each" /\ n \in update.todo /\ crash' \in {"none", "appender"}
      /\ UNCHANGED <<root, lock, conf, configs, msg, held>>
  BY DEF AddLogger, Crash
<1>3. PICK d \in Defs : d = update.new[n]
  BY <1>1, <1>2 DEF UpdateOK, Typed, Update
<1>4. PICK o \in Objects : o = <<n, "config">> /\ o # None
  <2>1. <<n, "config">> \in Objects
    BY DEF Objects
  <2> QED
    BY <2>1
<1>5. PICK x \in LoggerRecord :
        /\ x = [level |-> d.level, appenders |-> d.appenders, root |-> FALSE]
        /\ x.level = d.level /\ x.appenders = d.appenders
  <2>1. d.level \in Levels /\ d.appenders \subseteq Appenders
    BY DefinitionTyped
  <2>2. [level |-> d.level, appenders |-> d.appenders, root |-> FALSE] \in LoggerRecord
    BY <2>1 DEF LoggerRecord
  <2> QED
    BY <2>2
<1>6. PICK u \in Update : /\ u = [update EXCEPT !.todo = @ \ {n}]
                          /\ u.pc = "each" /\ u.new = update.new /\ u.todo = update.todo \ {n}
  <2>1. [update EXCEPT !.todo = @ \ {n}] \in Update
    BY <1>1 DEF Typed, Update
  <2> QED
    BY <1>1, <1>2, <2>1 DEF Typed, Update
<1>7. obj' = [obj EXCEPT ![o] = x] /\ loggers' = [loggers EXCEPT ![n] = o] /\ update' = u
  BY <1>3, <1>4, <1>5, <1>6 DEF AddLogger, Others
<1>8. Follows(n)'
  <2>1. obj'[o] = x /\ loggers'[n] = o
    BY <1>1, <1>7 DEF Typed, TypeOK
  <2>2. Means(n)' = d /\ ~Half(n)' /\ d # None
    BY <1>3, <1>6, <1>7, DefinitionTyped DEF Means, Half
  <2> QED
    BY <1>4, <1>5, <2>1, <2>2 DEF Follows
<1> QED
  BY <1>2, <1>4, <1>6, <1>7, <1>8, UpdateOne

\* A known name: its logger gets the level, then loses its appenders.
LEMMA SetLevelLInv == ASSUME LInv, NEW n \in Names, SetLevel(n) PROVE LInv'
<1>1. Typed /\ LockOK /\ UpdateOK
  BY DEF LInv
<1>2. /\ crash = "none" /\ update.pc = "each" /\ n \in update.todo /\ conf[n] # None
      /\ UNCHANGED <<loggers, root, lock, conf, configs, msg, held, crash>>
  BY DEF SetLevel
<1>3. PICK d \in Defs : d = update.new[n]
  BY <1>1, <1>2 DEF UpdateOK, Typed, Update
<1>4. Follows(n) /\ Means(n) = conf[n]
  BY <1>1, <1>2 DEF UpdateOK, Means
<1>5. PICK o \in Objects : o = loggers[n] /\ o # None
  BY <1>1, <1>2, <1>4 DEF Follows, Typed, TypeOK
<1>6. PICK x \in LoggerRecord : /\ x = [obj[o] EXCEPT !.level = d.level]
                                /\ x.level = d.level /\ x.root = obj[o].root
  <2>1. obj[o] \in LoggerRecord /\ d.level \in Levels
    BY <1>1, DefinitionTyped DEF Typed, TypeOK, LoggerRecord
  <2>2. [obj[o] EXCEPT !.level = d.level] \in LoggerRecord
    BY <2>1 DEF LoggerRecord
  <2> QED
    BY <2>1, <2>2 DEF LoggerRecord
<1>7. PICK u \in Update :
        /\ u = [update EXCEPT !.pc = "clear", !.cur = n, !.todo = @ \ {n}]
        /\ u.pc = "clear" /\ u.cur = n /\ u.new = update.new /\ u.todo = update.todo \ {n}
  <2>1. [update EXCEPT !.pc = "clear", !.cur = n, !.todo = @ \ {n}] \in Update
    BY <1>1 DEF Typed, Update
  <2> QED
    BY <1>1, <2>1 DEF Typed, Update
<1>8. obj' = [obj EXCEPT ![o] = x] /\ update' = u
  BY <1>3, <1>5, <1>6, <1>7 DEF SetLevel, Others
<1>9. u.new[n] # None
  BY <1>3, <1>7, DefinitionTyped
<1>10. Follows(n)'
  <2>1. obj'[o] = x /\ loggers'[n] = o
    BY <1>1, <1>2, <1>5, <1>8 DEF Typed, TypeOK
  <2>2. Means(n)' = d /\ Half(n)' /\ update'.pc = "clear" /\ d # None
    BY <1>3, <1>7, <1>8, <1>9 DEF Means, Half
  <2> QED
    BY <1>5, <1>6, <2>1, <2>2 DEF Follows, Configured
<1>11. crash' \in {"none", "appender"}
  BY <1>2
<1> QED
  BY <1>2, <1>5, <1>6, <1>7, <1>8, <1>9, <1>10, <1>11, UpdateOne

\* The name the callback is at, its definition and its logger.
LEMMA CurrentName ==
  ASSUME LInv, crash = "none", update.pc \in {"clear", "add"}
  PROVE  \E n \in Names, d \in Defs, o \in Objects :
           /\ n = update.cur /\ n \notin update.todo /\ d = update.new[n] /\ d # None
           /\ o = loggers[n] /\ o # None /\ obj[o] \in LoggerRecord
           /\ Means(n) = d /\ Half(n) /\ Follows(n)
<1>1. Typed /\ LockOK /\ UpdateOK
  BY DEF LInv
<1>2. PICK n \in Names : n = update.cur /\ n \notin update.todo /\ update.new[n] # None
  BY <1>1 DEF UpdateOK
<1>3. Means(n) = update.new[n] /\ Half(n) /\ Follows(n) /\ update.new[n] \in Defs
  BY <1>1, <1>2 DEF UpdateOK, Means, Half, Typed, Update
<1>4. loggers[n] \in Objects /\ loggers[n] # None
  BY <1>1, <1>2, <1>3 DEF Follows, Typed, TypeOK
<1>5. obj[loggers[n]] \in LoggerRecord
  BY <1>1, <1>4 DEF Typed, TypeOK, LoggerRecord
<1> QED
  BY <1>2, <1>3, <1>4, <1>5

LEMMA ClearAppenderLInv == ASSUME LInv, ClearAppender PROVE LInv'
<1>1. Typed /\ LockOK /\ UpdateOK
  BY DEF LInv
<1>2. /\ crash = "none" /\ update.pc = "clear"
      /\ UNCHANGED <<loggers, root, lock, conf, configs, msg, held, crash>>
  BY DEF ClearAppender
<1>3. PICK n \in Names, d \in Defs, o \in Objects :
        /\ n = update.cur /\ n \notin update.todo /\ d = update.new[n] /\ d # None
        /\ o = loggers[n] /\ o # None /\ obj[o] \in LoggerRecord
        /\ Means(n) = d /\ Half(n) /\ Follows(n)
  BY <1>2, CurrentName
<1>4. PICK x \in LoggerRecord : /\ x = [obj[o] EXCEPT !.appenders = {}]
                                /\ x.level = obj[o].level /\ x.root = obj[o].root
                                /\ x.appenders = {}
  <2>1. [obj[o] EXCEPT !.appenders = {}] \in LoggerRecord
    BY <1>3 DEF LoggerRecord
  <2> QED
    BY <1>3, <2>1 DEF LoggerRecord
<1>5. PICK u \in Update :
        /\ u = [update EXCEPT !.pc = "add", !.left = d.appenders]
        /\ u.pc = "add" /\ u.cur = n /\ u.new = update.new /\ u.todo = update.todo
        /\ u.left = d.appenders
  <2>1. [update EXCEPT !.pc = "add", !.left = d.appenders] \in Update
    BY <1>1, DefinitionTyped DEF Typed, Update
  <2> QED
    BY <1>1, <1>3, <2>1 DEF Typed, Update
<1>6. obj' = [obj EXCEPT ![o] = x] /\ update' = u
  BY <1>3, <1>4, <1>5 DEF ClearAppender, NoAppenders
<1>7. Follows(n)'
  <2>1. obj'[o] = x /\ loggers'[n] = o
    BY <1>1, <1>2, <1>3, <1>6 DEF Typed, TypeOK
  <2>2. Means(n)' = d /\ Half(n)' /\ update'.left = d.appenders
    BY <1>3, <1>5, <1>6 DEF Means, Half
  <2>3. Configured(n)' => o = <<n, "config">> /\ Configured(n)
    BY <1>2, <1>3 DEF Configured
  <2>4. Configured(n) => obj[o].level = d.level
    BY <1>3 DEF Follows, Configured
  <2>5. x.appenders \cup d.appenders = d.appenders
    BY <1>4
  <2> QED
    BY <1>3, <1>4, <2>1, <2>2, <2>3, <2>4, <2>5, ZenonT(40) DEF Follows
<1>8. crash' \in {"none", "appender"}
  BY <1>2
<1>9. crash = "none"
  BY <1>2
<1> QED
  <2>1. /\ update.pc # "none" /\ u.pc # "none" /\ u.new = update.new
        /\ o = loggers[n] /\ loggers' = loggers /\ x.root = obj[o].root
        /\ u.cur = n /\ n \notin u.todo /\ u.new[n] # None /\ update.cur = n
        /\ u.todo = update.todo
    BY <1>2, <1>3, <1>4, <1>5
  <2>2. UNCHANGED <<root, lock, conf, configs, msg, held>>
    BY <1>2
  <2> QED
    BY <1>8, <1>9, <1>6, <1>7, <2>1, <2>2, UpdateOne

LEMMA AddAppenderLInv == ASSUME LInv, NEW ap \in Appenders, AddAppender(ap) PROVE LInv'
<1>1. Typed /\ LockOK /\ UpdateOK
  BY DEF LInv
<1>2. /\ crash = "none" /\ update.pc = "add" /\ ap \in update.left /\ crash' \in {"none", "appender"}
      /\ UNCHANGED <<loggers, root, lock, conf, configs, msg, held>>
  BY DEF AddAppender, Crash
<1>3. PICK n \in Names, d \in Defs, o \in Objects :
        /\ n = update.cur /\ n \notin update.todo /\ d = update.new[n] /\ d # None
        /\ o = loggers[n] /\ o # None /\ obj[o] \in LoggerRecord
        /\ Means(n) = d /\ Half(n) /\ Follows(n)
  BY <1>2, CurrentName
<1>4. PICK x \in LoggerRecord : /\ x = [obj[o] EXCEPT !.appenders = @ \cup {ap}]
                                /\ x.level = obj[o].level /\ x.root = obj[o].root
                                /\ x.appenders = obj[o].appenders \cup {ap}
  <2>1. [obj[o] EXCEPT !.appenders = @ \cup {ap}] \in LoggerRecord
    BY <1>3 DEF LoggerRecord
  <2> QED
    BY <1>3, <2>1 DEF LoggerRecord
<1>5. PICK u \in Update :
        /\ u = [update EXCEPT !.left = @ \ {ap}]
        /\ u.pc = "add" /\ u.cur = n /\ u.new = update.new /\ u.todo = update.todo
        /\ u.left = update.left \ {ap}
  <2>1. [update EXCEPT !.left = @ \ {ap}] \in Update
    BY <1>1 DEF Typed, Update
  <2> QED
    BY <1>1, <1>2, <1>3, <2>1 DEF Typed, Update
<1>6. obj' = [obj EXCEPT ![o] = x] /\ update' = u
  BY <1>3, <1>4, <1>5, SMTT(30) DEF AddAppender
<1>7. Follows(n)'
  <2>1. obj'[o] = x /\ loggers'[n] = o
    BY <1>1, <1>2, <1>3, <1>6 DEF Typed, TypeOK
  <2>2. Means(n)' = d /\ Half(n)' /\ update'.left = update.left \ {ap} /\ update'.pc = "add"
    BY <1>3, <1>5, <1>6 DEF Means, Half
  <2>3. Configured(n)' => o = <<n, "config">> /\ Configured(n)
    BY <1>2, <1>3 DEF Configured
  <2>4. Configured(n) => obj[o].level = d.level /\ obj[o].appenders \cup update.left = d.appenders
    BY <1>2, <1>3 DEF Follows, Configured
  <2>5. x.appenders \cup (update.left \ {ap}) = obj[o].appenders \cup update.left
    BY <1>2, <1>4
  <2> QED
    BY <1>3, <1>4, <2>1, <2>2, <2>3, <2>4, <2>5, ZenonT(40) DEF Follows
<1>8. crash = "none" /\ crash' \in {"none", "appender"}
  BY <1>2
<1> QED
  <2>1. /\ update.pc # "none" /\ u.pc # "none" /\ u.new = update.new
        /\ o = loggers[n] /\ loggers' = loggers /\ x.root = obj[o].root
        /\ u.cur = n /\ n \notin u.todo /\ u.new[n] # None /\ update.cur = n
        /\ u.todo = update.todo
    BY <1>2, <1>3, <1>4, <1>5
  <2>2. UNCHANGED <<root, lock, conf, configs, msg, held>>
    BY <1>2
  <2> QED
    BY <1>8, <1>6, <1>7, <2>1, <2>2, UpdateOne

\* All appenders are there: the logger follows its definition.
LEMMA NextDefinitionLInv == ASSUME LInv, NextDefinition PROVE LInv'
<1>1. Typed /\ LockOK /\ UpdateOK
  BY DEF LInv
<1>2. /\ crash = "none" /\ update.pc = "add" /\ update.left = {}
      /\ UNCHANGED <<loggers, obj, root, lock, conf, configs, msg, held, crash>>
  BY DEF NextDefinition
<1>3. PICK n \in Names, d \in Defs, o \in Objects :
        /\ n = update.cur /\ n \notin update.todo /\ d = update.new[n] /\ d # None
        /\ o = loggers[n] /\ o # None /\ obj[o] \in LoggerRecord
        /\ Means(n) = d /\ Half(n) /\ Follows(n)
  BY <1>2, CurrentName
<1>4. PICK u \in Update : /\ u = [update EXCEPT !.pc = "each", !.cur = None]
                          /\ u.pc = "each" /\ u.new = update.new /\ u.todo = update.todo
  <2>1. [update EXCEPT !.pc = "each", !.cur = None] \in Update
    BY <1>1 DEF Typed, Update
  <2> QED
    BY <1>1, <2>1 DEF Typed, Update
<1>5. PICK x \in LoggerRecord : x = obj[o]
  BY <1>3
<1>6. obj' = [obj EXCEPT ![o] = x] /\ update' = u
  BY <1>1, <1>2, <1>4, <1>5 DEF NextDefinition, Typed, TypeOK
<1>7. Follows(n)'
  <2>1. Means(n)' = d /\ ~Half(n)'
    BY <1>3, <1>4, <1>6 DEF Means, Half
  <2> QED
    BY <1>2, <1>3, <2>1 DEF Follows, Configured
<1>8. /\ crash' \in {"none", "appender"} /\ x.root = obj[o].root /\ update.cur = n
      /\ o = loggers[n] /\ loggers' = loggers /\ update.pc # "none" /\ crash = "none"
      /\ UNCHANGED <<root, lock, conf, configs, msg, held>>
  BY <1>2, <1>3, <1>5
<1>9. u.pc = "each" /\ u.new = update.new /\ u.todo = update.todo
  BY <1>4
<1> QED
  BY <1>6, <1>7, <1>8, <1>9, UpdateOne

\* The new value is stored, unless a definition is gone.
LEMMA EndUpdateLInv == ASSUME LInv, EndUpdate PROVE LInv'
<1>1. Typed /\ LockOK /\ UpdateOK
  BY DEF LInv
<1>2. /\ crash = "none" /\ update.pc = "each" /\ update.todo = {}
      /\ crash' = IF Gone THEN "end" ELSE "none"
      /\ conf' = update.new /\ lock' = [lock EXCEPT !.writer = FALSE] /\ update' = NoUpdate
      /\ UNCHANGED <<loggers, obj, root, configs, msg, held>>
  BY DEF EndUpdate, Crash
<1>3. /\ NoUpdate \in Update /\ NoUpdate.pc = "none" /\ NoUpdate.todo = {} /\ NoUpdate.left = {}
  BY DEF NoUpdate, Update
<1>4. lock' = [readers |-> {}, writer |-> FALSE]
  BY <1>1, <1>2, WriterAlone DEF Typed, TypeOK
<1>5. Typed'
  <2>1. conf' \in [Names -> Defs \cup {None}]
    BY <1>1, <1>2 DEF Typed, Update
  <2>2. crash' \in {"none", "root", "end", "appender"}
    BY <1>2
  <2> QED
    BY <1>1, <1>2, <1>3, <1>4, <2>1, <2>2 DEF Typed, TypeOK
<1>6. LockOK'
  BY <1>1, <1>2, <1>3, <1>4, WriterAlone DEF LockOK
<1>7. \A t \in Threads : MessageOK(t)'
  BY <1>2, WriterAlone, MessagesRest
<1>8. \A n \in Names : LoggerOK(n)'
  BY <1>2 DEF LInv, LoggerOK, Configured
<1>9. ASSUME crash' # "end", NEW n \in Names PROVE Follows(n)'
  <2>1. Follows(n) /\ ~Half(n)
    BY <1>1, <1>2 DEF UpdateOK, Half
  <2>2. Means(n) = update.new[n]
    BY <1>2, <1>9 DEF Means, Gone
  <2>3. Means(n)' = update.new[n] /\ ~Half(n)'
    BY <1>2, <1>3 DEF Means, Half
  <2> QED
    BY <1>2, <2>1, <2>2, <2>3 DEF Follows, Configured
<1>10. UpdateOK'
  BY <1>2, <1>3, <1>9 DEF UpdateOK
<1> QED
  BY <1>5, <1>6, <1>7, <1>8, <1>10 DEF LInv

-----------------------------------------------------------------------------
(* The theorems.                                                           *)

LEMMA InitLInv == Init => LInv
<1> SUFFICES ASSUME Init PROVE LInv
  OBVIOUS
<1>1. NoUpdate \in Update /\ NoUpdate.pc = "none" /\ NoUpdate.todo = {} /\ NoUpdate.left = {}
  BY DEF NoUpdate, Update
<1>2. \A t \in Threads : msg[t] = NoMessage
  BY DEF Init
<1>3. Typed
  <2>1. msg \in [Threads -> Message] /\ \A t \in Threads : msg[t].pc = "none"
    BY NoMessageTyped DEF Init
  <2>2. obj \in [Objects -> LoggerRecord]
    BY DEF Init, Fresh, LoggerRecord
  <2>3. /\ loggers \in [Names -> Objects \cup {None}] /\ root \in [made : BOOLEAN, level : Levels]
        /\ lock \in [readers : SUBSET Threads, writer : BOOLEAN] /\ ~lock.writer
        /\ conf \in [Names -> Defs \cup {None}] /\ held \in [Threads -> Objects \cup {None}]
    BY DEF Init
  <2>4. configs \in 0 .. MaxConfigs /\ update = NoUpdate /\ crash = "none"
    BY DEF Init
  <2> QED
    BY <1>1, <2>1, <2>2, <2>3, <2>4 DEF Typed, TypeOK, LoggerRecord
<1>4. LockOK
  BY <1>1, <1>2, NoMessageTyped DEF Init, LockOK
<1>5. \A t \in Threads : MessageOK(t)
  BY <1>2, NoMessageTyped DEF MessageOK
<1>6. \A n \in Names : LoggerOK(n) /\ Follows(n)
  BY <1>1 DEF Init, LoggerOK, Follows, Configured, Means, Objects
<1>7. UpdateOK
  BY <1>1, <1>6 DEF Init, UpdateOK
<1> QED
  BY <1>3, <1>4, <1>5, <1>6, <1>7 DEF LInv

\* Every reachable state satisfies the inductive invariant.
THEOREM LoggersInvariance == Spec => []LInv
<1>1. ASSUME LInv, [Next]_vars PROVE LInv'
  <2>1. ASSUME NEW t \in Threads, LogStep(t) PROVE LInv'
    BY <1>1, <2>1, LogToLInv, EndLogLInv, InsertLInv DEF LogStep
  <2>2. ASSUME UpdateStep PROVE LInv'
    BY <1>1, <2>2, AddLoggerLInv, SetLevelLInv, ClearAppenderLInv, NextDefinitionLInv,
       EndUpdateLInv, AddAppenderLInv DEF UpdateStep
  <2>3. CASE UNCHANGED vars
    <3>1. Typed' /\ LockOK'
      BY <1>1, <2>3 DEF vars, LInv, Typed, TypeOK, LockOK
    <3>2. \A x, l : Printed(x, l)' = Printed(x, l)
      BY <2>3 DEF vars, Printed
    <3>3. \A t \in Threads : MessageOK(t)'
      BY <1>1, <2>3, <3>2 DEF vars, LInv, MessageOK, Configured
    <3>4. \A n \in Names : LoggerOK(n)'
      BY <1>1, <2>3 DEF vars, LInv, LoggerOK, Configured
    <3>5. \A n \in Names : Follows(n)' = Follows(n)
      BY <2>3 DEF vars, Follows, Configured, Means, Half
    <3>6. UpdateOK'
      BY <1>1, <2>3, <3>5 DEF vars, LInv, UpdateOK
    <3> QED
      BY <3>1, <3>3, <3>4, <3>6 DEF LInv
  <2> QED
    BY <1>1, <2>1, <2>2, <2>3, BeginLogLInv, LogDirectlyLInv, getLoggerLInv, BeginUpdateLInv
    DEF Next
<1> QED
  BY <1>1, InitLInv, PTL DEF Spec

\* log.cpp:409-415 with the callback, 424-470: each configured logger prints a
\* message as one and the same configuration says.
THEOREM OneConfiguration == Spec => []MessageSeesOneConfiguration
<1>1. LInv => MessageSeesOneConfiguration
  BY DEF LInv, MessageOK, MessageSeesOneConfiguration
<1> QED
  BY <1>1, LoggersInvariance, PTL

\* Between two changes the loggers are what the configuration defines, and
\* LoggerManager::log finds no logger without appenders and root.
THEOREM LoggersAreRight == ASSUME EveryDefinitionPrints PROVE Spec => []LoggerInv
<1>1. LInv => LoggerInv
  <2> SUFFICES ASSUME LInv PROVE LoggerInv
    OBVIOUS
  <2>1. TypeOK
    BY DEF LInv, Typed
  <2>2. ConfigurationApplied
    <3> SUFFICES ASSUME update.pc = "none", crash = "none", NEW n \in Names, conf[n] # None
                 PROVE  /\ loggers[n] # None
                        /\ Configured(n) => /\ obj[loggers[n]].level = conf[n].level
                                            /\ obj[loggers[n]].appenders = conf[n].appenders
      BY DEF ConfigurationApplied
    <3>1. Follows(n) /\ Means(n) = conf[n] /\ ~Half(n)
      BY DEF LInv, UpdateOK, Means, Half
    <3> QED
      BY <3>1 DEF Follows, Configured
  <2>3. ReadersFindAppenders
    <3> SUFFICES ASSUME NEW t \in Threads, NEW n \in msg[t].todo
                 PROVE  ~NoRoot(obj[loggers[n]], msg[t].level)
      BY DEF ReadersFindAppenders
    <3>1. msg[t].pc = "each" /\ n \in Names /\ loggers[n] # None /\ LoggerOK(n)
      BY DEF LInv, MessageOK, Typed, Message
    <3>2. Follows(n) /\ Means(n) = conf[n] /\ ~Half(n) /\ conf[n] \in Defs \cup {None}
      BY <2>1, <3>1, ReaderAlone DEF TypeOK
    <3>3. CASE Configured(n)
      <4>1. conf[n] \in Defs /\ obj[loggers[n]].appenders = conf[n].appenders
        BY <3>2, <3>3 DEF Follows, Configured
      <4> QED
        BY <4>1 DEF NoRoot, EveryDefinitionPrints
    <3>4. CASE ~Configured(n)
      BY <3>1, <3>4 DEF LoggerOK, NoRoot
    <3> QED
      BY <3>3, <3>4
  <2> QED
    BY <2>1, <2>2, <2>3 DEF LoggerInv
<1> QED
  BY <1>1, LoggersInvariance, PTL
=============================================================================
