--------------------------- MODULE Thread_proofs ----------------------------
(***************************************************************************)
(* For any number of Thread objects, made by main and by the threads they  *)
(* start, joined, destroyed and renamed at any moment: a new thread uses   *)
(* its object only while that exists.                                      *)
(***************************************************************************)
EXTENDS MCThread, TLAPS

USE MCThreadAssumption DEF T!ThreadAssumption

Object == [state : {"unborn", "exists", "destroyed"}, name : T!Names,
           threadId : BOOLEAN, cb : BOOLEAN, count : Nat]

\* Nothing has been made, and main is in no call.
LEMMA InitHandshake == T!Init => T!HandshakeInv
<1> SUFFICES ASSUME T!Init PROVE T!HandshakeInv
  OBVIOUS
<1> USE DEF T!Init, T!Unborn, T!InitialCount, T!NoCall
<1>1. T!TypeOK
  BY DEF T!TypeOK, T!Names
<1>2. T!ObjectUsedRightly /\ T!ReleasedBeforeGone
  BY DEF T!ObjectUsedRightly, T!ReleasedBeforeGone, T!Gone
<1>3. \A o \in Objects : T!ObjectOK(o)
  BY DEF T!ObjectOK
<1>4. \A t \in T!Pthreads : T!CallOK(t)
  BY DEF T!CallOK, T!Pthreads
<1> QED
  BY <1>1, <1>2, <1>3, <1>4 DEF T!HandshakeInv, T!ThreadInv

\* A thread that runs code of its own is the maker of no object that is being
\* made or started, and is started itself.
LEMMA RunningThread ==
  ASSUME T!HandshakeInv, NEW t \in T!Pthreads, T!Running(t)
  PROVE  /\ call[t] = T!NoCall /\ call[t].op = "none" /\ call[t].on = None
         /\ t # Main => t \in Objects /\ run[t] = "body"
         /\ \A o \in Objects : maker[o] = t => run[o] \in {"body", "done"}
<1>1. call[t] = T!NoCall /\ call[t].op = "none" /\ call[t].on = None
  BY DEF T!Running, T!NoCall
<1>2. ASSUME NEW o \in Objects, maker[o] = t PROVE run[o] \in {"body", "done"}
  BY <1>1, <1>2 DEF T!HandshakeInv, T!ObjectOK, T!Pthreads
<1> QED
  BY <1>1, <1>2 DEF T!Running

\* The constructor begins.
LEMMA ConstructHandshake ==
  ASSUME T!HandshakeInv, NEW t \in T!Pthreads, NEW o \in Objects, T!Construct(t, o)
  PROVE  T!HandshakeInv'
<1>1. PICK x \in Object : /\ x.state = "exists" /\ x.name = T!NameOf(o) /\ x.cb
                          /\ x.count = 0 /\ ~x.threadId
                          /\ obj' = [obj EXCEPT ![o] = x]
  <2>1. [[T!Unborn EXCEPT !.state = "exists"] EXCEPT !.name = T!NameOf(o), !.cb = TRUE] \in Object
    BY DEF T!Unborn, T!InitialCount, Object, T!NameOf, T!Names
  <2> QED
    BY <2>1 DEF T!Construct, T!Unborn, T!InitialCount, Object, T!NameOf, T!Names
<1>2. PICK c : c = [op |-> "create", on |-> o]
  OBVIOUS
<1>3. /\ obj[o].state = "unborn" /\ maker' = [maker EXCEPT ![o] = t]
      /\ call' = [call EXCEPT ![t] = c] /\ cur' = [cur EXCEPT ![t] = o]
      /\ curName' = IF o \in Unnamed THEN curName ELSE [curName EXCEPT ![t] = o]
      /\ UNCHANGED <<run, sys, failures, misuse>>
  BY <1>2 DEF T!Construct
<1>4. T!TypeOK /\ \A p \in Objects : T!ObjectOK(p)
  BY DEF T!HandshakeInv, T!ThreadInv
<1>5. /\ obj'[o] = x /\ \A p \in Objects : p # o => obj'[p] = obj[p]
      /\ maker'[o] = t /\ \A p \in Objects : p # o => maker'[p] = maker[p]
      /\ call'[t] = c /\ \A u \in T!Pthreads : u # t => call'[u] = call[u]
      /\ cur'[t] = o /\ \A u \in T!Pthreads : u # t => cur'[u] = cur[u]
      /\ \A u \in T!Pthreads : u # t => curName'[u] = curName[u]
  BY <1>1, <1>3, <1>4 DEF T!TypeOK
<1>6. /\ call[t].op = "none" /\ (t # Main => run[t] = "body")
      /\ \A p \in Objects : maker[p] = t => run[p] \in {"body", "done"}
  BY RunningThread DEF T!Construct
<1>7. run[o] = "none" /\ sys[o] = "none" /\ maker[o] = None
  BY <1>3, <1>4 DEF T!ObjectOK
<1>12. t # None /\ o # None
  BY DEF T!Pthreads
<1>8. T!TypeOK'
  <2>1. obj' \in [Objects -> Object] /\ c \in [op : {"none", "create", "wait", "join"}, on : Objects \cup {None}]
    BY <1>1, <1>2, <1>4 DEF T!TypeOK, Object
  <2>2. maker' \in [Objects -> T!Pthreads \cup {None}] /\ cur' \in [T!Pthreads -> Objects \cup {None}]
    BY <1>3, <1>4 DEF T!TypeOK
  <2>3. curName' \in [T!Pthreads -> T!Names]
    BY <1>3, <1>4 DEF T!TypeOK, T!Names
  <2> QED
    BY <1>3, <1>4, <2>1, <2>2, <2>3 DEF T!TypeOK, Object
<1>9. T!ObjectUsedRightly' /\ T!ReleasedBeforeGone'
  BY <1>1, <1>3, <1>5 DEF T!HandshakeInv, T!ThreadInv, T!ObjectUsedRightly,
     T!ReleasedBeforeGone, T!Gone
<1>10. ASSUME NEW p \in Objects PROVE T!ObjectOK(p)'
  <2>1. T!ObjectOK(p)
    BY <1>4
  <2>2. CASE p = o
    BY <1>1, <1>2, <1>3, <1>5, <1>7, <1>12, <2>2 DEF T!ObjectOK, T!NameOf
  <2>3. CASE p # o
    <3>1. run[p] \notin {"body", "done"} => maker[p] # t
      BY <1>6
    <3>2. run[p] \in {"take", "notify"} => p # t
      BY <1>6
    <3>3. maker[p] \in T!Pthreads \cup {None} /\ p \in T!Pthreads
      BY <1>4 DEF T!TypeOK, T!Pthreads
    <3> QED
      BY <1>3, <1>5, <2>1, <2>3, <3>1, <3>2, <3>3 DEF T!ObjectOK
  <2> QED
    BY <2>2, <2>3
<1>11. ASSUME NEW u \in T!Pthreads PROVE T!CallOK(u)'
  <2>1. T!CallOK(u)
    BY DEF T!HandshakeInv
  <2>2. call[u].on \in Objects \cup {None} /\ cur[u] \in Objects \cup {None}
    BY <1>4 DEF T!TypeOK
  <2>3. call[u].on # o /\ cur[u] # o
    BY <1>7, <1>12, <2>1 DEF T!CallOK, T!Pthreads
  <2>4. CASE u = t
    <3>1. call'[u].op = "create" /\ call'[u].on = o
      BY <1>2, <1>5, <2>4
    <3> QED
      BY <1>1, <1>3, <1>5, <1>7, <1>12, <2>4, <3>1 DEF T!CallOK
  <2>5. CASE u # t
    <3>1. call'[u] = call[u] /\ cur'[u] = cur[u]
      BY <1>5, <2>5
    <3>2. call[u].op = "none" \/ call[u].on \in Objects
      BY <2>1, <2>2 DEF T!CallOK
    <3> QED
      BY <1>3, <1>5, <2>1, <2>2, <2>3, <3>1, <3>2 DEF T!CallOK
  <2> QED
    BY <2>4, <2>5
<1> QED
  BY <1>8, <1>9, <1>10, <1>11 DEF T!HandshakeInv, T!ThreadInv

\* pthread_create: the id is stored and the thread starts.
LEMMA CreateHandshake ==
  ASSUME T!HandshakeInv, NEW t \in T!Pthreads, T!Create(t)
  PROVE  T!HandshakeInv'
<1>1. T!TypeOK /\ \A p \in Objects : T!ObjectOK(p)
  BY DEF T!HandshakeInv, T!ThreadInv
<1>2. PICK o \in Objects : call[t].on = o /\ maker[o] = t /\ run[o] = "none"
                           /\ obj[o].state = "exists"
  <2>1. T!CallOK(t) /\ call[t].op = "create" /\ call[t].on \in Objects \cup {None}
    BY <1>1 DEF T!HandshakeInv, T!Create, T!TypeOK
  <2> QED
    BY <2>1 DEF T!CallOK
<1>3. PICK x \in Object : /\ x.state = "exists" /\ x.name = obj[o].name /\ x.cb = obj[o].cb
                          /\ x.count = obj[o].count /\ x.threadId
                          /\ obj' = [obj EXCEPT ![o] = x]
  <2>1. obj[o] \in Object /\ obj' = [obj EXCEPT ![o].threadId = TRUE]
    BY <1>1, <1>2 DEF T!Create, T!TypeOK, Object
  <2>2. [obj[o] EXCEPT !.threadId = TRUE] \in Object
    BY <2>1 DEF Object
  <2> QED
    BY <1>2, <2>1, <2>2 DEF Object
<1>4. PICK c : c = [op |-> "wait", on |-> o]
  OBVIOUS
<1>5. /\ call' = [call EXCEPT ![t] = c] /\ run' = [run EXCEPT ![o] = "start"]
      /\ sys' = [sys EXCEPT ![o] = "joinable"]
      /\ UNCHANGED <<maker, cur, curName, failures, misuse>>
  <2>1. call[t] \in [op : {"none", "create", "wait", "join"}, on : Objects \cup {None}]
    BY <1>1 DEF T!TypeOK
  <2>2. call' = [call EXCEPT ![t].op = "wait"]
    BY DEF T!Create
  <2>3. [call[t] EXCEPT !.op = "wait"] = c
    BY <1>2, <1>4, <2>1
  <2> QED
    BY <1>2, <2>2, <2>3 DEF T!Create
<1>6. /\ obj'[o] = x /\ \A p \in Objects : p # o => obj'[p] = obj[p]
      /\ run'[o] = "start" /\ \A p \in Objects : p # o => run'[p] = run[p]
      /\ sys'[o] = "joinable" /\ \A p \in Objects : p # o => sys'[p] = sys[p]
      /\ call'[t] = c /\ \A u \in T!Pthreads : u # t => call'[u] = call[u]
  BY <1>1, <1>3, <1>5 DEF T!TypeOK
<1>7. T!TypeOK'
  <2>1. obj' \in [Objects -> Object] /\ c \in [op : {"none", "create", "wait", "join"}, on : Objects \cup {None}]
    BY <1>1, <1>3, <1>4 DEF T!TypeOK, Object
  <2> QED
    BY <1>1, <1>5, <2>1 DEF T!TypeOK, Object
<1>8. T!ObjectUsedRightly' /\ T!ReleasedBeforeGone'
  BY <1>3, <1>5, <1>6 DEF T!HandshakeInv, T!ThreadInv, T!ObjectUsedRightly,
     T!ReleasedBeforeGone, T!Gone
<1>9. ASSUME NEW p \in Objects PROVE T!ObjectOK(p)'
  <2>1. T!ObjectOK(p)
    BY <1>1
  <2>2. CASE p = o
    BY <1>2, <1>3, <1>4, <1>5, <1>6, <2>1, <2>2 DEF T!ObjectOK, T!NameOf
  <2>3. CASE p # o
    <3>1. maker[p] = t => run[p] \in {"body", "done"}
      BY <1>2, <2>1, <2>3 DEF T!ObjectOK, T!Pthreads
    <3>2. maker[p] \in T!Pthreads \cup {None}
      BY <1>1 DEF T!TypeOK
    <3> QED
      BY <1>5, <1>6, <2>1, <2>3, <3>1, <3>2 DEF T!ObjectOK, T!NameOf
  <2> QED
    BY <2>2, <2>3
<1>10. ASSUME NEW u \in T!Pthreads PROVE T!CallOK(u)'
  <2>1. T!CallOK(u)
    BY DEF T!HandshakeInv
  <2>2. CASE u = t
    <3>1. call'[u].op = "wait" /\ call'[u].on = o /\ o # None
      BY <1>4, <1>6, <2>2
    <3> QED
      BY <1>2, <1>3, <1>5, <1>6, <2>1, <2>2, <3>1 DEF T!CallOK
  <2>3. CASE u # t
    <3>1. call'[u] = call[u]
      BY <1>6, <2>3
    <3>2. call[u].op = "none" \/ call[u].on \in Objects \ {o}
      BY <1>1, <1>2, <2>1, <2>3 DEF T!CallOK, T!TypeOK
    <3> QED
      BY <1>5, <1>6, <2>1, <3>1, <3>2 DEF T!CallOK
  <2> QED
    BY <2>2, <2>3
<1> QED
  BY <1>7, <1>8, <1>9, <1>10 DEF T!HandshakeInv, T!ThreadInv

\* pthread_create fails: the constructor waits for a thread that never starts.
LEMMA CreateFailsHandshake ==
  ASSUME T!HandshakeInv, NEW t \in T!Pthreads, T!CreateFails(t)
  PROVE  T!HandshakeInv'
<1>1. T!TypeOK /\ \A p \in Objects : T!ObjectOK(p)
  BY DEF T!HandshakeInv, T!ThreadInv
<1>2. PICK o \in Objects : call[t].on = o /\ maker[o] = t /\ run[o] = "none"
                           /\ obj[o].state = "exists"
  <2>1. T!CallOK(t) /\ call[t].op = "create" /\ call[t].on \in Objects \cup {None}
    BY <1>1 DEF T!HandshakeInv, T!CreateFails, T!TypeOK
  <2> QED
    BY <2>1 DEF T!CallOK
<1>3. PICK c : c = [op |-> "wait", on |-> o]
  OBVIOUS
<1>4. /\ call' = [call EXCEPT ![t] = c] /\ failures' = failures + 1 /\ failures < MaxFailures
      /\ UNCHANGED <<obj, maker, run, sys, cur, curName, misuse>>
  <2>1. call[t] \in [op : {"none", "create", "wait", "join"}, on : Objects \cup {None}]
    BY <1>1 DEF T!TypeOK
  <2>2. call' = [call EXCEPT ![t].op = "wait"]
    BY DEF T!CreateFails
  <2>3. [call[t] EXCEPT !.op = "wait"] = c
    BY <1>2, <1>3, <2>1
  <2> QED
    BY <2>2, <2>3 DEF T!CreateFails
<1>5. call'[t] = c /\ \A u \in T!Pthreads : u # t => call'[u] = call[u]
  BY <1>1, <1>4 DEF T!TypeOK
<1>6. T!TypeOK'
  <2>1. c \in [op : {"none", "create", "wait", "join"}, on : Objects \cup {None}]
    BY <1>3
  <2>2. failures' \in 0 .. MaxFailures
    BY <1>1, <1>4 DEF T!TypeOK
  <2> QED
    BY <1>1, <1>4, <2>1, <2>2 DEF T!TypeOK
<1>7. T!ObjectUsedRightly' /\ T!ReleasedBeforeGone'
  BY <1>4 DEF T!HandshakeInv, T!ThreadInv, T!ObjectUsedRightly, T!ReleasedBeforeGone, T!Gone
<1>8. ASSUME NEW p \in Objects PROVE T!ObjectOK(p)'
  <2>1. T!ObjectOK(p)
    BY <1>1
  <2>2. CASE maker[p] = t
    BY <1>2, <1>3, <1>4, <1>5, <2>1, <2>2 DEF T!ObjectOK, T!NameOf
  <2>3. CASE maker[p] # t
    <3>1. maker[p] \in T!Pthreads \cup {None}
      BY <1>1 DEF T!TypeOK
    <3> QED
      BY <1>4, <1>5, <2>1, <2>3, <3>1 DEF T!ObjectOK, T!NameOf
  <2> QED
    BY <2>2, <2>3
<1>9. ASSUME NEW u \in T!Pthreads PROVE T!CallOK(u)'
  <2>1. T!CallOK(u)
    BY DEF T!HandshakeInv
  <2>2. CASE u = t
    <3>1. call'[u].op = "wait" /\ call'[u].on = o /\ o # None
      BY <1>3, <1>5, <2>2
    <3> QED
      BY <1>2, <1>4, <2>1, <2>2, <3>1 DEF T!CallOK
  <2>3. CASE u # t
    BY <1>4, <1>5, <2>1, <2>3 DEF T!CallOK
  <2> QED
    BY <2>2, <2>3
<1> QED
  BY <1>6, <1>7, <1>8, <1>9 DEF T!HandshakeInv, T!ThreadInv

\* The constructor returns: it has been notified, or goes on waiting.
LEMMA WaitHandshake ==
  ASSUME T!HandshakeInv, NEW t \in T!Pthreads, T!Wait(t)
  PROVE  T!HandshakeInv'
<1>1. T!TypeOK /\ \A p \in Objects : T!ObjectOK(p)
  BY DEF T!HandshakeInv, T!ThreadInv
<1>2. PICK o \in Objects : call[t].on = o /\ maker[o] = t /\ obj[o].count > 0
  <2>1. T!CallOK(t) /\ call[t].op = "wait" /\ call[t].on \in Objects \cup {None}
    BY <1>1 DEF T!HandshakeInv, T!Wait, T!TypeOK
  <2>2. obj[call[t].on].count > 0
    BY DEF T!Wait, T!Posted
  <2> QED
    BY <2>1, <2>2 DEF T!CallOK
<1>3. PICK x \in Object : /\ x.state = obj[o].state /\ x.name = obj[o].name /\ x.cb = obj[o].cb
                          /\ x.threadId = obj[o].threadId
                          /\ obj' = [obj EXCEPT ![o] = x]
  <2>1. obj[o] \in Object /\ obj' = [obj EXCEPT ![o].count = @ - 1]
    BY <1>1, <1>2 DEF T!Wait, T!TypeOK, Object
  <2>2. obj[o].count - 1 \in Nat
    BY <1>2, <2>1 DEF Object
  <2>3. [obj[o] EXCEPT !.count = @ - 1] \in Object
    BY <2>1, <2>2 DEF Object
  <2> QED
    BY <1>2, <2>1, <2>3 DEF Object
<1>4. PICK c : c = T!NoCall /\ c.op = "none" /\ c.on = None
  <2>1. T!NoCall.op = "none" /\ T!NoCall.on = None
    BY DEF T!NoCall
  <2> QED
    BY <2>1
<1>5. /\ call' = [call EXCEPT ![t] = c]
      /\ UNCHANGED <<maker, run, sys, cur, curName, failures, misuse>>
  BY <1>4 DEF T!Wait
<1>6. /\ obj'[o] = x /\ \A p \in Objects : p # o => obj'[p] = obj[p]
      /\ call'[t] = c /\ \A u \in T!Pthreads : u # t => call'[u] = call[u]
  BY <1>1, <1>3, <1>5 DEF T!TypeOK
<1>7. run[o] \in {"body", "done"}
  BY <1>1, <1>2 DEF T!ObjectOK, T!TypeOK
<1>8. T!TypeOK'
  <2>1. obj' \in [Objects -> Object] /\ c \in [op : {"none", "create", "wait", "join"}, on : Objects \cup {None}]
    BY <1>1, <1>3, <1>4 DEF T!TypeOK, Object, T!NoCall
  <2> QED
    BY <1>1, <1>5, <2>1 DEF T!TypeOK, Object
<1>9. T!ObjectUsedRightly' /\ T!ReleasedBeforeGone'
  BY <1>3, <1>5, <1>6 DEF T!HandshakeInv, T!ThreadInv, T!ObjectUsedRightly,
     T!ReleasedBeforeGone, T!Gone
<1>10. ASSUME NEW p \in Objects PROVE T!ObjectOK(p)'
  <2>1. T!ObjectOK(p)
    BY <1>1
  <2>2. CASE p = o
    BY <1>2, <1>3, <1>5, <1>6, <1>7, <2>1, <2>2 DEF T!ObjectOK, T!NameOf
  <2>3. CASE p # o
    <3>1. maker[p] = t => run[p] \in {"body", "done"}
      BY <1>2, <2>1, <2>3 DEF T!ObjectOK, T!Pthreads
    <3>2. maker[p] \in T!Pthreads \cup {None}
      BY <1>1 DEF T!TypeOK
    <3> QED
      BY <1>5, <1>6, <2>1, <2>3, <3>1, <3>2 DEF T!ObjectOK, T!NameOf
  <2> QED
    BY <2>2, <2>3
<1>11. ASSUME NEW u \in T!Pthreads PROVE T!CallOK(u)'
  <2>1. T!CallOK(u)
    BY DEF T!HandshakeInv
  <2>2. CASE u = t
    BY <1>4, <1>5, <1>6, <2>1, <2>2 DEF T!CallOK
  <2>3. CASE u # t
    <3>1. call'[u] = call[u]
      BY <1>6, <2>3
    <3>2. call[u].op = "none" \/ call[u].on \in Objects \ {o}
      BY <1>1, <1>2, <2>1, <2>3 DEF T!CallOK, T!TypeOK
    <3> QED
      BY <1>5, <1>6, <2>1, <3>1, <3>2 DEF T!CallOK
  <2> QED
    BY <2>2, <2>3
<1> QED
  BY <1>8, <1>9, <1>10, <1>11 DEF T!HandshakeInv, T!ThreadInv

\* join returns when the thread has ended: nobody has released it before.
LEMMA JoinedHandshake ==
  ASSUME T!HandshakeInv, NEW t \in T!Pthreads, T!Joined(t)
  PROVE  T!HandshakeInv'
<1>1. T!TypeOK /\ \A p \in Objects : T!ObjectOK(p)
  BY DEF T!HandshakeInv, T!ThreadInv
<1>2. PICK o \in Objects : /\ call[t].on = o /\ maker[o] = t /\ obj[o].threadId
                           /\ obj[o].state = "exists" /\ run[o] = "done"
  <2>1. T!CallOK(t) /\ call[t].op = "join" /\ call[t].on \in Objects \cup {None}
    BY <1>1 DEF T!HandshakeInv, T!Joined, T!TypeOK
  <2>2. run[call[t].on] = "done"
    BY DEF T!Joined
  <2> QED
    BY <2>1, <2>2 DEF T!CallOK
<1>3. PICK x \in Object : /\ x.state = "exists" /\ x.name = obj[o].name /\ x.cb = obj[o].cb
                          /\ ~x.threadId
                          /\ obj' = [obj EXCEPT ![o] = x]
  <2>1. obj[o] \in Object /\ obj' = [obj EXCEPT ![o].threadId = FALSE]
    BY <1>1, <1>2 DEF T!Joined, T!IdAfterJoin, T!TypeOK, Object
  <2>2. [obj[o] EXCEPT !.threadId = FALSE] \in Object
    BY <2>1 DEF Object
  <2> QED
    BY <1>2, <2>1, <2>2 DEF Object
<1>4. PICK c : c = T!NoCall /\ c.op = "none" /\ c.on = None
  <2>1. T!NoCall.op = "none" /\ T!NoCall.on = None
    BY DEF T!NoCall
  <2> QED
    BY <2>1
<1>5. /\ call' = [call EXCEPT ![t] = c] /\ sys' = [sys EXCEPT ![o] = "joined"]
      /\ UNCHANGED <<maker, run, cur, curName, failures>>
  BY <1>2, <1>4 DEF T!Joined
<1>6. /\ obj'[o] = x /\ \A p \in Objects : p # o => obj'[p] = obj[p]
      /\ sys'[o] = "joined" /\ \A p \in Objects : p # o => sys'[p] = sys[p]
      /\ call'[t] = c /\ \A u \in T!Pthreads : u # t => call'[u] = call[u]
  BY <1>1, <1>3, <1>5 DEF T!TypeOK
<1>7. misuse' = misuse
  <2>1. sys[o] = "joinable"
    BY <1>1, <1>2 DEF T!ObjectOK
  <2> QED
    BY <1>2, <2>1 DEF T!Joined, T!Misuse
<1>8. T!TypeOK'
  <2>1. obj' \in [Objects -> Object] /\ c \in [op : {"none", "create", "wait", "join"}, on : Objects \cup {None}]
    BY <1>1, <1>3, <1>4 DEF T!TypeOK, Object, T!NoCall
  <2> QED
    BY <1>1, <1>5, <1>7, <2>1 DEF T!TypeOK, Object
<1>9. T!ObjectUsedRightly' /\ T!ReleasedBeforeGone'
  BY <1>3, <1>6, <1>7 DEF T!HandshakeInv, T!ThreadInv, T!ObjectUsedRightly,
     T!ReleasedBeforeGone, T!Gone
<1>10. ASSUME NEW p \in Objects PROVE T!ObjectOK(p)'
  <2>1. T!ObjectOK(p)
    BY <1>1
  <2>2. CASE p = o
    BY <1>2, <1>3, <1>5, <1>6, <2>1, <2>2 DEF T!ObjectOK, T!NameOf
  <2>3. CASE p # o
    <3>1. maker[p] = t => run[p] \in {"body", "done"}
      BY <1>2, <2>1, <2>3 DEF T!ObjectOK, T!Pthreads
    <3>2. maker[p] \in T!Pthreads \cup {None}
      BY <1>1 DEF T!TypeOK
    <3> QED
      BY <1>5, <1>6, <2>1, <2>3, <3>1, <3>2 DEF T!ObjectOK, T!NameOf
  <2> QED
    BY <2>2, <2>3
<1>11. ASSUME NEW u \in T!Pthreads PROVE T!CallOK(u)'
  <2>1. T!CallOK(u)
    BY DEF T!HandshakeInv
  <2>2. CASE u = t
    BY <1>4, <1>5, <1>6, <2>1, <2>2 DEF T!CallOK
  <2>3. CASE u # t
    <3>1. call'[u] = call[u]
      BY <1>6, <2>3
    <3>2. call[u].op = "none" \/ call[u].on \in Objects \ {o}
      BY <1>1, <1>2, <2>1, <2>3 DEF T!CallOK, T!TypeOK
    <3> QED
      BY <1>5, <1>6, <2>1, <3>1, <3>2 DEF T!CallOK
  <2> QED
    BY <2>2, <2>3
<1> QED
  BY <1>8, <1>9, <1>10, <1>11 DEF T!HandshakeInv, T!ThreadInv

\* A step of Thread::run, which leaves every call, every maker and the system's
\* view of the thread alone, and of the object only the callback and the count.
LEMMA RunHandshake ==
  ASSUME T!HandshakeInv, NEW o \in Objects, NEW x \in Object,
         NEW r \in {"take", "notify", "body", "done"}, NEW n \in T!Names,
         run[o] # "none",
         obj' = [obj EXCEPT ![o] = x], run' = [run EXCEPT ![o] = r],
         curName' = [curName EXCEPT ![o] = n],
         x.state = obj[o].state, x.threadId = obj[o].threadId, x.name = obj[o].name,
         r \notin {"body", "done"} => run[o] \notin {"body", "done"} /\ x.count = 0,
         r = "take" => x.cb,
         r \in {"take", "notify"} => n = T!NameOf(o),
         misuse' = misuse,
         UNCHANGED <<maker, call, sys, cur, failures>>
  PROVE  T!HandshakeInv'
<1>1. T!TypeOK /\ \A p \in Objects : T!ObjectOK(p)
  BY DEF T!HandshakeInv, T!ThreadInv
<1>2. /\ obj'[o] = x /\ \A p \in Objects : p # o => obj'[p] = obj[p]
      /\ run'[o] = r /\ \A p \in Objects : p # o => run'[p] = run[p]
      /\ curName'[o] = n /\ \A p \in Objects : p # o => curName'[p] = curName[p]
  BY <1>1 DEF T!TypeOK, T!Pthreads
<1>3. T!TypeOK'
  <2>1. obj' \in [Objects -> Object] /\ curName' \in [T!Pthreads -> T!Names]
    BY <1>1 DEF T!TypeOK, Object
  <2> QED
    BY <1>1, <2>1 DEF T!TypeOK, Object
<1>4. T!ObjectUsedRightly' /\ T!ReleasedBeforeGone'
  BY <1>2 DEF T!HandshakeInv, T!ThreadInv, T!ObjectUsedRightly, T!ReleasedBeforeGone, T!Gone
<1>5. ASSUME NEW p \in Objects PROVE T!ObjectOK(p)'
  <2>1. T!ObjectOK(p)
    BY <1>1
  <2>2. CASE p = o
    <3>1. run[o] \in {"start", "take", "notify", "body", "done"}
      BY <1>1 DEF T!TypeOK
    <3> QED
      BY <1>2, <2>1, <2>2, <3>1 DEF T!ObjectOK, T!NameOf
  <2>3. CASE p # o
    BY <1>2, <2>1, <2>3 DEF T!ObjectOK, T!NameOf
  <2> QED
    BY <2>2, <2>3
<1>6. ASSUME NEW u \in T!Pthreads PROVE T!CallOK(u)'
  <2>1. T!CallOK(u) /\ call[u].on \in Objects \cup {None}
    BY <1>1 DEF T!HandshakeInv, T!TypeOK
  <2>2. CASE call[u].op = "none"
    BY <2>1, <2>2 DEF T!CallOK
  <2>3. CASE call[u].op # "none" /\ call[u].on # o
    BY <1>2, <2>1, <2>3 DEF T!CallOK
  <2>4. CASE call[u].op # "none" /\ call[u].on = o
    BY <1>2, <2>1, <2>4 DEF T!CallOK
  <2> QED
    BY <2>2, <2>3, <2>4
<1> QED
  BY <1>3, <1>4, <1>5, <1>6 DEF T!HandshakeInv, T!ThreadInv

\* Whoever has begun run and has not notified finds the object, its id and, until
\* it has taken it, the callback: the maker still waits.
LEMMA Handshake ==
  ASSUME T!HandshakeInv, NEW o \in Objects, run[o] \in {"start", "take", "notify"}
  PROVE  /\ obj[o] \in Object /\ obj[o].state = "exists" /\ obj[o].threadId /\ obj[o].count = 0
         /\ run[o] \in {"start", "take"} => obj[o].cb
         /\ run[o] = "start" => obj[o].name = T!NameOf(o)
         /\ run[o] \in {"take", "notify"} => curName[o] = T!NameOf(o)
<1>1. T!ObjectOK(o) /\ obj[o] \in Object /\ obj[o].count = 0
  BY DEF T!HandshakeInv, T!ThreadInv, T!TypeOK, T!ObjectOK, Object
<1> QED
  BY <1>1 DEF T!ObjectOK

\* Thread::run takes the name (thread.cpp:72-79).
LEMMA BeginRunHandshake ==
  ASSUME T!HandshakeInv, NEW o \in Objects, T!BeginRun(o) PROVE T!HandshakeInv'
<1>1. run[o] = "start"
  BY DEF T!BeginRun
<1>2. /\ obj[o] \in Object /\ obj[o].state = "exists" /\ obj[o].threadId /\ obj[o].count = 0
      /\ obj[o].cb /\ obj[o].name = T!NameOf(o) /\ obj[o].name \in T!Names
  BY <1>1, Handshake DEF Object
<1>3. obj \in [Objects -> Object] /\ obj' = [obj EXCEPT ![o] = obj[o]]
  BY DEF T!BeginRun, T!HandshakeInv, T!ThreadInv, T!TypeOK, Object
<1>4. run' = [run EXCEPT ![o] = "take"]
  BY <1>1 DEF T!BeginRun, T!Go, T!NextStep
<1>5. misuse' = misuse
  BY <1>2 DEF T!BeginRun, T!Gone
<1>6. curName' = [curName EXCEPT ![o] = obj[o].name]
      /\ UNCHANGED <<maker, call, sys, cur, failures>>
  BY DEF T!BeginRun
<1>7. PICK x \in Object : x = obj[o]
  BY <1>2
<1> QED
  BY <1>1, <1>2, <1>3, <1>4, <1>5, <1>6, <1>7, RunHandshake

\* It swaps the callback out of the object.
LEMMA TakeCallbackHandshake ==
  ASSUME T!HandshakeInv, NEW o \in Objects, T!TakeCallback(o) PROVE T!HandshakeInv'
<1>1. run[o] = "take"
  BY DEF T!TakeCallback
<1>2. /\ obj[o] \in Object /\ obj[o].state = "exists" /\ obj[o].threadId /\ obj[o].count = 0
      /\ obj[o].cb /\ curName[o] = T!NameOf(o)
  BY <1>1, Handshake
<1>3. PICK x \in Object : /\ x = [obj[o] EXCEPT !.cb = FALSE] /\ x.state = obj[o].state
                          /\ x.threadId = obj[o].threadId /\ x.name = obj[o].name /\ x.count = 0
  <2>1. [obj[o] EXCEPT !.cb = FALSE] \in Object
    BY <1>2 DEF Object
  <2> QED
    BY <1>2, <2>1 DEF Object
<1>4. obj' = [obj EXCEPT ![o] = x]
  BY <1>3 DEF T!TakeCallback
<1>5. run' = [run EXCEPT ![o] = "notify"]
  BY <1>1 DEF T!TakeCallback, T!Go, T!NextStep
<1>6. misuse' = misuse
  BY <1>2 DEF T!TakeCallback, T!Gone
<1>7. curName \in [T!Pthreads -> T!Names]
  BY DEF T!HandshakeInv, T!ThreadInv, T!TypeOK
<1>8. /\ curName' = [curName EXCEPT ![o] = curName[o]] /\ curName[o] \in T!Names
      /\ UNCHANGED <<maker, call, sys, cur, failures>>
  BY <1>7 DEF T!TakeCallback, T!Pthreads
<1> QED
  BY <1>1, <1>2, <1>3, <1>4, <1>5, <1>6, <1>8, RunHandshake

\* The last use of the object.
LEMMA NotifyHandshake ==
  ASSUME T!HandshakeInv, NEW o \in Objects, T!Notify(o) PROVE T!HandshakeInv'
<1>1. run[o] = "notify"
  BY DEF T!Notify
<1>2. /\ obj[o] \in Object /\ obj[o].state = "exists" /\ obj[o].threadId /\ obj[o].count = 0
  BY <1>1, Handshake
<1>3. PICK x \in Object : /\ x = [obj[o] EXCEPT !.count = 1] /\ x.state = obj[o].state
                          /\ x.threadId = obj[o].threadId /\ x.name = obj[o].name
  <2>1. [obj[o] EXCEPT !.count = 1] \in Object
    BY <1>2 DEF Object
  <2> QED
    BY <1>2, <2>1 DEF Object
<1>4. obj' = [obj EXCEPT ![o] = x]
  <2>1. obj' = [obj EXCEPT ![o].count = @ + 1]
    BY DEF T!Notify, T!PostedOnce
  <2> QED
    BY <1>2, <1>3, <2>1
<1>5. run' = [run EXCEPT ![o] = "body"]
  BY <1>1 DEF T!Notify, T!Go, T!NextStep
<1>6. misuse' = misuse
  BY <1>2 DEF T!Notify, T!Gone, T!Misuse
<1>7. curName \in [T!Pthreads -> T!Names]
  BY DEF T!HandshakeInv, T!ThreadInv, T!TypeOK
<1>8. /\ curName' = [curName EXCEPT ![o] = curName[o]] /\ curName[o] \in T!Names
      /\ UNCHANGED <<maker, call, sys, cur, failures>>
  BY <1>7 DEF T!Notify, T!Pthreads
<1> QED
  BY <1>1, <1>2, <1>3, <1>4, <1>5, <1>6, <1>8, RunHandshake

\* The callback returns.
LEMMA EndRunHandshake ==
  ASSUME T!HandshakeInv, NEW o \in Objects, T!EndRun(o) PROVE T!HandshakeInv'
<1>1. obj \in [Objects -> Object] /\ curName \in [T!Pthreads -> T!Names]
  BY DEF T!HandshakeInv, T!ThreadInv, T!TypeOK, Object
<1>2. PICK x \in Object : x = obj[o]
  BY <1>1
<1>3. obj' = [obj EXCEPT ![o] = x]
  BY <1>1, <1>2 DEF T!EndRun
<1>4. /\ curName' = [curName EXCEPT ![o] = curName[o]] /\ curName[o] \in T!Names
      /\ UNCHANGED <<maker, call, sys, cur, failures, misuse>>
      /\ run' = [run EXCEPT ![o] = "done"] /\ run[o] = "body"
  BY <1>1 DEF T!EndRun, T!Pthreads
<1> QED
  BY <1>2, <1>3, <1>4, RunHandshake

\* The owner waits for its thread.
LEMMA JoinHandshake ==
  ASSUME T!HandshakeInv, NEW t \in T!Pthreads, NEW o \in Objects, T!Join(t, o)
  PROVE  T!HandshakeInv'
<1>1. T!TypeOK /\ \A p \in Objects : T!ObjectOK(p)
  BY DEF T!HandshakeInv, T!ThreadInv
<1>2. PICK c : c = [op |-> "join", on |-> o]
  OBVIOUS
<1>3. /\ call' = [call EXCEPT ![t] = c] /\ maker[o] = t /\ obj[o].state = "exists" /\ obj[o].threadId
      /\ UNCHANGED <<obj, maker, run, sys, cur, curName, failures, misuse>>
  BY <1>2 DEF T!Join, T!Owns
<1>4. call'[t] = c /\ \A u \in T!Pthreads : u # t => call'[u] = call[u]
  BY <1>1, <1>3 DEF T!TypeOK
<1>5. \A p \in Objects : maker[p] = t => run[p] \in {"body", "done"}
  BY RunningThread DEF T!Join
<1>6. T!TypeOK'
  <2>1. c \in [op : {"none", "create", "wait", "join"}, on : Objects \cup {None}]
    BY <1>2
  <2> QED
    BY <1>1, <1>3, <2>1 DEF T!TypeOK
<1>7. T!ObjectUsedRightly' /\ T!ReleasedBeforeGone'
  BY <1>3 DEF T!HandshakeInv, T!ThreadInv, T!ObjectUsedRightly, T!ReleasedBeforeGone, T!Gone
<1>8. ASSUME NEW p \in Objects PROVE T!ObjectOK(p)'
  <2>1. T!ObjectOK(p) /\ maker[p] \in T!Pthreads \cup {None}
    BY <1>1 DEF T!TypeOK
  <2> QED
    BY <1>3, <1>4, <1>5, <2>1 DEF T!ObjectOK, T!NameOf
<1>9. ASSUME NEW u \in T!Pthreads PROVE T!CallOK(u)'
  <2>1. T!CallOK(u)
    BY DEF T!HandshakeInv
  <2>2. CASE u = t
    <3>1. call'[u].op = "join" /\ call'[u].on = o /\ o # None
      BY <1>2, <1>4, <2>2
    <3> QED
      BY <1>3, <2>1, <2>2, <3>1 DEF T!CallOK
  <2>3. CASE u # t
    BY <1>3, <1>4, <2>1, <2>3 DEF T!CallOK
  <2> QED
    BY <2>2, <2>3
<1> QED
  BY <1>6, <1>7, <1>8, <1>9 DEF T!HandshakeInv, T!ThreadInv

\* The owner destroys the object: its thread no longer uses it, and is detached
\* if it was not joined.
LEMMA DestroyHandshake ==
  ASSUME T!HandshakeInv, NEW t \in T!Pthreads, NEW o \in Objects, T!Destroy(t, o)
  PROVE  T!HandshakeInv'
<1>1. T!TypeOK /\ \A p \in Objects : T!ObjectOK(p)
  BY DEF T!HandshakeInv, T!ThreadInv
<1>2. /\ maker[o] = t /\ obj[o].state = "exists" /\ run[o] \in {"body", "done"}
      /\ call[t].op = "none"
  BY RunningThread DEF T!Destroy, T!Owns
<1>3. PICK x \in Object : /\ x.state = "destroyed" /\ x.name = obj[o].name /\ x.cb = obj[o].cb
                          /\ x.threadId = obj[o].threadId
                          /\ obj' = [obj EXCEPT ![o] = x]
  <2>1. obj[o] \in Object /\ obj' = [obj EXCEPT ![o].state = "destroyed"]
    BY <1>1 DEF T!Destroy, T!TypeOK, Object
  <2>2. [obj[o] EXCEPT !.state = "destroyed"] \in Object
    BY <2>1 DEF Object
  <2> QED
    BY <2>1, <2>2 DEF Object
<1>4. PICK s \in {"joined", "detached"} : sys' = [sys EXCEPT ![o] = s]
  <2>1. sys[o] = IF obj[o].threadId THEN "joinable" ELSE "joined"
    BY <1>1, <1>2 DEF T!ObjectOK
  <2> QED
    BY <2>1 DEF T!Destroy, T!Left
<1>5. misuse' = misuse /\ UNCHANGED <<maker, call, run, cur, curName, failures>>
  <2>1. obj[o].threadId => sys[o] = "joinable"
    BY <1>1, <1>2 DEF T!ObjectOK
  <2> QED
    BY <2>1 DEF T!Destroy, T!Misuse
<1>6. /\ obj'[o] = x /\ \A p \in Objects : p # o => obj'[p] = obj[p]
      /\ sys'[o] = s /\ \A p \in Objects : p # o => sys'[p] = sys[p]
  BY <1>1, <1>3, <1>4 DEF T!TypeOK
<1>7. T!TypeOK'
  <2>1. obj' \in [Objects -> Object]
    BY <1>1, <1>3 DEF T!TypeOK, Object
  <2> QED
    BY <1>1, <1>4, <1>5, <2>1 DEF T!TypeOK, Object
<1>8. T!ObjectUsedRightly' /\ T!ReleasedBeforeGone'
  BY <1>5, <1>6 DEF T!HandshakeInv, T!ThreadInv, T!ObjectUsedRightly,
     T!ReleasedBeforeGone, T!Gone
<1>9. ASSUME NEW p \in Objects PROVE T!ObjectOK(p)'
  <2>1. T!ObjectOK(p)
    BY <1>1
  <2>2. CASE p = o
    BY <1>2, <1>3, <1>5, <1>6, <2>1, <2>2 DEF T!ObjectOK, T!NameOf
  <2>3. CASE p # o
    BY <1>5, <1>6, <2>1, <2>3 DEF T!ObjectOK, T!NameOf
  <2> QED
    BY <2>2, <2>3
<1>10. ASSUME NEW u \in T!Pthreads PROVE T!CallOK(u)'
  <2>1. T!CallOK(u) /\ call[u].on \in Objects \cup {None}
    BY <1>1 DEF T!HandshakeInv, T!TypeOK
  <2>2. call[u].op = "none" \/ call[u].on \in Objects \ {o}
    BY <1>2, <2>1 DEF T!CallOK
  <2> QED
    BY <1>5, <1>6, <2>1, <2>2 DEF T!CallOK
<1> QED
  BY <1>7, <1>8, <1>9, <1>10 DEF T!HandshakeInv, T!ThreadInv

\* A Scheduler renames the thread it is made in, and the Thread object made
\* there last: that object's thread has its own name already.
LEMMA RenameHandshake ==
  ASSUME T!HandshakeInv, NEW t \in T!Pthreads, T!SetCurrentName(t)
  PROVE  T!HandshakeInv'
<1>1. T!TypeOK /\ \A p \in Objects : T!ObjectOK(p)
  BY DEF T!HandshakeInv, T!ThreadInv
<1>2. /\ t # Main => t \in Objects /\ run[t] = "body"
      /\ \A p \in Objects : maker[p] = t => run[p] \in {"body", "done"}
  BY RunningThread DEF T!SetCurrentName
<1>3. /\ curName' = [curName EXCEPT ![t] = SchedName]
      /\ UNCHANGED <<maker, call, run, sys, cur, failures>>
  BY DEF T!SetCurrentName
<1>4. /\ obj' \in [Objects -> Object] /\ misuse' \subseteq misuse \cup {"renamed"}
      /\ \A p \in Objects : /\ obj'[p].state = obj[p].state /\ obj'[p].threadId = obj[p].threadId
                            /\ obj'[p].cb = obj[p].cb /\ obj'[p].count = obj[p].count
                            /\ obj'[p].name # obj[p].name => run[p] \in {"body", "done"}
  <2>1. CASE cur[t] = None
    BY <1>1, <2>1 DEF T!SetCurrentName, T!TypeOK, Object
  <2>2. CASE cur[t] # None
    <3>1. cur[t] \in Objects /\ maker[cur[t]] = t
      BY <1>1, <2>2 DEF T!HandshakeInv, T!CallOK, T!TypeOK
    <3>2. PICK o \in Objects : o = cur[t] /\ run[o] \in {"body", "done"}
      BY <1>2, <3>1
    <3>3. obj[o] \in Object /\ obj' = [obj EXCEPT ![o].name = SchedName]
      BY <1>1, <2>2, <3>2 DEF T!SetCurrentName, T!TypeOK, Object
    <3>4. PICK x \in Object : /\ x.state = obj[o].state /\ x.threadId = obj[o].threadId
                              /\ x.cb = obj[o].cb /\ x.count = obj[o].count
                              /\ obj' = [obj EXCEPT ![o] = x]
      <4>1. [obj[o] EXCEPT !.name = SchedName] \in Object
        BY <3>3 DEF Object, T!Names
      <4> QED
        BY <3>3, <4>1 DEF Object
    <3>5. obj' \in [Objects -> Object]
      BY <1>1, <3>4 DEF T!TypeOK, Object
    <3>6. obj'[o] = x /\ \A p \in Objects : p # o => obj'[p] = obj[p]
      BY <1>1, <3>4 DEF T!TypeOK
    <3>7. misuse' \subseteq misuse \cup {"renamed"}
      BY <2>2 DEF T!SetCurrentName, T!Misuse
    <3> QED
      BY <3>2, <3>4, <3>5, <3>6, <3>7
  <2> QED
    BY <2>1, <2>2
<1>5. T!TypeOK'
  <2>1. curName' \in [T!Pthreads -> T!Names]
    BY <1>1, <1>3 DEF T!TypeOK, T!Names
  <2>2. misuse' \subseteq {"object", "id", "callback", "released", "renamed"}
    BY <1>1, <1>4 DEF T!TypeOK
  <2> QED
    BY <1>1, <1>3, <1>4, <2>1, <2>2 DEF T!TypeOK, Object
<1>6. T!ObjectUsedRightly' /\ T!ReleasedBeforeGone'
  BY <1>3, <1>4 DEF T!HandshakeInv, T!ThreadInv, T!ObjectUsedRightly,
     T!ReleasedBeforeGone, T!Gone
<1>7. ASSUME NEW p \in Objects PROVE T!ObjectOK(p)'
  <2>1. T!ObjectOK(p)
    BY <1>1
  <2>2. run[p] \in {"take", "notify"} => curName'[p] = curName[p]
    BY <1>1, <1>2, <1>3 DEF T!TypeOK, T!Pthreads
  <2> QED
    BY <1>3, <1>4, <2>1, <2>2 DEF T!ObjectOK, T!NameOf
<1>8. ASSUME NEW u \in T!Pthreads PROVE T!CallOK(u)'
  <2>1. T!CallOK(u) /\ call[u].on \in Objects \cup {None}
    BY <1>1 DEF T!HandshakeInv, T!TypeOK
  <2> QED
    BY <1>3, <1>4, <2>1 DEF T!CallOK
<1> QED
  BY <1>5, <1>6, <1>7, <1>8 DEF T!HandshakeInv, T!ThreadInv

\* Every reachable state of the threads satisfies the inductive invariant.
THEOREM HandshakeInvariance == T!Spec => []T!HandshakeInv
<1>1. ASSUME T!HandshakeInv, [T!Next]_(T!vars) PROVE T!HandshakeInv'
  <2>1. ASSUME NEW t \in T!Pthreads, T!CallStep(t) \/ T!Use(t) PROVE T!HandshakeInv'
    BY <1>1, <2>1, CreateHandshake, CreateFailsHandshake, WaitHandshake, JoinedHandshake,
       RenameHandshake, ConstructHandshake, JoinHandshake, DestroyHandshake
    DEF T!CallStep, T!Use
  <2>2. ASSUME NEW o \in Objects, T!RunStep(o) PROVE T!HandshakeInv'
    BY <1>1, <2>2, BeginRunHandshake, TakeCallbackHandshake, NotifyHandshake, EndRunHandshake
    DEF T!RunStep
  <2>3. CASE UNCHANGED T!vars
    BY <1>1, <2>3 DEF T!vars, T!HandshakeInv, T!ThreadInv, T!TypeOK, T!ObjectUsedRightly,
       T!ReleasedBeforeGone, T!Gone, T!ObjectOK, T!CallOK
  <2> QED
    BY <1>1, <2>1, <2>2, <2>3 DEF T!Next
<1> QED
  BY <1>1, InitHandshake, PTL DEF T!Spec

\* thread.cpp:65-90: the started thread uses the object, its id and the callback
\* while they are there, a thread is released once, and before its object is gone.
THEOREM ThreadsAreRight == T!Spec => []ThreadInv
<1>1. T!HandshakeInv => ThreadInv
  BY DEF T!HandshakeInv, ThreadInv
<1> QED
  BY <1>1, HandshakeInvariance, PTL

\* thread.cpp:74-85: the callback starts under the name given to the constructor.
THEOREM NameIsTaken == T!Spec => StartsUnderItsName
<1>1. ASSUME T!HandshakeInv, [T!Next]_(T!vars), NEW o \in Objects,
             run[o] # "body", run'[o] = "body"
      PROVE  curName[o] = T!NameOf(o)
  <2>1. run \in [Objects -> {"none", "start", "take", "notify", "body", "done"}]
    BY <1>1 DEF T!HandshakeInv, T!ThreadInv, T!TypeOK
  <2>2. run[o] = "notify"
    <3>1. CASE UNCHANGED run
      BY <1>1, <3>1
    <3>2. ASSUME NEW t \in T!Pthreads, T!Create(t) PROVE run'[o] # "body" \/ run'[o] = run[o]
      BY <2>1, <3>2 DEF T!Create
    <3>3. ASSUME NEW p \in Objects, T!RunStep(p)
          PROVE  run'[o] = run[o] \/ run'[o] = "done" \/ (p = o /\ T!Go(o))
      BY <2>1, <3>3 DEF T!RunStep, T!BeginRun, T!TakeCallback, T!Notify, T!EndRun, T!Go
    <3>4. T!Go(o) /\ run[o] \in {"start", "take", "notify"} => run[o] = "notify"
      BY <1>1, <2>1 DEF T!Go, T!NextStep
    <3>5. ASSUME T!RunStep(o) PROVE run'[o] = "done" \/ run[o] \in {"start", "take", "notify"}
      BY <2>1, <3>5 DEF T!RunStep, T!BeginRun, T!TakeCallback, T!Notify, T!EndRun
    <3>6. ASSUME NEW t \in T!Pthreads, T!CallStep(t) \/ T!Use(t)
          PROVE  T!Create(t) \/ UNCHANGED run
      BY <3>6 DEF T!CallStep, T!Use, T!CreateFails, T!Wait, T!Joined, T!SetCurrentName,
         T!Construct, T!Join, T!Destroy
    <3> QED
      BY <1>1, <3>1, <3>2, <3>3, <3>4, <3>5, <3>6 DEF T!Next, T!vars
  <2> QED
    BY <1>1, <2>2, Handshake
<1>2. T!HandshakeInv /\ [T!Next]_(T!vars) =>
        [\A o \in Objects : run[o] # "body" /\ run'[o] = "body" => curName[o] = T!NameOf(o)]_(T!vars)
  BY <1>1
<1> QED
  BY <1>2, HandshakeInvariance, PTL DEF T!Spec, StartsUnderItsName, T!StartsUnderItsName

-----------------------------------------------------------------------------
(* MutexLock: for every number of threads and whatever their ids, holder_  *)
(* is that of the thread between lock and unlock, and ~MutexLock finds it  *)
(* 0.                                                                      *)

USE MutexLockAssumption

\* The invariant holds when the lock is made: MutexLock::MutexLock.
LEMMA InitIInv == Init => IInv
BY DEF Init, IInv, TypeOK

\* A thread that takes the free mutex: nobody else was at work.
LEMMA AcquireIInv == ASSUME IInv, NEW t \in Threads, Acquire(t) PROVE IInv'
<1>1. TypeOK'
  BY DEF IInv, TypeOK, Acquire, Goto
<1>2. \A u \in Threads : pc[u] = "out"
  BY DEF IInv, TypeOK, Acquire
<1>3. pc' = [pc EXCEPT ![t] = "locked"] /\ mutex' = t /\ holder' = holder /\ users' = users
  BY DEF Acquire, Goto
<1>4. \A u \in Threads : u # t => pc'[u] = "out"
  BY <1>2, <1>3 DEF IInv, TypeOK
<1>5. pc'[t] = "locked" /\ t \in users
  BY <1>3 DEF IInv, TypeOK, Acquire
<1>6. holder = 0
  BY <1>2 DEF IInv
<1> QED
  BY <1>1, <1>3, <1>4, <1>5, <1>6 DEF IInv

\* The owner stores its id, after pthread_mutex_lock.
LEMMA SetHolderIInv == ASSUME IInv, NEW t \in Threads, SetHolder(t) PROVE IInv'
<1>1. TypeOK'
  BY DEF IInv, TypeOK, SetHolder, Goto
<1>2. pc[t] = "locked" /\ mutex = t /\ t \in users
  BY DEF IInv, TypeOK, SetHolder
<1>3. \A u \in Threads : u # t => pc[u] = "out"
  BY <1>2 DEF IInv
<1>4. pc' = [pc EXCEPT ![t] = "in"] /\ mutex' = mutex /\ holder' = Id[t] /\ users' = users
  BY DEF SetHolder, Goto
<1>5. pc'[t] = "in" /\ \A u \in Threads : u # t => pc'[u] = "out"
  BY <1>3, <1>4 DEF IInv, TypeOK
<1> QED
  BY <1>1, <1>2, <1>4, <1>5 DEF IInv

\* unlock clears holder_ while it still has the mutex, then gives it up.
LEMMA UnlockIInv == ASSUME IInv, NEW t \in Threads, Unlock(t) PROVE IInv'
<1>1. TypeOK'
  BY DEF IInv, TypeOK, Unlock, Goto
<1>2. pc[t] \in {"in", "cleared"} /\ mutex = t /\ t \in users
  BY DEF IInv, TypeOK, Unlock
<1>3. \A u \in Threads : u # t => pc[u] = "out"
  BY <1>2 DEF IInv
<1>4. CASE pc[t] = "in"
  <2>1. pc' = [pc EXCEPT ![t] = "cleared"] /\ mutex' = mutex /\ holder' = 0 /\ users' = users
    BY <1>4 DEF Unlock, Goto
  <2>2. pc'[t] = "cleared" /\ \A u \in Threads : u # t => pc'[u] = "out"
    BY <2>1, <1>3 DEF IInv, TypeOK
  <2> QED
    BY <1>1, <1>2, <2>1, <2>2 DEF IInv
<1>5. CASE pc[t] = "cleared"
  <2>1. pc' = [pc EXCEPT ![t] = "out"] /\ mutex' = None /\ holder' = holder /\ users' = users
    BY <1>5 DEF Unlock, Goto
  <2>2. \A u \in Threads : pc'[u] = "out"
    BY <2>1, <1>3 DEF IInv, TypeOK
  <2>3. holder = 0
    BY <1>3, <1>5 DEF IInv
  <2> QED
    BY <1>1, <2>1, <2>2, <2>3 DEF IInv
<1> QED
  BY <1>2, <1>4, <1>5

\* A thread that is in none of the calls drops its reference.
LEMMA DropIInv == ASSUME IInv, NEW t \in Threads, Drop(t) PROVE IInv'
<1>1. pc' = pc /\ mutex' = mutex /\ holder' = holder /\ users' = users \ {t} /\ pc[t] = "out"
  BY DEF Drop
<1> QED
  BY <1>1 DEF IInv, TypeOK

\* The inductive invariant, for every number of threads and all ids.
THEOREM MutexInvariance == Spec => []IInv
<1>1. IInv /\ [Next]_vars => IInv'
  <2> SUFFICES ASSUME IInv, [Next]_vars PROVE IInv'
    OBVIOUS
  <2>1. CASE Next
    <3>1. PICK t \in Threads : Acquire(t) \/ SetHolder(t) \/ Unlock(t) \/ Drop(t)
      BY <2>1 DEF Next
    <3> QED
      BY <3>1, AcquireIInv, SetHolderIInv, UnlockIInv, DropIInv
  <2>2. CASE UNCHANGED vars
    BY <2>2 DEF vars, IInv, TypeOK
  <2> QED
    BY <2>1, <2>2
<1> QED
  BY <1>1, InitIInv, PTL DEF Spec

\* While a thread is between lock and unlock (thread.cpp:95-102), holder_ is its id.
THEOREM OwnerKnown == Spec => []HolderIsOwner
<1>1. IInv => HolderIsOwner
  BY DEF IInv, HolderIsOwner
<1> QED
  BY <1>1, MutexInvariance, PTL

\* The assertion of ~MutexLock (thread.cpp:92): a lock without users is free.
THEOREM DestructorAssertion == Spec => []DestroyedFree
<1>1. IInv => DestroyedFree
  <2> SUFFICES ASSUME IInv, users = {} PROVE holder = 0 /\ mutex = None
    BY DEF DestroyedFree
  <2>1. \A t \in Threads : pc[t] = "out"
    BY DEF IInv
  <2> QED
    BY <2>1 DEF IInv, TypeOK
<1> QED
  BY <1>1, MutexInvariance, PTL
=============================================================================
