------------------------------- MODULE Thread -------------------------------
(***************************************************************************)
(* sylar::Thread and the Semaphore of its constructor (sylar/thread.cpp,   *)
(* thread.h).                                                              *)
(*                                                                         *)
(* The constructor gives the object to a new thread and waits until that   *)
(* has taken what it needs, since the object may be gone a moment later.   *)
(* One thread makes and owns an object, and joins or destroys it; the      *)
(* thread that runs an object's callback may make objects of its own.      *)
(* SetCurrentName is called by Scheduler::Scheduler.                       *)
(*                                                                         *)
(* As in glibc, pthread_create stores the thread's id before it starts the *)
(* thread.  A use that C++ or POSIX leaves undefined is recorded in misuse.*)
(***************************************************************************)
EXTENDS Naturals

CONSTANTS
  Objects,      \* the Thread objects; also names the threads they start
  Main,         \* the thread main runs in
  Unnamed,      \* the objects that are made with an empty name
  Renames,      \* whether threads call SetCurrentName
  MaxFailures,  \* bound: how often pthread_create fails
  None,         \* no object
  Empty,        \* the empty name
  UNKNOW,       \* the name of a thread without one
  SchedName     \* the name of a Scheduler

ThreadAssumption ==
  /\ Main \notin Objects /\ None \notin Objects \cup {Main}
  /\ Unnamed \subseteq Objects
  /\ Renames \in BOOLEAN
  /\ MaxFailures \in Nat

Pthreads == Objects \cup {Main}
Names == Objects \cup {Empty, UNKNOW, SchedName}

VARIABLES
  obj,       \* the members of each object, and whether it exists
  maker,     \* the thread that made it
  call,      \* the call each thread is in
  run,       \* how far Thread::run has come
  sys,       \* the started thread, as the system keeps it
  cur,       \* CurrentThread of each thread
  curName,   \* CurrentThreadName of each thread
  failures,
  misuse

vars == <<obj, maker, call, run, sys, cur, curName, failures, misuse>>

NoCall == [op |-> "none", on |-> None]

TypeOK ==
  /\ obj \in [Objects -> [state : {"unborn", "exists", "destroyed"}, name : Names,
                          threadId : BOOLEAN, cb : BOOLEAN, count : Nat]]
  /\ maker \in [Objects -> Pthreads \cup {None}]
  /\ call \in [Pthreads -> [op : {"none", "create", "wait", "join"}, on : Objects \cup {None}]]
  /\ run \in [Objects -> {"none", "start", "take", "notify", "body", "done"}]
  /\ sys \in [Objects -> {"none", "joinable", "joined", "detached"}]
  /\ cur \in [Pthreads -> Objects \cup {None}]
  /\ curName \in [Pthreads -> Names]
  /\ failures \in 0 .. MaxFailures
  /\ misuse \subseteq {"object", "id", "callback", "released", "renamed"}

\* The count the object's semaphore starts with.  Mutant: Semaphore's default.
DefaultCount == 1
InitialCount == 0

Unborn == [state |-> "unborn", name |-> Empty, threadId |-> FALSE, cb |-> FALSE,
           count |-> InitialCount]

Init ==
  /\ obj = [o \in Objects |-> Unborn]
  /\ maker = [o \in Objects |-> None]
  /\ call = [t \in Pthreads |-> NoCall]
  /\ run = [o \in Objects |-> "none"]
  /\ sys = [o \in Objects |-> "none"]
  /\ cur = [t \in Pthreads |-> None]
  /\ curName = [t \in Pthreads |-> UNKNOW]
  /\ failures = 0
  /\ misuse = {}

\* The thread is in the code that uses Thread, and in no call of it.
Running(t) == t \in {Main} \cup {o \in Objects : run[o] = "body"} /\ call[t] = NoCall
Owns(t, o) == maker[o] = t /\ obj[o].state = "exists"
Misuse(kind, happens) == misuse' = IF happens THEN misuse \cup {kind} ELSE misuse

NameOf(o) == IF o \in Unnamed THEN Empty ELSE o

-----------------------------------------------------------------------------
(* Thread::Thread.  The creating thread takes the name for itself.         *)

Construct(t, o) ==
  /\ Running(t) /\ obj[o].state = "unborn"
  /\ obj' = [obj EXCEPT ![o] = [Unborn EXCEPT !.state = "exists", !.name = NameOf(o), !.cb = TRUE]]
  /\ maker' = [maker EXCEPT ![o] = t]
  /\ call' = [call EXCEPT ![t] = [op |-> "create", on |-> o]]
  /\ cur' = [cur EXCEPT ![t] = o]
  /\ curName' = IF o \in Unnamed THEN curName ELSE [curName EXCEPT ![t] = o]
  /\ UNCHANGED <<run, sys, failures, misuse>>

Create(t) ==
  /\ call[t].op = "create"
  /\ LET o == call[t].on
     IN  /\ obj' = [obj EXCEPT ![o].threadId = TRUE]
         /\ run' = [run EXCEPT ![o] = "start"]
         /\ sys' = [sys EXCEPT ![o] = "joinable"]
  /\ call' = [call EXCEPT ![t].op = "wait"]
  /\ UNCHANGED <<maker, cur, curName, failures, misuse>>

\* pthread_create fails: an error is logged, and the wait goes on for good.
CreateFails(t) ==
  /\ call[t].op = "create" /\ failures < MaxFailures
  /\ call' = [call EXCEPT ![t].op = "wait"]
  /\ failures' = failures + 1
  /\ UNCHANGED <<obj, maker, run, sys, cur, curName, misuse>>

\* sem_wait.
Posted(o) == obj[o].count > 0

Wait(t) ==
  /\ call[t].op = "wait"
  /\ LET o == call[t].on
     IN  Posted(o) /\ obj' = [obj EXCEPT ![o].count = @ - 1]
  /\ call' = [call EXCEPT ![t] = NoCall]
  /\ UNCHANGED <<maker, run, sys, cur, curName, failures, misuse>>

-----------------------------------------------------------------------------
(* Thread::run, which uses the object until it has notified.               *)

\* The next step of run.  Mutant: the creator is notified first.
NotifyFirst(step) ==
  CASE step = "start" -> "notify" [] step = "notify" -> "take" [] OTHER -> "body"
NextStep(step) ==
  CASE step = "start" -> "take" [] step = "take" -> "notify" [] OTHER -> "body"

Go(o) == run' = [run EXCEPT ![o] = NextStep(@)]
Gone(o) == obj[o].state = "destroyed"

\* SetCurrentName, in a thread without CurrentThread, and pthread_setname_np.
BeginRun(o) ==
  /\ run[o] = "start" /\ Go(o)
  /\ curName' = [curName EXCEPT ![o] = obj[o].name]
  /\ misuse' = misuse \cup (IF Gone(o) THEN {"object"} ELSE {})
                      \cup (IF obj[o].threadId THEN {} ELSE {"id"})
  /\ UNCHANGED <<obj, maker, call, sys, cur, failures>>

TakeCallback(o) ==
  /\ run[o] = "take" /\ Go(o)
  /\ obj' = [obj EXCEPT ![o].cb = FALSE]
  /\ misuse' = misuse \cup (IF Gone(o) THEN {"object"} ELSE {})
                      \cup (IF obj[o].cb THEN {} ELSE {"callback"})
  /\ UNCHANGED <<maker, call, sys, cur, curName, failures>>

\* sem_post.  Mutant: it is forgotten.
Unposted(n) == n
PostedOnce(n) == n + 1

Notify(o) ==
  /\ run[o] = "notify" /\ Go(o)
  /\ obj' = [obj EXCEPT ![o].count = PostedOnce(@)]
  /\ Misuse("object", Gone(o))
  /\ UNCHANGED <<maker, call, sys, cur, curName, failures>>

\* The callback returns.
EndRun(o) ==
  /\ run[o] = "body" /\ call[o] = NoCall
  /\ run' = [run EXCEPT ![o] = "done"]
  /\ UNCHANGED <<obj, maker, call, sys, cur, curName, failures, misuse>>

-----------------------------------------------------------------------------
(* Thread::join, ~Thread and SetCurrentName.                               *)

\* With threadId_ 0, join has nothing to do.
Join(t, o) ==
  /\ Running(t) /\ Owns(t, o) /\ obj[o].threadId
  /\ call' = [call EXCEPT ![t] = [op |-> "join", on |-> o]]
  /\ UNCHANGED <<obj, maker, run, sys, cur, curName, failures, misuse>>

\* threadId_ after join.
IdAfterJoin == FALSE

Joined(t) ==
  /\ call[t].op = "join"
  /\ LET o == call[t].on
     IN  /\ run[o] = "done"
         /\ Misuse("released", sys[o] # "joinable")
         /\ sys' = [sys EXCEPT ![o] = "joined"]
         /\ obj' = [obj EXCEPT ![o].threadId = IdAfterJoin]
  /\ call' = [call EXCEPT ![t] = NoCall]
  /\ UNCHANGED <<maker, run, cur, curName, failures>>

\* The thread of a destroyed object.
Left(o) == IF obj[o].threadId THEN "detached" ELSE sys[o]

Destroy(t, o) ==
  /\ Running(t) /\ Owns(t, o)
  /\ obj' = [obj EXCEPT ![o].state = "destroyed"]
  /\ sys' = [sys EXCEPT ![o] = Left(o)]
  /\ Misuse("released", obj[o].threadId /\ sys[o] # "joinable")
  /\ UNCHANGED <<maker, call, run, cur, curName, failures>>

\* CurrentThread is the object this thread made last.
SetCurrentName(t) ==
  /\ Running(t) /\ Renames
  /\ curName' = [curName EXCEPT ![t] = SchedName]
  /\ IF cur[t] = None
     THEN UNCHANGED <<obj, misuse>>
     ELSE /\ obj' = [obj EXCEPT ![cur[t]].name = SchedName]
          /\ Misuse("renamed", Gone(cur[t]))
  /\ UNCHANGED <<maker, call, run, sys, cur, failures>>

-----------------------------------------------------------------------------
CallStep(t) == Create(t) \/ CreateFails(t) \/ Wait(t) \/ Joined(t)
RunStep(o) == BeginRun(o) \/ TakeCallback(o) \/ Notify(o) \/ EndRun(o)
Use(t) == SetCurrentName(t) \/ \E o \in Objects : Construct(t, o) \/ Join(t, o) \/ Destroy(t, o)

Next ==
  \/ \E t \in Pthreads : CallStep(t) \/ Use(t)
  \/ \E o \in Objects : RunStep(o)

Spec == Init /\ [][Next]_vars

\* The system runs every thread, and a callback returns in the end.
Fairness ==
  /\ \A t \in Pthreads : WF_vars(CallStep(t))
  /\ \A o \in Objects : WF_vars(RunStep(o))

FairSpec == Spec /\ Fairness

-----------------------------------------------------------------------------
\* thread.cpp:75-82: the new thread uses its object only while that exists,
\* finds its own id and its callback there, and the owner releases the thread
\* by join or detach and not by both.
ObjectUsedRightly == misuse \subseteq {"renamed"}

\* scheduler.cpp:13: a Scheduler may be made in a thread without a current
\* scheduler, also when Thread objects were made and destroyed there before:
\* its call of SetCurrentName must not write to one of those.
RenamesExisting == "renamed" \notin misuse

\* The object is destroyed with its thread joined or detached: no thread is
\* left that nobody can release.
ReleasedBeforeGone ==
  \A o \in Objects : Gone(o) => sys[o] \in {"joined", "detached"}

\* A thread starts its callback under the name its object was made with, even
\* if the maker is renamed, and its last object with it, as soon as it may be.
StartsUnderItsName ==
  [][\A o \in Objects : run[o] # "body" /\ run'[o] = "body" => curName[o] = NameOf(o)]_vars

\* The invariant of the objects and threads.
ThreadInv == TypeOK /\ ObjectUsedRightly /\ ReleasedBeforeGone

\* The inductive invariant: what an object and its thread are to each other
\* between the steps of the constructor, of run, join and ~Thread.
ObjectOK(o) ==
  /\ obj[o].state = "unborn" <=> maker[o] = None
  /\ run[o] = "none" <=> sys[o] = "none"
  /\ run[o] = "none" => ~obj[o].threadId
  /\ run[o] \notin {"body", "done"} => obj[o].count = 0
  /\ (run[o] \notin {"body", "done"} /\ maker[o] # None) =>
       obj[o].state = "exists" /\ call[maker[o]].op \in {"create", "wait"} /\ call[maker[o]].on = o
  /\ obj[o].state = "unborn" => run[o] = "none"
  /\ run[o] # "none" /\ obj[o].state = "exists" =>
       sys[o] = IF obj[o].threadId THEN "joinable" ELSE "joined"
  /\ run[o] \in {"start", "take", "notify"} => obj[o].threadId
  /\ run[o] \in {"start", "take"} \/ (run[o] = "none" /\ maker[o] # None) => obj[o].cb
  /\ run[o] = "start" \/ (run[o] = "none" /\ maker[o] # None) => obj[o].name = NameOf(o)
  /\ run[o] \in {"take", "notify"} => curName[o] = NameOf(o)

CallOK(t) ==
  /\ call[t].op = "none" <=> call[t].on = None
  /\ call[t].op # "none" => maker[call[t].on] = t /\ obj[call[t].on].state = "exists"
  /\ call[t].op = "create" => run[call[t].on] = "none"
  /\ call[t].op = "join" => obj[call[t].on].threadId
  /\ cur[t] # None => maker[cur[t]] = t

HandshakeInv ==
  /\ ThreadInv
  /\ \A o \in Objects : ObjectOK(o)
  /\ \A t \in Pthreads : CallOK(t)

\* Unless pthread_create failed, the constructor returns, whatever becomes of
\* the object and of other threads.
Failed(o) == call[maker[o]] = [op |-> "wait", on |-> o] /\ run[o] = "none"
ConstructorReturns ==
  \A t \in Pthreads :
    call[t].op = "create" ~> call[t] = NoCall \/ \E o \in Objects : maker[o] = t /\ Failed(o)
=============================================================================
