-------------------------- MODULE Scheduler_proofs --------------------------
(***************************************************************************)
(* Theorems about Scheduler, for any pool, any tasks and any bounds.       *)
(***************************************************************************)
EXTENDS Scheduler, SequenceTheorems, FiniteSetTheorems, TLAPS

-----------------------------------------------------------------------------
(* The queue.                                                              *)

\* push_back: the entries keep their places and one is added behind them.
LEMMA AppendEntry ==
  ASSUME NEW S, NEW s \in Seq(S), NEW e \in S
  PROVE  /\ Append(s, e) \in Seq(S)
         /\ DOMAIN s = 1..Len(s)
         /\ Len(s) \in Nat
         /\ DOMAIN Append(s, e) = 1..(Len(s) + 1)
         /\ \A i \in 1..Len(s) : Append(s, e)[i] = s[i]
         /\ Append(s, e)[Len(s) + 1] = e
<1>1. /\ Len(s) \in Nat
      /\ DOMAIN s = 1..Len(s)
  BY LenProperties
<1>2. /\ Append(s, e) \in Seq(S)
      /\ Len(Append(s, e)) = Len(s) + 1
      /\ \A i \in 1..Len(s) : Append(s, e)[i] = s[i]
      /\ Append(s, e)[Len(s) + 1] = e
  BY AppendProperties
<1>3. DOMAIN Append(s, e) = 1..(Len(s) + 1)
  <2> DEFINE longer == Append(s, e)
  <2>1. longer \in Seq(S) /\ Len(longer) = Len(s) + 1
    BY <1>2
  <2> HIDE DEF longer
  <2>2. DOMAIN longer = 1..Len(longer)
    BY <2>1, LenProperties, SMTT(30)
  <2> QED
    BY <2>1, <2>2 DEF longer
<1> QED
  BY <1>1, <1>2, <1>3

\* erase: one entry leaves and those behind it move up.
LEMMA EraseEntry ==
  ASSUME NEW S, NEW s \in Seq(S), NEW i \in DOMAIN s
  PROVE  /\ RemoveAt(s, i) \in Seq(S)
         /\ DOMAIN s = 1..Len(s)
         /\ Len(s) \in Nat
         /\ DOMAIN RemoveAt(s, i) = 1..(Len(s) - 1)
         /\ \A j \in 1..(Len(s) - 1) :
              RemoveAt(s, i)[j] = IF j < i THEN s[j] ELSE s[j + 1]
<1> DEFINE front == SubSeq(s, 1, i - 1)
           back == SubSeq(s, i + 1, Len(s))
<1>1. /\ Len(s) \in Nat
      /\ DOMAIN s = 1..Len(s)
      /\ i \in 1..Len(s)
  BY LenProperties
<1>2. \A j \in 1..Len(s) : s[j] \in S
  BY ElementOfSeq
<1>3. /\ front \in Seq(S)
      /\ Len(front) = i - 1
      /\ \A j \in 1..(i - 1) : front[j] = s[j]
  <2>1. \A j \in 1..(i - 1) : s[j] \in S
    BY <1>1, <1>2
  <2>2. /\ front \in Seq(S)
        /\ Len(front) = IF 1 <= i - 1 THEN i - 1 - 1 + 1 ELSE 0
        /\ \A j \in 1..(i - 1 - 1 + 1) : front[j] = s[1 + j - 1]
    <3> HIDE DEF front
    <3>1. 1 \in Int /\ i - 1 \in Int
      BY <1>1
    <3> QED
      BY <2>1, <3>1, SubSeqProperties DEF front
  <2> HIDE DEF front
  <2> QED
    BY <1>1, <2>2
<1>4. /\ back \in Seq(S)
      /\ Len(back) = Len(s) - i
      /\ \A j \in 1..(Len(s) - i) : back[j] = s[j + i]
  <2>1. \A j \in (i + 1)..Len(s) : s[j] \in S
    BY <1>1, <1>2
  <2>2. /\ back \in Seq(S)
        /\ Len(back) = IF i + 1 <= Len(s) THEN Len(s) - (i + 1) + 1 ELSE 0
        /\ \A j \in 1..(Len(s) - (i + 1) + 1) : back[j] = s[i + 1 + j - 1]
    <3>1. i + 1 \in Int /\ Len(s) \in Int
      BY <1>1
    <3> QED
      BY <2>1, <3>1, SubSeqProperties DEF back
  <2> HIDE DEF back
  <2>3. Len(back) = Len(s) - i
    BY <1>1, <2>2
  <2>4. ASSUME NEW j \in 1..(Len(s) - i)
        PROVE  back[j] = s[j + i]
    <3>1. j \in 1..(Len(s) - (i + 1) + 1) /\ i + 1 + j - 1 = j + i
      BY <1>1
    <3> QED
      BY <2>2, <3>1
  <2> QED
    BY <2>2, <2>3, <2>4
<1>5. RemoveAt(s, i) = front \o back
  BY DEF RemoveAt
<1> HIDE DEF front, back
<1>6. /\ front \o back \in Seq(S)
      /\ Len(front \o back) = Len(front) + Len(back)
      /\ \A j \in 1..(Len(front) + Len(back)) :
           (front \o back)[j] =
              IF j <= Len(front) THEN front[j] ELSE back[j - Len(front)]
  BY <1>3, <1>4, ConcatProperties
<1>7. DOMAIN (front \o back) = 1..Len(front \o back)
  BY <1>6, LenProperties
<1>8. Len(front \o back) = Len(s) - 1
  BY <1>1, <1>3, <1>4, <1>6
<1>9. ASSUME NEW j \in 1..(Len(s) - 1)
      PROVE  (front \o back)[j] = IF j < i THEN s[j] ELSE s[j + 1]
  <2>1. (front \o back)[j] = IF j <= i - 1 THEN front[j] ELSE back[j - (i - 1)]
    BY <1>1, <1>3, <1>4, <1>6, SMTT(30)
  <2>2. CASE j < i
    BY <1>1, <1>3, <2>1, <2>2
  <2>3. CASE ~(j < i)
    <3>1. j - (i - 1) \in 1..(Len(s) - i) /\ j - (i - 1) + i = j + 1
      BY <1>1, <2>3
    <3>2. back[j - (i - 1)] = s[j - (i - 1) + i]
      BY <1>4, <3>1
    <3>3. (front \o back)[j] = back[j - (i - 1)]
      BY <1>1, <2>1, <2>3
    <3> QED
      BY <2>3, <3>1, <3>2, <3>3
  <2> QED
    BY <2>2, <2>3
<1> QED
  BY <1>1, <1>5, <1>6, <1>7, <1>8, <1>9

\* The same two facts in terms of places in the queue.
LEMMA AppendPlaces ==
  ASSUME NEW S, NEW s \in Seq(S), NEW e \in S
  PROVE  \E last :
           /\ last \notin DOMAIN s
           /\ DOMAIN Append(s, e) = DOMAIN s \cup {last}
           /\ \A i \in DOMAIN s : Append(s, e)[i] = s[i]
           /\ Append(s, e)[last] = e
<1>1. /\ Len(s) + 1 \notin DOMAIN s
      /\ DOMAIN Append(s, e) = DOMAIN s \cup {Len(s) + 1}
      /\ \A i \in DOMAIN s : Append(s, e)[i] = s[i]
      /\ Append(s, e)[Len(s) + 1] = e
  BY AppendEntry
<1> QED
  BY <1>1

LEMMA ErasePlaces ==
  ASSUME NEW S, NEW s \in Seq(S), NEW i \in DOMAIN s
  PROVE  /\ \A j \in DOMAIN RemoveAt(s, i) :
              \E m \in DOMAIN s \ {i} : RemoveAt(s, i)[j] = s[m]
         /\ \A m \in DOMAIN s \ {i} :
              \E j \in DOMAIN RemoveAt(s, i) : RemoveAt(s, i)[j] = s[m]
         /\ (\A m, n \in DOMAIN s : s[m].task = s[n].task => m = n) =>
              \A j, k \in DOMAIN RemoveAt(s, i) :
                RemoveAt(s, i)[j].task = RemoveAt(s, i)[k].task => j = k
<1> DEFINE r == RemoveAt(s, i)
           old(j) == IF j < i THEN j ELSE j + 1
           new(m) == IF m < i THEN m ELSE m - 1
<1>1. /\ Len(s) \in Nat
      /\ DOMAIN s = 1..Len(s)
      /\ DOMAIN r = 1..(Len(s) - 1)
      /\ i \in 1..Len(s)
      /\ \A j \in DOMAIN r : r[j] = s[old(j)]
  <2>1. \A j \in 1..(Len(s) - 1) : r[j] = IF j < i THEN s[j] ELSE s[j + 1]
    BY EraseEntry
  <2>2. DOMAIN r = 1..(Len(s) - 1) /\ DOMAIN s = 1..Len(s) /\ Len(s) \in Nat
    BY EraseEntry
  <2> HIDE DEF r
  <2> QED
    BY <2>1, <2>2
<1> HIDE DEF r
<1>2. \A j \in DOMAIN r : old(j) \in DOMAIN s \ {i}
  BY <1>1
<1>3. \A j, k \in DOMAIN r : old(j) = old(k) => j = k
  BY <1>1
<1>4. \A m \in DOMAIN s \ {i} : new(m) \in DOMAIN r /\ old(new(m)) = m
  BY <1>1
<1> HIDE DEF old, new
<1>5. \A j \in DOMAIN r : \E m \in DOMAIN s \ {i} : r[j] = s[m]
  BY <1>1, <1>2
<1>6. \A m \in DOMAIN s \ {i} : \E j \in DOMAIN r : r[j] = s[m]
  BY <1>1, <1>4
<1>7. ASSUME \A m, n \in DOMAIN s : s[m].task = s[n].task => m = n,
             NEW j \in DOMAIN r, NEW k \in DOMAIN r, r[j].task = r[k].task
      PROVE  j = k
  BY <1>1, <1>2, <1>3, <1>7
<1> QED
  BY <1>5, <1>6, <1>7 DEF r

-----------------------------------------------------------------------------
(* Types.                                                                  *)

TInv == TypeOK /\ Loaded

\* What the typing steps need to know about entries and the counter.
LEMMA EntryFacts ==
  /\ EmptyEntry \notin Entries
  /\ \A e \in Entries :
       e.kind \in {"cb", "fiber"} /\ e.task \in Tasks /\ e.thread \in Threads
  /\ \A e \in Entries \cup {EmptyEntry} :
       e.kind # "none" => e \in Entries
  /\ \A k \in {"cb", "fiber"}, t \in Tasks, th \in Threads :
       [kind |-> k, task |-> t, thread |-> th] \in Entries
  /\ \A n \in (-IntMax - 1)..IntMax :
       Inc(n) \in (-IntMax - 1)..IntMax /\ Dec(n) \in (-IntMax - 1)..IntMax
<1>1. EmptyEntry \notin Entries
  BY DEF EmptyEntry, Entries
<1>2. \A e \in Entries :
        e.kind \in {"cb", "fiber"} /\ e.task \in Tasks /\ e.thread \in Threads
  BY DEF Entries
<1>3. \A e \in Entries \cup {EmptyEntry} : e.kind # "none" => e \in Entries
  BY DEF EmptyEntry
<1>4. \A k \in {"cb", "fiber"}, t \in Tasks, th \in Threads :
        [kind |-> k, task |-> t, thread |-> th] \in Entries
  BY DEF Entries
<1>5. \A n \in (-IntMax - 1)..IntMax :
        Inc(n) \in (-IntMax - 1)..IntMax /\ Dec(n) \in (-IntMax - 1)..IntMax
  BY SchedulerAssumption DEF SchedulerAssumption, Inc, Dec
<1> QED
  BY <1>1, <1>2, <1>3, <1>4, <1>5

\* A thread's step leaves the caller, and a task pinned to a thread, typed.
LEMMA PinFacts == \A t \in Tasks : Pin[t] \in Threads /\ AnyThread \in Threads
BY SchedulerAssumption DEF SchedulerAssumption, Threads

LEMMA TInvInit == Init => TInv
<1> SUFFICES ASSUME Init PROVE TInv
  OBVIOUS
<1>1. fibers \in Seq(Entries)
  BY EmptySeq DEF Init
<1>2. TypeOK
  <2>1. 0 \in (-IntMax - 1)..IntMax /\ 0 \in 0..MaxStarts
    BY SchedulerAssumption DEF SchedulerAssumption
  <2>2. fstate \in [Tasks -> FiberStates]
    BY DEF Init, FiberStates
  <2>3. /\ active \in (-IntMax - 1)..IntMax
        /\ starts \in 0..MaxStarts
        /\ idle \in Int
    BY <2>1 DEF Init
  <2>4. /\ ft \in [Workers -> Entries \cup {EmptyEntry}]
        /\ pc \in [Workers -> {"scan", "dispatch", "run", "swapOut", "settle",
                               "idle", "exited"}]
        /\ isActivate \in [Workers -> BOOLEAN]
        /\ idleState \in [Workers -> {"INIT", "EXEC", "TERM"}]
        /\ waker \in [Tasks -> {"no", "armed", "woken"}]
    BY DEF Init
  <2>5. /\ autoStop \in BOOLEAN
        /\ stopping \in BOOLEAN
        /\ callerPc \in {"created", "running", "stopping", "joining", "stopped"}
        /\ submitted \subseteq Tasks
    BY DEF Init
  <2> QED
    BY <1>1, <2>2, <2>3, <2>4, <2>5 DEF TypeOK
<1>3. Loaded
  BY DEF Init, Loaded, InBody
<1> QED
  BY <1>2, <1>3 DEF TInv

LEMMA TInvStep == TInv /\ [Next]_vars => TInv'
<1> SUFFICES ASSUME TInv, [Next]_vars PROVE TInv'
  OBVIOUS
<1> USE EntryFacts, PinFacts DEF InBody
<1>1. ASSUME NEW t \in Tasks, CallerSchedule(t) PROVE TInv'
  <2>1. fibers' \in Seq(Entries)
    BY <1>1, AppendEntry DEF TInv, TypeOK, CallerSchedule, Schedule, Enqueue
  <2> QED
    BY <1>1, <2>1, ZenonT(40) DEF TInv, TypeOK, Loaded, CallerSchedule, Schedule, callerVars,
       workerVars
<1>2. CASE Start
  <2>1. starts' \in 0..MaxStarts
    BY <1>2, SchedulerAssumption DEF TInv, TypeOK, Start, SchedulerAssumption
  <2>2. TypeOK'
    BY <1>2, <2>1 DEF TInv, TypeOK, Start
  <2>3. Loaded'
    BY <1>2 DEF TInv, TypeOK, Loaded, Start
  <2> QED
    BY <2>2, <2>3 DEF TInv
<1>3. CASE StopAuto
  BY <1>3 DEF TInv, TypeOK, Loaded, StopAuto, workerVars
<1>4. CASE StopSet
  BY <1>4 DEF TInv, TypeOK, Loaded, StopSet, workerVars
<1>5. CASE Join
  BY <1>5 DEF TInv, TypeOK, Loaded, Join, workerVars
<1>6. ASSUME NEW w \in Workers, Take(w) PROVE TInv'
  <2>1. PICK i \in DOMAIN fibers :
          /\ ft' = [ft EXCEPT ![w] = fibers[i]]
          /\ fibers' = RemoveAt(fibers, i)
    BY <1>6 DEF Take
  <2>2. fibers' \in Seq(Entries) /\ fibers[i] \in Entries
    BY <2>1, EraseEntry, ElementOfSeq DEF TInv, TypeOK
  <2>3. /\ pc[w] = "scan"
        /\ pc' = [pc EXCEPT ![w] = "dispatch"]
        /\ active' = Inc(active)
        /\ isActivate' = [isActivate EXCEPT ![w] = TRUE]
        /\ UNCHANGED <<idle, autoStop, stopping, fstate, idleState, callerVars,
                       submitted, waker>>
    BY <1>6 DEF Take, At
  <2>4. TypeOK'
    BY <2>1, <2>2, <2>3 DEF TInv, TypeOK, callerVars
  <2>5. Loaded'
    BY <2>1, <2>3, ZenonT(40) DEF TInv, TypeOK, Loaded, callerVars
  <2> QED
    BY <2>4, <2>5 DEF TInv
<1>7. ASSUME NEW w \in Workers, TakeNothing(w) PROVE TInv'
  BY <1>7, ZenonT(40) DEF TInv, TypeOK, Loaded, TakeNothing, At, callerVars
<1>8. ASSUME NEW w \in Workers, Resume(w) PROVE TInv'
  BY <1>8, ZenonT(40) DEF TInv, TypeOK, Loaded, Resume, At, callerVars, FiberStates
<1>9. ASSUME NEW w \in Workers, StartCallback(w) PROVE TInv'
  BY <1>9, ZenonT(40) DEF TInv, TypeOK, Loaded, StartCallback, At, callerVars, FiberStates
<1>10. ASSUME NEW w \in Workers, Discard(w) PROVE TInv'
  BY <1>10, ZenonT(40) DEF TInv, TypeOK, Loaded, Discard, At, callerVars
<1>11. ASSUME NEW w \in Workers, Exit(w) PROVE TInv'
  BY <1>11, ZenonT(40) DEF TInv, TypeOK, Loaded, Exit, At, callerVars
<1>12. ASSUME NEW w \in Workers, GoIdle(w) PROVE TInv'
  <2>1. idle' \in Int /\ idleState' \in [Workers -> {"INIT", "EXEC", "TERM"}]
    BY <1>12 DEF TInv, TypeOK, GoIdle
  <2>2. TypeOK'
    BY <1>12, <2>1 DEF TInv, TypeOK, GoIdle, At, callerVars
  <2>3. Loaded'
    BY <1>12, ZenonT(40) DEF TInv, TypeOK, Loaded, GoIdle, At, callerVars
  <2> QED
    BY <2>2, <2>3 DEF TInv
<1>13. ASSUME NEW w \in Workers, IdleTurn(w) PROVE TInv'
  <2>1. idle' \in Int /\ idleState' \in [Workers -> {"INIT", "EXEC", "TERM"}]
    BY <1>13 DEF TInv, TypeOK, IdleTurn
  <2>2. TypeOK'
    BY <1>13, <2>1 DEF TInv, TypeOK, IdleTurn, At, callerVars
  <2>3. Loaded'
    BY <1>13, ZenonT(40) DEF TInv, TypeOK, Loaded, IdleTurn, At, callerVars
  <2> QED
    BY <2>2, <2>3 DEF TInv
<1>14. ASSUME NEW w \in Workers, Return(w) PROVE TInv'
  BY <1>14, ZenonT(40) DEF TInv, TypeOK, Loaded, Return, At, callerVars
<1>15. ASSUME NEW w \in Workers, Requeue(w) PROVE TInv'
  <2>1. ft[w] \in Entries /\ pc[w] = "settle"
    BY <1>15 DEF TInv, Loaded, Requeue, At
  <2>2. fibers' \in Seq(Entries)
    BY <1>15, <2>1, AppendEntry DEF TInv, TypeOK, Requeue, Enqueue
  <2> QED
    BY <1>15, <2>1, <2>2, ZenonT(40) DEF TInv, TypeOK, Loaded, Requeue, At, callerVars
<1>16. ASSUME NEW w \in Workers, Settle(w) PROVE TInv'
  <2>1. ft[w] \in Entries /\ pc[w] = "settle"
    BY <1>16 DEF TInv, Loaded, Settle, At
  <2>2. fstate' \in [Tasks -> FiberStates]
    BY <1>16, <2>1 DEF TInv, TypeOK, Settle, FiberStates
  <2> QED
    BY <1>16, <2>1, <2>2, ZenonT(40) DEF TInv, TypeOK, Loaded, Settle, At, callerVars
<1>17. ASSUME NEW w \in Workers, NEW t \in Tasks, BodySchedule(w, t) PROVE TInv'
  <2>1. fibers' \in Seq(Entries)
    BY <1>17, AppendEntry DEF TInv, TypeOK, BodySchedule, Schedule, Enqueue
  <2> QED
    BY <1>17, <2>1 DEF TInv, TypeOK, Loaded, BodySchedule, Schedule, callerVars,
       workerVars
<1>18. ASSUME NEW w \in Workers, BodyArm(w) PROVE TInv'
  BY <1>18 DEF TInv, TypeOK, Loaded, BodyArm, callerVars, workerVars
<1>19. ASSUME NEW w \in Workers, YieldToHold(w) PROVE TInv'
  BY <1>19 DEF TInv, TypeOK, Loaded, YieldToHold, At, callerVars
<1>20. ASSUME NEW w \in Workers, YieldToReady(w) PROVE TInv'
  BY <1>20, ZenonT(40) DEF TInv, TypeOK, Loaded, YieldToReady, At, callerVars, FiberStates
<1>21. ASSUME NEW w \in Workers, End(w) PROVE TInv'
  <2>1. PICK s \in Dead : fstate' = [fstate EXCEPT ![ft[w].task] = s]
    BY <1>21 DEF End
  <2>2. fstate' \in [Tasks -> FiberStates]
    BY <2>1 DEF TInv, TypeOK, FiberStates, Dead
  <2> QED
    BY <1>21, <2>2, ZenonT(40) DEF TInv, TypeOK, Loaded, End, At, callerVars
<1>22. ASSUME NEW t \in Tasks, Wake(t) PROVE TInv'
  <2>1. fibers' \in Seq(Entries)
    BY <1>22, AppendEntry DEF TInv, TypeOK, Wake, Enqueue
  <2> QED
    BY <1>22, <2>1 DEF TInv, TypeOK, Loaded, Wake, callerVars, workerVars
<1>23. CASE CallerDone \/ UNCHANGED vars
  BY <1>23, ZenonT(40) DEF TInv, TypeOK, Loaded, CallerDone, vars, callerVars, workerVars
<1> QED
  BY <1>1, <1>2, <1>3, <1>4, <1>5, <1>6, <1>7, <1>8, <1>9, <1>10, <1>11, <1>12,
     <1>13, <1>14, <1>15, <1>16, <1>17, <1>18, <1>19, <1>20, <1>21, <1>22, <1>23
  DEF Next, Run, Body

LEMMA TInvAlways == Spec => []TInv
BY TInvInit, TInvStep, PTL DEF Spec

\* Every variable keeps its type; active_threads_count_ stays an int.
THEOREM TypeCorrect == Spec => []TypeOK
<1>1. TInv => TypeOK
  BY DEF TInv
<1> QED
  BY <1>1, TInvAlways, PTL

-----------------------------------------------------------------------------
(* Who holds and who queues a task.                                        *)

\* The variables the invariant is about.
Custody == <<fibers, fstate, pc, ft, submitted, waker>>

\* The invariant without its typing part.
JInv == QueueOK /\ HolderOK /\ HoldersApart /\ WakerOK /\ NoLostWakeup

\* What the types say of the tasks in the queue and in the hands of threads.
LEMMA TaskFacts ==
  ASSUME TypeOK
  PROVE  /\ \A i \in DOMAIN fibers :
              fibers[i] \in Entries /\ fibers[i].task \in Tasks
         /\ \A w \in Workers :
              /\ ft[w].kind # "none" <=> ft[w].task \in Tasks
              /\ ft[w].kind # "none" <=> ft[w] \in Entries
         /\ submitted \subseteq Tasks
         /\ "NONE" \notin Dead /\ "READY" \notin Dead /\ "EXEC" \notin Dead
         /\ "HOLD" \notin Dead
<1>1. \A i \in DOMAIN fibers : fibers[i] \in Entries
  BY LenProperties, ElementOfSeq DEF TypeOK
<1>2. \A w \in Workers : /\ ft[w].kind # "none" <=> ft[w].task \in Tasks
                         /\ ft[w].kind # "none" <=> ft[w] \in Entries
  BY SchedulerAssumption DEF TypeOK, EmptyEntry, Entries, SchedulerAssumption
<1> QED
  BY <1>1, <1>2, EntryFacts DEF TypeOK, Dead

LEMMA JInvInit == Init => JInv
<1> SUFFICES ASSUME Init PROVE JInv
  OBVIOUS
<1>1. QueueOK
  BY DEF Init, QueueOK
<1>2. HolderOK /\ HoldersApart
  BY DEF Init, HolderOK, HoldersApart, InBody
<1>3. WakerOK
  BY DEF Init, WakerOK
<1>4. NoLostWakeup
  BY DEF Init, NoLostWakeup
<1> QED
  BY <1>1, <1>2, <1>3, <1>4 DEF JInv

LEMMA JInvStep == TInv /\ JInv /\ [Next]_vars => JInv'
<1> SUFFICES ASSUME TInv, JInv, [Next]_vars PROVE JInv'
  OBVIOUS
<1> USE DEF InBody, Holds, Queued
<1>1. /\ TypeOK /\ Loaded
      /\ QueueOK /\ HolderOK /\ HoldersApart /\ WakerOK /\ NoLostWakeup
  BY DEF TInv, JInv
<1>2. /\ \A i \in DOMAIN fibers :
           fibers[i] \in Entries /\ fibers[i].task \in Tasks
      /\ \A w \in Workers :
           /\ ft[w].kind # "none" <=> ft[w].task \in Tasks
           /\ ft[w].kind # "none" <=> ft[w] \in Entries
      /\ submitted \subseteq Tasks
      /\ "NONE" \notin Dead /\ "READY" \notin Dead /\ "EXEC" \notin Dead
      /\ "HOLD" \notin Dead
  BY <1>1, TaskFacts
<1> HIDE DEF JInv
<1>3. ASSUME NEW w \in Workers, Resume(w) PROVE JInv'
  <2> DEFINE t == ft[w].task
  <2>1. /\ pc[w] = "dispatch"
        /\ t \in Tasks /\ t \in submitted
        /\ fstate[t] \notin Dead /\ fstate[t] # "NONE"
    BY <1>1, <1>2, <1>3 DEF Resume, At, HolderOK
  <2>2. /\ \A v \in Workers : pc'[v] = IF v = w THEN "run" ELSE pc[v]
        /\ \A u \in Tasks : fstate'[u] = IF u = t THEN "EXEC" ELSE fstate[u]
        /\ \A u \in Tasks : waker'[u] = IF u = t THEN "no" ELSE waker[u]
        /\ UNCHANGED <<fibers, ft, submitted>>
    BY <1>1, <1>2, <1>3, <2>1 DEF Resume, At, TypeOK
  <2>3. QueueOK'
    BY <1>1, <1>2, <2>1, <2>2 DEF QueueOK, HoldersApart
  <2>4. HolderOK'
    BY <1>1, <1>2, <2>1, <2>2 DEF HolderOK, QueueOK, HoldersApart
  <2>5. HoldersApart'
    BY <1>1, <1>2, <2>1, <2>2 DEF HoldersApart
  <2>6. WakerOK'
    BY <1>1, <1>2, <2>1, <2>2 DEF WakerOK
  <2>7. NoLostWakeup'
    BY <1>1, <1>2, <2>1, <2>2 DEF NoLostWakeup
  <2> QED
    BY <2>3, <2>4, <2>5, <2>6, <2>7 DEF JInv
<1>4. ASSUME NEW w \in Workers, StartCallback(w) PROVE JInv'
  <2> DEFINE t == ft[w].task
  <2>1. /\ pc[w] = "dispatch"
        /\ t \in Tasks /\ t \in submitted
        /\ fstate[t] = "NONE" /\ waker[t] = "no"
    BY <1>1, <1>2, <1>4 DEF StartCallback, At, HolderOK, WakerOK, TypeOK
  <2>2. /\ \A v \in Workers : pc'[v] = IF v = w THEN "run" ELSE pc[v]
        /\ \A u \in Tasks : fstate'[u] = IF u = t THEN "EXEC" ELSE fstate[u]
        /\ UNCHANGED <<fibers, ft, submitted, waker>>
    BY <1>1, <1>2, <1>4, <2>1 DEF StartCallback, At, TypeOK
  <2>3. QueueOK'
    BY <1>1, <1>2, <2>1, <2>2 DEF QueueOK, HoldersApart
  <2>4. HolderOK'
    BY <1>1, <1>2, <2>1, <2>2 DEF HolderOK, QueueOK, HoldersApart
  <2>5. HoldersApart'
    BY <1>1, <1>2, <2>1, <2>2 DEF HoldersApart
  <2>6. WakerOK'
    BY <1>1, <1>2, <2>1, <2>2 DEF WakerOK
  <2>7. NoLostWakeup'
    BY <1>1, <1>2, <2>1, <2>2 DEF NoLostWakeup
  <2> QED
    BY <2>3, <2>4, <2>5, <2>6, <2>7 DEF JInv
<1>5. ASSUME NEW w \in Workers, Discard(w) PROVE JInv'
  <2> DEFINE t == ft[w].task
  <2>1. /\ pc[w] = "dispatch"
        /\ t \in submitted => fstate[t] \in Dead
    BY <1>1, <1>2, <1>5 DEF Discard, At, NothingToRun
  <2>2. /\ \A v \in Workers : pc'[v] = IF v = w THEN "scan" ELSE pc[v]
        /\ \A v \in Workers : ft'[v] = IF v = w THEN EmptyEntry ELSE ft[v]
        /\ EmptyEntry.kind = "none" /\ EmptyEntry.task \notin Tasks
        /\ UNCHANGED <<fibers, fstate, submitted, waker>>
    BY <1>1, <1>2, <1>5, <2>1, SchedulerAssumption DEF Discard, At, TypeOK, EmptyEntry, SchedulerAssumption
  <2>3. QueueOK'
    BY <1>1, <1>2, <2>1, <2>2 DEF QueueOK
  <2>4. HolderOK'
    BY <1>1, <1>2, <2>1, <2>2 DEF HolderOK
  <2>5. HoldersApart'
    BY <1>1, <1>2, <2>1, <2>2 DEF HoldersApart
  <2>6. WakerOK'
    BY <1>1, <1>2, <2>1, <2>2 DEF WakerOK
  <2>7. NoLostWakeup'
    BY <1>1, <1>2, <2>1, <2>2 DEF NoLostWakeup
  <2> QED
    BY <2>3, <2>4, <2>5, <2>6, <2>7 DEF JInv
<1>6. ASSUME NEW w \in Workers, Exit(w) PROVE JInv'
  <2> DEFINE t == ft[w].task
  <2>1. /\ pc[w] = "dispatch"
        /\ t \in submitted => fstate[t] \in Dead
    BY <1>1, <1>2, <1>6 DEF Exit, At, NothingToRun
  <2>2. /\ \A v \in Workers : pc'[v] = IF v = w THEN "exited" ELSE pc[v]
        /\ \A v \in Workers : ft'[v] = IF v = w THEN EmptyEntry ELSE ft[v]
        /\ EmptyEntry.kind = "none" /\ EmptyEntry.task \notin Tasks
        /\ UNCHANGED <<fibers, fstate, submitted, waker>>
    BY <1>1, <1>2, <1>6, <2>1, SchedulerAssumption DEF Exit, At, TypeOK, EmptyEntry, SchedulerAssumption
  <2>3. QueueOK'
    BY <1>1, <1>2, <2>1, <2>2 DEF QueueOK
  <2>4. HolderOK'
    BY <1>1, <1>2, <2>1, <2>2 DEF HolderOK
  <2>5. HoldersApart'
    BY <1>1, <1>2, <2>1, <2>2 DEF HoldersApart
  <2>6. WakerOK'
    BY <1>1, <1>2, <2>1, <2>2 DEF WakerOK
  <2>7. NoLostWakeup'
    BY <1>1, <1>2, <2>1, <2>2 DEF NoLostWakeup
  <2> QED
    BY <2>3, <2>4, <2>5, <2>6, <2>7 DEF JInv
<1>7. ASSUME NEW w \in Workers, GoIdle(w) PROVE JInv'
  <2> DEFINE t == ft[w].task
  <2>1. /\ pc[w] = "dispatch"
        /\ t \in submitted => fstate[t] \in Dead
    BY <1>1, <1>2, <1>7 DEF GoIdle, At, NothingToRun
  <2>2. /\ \A v \in Workers : pc'[v] = IF v = w THEN "idle" ELSE pc[v]
        /\ \A v \in Workers : ft'[v] = IF v = w THEN EmptyEntry ELSE ft[v]
        /\ EmptyEntry.kind = "none" /\ EmptyEntry.task \notin Tasks
        /\ UNCHANGED <<fibers, fstate, submitted, waker>>
    BY <1>1, <1>2, <1>7, <2>1, SchedulerAssumption DEF GoIdle, At, TypeOK, EmptyEntry, SchedulerAssumption
  <2>3. QueueOK'
    BY <1>1, <1>2, <2>1, <2>2 DEF QueueOK
  <2>4. HolderOK'
    BY <1>1, <1>2, <2>1, <2>2 DEF HolderOK
  <2>5. HoldersApart'
    BY <1>1, <1>2, <2>1, <2>2 DEF HoldersApart
  <2>6. WakerOK'
    BY <1>1, <1>2, <2>1, <2>2 DEF WakerOK
  <2>7. NoLostWakeup'
    BY <1>1, <1>2, <2>1, <2>2 DEF NoLostWakeup
  <2> QED
    BY <2>3, <2>4, <2>5, <2>6, <2>7 DEF JInv
<1>8. ASSUME NEW w \in Workers, IdleTurn(w) PROVE JInv'
  <2> DEFINE t == ft[w].task
  <2>1. /\ pc[w] = "idle"
        /\ ft[w] = EmptyEntry
        /\ t \notin Tasks
    BY <1>1, <1>2, <1>8 DEF IdleTurn, At, Loaded, EmptyEntry, SchedulerAssumption
  <2>2. /\ \A v \in Workers : pc'[v] = IF v = w THEN "scan" ELSE pc[v]
        /\ UNCHANGED <<fibers, fstate, ft, submitted, waker>>
    BY <1>1, <1>2, <1>8, <2>1 DEF IdleTurn, At, TypeOK
  <2>3. QueueOK'
    BY <1>1, <1>2, <2>1, <2>2 DEF QueueOK
  <2>4. HolderOK'
    BY <1>1, <1>2, <2>1, <2>2 DEF HolderOK
  <2>5. HoldersApart'
    BY <1>1, <1>2, <2>1, <2>2 DEF HoldersApart
  <2>6. WakerOK'
    BY <1>1, <1>2, <2>1, <2>2 DEF WakerOK
  <2>7. NoLostWakeup'
    BY <1>1, <1>2, <2>1, <2>2 DEF NoLostWakeup
  <2> QED
    BY <2>3, <2>4, <2>5, <2>6, <2>7 DEF JInv
<1>9. ASSUME NEW w \in Workers, TakeNothing(w) PROVE JInv'
  <2> DEFINE t == ft[w].task
  <2>1. /\ pc[w] = "scan"
        /\ ft[w].kind = "none"
        /\ t \notin Tasks
    BY <1>1, <1>2, <1>9 DEF TakeNothing, At, Loaded, EmptyEntry, SchedulerAssumption
  <2>2. /\ \A v \in Workers : pc'[v] = IF v = w THEN "dispatch" ELSE pc[v]
        /\ UNCHANGED <<fibers, fstate, ft, submitted, waker>>
    BY <1>1, <1>2, <1>9, <2>1 DEF TakeNothing, At, TypeOK
  <2>3. QueueOK'
    BY <1>1, <1>2, <2>1, <2>2 DEF QueueOK
  <2>4. HolderOK'
    BY <1>1, <1>2, <2>1, <2>2 DEF HolderOK
  <2>5. HoldersApart'
    BY <1>1, <1>2, <2>1, <2>2 DEF HoldersApart
  <2>6. WakerOK'
    BY <1>1, <1>2, <2>1, <2>2 DEF WakerOK
  <2>7. NoLostWakeup'
    BY <1>1, <1>2, <2>1, <2>2 DEF NoLostWakeup
  <2> QED
    BY <2>3, <2>4, <2>5, <2>6, <2>7 DEF JInv
<1>10. ASSUME NEW w \in Workers, Return(w) PROVE JInv'
  <2> DEFINE t == ft[w].task
  <2>1. /\ pc[w] = "swapOut"
        /\ t \in Tasks
    BY <1>1, <1>2, <1>10 DEF Return, At, Loaded
  <2>2. /\ \A v \in Workers : pc'[v] = IF v = w THEN "settle" ELSE pc[v]
        /\ UNCHANGED <<fibers, fstate, ft, submitted, waker>>
    BY <1>1, <1>2, <1>10, <2>1 DEF Return, At, TypeOK
  <2>3. QueueOK'
    BY <1>1, <1>2, <2>1, <2>2 DEF QueueOK
  <2>4. HolderOK'
    BY <1>1, <1>2, <2>1, <2>2 DEF HolderOK
  <2>5. HoldersApart'
    BY <1>1, <1>2, <2>1, <2>2 DEF HoldersApart
  <2>6. WakerOK'
    BY <1>1, <1>2, <2>1, <2>2 DEF WakerOK
  <2>7. NoLostWakeup'
    BY <1>1, <1>2, <2>1, <2>2 DEF NoLostWakeup
  <2> QED
    BY <2>3, <2>4, <2>5, <2>6, <2>7 DEF JInv
<1>11. ASSUME NEW w \in Workers, Settle(w) PROVE JInv'
  <2> DEFINE t == ft[w].task
  <2>1. /\ pc[w] = "settle"
        /\ t \in Tasks /\ t \in submitted
        /\ fstate[t] \in Dead \/ (fstate[t] = "EXEC" /\ waker[t] # "no")
    BY <1>1, <1>2, <1>11 DEF Settle, At, Loaded, HolderOK
  <2>2. /\ \A v \in Workers : pc'[v] = IF v = w THEN "scan" ELSE pc[v]
        /\ \A v \in Workers : ft'[v] = IF v = w THEN EmptyEntry ELSE ft[v]
        /\ \A u \in Tasks : fstate'[u] = IF u = t THEN (IF fstate[t] \in Dead THEN fstate[t] ELSE "HOLD") ELSE fstate[u]
        /\ EmptyEntry.kind = "none" /\ EmptyEntry.task \notin Tasks
        /\ UNCHANGED <<fibers, submitted, waker>>
    BY <1>1, <1>2, <1>11, <2>1, SchedulerAssumption DEF Settle, At, TypeOK, EmptyEntry, SchedulerAssumption
  <2>3. QueueOK'
    BY <1>1, <1>2, <2>1, <2>2 DEF QueueOK
  <2>4. HolderOK'
    BY <1>1, <1>2, <2>1, <2>2 DEF HolderOK, HoldersApart
  <2>5. HoldersApart'
    BY <1>1, <1>2, <2>1, <2>2 DEF HoldersApart
  <2>6. WakerOK'
    BY <1>1, <1>2, <2>1, <2>2 DEF WakerOK
  <2>7. NoLostWakeup'
    BY <1>1, <1>2, <2>1, <2>2 DEF NoLostWakeup, HoldersApart
  <2> QED
    BY <2>3, <2>4, <2>5, <2>6, <2>7 DEF JInv
<1>12. ASSUME NEW w \in Workers, BodyArm(w) PROVE JInv'
  <2> DEFINE t == ft[w].task
  <2>1. /\ pc[w] = "run"
        /\ t \in Tasks /\ t \in submitted
        /\ fstate[t] = "EXEC" /\ waker[t] = "no"
    BY <1>1, <1>2, <1>12 DEF BodyArm, Loaded, HolderOK
  <2>2. /\ \A u \in Tasks : waker'[u] = IF u = t THEN "armed" ELSE waker[u]
        /\ UNCHANGED <<fibers, fstate, pc, ft, submitted>>
    BY <1>1, <1>2, <1>12, <2>1 DEF BodyArm, TypeOK, workerVars
  <2>3. QueueOK'
    BY <1>1, <1>2, <2>1, <2>2 DEF QueueOK
  <2>4. HolderOK'
    BY <1>1, <1>2, <2>1, <2>2 DEF HolderOK, HoldersApart
  <2>5. HoldersApart'
    BY <1>1, <1>2, <2>1, <2>2 DEF HoldersApart
  <2>6. WakerOK'
    BY <1>1, <1>2, <2>1, <2>2 DEF WakerOK
  <2>7. NoLostWakeup'
    BY <1>1, <1>2, <2>1, <2>2 DEF NoLostWakeup
  <2> QED
    BY <2>3, <2>4, <2>5, <2>6, <2>7 DEF JInv
<1>13. ASSUME NEW w \in Workers, YieldToHold(w) PROVE JInv'
  <2> DEFINE t == ft[w].task
  <2>1. /\ pc[w] = "run"
        /\ t \in Tasks /\ t \in submitted
        /\ fstate[t] = "EXEC" /\ waker[t] # "no"
        /\ waker[t] = "armed" \/ Queued(t)
    BY <1>1, <1>2, <1>13 DEF YieldToHold, At, Loaded, HolderOK, TypeOK
  <2>2. /\ \A v \in Workers : pc'[v] = IF v = w THEN "swapOut" ELSE pc[v]
        /\ UNCHANGED <<fibers, fstate, ft, submitted, waker>>
    BY <1>1, <1>2, <1>13, <2>1 DEF YieldToHold, At, TypeOK
  <2>3. QueueOK'
    BY <1>1, <1>2, <2>1, <2>2 DEF QueueOK
  <2>4. HolderOK'
    BY <1>1, <1>2, <2>1, <2>2 DEF HolderOK
  <2>5. HoldersApart'
    BY <1>1, <1>2, <2>1, <2>2 DEF HoldersApart
  <2>6. WakerOK'
    BY <1>1, <1>2, <2>1, <2>2 DEF WakerOK
  <2>7. NoLostWakeup'
    BY <1>1, <1>2, <2>1, <2>2 DEF NoLostWakeup
  <2> QED
    BY <2>3, <2>4, <2>5, <2>6, <2>7 DEF JInv
<1>14. ASSUME NEW w \in Workers, YieldToReady(w) PROVE JInv'
  <2> DEFINE t == ft[w].task
  <2>1. /\ pc[w] = "run"
        /\ t \in Tasks /\ t \in submitted
        /\ fstate[t] = "EXEC" /\ waker[t] = "no"
    BY <1>1, <1>2, <1>14 DEF YieldToReady, At, Loaded, HolderOK
  <2>2. /\ \A v \in Workers : pc'[v] = IF v = w THEN "swapOut" ELSE pc[v]
        /\ \A u \in Tasks : fstate'[u] = IF u = t THEN "READY" ELSE fstate[u]
        /\ UNCHANGED <<fibers, ft, submitted, waker>>
    BY <1>1, <1>2, <1>14, <2>1 DEF YieldToReady, At, TypeOK
  <2>3. QueueOK'
    BY <1>1, <1>2, <2>1, <2>2 DEF QueueOK
  <2>4. HolderOK'
    BY <1>1, <1>2, <2>1, <2>2 DEF HolderOK, HoldersApart
  <2>5. HoldersApart'
    BY <1>1, <1>2, <2>1, <2>2 DEF HoldersApart
  <2>6. WakerOK'
    BY <1>1, <1>2, <2>1, <2>2 DEF WakerOK
  <2>7. NoLostWakeup'
    BY <1>1, <1>2, <2>1, <2>2 DEF NoLostWakeup
  <2> QED
    BY <2>3, <2>4, <2>5, <2>6, <2>7 DEF JInv
<1>15. ASSUME NEW w \in Workers, End(w) PROVE JInv'
  <2> DEFINE t == ft[w].task
  <2>1. /\ pc[w] = "run"
        /\ t \in Tasks /\ t \in submitted
        /\ fstate[t] = "EXEC"
    BY <1>1, <1>2, <1>15 DEF End, At, Loaded, HolderOK
  <2>2. PICK s \in Dead : fstate' = [fstate EXCEPT ![t] = s]
    BY <1>15 DEF End
  <2>3. /\ \A v \in Workers : pc'[v] = IF v = w THEN "swapOut" ELSE pc[v]
        /\ \A u \in Tasks : fstate'[u] = IF u = t THEN s ELSE fstate[u]
        /\ UNCHANGED <<fibers, ft, submitted, waker>>
    BY <1>1, <1>15, <2>2 DEF End, At, TypeOK
  <2>4. QueueOK'
    BY <1>1, <1>2, <2>1, <2>2, <2>3 DEF QueueOK
  <2>5. HolderOK'
    BY <1>1, <1>2, <2>1, <2>2, <2>3 DEF HolderOK, HoldersApart
  <2>6. HoldersApart'
    BY <1>1, <1>2, <2>1, <2>2, <2>3 DEF HoldersApart
  <2>7. WakerOK'
    BY <1>1, <1>2, <2>1, <2>2, <2>3 DEF WakerOK
  <2>8. NoLostWakeup'
    BY <1>1, <1>2, <2>1, <2>2, <2>3 DEF NoLostWakeup
  <2> QED
    BY <2>4, <2>5, <2>6, <2>7, <2>8 DEF JInv
<1>16. ASSUME UNCHANGED Custody PROVE JInv'
  <2>1. UNCHANGED <<fibers, fstate, pc, ft, submitted, waker>>
    BY <1>16 DEF Custody
  <2>2. QueueOK'
    BY <1>1, <2>1 DEF QueueOK
  <2>3. HolderOK'
    BY <1>1, <2>1 DEF HolderOK
  <2>4. HoldersApart'
    BY <1>1, <2>1 DEF HoldersApart
  <2>5. WakerOK'
    BY <1>1, <2>1 DEF WakerOK
  <2>6. NoLostWakeup'
    BY <1>1, <2>1 DEF NoLostWakeup
  <2> QED
    BY <2>2, <2>3, <2>4, <2>5, <2>6 DEF JInv
<1>17. ASSUME NEW u \in Tasks, Schedule(u), UNCHANGED <<fstate, pc, ft, waker>>
       PROVE  JInv'
  <2> DEFINE e == [kind |-> IF u \in FiberTasks THEN "fiber" ELSE "cb",
                   task |-> u, thread |-> Pin[u]]
  <2>1. /\ u \notin submitted
        /\ submitted' = submitted \cup {u}
        /\ waker[u] = "no"
        /\ fstate[u] = IF u \in FiberTasks THEN "INIT" ELSE "NONE"
        /\ UNCHANGED <<fstate, pc, ft, waker>>
    BY <1>1, <1>17 DEF Schedule, WakerOK
  <2>2. e \in Entries /\ fibers' = Append(fibers, e)
    BY <1>17, EntryFacts, PinFacts DEF Schedule, Enqueue
  <2>3. e.task = u /\ (e.kind = "cb" <=> u \notin FiberTasks)
    OBVIOUS
  <2> HIDE DEF e
  <2>4. PICK last :
          /\ last \notin DOMAIN fibers
          /\ DOMAIN fibers' = DOMAIN fibers \cup {last}
          /\ \A i \in DOMAIN fibers : fibers'[i] = fibers[i]
          /\ fibers'[last] = e
    BY <1>1, <2>2, AppendPlaces DEF TypeOK
  <2>5. QueueOK'
    BY <1>1, <1>2, <2>1, <2>3, <2>4 DEF QueueOK, HolderOK
  <2>6. HolderOK'
    BY <1>1, <1>2, <2>1, <2>3, <2>4 DEF HolderOK, QueueOK
  <2>7. HoldersApart'
    BY <1>1, <1>2, <2>1, <2>3, <2>4 DEF HoldersApart
  <2>8. WakerOK'
    BY <1>1, <1>2, <2>1, <2>3, <2>4 DEF WakerOK
  <2>9. NoLostWakeup'
    BY <1>1, <1>2, <2>1, <2>3, <2>4 DEF NoLostWakeup
  <2> QED
    BY <2>5, <2>6, <2>7, <2>8, <2>9 DEF JInv
<1>18. ASSUME NEW w \in Workers, Requeue(w) PROVE JInv'
  <2> DEFINE t == ft[w].task
             e == [kind |-> "fiber", task |-> t, thread |-> ft[w].thread]
  <2>1. /\ pc[w] = "settle"
        /\ t \in Tasks /\ t \in submitted
        /\ fstate[t] = "READY" /\ waker[t] = "no"
    BY <1>1, <1>2, <1>18 DEF Requeue, At, Loaded, HolderOK
  <2>2. e \in Entries /\ fibers' = Append(fibers, e)
    BY <1>1, <1>2, <1>18, <2>1, EntryFacts DEF Requeue, Enqueue
  <2>3. e.task = t /\ e.kind = "fiber"
    OBVIOUS
  <2> HIDE DEF e
  <2>4. PICK last :
          /\ last \notin DOMAIN fibers
          /\ DOMAIN fibers' = DOMAIN fibers \cup {last}
          /\ \A i \in DOMAIN fibers : fibers'[i] = fibers[i]
          /\ fibers'[last] = e
    BY <1>1, <2>2, AppendPlaces DEF TypeOK
  <2>5. /\ \A v \in Workers : pc'[v] = IF v = w THEN "scan" ELSE pc[v]
        /\ \A v \in Workers : ft'[v] = IF v = w THEN EmptyEntry ELSE ft[v]
        /\ EmptyEntry.kind = "none" /\ EmptyEntry.task \notin Tasks
        /\ UNCHANGED <<fstate, submitted, waker>>
    BY <1>1, <1>18, SchedulerAssumption
    DEF Requeue, At, TypeOK, EmptyEntry, SchedulerAssumption
  <2>6. QueueOK'
    BY <1>1, <1>2, <2>1, <2>3, <2>4, <2>5 DEF QueueOK, HoldersApart
  <2>7. HolderOK'
    BY <1>1, <1>2, <2>1, <2>3, <2>4, <2>5 DEF HolderOK, HoldersApart
  <2>8. HoldersApart'
    BY <1>1, <1>2, <2>1, <2>3, <2>4, <2>5 DEF HoldersApart
  <2>9. WakerOK'
    BY <1>1, <1>2, <2>1, <2>3, <2>4, <2>5 DEF WakerOK
  <2>10. NoLostWakeup'
    BY <1>1, <1>2, <2>1, <2>3, <2>4, <2>5 DEF NoLostWakeup, HoldersApart
  <2> QED
    BY <2>6, <2>7, <2>8, <2>9, <2>10 DEF JInv
<1>19. ASSUME NEW t \in Tasks, Wake(t) PROVE JInv'
  <2> DEFINE e == [kind |-> "fiber", task |-> t, thread |-> AnyThread]
  <2>1. waker[t] = "armed" /\ t \in submitted /\ fstate[t] # "NONE"
    BY <1>1, <1>19 DEF Wake, WakerOK
  <2>2. e \in Entries /\ fibers' = Append(fibers, e)
    BY <1>19, EntryFacts, PinFacts DEF Wake, Enqueue
  <2>3. e.task = t /\ e.kind = "fiber"
    OBVIOUS
  <2> HIDE DEF e
  <2>4. PICK last :
          /\ last \notin DOMAIN fibers
          /\ DOMAIN fibers' = DOMAIN fibers \cup {last}
          /\ \A i \in DOMAIN fibers : fibers'[i] = fibers[i]
          /\ fibers'[last] = e
    BY <1>1, <2>2, AppendPlaces DEF TypeOK
  <2>5. /\ \A u \in Tasks : waker'[u] = IF u = t THEN "woken" ELSE waker[u]
        /\ UNCHANGED <<fstate, pc, ft, submitted>>
    BY <1>1, <1>19 DEF Wake, TypeOK, workerVars
  <2>6. QueueOK'
    BY <1>1, <1>2, <2>1, <2>3, <2>4, <2>5 DEF QueueOK, HolderOK
  <2>7. HolderOK'
    BY <1>1, <1>2, <2>1, <2>3, <2>4, <2>5 DEF HolderOK, QueueOK
  <2>8. HoldersApart'
    BY <1>1, <1>2, <2>1, <2>3, <2>4, <2>5 DEF HoldersApart
  <2>9. WakerOK'
    BY <1>1, <1>2, <2>1, <2>3, <2>4, <2>5 DEF WakerOK
  <2>10. NoLostWakeup'
    BY <1>1, <1>2, <2>1, <2>3, <2>4, <2>5 DEF NoLostWakeup
  <2> QED
    BY <2>6, <2>7, <2>8, <2>9, <2>10 DEF JInv
<1>20. ASSUME NEW w \in Workers, Take(w) PROVE JInv'
  <2>1. PICK i \in DOMAIN fibers :
          /\ Takeable(fibers[i], w)
          /\ ft' = [ft EXCEPT ![w] = fibers[i]]
          /\ fibers' = RemoveAt(fibers, i)
    BY <1>20 DEF Take
  <2> DEFINE e == fibers[i]
             t == e.task
  <2>2. /\ pc[w] = "scan"
        /\ e \in Entries /\ t \in Tasks /\ t \in submitted
        /\ waker[t] # "armed"
        /\ fstate[t] # "EXEC"
        /\ e.kind = "cb" <=> fstate[t] = "NONE"
        /\ e.kind # "none"
    BY <1>1, <1>2, <1>20, <2>1, EntryFacts DEF Take, At, Takeable, QueueOK
  <2>3. /\ \A v \in Workers : pc'[v] = IF v = w THEN "dispatch" ELSE pc[v]
        /\ \A v \in Workers : ft'[v] = IF v = w THEN e ELSE ft[v]
        /\ UNCHANGED <<fstate, submitted, waker>>
    BY <1>1, <1>20, <2>1 DEF Take, At, TypeOK
  <2>4. /\ \A j \in DOMAIN fibers' :
             \E m \in DOMAIN fibers \ {i} : fibers'[j] = fibers[m]
        /\ \A m \in DOMAIN fibers \ {i} :
             \E j \in DOMAIN fibers' : fibers'[j] = fibers[m]
        /\ (\A m, n \in DOMAIN fibers :
               fibers[m].task = fibers[n].task => m = n) =>
             \A j, k \in DOMAIN fibers' :
               fibers'[j].task = fibers'[k].task => j = k
    <3>1. fibers \in Seq(Entries)
      BY <1>1 DEF TypeOK
    <3> QED
      BY <2>1, <3>1, ErasePlaces, SMTT(30)
  <2>5. \A j, k \in DOMAIN fibers' : fibers'[j].task = fibers'[k].task => j = k
    <3>1. \A m, n \in DOMAIN fibers : fibers[m].task = fibers[n].task => m = n
      BY <1>1 DEF QueueOK
    <3> QED
      BY <2>4, <3>1
  <2>6. \A j \in DOMAIN fibers' :
          \E m \in DOMAIN fibers : fibers'[j] = fibers[m] /\ fibers[m].task # t
    <3>1. \A m \in DOMAIN fibers \ {i} : fibers[m].task # t
      BY <1>1 DEF QueueOK
    <3> QED
      BY <2>4, <3>1
  <2>7. QueueOK'
    BY <1>1, <1>2, <2>2, <2>3, <2>4, <2>5, <2>6 DEF QueueOK
  <2>8. HolderOK'
    BY <1>1, <1>2, <2>2, <2>3, <2>4, <2>5, <2>6 DEF HolderOK, QueueOK
  <2>9. HoldersApart'
    BY <1>1, <1>2, <2>2, <2>3, <2>4, <2>5, <2>6 DEF HoldersApart, QueueOK, HolderOK
  <2>10. WakerOK'
    BY <1>1, <1>2, <2>2, <2>3, <2>4, <2>5, <2>6 DEF WakerOK
  <2>11. NoLostWakeup'
    BY <1>1, <1>2, <2>2, <2>3, <2>4, <2>5, <2>6 DEF NoLostWakeup, HolderOK
  <2> QED
    BY <2>7, <2>8, <2>9, <2>10, <2>11 DEF JInv
<1>21. ASSUME Start PROVE JInv'
  <2>1. /\ \A w \in Workers : pc[w] = "exited" /\ pc'[w] = "scan"
        /\ UNCHANGED <<fibers, fstate, ft, submitted, waker>>
    BY <1>1, <1>21 DEF Start, Loaded
  <2>2. QueueOK'
    BY <1>1, <2>1 DEF QueueOK
  <2>3. HolderOK'
    BY <1>1, <2>1 DEF HolderOK
  <2>4. HoldersApart'
    BY <1>1, <2>1 DEF HoldersApart
  <2>5. WakerOK'
    BY <1>1, <2>1 DEF WakerOK
  <2>6. NoLostWakeup'
    BY <1>1, <2>1 DEF NoLostWakeup
  <2> QED
    BY <2>2, <2>3, <2>4, <2>5, <2>6 DEF JInv
<1>22. CASE UNCHANGED vars
  BY <1>22, <1>16 DEF vars, Custody, workerVars
<1>23. CASE StopAuto \/ StopSet \/ Join \/ CallerDone
  BY <1>23, <1>16 DEF StopAuto, StopSet, Join, CallerDone, vars, Custody, workerVars
<1>24. ASSUME NEW u \in Tasks, CallerSchedule(u) PROVE JInv'
  BY <1>24, <1>17 DEF CallerSchedule, workerVars
<1>25. ASSUME NEW w \in Workers, NEW u \in Tasks, BodySchedule(w, u) PROVE JInv'
  BY <1>25, <1>17 DEF BodySchedule, workerVars
<1> QED
  BY <1>3, <1>4, <1>5, <1>6, <1>7, <1>8, <1>9, <1>10, <1>11, <1>12,
     <1>13, <1>14, <1>15, <1>16, <1>17, <1>18, <1>19, <1>20, <1>21, <1>22,
     <1>23, <1>24, <1>25
  DEF Next, Run, Body

LEMMA JInvAlways == Spec => [](TInv /\ JInv)
BY TInvInit, TInvStep, JInvInit, JInvStep, PTL DEF Spec

\* IInv is an invariant: the queue, the threads' local state and the fibers'
\* states agree on who has each task.
THEOREM CustodyCorrect == Spec => []IInv
<1>1. TInv /\ JInv => IInv
  BY DEF TInv, JInv, IInv
<1> QED
  BY <1>1, JInvAlways, PTL

\* No fiber is executed by two threads at once, however it is woken.
THEOREM RunsOnOneThread == Spec => []ExclusiveExecution
<1>1. TInv /\ JInv => ExclusiveExecution
  <2> SUFFICES ASSUME TInv, JInv, NEW v \in Workers, NEW w \in Workers,
                      OnStack(v), OnStack(w), ft[v].task = ft[w].task, v # w
               PROVE  FALSE
    BY DEF ExclusiveExecution
  <2>1. pc[v] \in InBody /\ pc[w] \in InBody
    BY DEF OnStack, InBody
  <2>2. ft[v].kind # "none"
    BY <2>1, EntryFacts DEF TInv, Loaded
  <2> QED
    BY <2>1, <2>2 DEF JInv, HoldersApart
<1> QED
  BY <1>1, JInvAlways, PTL

\* No submitted task is ever stranded: somebody runs it, has queued it or can
\* wake it, until it has ended.
THEOREM WakeupsAreKept == Spec => []NoLostWakeup
<1>1. TInv /\ JInv => NoLostWakeup
  BY DEF JInv
<1> QED
  BY <1>1, JInvAlways, PTL

-----------------------------------------------------------------------------
(* Pinned tasks.                                                           *)

\* The thread a task was submitted for goes with it through the queue and
\* through the hands of the threads.
PinInv ==
  /\ \A i \in DOMAIN fibers :
       fibers[i].task \notin HoldTasks => fibers[i].thread = Pin[fibers[i].task]
  /\ \A w \in Workers :
       ft[w].kind # "none" /\ ft[w].task \notin HoldTasks =>
         ft[w].thread = Pin[ft[w].task] /\ ft[w].thread \in {AnyThread, w}
  /\ \A t \in Tasks : waker[t] = "armed" => t \in HoldTasks

LEMMA PinInvInit == Init => PinInv
BY DEF Init, PinInv, EmptyEntry

LEMMA PinInvStep == TInv /\ PinInv /\ [Next]_vars => PinInv'
<1> SUFFICES ASSUME TInv, PinInv, [Next]_vars PROVE PinInv'
  OBVIOUS
<1>1. /\ TypeOK /\ Loaded
      /\ EmptyEntry.kind = "none"
  BY DEF TInv, EmptyEntry
<1>2. ASSUME NEW u \in Tasks, NEW k \in {"cb", "fiber"}, NEW th \in Threads,
             Enqueue(k, u, th),
             u \notin HoldTasks => th = Pin[u]
      PROVE  \A i \in DOMAIN fibers' : fibers'[i].task \notin HoldTasks =>
                                         fibers'[i].thread = Pin[fibers'[i].task]
  <2> DEFINE e == [kind |-> k, task |-> u, thread |-> th]
  <2>1. e \in Entries /\ fibers' = Append(fibers, e) /\ fibers \in Seq(Entries)
    BY <1>1, <1>2, EntryFacts DEF Enqueue, TypeOK
  <2>2. e.task = u /\ e.thread = th
    OBVIOUS
  <2> HIDE DEF e
  <2>3. PICK last :
          /\ DOMAIN fibers' = DOMAIN fibers \cup {last}
          /\ \A i \in DOMAIN fibers : fibers'[i] = fibers[i]
          /\ fibers'[last] = e
    BY <2>1, AppendPlaces
  <2> QED
    BY <1>2, <2>2, <2>3 DEF PinInv
<1>3. ASSUME NEW u \in Tasks, Schedule(u), UNCHANGED <<ft, waker>> PROVE PinInv'
  BY <1>2, <1>3, PinFacts DEF Schedule, PinInv
<1>4. ASSUME NEW w \in Workers, Requeue(w) PROVE PinInv'
  <2>1. ft[w] \in Entries /\ ft[w].kind # "none"
    BY <1>1, <1>4, EntryFacts DEF Requeue, At, Loaded, InBody
  <2>2. ft[w].task \in Tasks /\ ft[w].thread \in Threads
    BY <2>1, EntryFacts
  <2> QED
    BY <1>1, <1>2, <1>4, <2>1, <2>2 DEF Requeue, PinInv, TypeOK
<1>5. ASSUME NEW u \in Tasks, Wake(u) PROVE PinInv'
  <2>1. u \in HoldTasks
    BY <1>5 DEF Wake, PinInv
  <2> QED
    BY <1>1, <1>2, <1>5, <2>1, PinFacts DEF Wake, PinInv, TypeOK, workerVars
<1>6. ASSUME NEW w \in Workers, Take(w) PROVE PinInv'
  <2>1. PICK i \in DOMAIN fibers :
          /\ Takeable(fibers[i], w)
          /\ ft' = [ft EXCEPT ![w] = fibers[i]]
          /\ fibers' = RemoveAt(fibers, i)
          /\ waker' = waker
    BY <1>6 DEF Take
  <2>2. fibers \in Seq(Entries)
    BY <1>1 DEF TypeOK
  <2>3. \A j \in DOMAIN fibers' :
          \E m \in DOMAIN fibers \ {i} : fibers'[j] = fibers[m]
    BY <2>1, <2>2, ErasePlaces
  <2>4. \A v \in Workers : ft'[v] = IF v = w THEN fibers[i] ELSE ft[v]
    BY <1>1, <2>1 DEF TypeOK
  <2> QED
    BY <2>1, <2>3, <2>4 DEF PinInv, Takeable
<1>7. ASSUME NEW w \in Workers, BodyArm(w) PROVE PinInv'
  BY <1>1, <1>7 DEF BodyArm, PinInv, TypeOK, workerVars
<1>8. ASSUME NEW w \in Workers, Resume(w) PROVE PinInv'
  BY <1>1, <1>8 DEF Resume, PinInv, TypeOK
<1>9. ASSUME UNCHANGED <<fibers, ft, waker>> PROVE PinInv'
  BY <1>9 DEF PinInv
<1>10. ASSUME NEW w \in Workers, UNCHANGED <<fibers, waker>>,
              ft' = [ft EXCEPT ![w] = EmptyEntry]
       PROVE  PinInv'
  BY <1>1, <1>10 DEF PinInv, TypeOK
<1>11. ASSUME NEW w \in Workers, Run(w) PROVE PinInv'
  BY <1>4, <1>6, <1>8, <1>9, <1>10, <1>11
  DEF Run, TakeNothing, StartCallback, Discard, Exit, GoIdle, IdleTurn, Return, Settle
<1>12. ASSUME NEW w \in Workers, Body(w) PROVE PinInv'
  BY <1>3, <1>7, <1>9, <1>12
  DEF Body, BodySchedule, YieldToHold, YieldToReady, End, workerVars
<1>13. CASE UNCHANGED vars \/ Start \/ StopAuto \/ StopSet \/ Join \/ CallerDone
  BY <1>9, <1>13 DEF vars, Start, StopAuto, StopSet, Join, CallerDone, workerVars
<1>14. ASSUME NEW u \in Tasks, CallerSchedule(u) PROVE PinInv'
  BY <1>3, <1>14 DEF CallerSchedule, workerVars
<1> QED
  BY <1>5, <1>11, <1>12, <1>13, <1>14 DEF Next

\* A task is run by the thread it was submitted for, also when it comes back
\* from YieldToReady; only waking a fiber from hold drops the thread.
THEOREM PinnedTasksStay == Spec => []PinnedStaysHome
<1>1. TInv /\ PinInv => PinnedStaysHome
  <2> SUFFICES ASSUME TInv, PinInv, NEW w \in Workers, OnStack(w),
                      Pin[ft[w].task] # AnyThread, ft[w].task \notin HoldTasks
               PROVE  Pin[ft[w].task] = w
    BY DEF PinnedStaysHome
  <2>1. ft[w].kind # "none"
    BY EntryFacts DEF TInv, Loaded, OnStack, InBody
  <2> QED
    BY <2>1 DEF PinInv
<1> QED
  BY <1>1, TInvInit, TInvStep, PinInvInit, PinInvStep, PTL DEF Spec

-----------------------------------------------------------------------------
(* What stop() guarantees, for any pool with a thread in it, when only     *)
(* callbacks that neither yield nor hold are scheduled.  (With fibers the  *)
(* counter that stop() relies on goes wrong: see ActiveExact.)             *)

CallbacksOnly == FiberTasks = {} /\ ReadyTasks = {} /\ HoldTasks = {}

\* The threads counted by active_threads_count_.
Busy == {w \in Workers :
           pc[w] \in {"dispatch", "run", "swapOut"} /\ ft[w].kind # "none"}

\* Every entry is a callback nobody yields from or wakes, and is_activate says
\* whether its thread is counted.
CallbackInv ==
  /\ \A i \in DOMAIN fibers : fibers[i].kind = "cb"
  /\ \A w \in Workers : ft[w].kind # "fiber" /\ (isActivate[w] <=> w \in Busy)
  /\ \A t \in Tasks : waker[t] = "no" /\ fstate[t] # "READY"
  /\ active = Cardinality(Busy)

\* While stop() waits, a thread that left its loop, or is about to, has seen
\* the queue empty and no thread busy, and it stays so.
DrainInv ==
  /\ callerPc \in {"stopping", "joining"} => autoStop
  /\ callerPc \in {"running", "stopping"} => ~stopping
  /\ callerPc \notin {"created", "joining", "stopped"} =>
       \A w \in Workers : idleState[w] # "TERM" /\ pc[w] # "exited"
  /\ callerPc = "joining" =>
       /\ \A w \in Workers : pc[w] = "exited" => idleState[w] = "TERM"
       /\ (\E w \in Workers : idleState[w] = "TERM") => fibers = <<>> /\ Busy = {}

LEMMA BusyFacts ==
  /\ IsFiniteSet(Busy)
  /\ Cardinality(Busy) \in Nat
  /\ Cardinality(Busy) <= IntMax
  /\ Busy \subseteq Workers
<1>1. Busy \subseteq Workers
  BY DEF Busy
<1>2. IsFiniteSet(Busy) /\ Cardinality(Busy) <= Cardinality(Workers)
  BY <1>1, FS_Subset, SchedulerAssumption DEF SchedulerAssumption
<1>3. Cardinality(Busy) \in Nat /\ Cardinality(Workers) \in Nat
  BY <1>2, FS_CardinalityType, SchedulerAssumption DEF SchedulerAssumption
<1> QED
  BY <1>1, <1>2, <1>3, SchedulerAssumption DEF SchedulerAssumption

LEMMA CallbackInit == Init => CallbackInv /\ DrainInv
<1> SUFFICES ASSUME Init PROVE CallbackInv /\ DrainInv
  OBVIOUS
<1>1. Busy = {}
  BY DEF Init, Busy
<1>2. CallbackInv
  BY <1>1, FS_EmptySet DEF Init, CallbackInv, EmptyEntry
<1>3. DrainInv
  BY DEF Init, DrainInv
<1> QED
  BY <1>2, <1>3

\* One thread starts or stops being counted, in step with the counter.
LEMMA BusyJoins ==
  ASSUME TypeOK, TypeOK', active = Cardinality(Busy),
         NEW w \in Workers, w \notin Busy, Busy' = Busy \cup {w},
         active' = Inc(active)
  PROVE  active' = Cardinality(Busy')
<1>1. Cardinality(Busy') = Cardinality(Busy) + 1
  BY BusyFacts, FS_AddElement
<1>2. Busy' \subseteq Workers
  BY BusyFacts
<1>3. Cardinality(Busy') <= Cardinality(Workers) /\ Cardinality(Workers) \in Nat
  BY <1>2, FS_Subset, FS_CardinalityType, SchedulerAssumption
  DEF SchedulerAssumption
<1> QED
  BY <1>1, <1>3, BusyFacts, SchedulerAssumption DEF Inc, SchedulerAssumption

LEMMA BusyLeaves ==
  ASSUME TypeOK, active = Cardinality(Busy),
         NEW w \in Busy, Busy' = Busy \ {w},
         active' = Dec(active)
  PROVE  active' = Cardinality(Busy')
<1>1. Cardinality(Busy') = Cardinality(Busy) - 1
  BY BusyFacts, FS_RemoveElement
<1> QED
  BY <1>1, BusyFacts, SchedulerAssumption DEF Dec, SchedulerAssumption

LEMMA CallbackStep ==
  ASSUME CallbacksOnly, TInv, TInv', JInv, CallbackInv, DrainInv, [Next]_vars
  PROVE  CallbackInv' /\ DrainInv'
<1> USE DEF InBody
<1>1. /\ TypeOK /\ TypeOK' /\ Loaded
      /\ HolderOK
      /\ EmptyEntry.kind = "none"
      /\ FiberTasks = {} /\ ReadyTasks = {} /\ HoldTasks = {}
  BY DEF TInv, JInv, CallbacksOnly, EmptyEntry
<1>2. /\ \A w \in Workers : pc[w] \in InBody => ft[w].kind # "none" /\ ft[w].task \in Tasks
      /\ \A w \in Workers : ft[w].kind # "none" => ft[w] \in Entries /\ ft[w].task \in Tasks
  BY <1>1, TaskFacts, EntryFacts DEF Loaded
<1>3. \A w \in Workers : pc[w] \in {"run", "swapOut"} => w \in Busy
  BY <1>2 DEF Busy
\* Steps that queue a task: it is a callback, and stop() is not waiting.
<1>4. ASSUME NEW u \in Tasks, Schedule(u),
             UNCHANGED <<active, autoStop, stopping, fstate, workerVars,
                         callerVars, waker>>,
             callerPc = "joining" => Busy # {}
      PROVE  CallbackInv' /\ DrainInv'
  <2> DEFINE e == [kind |-> "cb", task |-> u, thread |-> Pin[u]]
  <2>1. e \in Entries /\ fibers' = Append(fibers, e) /\ fibers \in Seq(Entries)
    BY <1>1, <1>4, EntryFacts, PinFacts DEF Schedule, Enqueue, TypeOK
  <2>2. e.kind = "cb"
    OBVIOUS
  <2> HIDE DEF e
  <2>3. \A i \in DOMAIN fibers' : fibers'[i].kind = "cb"
    BY <2>1, <2>2, AppendPlaces DEF CallbackInv
  <2>4. Busy' = Busy
    BY <1>4 DEF Busy, workerVars
  <2>5. CallbackInv'
    BY <1>4, <2>3, <2>4 DEF CallbackInv, workerVars
  <2>6. DrainInv'
    BY <1>4, <2>4 DEF DrainInv, workerVars, callerVars
  <2> QED
    BY <2>5, <2>6
<1>5. ASSUME NEW w \in Workers, Take(w) PROVE CallbackInv' /\ DrainInv'
  <2>1. PICK i \in DOMAIN fibers :
          /\ ft' = [ft EXCEPT ![w] = fibers[i]]
          /\ fibers' = RemoveAt(fibers, i)
    BY <1>5 DEF Take
  <2>2. /\ pc[w] = "scan"
        /\ \A v \in Workers : pc'[v] = IF v = w THEN "dispatch" ELSE pc[v]
        /\ \A v \in Workers : ft'[v] = IF v = w THEN fibers[i] ELSE ft[v]
        /\ \A v \in Workers : isActivate'[v] = IF v = w THEN TRUE ELSE isActivate[v]
        /\ active' = Inc(active)
        /\ fibers # <<>>
        /\ fibers[i].kind = "cb"
        /\ UNCHANGED <<autoStop, stopping, fstate, idleState, callerPc, waker>>
    BY <1>1, <1>5, <2>1 DEF Take, At, TypeOK, CallbackInv, callerVars
  <2>3. \A j \in DOMAIN fibers' : fibers'[j].kind = "cb"
    <3>1. fibers \in Seq(Entries)
      BY <1>1 DEF TypeOK
    <3> QED
      BY <2>1, <3>1, ErasePlaces DEF CallbackInv
  <2>4. w \notin Busy /\ Busy' = Busy \cup {w}
    BY <2>2 DEF Busy
  <2>5. active' = Cardinality(Busy')
    BY <1>1, <2>2, <2>4, BusyJoins DEF CallbackInv
  <2>6. CallbackInv'
    <3>1. \A v \in Workers : ft'[v].kind # "fiber" /\ (isActivate'[v] <=> v \in Busy')
      BY <2>2, <2>4, ZenonT(40) DEF CallbackInv
    <3>2. \A t \in Tasks : waker'[t] = "no" /\ fstate'[t] # "READY"
      BY <2>2 DEF CallbackInv
    <3> QED
      BY <2>3, <2>5, <3>1, <3>2 DEF CallbackInv
  <2>7. DrainInv'
    BY <2>2 DEF DrainInv
  <2> QED
    BY <2>6, <2>7
<1>6. ASSUME NEW w \in Workers, Return(w) PROVE CallbackInv' /\ DrainInv'
  <2>0. ft[w].kind = "cb"
    BY <1>1, <1>2, <1>6, EntryFacts DEF Return, At, CallbackInv
  <2>1. /\ pc[w] = "swapOut"
        /\ w \in Busy
        /\ ft[w].kind = "cb"
        /\ \A v \in Workers : pc'[v] = IF v = w THEN "settle" ELSE pc[v]
        /\ \A v \in Workers : isActivate'[v] = IF v = w THEN FALSE ELSE isActivate[v]
        /\ active' = Dec(active)
        /\ UNCHANGED <<fibers, autoStop, stopping, fstate, ft, idleState, callerPc,
                       waker>>
    BY <1>1, <1>3, <1>6, <2>0, ZenonT(40) DEF Return, At, TypeOK, callerVars
  <2>2. Busy' = Busy \ {w}
    BY <2>1 DEF Busy
  <2>3. active' = Cardinality(Busy')
    BY <1>1, <2>1, <2>2, BusyLeaves DEF CallbackInv
  <2>4. CallbackInv'
    BY <2>1, <2>2, <2>3 DEF CallbackInv
  <2>5. DrainInv'
    BY <2>1, <2>2 DEF DrainInv
  <2> QED
    BY <2>4, <2>5
<1>7. ASSUME NEW w \in Workers, IdleTurn(w) PROVE CallbackInv' /\ DrainInv'
  <2>1. /\ pc[w] = "idle"
        /\ \A v \in Workers : pc'[v] = IF v = w THEN "scan" ELSE pc[v]
        /\ \A v \in Workers : idleState'[v] =
             IF v = w THEN (IF Stopping THEN "TERM" ELSE "EXEC") ELSE idleState[v]
        /\ UNCHANGED <<fibers, active, autoStop, stopping, fstate, ft, isActivate,
                       callerPc, waker>>
    BY <1>1, <1>7 DEF IdleTurn, At, TypeOK, callerVars
  <2>2. Busy' = Busy
    BY <2>1 DEF Busy
  <2>3. CallbackInv'
    BY <2>1, <2>2 DEF CallbackInv
  <2>4. Stopping => fibers = <<>> /\ Busy = {}
    BY BusyFacts, FS_EmptySet DEF Stopping, CallbackInv
  <2>5. Stopping => callerPc \notin {"running", "stopping"}
    BY DEF Stopping, DrainInv
  <2>6. callerPc \notin {"created", "stopped"}
    BY <1>1, <2>1 DEF Loaded
  <2>7. DrainInv'
    BY <1>1, <2>1, <2>2, <2>4, <2>5, <2>6 DEF DrainInv, TypeOK
  <2> QED
    BY <2>3, <2>7
\* Steps of a thread that change neither who is counted nor the queue.
<1>8. ASSUME NEW w \in Workers, Run(w), ~Take(w), ~Return(w), ~IdleTurn(w)
      PROVE  CallbackInv' /\ DrainInv'
  <2>1. ~Resume(w) /\ ~Discard(w) /\ ~Requeue(w)
    <3>1. ~Resume(w)
      BY DEF Resume, CallbackInv
    <3>2. ~Discard(w)
      BY DEF Discard, NothingToRun, CallbackInv, Busy
    <3>3. ~Requeue(w)
      BY <1>1, <1>2 DEF Requeue, At, CallbackInv
    <3> QED
      BY <3>1, <3>2, <3>3
  <2>2. CASE TakeNothing(w)
    <3>1. Busy' = Busy
      BY <1>1, <2>2 DEF TakeNothing, At, TypeOK, Busy, Loaded
    <3> QED
      BY <1>1, <2>2, <3>1 DEF TakeNothing, At, TypeOK, CallbackInv, DrainInv, callerVars
  <2>3. CASE StartCallback(w)
    <3>1. Busy' = Busy
      BY <1>1, <2>3 DEF StartCallback, At, TypeOK, Busy
    <3> QED
      BY <1>1, <1>2, <2>3, <3>1
      DEF StartCallback, At, TypeOK, CallbackInv, DrainInv, callerVars
  <2>4. CASE Exit(w)
    <3>1. Busy' = Busy
      BY <1>1, <2>4 DEF Exit, NothingToRun, At, TypeOK, Busy, CallbackInv
    <3> QED
      BY <1>1, <2>4, <3>1 DEF Exit, At, TypeOK, CallbackInv, DrainInv, callerVars
  <2>5. CASE GoIdle(w)
    <3>1. Busy' = Busy
      BY <1>1, <2>5 DEF GoIdle, NothingToRun, At, TypeOK, Busy, CallbackInv
    <3> QED
      BY <1>1, <2>5, <3>1 DEF GoIdle, At, TypeOK, CallbackInv, DrainInv, callerVars
  <2>6. CASE Settle(w)
    <3>1. Busy' = Busy
      BY <1>1, <2>6 DEF Settle, At, TypeOK, Busy
    <3> QED
      BY <1>1, <1>2, <2>6, <3>1
      DEF Settle, At, TypeOK, CallbackInv, DrainInv, callerVars
  <2> QED
    BY <1>8, <2>1, <2>2, <2>3, <2>4, <2>5, <2>6 DEF Run
<1>9. ASSUME NEW w \in Workers, Body(w) PROVE CallbackInv' /\ DrainInv'
  <2>1. ~BodyArm(w) /\ ~YieldToReady(w) /\ ~YieldToHold(w)
    BY <1>1, <1>2 DEF BodyArm, YieldToReady, YieldToHold, At, CallbackInv
  <2>2. ASSUME NEW u \in Tasks, BodySchedule(w, u) PROVE CallbackInv' /\ DrainInv'
    BY <1>3, <1>4, <2>2 DEF BodySchedule
  <2>3. CASE End(w)
    <3>1. Busy' = Busy
      BY <1>1, <2>3 DEF End, At, TypeOK, Busy
    <3>2. \A u \in Tasks : fstate'[u] # "READY"
      BY <1>1, <2>3 DEF End, TypeOK, CallbackInv, Dead
    <3> QED
      BY <1>1, <2>3, <3>1, <3>2 DEF End, At, TypeOK, CallbackInv, DrainInv, callerVars
  <2> QED
    BY <1>9, <2>1, <2>2, <2>3 DEF Body
<1>10. CASE Start
  <2>1. Busy = {} /\ Busy' = {}
    BY <1>1, <1>10 DEF Start, Loaded, Busy
  <2> QED
    BY <1>1, <1>10, <2>1 DEF Start, Loaded, CallbackInv, DrainInv
<1>11. CASE StopAuto \/ StopSet \/ Join
  <2>1. Busy' = Busy
    BY <1>11 DEF StopAuto, StopSet, Join, Busy, workerVars
  <2>2. CallbackInv'
    BY <1>11, <2>1 DEF StopAuto, StopSet, Join, CallbackInv, workerVars
  <2>3. CASE StopAuto
    BY <2>1, <2>2, <2>3 DEF StopAuto, DrainInv, workerVars
  <2>4. CASE StopSet
    BY <2>1, <2>2, <2>4 DEF StopSet, DrainInv, workerVars
  <2>5. CASE Join
    BY <2>1, <2>2, <2>5 DEF Join, DrainInv, workerVars
  <2> QED
    BY <1>11, <2>3, <2>4, <2>5
<1>12. CASE CallerDone \/ UNCHANGED vars
  <2>1. Busy' = Busy
    BY <1>12 DEF CallerDone, vars, Busy, workerVars
  <2> QED
    BY <1>12, <2>1
    DEF CallerDone, vars, CallbackInv, DrainInv, workerVars, callerVars
<1>13. ASSUME NEW u \in Tasks, CallerSchedule(u) PROVE CallbackInv' /\ DrainInv'
  BY <1>4, <1>13 DEF CallerSchedule
<1>14. ASSUME NEW u \in Tasks, Wake(u) PROVE CallbackInv' /\ DrainInv'
  BY <1>14 DEF Wake, CallbackInv
<1> QED
  BY <1>5, <1>6, <1>7, <1>8, <1>9, <1>10, <1>11, <1>12, <1>13, <1>14 DEF Next

LEMMA CallbackAlways ==
  ASSUME CallbacksOnly
  PROVE  Spec => [](TInv /\ JInv /\ CallbackInv /\ DrainInv)
<1>1. TInv /\ JInv /\ CallbackInv /\ DrainInv /\ [Next]_vars
        => (TInv /\ JInv /\ CallbackInv /\ DrainInv)'
  BY TInvStep, JInvStep, CallbackStep
<1> QED
  BY <1>1, TInvInit, JInvInit, CallbackInit, PTL DEF Spec

\* active_threads_count_ is exactly the number of threads between taking a
\* callback and coming back from it, so stopping() sees 0 only when none is.
THEOREM ActiveIsExact == ASSUME CallbacksOnly PROVE Spec => []ActiveExact
<1>1. CallbackInv => ActiveExact
  BY DEF CallbackInv, ActiveExact, Busy
<1> QED
  BY <1>1, CallbackAlways, PTL

\* A thread that is about to leave run() leaves no task behind.
THEOREM ExitIsQuiescent == ASSUME CallbacksOnly PROVE Spec => []QuiescentExit
<1>1. TInv /\ CallbackInv /\ DrainInv => QuiescentExit
  <2> SUFFICES ASSUME TInv, CallbackInv, DrainInv, callerPc = "joining",
                      \E w \in Workers : idleState[w] = "TERM"
               PROVE  fibers = <<>> /\ \A w \in Workers : ~OnStack(w)
    BY DEF QuiescentExit
  <2>1. fibers = <<>> /\ Busy = {}
    BY DEF DrainInv
  <2>2. \A w \in Workers : OnStack(w) => w \in Busy
    BY EntryFacts DEF TInv, Loaded, OnStack, InBody, Busy
  <2> QED
    BY <2>1, <2>2
<1> QED
  BY <1>1, CallbackAlways, PTL

\* stop() joins every thread only after every callback ever scheduled has run
\* to its end, if the pool has a thread at all.
THEOREM StopIsDraining ==
  ASSUME CallbacksOnly, Workers # {}
  PROVE  Spec => StopDrains
<1>1. TInv /\ JInv /\ CallbackInv /\ DrainInv /\ [Next]_vars
        => [Join => \A t \in submitted : fstate[t] \in Dead]_vars
  <2> SUFFICES ASSUME TInv, JInv, CallbackInv, DrainInv, Join,
                      NEW t \in submitted
               PROVE  fstate[t] \in Dead
    OBVIOUS
  <2>1. callerPc = "joining" /\ \A w \in Workers : pc[w] = "exited"
    BY DEF Join
  <2>2. fibers = <<>>
    BY <2>1 DEF DrainInv
  <2>3. ~Queued(t)
    BY <2>2 DEF Queued
  <2>4. waker[t] # "armed"
    BY DEF CallbackInv, TInv, TypeOK
  <2>5. \A w \in Workers : ~Holds(w, t)
    BY <2>1 DEF Holds
  <2> QED
    BY <2>3, <2>4, <2>5 DEF JInv, NoLostWakeup
<1> QED
  BY <1>1, CallbackAlways, PTL DEF Spec, StopDrains

-----------------------------------------------------------------------------
(* Scheduler implements TaskPool, for any pool and any tasks: whatever     *)
(* run(), the fibers and the wakeups do, a task waits, is run by one       *)
(* thread it may run on, and is waited for or done.                        *)

\* A task somebody may still run or wake.
Live(t) == t \in submitted /\ fstate[t] \notin Dead

\* PoolStatus and PoolRunner, said without IF and CHOOSE: a live task has at
\* most one holder, so the choice in PoolRunner is none.
MappingOK ==
  \A t \in Tasks :
    /\ t \notin submitted => PoolStatus(t) = "new"
    /\ t \in submitted /\ fstate[t] \in Dead => PoolStatus(t) = "done"
    /\ ~Live(t) => PoolRunner(t) = NoTask
    /\ \A w \in Workers :
         Live(t) /\ Holds(w, t) => PoolStatus(t) = "running" /\ PoolRunner(t) = w
    /\ Live(t) /\ (\A w \in Workers : ~Holds(w, t)) =>
         /\ PoolStatus(t) = IF Queued(t) THEN "ready" ELSE "blocked"
         /\ PoolRunner(t) = NoTask

LEMMA Mapping == TInv /\ JInv => MappingOK
<1> SUFFICES ASSUME TInv, JInv, NEW t \in Tasks
             PROVE  /\ t \notin submitted => PoolStatus(t) = "new"
                    /\ t \in submitted /\ fstate[t] \in Dead => PoolStatus(t) = "done"
                    /\ ~Live(t) => PoolRunner(t) = NoTask
                    /\ \A w \in Workers :
                         Live(t) /\ Holds(w, t) =>
                           PoolStatus(t) = "running" /\ PoolRunner(t) = w
                    /\ Live(t) /\ (\A w \in Workers : ~Holds(w, t)) =>
                         /\ PoolStatus(t) = IF Queued(t) THEN "ready" ELSE "blocked"
                         /\ PoolRunner(t) = NoTask
  BY DEF MappingOK
<1>1. t \notin submitted => PoolStatus(t) = "new"
  BY DEF PoolStatus
<1>2. t \in submitted /\ fstate[t] \in Dead => PoolStatus(t) = "done"
  BY DEF PoolStatus
<1>3. ~Live(t) => PoolRunner(t) = NoTask
  BY <1>1, <1>2 DEF Live, PoolRunner
<1>4. ASSUME NEW w \in Workers, Live(t), Holds(w, t)
      PROVE  PoolStatus(t) = "running" /\ PoolRunner(t) = w
  <2>1. PoolStatus(t) = "running"
    BY <1>4 DEF PoolStatus, Live
  <2>2. ASSUME NEW v \in Workers, Holds(v, t) PROVE v = w
    <3>1. /\ ft[v].kind # "none" /\ ft[v].task = t
          /\ ft[w].kind # "none" /\ ft[w].task = t
      BY <1>4, <2>2, TaskFacts DEF TInv, Holds
    <3> QED
      BY <1>4, <2>2, <3>1 DEF JInv, HoldersApart, Holds, Live, InBody
  <2>3. (CHOOSE v \in Workers : Holds(v, t)) = w
    BY <1>4, <2>2
  <2> QED
    BY <2>1, <2>3 DEF PoolRunner
<1>5. ASSUME Live(t), \A w \in Workers : ~Holds(w, t)
      PROVE  /\ PoolStatus(t) = IF Queued(t) THEN "ready" ELSE "blocked"
             /\ PoolRunner(t) = NoTask
  <2>1. PoolStatus(t) = IF Queued(t) THEN "ready" ELSE "blocked"
    BY <1>5 DEF PoolStatus, Live
  <2> QED
    BY <2>1 DEF PoolRunner
<1> QED
  BY <1>1, <1>2, <1>3, <1>4, <1>5

\* No step of the pool for the tasks whose status and runner stay.
Same(t) == PoolStatus(t)' = PoolStatus(t) /\ PoolRunner(t)' = PoolRunner(t)

LEMMA SameIfUntouched ==
  ASSUME MappingOK, MappingOK', NEW t \in Tasks,
         t \in submitted' <=> t \in submitted,
         fstate'[t] \in Dead <=> fstate[t] \in Dead,
         Live(t) => /\ \A w \in Workers : Holds(w, t)' <=> Holds(w, t)
                    /\ (\A w \in Workers : ~Holds(w, t)) => (Queued(t)' <=> Queued(t))
  PROVE  Same(t)
<1>1. Live(t)' <=> Live(t)
  BY DEF Live
<1>2. CASE ~Live(t)
  BY <1>1, <1>2 DEF MappingOK, Live, Same
<1>3. CASE Live(t) /\ \E w \in Workers : Holds(w, t)
  <2>1. PICK w \in Workers : Holds(w, t)
    BY <1>3
  <2>2. Holds(w, t)' /\ Live(t)'
    BY <1>1, <1>3, <2>1
  <2> QED
    BY <1>3, <2>1, <2>2 DEF MappingOK, Same
<1>4. CASE Live(t) /\ \A w \in Workers : ~Holds(w, t)
  <2>1. Live(t)' /\ (\A w \in Workers : ~Holds(w, t)') /\ (Queued(t)' <=> Queued(t))
    BY <1>1, <1>4
  <2> QED
    BY <1>4, <2>1 DEF MappingOK, Same
<1> QED
  BY <1>2, <1>3, <1>4

\* One task moves in the pool, the others stay.
LEMMA OneMoves ==
  ASSUME NEW u \in Tasks, \A t \in Tasks : t # u => Same(t),
         NEW from, NEW to, PoolStatus(u) = from, PoolStatus(u)' = to
  PROVE  /\ Pool!Becomes(u, from, to)
         /\ PoolRunner(u)' = PoolRunner(u) =>
              [t \in Tasks |-> PoolRunner(t)]' = [t \in Tasks |-> PoolRunner(t)]
         /\ \A r : PoolRunner(u)' = r =>
              [t \in Tasks |-> PoolRunner(t)]'
                = [[t \in Tasks |-> PoolRunner(t)] EXCEPT ![u] = r]
<1>1. Pool!Becomes(u, from, to)
  BY DEF Pool!Becomes, Same
<1>2. PoolRunner(u)' = PoolRunner(u) =>
        [t \in Tasks |-> PoolRunner(t)]' = [t \in Tasks |-> PoolRunner(t)]
  BY DEF Same
<1>3. \A r : PoolRunner(u)' = r =>
        [t \in Tasks |-> PoolRunner(t)]'
          = [[t \in Tasks |-> PoolRunner(t)] EXCEPT ![u] = r]
  BY DEF Same
<1> QED
  BY <1>1, <1>2, <1>3

LEMMA AllSame ==
  ASSUME \A t \in Tasks : Same(t)
  PROVE  UNCHANGED Pool!poolVars
BY DEF Same, Pool!poolVars

LEMMA PoolSubmit ==
  ASSUME NEW u \in Tasks, \A t \in Tasks : t # u => Same(t),
         PoolStatus(u) = "new", PoolStatus(u)' = "ready",
         PoolRunner(u)' = PoolRunner(u)
  PROVE  Pool!Next
BY OneMoves DEF Pool!Next, Pool!Submit

LEMMA PoolWake ==
  ASSUME NEW u \in Tasks, \A t \in Tasks : t # u => Same(t),
         PoolStatus(u) = "blocked", PoolStatus(u)' = "ready",
         PoolRunner(u)' = PoolRunner(u)
  PROVE  Pool!Next
BY OneMoves DEF Pool!Next, Pool!Wake

LEMMA PoolLeave ==
  ASSUME NEW u \in Tasks, \A t \in Tasks : t # u => Same(t),
         PoolStatus(u) = "running", PoolStatus(u)' \in {"done", "ready", "blocked"},
         PoolRunner(u)' = NoTask
  PROVE  Pool!Next
BY OneMoves DEF Pool!Next, Pool!Leave

LEMMA PoolDispatch ==
  ASSUME NEW u \in Tasks, \A t \in Tasks : t # u => Same(t),
         PoolStatus(u) = "ready", PoolStatus(u)' = "running",
         NEW w \in Workers, PoolRunner(u)' = w,
         \A t \in Tasks : PoolRunner(t) # w,
         u \in HoldTasks \/ Pin[u] = AnyThread \/ Pin[u] = w
  PROVE  Pool!Next
BY OneMoves DEF Pool!Next, Pool!Dispatch

\* What push_back and erase do to the tasks in the queue.
LEMMA EnqueueQueues ==
  ASSUME TypeOK, NEW k \in {"cb", "fiber"}, NEW u \in Tasks, NEW th \in Threads,
         Enqueue(k, u, th)
  PROVE  \A t \in Tasks : Queued(t)' <=> Queued(t) \/ t = u
<1> DEFINE e == [kind |-> k, task |-> u, thread |-> th]
<1>1. e \in Entries /\ fibers' = Append(fibers, e) /\ fibers \in Seq(Entries)
  BY EntryFacts DEF Enqueue, TypeOK
<1>2. e.task = u
  OBVIOUS
<1> HIDE DEF e
<1>3. PICK last :
        /\ DOMAIN fibers' = DOMAIN fibers \cup {last}
        /\ \A i \in DOMAIN fibers : fibers'[i] = fibers[i]
        /\ fibers'[last] = e
  BY <1>1, AppendPlaces
<1> QED
  BY <1>2, <1>3 DEF Queued

\* Steps that leave every task where it is.
LEMMA Untouched ==
  ASSUME MappingOK, MappingOK',
         \A t \in Tasks :
           /\ t \in submitted' <=> t \in submitted
           /\ fstate'[t] \in Dead <=> fstate[t] \in Dead
           /\ Live(t) => /\ \A w \in Workers : Holds(w, t)' <=> Holds(w, t)
                         /\ (\A w \in Workers : ~Holds(w, t)) =>
                              (Queued(t)' <=> Queued(t))
  PROVE  UNCHANGED Pool!poolVars
BY SameIfUntouched, AllSame

LEMMA PoolStep ==
  ASSUME MappingOK, MappingOK', TInv, TInv', JInv, JInv', PinInv, [Next]_vars
  PROVE  [Pool!Next]_Pool!poolVars
<1> DEFINE Goal == [Pool!Next]_Pool!poolVars
<1> HIDE DEF Goal
<1> SUFFICES Goal
  BY DEF Goal
<1> USE DEF InBody
<1>1. /\ TypeOK /\ Loaded /\ QueueOK /\ HolderOK /\ HoldersApart /\ WakerOK
      /\ \A w \in Workers : ft[w].kind # "none" <=> ft[w].task \in Tasks
      /\ \A i \in DOMAIN fibers : fibers[i] \in Entries /\ fibers[i].task \in Tasks
      /\ submitted \subseteq Tasks
      /\ "NONE" \notin Dead /\ "READY" \notin Dead /\ "EXEC" \notin Dead
      /\ "HOLD" \notin Dead /\ "INIT" \notin Dead
      /\ EmptyEntry.task \notin Tasks
  <2>1. "INIT" \notin Dead /\ EmptyEntry.task \notin Tasks
    BY SchedulerAssumption DEF Dead, EmptyEntry, SchedulerAssumption
  <2> QED
    BY <2>1, TaskFacts DEF TInv, JInv
<1>2. ASSUME Pool!Next \/ UNCHANGED Pool!poolVars PROVE Goal
  BY <1>2 DEF Goal
\* A task is submitted.
<1>3. ASSUME NEW u \in Tasks, Schedule(u), UNCHANGED <<fstate, pc, ft>> PROVE Goal
  <2>1. /\ u \notin submitted /\ submitted' = submitted \cup {u}
        /\ fstate[u] \notin Dead
        /\ \A w \in Workers : ~Holds(w, u)
    BY <1>1, <1>3 DEF Schedule, WakerOK, HolderOK, Holds
  <2>2. \A t \in Tasks : Queued(t)' <=> Queued(t) \/ t = u
    BY <1>1, <1>3, EnqueueQueues, PinFacts DEF Schedule
  <2>3. \A t \in Tasks, w \in Workers : Holds(w, t)' <=> Holds(w, t)
    BY <1>3 DEF Holds
  <2>4. \A t \in Tasks : t # u => Same(t)
    BY <1>3, <2>1, <2>2, <2>3, SameIfUntouched
  <2>5. PoolStatus(u) = "new" /\ PoolRunner(u) = NoTask
    BY <2>1 DEF MappingOK, Live
  <2>6. Live(u)' /\ Queued(u)' /\ \A w \in Workers : ~Holds(w, u)'
    BY <1>3, <2>1, <2>2, <2>3 DEF Live
  <2>7. PoolStatus(u)' = "ready" /\ PoolRunner(u)' = NoTask
    BY <2>6 DEF MappingOK
  <2> QED
    BY <1>2, <2>4, <2>5, <2>7, PoolSubmit
\* A worker takes a task from the queue.
<1>4. ASSUME NEW w \in Workers, Take(w) PROVE Goal
  <2>1. PICK i \in DOMAIN fibers :
          /\ Takeable(fibers[i], w)
          /\ ft' = [ft EXCEPT ![w] = fibers[i]]
          /\ fibers' = RemoveAt(fibers, i)
    BY <1>4 DEF Take
  <2>0. PICK u \in Tasks : u = fibers[i].task
    BY <1>1
  <2>2. /\ pc[w] = "scan" /\ pc' = [pc EXCEPT ![w] = "dispatch"]
        /\ u \in Tasks /\ u \in submitted /\ Queued(u)
        /\ UNCHANGED <<fstate, submitted, waker>>
    BY <1>1, <1>4, <2>0 DEF Take, At, QueueOK, Queued
  <2>3. \A t \in Tasks, v \in Workers :
          Holds(v, t)' <=> IF v = w THEN t = u ELSE Holds(v, t)
    BY <1>1, <2>0, <2>1, <2>2 DEF Holds, TypeOK
  <2>4. \A t \in Tasks : ~Holds(w, t)
    BY <2>2 DEF Holds
  <2>5. \A t \in Tasks : t # u => (Queued(t)' <=> Queued(t))
    <3>1. fibers \in Seq(Entries)
      BY <1>1 DEF TypeOK
    <3>2. /\ \A j \in DOMAIN fibers' :
               \E m \in DOMAIN fibers \ {i} : fibers'[j] = fibers[m]
          /\ \A m \in DOMAIN fibers \ {i} :
               \E j \in DOMAIN fibers' : fibers'[j] = fibers[m]
      BY <2>1, <3>1, ErasePlaces
    <3> QED
      BY <2>0, <3>2 DEF Queued
  <2>6. \A t \in Tasks : t # u => Same(t)
    <3> SUFFICES ASSUME NEW t \in Tasks, t # u PROVE Same(t)
      OBVIOUS
    <3>1. \A v \in Workers : Holds(v, t)' <=> Holds(v, t)
      BY <2>3, <2>4
    <3> QED
      BY <2>2, <2>5, <3>1, SameIfUntouched
  <2>7. CASE fstate[u] \in Dead
    <3>1. Same(u)
      BY <2>2, <2>7, SameIfUntouched DEF Live
    <3> QED
      BY <1>2, <2>6, <3>1, AllSame
  <2>8. CASE fstate[u] \notin Dead
    <3>1. \A v \in Workers : ~Holds(v, u)
      <4>1. u \in Tasks /\ (fibers[i].kind = "cb" => fstate[u] = "NONE")
            /\ (fibers[i].kind # "cb" => fibers[i].kind = "fiber")
        BY <1>1, <2>0, EntryFacts DEF QueueOK
      <4>2. fstate[u] # "EXEC"
        BY <2>0, <2>1, <4>1 DEF Takeable
      <4>3. \A v \in Workers : ft[v].task = u => pc[v] # "dispatch"
        BY <1>1, <2>0 DEF QueueOK
      <4>4. \A v \in Workers : ft[v].task = u /\ pc[v] \in InBody => waker[u] = "woken"
        BY <1>1, <2>0 DEF QueueOK
      <4> QED
        BY <1>1, <2>8, <4>2, <4>3, <4>4 DEF Holds, HolderOK
    <3>2. Live(u) /\ Live(u)' /\ Holds(w, u)'
      BY <2>2, <2>3, <2>8 DEF Live
    <3>3. PoolStatus(u) = "ready" /\ PoolStatus(u)' = "running" /\ PoolRunner(u)' = w
      BY <2>2, <3>1, <3>2 DEF MappingOK
    <3>4. \A t \in Tasks : PoolRunner(t) # w
      <4> SUFFICES ASSUME NEW t \in Tasks PROVE PoolRunner(t) # w
        OBVIOUS
      <4>1. CASE Live(t) /\ \E v \in Workers : Holds(v, t)
        BY <2>4, <4>1 DEF MappingOK
      <4>2. CASE ~(Live(t) /\ \E v \in Workers : Holds(v, t))
        BY <4>2, SchedulerAssumption DEF MappingOK, SchedulerAssumption
      <4> QED
        BY <4>1, <4>2
    <3>5. u \in HoldTasks \/ Pin[u] = AnyThread \/ Pin[u] = w
      BY <2>0, <2>1 DEF PinInv, Takeable
    <3> QED
      BY <1>2, <2>2, <2>6, <3>3, <3>4, <3>5, PoolDispatch
  <2> QED
    BY <2>7, <2>8
\* The body ends, or the fiber it left behind is queued or left to its waker.
<1>5. ASSUME NEW w \in Workers, End(w) PROVE Goal
  <2> DEFINE u == ft[w].task
  <2>1. PICK s \in Dead : fstate' = [fstate EXCEPT ![u] = s]
    BY <1>5 DEF End
  <2>2. /\ u \in Tasks /\ u \in submitted /\ fstate[u] = "EXEC"
        /\ pc[w] = "run" /\ pc' = [pc EXCEPT ![w] = "swapOut"]
        /\ UNCHANGED <<fibers, ft, submitted>>
    BY <1>1, <1>5 DEF End, At, HolderOK, Loaded, Entries
  <2>3. \A t \in Tasks, v \in Workers : Holds(v, t)' <=> Holds(v, t)
    BY <1>1, <2>2 DEF Holds, TypeOK
  <2>4. \A t \in Tasks : Queued(t)' <=> Queued(t)
    BY <2>2 DEF Queued
  <2>5. \A t \in Tasks : t # u => Same(t)
    <3>1. \A t \in Tasks : t # u => fstate'[t] = fstate[t]
      BY <1>1, <2>1 DEF TypeOK
    <3> QED
      BY <2>2, <2>3, <2>4, <3>1, SameIfUntouched
  <2>6. Live(u) /\ Holds(w, u) /\ u \in submitted' /\ fstate'[u] \in Dead
    BY <1>1, <2>1, <2>2 DEF Live, Holds, TypeOK
  <2>7. PoolStatus(u) = "running" /\ PoolStatus(u)' = "done" /\ PoolRunner(u)' = NoTask
    BY <2>2, <2>6 DEF MappingOK, Live
  <2> QED
    BY <1>2, <2>2, <2>5, <2>7, PoolLeave
<1>6. ASSUME NEW w \in Workers, Settle(w) \/ Requeue(w) PROVE Goal
  <2>0. PICK u \in Tasks : u = ft[w].task
    BY <1>1, <1>6, EntryFacts DEF Settle, Requeue, At, Loaded
  <2>1. /\ u \in submitted
        /\ pc[w] = "settle" /\ pc' = [pc EXCEPT ![w] = "scan"]
        /\ ft' = [ft EXCEPT ![w] = EmptyEntry]
        /\ ft[w].kind \in {"cb", "fiber"} /\ ft[w].thread \in Threads
        /\ UNCHANGED submitted
    BY <1>1, <1>6, <2>0, EntryFacts DEF Settle, Requeue, At, HolderOK, Loaded
  <2>2. \A t \in Tasks : fstate'[t] \in Dead <=> fstate[t] \in Dead
    BY <1>1, <1>6, <2>0, <2>1 DEF Settle, Requeue, TypeOK
  <2>3. \A t \in Tasks, v \in Workers :
          Holds(v, t)' <=> (v # w /\ Holds(v, t))
    BY <1>1, <2>1 DEF Holds, TypeOK
  <2>4. \A t \in Tasks : t # u => (Queued(t)' <=> Queued(t))
    <3>1. CASE Settle(w)
      BY <3>1 DEF Settle, Queued
    <3>2. CASE Requeue(w)
      BY <1>1, <2>0, <2>1, <3>2, EnqueueQueues DEF Requeue
    <3> QED
      BY <1>6, <3>1, <3>2
  <2>5. \A t \in Tasks : t # u => Same(t)
    <3> SUFFICES ASSUME NEW t \in Tasks, t # u PROVE Same(t)
      OBVIOUS
    <3>1. ~Holds(w, t)
      BY <2>0 DEF Holds
    <3>2. \A v \in Workers : Holds(v, t)' <=> Holds(v, t)
      BY <2>3, <3>1
    <3> QED
      BY <2>1, <2>2, <2>4, <3>2, SameIfUntouched
  <2>6. CASE fstate[u] \in Dead
    <3>1. Same(u)
      BY <2>1, <2>2, <2>6, SameIfUntouched DEF Live
    <3> QED
      BY <1>2, <2>5, <3>1, AllSame
  <2>7. CASE fstate[u] \notin Dead
    <3>1. Live(u) /\ Live(u)' /\ Holds(w, u)
      BY <2>0, <2>1, <2>2, <2>7 DEF Live, Holds
    <3>2. \A v \in Workers : ~Holds(v, u)'
      BY <1>1, <2>0, <2>1, <2>3, <2>7 DEF HoldersApart, Holds
    <3>3. PoolStatus(u) = "running"
      BY <2>1, <3>1 DEF MappingOK
    <3>4. PoolStatus(u)' \in {"ready", "blocked"} /\ PoolRunner(u)' = NoTask
      BY <2>1, <3>1, <3>2 DEF MappingOK
    <3> QED
      BY <1>2, <2>1, <2>5, <3>3, <3>4, PoolLeave
  <2> QED
    BY <2>6, <2>7
\* A waiting fiber is woken; one that has not switched out yet, or has ended,
\* is where it was.
<1>7. ASSUME NEW u \in Tasks, Wake(u) PROVE Goal
  <2>1. /\ waker[u] = "armed" /\ u \in submitted
        /\ UNCHANGED <<fstate, pc, ft, submitted>>
    BY <1>1, <1>7 DEF Wake, WakerOK, workerVars
  <2>2. \A t \in Tasks : Queued(t)' <=> Queued(t) \/ t = u
    BY <1>1, <1>7, EnqueueQueues, PinFacts DEF Wake
  <2>3. \A t \in Tasks, v \in Workers : Holds(v, t)' <=> Holds(v, t)
    BY <2>1 DEF Holds
  <2>4. \A t \in Tasks : t # u => Same(t)
    BY <2>1, <2>2, <2>3, SameIfUntouched
  <2>5. CASE fstate[u] \in Dead \/ \E v \in Workers : Holds(v, u)
    <3>1. Same(u)
      BY <2>1, <2>3, <2>5, SameIfUntouched DEF Live
    <3> QED
      BY <1>2, <2>4, <3>1, AllSame
  <2>6. CASE ~(fstate[u] \in Dead \/ \E v \in Workers : Holds(v, u))
    <3>1. ~Queued(u)
      BY <1>1, <2>1 DEF QueueOK, Queued
    <3>2. /\ Live(u) /\ Live(u)' /\ Queued(u)'
          /\ \A v \in Workers : ~Holds(v, u) /\ ~Holds(v, u)'
      BY <2>1, <2>2, <2>3, <2>6 DEF Live
    <3>3. /\ PoolStatus(u) = "blocked" /\ PoolStatus(u)' = "ready"
          /\ PoolRunner(u) = NoTask /\ PoolRunner(u)' = NoTask
      BY <3>1, <3>2 DEF MappingOK
    <3> QED
      BY <1>2, <2>4, <3>3, PoolWake
  <2> QED
    BY <2>5, <2>6
\* Every other step leaves the tasks where they are.
<1>8. ASSUME UNCHANGED <<fibers, submitted>>,
             \A t \in Tasks : fstate'[t] \in Dead <=> fstate[t] \in Dead,
             \A t \in Tasks, v \in Workers :
               Live(t) => (Holds(v, t)' <=> Holds(v, t))
      PROVE  Goal
  <2>1. \A t \in Tasks : Queued(t)' <=> Queued(t)
    BY <1>8 DEF Queued
  <2> QED
    BY <1>2, <1>8, <2>1, Untouched
<1>9. ASSUME NEW w \in Workers, Discard(w) \/ Exit(w) \/ GoIdle(w) PROVE Goal
  <2>1. /\ UNCHANGED <<fibers, fstate, submitted>>
        /\ ft' = [ft EXCEPT ![w] = EmptyEntry]
        /\ \E to \in {"scan", "exited", "idle"} : pc' = [pc EXCEPT ![w] = to]
        /\ \A t \in Tasks : Live(t) => ~Holds(w, t)
    BY <1>1, <1>9 DEF Discard, Exit, GoIdle, At, NothingToRun, Live, Holds
  <2>2. \A t \in Tasks, v \in Workers :
          Live(t) => (Holds(v, t)' <=> Holds(v, t))
    BY <1>1, <2>1 DEF Holds, TypeOK
  <2> QED
    BY <1>8, <2>1, <2>2
<1>10. ASSUME NEW w \in Workers, Resume(w) \/ StartCallback(w) PROVE Goal
  <2>1. /\ UNCHANGED <<fibers, ft, submitted>>
        /\ pc[w] = "dispatch" /\ pc' = [pc EXCEPT ![w] = "run"]
        /\ fstate' = [fstate EXCEPT ![ft[w].task] = "EXEC"]
        /\ fstate[ft[w].task] \notin Dead
    BY <1>1, <1>10, EntryFacts DEF Resume, StartCallback, At, HolderOK
  <2>2. \A t \in Tasks : fstate'[t] \in Dead <=> fstate[t] \in Dead
    BY <1>1, <2>1 DEF TypeOK
  <2>3. \A t \in Tasks, v \in Workers : Holds(v, t)' <=> Holds(v, t)
    BY <1>1, <2>1 DEF Holds, TypeOK
  <2> QED
    BY <1>8, <2>1, <2>2, <2>3
<1>11. ASSUME NEW w \in Workers,
              Return(w) \/ YieldToHold(w) \/ TakeNothing(w) \/ IdleTurn(w)
       PROVE  Goal
  <2>1. /\ UNCHANGED <<fibers, fstate, ft, submitted>>
        /\ \/ pc[w] \in {"swapOut", "run"} /\ \E to \in {"settle", "swapOut"} :
                                                pc' = [pc EXCEPT ![w] = to]
           \/ ft[w].task \notin Tasks /\ \E to \in {"dispatch", "scan"} :
                                           pc' = [pc EXCEPT ![w] = to]
    BY <1>1, <1>11 DEF Return, YieldToHold, TakeNothing, IdleTurn, At, Loaded
  <2>2. \A t \in Tasks, v \in Workers : Holds(v, t)' <=> Holds(v, t)
    BY <1>1, <2>1 DEF Holds, TypeOK
  <2> QED
    BY <1>8, <2>1, <2>2
<1>12. ASSUME NEW w \in Workers, YieldToReady(w) PROVE Goal
  <2>1. /\ UNCHANGED <<fibers, ft, submitted>>
        /\ pc[w] = "run" /\ pc' = [pc EXCEPT ![w] = "swapOut"]
        /\ fstate' = [fstate EXCEPT ![ft[w].task] = "READY"]
        /\ fstate[ft[w].task] = "EXEC"
    BY <1>1, <1>12 DEF YieldToReady, At, HolderOK
  <2>2. \A t \in Tasks : fstate'[t] \in Dead <=> fstate[t] \in Dead
    BY <1>1, <2>1 DEF TypeOK
  <2>3. \A t \in Tasks, v \in Workers : Holds(v, t)' <=> Holds(v, t)
    BY <1>1, <2>1 DEF Holds, TypeOK
  <2> QED
    BY <1>8, <2>1, <2>2, <2>3
<1>13. CASE Start
  <2>1. /\ UNCHANGED <<fibers, fstate, submitted>>
        /\ \A w \in Workers : pc[w] = "exited" /\ pc'[w] = "scan"
    BY <1>1, <1>13 DEF Start, Loaded
  <2>2. \A t \in Tasks, v \in Workers : ~Holds(v, t) /\ ~Holds(v, t)'
    BY <2>1 DEF Holds
  <2> QED
    BY <1>8, <2>1, <2>2
<1>14. ASSUME UNCHANGED <<fibers, fstate, pc, ft, submitted>> PROVE Goal
  BY <1>8, <1>14 DEF Holds
<1>15. ASSUME NEW w \in Workers, Run(w) PROVE Goal
  BY <1>4, <1>6, <1>9, <1>10, <1>11, <1>15 DEF Run
<1>16. ASSUME NEW w \in Workers, Body(w) PROVE Goal
  BY <1>3, <1>5, <1>11, <1>12, <1>14, <1>16 DEF Body, BodySchedule, BodyArm, workerVars
<1>17. CASE StopAuto \/ StopSet \/ Join \/ CallerDone \/ UNCHANGED vars
  BY <1>14, <1>17 DEF StopAuto, StopSet, Join, CallerDone, vars, workerVars
<1>18. ASSUME NEW u \in Tasks, CallerSchedule(u) PROVE Goal
  BY <1>3, <1>18 DEF CallerSchedule, workerVars
<1> QED
  BY <1>7, <1>13, <1>15, <1>16, <1>17, <1>18 DEF Next

\* Every behaviour of the scheduler is one of the pool it promises to be.
THEOREM SchedulerImplementsPool == Spec => ImplementsPool
<1>1. Init => Pool!Init
  BY DEF Init, Pool!Init, PoolStatus, PoolRunner
<1>2. TInv /\ JInv => MappingOK
  BY Mapping
<1>3. MappingOK /\ MappingOK' /\ TInv /\ TInv' /\ JInv /\ JInv' /\ PinInv /\ [Next]_vars
        => [Pool!Next]_Pool!poolVars
  BY PoolStep
<1> QED
  BY <1>1, <1>2, <1>3, JInvAlways, PinInvInit, PinInvStep, PTL
  DEF Spec, ImplementsPool, Pool!Spec
=============================================================================
