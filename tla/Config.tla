------------------------------- MODULE Config -------------------------------
(***************************************************************************)
(* sylar::Config and sylar::ConfigVar (sylar/config.h, config.cpp): the    *)
(* registry of configuration variables, their values, and the listeners    *)
(* that are told when a value changes.                                     *)
(*                                                                         *)
(* There are three kinds of mutex: the registry's (Config::mutex_), and    *)
(* per variable one for the value (val_mutex_) and one for the listeners   *)
(* (mutex_).  setVal holds the variable's val_mutex_ while it calls the    *)
(* listeners, and LoadFromYaml the registry's as well: what a listener     *)
(* does is part of the model (Does).  A critical section that calls        *)
(* nothing is one step.                                                    *)
(*                                                                         *)
(* A document is the list of names and values that LoadAllNumber makes of  *)
(* it; values are converted without error.  Several variables may have     *)
(* one type; they then share the counter from which keys are taken.        *)
(***************************************************************************)
EXTENDS Integers, FiniteSets, FiniteSetsExt, Sequences

CONSTANTS
  Threads,    \* the threads that use the configuration
  Names,      \* names of variables, as Lookup gets them
  Lower,      \* tolower on them
  Invalid,    \* the names that Lookup refuses
  Objects,    \* the ConfigVar objects that may be made
  Types,      \* the C++ types of variables
  Values,     \* the values, of any type
  Listeners,  \* the callbacks
  Does,       \* what a listener does: "return", "throw", "Lookup", or call getVal
              \* of its own variable ("getOwn") or of the others ("getOther")
  Document,   \* what LoadFromYaml finds: a sequence of names and values
  Default,    \* the value given to Lookup
  None        \* no object, thread or listener

ASSUME ConfigAssumption ==
  /\ Lower \in [Names -> Names]
  /\ Invalid \subseteq Names
  /\ Does \in [Listeners -> {"return", "throw", "Lookup", "getOwn", "getOther"}]
  /\ Document \in Seq(Names \X Values)
  /\ Default \in Values
  /\ IsFiniteSet(Listeners)
  /\ None \notin Threads \cup Objects \cup Types \cup Listeners

VARIABLES
  datas,      \* datas_: the object of each name
  type,       \* the type of each object
  val,        \* its val_
  callbacks,  \* its callbacks_, from keys to listeners
  key,        \* the static counter of addValChangeCB, one for each type
  holder,     \* who holds each mutex: the registry's, and two for each object
  call,       \* the call each thread is in
  listener,   \* what became of each listener
  on,         \* the object it was added to
  view,       \* the value it was last told, or its owner last read
  broken      \* the objects whose last change ended with an exception: only for
              \* what the properties say

vars == <<datas, type, val, callbacks, key, holder, call, listener, on, view, broken>>

Registry == <<"registry">>
ValMutex(o) == <<"val", o>>
CbMutex(o) == <<"callbacks", o>>
Mutexes == {Registry} \cup {ValMutex(o) : o \in Objects} \cup {CbMutex(o) : o \in Objects}

Keys == 0 .. Cardinality(Listeners)
Made == {o \in Objects : type[o] # None}
NoCall == [op |-> "none", pc |-> "none", obj |-> None, new |-> Default,
           todo |-> <<>>, rest |-> <<>>, listener |-> None, key |-> 0]

\* The listeners in a map from keys to listeners.
Told(f) == {f[k] : k \in DOMAIN f}

TypeOK ==
  /\ datas \in [Names -> Objects \cup {None}]
  /\ type \in [Objects -> Types \cup {None}]
  /\ val \in [Objects -> Values]
  /\ \A o \in Objects : DOMAIN callbacks[o] \subseteq Keys /\ Told(callbacks[o]) \subseteq Listeners
  /\ key \in [Types -> Keys]
  /\ holder \in [Mutexes -> Threads \cup {None}]
  /\ \A t \in Threads :
        /\ call[t].op \in {"none", "setVal", "LoadFromYaml", "addValChangeCB"}
        /\ call[t].pc \in {"none", "next", "lock", "copy", "tell", "store", "begin", "insert"}
        /\ call[t].obj \in Objects \cup {None}
        /\ DOMAIN call[t].todo \subseteq Keys
  /\ listener \in [Listeners -> {"new", "adding", "added", "subscribed", "cleared", "dropped"}]
  /\ on \in [Listeners -> Objects \cup {None}]
  /\ view \in [Listeners -> Values]
  /\ broken \subseteq Objects

Init ==
  /\ datas = [n \in Names |-> None]
  /\ type = [o \in Objects |-> None]
  /\ val = [o \in Objects |-> Default]
  /\ callbacks = [o \in Objects |-> <<>>]
  /\ key = [ty \in Types |-> 0]
  /\ holder = [m \in Mutexes |-> None]
  /\ call = [t \in Threads |-> NoCall]
  /\ listener = [l \in Listeners |-> "new"]
  /\ on = [l \in Listeners |-> None]
  /\ view = [l \in Listeners |-> Default]
  /\ broken = {}

Free(m) == holder[m] = None
At(t, pc) == call[t].pc = pc
Begin(t, fields) == At(t, "none") /\ call' = [call EXCEPT ![t] = fields]

-----------------------------------------------------------------------------
(* The registry.                                                           *)

\* Whether Lookup makes a new variable.
Makes(n) == datas[n] = None

\* Lookup of a variable that is not there yet; one that is there is returned
\* if the type is right, and nothing changes.
Lookup(t, n, ty) ==
  /\ At(t, "none") /\ Free(Registry)
  /\ Makes(n) /\ n \notin Invalid
  /\ \E o \in Objects \ Made :
        /\ datas' = [datas EXCEPT ![n] = o]
        /\ type' = [type EXCEPT ![o] = ty]
  /\ UNCHANGED <<val, callbacks, key, holder, call, listener, on, view, broken>>

\* LoadFromYaml holds the registry's mutex to the end.
LoadFromYaml(t) ==
  /\ Free(Registry)
  /\ Begin(t, [NoCall EXCEPT !.op = "LoadFromYaml", !.pc = "next", !.rest = Document])
  /\ holder' = [holder EXCEPT ![Registry] = t]
  /\ UNCHANGED <<datas, type, val, callbacks, key, listener, on, view, broken>>

\* LookUpBase of the lower-case name; what is not found is left out.
NextEntry(t) ==
  /\ At(t, "next")
  /\ IF call[t].rest = <<>>
     THEN /\ call' = [call EXCEPT ![t] = NoCall]
          /\ holder' = [holder EXCEPT ![Registry] = None]
     ELSE LET entry == Head(call[t].rest)
              o == datas[Lower[entry[1]]]
          IN  /\ call' = [call EXCEPT ![t] = [call[t] EXCEPT
                    !.rest = Tail(call[t].rest), !.obj = o, !.new = entry[2],
                    !.pc = IF o = None THEN "next" ELSE "lock"]]
              /\ UNCHANGED holder
  /\ UNCHANGED <<datas, type, val, callbacks, key, listener, on, view, broken>>

-----------------------------------------------------------------------------
(* The value.                                                              *)

setVal(t, o, v) ==
  /\ o \in Made
  /\ Begin(t, [NoCall EXCEPT !.op = "setVal", !.pc = "lock", !.obj = o, !.new = v])
  /\ UNCHANGED <<datas, type, val, callbacks, key, holder, listener, on, view, broken>>

\* The end of setVal, by return or by an exception, which fromString catches:
\* val_mutex_ is released and LoadFromYaml goes on.
Unlocked(t) == [holder EXCEPT ![ValMutex(call[t].obj)] = None]
Leave(t) ==
  call' = [call EXCEPT ![t] =
             IF call[t].op = "setVal" THEN NoCall
             ELSE [call[t] EXCEPT !.pc = "next", !.obj = None, !.todo = <<>>]]

\* Mutant: the value's mutex is not waited for.
NotWaited(o) == TRUE
ValFree(o) == Free(ValMutex(o))

LockVal(t) ==
  /\ At(t, "lock") /\ ValFree(call[t].obj)
  /\ holder' = [holder EXCEPT ![ValMutex(call[t].obj)] = t]
  /\ call' = [call EXCEPT ![t].pc = "copy"]
  /\ UNCHANGED <<datas, type, val, callbacks, key, listener, on, view, broken>>

CopyCallbacks(t) ==
  /\ At(t, "copy") /\ Free(CbMutex(call[t].obj))
  /\ call' = [call EXCEPT ![t] = [call[t] EXCEPT !.pc = "tell", !.todo = callbacks[call[t].obj]]]
  /\ UNCHANGED <<datas, type, val, callbacks, key, holder, listener, on, view, broken>>

Restricted(f, S) == [k \in S |-> f[k]]

\* ++ of the iterator.  Mutant: forgotten.
SameRest(todo, k) == todo
Rest(todo, k) == Restricted(todo, DOMAIN todo \ {k})

\* The mutexes a listener of o takes.
Takes(l, o) ==
  CASE Does[l] = "Lookup" -> {Registry}
    [] Does[l] = "getOwn" -> {ValMutex(o)}
    [] Does[l] = "getOther" -> {ValMutex(p) : p \in Made \ {o}}
    [] OTHER -> {}

\* One listener, in the order of the keys; it may have been removed since.
Tell(t) ==
  LET todo == call[t].todo
      k == Min(DOMAIN todo)
      l == todo[k]
  IN  /\ At(t, "tell") /\ todo # <<>>
      /\ \A m \in Takes(l, call[t].obj) : Free(m)
      /\ view' = [view EXCEPT ![l] = call[t].new]
      /\ IF Does[l] = "throw"
         THEN Leave(t) /\ holder' = Unlocked(t) /\ broken' = broken \cup {call[t].obj}
         ELSE call' = [call EXCEPT ![t].todo = Rest(todo, k)] /\ UNCHANGED <<holder, broken>>
      /\ UNCHANGED <<datas, type, val, callbacks, key, listener, on>>

\* The value is stored after the last listener was told.  Mutant: before.
StoredEarly(t) == At(t, "tell")
ToldAll(t) == At(t, "tell") /\ call[t].todo = <<>>

Store(t) ==
  /\ ToldAll(t)
  /\ val' = [val EXCEPT ![call[t].obj] = call[t].new]
  /\ holder' = [holder EXCEPT ![ValMutex(call[t].obj)] = None]
  /\ broken' = broken \ {call[t].obj}
  /\ Leave(t)
  /\ UNCHANGED <<datas, type, callbacks, key, listener, on, view>>

\* getVal, by the owner of a listener that was just added: from here on the
\* listener is to follow the value.
getVal(t, l) ==
  /\ At(t, "none")
  /\ listener[l] = "added" /\ ValFree(on[l])
  /\ listener' = [listener EXCEPT ![l] = "subscribed"]
  /\ view' = [view EXCEPT ![l] = val[on[l]]]
  /\ UNCHANGED <<datas, type, val, callbacks, key, holder, call, on, broken>>

-----------------------------------------------------------------------------
(* The listeners.                                                          *)

addValChangeCB(t, o, l) ==
  /\ o \in Made /\ listener[l] = "new"
  /\ Begin(t, [NoCall EXCEPT !.op = "addValChangeCB", !.pc = "begin", !.obj = o, !.listener = l])
  /\ listener' = [listener EXCEPT ![l] = "adding"]
  /\ on' = [on EXCEPT ![l] = o]
  /\ UNCHANGED <<datas, type, val, callbacks, key, holder, view, broken>>

\* The test of key+1, and the read of key++.  The mutex is the object's, the
\* counter the type's.
ReadKey(t) ==
  LET c == call[t]
      k == key[type[c.obj]]
  IN  /\ At(t, "begin") /\ Free(CbMutex(c.obj))
      /\ IF k + 1 \in DOMAIN callbacks[c.obj]
         THEN /\ call' = [call EXCEPT ![t] = NoCall]
              /\ listener' = [listener EXCEPT ![c.listener] = "dropped"]
              /\ UNCHANGED holder
         ELSE /\ call' = [call EXCEPT ![t] = [c EXCEPT !.pc = "insert", !.key = k]]
              /\ holder' = [holder EXCEPT ![CbMutex(c.obj)] = t]
              /\ UNCHANGED listener
      /\ UNCHANGED <<datas, type, val, callbacks, key, on, view, broken>>

\* What key++ leaves.  Mutant: the same key.
SameKey(k) == k
NextKey(k) == k + 1

\* The write of key++, and the insertion.
InsertCB(t) ==
  LET c == call[t]
      old == callbacks[c.obj]
  IN  /\ At(t, "insert")
      /\ key' = [key EXCEPT ![type[c.obj]] = NextKey(c.key)]
      /\ callbacks' = [callbacks EXCEPT ![c.obj] =
            [k \in DOMAIN old \cup {c.key} |-> IF k = c.key THEN c.listener ELSE old[k]]]
      /\ listener' = [listener EXCEPT ![c.listener] = "added"]
      /\ holder' = [holder EXCEPT ![CbMutex(c.obj)] = None]
      /\ call' = [call EXCEPT ![t] = NoCall]
      /\ UNCHANGED <<datas, type, val, on, view, broken>>

Cleared(ls) ==
  listener' = [l \in Listeners |-> IF l \in ls THEN "cleared" ELSE listener[l]]

\* delValChangeCB needs a key, which addValChangeCB does not tell: any key.
delValChangeCB(t, o, k) ==
  /\ At(t, "none") /\ o \in Made /\ Free(CbMutex(o))
  /\ k \in DOMAIN callbacks[o]
  /\ callbacks' = [callbacks EXCEPT ![o] = Restricted(@, DOMAIN @ \ {k})]
  /\ Cleared({callbacks[o][k]})
  /\ UNCHANGED <<datas, type, val, key, holder, call, on, view, broken>>

ClearValChangeCB(t, o) ==
  /\ At(t, "none") /\ o \in Made /\ Free(CbMutex(o))
  /\ callbacks' = [callbacks EXCEPT ![o] = <<>>]
  /\ Cleared(Told(callbacks[o]))
  /\ UNCHANGED <<datas, type, val, key, holder, call, on, view, broken>>

-----------------------------------------------------------------------------
Step(t) ==
  \/ NextEntry(t)
  \/ LockVal(t) \/ CopyCallbacks(t) \/ Tell(t) \/ Store(t)
  \/ ReadKey(t) \/ InsertCB(t)

Next ==
  \E t \in Threads :
    \/ Step(t)
    \/ \E n \in Names, ty \in Types : Lookup(t, n, ty)
    \/ LoadFromYaml(t)
    \/ \E o \in Objects, v \in Values : setVal(t, o, v)
    \/ \E o \in Objects, l \in Listeners : addValChangeCB(t, o, l)
    \/ \E l \in Listeners : getVal(t, l)
    \/ \E o \in Objects, k \in Keys : delValChangeCB(t, o, k)
    \/ \E o \in Objects : ClearValChangeCB(t, o)

Spec == Init /\ [][Next]_vars

\* A thread in a call goes on; it gets a mutex that is released again and
\* again.  Nothing makes a thread begin a call.
FairSpec == Spec /\ \A t \in Threads : SF_vars(Step(t))

-----------------------------------------------------------------------------
\* A listener whose owner called addValChangeCB and then getVal knows the
\* value whenever nobody is changing it, and the last change did not end with
\* an exception: no change falls between the two calls.
SubscriberUpToDate ==
  \A l \in Listeners :
    listener[l] = "subscribed" /\ Free(ValMutex(on[l])) /\ on[l] \notin broken
      => view[l] = val[on[l]]

\* A value is stored only after every listener that is still there, and was
\* before the change began, has been told of it; with an exception it is not
\* stored at all.
StoredIsTold ==
  [][\A o \in Objects, l \in Listeners :
       val'[o] # val[o] /\ listener[l] = "subscribed" /\ on[l] = o => view[l] = val'[o]]_vars

\* A listener that was added and not removed is among the callbacks.
ListenersKept ==
  \A l \in Listeners :
    listener[l] \in {"added", "subscribed"} => l \in Told(callbacks[on[l]])

\* A mutex is held only by a thread that is in a call that needs it, also
\* after an exception.
LocksReleased ==
  \A m \in Mutexes : holder[m] # None => call[holder[m]].op # "none"

\* The invariant of the configuration.
ConfigInv == TypeOK /\ ListenersKept /\ LocksReleased

\* Every call returns: no thread waits for itself, and no two for each other.
CallsReturn ==
  \A t \in Threads : call[t].op # "none" ~> call[t].op = "none"
=============================================================================
