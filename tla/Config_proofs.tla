---------------------------- MODULE Config_proofs ---------------------------
(***************************************************************************)
(* For any threads, variables, listeners and documents, as long as no two  *)
(* threads count at once in a counter that two variables share: listeners  *)
(* are kept, and told.                                                     *)
(***************************************************************************)
EXTENDS Config, WellFoundedInduction, FiniteSetTheorems, TLAPS

USE ConfigAssumption

\* addValChangeCB takes its keys from a counter that the variables of one
\* type share, under a mutex that they do not (config.h:400-405): what nothing
\* in it prevents, and the theorems need, is that two are not in it at once.
CountsAlone ==
  \A t, u \in Threads :
    t # u /\ call[t].pc = "insert" /\ call[u].pc = "insert"
      => type[call[t].obj] # type[call[u].obj]

KeyMaps == UNION {[S -> Listeners] : S \in SUBSET Keys}

Call == [op : {"none", "setVal", "LoadFromYaml", "addValChangeCB"},
         pc : {"none", "next", "lock", "copy", "tell", "begin", "insert"},
         obj : Objects \cup {None}, new : Values, todo : KeyMaps, rest : Seq(Names \X Values),
         listener : Listeners \cup {None}, key : Keys]

Typed == TypeOK /\ call \in [Threads -> Call] /\ callbacks \in [Objects -> KeyMaps]

\* The listeners that are or were among the callbacks.
Inserted == {l \in Listeners : listener[l] \notin {"new", "adding"}}

\* Where a thread may be in its call, and what it may find there.
PlaceOK(t) ==
  /\ call[t].op = "none" <=> call[t].pc = "none"
  /\ call[t].op = "addValChangeCB" <=> call[t].pc \in {"begin", "insert"}
  /\ call[t].pc = "next" => call[t].op = "LoadFromYaml"
  /\ call[t].pc \notin {"none", "next"} => call[t].obj \in Made
  /\ call[t].pc \in {"begin", "insert"} =>
       /\ call[t].listener \in Listeners /\ listener[call[t].listener] = "adding"
       /\ on[call[t].listener] = call[t].obj
       /\ \A u \in Threads : u # t /\ call[u].pc \in {"begin", "insert"}
                             => call[u].listener # call[t].listener
  /\ call[t].pc = "insert" => call[t].key = key[type[call[t].obj]]
  /\ call[t].pc = "tell" =>
       \A k \in DOMAIN call[t].todo : on[call[t].todo[k]] = call[t].obj

\* A mutex is held by who is where it is needed, and by nobody else.
HolderOK ==
  \A t \in Threads :
    /\ holder[Registry] = t <=> call[t].op = "LoadFromYaml"
    /\ \A o \in Objects :
         /\ holder[ValMutex(o)] = t <=> call[t].pc \in {"copy", "tell"} /\ call[t].obj = o
         /\ holder[CbMutex(o)] = t <=> call[t].pc = "insert" /\ call[t].obj = o

\* The keys in use are below the counter.
CallbacksOK(o) ==
  \A k \in DOMAIN callbacks[o] :
    /\ o \in Made /\ k < key[type[o]]
    /\ callbacks[o][k] \in Inserted /\ on[callbacks[o][k]] = o

ListenerOK(l) ==
  /\ IF listener[l] = "new" THEN on[l] = None ELSE on[l] \in Made
  /\ listener[l] \in {"added", "subscribed"} => l \in Told(callbacks[on[l]])
  /\ listener[l] = "subscribed" =>
       /\ Free(ValMutex(on[l])) /\ on[l] \notin broken => view[l] = val[on[l]]
       /\ \A t \in Threads : call[t].pc = "tell" /\ call[t].obj = on[l]
                             => l \in Told(call[t].todo) \/ view[l] = call[t].new

\* The inductive invariant.
CInv ==
  /\ Typed /\ HolderOK
  /\ \A n \in Names : datas[n] # None => datas[n] \in Made
  /\ \A ty \in Types : key[ty] <= Cardinality(Inserted)
  /\ \A t \in Threads : PlaceOK(t)
  /\ \A o \in Objects : CallbacksOK(o)
  /\ \A l \in Listeners : ListenerOK(l)

-----------------------------------------------------------------------------
(* Keys, maps and mutexes.                                                 *)

LEMMA KeysFinite ==
  /\ Cardinality(Listeners) \in Nat /\ Keys \subseteq Nat /\ 0 \in Keys
  /\ IsFiniteSet(Inserted) /\ Cardinality(Inserted) \in Nat
  /\ Cardinality(Inserted) <= Cardinality(Listeners)
<1>1. Cardinality(Listeners) \in Nat
  BY FS_CardinalityType
<1>2. Inserted \subseteq Listeners
  BY DEF Inserted
<1>3. /\ IsFiniteSet(Inserted) /\ Cardinality(Inserted) \in Nat
      /\ Cardinality(Inserted) <= Cardinality(Listeners)
  BY <1>2, FS_Subset, FS_CardinalityType
<1> QED
  BY <1>1, <1>3 DEF Keys

\* The first key of the map that setVal goes through.
LEMMA MinKey ==
  ASSUME NEW S \in SUBSET Keys, S # {}
  PROVE  Min(S) \in S
<1>1. S \in SUBSET Nat
  BY KeysFinite
<1> DEFINE R == {p \in Nat \X Nat : p[1] < p[2]}
<1>2. IsWellFoundedOn(R, Nat)
  BY NatLessThanWellFounded DEF OpToRel
<1> HIDE DEF R
<1>4. PICK n \in S : \A m \in S : <<m, n>> \notin R
  BY <1>1, <1>2, WFMin
<1>3. ASSUME NEW m \in S PROVE n <= m
  <2>1. m \in Nat /\ n \in Nat /\ <<m, n>> \notin R
    BY <1>1, <1>4
  <2>2. m < n => <<m, n>> \in R
    BY <2>1 DEF R
  <2> QED
    BY <2>1, <2>2
<1> QED
  BY <1>3 DEF Min

\* A map is its keys and their listeners.
LEMMA MapOf ==
  ASSUME NEW S \in SUBSET Keys, NEW f, f = [k \in DOMAIN f |-> f[k]], DOMAIN f = S,
         \A k \in S : f[k] \in Listeners
  PROVE  f \in KeyMaps
<1>1. f \in [S -> Listeners]
  OBVIOUS
<1> QED
  BY <1>1 DEF KeyMaps

LEMMA MapFacts ==
  ASSUME NEW f \in KeyMaps
  PROVE  /\ DOMAIN f \in SUBSET Keys /\ f = [k \in DOMAIN f |-> f[k]]
         /\ \A k \in DOMAIN f : f[k] \in Listeners
         /\ Told(f) \subseteq Listeners
         /\ f # <<>> => DOMAIN f # {}
<1>1. PICK S \in SUBSET Keys : f \in [S -> Listeners]
  BY DEF KeyMaps
<1>2. /\ DOMAIN f = S /\ f = [k \in DOMAIN f |-> f[k]] /\ \A k \in DOMAIN f : f[k] \in Listeners
  BY <1>1
<1>3. DOMAIN f = {} => f = <<>>
  BY <1>2
<1> QED
  BY <1>2, <1>3 DEF Told

LEMMA EmptyMap == <<>> \in KeyMaps /\ DOMAIN <<>> = {} /\ Told(<<>>) = {}
<1>1. DOMAIN <<>> = {}
  OBVIOUS
<1>2. <<>> \in [{} -> Listeners]
  OBVIOUS
<1> QED
  BY <1>1, <1>2 DEF KeyMaps, Told

LEMMA RestrictedMap ==
  ASSUME NEW f \in KeyMaps, NEW S \in SUBSET (DOMAIN f)
  PROVE  /\ Restricted(f, S) \in KeyMaps /\ DOMAIN Restricted(f, S) = S
         /\ \A k \in S : Restricted(f, S)[k] = f[k]
<1>1. /\ DOMAIN Restricted(f, S) = S /\ \A k \in S : Restricted(f, S)[k] = f[k]
      /\ Restricted(f, S) = [k \in DOMAIN Restricted(f, S) |-> Restricted(f, S)[k]]
  BY DEF Restricted
<1>2. S \in SUBSET Keys /\ \A k \in S : f[k] \in Listeners
  BY MapFacts
<1>3. Restricted(f, S) \in KeyMaps
  BY <1>1, <1>2, MapOf
<1> QED
  BY <1>1, <1>3

LEMMA DifferentMutexes ==
  /\ Registry \in Mutexes /\ \A o \in Objects : ValMutex(o) \in Mutexes /\ CbMutex(o) \in Mutexes
  /\ \A o \in Objects : ValMutex(o) # Registry /\ CbMutex(o) # Registry
  /\ \A o, p \in Objects : ValMutex(o) # CbMutex(p)
  /\ \A o, p \in Objects : o # p => ValMutex(o) # ValMutex(p) /\ CbMutex(o) # CbMutex(p)
BY DEF Mutexes, Registry, ValMutex, CbMutex

LEMMA NoCallTyped ==
  /\ NoCall \in Call /\ NoCall.op = "none" /\ NoCall.pc = "none"
<1>1. <<>> \in KeyMaps /\ <<>> \in Seq(Names \X Values) /\ 0 \in Keys
  BY EmptyMap, KeysFinite
<1> QED
  BY <1>1 DEF NoCall, Call

-----------------------------------------------------------------------------
(* A step of one call.                                                     *)

\* A mutex changes hands between a thread and nobody.
LEMMA HolderStep ==
  ASSUME CInv, NEW t \in Threads, NEW c \in Call, call' = [call EXCEPT ![t] = c],
         holder' \in [Mutexes -> Threads \cup {None}],
         \A m \in Mutexes : holder'[m] = holder[m] \/ {holder[m], holder'[m]} \subseteq {t, None},
         holder'[Registry] = t <=> c.op = "LoadFromYaml",
         \A o \in Objects : /\ holder'[ValMutex(o)] = t <=> c.pc \in {"copy", "tell"} /\ c.obj = o
                            /\ holder'[CbMutex(o)] = t <=> c.pc = "insert" /\ c.obj = o
  PROVE  HolderOK'
<1>1. call'[t] = c /\ \A u \in Threads : u # t => call'[u] = call[u]
  BY DEF CInv, Typed
<1>2. \A u \in Threads, m \in Mutexes : u # t => (holder'[m] = u <=> holder[m] = u)
  OBVIOUS
<1>3. ASSUME NEW u \in Threads
      PROVE  /\ holder'[Registry] = u <=> call'[u].op = "LoadFromYaml"
             /\ \A o \in Objects :
                  /\ holder'[ValMutex(o)] = u <=> call'[u].pc \in {"copy", "tell"} /\ call'[u].obj = o
                  /\ holder'[CbMutex(o)] = u <=> call'[u].pc = "insert" /\ call'[u].obj = o
  <2>1. CASE u = t
    BY <1>1, <2>1
  <2>2. CASE u # t
    BY <1>1, <1>2, <2>2, DifferentMutexes DEF CInv, HolderOK
  <2> QED
    BY <2>1, <2>2
<1> QED
  BY <1>3 DEF HolderOK, Registry, ValMutex, CbMutex

\* A thread that calls setVal or LoadFromYaml: only the value, the view of
\* listeners and what the thread goes through may change.
LEMMA ValueStep ==
  ASSUME CInv, NEW t \in Threads, NEW c \in Call, call' = [call EXCEPT ![t] = c],
         call[t].pc \notin {"begin", "insert"}, c.pc \notin {"begin", "insert"},
         holder' \in [Mutexes -> Threads \cup {None}], HolderOK',
         val' \in [Objects -> Values], view' \in [Listeners -> Values], broken' \subseteq Objects,
         UNCHANGED <<datas, type, callbacks, key, listener, on>>,
         PlaceOK(t)',
         \A l \in Listeners : listener[l] = "subscribed" =>
           /\ Free(ValMutex(on[l]))' /\ on[l] \notin broken' => view'[l] = val'[on[l]]
           /\ \A u \in Threads : call'[u].pc = "tell" /\ call'[u].obj = on[l]
                                 => l \in Told(call'[u].todo) \/ view'[l] = call'[u].new
  PROVE  CInv'
<1>1. call'[t] = c /\ \A u \in Threads : u # t => call'[u] = call[u]
  BY DEF CInv, Typed
<1>2. Typed'
  <2>1. call' \in [Threads -> Call]
    BY DEF CInv, Typed
  <2>2. \A u \in Threads :
          /\ call'[u].op \in {"none", "setVal", "LoadFromYaml", "addValChangeCB"}
          /\ call'[u].pc \in {"none", "next", "lock", "copy", "tell", "store", "begin", "insert"}
          /\ call'[u].obj \in Objects \cup {None} /\ DOMAIN call'[u].todo \subseteq Keys
    BY <2>1, MapFacts DEF Call
  <2> QED
    BY <2>1, <2>2 DEF CInv, Typed, TypeOK, Made
<1>3. ASSUME NEW u \in Threads PROVE PlaceOK(u)'
  <2>1. CASE u # t
    BY <1>1, <2>1 DEF CInv, PlaceOK, Made
  <2> QED
    BY <2>1
<1>4. \A o \in Objects : CallbacksOK(o)'
  BY DEF CInv, CallbacksOK, Made, Inserted
<1>5. ASSUME NEW l \in Listeners PROVE ListenerOK(l)'
  BY DEF CInv, ListenerOK, Made, Told, Free
<1>6. (\A n \in Names : datas'[n] # None => datas'[n] \in Made')
      /\ \A ty \in Types : key'[ty] <= Cardinality(Inserted')
  BY DEF CInv, Made, Inserted
<1> QED
  BY <1>2, <1>3, <1>4, <1>5, <1>6 DEF CInv

\* What is known of a thread's call.
LEMMA CallFacts ==
  ASSUME CInv, NEW t \in Threads
  PROVE  /\ call[t] \in Call /\ t # None /\ DOMAIN call = Threads
         /\ holder \in [Mutexes -> Threads \cup {None}]
         /\ holder[Registry] = t <=> call[t].op = "LoadFromYaml"
         /\ \A o \in Objects :
              /\ holder[ValMutex(o)] = t <=> call[t].pc \in {"copy", "tell"} /\ call[t].obj = o
              /\ holder[CbMutex(o)] = t <=> call[t].pc = "insert" /\ call[t].obj = o
         /\ PlaceOK(t)
BY DEF CInv, Typed, TypeOK, HolderOK

\* A subscribed listener follows the value it subscribed to.
LEMMA SubscribedFacts ==
  ASSUME CInv, NEW l \in Listeners, listener[l] = "subscribed"
  PROVE  /\ on[l] \in Made /\ on[l] \in Objects /\ l \in Told(callbacks[on[l]])
         /\ Free(ValMutex(on[l])) /\ on[l] \notin broken => view[l] = val[on[l]]
         /\ \A t \in Threads : call[t].pc = "tell" /\ call[t].obj = on[l]
                               => l \in Told(call[t].todo) \/ view[l] = call[t].new
BY DEF CInv, ListenerOK, Made

-----------------------------------------------------------------------------
(* The value.                                                              *)

LEMMA LoadFromYamlStep ==
  ASSUME CInv, NEW t \in Threads, LoadFromYaml(t)
  PROVE  CInv'
<1> DEFINE c == [NoCall EXCEPT !.op = "LoadFromYaml", !.pc = "next", !.rest = Document]
<1>1. /\ call[t].pc = "none" /\ holder[Registry] = None
      /\ call' = [call EXCEPT ![t] = c] /\ holder' = [holder EXCEPT ![Registry] = t]
      /\ UNCHANGED <<datas, type, val, callbacks, key, listener, on, view, broken>>
  BY DEF LoadFromYaml, Begin, At, Free
<1>2. c \in Call /\ c.op = "LoadFromYaml" /\ c.pc = "next"
  BY NoCallTyped DEF Call
<1> HIDE DEF c
<1>3. /\ holder' \in [Mutexes -> Threads \cup {None}] /\ holder'[Registry] = t
      /\ \A m \in Mutexes : m # Registry => holder'[m] = holder[m]
  BY <1>1, CallFacts, DifferentMutexes
<1>4. HolderOK'
  <2>1. \A m \in Mutexes : holder'[m] = holder[m] \/ {holder[m], holder'[m]} \subseteq {t, None}
    BY <1>1, <1>3
  <2>2. \A o \in Objects : /\ holder'[ValMutex(o)] = t <=> c.pc \in {"copy", "tell"} /\ c.obj = o
                           /\ holder'[CbMutex(o)] = t <=> c.pc = "insert" /\ c.obj = o
    BY <1>1, <1>2, <1>3, CallFacts, DifferentMutexes
  <2> QED
    BY <1>1, <1>2, <1>3, <2>1, <2>2, HolderStep, ZenonT(40)
<1>5. call'[t] = c /\ \A u \in Threads : u # t => call'[u] = call[u]
  BY <1>1, CallFacts
<1>6. PlaceOK(t)'
  BY <1>2, <1>5 DEF PlaceOK
<1>7. ASSUME NEW l \in Listeners, listener[l] = "subscribed"
      PROVE  /\ Free(ValMutex(on[l]))' /\ on[l] \notin broken' => view'[l] = val'[on[l]]
             /\ \A u \in Threads : call'[u].pc = "tell" /\ call'[u].obj = on[l]
                                   => l \in Told(call'[u].todo) \/ view'[l] = call'[u].new
  <2>1. Free(ValMutex(on[l]))' => Free(ValMutex(on[l]))
    BY <1>1, <1>3, <1>7, SubscribedFacts, DifferentMutexes DEF Free, ValMutex
  <2> QED
    BY <1>1, <1>2, <1>5, <1>7, <2>1, SubscribedFacts
<1> QED
  <2>1. /\ call[t].pc \notin {"begin", "insert"} /\ c.pc \notin {"begin", "insert"}
        /\ val' \in [Objects -> Values] /\ view' \in [Listeners -> Values] /\ broken' \subseteq Objects
    BY <1>1, <1>2 DEF CInv, Typed, TypeOK
  <2> QED
    BY <1>1, <1>2, <1>3, <1>4, <1>6, <1>7, <2>1, ValueStep

LEMMA setValStep ==
  ASSUME CInv, NEW t \in Threads, NEW o \in Objects, NEW v \in Values, setVal(t, o, v)
  PROVE  CInv'
<1> DEFINE c == [NoCall EXCEPT !.op = "setVal", !.pc = "lock", !.obj = o, !.new = v]
<1>1. /\ call[t].pc = "none" /\ o \in Made /\ call' = [call EXCEPT ![t] = c]
      /\ UNCHANGED <<datas, type, val, callbacks, key, holder, listener, on, view, broken>>
  BY DEF setVal, Begin, At
<1>2. c \in Call /\ c.op = "setVal" /\ c.pc = "lock" /\ c.obj = o
  BY NoCallTyped DEF Call
<1> HIDE DEF c
<1>3. holder' \in [Mutexes -> Threads \cup {None}]
  BY <1>1, CallFacts
<1>4. HolderOK'
  <2>1. \A m \in Mutexes : holder'[m] = holder[m]
    BY <1>1
  <2>2. holder'[Registry] = t <=> c.op = "LoadFromYaml"
    BY <1>1, <1>2, CallFacts DEF PlaceOK
  <2>3. \A p \in Objects : /\ holder'[ValMutex(p)] = t <=> c.pc \in {"copy", "tell"} /\ c.obj = p
                           /\ holder'[CbMutex(p)] = t <=> c.pc = "insert" /\ c.obj = p
    BY <1>1, <1>2, CallFacts
  <2> QED
    BY <1>1, <1>2, <1>3, <2>1, <2>2, <2>3, HolderStep
<1>5. call'[t] = c /\ \A u \in Threads : u # t => call'[u] = call[u]
  BY <1>1, CallFacts
<1>6. PlaceOK(t)'
  BY <1>1, <1>2, <1>5 DEF PlaceOK, Made
<1>7. ASSUME NEW l \in Listeners, listener[l] = "subscribed"
      PROVE  /\ Free(ValMutex(on[l]))' /\ on[l] \notin broken' => view'[l] = val'[on[l]]
             /\ \A u \in Threads : call'[u].pc = "tell" /\ call'[u].obj = on[l]
                                   => l \in Told(call'[u].todo) \/ view'[l] = call'[u].new
  <2>1. Free(ValMutex(on[l]))' => Free(ValMutex(on[l]))
    BY <1>1 DEF Free, ValMutex
  <2> QED
    BY <1>1, <1>2, <1>5, <1>7, <2>1, SubscribedFacts
<1> QED
  <2>1. /\ call[t].pc \notin {"begin", "insert"} /\ c.pc \notin {"begin", "insert"}
        /\ val' \in [Objects -> Values] /\ view' \in [Listeners -> Values] /\ broken' \subseteq Objects
    BY <1>1, <1>2 DEF CInv, Typed, TypeOK
  <2> QED
    BY <1>1, <1>2, <1>3, <1>4, <1>6, <1>7, <2>1, ValueStep

LEMMA LockValStep ==
  ASSUME CInv, NEW t \in Threads, LockVal(t)
  PROVE  CInv'
<1> DEFINE c == [call[t] EXCEPT !.pc = "copy"]
<1> DEFINE o == call[t].obj
<1>1. /\ call[t].pc = "lock" /\ holder[ValMutex(o)] = None
      /\ call' = [call EXCEPT ![t].pc = "copy"] /\ holder' = [holder EXCEPT ![ValMutex(o)] = t]
      /\ UNCHANGED <<datas, type, val, callbacks, key, listener, on, view, broken>>
  BY DEF LockVal, At, ValFree, Free
<1>2. call' = [call EXCEPT ![t] = c] /\ o \in Made /\ o \in Objects
  BY <1>1, CallFacts DEF PlaceOK, Made
<1>3. c \in Call /\ c.op = call[t].op /\ c.pc = "copy" /\ c.obj = o
  <2>1. call[t] \in Call
    BY CallFacts
  <2> QED
    BY <2>1 DEF Call
<1> HIDE DEF c, o
<1>4. /\ holder' \in [Mutexes -> Threads \cup {None}] /\ holder'[ValMutex(o)] = t
      /\ \A m \in Mutexes : m # ValMutex(o) => holder'[m] = holder[m]
  BY <1>1, <1>2, CallFacts, DifferentMutexes
<1>5. HolderOK'
  <2>1. \A m \in Mutexes : holder'[m] = holder[m] \/ {holder[m], holder'[m]} \subseteq {t, None}
    BY <1>1, <1>4
  <2>2. holder'[Registry] = t <=> c.op = "LoadFromYaml"
    BY <1>2, <1>3, <1>4, CallFacts, DifferentMutexes
  <2>3. ASSUME NEW p \in Objects
        PROVE  /\ holder'[ValMutex(p)] = t <=> c.pc \in {"copy", "tell"} /\ c.obj = p
               /\ holder'[CbMutex(p)] = t <=> c.pc = "insert" /\ c.obj = p
    <3>1. CASE p = o
      BY <1>1, <1>2, <1>3, <1>4, <3>1, CallFacts, DifferentMutexes
    <3>2. CASE p # o
      BY <1>1, <1>2, <1>3, <1>4, <3>2, CallFacts, DifferentMutexes
    <3> QED
      BY <3>1, <3>2
  <2>4. \A p \in Objects : /\ holder'[ValMutex(p)] = t <=> c.pc \in {"copy", "tell"} /\ c.obj = p
                           /\ holder'[CbMutex(p)] = t <=> c.pc = "insert" /\ c.obj = p
    BY <2>3
  <2>5. c \in Call /\ call' = [call EXCEPT ![t] = c] /\ holder' \in [Mutexes -> Threads \cup {None}]
    BY <1>2, <1>3, <1>4
  <2> QED
    BY <2>1, <2>2, <2>4, <2>5, HolderStep
<1>6. call'[t] = c /\ \A u \in Threads : u # t => call'[u] = call[u]
  BY <1>2, CallFacts
<1>7. PlaceOK(t)'
  BY <1>1, <1>2, <1>3, <1>6, CallFacts DEF PlaceOK, Made
<1>8. ASSUME NEW l \in Listeners, listener[l] = "subscribed"
      PROVE  /\ Free(ValMutex(on[l]))' /\ on[l] \notin broken' => view'[l] = val'[on[l]]
             /\ \A u \in Threads : call'[u].pc = "tell" /\ call'[u].obj = on[l]
                                   => l \in Told(call'[u].todo) \/ view'[l] = call'[u].new
  <2>1. Free(ValMutex(on[l]))' => holder'[ValMutex(on[l])] = None
    BY <1>1 DEF Free, ValMutex
  <2>2. Free(ValMutex(on[l]))' => Free(ValMutex(on[l]))
    BY <1>4, <1>8, <2>1, CallFacts, SubscribedFacts, DifferentMutexes DEF Free
  <2> QED
    BY <1>1, <1>3, <1>6, <1>8, <2>2, SubscribedFacts
<1> QED
  <2>1. /\ call[t].pc \notin {"begin", "insert"} /\ c.pc \notin {"begin", "insert"}
        /\ val' \in [Objects -> Values] /\ view' \in [Listeners -> Values] /\ broken' \subseteq Objects
    BY <1>1, <1>3 DEF CInv, Typed, TypeOK
  <2> QED
    BY <1>1, <1>2, <1>3, <1>4, <1>5, <1>7, <1>8, <2>1, ValueStep

LEMMA CopyCallbacksStep ==
  ASSUME CInv, NEW t \in Threads, CopyCallbacks(t)
  PROVE  CInv'
<1> DEFINE o == call[t].obj
<1> DEFINE c == [call[t] EXCEPT !.pc = "tell", !.todo = callbacks[o]]
<1>1. /\ call[t].pc = "copy"
      /\ call' = [call EXCEPT ![t] = c]
      /\ UNCHANGED <<datas, type, val, callbacks, key, holder, listener, on, view, broken>>
  BY DEF CopyCallbacks, At
<1>2. o \in Made /\ o \in Objects
  BY <1>1, CallFacts DEF PlaceOK, Made
<1>3. c \in Call /\ c.op = call[t].op /\ c.pc = "tell" /\ c.obj = o /\ c.todo = callbacks[o]
  <2>1. call[t] \in Call
    BY CallFacts
  <2>2. callbacks[o] \in KeyMaps
    BY <1>2 DEF CInv, Typed
  <2> QED
    BY <2>1, <2>2 DEF Call
<1> HIDE DEF c, o
<1>4. holder' \in [Mutexes -> Threads \cup {None}]
  BY <1>1, CallFacts
<1>5. HolderOK'
  <2>1. \A m \in Mutexes : holder'[m] = holder[m]
    BY <1>1
  <2>2. holder'[Registry] = t <=> c.op = "LoadFromYaml"
    BY <1>1, <1>3, CallFacts
  <2>3. o = call[t].obj
    BY DEF o
  <2>4. \A p \in Objects : /\ holder'[ValMutex(p)] = t <=> c.pc \in {"copy", "tell"} /\ c.obj = p
                           /\ holder'[CbMutex(p)] = t <=> c.pc = "insert" /\ c.obj = p
    BY <1>1, <1>3, <2>3, CallFacts
  <2> QED
    BY <1>1, <1>3, <1>4, <2>1, <2>2, <2>4, HolderStep, ZenonT(40)
<1>6. call'[t] = c /\ \A u \in Threads : u # t => call'[u] = call[u]
  BY <1>1, CallFacts
<1>7. PlaceOK(t)'
  <2>1. \A k \in DOMAIN callbacks[o] : on[callbacks[o][k]] = o
    BY <1>2 DEF CInv, CallbacksOK
  <2>2. /\ on' = on /\ listener' = listener /\ key' = key /\ Made' = Made /\ call[t].op # "none"
        /\ call[t].op # "addValChangeCB"
    BY <1>1, CallFacts DEF PlaceOK, Made
  <2> QED
    BY <1>2, <1>3, <1>6, <2>1, <2>2 DEF PlaceOK
<1>8. ASSUME NEW l \in Listeners, listener[l] = "subscribed"
      PROVE  /\ Free(ValMutex(on[l]))' /\ on[l] \notin broken' => view'[l] = val'[on[l]]
             /\ \A u \in Threads : call'[u].pc = "tell" /\ call'[u].obj = on[l]
                                   => l \in Told(call'[u].todo) \/ view'[l] = call'[u].new
  <2>1. Free(ValMutex(on[l]))' => Free(ValMutex(on[l]))
    BY <1>1 DEF Free, ValMutex
  <2>2. l \in Told(callbacks[on[l]])
    BY <1>8, SubscribedFacts
  <2>3. ASSUME NEW u \in Threads, call'[u].pc = "tell", call'[u].obj = on[l]
        PROVE  l \in Told(call'[u].todo) \/ view'[l] = call'[u].new
    <3>1. CASE u = t
      BY <1>3, <1>6, <2>2, <2>3, <3>1
    <3>2. CASE u # t
      BY <1>1, <1>6, <1>8, <2>3, <3>2, SubscribedFacts
    <3> QED
      BY <3>1, <3>2
  <2> QED
    BY <1>1, <1>8, <2>1, <2>3, SubscribedFacts
<1> QED
  <2>1. /\ call[t].pc \notin {"begin", "insert"} /\ c.pc \notin {"begin", "insert"}
        /\ val' \in [Objects -> Values] /\ view' \in [Listeners -> Values] /\ broken' \subseteq Objects
    BY <1>1, <1>3 DEF CInv, Typed, TypeOK
  <2> QED
    BY <1>1, <1>2, <1>3, <1>4, <1>5, <1>7, <1>8, <2>1, ValueStep

LEMMA NextEntryStep ==
  ASSUME CInv, NEW t \in Threads, NextEntry(t)
  PROVE  CInv'
<1> DEFINE entry == Head(call[t].rest)
<1> DEFINE o == datas[Lower[entry[1]]]
<1> DEFINE c == IF call[t].rest = <<>> THEN NoCall
                ELSE [call[t] EXCEPT !.rest = Tail(call[t].rest), !.obj = o, !.new = entry[2],
                                     !.pc = IF o = None THEN "next" ELSE "lock"]
<1>1. /\ call[t].pc = "next" /\ call[t].op = "LoadFromYaml"
      /\ UNCHANGED <<datas, type, val, callbacks, key, listener, on, view, broken>>
  BY CallFacts DEF NextEntry, At, PlaceOK
<1>2. call' = [call EXCEPT ![t] = c]
  <2>1. CASE call[t].rest = <<>>
    BY <2>1 DEF NextEntry
  <2>2. CASE call[t].rest # <<>>
    BY <2>2, SMTT(30) DEF NextEntry
  <2> QED
    BY <2>1, <2>2
<1>3. c \in Call /\ c.pc \in {"none", "next", "lock"}
      /\ (c.pc = "none" <=> c.op = "none") /\ (c.op = "LoadFromYaml" <=> c.op # "none")
      /\ (c.op = "none" <=> call[t].rest = <<>>)
      /\ (c.op # "none" => c.op = "LoadFromYaml")
      /\ (c.pc = "lock" => c.obj \in Made)
  <2>1. CASE call[t].rest = <<>>
    BY <2>1, NoCallTyped
  <2>2. CASE call[t].rest # <<>>
    <3>1. call[t] \in Call /\ call[t].rest \in Seq(Names \X Values)
      <4>1. call[t] \in Call
        BY CallFacts
      <4> QED
        BY <4>1 DEF Call
    <3>2. entry \in Names \X Values /\ Tail(call[t].rest) \in Seq(Names \X Values)
      BY <2>2, <3>1
    <3>3. entry[2] \in Values /\ o \in Objects \cup {None} /\ (o # None => o \in Made)
      BY <3>2 DEF CInv, Typed, TypeOK
    <3> HIDE DEF o, entry
    <3> QED
      BY <1>1, <2>2, <3>1, <3>2, <3>3 DEF Call
  <2> QED
    BY <2>1, <2>2
<1>4. /\ holder' \in [Mutexes -> Threads \cup {None}]
      /\ holder'[Registry] = IF call[t].rest = <<>> THEN None ELSE holder[Registry]
      /\ \A m \in Mutexes : m # Registry => holder'[m] = holder[m]
  BY CallFacts, DifferentMutexes DEF NextEntry
<1> HIDE DEF c
<1>5. HolderOK'
  <2>1. holder[Registry] = t
    BY <1>1, CallFacts
  <2>2. \A m \in Mutexes : holder'[m] = holder[m] \/ {holder[m], holder'[m]} \subseteq {t, None}
    BY <1>4, <2>1
  <2>3. holder'[Registry] = t <=> c.op = "LoadFromYaml"
    BY <1>3, <1>4, <2>1, CallFacts
  <2>4. \A p \in Objects : /\ holder'[ValMutex(p)] = t <=> c.pc \in {"copy", "tell"} /\ c.obj = p
                           /\ holder'[CbMutex(p)] = t <=> c.pc = "insert" /\ c.obj = p
    BY <1>1, <1>3, <1>4, CallFacts, DifferentMutexes
  <2> QED
    BY <1>2, <1>3, <1>4, <2>2, <2>3, <2>4, HolderStep
<1>6. call'[t] = c /\ \A u \in Threads : u # t => call'[u] = call[u]
  BY <1>2, CallFacts
<1>7. PlaceOK(t)'
  BY <1>1, <1>3, <1>6 DEF PlaceOK, Made
<1>8. ASSUME NEW l \in Listeners, listener[l] = "subscribed"
      PROVE  /\ Free(ValMutex(on[l]))' /\ on[l] \notin broken' => view'[l] = val'[on[l]]
             /\ \A u \in Threads : call'[u].pc = "tell" /\ call'[u].obj = on[l]
                                   => l \in Told(call'[u].todo) \/ view'[l] = call'[u].new
  <2>1. Free(ValMutex(on[l]))' => Free(ValMutex(on[l]))
    BY <1>1, <1>4, <1>8, SubscribedFacts, DifferentMutexes DEF Free, ValMutex
  <2> QED
    BY <1>1, <1>3, <1>6, <1>8, <2>1, SubscribedFacts
<1> QED
  <2>1. /\ call[t].pc \notin {"begin", "insert"} /\ c.pc \notin {"begin", "insert"}
        /\ val' \in [Objects -> Values] /\ view' \in [Listeners -> Values] /\ broken' \subseteq Objects
    BY <1>1, <1>3 DEF CInv, Typed, TypeOK
  <2> QED
    BY <1>1, <1>2, <1>3, <1>4, <1>5, <1>7, <1>8, <2>1, ValueStep

\* What is left of a call when setVal is.
Left(t) == IF call[t].op = "setVal" THEN NoCall
           ELSE [call[t] EXCEPT !.pc = "next", !.obj = None, !.todo = <<>>]

LEMMA LeftFacts ==
  ASSUME CInv, NEW t \in Threads, call[t].pc = "tell"
  PROVE  /\ Left(t) \in Call
         /\ Left(t).op \in {"none", "LoadFromYaml"} /\ Left(t).pc \in {"none", "next"}
         /\ Left(t).op = "none" <=> Left(t).pc = "none"
         /\ Left(t).op = "LoadFromYaml" <=> call[t].op = "LoadFromYaml"
<1>1. call[t].op \in {"setVal", "LoadFromYaml"} /\ call[t] \in Call
  <2>1. call[t] \in Call /\ PlaceOK(t)
    BY CallFacts
  <2>2. call[t].op \in {"none", "setVal", "LoadFromYaml", "addValChangeCB"}
    BY <2>1 DEF Call
  <2> QED
    BY <2>1, <2>2 DEF PlaceOK
<1>2. CASE call[t].op = "setVal"
  BY <1>2, NoCallTyped DEF Left
<1>3. CASE call[t].op = "LoadFromYaml"
  BY <1>1, <1>3, EmptyMap DEF Left, Call
<1> QED
  BY <1>1, <1>2, <1>3

\* Nobody else is telling the listeners of the same variable.
LEMMA OneTells ==
  ASSUME CInv, NEW t \in Threads, call[t].pc = "tell"
  PROVE  /\ call[t].obj \in Objects /\ holder[ValMutex(call[t].obj)] = t
         /\ ~ Free(ValMutex(call[t].obj))
         /\ \A u \in Threads : u # t /\ call[u].pc = "tell" => call[u].obj # call[t].obj
<1>1. call[t].obj \in Objects
  BY CallFacts DEF PlaceOK, Made
<1>2. holder[ValMutex(call[t].obj)] = t
  BY <1>1, CallFacts
<1>3. ASSUME NEW u \in Threads, u # t, call[u].pc = "tell"
      PROVE  call[u].obj # call[t].obj
  BY <1>1, <1>2, <1>3, CallFacts
<1> QED
  BY <1>1, <1>2, <1>3, CallFacts DEF Free

\* The mutexes when setVal is left.
LEMMA UnlockedFacts ==
  ASSUME CInv, NEW t \in Threads, call[t].pc = "tell",
         call' = [call EXCEPT ![t] = Left(t)],
         holder' = [holder EXCEPT ![ValMutex(call[t].obj)] = None]
  PROVE  /\ holder' \in [Mutexes -> Threads \cup {None}] /\ HolderOK'
         /\ holder'[ValMutex(call[t].obj)] = None
         /\ \A m \in Mutexes : m # ValMutex(call[t].obj) => holder'[m] = holder[m]
<1>1. PICK o \in Objects : o = call[t].obj /\ holder[ValMutex(o)] = t
  BY OneTells
<1>2. /\ holder' \in [Mutexes -> Threads \cup {None}] /\ holder'[ValMutex(o)] = None
      /\ \A m \in Mutexes : m # ValMutex(o) => holder'[m] = holder[m]
  BY <1>1, CallFacts, DifferentMutexes
<1>3. PICK c \in Call : c = Left(t) /\ c.pc \in {"none", "next"}
                        /\ (c.op = "LoadFromYaml" <=> call[t].op = "LoadFromYaml")
  BY LeftFacts
<1>4. \A m \in Mutexes : holder'[m] = holder[m] \/ {holder[m], holder'[m]} \subseteq {t, None}
  BY <1>1, <1>2
<1>5. holder'[Registry] = t <=> c.op = "LoadFromYaml"
  BY <1>1, <1>2, <1>3, CallFacts, DifferentMutexes
<1>6. ASSUME NEW p \in Objects
      PROVE  /\ holder'[ValMutex(p)] = t <=> c.pc \in {"copy", "tell"} /\ c.obj = p
             /\ holder'[CbMutex(p)] = t <=> c.pc = "insert" /\ c.obj = p
  <2>1. holder'[ValMutex(p)] # t
    <3>1. CASE p = o
      BY <1>2, <3>1, CallFacts
    <3>2. CASE p # o
      BY <1>1, <1>2, <3>2, CallFacts, DifferentMutexes
    <3> QED
      BY <3>1, <3>2
  <2>2. holder'[CbMutex(p)] # t
    BY <1>1, <1>2, CallFacts, DifferentMutexes
  <2> QED
    BY <1>3, <2>1, <2>2
<1>7. call' = [call EXCEPT ![t] = c]
  BY <1>3
<1>8. HolderOK'
  <2>1. \A p \in Objects : /\ holder'[ValMutex(p)] = t <=> c.pc \in {"copy", "tell"} /\ c.obj = p
                           /\ holder'[CbMutex(p)] = t <=> c.pc = "insert" /\ c.obj = p
    BY <1>6
  <2>2. holder' \in [Mutexes -> Threads \cup {None}]
    BY <1>2
  <2> QED
    BY <1>4, <1>5, <1>7, <2>1, <2>2, HolderStep, ZenonT(40)
<1> QED
  BY <1>1, <1>2, <1>8

LEMMA StoreStep ==
  ASSUME CInv, NEW t \in Threads, Store(t)
  PROVE  CInv'
<1>1. /\ call[t].pc = "tell" /\ call[t].todo = <<>> /\ call' = [call EXCEPT ![t] = Left(t)]
      /\ holder' = [holder EXCEPT ![ValMutex(call[t].obj)] = None]
      /\ UNCHANGED <<datas, type, callbacks, key, listener, on, view>>
  BY DEF Store, ToldAll, At, Leave, Left
<1>2. PICK o \in Objects : o = call[t].obj /\ o \in Made
  BY <1>1, CallFacts DEF PlaceOK, Made
<1>3. call[t].new \in Values /\ call[t] \in Call
  <2>1. call[t] \in Call
    BY CallFacts
  <2> QED
    BY <2>1 DEF Call
<1>4. /\ val' = [val EXCEPT ![o] = call[t].new] /\ broken' = broken \ {o}
      /\ val' \in [Objects -> Values] /\ val'[o] = call[t].new
      /\ \A p \in Objects : p # o => val'[p] = val[p]
  BY <1>2, <1>3 DEF Store, CInv, Typed, TypeOK
<1>5. /\ holder' \in [Mutexes -> Threads \cup {None}] /\ HolderOK'
      /\ \A m \in Mutexes : m # ValMutex(o) => holder'[m] = holder[m]
  BY <1>1, <1>2, UnlockedFacts
<1>6. PICK c \in Call : c = Left(t) /\ c.pc \in {"none", "next"} /\ (c.op = "none" <=> c.pc = "none")
                        /\ c.op \in {"none", "LoadFromYaml"}
  BY <1>1, LeftFacts
<1>7. /\ call' = [call EXCEPT ![t] = c] /\ call'[t] = c
      /\ \A u \in Threads : u # t => call'[u] = call[u]
  BY <1>1, <1>6, CallFacts
<1>8. PlaceOK(t)'
  BY <1>6, <1>7 DEF PlaceOK
<1>9. ASSUME NEW l \in Listeners, listener[l] = "subscribed"
      PROVE  /\ Free(ValMutex(on[l]))' /\ on[l] \notin broken' => view'[l] = val'[on[l]]
             /\ \A u \in Threads : call'[u].pc = "tell" /\ call'[u].obj = on[l]
                                   => l \in Told(call'[u].todo) \/ view'[l] = call'[u].new
  <2>1. ASSUME NEW u \in Threads, call'[u].pc = "tell", call'[u].obj = on[l]
        PROVE  l \in Told(call'[u].todo) \/ view'[l] = call'[u].new
    BY <1>1, <1>6, <1>7, <1>9, <2>1, SubscribedFacts, SMTT(30)
  <2>2. CASE on[l] = o
    <3>1. view[l] = call[t].new
      BY <1>1, <1>2, <1>9, <2>2, SubscribedFacts, EmptyMap
    <3> QED
      BY <1>1, <1>4, <2>1, <2>2, <3>1
  <2>3. CASE on[l] # o
    <3>1. on[l] \in Objects /\ ValMutex(on[l]) # ValMutex(o) /\ ValMutex(on[l]) \in Mutexes
      BY <1>9, <2>3, SubscribedFacts, DifferentMutexes
    <3>2. Free(ValMutex(on[l]))' => Free(ValMutex(on[l]))
      BY <1>1, <1>5, <3>1 DEF Free, ValMutex
    <3> QED
      BY <1>1, <1>4, <1>9, <2>1, <2>3, <3>1, <3>2, SubscribedFacts
  <2> QED
    BY <2>2, <2>3
<1> QED
  <2>1. /\ call[t].pc \notin {"begin", "insert"} /\ c.pc \notin {"begin", "insert"}
        /\ view' \in [Listeners -> Values] /\ broken' \subseteq Objects
    BY <1>1, <1>4, <1>6 DEF CInv, Typed, TypeOK
  <2> QED
    BY <1>1, <1>4, <1>5, <1>6, <1>7, <1>8, <1>9, <2>1, ValueStep

\* The listener that is told next: it is one of the variable's own.
LEMMA NextTold ==
  ASSUME CInv, NEW t \in Threads, call[t].pc = "tell", call[t].todo # <<>>,
         NEW k, k = Min(DOMAIN call[t].todo)
  PROVE  /\ k \in DOMAIN call[t].todo /\ call[t].todo[k] \in Listeners
         /\ on[call[t].todo[k]] = call[t].obj
         /\ call[t].new \in Values
         /\ Rest(call[t].todo, k) \in KeyMaps
         /\ DOMAIN Rest(call[t].todo, k) = DOMAIN call[t].todo \ {k}
         /\ \A j \in DOMAIN call[t].todo \ {k} : Rest(call[t].todo, k)[j] = call[t].todo[j]
<1>1. call[t] \in Call
  BY CallFacts
<1>2. PICK f \in KeyMaps : f = call[t].todo
  BY <1>1 DEF Call
<1>3. DOMAIN f \in SUBSET Keys /\ DOMAIN f # {} /\ \A j \in DOMAIN f : f[j] \in Listeners
  BY <1>2, MapFacts
<1>4. k \in DOMAIN f
  BY <1>2, <1>3, MinKey
<1>5. on[f[k]] = call[t].obj
  BY <1>2, <1>4, CallFacts DEF PlaceOK
<1>6. call[t].new \in Values
  BY <1>1 DEF Call
<1>7. PICK S \in SUBSET (DOMAIN f) : S = DOMAIN f \ {k}
  OBVIOUS
<1>8. /\ Restricted(f, S) \in KeyMaps /\ DOMAIN Restricted(f, S) = S
      /\ \A j \in S : Restricted(f, S)[j] = f[j]
  BY RestrictedMap
<1>9. Rest(call[t].todo, k) = Restricted(f, S)
  BY <1>2, <1>7 DEF Rest
<1> QED
  BY <1>2, <1>3, <1>4, <1>5, <1>6, <1>7, <1>8, <1>9

LEMMA TellStep ==
  ASSUME CInv, NEW t \in Threads, Tell(t)
  PROVE  CInv'
<1>1. PICK k : k = Min(DOMAIN call[t].todo)
  OBVIOUS
<1>2. /\ call[t].pc = "tell" /\ call[t].todo # <<>>
      /\ UNCHANGED <<datas, type, val, callbacks, key, listener, on>>
  BY DEF Tell, At
<1>3. PICK l \in Listeners : /\ l = call[t].todo[k] /\ on[l] = call[t].obj
  BY <1>1, <1>2, NextTold, ZenonT(40)
<1>4. PICK o \in Objects : o = call[t].obj /\ o \in Made
  BY <1>2, CallFacts DEF PlaceOK, Made
<1>5. /\ view' = [view EXCEPT ![l] = call[t].new] /\ view' \in [Listeners -> Values]
      /\ view'[l] = call[t].new /\ \A m \in Listeners : m # l => view'[m] = view[m]
  <2>1. view' = [view EXCEPT ![l] = call[t].new]
    BY <1>1, <1>3 DEF Tell
  <2>2. call[t].new \in Values
    BY <1>1, <1>2, NextTold
  <2> QED
    BY <2>1, <2>2 DEF CInv, Typed, TypeOK
<1>6. CASE Does[l] = "throw"
  <2>1. /\ call' = [call EXCEPT ![t] = Left(t)]
        /\ holder' = [holder EXCEPT ![ValMutex(call[t].obj)] = None] /\ broken' = broken \cup {o}
    BY <1>1, <1>3, <1>4, <1>6 DEF Tell, Leave, Left, Unlocked
  <2>2. /\ holder' \in [Mutexes -> Threads \cup {None}] /\ HolderOK'
        /\ \A m \in Mutexes : m # ValMutex(o) => holder'[m] = holder[m]
    BY <1>2, <1>4, <2>1, UnlockedFacts
  <2>3. PICK c \in Call : c = Left(t) /\ c.pc \in {"none", "next"} /\ (c.op = "none" <=> c.pc = "none")
                          /\ c.op \in {"none", "LoadFromYaml"}
    BY <1>2, LeftFacts
  <2>4. /\ call' = [call EXCEPT ![t] = c] /\ call'[t] = c
        /\ \A u \in Threads : u # t => call'[u] = call[u]
    BY <2>1, <2>3, CallFacts
  <2>5. PlaceOK(t)'
    BY <2>3, <2>4 DEF PlaceOK
  <2>6. ASSUME NEW m \in Listeners, listener[m] = "subscribed"
        PROVE  /\ Free(ValMutex(on[m]))' /\ on[m] \notin broken' => view'[m] = val'[on[m]]
               /\ \A u \in Threads : call'[u].pc = "tell" /\ call'[u].obj = on[m]
                                     => m \in Told(call'[u].todo) \/ view'[m] = call'[u].new
    <3>1. CASE on[m] = o
      <4>1. ~ \E u \in Threads : call'[u].pc = "tell" /\ call'[u].obj = on[m]
        BY <1>2, <1>4, <2>3, <2>4, <3>1, OneTells
      <4> QED
        BY <1>2, <2>1, <3>1, <4>1
    <3>2. CASE on[m] # o
      <4>1. view'[m] = view[m]
        BY <1>3, <1>4, <1>5, <3>2
      <4>2. on[m] \in Objects /\ ValMutex(on[m]) # ValMutex(o) /\ ValMutex(on[m]) \in Mutexes
        BY <2>6, <3>2, SubscribedFacts, DifferentMutexes
      <4>3. Free(ValMutex(on[m]))' => Free(ValMutex(on[m]))
        BY <1>2, <2>2, <4>2 DEF Free, ValMutex
      <4> QED
        BY <1>2, <2>1, <2>3, <2>4, <2>6, <3>2, <4>1, <4>3, SubscribedFacts
    <3> QED
      BY <3>1, <3>2
  <2> QED
    <3>1. /\ call[t].pc \notin {"begin", "insert"} /\ c.pc \notin {"begin", "insert"}
          /\ val' \in [Objects -> Values] /\ broken' \subseteq Objects
      BY <1>2, <2>1, <2>3 DEF CInv, Typed, TypeOK
    <3> QED
      BY <1>2, <1>5, <2>2, <2>3, <2>4, <2>5, <2>6, <3>1, ValueStep
<1>7. CASE Does[l] # "throw"
  <2> DEFINE c == [call[t] EXCEPT !.todo = Rest(call[t].todo, k)]
  <2>1. call' = [call EXCEPT ![t] = c] /\ UNCHANGED <<holder, broken>>
    BY <1>1, <1>3, <1>7 DEF Tell
  <2>2. c \in Call /\ c.op = call[t].op /\ c.pc = "tell" /\ c.obj = o /\ c.new = call[t].new
        /\ c.todo = Rest(call[t].todo, k)
    <3>1. call[t] \in Call
      BY CallFacts
    <3>2. Rest(call[t].todo, k) \in KeyMaps
      BY <1>1, <1>2, NextTold
    <3> QED
      BY <1>2, <1>4, <3>1, <3>2 DEF Call
  <2> HIDE DEF c
  <2>8. PICK f : f = call[t].todo
    OBVIOUS
  <2>9. PICK g : g = c.todo
    OBVIOUS
  <2>7. /\ f = call[t].todo /\ g = c.todo /\ DOMAIN g = DOMAIN f \ {k}
        /\ \A j \in DOMAIN f \ {k} : g[j] = f[j]
    <3>1. DOMAIN Rest(f, k) = DOMAIN f \ {k} /\ \A j \in DOMAIN f \ {k} : Rest(f, k)[j] = f[j]
      BY DEF Rest, Restricted
    <3>2. g = Rest(f, k)
      BY <2>2, <2>8, <2>9
    <3> QED
      BY <2>8, <2>9, <3>1, <3>2
  <2>3. call'[t] = c /\ \A u \in Threads : u # t => call'[u] = call[u]
    BY <2>1, CallFacts
  <2>4. holder' \in [Mutexes -> Threads \cup {None}] /\ HolderOK'
    <3>1. holder' \in [Mutexes -> Threads \cup {None}] /\ \A m \in Mutexes : holder'[m] = holder[m]
      BY <2>1, CallFacts
    <3>2. holder'[Registry] = t <=> c.op = "LoadFromYaml"
      BY <2>1, <2>2, CallFacts
    <3>3. \A p \in Objects : /\ holder'[ValMutex(p)] = t <=> c.pc \in {"copy", "tell"} /\ c.obj = p
                             /\ holder'[CbMutex(p)] = t <=> c.pc = "insert" /\ c.obj = p
      BY <1>2, <1>4, <2>1, <2>2, CallFacts
    <3> QED
      BY <2>1, <2>2, <3>1, <3>2, <3>3, HolderStep, ZenonT(40)
  <2>5. PlaceOK(t)'
    <3>1. /\ on' = on /\ Made' = Made /\ call[t].op # "none" /\ call[t].op # "addValChangeCB"
      BY <1>2, CallFacts DEF PlaceOK, Made
    <3>2. \A j \in DOMAIN call[t].todo : on[call[t].todo[j]] = o
      BY <1>2, <1>4, CallFacts DEF PlaceOK
    <3>3. \A j \in DOMAIN c.todo : on[c.todo[j]] = o
      BY <2>7, <3>2
    <3> QED
      BY <1>4, <2>2, <2>3, <3>1, <3>3 DEF PlaceOK
  <2>6. ASSUME NEW m \in Listeners, listener[m] = "subscribed"
        PROVE  /\ Free(ValMutex(on[m]))' /\ on[m] \notin broken' => view'[m] = val'[on[m]]
               /\ \A u \in Threads : call'[u].pc = "tell" /\ call'[u].obj = on[m]
                                     => m \in Told(call'[u].todo) \/ view'[m] = call'[u].new
    <3>1. Free(ValMutex(on[m]))' <=> Free(ValMutex(on[m]))
      BY <1>2, <2>1 DEF Free, ValMutex
    <3>2. CASE on[m] = o
      <4>1. ~ Free(ValMutex(on[m]))'
        BY <1>2, <1>4, <3>1, <3>2, OneTells
      <4>2. m \in Told(c.todo) \/ view'[m] = c.new
        <5>1. CASE m = l
          BY <1>5, <2>2, <5>1
        <5>2. CASE m # l
          <6>1. m \in Told(call[t].todo) \/ view[m] = call[t].new
            BY <1>2, <1>4, <2>6, <3>2, SubscribedFacts
          <6>2. ASSUME m \in Told(call[t].todo) PROVE m \in Told(c.todo)
            <7>1. PICK j \in DOMAIN call[t].todo : m = call[t].todo[j]
              BY <6>2 DEF Told
            <7>2. j # k
              BY <1>3, <5>2, <7>1
            <7>3. j \in DOMAIN c.todo /\ c.todo[j] = m
              BY <2>7, <7>1, <7>2
            <7> QED
              BY <7>3 DEF Told
          <6> QED
            BY <1>5, <2>2, <5>2, <6>1, <6>2
        <5> QED
          BY <5>1, <5>2
      <4>3. \A u \in Threads : u # t => ~(call'[u].pc = "tell" /\ call'[u].obj = on[m])
        BY <1>2, <1>4, <2>3, <3>2, OneTells
      <4> QED
        BY <2>3, <4>1, <4>2, <4>3
    <3>3. CASE on[m] # o
      <4>1. view'[m] = view[m]
        BY <1>3, <1>4, <1>5, <3>3
      <4> QED
        BY <1>2, <2>1, <2>2, <2>3, <2>6, <3>1, <3>3, <4>1, SubscribedFacts
    <3> QED
      BY <3>2, <3>3
  <2> QED
    <3>1. /\ call[t].pc \notin {"begin", "insert"} /\ c.pc \notin {"begin", "insert"}
          /\ val' \in [Objects -> Values] /\ broken' \subseteq Objects
      BY <1>2, <2>1, <2>2 DEF CInv, Typed, TypeOK
    <3> QED
      BY <1>2, <1>5, <2>1, <2>2, <2>4, <2>5, <2>6, <3>1, ValueStep
<1> QED
  BY <1>6, <1>7

-----------------------------------------------------------------------------
(* The registry and the listeners.                                         *)

LEMMA LookupStep ==
  ASSUME CInv, NEW t \in Threads, NEW n \in Names, NEW ty \in Types, Lookup(t, n, ty)
  PROVE  CInv'
<1>1. PICK o \in Objects : /\ o \notin Made
                           /\ datas' = [datas EXCEPT ![n] = o] /\ type' = [type EXCEPT ![o] = ty]
  BY DEF Lookup, Made
<1>2. UNCHANGED <<val, callbacks, key, holder, call, listener, on, view, broken>>
  BY DEF Lookup
<1>3. /\ type' \in [Objects -> Types \cup {None}] /\ datas' \in [Names -> Objects \cup {None}]
      /\ type'[o] = ty /\ \A p \in Objects : p # o => type'[p] = type[p]
      /\ \A m \in Names : datas'[m] = o \/ datas'[m] = datas[m]
  BY <1>1 DEF CInv, Typed, TypeOK
<1>4. /\ Made' \subseteq Objects /\ o \in Made' /\ \A p \in Made : p \in Made'
      /\ \A p \in Made : p \in Objects /\ type'[p] = type[p]
  BY <1>1, <1>3 DEF Made
<1>5. Typed'
  BY <1>2, <1>3 DEF CInv, Typed, TypeOK, Told
<1>6. HolderOK'
  BY <1>2 DEF CInv, HolderOK, Registry, ValMutex, CbMutex
<1>7. \A m \in Names : datas'[m] # None => datas'[m] \in Made'
  BY <1>3, <1>4 DEF CInv
<1>8. \A ut \in Types : key'[ut] <= Cardinality(Inserted')
  BY <1>2 DEF CInv, Inserted
<1>9. ASSUME NEW u \in Threads PROVE PlaceOK(u)'
  BY <1>2, <1>4, CallFacts DEF PlaceOK
<1>10. ASSUME NEW p \in Objects PROVE CallbacksOK(p)'
  BY <1>2, <1>4 DEF CInv, CallbacksOK, Inserted
<1>11. ASSUME NEW l \in Listeners PROVE ListenerOK(l)'
  BY <1>2, <1>4 DEF CInv, ListenerOK, Free, ValMutex, Told
<1> QED
  BY <1>5, <1>6, <1>7, <1>8, <1>9, <1>10, <1>11 DEF CInv

LEMMA getValStep ==
  ASSUME CInv, NEW t \in Threads, NEW l \in Listeners, getVal(t, l)
  PROVE  CInv'
<1>1. /\ listener[l] = "added" /\ holder[ValMutex(on[l])] = None
      /\ listener' = [listener EXCEPT ![l] = "subscribed"]
      /\ view' = [view EXCEPT ![l] = val[on[l]]]
      /\ UNCHANGED <<datas, type, val, callbacks, key, holder, call, on, broken>>
  BY DEF getVal, ValFree, Free
<1>2. on[l] \in Made /\ on[l] \in Objects /\ l \in Told(callbacks[on[l]])
  BY <1>1 DEF CInv, ListenerOK, Made
<1>3. /\ listener'[l] = "subscribed" /\ view'[l] = val[on[l]]
      /\ \A m \in Listeners : m # l => listener'[m] = listener[m] /\ view'[m] = view[m]
      /\ listener' \in [Listeners -> {"new", "adding", "added", "subscribed", "cleared", "dropped"}]
      /\ view' \in [Listeners -> Values]
  BY <1>1, <1>2 DEF CInv, Typed, TypeOK
<1>4. Inserted' = Inserted
  BY <1>1, <1>3 DEF Inserted
<1>5. Typed'
  BY <1>1, <1>3 DEF CInv, Typed, TypeOK, Told
<1>6. HolderOK'
  BY <1>1 DEF CInv, HolderOK, Registry, ValMutex, CbMutex
<1>7. (\A m \in Names : datas'[m] # None => datas'[m] \in Made')
      /\ \A ut \in Types : key'[ut] <= Cardinality(Inserted')
  BY <1>1, <1>4 DEF CInv, Made
<1>8. ASSUME NEW u \in Threads PROVE PlaceOK(u)'
  BY <1>1, <1>3, CallFacts DEF PlaceOK, Made
<1>9. ASSUME NEW p \in Objects PROVE CallbacksOK(p)'
  BY <1>1, <1>4 DEF CInv, CallbacksOK, Made
<1>10. ASSUME NEW m \in Listeners PROVE ListenerOK(m)'
  <2>1. CASE m = l
    <3>1. \A u \in Threads : ~(call[u].pc = "tell" /\ call[u].obj = on[l])
      BY <1>1, <1>2, CallFacts
    <3> QED
      BY <1>1, <1>2, <1>3, <2>1, <3>1 DEF ListenerOK, Made, Told
  <2>2. CASE m # l
    BY <1>1, <1>3, <2>2 DEF CInv, ListenerOK, Made, Told, Free, ValMutex
  <2> QED
    BY <2>1, <2>2
<1> QED
  BY <1>5, <1>6, <1>7, <1>8, <1>9, <1>10 DEF CInv

LEMMA addValChangeCBStep ==
  ASSUME CInv, NEW t \in Threads, NEW o \in Objects, NEW l \in Listeners, addValChangeCB(t, o, l)
  PROVE  CInv'
<1> DEFINE c == [NoCall EXCEPT !.op = "addValChangeCB", !.pc = "begin", !.obj = o, !.listener = l]
<1>1. /\ o \in Made /\ listener[l] = "new" /\ call[t].pc = "none"
      /\ call' = [call EXCEPT ![t] = c]
      /\ listener' = [listener EXCEPT ![l] = "adding"] /\ on' = [on EXCEPT ![l] = o]
      /\ UNCHANGED <<datas, type, val, callbacks, key, holder, view, broken>>
  BY DEF addValChangeCB, Begin, At
<1>2. c \in Call /\ c.op = "addValChangeCB" /\ c.pc = "begin" /\ c.obj = o /\ c.listener = l
  BY NoCallTyped DEF Call
<1> HIDE DEF c
<1>3. /\ listener'[l] = "adding" /\ on'[l] = o /\ call'[t] = c
      /\ \A m \in Listeners : m # l => listener'[m] = listener[m] /\ on'[m] = on[m]
      /\ listener' \in [Listeners -> {"new", "adding", "added", "subscribed", "cleared", "dropped"}]
      /\ on' \in [Listeners -> Objects \cup {None}]
      /\ \A u \in Threads : u # t => call'[u] = call[u]
  BY <1>1, CallFacts DEF CInv, Typed, TypeOK
<1>4. Inserted' = Inserted /\ Made' = Made /\ l \notin Inserted /\ on[l] = None
  BY <1>1, <1>3 DEF Inserted, Made, CInv, ListenerOK
<1>5. Typed'
  <2>1. call' \in [Threads -> Call]
    BY <1>1, <1>2 DEF CInv, Typed
  <2>2. \A u \in Threads :
          /\ call'[u].op \in {"none", "setVal", "LoadFromYaml", "addValChangeCB"}
          /\ call'[u].pc \in {"none", "next", "lock", "copy", "tell", "store", "begin", "insert"}
          /\ call'[u].obj \in Objects \cup {None} /\ DOMAIN call'[u].todo \subseteq Keys
    BY <2>1, MapFacts DEF Call
  <2> QED
    BY <1>1, <1>3, <2>1, <2>2 DEF CInv, Typed, TypeOK, Told
<1>6. HolderOK'
  <2>1. holder' \in [Mutexes -> Threads \cup {None}] /\ \A m \in Mutexes : holder'[m] = holder[m]
    BY <1>1, CallFacts
  <2>2. holder'[Registry] = t <=> c.op = "LoadFromYaml"
    BY <1>1, <1>2, CallFacts DEF PlaceOK
  <2>3. \A p \in Objects : /\ holder'[ValMutex(p)] = t <=> c.pc \in {"copy", "tell"} /\ c.obj = p
                           /\ holder'[CbMutex(p)] = t <=> c.pc = "insert" /\ c.obj = p
    BY <1>1, <1>2, CallFacts, SMTT(30)
  <2> QED
    BY <1>1, <1>2, <2>1, <2>2, <2>3, HolderStep, ZenonT(40)
<1>7. (\A m \in Names : datas'[m] # None => datas'[m] \in Made')
      /\ \A ut \in Types : key'[ut] <= Cardinality(Inserted')
  BY <1>1, <1>4 DEF CInv
<1>8. ASSUME NEW u \in Threads, u # t, call[u].pc \in {"begin", "insert"}
      PROVE  call[u].listener # l /\ call[u].listener \in Listeners
  BY <1>1, <1>8, CallFacts DEF PlaceOK
<1>9. ASSUME NEW u \in Threads PROVE PlaceOK(u)'
  <2>1. CASE u = t
    BY <1>1, <1>2, <1>3, <1>4, <1>8, <2>1 DEF PlaceOK
  <2>2. CASE u # t
    <3>1. ASSUME call[u].pc = "tell", NEW k \in DOMAIN call[u].todo
          PROVE  on'[call[u].todo[k]] = call[u].obj
      <4>1. call[u].obj # None /\ on[call[u].todo[k]] = call[u].obj /\ call[u] \in Call
        BY <3>1, CallFacts DEF PlaceOK, Made
      <4>2. PICK f \in KeyMaps : f = call[u].todo
        BY <4>1 DEF Call
      <4>3. f[k] \in Listeners
        BY <3>1, <4>2, MapFacts
      <4> QED
        BY <1>3, <1>4, <4>1, <4>2, <4>3
    <3>2. call'[u] = call[u] /\ PlaceOK(u)
      BY <1>3, <2>2, CallFacts
    <3>3. ASSUME call[u].pc \in {"begin", "insert"}
          PROVE  /\ call[u].listener \in Listeners /\ listener'[call[u].listener] = "adding"
                 /\ on'[call[u].listener] = call[u].obj
                 /\ \A w \in Threads : w # u /\ call'[w].pc \in {"begin", "insert"}
                                       => call'[w].listener # call[u].listener
      BY <1>2, <1>3, <1>8, <2>2, <3>2, <3>3 DEF PlaceOK
    <3> QED
      BY <1>1, <1>4, <3>1, <3>2, <3>3 DEF PlaceOK
  <2> QED
    BY <2>1, <2>2
<1>10. ASSUME NEW p \in Objects PROVE CallbacksOK(p)'
  <2>1. \A k \in DOMAIN callbacks[p] : callbacks[p][k] # l /\ callbacks[p][k] \in Listeners
    BY <1>4 DEF CInv, CallbacksOK, Inserted
  <2> QED
    BY <1>1, <1>3, <1>4, <2>1 DEF CInv, CallbacksOK
<1>11. ASSUME NEW m \in Listeners PROVE ListenerOK(m)'
  <2>1. CASE m = l
    BY <1>1, <1>3, <1>4, <2>1 DEF ListenerOK
  <2>2. CASE m # l
    <3>1. ListenerOK(m) /\ listener'[m] = listener[m] /\ on'[m] = on[m]
      BY <1>3, <2>2 DEF CInv
    <3>2. ASSUME listener[m] = "subscribed", NEW u \in Threads,
                 call'[u].pc = "tell", call'[u].obj = on[m]
          PROVE  m \in Told(call'[u].todo) \/ view[m] = call'[u].new
      BY <1>2, <1>3, <3>2, SubscribedFacts
    <3>3. IF listener'[m] = "new" THEN on'[m] = None ELSE on'[m] \in Made'
      BY <1>4, <3>1 DEF ListenerOK
    <3>4. listener'[m] \in {"added", "subscribed"} => m \in Told(callbacks[on[m]])'
      BY <1>1, <3>1 DEF ListenerOK, Told
    <3>5. ASSUME listener'[m] = "subscribed"
          PROVE  Free(ValMutex(on[m]))' /\ on'[m] \notin broken' => view'[m] = val'[on'[m]]
      BY <1>1, <3>1, <3>5 DEF ListenerOK, Free, ValMutex
    <3>6. ASSUME listener'[m] = "subscribed", NEW u \in Threads,
                 call'[u].pc = "tell", call'[u].obj = on'[m]
          PROVE  m \in Told(call[u].todo)' \/ view'[m] = call'[u].new
      <4>1. m \in Told(call'[u].todo) \/ view[m] = call'[u].new
        BY <3>1, <3>2, <3>6
      <4> QED
        BY <1>1, <4>1 DEF Told
    <3> QED
      BY <3>3, <3>4, <3>5, <3>6 DEF ListenerOK
  <2> QED
    BY <2>1, <2>2
<1> QED
  BY <1>5, <1>6, <1>7, <1>9, <1>10, <1>11 DEF CInv

LEMMA ReadKeyStep ==
  ASSUME CInv, NEW t \in Threads, ReadKey(t)
  PROVE  CInv'
<1>1. PICK o \in Objects : o = call[t].obj /\ o \in Made
  BY CallFacts DEF ReadKey, At, PlaceOK, Made
<1>2. PICK k \in Keys : k = key[type[o]] /\ k \in Nat
  BY <1>1, KeysFinite DEF CInv, Typed, TypeOK, Made
<1>3. k + 1 \notin DOMAIN callbacks[o]
  <2>1. \A j \in DOMAIN callbacks[o] : j \in Nat /\ j < k
    BY <1>2, MapFacts, KeysFinite DEF CInv, CallbacksOK, Typed
  <2> QED
    BY <1>2, <2>1
<1> DEFINE c == [call[t] EXCEPT !.pc = "insert", !.key = k]
<1>4. /\ call[t].pc = "begin" /\ holder[CbMutex(o)] = None
      /\ call' = [call EXCEPT ![t] = c] /\ holder' = [holder EXCEPT ![CbMutex(o)] = t]
      /\ UNCHANGED <<datas, type, val, callbacks, key, listener, on, view, broken>>
  BY <1>1, <1>2, <1>3 DEF ReadKey, At, Free
<1>5. c \in Call /\ c.op = call[t].op /\ c.pc = "insert" /\ c.obj = o /\ c.key = k
      /\ c.listener = call[t].listener
  <2>1. call[t] \in Call
    BY CallFacts
  <2> QED
    BY <1>1, <2>1 DEF Call
<1> HIDE DEF c
<1>6. /\ holder' \in [Mutexes -> Threads \cup {None}] /\ holder'[CbMutex(o)] = t
      /\ \A m \in Mutexes : m # CbMutex(o) => holder'[m] = holder[m]
  BY <1>4, CallFacts, DifferentMutexes
<1>7. call'[t] = c /\ \A u \in Threads : u # t => call'[u] = call[u]
  BY <1>4, CallFacts
<1>8. HolderOK'
  <2>1. \A m \in Mutexes : holder'[m] = holder[m] \/ {holder[m], holder'[m]} \subseteq {t, None}
    BY <1>4, <1>6
  <2>2. holder'[Registry] = t <=> c.op = "LoadFromYaml"
    BY <1>5, <1>6, CallFacts, DifferentMutexes
  <2>3. ASSUME NEW p \in Objects
        PROVE  /\ holder'[ValMutex(p)] = t <=> c.pc \in {"copy", "tell"} /\ c.obj = p
               /\ holder'[CbMutex(p)] = t <=> c.pc = "insert" /\ c.obj = p
    <3>1. CASE p = o
      BY <1>4, <1>5, <1>6, <3>1, CallFacts, DifferentMutexes
    <3>2. CASE p # o
      BY <1>4, <1>5, <1>6, <3>2, CallFacts, DifferentMutexes
    <3> QED
      BY <3>1, <3>2
  <2>4. c \in Call /\ call' = [call EXCEPT ![t] = c] /\ holder' \in [Mutexes -> Threads \cup {None}]
    BY <1>4, <1>5, <1>6
  <2> QED
    BY <2>1, <2>2, <2>3, <2>4, HolderStep
<1>9. Typed'
  <2>1. call' \in [Threads -> Call]
    BY <1>4, <1>5 DEF CInv, Typed
  <2>2. \A u \in Threads :
          /\ call'[u].op \in {"none", "setVal", "LoadFromYaml", "addValChangeCB"}
          /\ call'[u].pc \in {"none", "next", "lock", "copy", "tell", "store", "begin", "insert"}
          /\ call'[u].obj \in Objects \cup {None} /\ DOMAIN call'[u].todo \subseteq Keys
    BY <2>1, MapFacts DEF Call
  <2> QED
    BY <1>4, <1>6, <2>1, <2>2 DEF CInv, Typed, TypeOK, Told
<1>10. Inserted' = Inserted /\ Made' = Made
  BY <1>4 DEF Inserted, Made
<1>11. (\A m \in Names : datas'[m] # None => datas'[m] \in Made')
       /\ \A ut \in Types : key'[ut] <= Cardinality(Inserted')
  BY <1>4, <1>10 DEF CInv
<1>12. ASSUME NEW u \in Threads PROVE PlaceOK(u)'
  <2>1. PlaceOK(u) /\ PlaceOK(t) /\ call[t].pc = "begin"
    BY <1>4, CallFacts
  <2>2. CASE u = t
    BY <1>1, <1>2, <1>4, <1>5, <1>7, <1>10, <2>1, <2>2 DEF PlaceOK
  <2>3. CASE u # t
    BY <1>4, <1>5, <1>7, <1>10, <2>1, <2>3 DEF PlaceOK
  <2> QED
    BY <2>2, <2>3
<1>13. ASSUME NEW p \in Objects PROVE CallbacksOK(p)'
  BY <1>4, <1>10 DEF CInv, CallbacksOK
<1>14. ASSUME NEW m \in Listeners PROVE ListenerOK(m)'
  <2>1. ListenerOK(m)
    BY DEF CInv
  <2>2. ASSUME listener[m] = "subscribed", NEW u \in Threads,
               call'[u].pc = "tell", call'[u].obj = on[m]
        PROVE  m \in Told(call'[u].todo) \/ view[m] = call'[u].new
    BY <1>5, <1>7, <2>2, SubscribedFacts
  <2>3. ASSUME listener[m] = "subscribed", Free(ValMutex(on[m]))'
        PROVE  Free(ValMutex(on[m]))
    BY <1>4, <1>6, <2>3, SubscribedFacts, DifferentMutexes DEF Free, ValMutex
  <2> QED
    BY <1>4, <1>10, <2>1, <2>2, <2>3 DEF ListenerOK, Told
<1> QED
  BY <1>8, <1>9, <1>11, <1>12, <1>13, <1>14 DEF CInv

LEMMA InsertCBStep ==
  ASSUME CInv, CountsAlone, NEW t \in Threads, InsertCB(t)
  PROVE  CInv'
<1>1. PICK o \in Objects : o = call[t].obj /\ o \in Made
  BY CallFacts DEF InsertCB, At, PlaceOK, Made
<1>2. PICK l \in Listeners : /\ l = call[t].listener /\ listener[l] = "adding" /\ on[l] = o
                             /\ \A u \in Threads : u # t /\ call[u].pc \in {"begin", "insert"}
                                                   => call[u].listener # l
  BY <1>1, CallFacts DEF InsertCB, At, PlaceOK
<1>3. PICK k \in Keys : k = call[t].key /\ k = key[type[o]] /\ k \in Nat
  <2>1. call[t].key = key[type[o]]
    BY <1>1, CallFacts DEF InsertCB, At, PlaceOK
  <2>2. key[type[o]] \in Keys
    BY <1>1 DEF CInv, Typed, TypeOK, Made
  <2> QED
    BY <2>1, <2>2, KeysFinite
<1>4. PICK old \in KeyMaps : old = callbacks[o]
  BY DEF CInv, Typed
<1> DEFINE new == [j \in DOMAIN old \cup {k} |-> IF j = k THEN l ELSE old[j]]
<1>5. /\ call[t].pc = "insert" /\ call' = [call EXCEPT ![t] = NoCall]
      /\ key' = [key EXCEPT ![type[o]] = k + 1]
      /\ callbacks' = [callbacks EXCEPT ![o] = new]
      /\ listener' = [listener EXCEPT ![l] = "added"]
      /\ holder' = [holder EXCEPT ![CbMutex(o)] = None]
      /\ UNCHANGED <<datas, type, val, on, view, broken>>
  BY <1>1, <1>2, <1>3, <1>4 DEF InsertCB, At, NextKey
<1>6. /\ new \in KeyMaps /\ DOMAIN new = DOMAIN old \cup {k} /\ new[k] = l
      /\ \A j \in DOMAIN old : new[j] = IF j = k THEN l ELSE old[j]
  <2>1. DOMAIN old \cup {k} \in SUBSET Keys /\ \A j \in DOMAIN new : new[j] \in Listeners
    BY MapFacts
  <2> QED
    BY <2>1, MapOf
<1> HIDE DEF new
<1>7. /\ callbacks' \in [Objects -> KeyMaps] /\ callbacks'[o] = new
      /\ \A p \in Objects : p # o => callbacks'[p] = callbacks[p]
      /\ listener'[l] = "added" /\ \A m \in Listeners : m # l => listener'[m] = listener[m]
      /\ listener' \in [Listeners -> {"new", "adding", "added", "subscribed", "cleared", "dropped"}]
      /\ holder' \in [Mutexes -> Threads \cup {None}] /\ holder'[CbMutex(o)] = None
      /\ \A m \in Mutexes : m # CbMutex(o) => holder'[m] = holder[m]
      /\ call'[t] = NoCall /\ \A u \in Threads : u # t => call'[u] = call[u]
  BY <1>5, <1>6, CallFacts, DifferentMutexes DEF CInv, Typed, TypeOK
<1>8. Made' = Made
  BY <1>5 DEF Made
<1>9. Inserted' = Inserted \cup {l} /\ l \notin Inserted
  BY <1>2, <1>7 DEF Inserted
<1>10. /\ Cardinality(Inserted') = Cardinality(Inserted) + 1
       /\ Cardinality(Inserted') <= Cardinality(Listeners)
  <2>1. Inserted' \subseteq Listeners
    BY <1>9 DEF Inserted
  <2> QED
    BY <1>9, <2>1, KeysFinite, FS_AddElement, FS_Subset
<1>11. k <= Cardinality(Inserted)
  BY <1>1, <1>3 DEF CInv, Typed, TypeOK, Made
<1>12. /\ key' \in [Types -> Keys] /\ key'[type[o]] = k + 1
       /\ \A ty \in Types : ty # type[o] => key'[ty] = key[ty]
       /\ \A ty \in Types : key'[ty] <= Cardinality(Inserted')
  <2>1. k + 1 \in Keys /\ k + 1 <= Cardinality(Inserted')
    BY <1>3, <1>10, <1>11, KeysFinite DEF Keys
  <2>2. type[o] \in Types /\ key \in [Types -> Keys]
    BY <1>1 DEF CInv, Typed, TypeOK, Made
  <2>3. /\ key' \in [Types -> Keys] /\ key'[type[o]] = k + 1
        /\ \A ty \in Types : ty # type[o] => key'[ty] = key[ty]
    BY <1>5, <2>1, <2>2
  <2>4. ASSUME NEW ty \in Types PROVE key'[ty] <= Cardinality(Inserted')
    <3>1. CASE ty = type[o]
      BY <2>1, <2>3, <3>1
    <3>2. CASE ty # type[o]
      <4>1. key[ty] <= Cardinality(Inserted) /\ key[ty] \in Nat
        BY <2>2, KeysFinite DEF CInv
      <4> QED
        BY <1>10, <2>3, <3>2, <4>1, KeysFinite
    <3> QED
      BY <3>1, <3>2
  <2> QED
    BY <2>3, <2>4
<1>13. Typed'
  <2>1. call' \in [Threads -> Call]
    BY <1>5, NoCallTyped DEF CInv, Typed
  <2>2. \A u \in Threads :
          /\ call'[u].op \in {"none", "setVal", "LoadFromYaml", "addValChangeCB"}
          /\ call'[u].pc \in {"none", "next", "lock", "copy", "tell", "store", "begin", "insert"}
          /\ call'[u].obj \in Objects \cup {None} /\ DOMAIN call'[u].todo \subseteq Keys
    BY <2>1, MapFacts DEF Call
  <2>3. \A p \in Objects : DOMAIN callbacks'[p] \subseteq Keys /\ Told(callbacks'[p]) \subseteq Listeners
    BY <1>7, MapFacts
  <2> QED
    BY <1>5, <1>7, <1>12, <2>1, <2>2, <2>3 DEF CInv, Typed, TypeOK, Told
<1>14. HolderOK'
  <2>1. NoCall \in Call /\ NoCall.op = "none" /\ NoCall.pc = "none"
    BY NoCallTyped
  <2>2. holder[CbMutex(o)] = t
    BY <1>1, <1>5, CallFacts
  <2>3. \A m \in Mutexes : holder'[m] = holder[m] \/ {holder[m], holder'[m]} \subseteq {t, None}
    BY <1>7, <2>2
  <2>4. holder'[Registry] = t <=> NoCall.op = "LoadFromYaml"
    BY <1>5, <1>7, <2>1, CallFacts, DifferentMutexes DEF PlaceOK
  <2>5. ASSUME NEW p \in Objects
        PROVE  /\ holder'[ValMutex(p)] = t <=> NoCall.pc \in {"copy", "tell"} /\ NoCall.obj = p
               /\ holder'[CbMutex(p)] = t <=> NoCall.pc = "insert" /\ NoCall.obj = p
    <3>1. CASE p = o
      BY <1>5, <1>7, <2>1, <3>1, CallFacts, DifferentMutexes
    <3>2. CASE p # o
      BY <1>1, <1>5, <1>7, <2>1, <3>2, CallFacts, DifferentMutexes
    <3> QED
      BY <3>1, <3>2
  <2>6. call' = [call EXCEPT ![t] = NoCall] /\ holder' \in [Mutexes -> Threads \cup {None}]
    BY <1>5, <1>7
  <2> QED
    BY <2>1, <2>3, <2>4, <2>5, <2>6, HolderStep
<1>15. \A m \in Names : datas'[m] # None => datas'[m] \in Made'
  BY <1>5, <1>8 DEF CInv
<1>16. ASSUME NEW u \in Threads PROVE PlaceOK(u)'
  <2>1. CASE u = t
    BY <1>7, <2>1, NoCallTyped DEF PlaceOK
  <2>2. CASE u # t
    <3>1. call'[u] = call[u] /\ PlaceOK(u)
      BY <1>7, <2>2, CallFacts
    <3>2. ASSUME call[u].pc \in {"begin", "insert"}
          PROVE  /\ call[u].listener \in Listeners /\ listener'[call[u].listener] = "adding"
                 /\ \A w \in Threads : w # u /\ call'[w].pc \in {"begin", "insert"}
                                       => call'[w].listener # call[u].listener
      BY <1>2, <1>7, <2>2, <3>1, <3>2, NoCallTyped, SMTT(30) DEF PlaceOK
    <3>3. ASSUME call[u].pc = "insert" PROVE call[u].key = key'[type[call[u].obj]]
      <4>1. PICK p \in Objects : p = call[u].obj /\ p \in Made
        BY <3>1, <3>3 DEF PlaceOK, Made
      <4>3. type[p] # type[o] /\ type[p] \in Types
        BY <1>1, <1>5, <2>2, <3>3, <4>1 DEF CountsAlone, CInv, Typed, TypeOK, Made
      <4> QED
        BY <1>12, <3>1, <3>3, <4>1, <4>3 DEF PlaceOK
    <3> QED
      BY <1>5, <1>8, <3>1, <3>2, <3>3 DEF PlaceOK
  <2> QED
    BY <2>1, <2>2
<1>17. ASSUME NEW p \in Objects PROVE CallbacksOK(p)'
  <2>1. \A j \in DOMAIN callbacks[p] :
          /\ p \in Made /\ j \in Nat /\ j < key[type[p]]
          /\ callbacks[p][j] \in Inserted' /\ on[callbacks[p][j]] = p
    BY <1>9, MapFacts, KeysFinite DEF CInv, CallbacksOK, Typed
  <2>2. CASE p = o
    <3>1. ASSUME NEW j \in DOMAIN new
          PROVE  j < k + 1 /\ new[j] \in Inserted' /\ on[new[j]] = o
      <4>1. CASE j = k
        BY <1>2, <1>3, <1>6, <1>9, <4>1
      <4>2. CASE j # k
        <5>1. j \in DOMAIN old /\ new[j] = old[j]
          BY <1>6, <3>1, <4>2
        <5> QED
          BY <1>3, <1>4, <2>1, <2>2, <5>1
      <4> QED
        BY <4>1, <4>2
    <3> QED
      BY <1>1, <1>5, <1>7, <1>8, <1>12, <2>2, <3>1 DEF CallbacksOK
  <2>3. CASE p # o
    <3>1. ASSUME p \in Made, NEW j \in Nat, j < key[type[p]] PROVE j < key'[type[p]]
      <4>1. type[p] \in Types
        BY <3>1 DEF CInv, Typed, TypeOK, Made
      <4>2. CASE type[p] = type[o]
        BY <1>3, <1>12, <3>1, <4>2
      <4>3. CASE type[p] # type[o]
        BY <1>12, <3>1, <4>1, <4>3
      <4> QED
        BY <4>2, <4>3
    <3> QED
      BY <1>5, <1>7, <1>8, <2>1, <2>3, <3>1 DEF CallbacksOK
  <2> QED
    BY <2>2, <2>3
<1>18. ASSUME NEW m \in Listeners PROVE ListenerOK(m)'
  <2>1. CASE m = l
    <3>1. l \in Told(callbacks'[o])
      BY <1>6, <1>7 DEF Told
    <3> QED
      BY <1>1, <1>2, <1>5, <1>7, <1>8, <2>1, <3>1 DEF ListenerOK
  <2>2. CASE m # l
    <3>1. ListenerOK(m) /\ listener'[m] = listener[m]
      BY <1>7, <2>2 DEF CInv
    <3>2. ASSUME listener[m] \in {"added", "subscribed"} PROVE m \in Told(callbacks'[on[m]])
      <4>1. on[m] \in Objects /\ m \in Told(callbacks[on[m]])
        BY <3>1, <3>2 DEF ListenerOK, Made
      <4>2. CASE on[m] = o
        <5>1. PICK j \in DOMAIN old : old[j] = m
          BY <1>4, <4>1, <4>2 DEF Told
        <5>2. j # k
          <6>1. j \in Nat /\ j < key[type[o]]
            BY <1>4, <5>1, MapFacts, KeysFinite DEF CInv, CallbacksOK
          <6> QED
            BY <1>3, <6>1
        <5>3. j \in DOMAIN new /\ new[j] = m
          BY <1>6, <5>1, <5>2
        <5> QED
          BY <1>7, <4>2, <5>3 DEF Told
      <4>3. CASE on[m] # o
        BY <1>7, <4>1, <4>3
      <4> QED
        BY <4>2, <4>3
    <3>3. ASSUME listener[m] = "subscribed", NEW u \in Threads,
                 call'[u].pc = "tell", call'[u].obj = on[m]
          PROVE  m \in Told(call'[u].todo) \/ view[m] = call'[u].new
      BY <1>7, <3>3, SubscribedFacts, NoCallTyped, SMTT(30)
    <3>4. ASSUME listener[m] = "subscribed", Free(ValMutex(on[m]))'
          PROVE  Free(ValMutex(on[m]))
      BY <1>5, <1>7, <3>4, SubscribedFacts, DifferentMutexes DEF Free, ValMutex
    <3> QED
      BY <1>5, <1>8, <3>1, <3>2, <3>3, <3>4 DEF ListenerOK, Told
  <2> QED
    BY <2>1, <2>2
<1> QED
  BY <1>12, <1>13, <1>14, <1>15, <1>16, <1>17, <1>18 DEF CInv

\* Callbacks go, and the listeners that were there are not told any more.
LEMMA RemovedStep ==
  ASSUME CInv, NEW o \in Made, NEW f \in KeyMaps, NEW ls \in SUBSET Told(callbacks[o]),
         callbacks' = [callbacks EXCEPT ![o] = f], Cleared(ls),
         \A j \in DOMAIN f : j \in DOMAIN callbacks[o] /\ f[j] = callbacks[o][j],
         \A j \in DOMAIN callbacks[o] : j \in DOMAIN f \/ callbacks[o][j] \in ls,
         UNCHANGED <<datas, type, val, key, holder, call, on, view, broken>>
  PROVE  CInv'
<1>1. o \in Objects /\ Made' = Made
  BY DEF Made
<1>2. /\ callbacks' \in [Objects -> KeyMaps] /\ callbacks'[o] = f
      /\ \A p \in Objects : p # o => callbacks'[p] = callbacks[p]
  BY <1>1 DEF CInv, Typed
<1>3. \A l \in ls : l \in Inserted /\ on[l] = o
  BY <1>1 DEF CInv, CallbacksOK, Told
<1>4. /\ listener' \in [Listeners -> {"new", "adding", "added", "subscribed", "cleared", "dropped"}]
      /\ \A m \in Listeners : listener'[m] = IF m \in ls THEN "cleared" ELSE listener[m]
  BY DEF Cleared, CInv, Typed, TypeOK
<1>5. Inserted' = Inserted
  BY <1>3, <1>4 DEF Inserted
<1>6. Typed'
  <2>1. \A p \in Objects : DOMAIN callbacks'[p] \subseteq Keys /\ Told(callbacks'[p]) \subseteq Listeners
    BY <1>2, MapFacts
  <2> QED
    BY <1>2, <1>4, <2>1 DEF CInv, Typed, TypeOK, Told
<1>7. HolderOK'
  BY DEF CInv, HolderOK, Registry, ValMutex, CbMutex
<1>8. (\A n \in Names : datas'[n] # None => datas'[n] \in Made')
      /\ \A ty \in Types : key'[ty] <= Cardinality(Inserted')
  BY <1>1, <1>5 DEF CInv
<1>9. ASSUME NEW u \in Threads PROVE PlaceOK(u)'
  <2>1. \A m \in Listeners : listener[m] = "adding" => listener'[m] = "adding"
    BY <1>3, <1>4 DEF Inserted
  <2> QED
    BY <1>1, <2>1, CallFacts DEF PlaceOK
<1>10. ASSUME NEW p \in Objects PROVE CallbacksOK(p)'
  <2>1. CASE p = o
    BY <1>1, <1>2, <1>5, <2>1 DEF CInv, CallbacksOK
  <2>2. CASE p # o
    BY <1>1, <1>2, <1>5, <2>2 DEF CInv, CallbacksOK
  <2> QED
    BY <2>1, <2>2
<1>11. ASSUME NEW m \in Listeners PROVE ListenerOK(m)'
  <2>1. ListenerOK(m)
    BY DEF CInv
  <2>2. CASE m \in ls
    BY <1>1, <1>3, <1>4, <2>1, <2>2 DEF ListenerOK, Inserted
  <2>3. CASE m \notin ls
    <3>1. listener'[m] = listener[m]
      BY <1>4, <2>3
    <3>2. ASSUME listener[m] \in {"added", "subscribed"} PROVE m \in Told(callbacks'[on[m]])
      <4>1. on[m] \in Objects /\ m \in Told(callbacks[on[m]])
        BY <2>1, <3>2 DEF ListenerOK, Made
      <4>2. CASE on[m] = o
        BY <1>2, <2>3, <4>1, <4>2 DEF Told
      <4>3. CASE on[m] # o
        BY <1>2, <4>1, <4>3
      <4> QED
        BY <4>2, <4>3
    <3> QED
      BY <1>1, <2>1, <3>1, <3>2 DEF ListenerOK, Told, Free, ValMutex
  <2> QED
    BY <2>2, <2>3
<1> QED
  BY <1>6, <1>7, <1>8, <1>9, <1>10, <1>11 DEF CInv

LEMMA delValChangeCBStep ==
  ASSUME CInv, NEW t \in Threads, NEW o \in Objects, NEW k \in Keys, delValChangeCB(t, o, k)
  PROVE  CInv'
<1>1. /\ o \in Made /\ k \in DOMAIN callbacks[o]
      /\ Cleared({callbacks[o][k]})
      /\ UNCHANGED <<datas, type, val, key, holder, call, on, view, broken>>
  BY DEF delValChangeCB
<1>2. PICK old \in KeyMaps : old = callbacks[o]
  BY DEF CInv, Typed
<1>3. PICK S \in SUBSET (DOMAIN old) : S = DOMAIN old \ {k}
  OBVIOUS
<1>4. PICK f \in KeyMaps : f = Restricted(old, S) /\ DOMAIN f = S /\ \A j \in S : f[j] = old[j]
  BY RestrictedMap
<1>5. callbacks' = [callbacks EXCEPT ![o] = f]
  BY <1>2, <1>3, <1>4 DEF delValChangeCB
<1>6. {callbacks[o][k]} \in SUBSET Told(callbacks[o])
  BY <1>1 DEF Told
<1>7. /\ \A j \in DOMAIN f : j \in DOMAIN callbacks[o] /\ f[j] = callbacks[o][j]
      /\ \A j \in DOMAIN callbacks[o] : j \in DOMAIN f \/ callbacks[o][j] \in {callbacks[o][k]}
  BY <1>2, <1>3, <1>4
<1>8. PICK ls \in SUBSET Told(callbacks[o]) : ls = {callbacks[o][k]}
  BY <1>6
<1>9. /\ Cleared(ls)
      /\ \A j \in DOMAIN f : j \in DOMAIN callbacks[o] /\ f[j] = callbacks[o][j]
      /\ \A j \in DOMAIN callbacks[o] : j \in DOMAIN f \/ callbacks[o][j] \in ls
  BY <1>1, <1>7, <1>8
<1> QED
  BY <1>1, <1>5, <1>9, RemovedStep

LEMMA ClearValChangeCBStep ==
  ASSUME CInv, NEW t \in Threads, NEW o \in Objects, ClearValChangeCB(t, o)
  PROVE  CInv'
<1>1. /\ o \in Made /\ callbacks' = [callbacks EXCEPT ![o] = <<>>] /\ Cleared(Told(callbacks[o]))
      /\ UNCHANGED <<datas, type, val, key, holder, call, on, view, broken>>
  BY DEF ClearValChangeCB
<1>2. PICK f \in KeyMaps : f = <<>> /\ DOMAIN f = {}
  BY EmptyMap
<1>3. \A j \in DOMAIN callbacks[o] : callbacks[o][j] \in Told(callbacks[o])
  BY DEF Told
<1>4. callbacks' = [callbacks EXCEPT ![o] = f]
  BY <1>1, <1>2
<1> QED
  BY <1>1, <1>2, <1>3, <1>4, RemovedStep

-----------------------------------------------------------------------------
(* The invariant, and what it says.                                        *)

LEMMA InitCInv == Init => CInv
<1> SUFFICES ASSUME Init PROVE CInv
  OBVIOUS
<1>1. /\ datas = [n \in Names |-> None] /\ type = [o \in Objects |-> None]
      /\ val = [o \in Objects |-> Default] /\ callbacks = [o \in Objects |-> <<>>]
      /\ key = [ty \in Types |-> 0] /\ holder = [m \in Mutexes |-> None]
      /\ call = [t \in Threads |-> NoCall] /\ listener = [l \in Listeners |-> "new"]
      /\ on = [l \in Listeners |-> None] /\ view = [l \in Listeners |-> Default] /\ broken = {}
  BY DEF Init
<1>2. /\ \A t \in Threads : /\ call[t] = NoCall /\ call[t] \in Call /\ call[t].op = "none"
                            /\ call[t].pc = "none" /\ t # None
      /\ \A o \in Objects : /\ callbacks[o] = <<>> /\ callbacks[o] \in KeyMaps
                            /\ DOMAIN callbacks[o] = {} /\ Told(callbacks[o]) = {}
  BY <1>1, NoCallTyped, EmptyMap
<1>3. Typed
  <2>1. call \in [Threads -> Call] /\ callbacks \in [Objects -> KeyMaps]
    BY <1>1, NoCallTyped, EmptyMap
  <2>2. \A t \in Threads :
          /\ call[t].op \in {"none", "setVal", "LoadFromYaml", "addValChangeCB"}
          /\ call[t].pc \in {"none", "next", "lock", "copy", "tell", "store", "begin", "insert"}
          /\ call[t].obj \in Objects \cup {None} /\ DOMAIN call[t].todo \subseteq Keys
    BY <2>1, MapFacts DEF Call
  <2>3. key \in [Types -> Keys]
    BY <1>1, KeysFinite
  <2> QED
    BY <1>1, <1>2, <2>1, <2>2, <2>3 DEF Typed, TypeOK
<1>4. HolderOK
  BY <1>1, <1>2, DifferentMutexes DEF HolderOK
<1>5. (\A n \in Names : datas[n] # None => datas[n] \in Made)
      /\ \A ty \in Types : key[ty] <= Cardinality(Inserted)
  BY <1>1, KeysFinite
<1>6. \A t \in Threads : PlaceOK(t)
  BY <1>2 DEF PlaceOK
<1>7. \A o \in Objects : CallbacksOK(o)
  BY <1>2 DEF CallbacksOK
<1>8. \A l \in Listeners : ListenerOK(l)
  BY <1>1 DEF ListenerOK
<1> QED
  BY <1>3, <1>4, <1>5, <1>6, <1>7, <1>8 DEF CInv

\* Every step keeps the invariant.
LEMMA NextCInv == CInv /\ CountsAlone /\ [Next]_vars => CInv'
<1> SUFFICES ASSUME CInv, CountsAlone, [Next]_vars PROVE CInv'
  OBVIOUS
<1>1. CASE UNCHANGED vars
  BY <1>1, SMTT(30) DEF vars, CInv, Typed, TypeOK, HolderOK, PlaceOK, CallbacksOK, ListenerOK, Made,
              Inserted, Told, Free, Registry, ValMutex, CbMutex
<1>2. ASSUME NEW t \in Threads, Step(t) PROVE CInv'
  BY <1>2, NextEntryStep, LockValStep, CopyCallbacksStep, TellStep, StoreStep, ReadKeyStep,
     InsertCBStep DEF Step
<1>3. ASSUME NEW t \in Threads, NEW n \in Names, NEW ty \in Types, Lookup(t, n, ty) PROVE CInv'
  BY <1>3, LookupStep
<1>4. ASSUME NEW t \in Threads, LoadFromYaml(t) PROVE CInv'
  BY <1>4, LoadFromYamlStep
<1>5. ASSUME NEW t \in Threads, NEW o \in Objects, NEW v \in Values, setVal(t, o, v) PROVE CInv'
  BY <1>5, setValStep
<1>6. ASSUME NEW t \in Threads, NEW o \in Objects, NEW l \in Listeners, addValChangeCB(t, o, l)
      PROVE  CInv'
  BY <1>6, addValChangeCBStep
<1>7. ASSUME NEW t \in Threads, NEW l \in Listeners, getVal(t, l) PROVE CInv'
  BY <1>7, getValStep
<1>8. ASSUME NEW t \in Threads, NEW o \in Objects, NEW k \in Keys, delValChangeCB(t, o, k)
      PROVE  CInv'
  BY <1>8, delValChangeCBStep
<1>9. ASSUME NEW t \in Threads, NEW o \in Objects, ClearValChangeCB(t, o) PROVE CInv'
  BY <1>9, ClearValChangeCBStep
<1> QED
  BY <1>1, <1>2, <1>3, <1>4, <1>5, <1>6, <1>7, <1>8, <1>9 DEF Next

\* The invariant holds as long as no two threads take a key from one counter
\* at once (config.h:400-405).
THEOREM ConfigInvariance == Spec /\ []CountsAlone => []CInv
BY InitCInv, NextCInv, PTL DEF Spec

LEMMA CInvConfigInv == CInv => ConfigInv
<1> SUFFICES ASSUME CInv PROVE ConfigInv
  OBVIOUS
<1>1. TypeOK
  BY DEF CInv, Typed
<1>2. ListenersKept
  BY DEF ListenersKept, CInv, ListenerOK
<1>3. ASSUME NEW m \in Mutexes, holder[m] # None PROVE call[holder[m]].op # "none"
  <2>1. PICK t \in Threads : t = holder[m]
    BY <1>1, <1>3 DEF TypeOK
  <2>2. PlaceOK(t)
    BY CallFacts
  <2>3. CASE m = Registry
    BY <2>1, <2>3, CallFacts
  <2>4. ASSUME NEW o \in Objects, m = ValMutex(o) PROVE call[t].op # "none"
    BY <2>1, <2>2, <2>4, CallFacts DEF PlaceOK
  <2>5. ASSUME NEW o \in Objects, m = CbMutex(o) PROVE call[t].op # "none"
    BY <2>1, <2>2, <2>5, CallFacts DEF PlaceOK
  <2> QED
    BY <2>1, <2>3, <2>4, <2>5 DEF Mutexes
<1> QED
  BY <1>1, <1>2, <1>3 DEF ConfigInv, LocksReleased

\* A listener that was added is kept until it is removed, and a mutex is held
\* only in a call that needs it, also after an exception (config.h:387-421).
THEOREM ListenersAreKept == Spec /\ []CountsAlone => []ConfigInv
BY ConfigInvariance, CInvConfigInv, PTL

LEMMA CInvUpToDate == CInv => SubscriberUpToDate
BY SubscribedFacts DEF SubscriberUpToDate

\* A subscriber knows the value whenever nobody changes it (config.h:388-398).
THEOREM SubscribersKnow == Spec /\ []CountsAlone => []SubscriberUpToDate
BY ConfigInvariance, CInvUpToDate, PTL

\* Only the end of setVal writes the value, when there is nobody left to tell.
LEMMA NextStored ==
  CInv /\ [Next]_vars =>
    [\A o \in Objects, l \in Listeners :
       val'[o] # val[o] /\ listener[l] = "subscribed" /\ on[l] = o => view[l] = val'[o]]_vars
<1> SUFFICES ASSUME CInv, Next, NEW o \in Objects, NEW l \in Listeners,
                    val'[o] # val[o], listener[l] = "subscribed", on[l] = o
             PROVE  view[l] = val'[o]
  OBVIOUS
<1>1. PICK t \in Threads : Store(t)
  <2>1. val' # val
    OBVIOUS
  <2>2. ASSUME NEW t \in Threads PROVE Step(t) => Store(t)
    <3>1. ~NextEntry(t) /\ ~LockVal(t) /\ ~CopyCallbacks(t)
      BY <2>1 DEF NextEntry, LockVal, CopyCallbacks
    <3>2. ~Tell(t) /\ ~ReadKey(t) /\ ~InsertCB(t)
      BY <2>1 DEF Tell, ReadKey, InsertCB
    <3> QED
      BY <3>1, <3>2 DEF Step
  <2>3. \A t \in Threads :
          /\ \A n \in Names, ty \in Types : ~Lookup(t, n, ty)
          /\ ~LoadFromYaml(t) /\ \A p \in Objects, v \in Values : ~setVal(t, p, v)
    BY <2>1 DEF Lookup, LoadFromYaml, setVal
  <2>4. \A t \in Threads :
          /\ \A p \in Objects, m \in Listeners : ~addValChangeCB(t, p, m)
          /\ \A m \in Listeners : ~getVal(t, m)
          /\ \A p \in Objects, k \in Keys : ~delValChangeCB(t, p, k)
          /\ \A p \in Objects : ~ClearValChangeCB(t, p)
    BY <2>1 DEF addValChangeCB, getVal, delValChangeCB, ClearValChangeCB
  <2> QED
    BY <2>2, <2>3, <2>4 DEF Next
<1>2. /\ call[t].pc = "tell" /\ call[t].todo = <<>>
      /\ val' = [val EXCEPT ![call[t].obj] = call[t].new]
  BY <1>1 DEF Store, ToldAll, At
<1>3. call[t].obj = o /\ val'[o] = call[t].new
  BY <1>2 DEF CInv, Typed, TypeOK
<1>4. l \in Told(call[t].todo) \/ view[l] = call[t].new
  BY <1>2, <1>3, SubscribedFacts
<1> QED
  BY <1>2, <1>3, <1>4, EmptyMap

\* A value is stored only after every subscriber was told of it
\* (config.h:395-398).
THEOREM StoresAreTold == Spec /\ []CountsAlone => StoredIsTold
BY ConfigInvariance, NextStored, PTL DEF Spec, StoredIsTold
=============================================================================
