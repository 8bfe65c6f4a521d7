--------------------------- MODULE AffinityProofs ---------------------------
(***************************************************************************)
(* What is proved of Affinity for every set of threads, timers and helpers *)
(* and any number of timer ids, whatever objects are moved when: that the  *)
(* timer of a live object is in exactly one place.                         *)
(***************************************************************************)
EXTENDS Affinity, TLAPS

-----------------------------------------------------------------------------
(* Types, with what they need: a helper stays on the thread it was made    *)
(* for, and nobody knows one that does not exist yet.                      *)

Known(o) == state[o] # "unborn"
GoodEvent(t, e) == /\ Known(e.obj)
                   /\ e.obj \in Helpers => home[e.obj] = t /\ e.kind \in {"arm", "delete"}
                   /\ e.kind = "arm" => e.obj \in Helpers
GoodEntry(t, r) == Known(r[1]) /\ (r[1] \in Helpers => home[r[1]] = t)
GoodCall(c) == /\ c.obj # Nowhere => Known(c.obj)
               /\ c.obj \in Helpers => c.at = "posting" /\ c.kind = "arm"
               /\ c.kind = "arm" => c.obj \in Helpers /\ home[c.obj] = c.to
HelpersAtHome ==
  /\ \A t \in Threads : /\ \A e \in queue[t] \cup batch[t] : GoodEvent(t, e)
                        /\ \A r \in table[t] \cup timerBatch[t] : GoodEntry(t, r)
                        /\ GoodCall(call[t])
  /\ \A o \in Objects : ~Known(o) => timerId[o] = 0

\* An event and a call that hands something over have the fields their sets say.
LEMMA Fields ==
  /\ \A e \in Event : /\ e.seq \in Nat /\ e.obj \in Objects /\ e.ids \in SUBSET Ids
                      /\ e.kind \in {"call", "delete", "rearm", "arm"}
  /\ \A c \in Call : /\ c.ids \in SUBSET Ids /\ c.kind \in {"call", "delete", "rearm", "arm"}
                     /\ c.obj \in Objects \cup {Nowhere}
                     /\ c.at = "moved" => c.obj \in Objects /\ c.to = Nowhere
                     /\ c.at \in {"posting", "registering"} => c.obj \in Objects /\ c.to \in Threads
<1>1. \A e \in Event : /\ e.seq \in Nat /\ e.obj \in Objects /\ e.ids \in SUBSET Ids
                       /\ e.kind \in {"call", "delete", "rearm", "arm"}
  BY DEF Event
<1>2. ASSUME NEW c \in Call
      PROVE  /\ c.ids \in SUBSET Ids /\ c.kind \in {"call", "delete", "rearm", "arm"}
             /\ c.obj \in Objects \cup {Nowhere}
             /\ c.at = "moved" => c.obj \in Objects /\ c.to = Nowhere
             /\ c.at \in {"posting", "registering"} => c.obj \in Objects /\ c.to \in Threads
  <2>1. CASE c = NoCall
    BY <2>1 DEF NoCall
  <2>2. CASE c \in Moved
    BY <2>2 DEF Moved
  <2>3. CASE c \in Handing
    BY <2>3 DEF Handing
  <2>4. QED
    BY <1>2, <2>1, <2>2, <2>3 DEF Call
<1>3. QED
  BY <1>1, <1>2

\* The timers of an active object are registered with ids that exist.
LEMMA EntriesTypes == ASSUME NEW o \in Objects, NEW ids \in SUBSET Ids
                      PROVE  Entries(o, ids) \subseteq Objects \X Ids
BY DEF Entries

\* What postEvent() appends leaves the queues well formed.
LEMMA EnqueueTypes ==
  ASSUME TypeOK, NEW u \in Threads, NEW kind \in {"call", "delete", "rearm", "arm"},
         NEW o \in Objects, NEW ids \in SUBSET Ids, Enqueue(u, kind, o, ids)
  PROVE  queue' \in [Threads -> SUBSET Event]
<1>1. PICK n \in {0} \cup {e.seq + 1 : e \in queue[u]} :
        queue' = [queue EXCEPT ![u] = @ \cup {[seq |-> n, kind |-> kind, obj |-> o, ids |-> ids]}]
  BY DEF Enqueue
<1>2. n \in Nat
  BY Fields DEF TypeOK
<1>3. [seq |-> n, kind |-> kind, obj |-> o, ids |-> ids] \in Event
  BY <1>2 DEF Event
<1>4. QED
  BY <1>1, <1>3 DEF TypeOK

\* So does a call that finds the object's dispatcher, whether it posts or goes on to.
LEMMA SendTypes ==
  ASSUME TypeOK, NEW t \in Threads, NEW kind \in {"call", "delete", "rearm", "arm"},
         NEW o \in Objects, NEW ids \in SUBSET Ids, home[o] \in Threads, Send(t, kind, o, ids)
  PROVE  queue' \in [Threads -> SUBSET Event] /\ call' \in [Threads -> Call]
<1>1. CASE home[o] = t /\ Enqueue(t, kind, o, ids) /\ Return(t)
  BY <1>1, EnqueueTypes DEF Return, Begin, TypeOK, Call
<1>2. CASE home[o] # t /\ UNCHANGED queue
           /\ Begin(t, [at |-> "posting", to |-> home[o], dropped |-> FALSE,
                        kind |-> kind, obj |-> o, ids |-> ids])
  <2>1. [at |-> "posting", to |-> home[o], dropped |-> FALSE,
         kind |-> kind, obj |-> o, ids |-> ids] \in Call
    BY DEF Call, Handing
  <2>2. QED
    BY <1>2, <2>1 DEF Begin, TypeOK
<1>3. QED
  BY <1>1, <1>2 DEF Send

\* The thread that an affinity names, and that has a dispatcher, is a thread.
LEMMA ServedTypes == ASSUME TypeOK, NEW o \in Objects, Served(o) PROVE home[o] \in Threads
BY DEF Served, TypeOK

\* start() leaves ids and registrations well formed.
LEMMA StartTimerTypes ==
  ASSUME TypeOK, NEW t \in Threads, NEW o \in Objects, StartTimer(t, o)
  PROVE  /\ nextId \in Ids /\ nextId' \in Nat \ {0} /\ timerId' \in [Objects -> Ids \cup {0}]
         /\ table' \in [Threads -> SUBSET (Objects \X Ids)]
         /\ shots' \in [Objects -> Nat] /\ lost' \in [Objects -> BOOLEAN]
<1>1. nextId \in Ids /\ nextId' \in Nat \ {0}
  BY BoundsAssumption DEF StartTimer, TypeOK, Ids
<1>2. QED
  BY <1>1 DEF StartTimer, TypeOK

\* Losing registrations changes only who has lost one.
LEMMA LoseTypes == ASSUME NEW ids, Lose(ids), TypeOK PROVE lost' \in [Objects -> BOOLEAN]
BY DEF Lose, TypeOK

\* A destroyed object takes only what is well formed with it.
LEMMA DestroyTypes ==
  ASSUME TypeOK, NEW o \in Objects, Destroy(o)
  PROVE  /\ state' \in [Objects -> {"unborn", "alive", "freed"}]
         /\ timerId' \in [Objects -> Ids \cup {0}]
         /\ queue' \in [Threads -> SUBSET Event]
         /\ table' \in [Threads -> SUBSET (Objects \X Ids)]
BY DEF TypeOK, Destroy

\* The calls that hold a dispatcher which is let go of are calls still.
LEMMA ReplaceTypes ==
  ASSUME TypeOK, NEW t \in Threads, Replace(t)
  PROVE  /\ queue' \in [Threads -> SUBSET Event]
         /\ table' \in [Threads -> SUBSET (Objects \X Ids)]
         /\ call' \in [Threads -> Call]
         /\ lost' \in [Objects -> BOOLEAN]
<1>1. ASSUME NEW u \in Threads, call[u].to = t PROVE [call[u] EXCEPT !.dropped = TRUE] \in Call
  <2>1. call[u] \in Handing
    <3>1. call[u] \in Call /\ t # Nowhere
      BY ThreadsAssumption DEF TypeOK, Threads
    <3>2. NoCall.to # t /\ \A c \in Moved : c.to # t
      BY <3>1 DEF NoCall, Moved
    <3>3. QED
      BY <1>1, <3>1, <3>2 DEF Call
  <2>2. QED
    BY <2>1 DEF Call, Handing
<1>2. QED
  BY <1>1 DEF TypeOK, Replace, Lose

\* Every step leaves a state of the right type: first what user code does, ...
LEMMA UserTypes ==
  ASSUME TypeOK, NEW t \in Threads, UserStep(t) PROVE TypeOK'
<1> USE ThreadsAssumption DEF threadVars, passVars, objectVars
<1>0. PICK o \in Objects :
        \/ Start(t, o) \/ Stop(t, o)
        \/ \E to \in Threads \cup {Nowhere} : Move(t, o, to)
        \/ Emit(t, o) \/ DeleteLater(t, o) \/ Delete(t, o)
        \/ \E context \in Timers : SingleShotCall(t, o, context)
  BY DEF UserStep
<1>1. CASE Start(t, o)
  BY <1>1, StartTimerTypes DEF Start, TypeOK
<1>2. CASE Stop(t, o)
  BY <1>2 DEF Stop, KillTimer, TypeOK
<1>3. ASSUME NEW to \in Threads \cup {Nowhere}, Move(t, o, to) PROVE TypeOK'
  <2> DEFINE ids == IF Served(o) THEN IdsOf(o, home[o]) ELSE {}
             moved == [NoCall EXCEPT !.at = "moved", !.obj = o, !.ids = ids]
  <2>1. ids \in SUBSET Ids
    BY DEF IdsOf
  <2>2. moved \in Call
    BY <2>1 DEF NoCall, Call, Moved
  <2>3. /\ home' = [home EXCEPT ![o] = to]
        /\ table' = [u \in Threads |-> IF u = home[o] THEN table[u] \ Entries(o, ids) ELSE table[u]]
        /\ UNCHANGED call \/ call' = [call EXCEPT ![t] = moved]
        /\ UNCHANGED <<quiet, threadVars, queue, passVars, state, timerId, deletePosted, nextId, shots, lost>>
    BY <1>3 DEF Move, Begin
  <2> HIDE DEF ids, moved
  <2>4. QED
    BY <2>2, <2>3 DEF TypeOK
<1>4. CASE Emit(t, o)
  BY <1>4, SendTypes, ServedTypes DEF Emit, TypeOK
<1>5. CASE DeleteLater(t, o)
  <2>1. CASE Served(o) /\ Send(t, "delete", o, {}) /\ UNCHANGED <<table, state, timerId>>
    BY <1>5, <2>1, SendTypes, ServedTypes DEF DeleteLater, TypeOK
  <2>2. CASE Destroy(o) /\ UNCHANGED call
    BY <1>5, <2>2, DestroyTypes DEF DeleteLater, TypeOK
  <2>3. QED
    BY <1>5, <2>1, <2>2 DEF DeleteLater
<1>6. CASE Delete(t, o)
  BY <1>6, DestroyTypes DEF Delete, TypeOK
<1>7. ASSUME NEW context \in Timers, SingleShotCall(t, o, context) PROVE TypeOK'
  <2>0. context \in Objects
    BY DEF Objects
  <2>1. Owner(context) \in Threads \cup {Nowhere}
    BY <2>0 DEF Owner, TypeOK
  <2>2. /\ state' = [state EXCEPT ![o] = "alive"] /\ home' = [home EXCEPT ![o] = Owner(context)]
        /\ UNCHANGED <<quiet, threadVars, queue, passVars, deletePosted>>
    BY <1>7 DEF SingleShotCall
  <2>3. CASE StartTimer(t, o) /\ UNCHANGED call
    BY <2>1, <2>2, <2>3, StartTimerTypes DEF TypeOK
  <2>4. CASE /\ Served(context) /\ UNCHANGED <<table, timerId, nextId, lost, shots>>
             /\ Begin(t, [at |-> "posting", to |-> home[context], dropped |-> FALSE,
                          kind |-> "arm", obj |-> o, ids |-> {}])
    <3>1. [at |-> "posting", to |-> home[context], dropped |-> FALSE,
           kind |-> "arm", obj |-> o, ids |-> {}] \in Call
      BY <2>0, <2>4, ServedTypes DEF Call, Handing
    <3>2. QED
      BY <2>1, <2>2, <2>4, <3>1 DEF Begin, TypeOK
  <2>5. CASE UNCHANGED <<table, timerId, nextId, call, shots, lost>>
    BY <2>1, <2>2, <2>5 DEF TypeOK
  <2>6. QED
    BY <1>7, <2>3, <2>4, <2>5 DEF SingleShotCall
<1>8. QED
  BY <1>0, <1>1, <1>2, <1>3, <1>4, <1>5, <1>6, <1>7

\* ... then how calls and passes proceed, ...
LEMMA ProceedTypes ==
  ASSUME TypeOK, HelpersAtHome, NEW t \in Threads, Proceed(t) PROVE TypeOK'
<1> USE DEF threadVars, passVars, objectVars
<1>0. call[t] \in Call
  BY DEF TypeOK
<1>n. NoCall \in Call
  BY DEF Call
<1>1. CASE ResolveRearm(t)
  <2>1. call[t].obj \in Objects /\ call[t].ids \in SUBSET Ids
    BY <1>0, <1>1, Fields DEF ResolveRearm
  <2>2. CASE Served(call[t].obj) /\ Send(t, "rearm", call[t].obj, call[t].ids) /\ UNCHANGED lost
    BY <1>1, <2>1, <2>2, SendTypes, ServedTypes DEF ResolveRearm, TypeOK
  <2>3. CASE Return(t) /\ Lose(call[t].ids) /\ UNCHANGED queue
    BY <1>1, <1>n, <2>3, LoseTypes DEF ResolveRearm, Return, Begin, TypeOK
  <2>4. QED
    BY <1>1, <2>2, <2>3 DEF ResolveRearm
<1>2. CASE Post(t)
  <2>1. /\ call[t].obj \in Objects /\ call[t].ids \in SUBSET Ids /\ call[t].to \in Threads
        /\ call[t].kind \in {"call", "delete", "rearm", "arm"}
    BY <1>0, <1>2, Fields DEF Post
  <2>2. queue' \in [Threads -> SUBSET Event] /\ lost' \in [Objects -> BOOLEAN]
    BY <1>2, <2>1, EnqueueTypes, LoseTypes DEF Post, TypeOK
  <2>3. QED
    BY <1>2, <1>n, <2>2 DEF Post, Return, Begin, TypeOK
<1>3. CASE Register(t)
  <2>1. call[t].obj \in Objects /\ call[t].ids \in SUBSET Ids /\ call[t].to \in Threads
    BY <1>0, <1>3, Fields DEF Register
  <2>2. Entries(call[t].obj, call[t].ids) \subseteq Objects \X Ids
    BY <2>1, EntriesTypes
  <2>3. table' \in [Threads -> SUBSET (Objects \X Ids)] /\ lost' \in [Objects -> BOOLEAN]
    BY <1>3, <2>2, LoseTypes DEF Register, TypeOK
  <2>4. QED
    BY <1>3, <1>n, <2>3 DEF Register, Return, Begin, TypeOK
<1>4. ASSUME NEW e \in batch[t],
             DispatchCall(t, e) \/ DispatchDelete(t, e) \/ DispatchArm(t, e) \/ DispatchRearm(t, e)
      PROVE TypeOK'
  <2>1. e.obj \in Objects /\ e.ids \in SUBSET Ids
    BY Fields DEF TypeOK
  <2>2. batch' \in [Threads -> SUBSET Event]
    BY <1>4 DEF DispatchCall, DispatchDelete, DispatchArm, DispatchRearm, Consume, TypeOK
  <2>3. CASE DispatchCall(t, e)
    BY <2>2, <2>3 DEF DispatchCall, TypeOK
  <2>4. CASE DispatchDelete(t, e)
    BY <2>1, <2>2, <2>4, DestroyTypes DEF DispatchDelete, TypeOK
  <2>5. CASE DispatchArm(t, e)
    BY <2>1, <2>2, <2>5, StartTimerTypes DEF DispatchArm, TypeOK
  <2>6. CASE DispatchRearm(t, e)
    <3>1. Entries(e.obj, e.ids) \subseteq Objects \X Ids
      BY <2>1, EntriesTypes
    <3>2. CASE table' = [table EXCEPT ![t] = @ \cup Entries(e.obj, e.ids)] /\ UNCHANGED <<call, lost>>
      BY <2>2, <2>6, <3>1, <3>2 DEF DispatchRearm, TypeOK
    <3>3. CASE /\ Served(e.obj) /\ UNCHANGED <<table, lost>>
               /\ Begin(t, [at |-> "registering", to |-> home[e.obj], dropped |-> FALSE,
                            kind |-> "rearm", obj |-> e.obj, ids |-> e.ids])
      <4>1. [at |-> "registering", to |-> home[e.obj], dropped |-> FALSE,
             kind |-> "rearm", obj |-> e.obj, ids |-> e.ids] \in Call
        BY <2>1, <3>3, ServedTypes DEF Call, Handing
      <4>2. QED
        BY <2>2, <2>6, <3>3, <4>1 DEF DispatchRearm, Begin, TypeOK
    <3>4. CASE Lose(e.ids) /\ UNCHANGED <<table, call>>
      BY <2>2, <2>6, <3>4, LoseTypes DEF DispatchRearm, TypeOK
    <3>5. QED
      BY <2>6, <3>2, <3>3, <3>4 DEF DispatchRearm
  <2>7. QED
    BY <1>4, <2>3, <2>4, <2>5, <2>6
<1>5. ASSUME NEW o \in Objects, NEW i \in Ids, SkipTimer(t, o, i) PROVE TypeOK'
  BY <1>5 DEF SkipTimer, NextTimer, TypeOK
<1>6. ASSUME NEW o \in Objects, NEW i \in Ids, RunFunctor(t, o, i) PROVE TypeOK'
  <2>1. call' \in [Threads -> Call] /\ queue' \in [Threads -> SUBSET Event]
    <3>1. CASE deletePosted[o]
      BY <1>6, <3>1 DEF RunFunctor, TypeOK
    <3>2. CASE ~deletePosted[o]
      <4>1. home[o] \in Threads
        BY <1>6 DEF RunFunctor, NextTimer, HelpersAtHome, GoodEntry
      <4>2. QED
        BY <1>6, <3>2, <4>1, SendTypes DEF RunFunctor
    <3>3. QED
      BY <3>1, <3>2
  <2>2. timerBatch' \in [Threads -> SUBSET (Objects \X Ids)]
    BY <1>6 DEF RunFunctor, NextTimer, TypeOK
  <2>3. shots' \in [Objects -> Nat] /\ deletePosted' \in [Objects -> BOOLEAN]
    BY <1>6 DEF RunFunctor, TypeOK
  <2>4. UNCHANGED <<quiet, threadVars, table, batch, buried, home, state, timerId, nextId, lost>>
    BY <1>6 DEF RunFunctor
  <2>5. QED
    BY <2>1, <2>2, <2>3, <2>4 DEF TypeOK
<1>7. ASSUME NEW o \in Objects, NEW i \in Ids, NEW single \in BOOLEAN, Timeout(t, o, i, single)
      PROVE TypeOK'
  BY <1>7 DEF Timeout, NextTimer, KillTimer, TypeOK
<1>8. CASE PassDone(t)
  BY <1>8 DEF PassDone, TypeOK, Stages
<1>9. CASE DrainPass(t)
  BY <1>9 DEF DrainPass, TakeDeletes, Deletes, TypeOK, Stages
<1>10. CASE LetGo(t)
  BY <1>10, ReplaceTypes DEF LetGo, TypeOK, Stages
<1>11. QED
  BY <1>1, <1>2, <1>3, <1>4, <1>5, <1>6, <1>7, <1>8, <1>9, <1>10 DEF Proceed

\* ... and how loops begin and end.
LEMMA TypeStep == TypeOK /\ HelpersAtHome /\ [Next]_vars => TypeOK'
<1> SUFFICES ASSUME TypeOK, HelpersAtHome, [Next]_vars PROVE TypeOK'
  OBVIOUS
<1> USE ThreadsAssumption DEF threadVars, passVars, objectVars
<1>1. ASSUME NEW t \in Threads, NEW expired \in SUBSET table[t], TakePass(t, expired) PROVE TypeOK'
  BY <1>1 DEF TakePass, TypeOK, Stages
<1>2. ASSUME NEW t \in Threads, ThreadStart(t) \/ ThreadDestroyed(t) PROVE TypeOK'
  BY <1>2 DEF ThreadStart, ThreadDestroyed, TypeOK, Stages
<1>3. ASSUME NEW t \in Threads, Close(t) PROVE TypeOK'
  BY <1>3 DEF Close, TakeDeletes, Deletes, TypeOK, Stages
<1>4. CASE AppConstruct
  BY <1>4, ReplaceTypes DEF AppConstruct, TypeOK, Threads
<1>5. CASE UNCHANGED vars
  BY <1>5 DEF vars, TypeOK
<1>6. QED
  BY <1>1, <1>2, <1>3, <1>4, <1>5, UserTypes, ProceedTypes DEF Next

-----------------------------------------------------------------------------
(* Helpers stay at home.                                                   *)

\* What is appended, and what a call that finds the dispatcher posts or holds.
LEMMA EnqueueAbout ==
  ASSUME TypeOK, NEW u \in Threads, NEW kind, NEW o, NEW ids, Enqueue(u, kind, o, ids)
  PROVE  \A v \in Threads : \A e \in queue'[v] :
           e \in queue[v] \/ (v = u /\ e.kind = kind /\ e.obj = o /\ e.ids = ids)
<1>1. PICK n \in {0} \cup {e.seq + 1 : e \in queue[u]} :
        queue' = [queue EXCEPT ![u] = @ \cup {[seq |-> n, kind |-> kind, obj |-> o, ids |-> ids]}]
  BY DEF Enqueue
<1>2. QED
  BY <1>1 DEF TypeOK

\* What a step leaves is good by the state before it or after it.
EventsGood == \A t \in Threads : \A e \in queue'[t] \cup batch'[t] : GoodEvent(t, e) \/ GoodEvent(t, e)'
EntriesGood == \A t \in Threads :
  \A r \in table'[t] \cup timerBatch'[t] : GoodEntry(t, r) \/ GoodEntry(t, r)'
CallsGood == \A t \in Threads, c \in Call : c = call'[t] => GoodCall(c) \/ GoodCall(c)'
ObjectsKept == /\ \A o \in Objects : Known(o) => Known(o)'
               /\ \A o \in Helpers : Known(o) => home'[o] = home[o]
               /\ \A o \in Objects : ~Known(o)' => timerId'[o] = timerId[o] \/ timerId'[o] = 0

\* Nothing new is good.
LEMMA KeptGood ==
  ASSUME TypeOK, HelpersAtHome
  PROVE  /\ (\A t \in Threads : queue'[t] \cup batch'[t] \subseteq queue[t] \cup batch[t]) => EventsGood
         /\ (\A t \in Threads : table'[t] \cup timerBatch'[t] \subseteq table[t] \cup timerBatch[t])
               => EntriesGood
         /\ (\A t \in Threads : \/ call'[t] = call[t] \/ call'[t] = NoCall
                                \/ call'[t] = [call[t] EXCEPT !.dropped = TRUE]) => CallsGood
<1>1. (\A t \in Threads : queue'[t] \cup batch'[t] \subseteq queue[t] \cup batch[t]) => EventsGood
  BY DEF EventsGood, HelpersAtHome
<1>2. (\A t \in Threads : table'[t] \cup timerBatch'[t] \subseteq table[t] \cup timerBatch[t])
         => EntriesGood
  BY DEF EntriesGood, HelpersAtHome
<1>3. ASSUME NEW t \in Threads, NEW c \in Call, c = call'[t],
             \/ call'[t] = call[t] \/ call'[t] = NoCall
             \/ call'[t] = [call[t] EXCEPT !.dropped = TRUE]
      PROVE  GoodCall(c)
  <2>1. CASE c = NoCall
    <3>1. c.obj = Nowhere /\ c.kind = "call" /\ Nowhere \notin Helpers
      BY <2>1, ThreadsAssumption DEF NoCall, Objects
    <3>2. QED
      BY <3>1 DEF GoodCall
  <2>2. CASE c # NoCall
    <3>1. PICK d \in Call : d = call[t] /\ GoodCall(d)
      BY DEF TypeOK, HelpersAtHome, GoodCall
    <3>2. c = d \/ c = [d EXCEPT !.dropped = TRUE]
      BY <1>3, <2>2, <3>1
    <3>3. c.obj = d.obj /\ c.at = d.at /\ c.kind = d.kind /\ c.to = d.to
      BY <3>2 DEF Call, NoCall, Moved, Handing
    <3>4. QED
      BY <3>1, <3>3 DEF GoodCall
  <2>3. QED
    BY <2>1, <2>2
<1>4. QED
  BY <1>1, <1>2, <1>3 DEF CallsGood

\* A step that knows whoever was known, moves no helper, and leaves only good events,
\* registrations and calls, leaves the helpers at home.
LEMMA HelpersFrame ==
  ASSUME TypeOK, TypeOK', HelpersAtHome, EventsGood, EntriesGood, CallsGood, ObjectsKept
  PROVE  HelpersAtHome'
<1> USE DEF EventsGood, EntriesGood, CallsGood, ObjectsKept
<1>1. ASSUME NEW t \in Threads, NEW e \in queue'[t] \cup batch'[t] PROVE GoodEvent(t, e)'
  <2>1. e.obj \in Objects
    BY Fields DEF TypeOK
  <2>2. QED
    BY <2>1 DEF GoodEvent, Objects
<1>2. ASSUME NEW t \in Threads, NEW r \in table'[t] \cup timerBatch'[t] PROVE GoodEntry(t, r)'
  <2>1. r[1] \in Objects
    BY DEF TypeOK
  <2>2. QED
    BY <2>1 DEF GoodEntry
<1>3. ASSUME NEW t \in Threads PROVE GoodCall(call[t])'
  <2>1. PICK c \in Call : c = call'[t]
    BY DEF TypeOK
  <2>2. c.obj \in Objects \cup {Nowhere}
    BY Fields
  <2>3. CASE GoodCall(c)
    <3>1. GoodCall(c)'
      BY <2>2, <2>3, ThreadsAssumption DEF GoodCall, Objects
    <3>2. QED
      BY <2>1, <3>1 DEF GoodCall, Known
  <2>4. CASE GoodCall(c)'
    BY <2>1, <2>4 DEF GoodCall, Known
  <2>5. QED
    BY <2>1, <2>3, <2>4
<1>4. QED
  BY <1>1, <1>2, <1>3 DEF HelpersAtHome

\* What Send() hands over is good when it is no helper's, or a helper's deferred delete that
\* is posted at home.
LEMMA SendGood ==
  ASSUME TypeOK, HelpersAtHome, NEW t \in Threads, NEW kind \in {"call", "delete", "rearm"},
         NEW o \in Objects, NEW ids, Send(t, kind, o, ids), Known(o), batch' = batch,
         o \in Helpers => kind = "delete" /\ home[o] = t
  PROVE  EventsGood /\ CallsGood
<1>1. CASE home[o] = t /\ Enqueue(t, kind, o, ids) /\ Return(t)
  <2>1. \A u \in Threads : \A e \in queue'[u] \cup batch'[u] :
          e \in queue[u] \cup batch[u] \/ (u = t /\ e.kind = kind /\ e.obj = o)
    BY <1>1, EnqueueAbout
  <2>2. EventsGood
    BY <1>1, <2>1 DEF EventsGood, HelpersAtHome, GoodEvent
  <2>3. CallsGood
    BY <1>1, KeptGood DEF Return, Begin, TypeOK
  <2>4. QED
    BY <2>2, <2>3
<1>2. CASE /\ home[o] # t /\ UNCHANGED queue
           /\ Begin(t, [at |-> "posting", to |-> home[o], dropped |-> FALSE,
                        kind |-> kind, obj |-> o, ids |-> ids])
  <2>1. EventsGood
    BY <1>2, KeptGood
  <2>2. ASSUME NEW u \in Threads, NEW c \in Call, c = call'[u] PROVE GoodCall(c)
    <3>1. CASE u = t
      <4>1. c.obj = o /\ c.kind = kind /\ o \notin Helpers
        BY <1>2, <2>2, <3>1 DEF Begin, TypeOK
      <4>2. QED
        BY <4>1 DEF GoodCall
    <3>2. CASE u # t
      BY <1>2, <2>2, <3>2 DEF Begin, TypeOK, HelpersAtHome
    <3>3. QED
      BY <3>1, <3>2
  <2>3. QED
    BY <2>1, <2>2 DEF CallsGood
<1>3. QED
  BY <1>1, <1>2 DEF Send

\* First what user code does, ...
LEMMA HelpersUser ==
  ASSUME TypeOK, TypeOK', HelpersAtHome, NEW t \in Threads, UserStep(t) PROVE HelpersAtHome'
<1> USE ThreadsAssumption DEF threadVars, passVars, objectVars, Known
<1>0. PICK o \in Objects :
        \/ Start(t, o) \/ Stop(t, o)
        \/ \E to \in Threads \cup {Nowhere} : Move(t, o, to)
        \/ Emit(t, o) \/ DeleteLater(t, o) \/ Delete(t, o)
        \/ \E context \in Timers : SingleShotCall(t, o, context)
  BY DEF UserStep
<1>t. Timers \cap Helpers = {} /\ Timers \subseteq Objects /\ Helpers \subseteq Objects
  BY ObjectsAssumption DEF Objects
<1>1. CASE Start(t, o)
  <2>1. EventsGood /\ CallsGood /\ ObjectsKept
    BY <1>1, KeptGood DEF Start, StartTimer, Alive, ObjectsKept, TypeOK
  <2>2. ASSUME NEW u \in Threads, NEW r \in table'[u] \cup timerBatch'[u]
        PROVE  r \in table[u] \cup timerBatch[u] \/ r[1] = o
    BY <1>1, <2>2 DEF Start, StartTimer, TypeOK
  <2>3. EntriesGood
    BY <1>1, <1>t, <2>2 DEF Start, Alive, EntriesGood, GoodEntry, HelpersAtHome
  <2>4. QED
    BY <2>1, <2>3, HelpersFrame
<1>2. CASE Stop(t, o)
  BY <1>2, KeptGood, HelpersFrame DEF Stop, KillTimer, Alive, ObjectsKept, TypeOK
<1>3. ASSUME NEW to \in Threads \cup {Nowhere}, Move(t, o, to) PROVE HelpersAtHome'
  <2> DEFINE ids == IF Served(o) THEN IdsOf(o, home[o]) ELSE {}
             moved == [NoCall EXCEPT !.at = "moved", !.obj = o, !.ids = ids]
  <2>1. /\ home' = [home EXCEPT ![o] = to] /\ o \in Timers /\ Alive(o)
        /\ table' = [u \in Threads |-> IF u = home[o] THEN table[u] \ Entries(o, ids) ELSE table[u]]
        /\ UNCHANGED call \/ call' = [call EXCEPT ![t] = moved]
        /\ UNCHANGED <<quiet, threadVars, queue, passVars, state, timerId, deletePosted, nextId, shots, lost>>
    BY <1>3 DEF Move, Begin
  <2>2. moved.obj = o /\ moved.kind = "call"
    BY DEF NoCall
  <2> HIDE DEF ids, moved
  <2>3. ObjectsKept /\ EventsGood /\ EntriesGood
    BY <1>t, <2>1, KeptGood DEF ObjectsKept, TypeOK
  <2>4. ASSUME NEW u \in Threads, NEW c \in Call, c = call'[u] PROVE GoodCall(c)
    <3>1. c = call[u] \/ c = moved
      BY <2>1, <2>4 DEF TypeOK
    <3>2. CASE c = moved
      BY <1>t, <2>1, <2>2, <3>2 DEF GoodCall, Alive
    <3>3. QED
      BY <3>1, <3>2 DEF HelpersAtHome
  <2>5. QED
    BY <2>3, <2>4, HelpersFrame DEF CallsGood
<1>4. CASE Emit(t, o)
  <2>1. EventsGood /\ CallsGood
    BY <1>4, <1>t, SendGood DEF Emit, Alive
  <2>2. EntriesGood /\ ObjectsKept
    BY <1>4, KeptGood DEF Emit, ObjectsKept
  <2>3. QED
    BY <2>1, <2>2, HelpersFrame
<1>5. CASE DeleteLater(t, o)
  <2>1. CASE Served(o) /\ Send(t, "delete", o, {}) /\ UNCHANGED <<table, state, timerId>>
    <3>1. EventsGood /\ CallsGood
      BY <1>5, <1>t, <2>1, SendGood DEF DeleteLater, Alive
    <3>2. EntriesGood /\ ObjectsKept
      BY <1>5, <2>1, KeptGood DEF DeleteLater, ObjectsKept
    <3>3. QED
      BY <3>1, <3>2, HelpersFrame
  <2>2. CASE Destroy(o) /\ UNCHANGED call
    BY <1>5, <2>2, KeptGood, HelpersFrame DEF DeleteLater, Destroy, ObjectsKept, TypeOK
  <2>3. QED
    BY <1>5, <2>1, <2>2 DEF DeleteLater
<1>6. CASE Delete(t, o)
  BY <1>6, KeptGood, HelpersFrame DEF Delete, Destroy, ObjectsKept, TypeOK
<1>7. ASSUME NEW context \in Timers, SingleShotCall(t, o, context) PROVE HelpersAtHome'
  <2>1. /\ o \in Helpers /\ ~Known(o) /\ state' = [state EXCEPT ![o] = "alive"]
        /\ home' = [home EXCEPT ![o] = Owner(context)]
        /\ UNCHANGED <<quiet, threadVars, queue, passVars, deletePosted>>
    BY <1>7 DEF SingleShotCall
  <2>2. EventsGood
    BY <2>1, KeptGood
  <2>3. CASE Owner(context) = t /\ StartTimer(t, o) /\ UNCHANGED call
    <3>1. CallsGood
      BY <2>3, KeptGood
    <3>2. ObjectsKept
      BY <2>1, <2>3 DEF ObjectsKept, StartTimer, TypeOK
    <3>3. ASSUME NEW u \in Threads, NEW r \in table'[u] \cup timerBatch'[u]
          PROVE  r \in table[u] \cup timerBatch[u] \/ (r[1] = o /\ u = t)
      BY <2>1, <2>3, <3>3 DEF StartTimer, TypeOK
    <3>4. EntriesGood
      BY <1>t, <2>1, <2>3, <3>3 DEF EntriesGood, GoodEntry, HelpersAtHome, TypeOK
    <3>5. QED
      BY <2>2, <3>1, <3>2, <3>4, HelpersFrame
  <2>4. CASE /\ Owner(context) \notin {t, Nowhere} /\ Served(context)
             /\ UNCHANGED <<table, timerId, nextId, lost, shots>>
             /\ Begin(t, [at |-> "posting", to |-> home[context], dropped |-> FALSE,
                          kind |-> "arm", obj |-> o, ids |-> {}])
    <3>1. EntriesGood /\ ObjectsKept
      BY <2>1, <2>4, KeptGood DEF ObjectsKept, TypeOK
    <3>2. Owner(context) = home[context]
      BY <2>4 DEF Owner
    <3>3. ASSUME NEW u \in Threads, NEW c \in Call, c = call'[u] PROVE GoodCall(c) \/ GoodCall(c)'
      <4>1. CASE u = t
        <5>1. c.at = "posting" /\ c.kind = "arm" /\ c.obj = o /\ c.to = home[context]
          BY <2>4, <3>3, <4>1 DEF Begin, TypeOK
        <5>2. home'[o] = home[context] /\ state'[o] = "alive"
          BY <2>1, <3>2 DEF TypeOK
        <5>3. QED
          BY <2>1, <5>1, <5>2 DEF GoodCall
      <4>2. CASE u # t
        BY <2>4, <3>3, <4>2 DEF Begin, TypeOK, HelpersAtHome
      <4>3. QED
        BY <4>1, <4>2
    <3>4. QED
      BY <2>2, <3>1, <3>3, HelpersFrame DEF CallsGood
  <2>5. CASE UNCHANGED <<table, timerId, nextId, call, shots, lost>>
    BY <2>1, <2>2, <2>5, KeptGood, HelpersFrame DEF ObjectsKept, TypeOK
  <2>6. QED
    BY <1>7, <2>3, <2>4, <2>5 DEF SingleShotCall
<1>8. QED
  BY <1>0, <1>1, <1>2, <1>3, <1>4, <1>5, <1>6, <1>7

\* ... then how calls and passes proceed, ...
LEMMA HelpersProceed ==
  ASSUME TypeOK, TypeOK', HelpersAtHome, NEW t \in Threads, Proceed(t) PROVE HelpersAtHome'
<1> USE ThreadsAssumption DEF threadVars, passVars, objectVars
<1>t. Timers \cap Helpers = {} /\ Timers \subseteq Objects /\ Helpers \subseteq Objects
  BY ObjectsAssumption DEF Objects
<1>c. call[t] \in Call /\ GoodCall(call[t])
  BY DEF TypeOK, HelpersAtHome
<1>1. CASE ResolveRearm(t)
  <2>1. /\ call[t].obj \in Objects /\ call[t].obj \notin Helpers /\ Known(call[t].obj)
        /\ call[t].ids \in SUBSET Ids
    BY <1>1, <1>c, Fields DEF ResolveRearm, GoodCall, Objects
  <2>2. CASE Served(call[t].obj) /\ Send(t, "rearm", call[t].obj, call[t].ids) /\ UNCHANGED lost
    <3>1. EventsGood /\ CallsGood
      BY <1>1, <2>1, <2>2, SendGood DEF ResolveRearm
    <3>2. EntriesGood /\ ObjectsKept
      BY <1>1, KeptGood DEF ResolveRearm, ObjectsKept, Known
    <3>3. QED
      BY <3>1, <3>2, HelpersFrame
  <2>3. CASE Return(t) /\ UNCHANGED queue
    BY <1>1, <2>3, KeptGood, HelpersFrame DEF ResolveRearm, Return, Begin, ObjectsKept, Known, TypeOK
  <2>4. QED
    BY <1>1, <2>2, <2>3 DEF ResolveRearm
<1>2. CASE Post(t)
  <2>1. EntriesGood /\ CallsGood /\ ObjectsKept
    BY <1>2, KeptGood DEF Post, Return, Begin, ObjectsKept, Known, TypeOK
  <2>2. call[t].obj \in Objects /\ call[t].obj # Nowhere /\ call[t].to \in Threads
    BY <1>2, <1>c, Fields DEF Post
  <2>3. ASSUME NEW u \in Threads, NEW e \in queue'[u] \cup batch'[u] PROVE GoodEvent(u, e)
    <3>1. \/ e \in queue[u] \cup batch[u]
          \/ u = call[t].to /\ e.kind = call[t].kind /\ e.obj = call[t].obj
      BY <1>2, <2>2, <2>3, EnqueueAbout DEF Post
    <3>2. QED
      BY <1>c, <2>2, <3>1 DEF HelpersAtHome, GoodEvent, GoodCall
  <2>4. QED
    BY <2>1, <2>3, HelpersFrame DEF EventsGood
<1>3. CASE Register(t)
  <2>1. EventsGood /\ CallsGood /\ ObjectsKept
    BY <1>3, KeptGood DEF Register, Return, Begin, ObjectsKept, Known, TypeOK
  <2>2. /\ call[t].obj \in Objects /\ call[t].obj # Nowhere /\ call[t].to \in Threads
        /\ call[t].obj \notin Helpers
    BY <1>3, <1>c, Fields DEF Register, GoodCall
  <2>3. ASSUME NEW u \in Threads, NEW r \in table'[u] \cup timerBatch'[u] PROVE GoodEntry(u, r)
    <3>1. r \in table[u] \cup timerBatch[u] \/ r[1] = call[t].obj
      BY <1>3, <2>2, <2>3 DEF Register, Entries, TypeOK
    <3>2. QED
      BY <1>c, <2>2, <3>1 DEF HelpersAtHome, GoodEntry, GoodCall
  <2>4. QED
    BY <2>1, <2>3, HelpersFrame DEF EntriesGood
<1>4. ASSUME NEW e \in batch[t],
             DispatchCall(t, e) \/ DispatchDelete(t, e) \/ DispatchArm(t, e) \/ DispatchRearm(t, e)
      PROVE HelpersAtHome'
  <2>1. e.obj \in Objects /\ GoodEvent(t, e)
    BY Fields DEF TypeOK, HelpersAtHome
  <2>2. \A u \in Threads : batch'[u] \subseteq batch[u]
    BY <1>4 DEF DispatchCall, DispatchDelete, DispatchArm, DispatchRearm, Consume, TypeOK
  <2>3. CASE DispatchCall(t, e)
    BY <2>2, <2>3, KeptGood, HelpersFrame DEF DispatchCall, ObjectsKept, Known
  <2>4. CASE DispatchDelete(t, e)
    BY <2>2, <2>4, KeptGood, HelpersFrame DEF DispatchDelete, Destroy, ObjectsKept, Known, TypeOK
  <2>5. CASE DispatchArm(t, e)
    <3>1. EventsGood /\ CallsGood
      BY <2>2, <2>5, KeptGood DEF DispatchArm
    <3>2. ObjectsKept
      BY <2>1, <2>5 DEF DispatchArm, StartTimer, ObjectsKept, Known, GoodEvent, TypeOK
    <3>3. ASSUME NEW u \in Threads, NEW r \in table'[u] \cup timerBatch'[u] PROVE GoodEntry(u, r)
      <4>1. r \in table[u] \cup timerBatch[u] \/ (r[1] = e.obj /\ u = t)
        BY <2>5, <3>3 DEF DispatchArm, StartTimer, TypeOK
      <4>2. QED
        BY <2>1, <4>1 DEF HelpersAtHome, GoodEntry, GoodEvent
    <3>4. QED
      BY <3>1, <3>2, <3>3, HelpersFrame DEF EntriesGood
  <2>6. CASE DispatchRearm(t, e)
    <3>0. e.obj \notin Helpers /\ Known(e.obj)
      BY <2>1, <2>6 DEF DispatchRearm, GoodEvent
    <3>1. EventsGood /\ ObjectsKept
      BY <2>2, <2>6, KeptGood DEF DispatchRearm, ObjectsKept, Known
    <3>2. ASSUME NEW u \in Threads, NEW r \in table'[u] \cup timerBatch'[u] PROVE GoodEntry(u, r)
      <4>1. r \in table[u] \cup timerBatch[u] \/ r[1] = e.obj
        BY <2>6, <3>2 DEF DispatchRearm, Entries, TypeOK
      <4>2. QED
        BY <3>0, <4>1 DEF HelpersAtHome, GoodEntry
    <3>3. ASSUME NEW u \in Threads, NEW c \in Call, c = call'[u] PROVE GoodCall(c)
      <4>1. c = call[u] \/ (c.obj = e.obj /\ c.kind = "rearm")
        BY <2>6, <3>3 DEF DispatchRearm, Begin, TypeOK
      <4>2. QED
        BY <3>0, <4>1 DEF HelpersAtHome, GoodCall
    <3>4. QED
      BY <3>1, <3>2, <3>3, HelpersFrame DEF EntriesGood, CallsGood
  <2>7. QED
    BY <1>4, <2>3, <2>4, <2>5, <2>6
<1>5. ASSUME NEW o \in Objects, NEW i \in Ids, SkipTimer(t, o, i) PROVE HelpersAtHome'
  BY <1>5, KeptGood, HelpersFrame DEF SkipTimer, NextTimer, ObjectsKept, Known, TypeOK
<1>6. ASSUME NEW o \in Objects, NEW i \in Ids, RunFunctor(t, o, i) PROVE HelpersAtHome'
  <2>1. EntriesGood /\ ObjectsKept
    BY <1>6, KeptGood DEF RunFunctor, NextTimer, ObjectsKept, Known, TypeOK
  <2>2. Known(o) /\ home[o] = t
    BY <1>6 DEF RunFunctor, NextTimer, HelpersAtHome, GoodEntry
  <2>3. EventsGood /\ CallsGood
    <3>1. CASE deletePosted[o]
      BY <1>6, <3>1, KeptGood DEF RunFunctor
    <3>2. CASE ~deletePosted[o]
      BY <1>6, <2>2, <3>2, SendGood DEF RunFunctor
    <3>3. QED
      BY <3>1, <3>2
  <2>4. QED
    BY <2>1, <2>3, HelpersFrame
<1>7. ASSUME NEW o \in Objects, NEW i \in Ids, NEW single \in BOOLEAN, Timeout(t, o, i, single)
      PROVE HelpersAtHome'
  BY <1>7, KeptGood, HelpersFrame DEF Timeout, NextTimer, KillTimer, ObjectsKept, Known, TypeOK
<1>8. CASE PassDone(t)
  BY <1>8, KeptGood, HelpersFrame DEF PassDone, ObjectsKept, Known
<1>9. CASE DrainPass(t)
  BY <1>9, KeptGood, HelpersFrame DEF DrainPass, TakeDeletes, Deletes, ObjectsKept, Known, TypeOK
<1>10. CASE LetGo(t)
  BY <1>10, KeptGood, HelpersFrame DEF LetGo, Replace, ObjectsKept, Known, TypeOK
<1>11. QED
  BY <1>1, <1>2, <1>3, <1>4, <1>5, <1>6, <1>7, <1>8, <1>9, <1>10 DEF Proceed

\* ... and how loops begin and end.
LEMMA HelpersStep == TypeOK /\ HelpersAtHome /\ [Next]_vars => HelpersAtHome'
<1> SUFFICES ASSUME TypeOK, HelpersAtHome, [Next]_vars PROVE HelpersAtHome'
  OBVIOUS
<1> USE ThreadsAssumption DEF threadVars, passVars, objectVars
<1>0. TypeOK'
  BY TypeStep
<1>1. ASSUME NEW t \in Threads, NEW expired \in SUBSET table[t], TakePass(t, expired)
      PROVE HelpersAtHome'
  BY <1>0, <1>1, KeptGood, HelpersFrame DEF TakePass, ObjectsKept, Known, TypeOK
<1>2. ASSUME NEW t \in Threads, ThreadStart(t) \/ ThreadDestroyed(t) PROVE HelpersAtHome'
  BY <1>0, <1>2, KeptGood, HelpersFrame DEF ThreadStart, ThreadDestroyed, ObjectsKept, Known
<1>3. ASSUME NEW t \in Threads, Close(t) PROVE HelpersAtHome'
  BY <1>0, <1>3, KeptGood, HelpersFrame DEF Close, TakeDeletes, Deletes, ObjectsKept, Known, TypeOK
<1>4. CASE AppConstruct
  BY <1>0, <1>4, KeptGood, HelpersFrame DEF AppConstruct, Replace, ObjectsKept, Known, TypeOK, Threads
<1>5. CASE UNCHANGED vars
  BY <1>0, <1>5, KeptGood, HelpersFrame DEF vars, ObjectsKept, Known
<1>6. QED
  BY <1>0, <1>1, <1>2, <1>3, <1>4, <1>5, HelpersUser, HelpersProceed DEF Next

TypeInv == TypeOK /\ HelpersAtHome

\* Initially, and after every step, everything has its type and every helper is at home.
LEMMA TypeInvariant == Safety => []TypeInv
<1>1. Init => TypeInv
  <2>1. ASSUME Init PROVE TypeOK
    <3>1. NoCall \in Call
      BY DEF Call
    <3>2. call \in [Threads -> Call] /\ stage \in [Threads -> Stages]
      BY <2>1, <3>1 DEF Init, Stages
    <3>3. Main \in Threads
      BY DEF Threads
    <3>4. /\ home \in [Objects -> Threads \cup {Nowhere}] /\ state \in [Objects -> {"unborn", "alive", "freed"}]
          /\ queue \in [Threads -> SUBSET Event] /\ batch \in [Threads -> SUBSET Event]
      BY <2>1, <3>3 DEF Init
    <3>5. /\ nextId \in Nat \ {0} /\ shots \in [Objects -> Nat] /\ lost \in [Objects -> BOOLEAN]
          /\ timerId \in [Objects -> Ids \cup {0}] /\ deletePosted \in [Objects -> BOOLEAN]
      BY <2>1 DEF Init
    <3>6. QED
      BY <2>1, <3>2, <3>4, <3>5 DEF Init, TypeOK
  <2>2. ASSUME Init PROVE HelpersAtHome
    <3>1. GoodCall(NoCall)
      BY ThreadsAssumption DEF GoodCall, NoCall, Objects
    <3>2. \A o \in Objects : timerId[o] = 0
      BY <2>2 DEF Init
    <3>3. ASSUME NEW t \in Threads
          PROVE  queue[t] = {} /\ batch[t] = {} /\ table[t] = {} /\ timerBatch[t] = {} /\ call[t] = NoCall
      BY <2>2 DEF Init
    <3>4. QED
      BY <3>1, <3>2, <3>3 DEF HelpersAtHome, GoodCall, Known
  <2>3. QED
    BY <2>1, <2>2 DEF TypeInv
<1>2. TypeInv /\ [Next]_vars => TypeInv'
  BY TypeStep, HelpersStep DEF TypeInv
<1>3. QED
  BY <1>1, <1>2, PTL DEF Safety

\* Every reachable state has the right type: no call is made on a dispatcher that is not
\* there.
THEOREM TypeCorrect == Safety => []TypeOK
BY TypeInvariant, PTL DEF TypeInv

-----------------------------------------------------------------------------
(* Custody: who has which timer id, and for whom. A step either takes some *)
(* ids from one holder to another, or hands out the next one.              *)

Holds(t, place, o, i) ==
  \/ place = "table" /\ <<o, i>> \in table[t]
  \/ place = "queue" /\ \E e \in queue[t] : e.obj = o /\ i \in e.ids
  \/ place = "batch" /\ \E e \in batch[t] : e.obj = o /\ i \in e.ids
  \/ place = "hand"  /\ call[t].obj = o /\ i \in call[t].ids

OneHolder == \A t, u \in Threads, p, q \in Places, o, x \in Objects, i \in Ids :
  Holds(t, p, o, i) /\ Holds(u, q, x, i) => t = u /\ p = q /\ o = x
IdsBelow == /\ \A t \in Threads, p \in Places, o \in Objects, i \in Ids : Holds(t, p, o, i) => i < nextId
            /\ \A o \in Objects : timerId[o] < nextId
OwnId == \A o, x \in Objects : timerId[o] # 0 /\ timerId[o] = timerId[x] => o = x
HeldForOwner == \A t \in Threads, p \in Places, o, x \in Objects, i \in Ids :
  timerId[o] = i /\ Holds(t, p, x, i) => o = x
Held == \A o \in Objects, i \in Ids : Alive(o) /\ timerId[o] = i /\ ~lost[o] =>
           \E t \in Threads, p \in Places : Holds(t, p, o, i)
Custody == OneHolder /\ IdsBelow /\ OwnId /\ HeldForOwner /\ Held

\* The ids in S go from place p of thread a to place q of thread b.
Carried(S, a, p, b, q) ==
  /\ \A u \in Threads, r \in Places, x \in Objects, i \in Ids : Holds(u, r, x, i)' =>
       \/ i \notin S /\ Holds(u, r, x, i)
       \/ i \in S /\ u = b /\ r = q /\ Holds(a, p, x, i)
  /\ \A u \in Threads, r \in Places, x \in Objects, i \in Ids :
       Holds(u, r, x, i) /\ Alive(x)' /\ timerId'[x] = i /\ ~lost'[x] =>
         \E v \in Threads, w \in Places : Holds(v, w, x, i)'
  /\ nextId' = nextId
  /\ \A x \in Objects : /\ timerId'[x] = timerId[x] \/ timerId'[x] = 0
                        /\ Alive(x)' /\ timerId'[x] # 0 => Alive(x) /\ (lost[x] => lost'[x])

\* The next id goes to the table of t, for o.
Armed(t, o) ==
  /\ \A u \in Threads, r \in Places, x \in Objects, i \in Ids : Holds(u, r, x, i)' =>
       Holds(u, r, x, i) \/ (u = t /\ r = "table" /\ x = o /\ i = nextId)
  /\ \A u \in Threads, r \in Places, x \in Objects, i \in Ids :
       x # o /\ Holds(u, r, x, i) => Holds(u, r, x, i)'
  /\ \A i \in Ids : i = nextId => Holds(t, "table", o, i)'
  /\ nextId \in Ids /\ nextId' = nextId + 1 /\ timerId'[o] = nextId
  /\ \A x \in Objects : x # o => timerId'[x] = timerId[x] /\ lost'[x] = lost[x] /\ state'[x] = state[x]

\* Neither takes an id from its owner's only holder.
LEMMA CarriedKeeps ==
  ASSUME TypeOK, TypeOK', Custody, NEW S, NEW a \in Threads, NEW p \in Places,
         NEW b \in Threads, NEW q \in Places, Carried(S, a, p, b, q)
  PROVE  Custody'
<1> USE DEF Carried
<1>1. OneHolder'
  BY DEF Custody, OneHolder
<1>2. IdsBelow'
  <2>1. ASSUME NEW x \in Objects PROVE timerId'[x] < nextId'
    <3>1. timerId[x] < nextId /\ 0 < nextId
      BY DEF Custody, IdsBelow, TypeOK
    <3>2. nextId' = nextId /\ (timerId'[x] = timerId[x] \/ timerId'[x] = 0)
      OBVIOUS
    <3>3. QED
      BY <3>1, <3>2
  <2>2. \A u \in Threads, r \in Places, x \in Objects, i \in Ids : Holds(u, r, x, i)' => i < nextId'
    BY DEF Custody, IdsBelow
  <2>3. QED
    BY <2>1, <2>2 DEF IdsBelow
<1>3. OwnId'
  BY DEF Custody, OwnId
<1>4. HeldForOwner'
  BY DEF Custody, HeldForOwner, Ids
<1>5. Held'
  <2> SUFFICES ASSUME NEW o \in Objects, NEW i \in Ids, Alive(o)', timerId'[o] = i, ~lost'[o]
               PROVE  \E t \in Threads, w \in Places : Holds(t, w, o, i)'
    BY DEF Held
  <2>1. Alive(o) /\ timerId[o] = i /\ ~lost[o]
    BY DEF Ids, TypeOK
  <2>2. PICK t \in Threads, w \in Places : Holds(t, w, o, i)
    BY <2>1 DEF Custody, Held
  <2>3. QED
    BY <2>2
<1>6. QED
  BY <1>1, <1>2, <1>3, <1>4, <1>5 DEF Custody

LEMMA ArmedKeeps ==
  ASSUME TypeOK, TypeOK', Custody, NEW t \in Threads, NEW o \in Objects, Armed(t, o)
  PROVE  Custody'
<1> USE DEF Armed
<1>0. \A u \in Threads, r \in Places, x \in Objects, i \in Ids : Holds(u, r, x, i) => i # nextId
  BY DEF Custody, IdsBelow, Ids, TypeOK
<1>1. OneHolder'
  <2> SUFFICES ASSUME NEW u \in Threads, NEW v \in Threads, NEW p \in Places, NEW q \in Places,
                      NEW x \in Objects, NEW y \in Objects, NEW i \in Ids,
                      Holds(u, p, x, i)', Holds(v, q, y, i)'
               PROVE  u = v /\ p = q /\ x = y
    BY DEF OneHolder
  <2>1. CASE i = nextId
    BY <1>0, <2>1
  <2>2. CASE i # nextId
    BY <2>2 DEF Custody, OneHolder
  <2>3. QED
    BY <2>1, <2>2
<1>2. IdsBelow'
  <2>1. \A x \in Objects : timerId'[x] < nextId'
    BY BoundsAssumption DEF Custody, IdsBelow, TypeOK, Ids
  <2>2. \A u \in Threads, r \in Places, x \in Objects, i \in Ids : Holds(u, r, x, i)' => i < nextId'
    BY BoundsAssumption DEF Custody, IdsBelow, TypeOK, Ids
  <2>3. QED
    BY <2>1, <2>2 DEF IdsBelow
<1>3. OwnId'
  BY DEF Custody, OwnId, IdsBelow, Ids, TypeOK
<1>4. HeldForOwner'
  <2> SUFFICES ASSUME NEW u \in Threads, NEW r \in Places, NEW x \in Objects, NEW y \in Objects,
                      NEW i \in Ids, timerId'[y] = i, Holds(u, r, x, i)'
               PROVE  y = x
    BY DEF HeldForOwner
  <2>1. CASE y = o
    BY <1>0, <2>1
  <2>2. CASE y # o
    <3>1. timerId[y] = i /\ i # nextId
      BY <2>2 DEF Custody, IdsBelow, Ids, TypeOK
    <3>2. QED
      BY <3>1 DEF Custody, HeldForOwner
  <2>3. QED
    BY <2>1, <2>2
<1>5. Held'
  <2> SUFFICES ASSUME NEW x \in Objects, NEW i \in Ids, Alive(x)', timerId'[x] = i, ~lost'[x]
               PROVE  \E u \in Threads, w \in Places : Holds(u, w, x, i)'
    BY DEF Held
  <2>1. CASE x = o
    BY <2>1 DEF Places
  <2>2. CASE x # o
    <3>1. PICK u \in Threads, w \in Places : Holds(u, w, x, i)
      BY <2>2 DEF Custody, Held, Alive
    <3>2. QED
      BY <2>2, <3>1
  <2>3. QED
    BY <2>1, <2>2
<1>6. QED
  BY <1>1, <1>2, <1>3, <1>4, <1>5 DEF Custody

-----------------------------------------------------------------------------
(* What custody needs of queues and passes.                                *)

OneEvent == \A t \in Threads, i \in Ids :
  /\ \A e, f \in queue[t] : i \in e.ids /\ i \in f.ids => e = f
  /\ \A e, f \in batch[t] : i \in e.ids /\ i \in f.ids => e = f
BuriedFreed == \A t \in Threads : \A o \in buried[t] : state[o] = "freed"
OnlyRearmsCarry == \A t \in Threads :
  /\ \A e \in queue[t] \cup batch[t] : e.kind # "rearm" => e.ids = {}
  /\ call[t].at # "moved" /\ call[t].kind # "rearm" => call[t].ids = {}
BatchOfPass == \A t \in Threads : stage[t] \notin {"dispatch", "drain"} => batch[t] = {}
Tidy == OneEvent /\ BuriedFreed /\ OnlyRearmsCarry /\ BatchOfPass

\* A step that appends nothing leaves queues and passes tidy.
LEMMA TidyKept ==
  ASSUME TypeOK, TypeOK', Tidy,
         \A t \in Threads : \/ batch'[t] \subseteq batch[t] /\ queue'[t] \subseteq queue[t]
                            \/ batch'[t] \subseteq queue[t] /\ queue'[t] \subseteq queue[t],
         \A o \in Objects : state[o] = "freed" => state'[o] = "freed",
         \A t \in Threads : \A o \in buried'[t] : o \in buried[t] \/ state'[o] = "freed",
         \A t \in Threads : \/ call'[t] = call[t] \/ call'[t].at = "moved" \/ call'[t].ids = {}
                            \/ call'[t].kind = "rearm"
                            \/ call'[t] = [call[t] EXCEPT !.dropped = TRUE],
         \A t \in Threads : stage'[t] \notin {"dispatch", "drain"} =>
           batch'[t] = {} \/ (stage[t] \notin {"dispatch", "drain"} /\ batch'[t] = batch[t])
  PROVE  Tidy'
<1>1. OneEvent'
  BY DEF Tidy, OneEvent
<1>2. BuriedFreed'
  BY DEF Tidy, BuriedFreed, TypeOK
<1>3. OnlyRearmsCarry'
  <2>1. ASSUME NEW t \in Threads, NEW e \in queue'[t] \cup batch'[t], e.kind # "rearm" PROVE e.ids = {}
    BY <2>1 DEF Tidy, OnlyRearmsCarry
  <2>2. ASSUME NEW t \in Threads, call'[t].at # "moved" /\ call'[t].kind # "rearm"
        PROVE  call'[t].ids = {}
    <3>1. CASE call'[t] = [call[t] EXCEPT !.dropped = TRUE]
      <4>1. call[t] \in Call
        BY DEF TypeOK
      <4>2. call'[t].at = call[t].at /\ call'[t].kind = call[t].kind /\ call'[t].ids = call[t].ids
        BY <3>1, <4>1 DEF Call, NoCall, Moved, Handing
      <4>3. QED
        BY <2>2, <4>2 DEF Tidy, OnlyRearmsCarry
    <3>2. QED
      BY <2>2, <3>1 DEF Tidy, OnlyRearmsCarry
  <2>3. QED
    BY <2>1, <2>2 DEF OnlyRearmsCarry
<1>4. BatchOfPass'
  BY DEF Tidy, BatchOfPass
<1>5. QED
  BY <1>1, <1>2, <1>3, <1>4 DEF Tidy

\* Nor does one that appends an event with no ids, or with ids no event in the queue has.
LEMMA TidyEnqueue ==
  ASSUME TypeOK, Tidy, NEW u \in Threads, NEW kind, NEW o, NEW ids, Enqueue(u, kind, o, ids),
         kind # "rearm" => ids = {},
         \A e \in queue[u] : e.ids \cap ids = {}, batch' = batch
  PROVE  /\ OneEvent'
         /\ \A t \in Threads : \A e \in queue'[t] \cup batch'[t] : e.kind # "rearm" => e.ids = {}
<1>1. PICK n \in {0} \cup {e.seq + 1 : e \in queue[u]} :
        queue' = [queue EXCEPT ![u] = @ \cup {[seq |-> n, kind |-> kind, obj |-> o, ids |-> ids]}]
  BY DEF Enqueue
<1>2. \A v \in Threads : v # u => queue'[v] = queue[v]
  BY <1>1 DEF TypeOK
<1>3. queue'[u] = queue[u] \cup {[seq |-> n, kind |-> kind, obj |-> o, ids |-> ids]}
  BY <1>1 DEF TypeOK
<1>4. OneEvent'
  BY <1>2, <1>3 DEF Tidy, OneEvent
<1>5. \A t \in Threads : \A e \in queue'[t] \cup batch'[t] : e.kind # "rearm" => e.ids = {}
  BY <1>2, <1>3 DEF Tidy, OnlyRearmsCarry
<1>6. QED
  BY <1>4, <1>5

-----------------------------------------------------------------------------
(* Every step keeps custody.                                               *)

\* Nobody takes or drops an id that is somebody's.
HoldersKept ==
  /\ \A u \in Threads, r \in Places, x \in Objects, i \in Ids : Holds(u, r, x, i)' => Holds(u, r, x, i)
  /\ \A u \in Threads, r \in Places, x \in Objects, i \in Ids :
       Holds(u, r, x, i) /\ Alive(x)' /\ timerId'[x] = i /\ ~lost'[x] => Holds(u, r, x, i)'
OwnersKept ==
  /\ nextId' = nextId
  /\ \A x \in Objects : /\ timerId'[x] = timerId[x] \/ timerId'[x] = 0
                        /\ Alive(x)' /\ timerId'[x] # 0 => Alive(x) /\ (lost[x] => lost'[x])

LEMMA KeptKeeps == ASSUME TypeOK, TypeOK', Custody, HoldersKept, OwnersKept PROVE Custody'
<1>1. PICK t \in Threads : TRUE
  BY DEF Threads
<1>2. "table" \in Places
  BY DEF Places
<1>3. Carried({}, t, "table", t, "table")
  BY DEF Carried, HoldersKept, OwnersKept
<1>4. QED
  BY <1>1, <1>2, <1>3, CarriedKeeps

\* Who holds what after a call without ids has been handed over.
LEMMA SendKeeps ==
  ASSUME TypeOK, TypeOK', Tidy, Custody, NEW t \in Threads, NEW kind, NEW o, Send(t, kind, o, {}),
         call[t] = NoCall, UNCHANGED <<table, batch, stage>>, OwnersKept,
         \A x \in Objects : state[x] = "freed" => state'[x] = "freed", UNCHANGED buried
  PROVE  Custody' /\ Tidy'
<1>1. call[t].ids = {} /\ \A u \in Threads : u # t => call'[u] = call[u]
  BY DEF NoCall, Send, Return, Begin, TypeOK
<1>2. call'[t].ids = {}
  BY DEF NoCall, Send, Return, Begin, TypeOK
<1>3. CASE UNCHANGED queue
  <2>1. HoldersKept
    BY <1>1, <1>2, <1>3 DEF HoldersKept, Holds
  <2>2. Tidy'
    BY <1>1, <1>2, <1>3, TidyKept
  <2>3. QED
    BY <2>1, <2>2, KeptKeeps
<1>4. CASE Enqueue(t, kind, o, {})
  <2>1. PICK n \in {0} \cup {e.seq + 1 : e \in queue[t]} :
          queue' = [queue EXCEPT ![t] = @ \cup {[seq |-> n, kind |-> kind, obj |-> o, ids |-> {}]}]
    BY <1>4 DEF Enqueue
  <2>2. ASSUME NEW u \in Threads, NEW x, NEW i
        PROVE  (\E e \in queue'[u] : e.obj = x /\ i \in e.ids) <=> (\E e \in queue[u] : e.obj = x /\ i \in e.ids)
    BY <2>1 DEF TypeOK
  <2>3. HoldersKept
    BY <1>1, <1>2, <2>2, SMTT(30) DEF HoldersKept, Holds
  <2>4. OneEvent' /\ \A u \in Threads : \A e \in queue'[u] \cup batch'[u] : e.kind # "rearm" => e.ids = {}
    BY <1>4, TidyEnqueue
  <2>5. BuriedFreed' /\ BatchOfPass'
    BY DEF Tidy, BuriedFreed, BatchOfPass, TypeOK
  <2>6. \A u \in Threads : call'[u].at # "moved" /\ call'[u].kind # "rearm" => call'[u].ids = {}
    BY <1>1, <1>2 DEF Tidy, OnlyRearmsCarry
  <2>7. QED
    BY <2>3, <2>4, <2>5, <2>6, KeptKeeps DEF Tidy, OnlyRearmsCarry
<1>5. QED
  BY <1>3, <1>4 DEF Send

\* Who holds what after an object has been destroyed.
LEMMA DestroyKeeps ==
  ASSUME TypeOK, TypeOK', Custody, NEW o \in Objects, Destroy(o), UNCHANGED <<nextId, lost, call>>,
         \A u \in Threads : batch'[u] \subseteq batch[u],
         \A u \in Threads : \A e \in batch[u] \ batch'[u] : e.ids = {}
  PROVE  Custody'
<1>1. HoldersKept
  <2>1. ASSUME NEW u \in Threads, NEW r \in Places, NEW x \in Objects, NEW i \in Ids,
               Holds(u, r, x, i)'
        PROVE  Holds(u, r, x, i)
    BY <2>1 DEF Holds, Destroy, TypeOK
  <2>2. ASSUME NEW u \in Threads, NEW r \in Places, NEW x \in Objects, NEW i \in Ids,
               Holds(u, r, x, i), x # o
        PROVE  Holds(u, r, x, i)'
    BY <2>2 DEF Holds, Destroy, TypeOK
  <2>3. ~Alive(o)'
    BY DEF Destroy, Alive, TypeOK
  <2>4. QED
    BY <2>1, <2>2, <2>3 DEF HoldersKept
<1>2. OwnersKept
  BY DEF OwnersKept, Destroy, Alive, TypeOK
<1>3. QED
  BY <1>1, <1>2, KeptKeeps

\* Who holds what after start().
LEMMA StartTimerKeeps ==
  ASSUME TypeOK, TypeOK', Custody, NEW t \in Threads, NEW o \in Objects, StartTimer(t, o),
         UNCHANGED <<queue, call>>, \A x \in Objects : x # o => state'[x] = state[x],
         \A u \in Threads : batch'[u] \subseteq batch[u],
         \A u \in Threads : \A e \in batch[u] \ batch'[u] : e.ids = {}
  PROVE  Custody'
<1>1. table'[t] = (table[t] \ {<<o, timerId[o]>>}) \cup {<<o, nextId>>}
  BY DEF StartTimer, TypeOK
<1>2. \A u \in Threads : u # t => table'[u] = table[u]
  BY DEF StartTimer, TypeOK
<1>3. ASSUME NEW u \in Threads, NEW r \in Places, NEW x \in Objects, NEW i \in Ids, Holds(u, r, x, i)'
      PROVE  Holds(u, r, x, i) \/ (u = t /\ r = "table" /\ x = o /\ i = nextId)
  BY <1>1, <1>2, <1>3 DEF Holds
<1>4. ASSUME NEW u \in Threads, NEW r \in Places, NEW x \in Objects, NEW i \in Ids,
             x # o, Holds(u, r, x, i)
      PROVE  Holds(u, r, x, i)'
  BY <1>1, <1>2, <1>4 DEF Holds
<1>5. \A i \in Ids : i = nextId => Holds(t, "table", o, i)'
  BY <1>1 DEF Holds
<1>6. nextId \in Ids /\ nextId' = nextId + 1 /\ timerId'[o] = nextId
  BY StartTimerTypes DEF StartTimer, TypeOK
<1>7. \A x \in Objects : x # o => timerId'[x] = timerId[x] /\ lost'[x] = lost[x]
  BY DEF StartTimer, TypeOK
<1>8. Armed(t, o)
  BY <1>3, <1>4, <1>5, <1>6, <1>7 DEF Armed
<1>9. QED
  BY <1>8, ArmedKeeps

\* First what user code does, ...
LEMMA CustodyUser ==
  ASSUME TypeOK, TypeOK', HelpersAtHome, Custody, Tidy, NEW t \in Threads, UserStep(t)
  PROVE  Custody' /\ Tidy'
<1> USE DEF threadVars, passVars, objectVars
<1>0. PICK o \in Objects :
        \/ Start(t, o) \/ Stop(t, o)
        \/ \E to \in Threads \cup {Nowhere} : Move(t, o, to)
        \/ Emit(t, o) \/ DeleteLater(t, o) \/ Delete(t, o)
        \/ \E context \in Timers : SingleShotCall(t, o, context)
  BY DEF UserStep
<1>1. CASE Start(t, o)
  <2>1. Custody'
    BY <1>1, StartTimerKeeps DEF Start
  <2>2. Tidy'
    BY <1>1, TidyKept DEF Start, Tidy, BatchOfPass
  <2>3. QED
    BY <2>1, <2>2
<1>2. CASE Stop(t, o)
  <2>1. ASSUME NEW u \in Threads, NEW r \in Places, NEW x \in Objects, NEW i \in Ids
        PROVE  /\ Holds(u, r, x, i)' => Holds(u, r, x, i)
               /\ x # o /\ Holds(u, r, x, i) => Holds(u, r, x, i)'
    BY <1>2 DEF Stop, KillTimer, Holds, TypeOK
  <2>2. timerId'[o] = 0 /\ \A x \in Objects : x # o => timerId'[x] = timerId[x] /\ lost'[x] = lost[x]
    BY <1>2 DEF Stop, TypeOK
  <2>3. HoldersKept
    BY <2>1, <2>2 DEF HoldersKept, Ids
  <2>4. OwnersKept
    BY <1>2, <2>2 DEF OwnersKept, Stop, Alive
  <2>5. Tidy'
    BY <1>2, TidyKept DEF Stop, Tidy, BatchOfPass
  <2>6. QED
    BY <2>3, <2>4, <2>5, KeptKeeps
<1>3. ASSUME NEW to \in Threads \cup {Nowhere}, Move(t, o, to) PROVE Custody' /\ Tidy'
  <2> DEFINE ids == IF Served(o) THEN IdsOf(o, home[o]) ELSE {}
             moved == [NoCall EXCEPT !.at = "moved", !.obj = o, !.ids = ids]
  <2>1. /\ table' = [u \in Threads |-> IF u = home[o] THEN table[u] \ Entries(o, ids) ELSE table[u]]
        /\ \/ ids = {} /\ UNCHANGED call
           \/ ids # {} /\ call' = [call EXCEPT ![t] = moved]
        /\ UNCHANGED <<quiet, threadVars, queue, passVars, state, timerId, deletePosted, nextId, shots, lost>>
        /\ call[t] = NoCall
    BY <1>3 DEF Move, Begin, UserCode
  <2>2. moved.obj = o /\ moved.at = "moved" /\ moved.ids = ids
    BY DEF NoCall
  <2>3. ids # {} => home[o] \in Threads
    BY ServedTypes
  <2>4. \A i \in ids : <<o, i>> \in table[home[o]] /\ i \in Ids
    BY DEF IdsOf
  <2> HIDE DEF ids, moved
  <2>t. \A i \in ids : Holds(home[o], "table", o, i)
    BY <2>4 DEF Holds
  <2>h. ASSUME NEW u \in Threads, NEW r \in Places, NEW x \in Objects, NEW i \in ids, Holds(u, r, x, i)
        PROVE  u = home[o] /\ r = "table" /\ x = o
    <3>1. home[o] \in Threads /\ i \in Ids /\ "table" \in Places
      BY <2>3, <2>4 DEF Places
    <3>2. QED
      BY <2>h, <2>t, <3>1 DEF Custody, OneHolder
  <2>5. Tidy'
    BY <2>1, <2>2, TidyKept DEF Tidy, BatchOfPass, TypeOK
  <2>6. CASE ids = {} /\ UNCHANGED call
    <3>1. table' = table
      BY <2>1, <2>6 DEF Entries, TypeOK
    <3>2. HoldersKept /\ OwnersKept
      BY <2>1, <2>6, <3>1 DEF HoldersKept, OwnersKept, Holds, Alive
    <3>3. QED
      BY <2>5, <3>2, KeptKeeps
  <2>7. CASE ids # {} /\ call' = [call EXCEPT ![t] = moved]
    <3>1. ASSUME NEW u \in Threads, NEW r \in Places, NEW x \in Objects, NEW i \in Ids, Holds(u, r, x, i)'
          PROVE  \/ i \notin ids /\ Holds(u, r, x, i)
                 \/ i \in ids /\ u = t /\ r = "hand" /\ Holds(home[o], "table", x, i)
      <4>1. CASE r = "hand"
        <5>1. CASE u = t
          BY <2>2, <2>4, <2>7, <3>1, <4>1, <5>1 DEF Holds, TypeOK
        <5>2. CASE u # t
          <6>1. Holds(u, r, x, i)
            BY <2>7, <3>1, <4>1, <5>2 DEF Holds, TypeOK
          <6>2. i \notin ids
            BY <2>h, <4>1, <6>1
          <6>3. QED
            BY <6>1, <6>2
        <5>3. QED
          BY <5>1, <5>2
      <4>2. CASE r # "hand"
        <5>1. Holds(u, r, x, i)
          BY <2>1, <3>1, <4>2 DEF Holds, TypeOK
        <5>2. i \notin ids
          <6>1. SUFFICES ASSUME i \in ids PROVE FALSE
            OBVIOUS
          <6>2. u = home[o] /\ r = "table" /\ x = o
            BY <2>h, <5>1, <6>1
          <6>3. QED
            BY <2>1, <3>1, <6>1, <6>2 DEF Holds, Entries, TypeOK
        <5>3. QED
          BY <5>1, <5>2
      <4>3. QED
        BY <4>1, <4>2
    <3>2. ASSUME NEW u \in Threads, NEW r \in Places, NEW x \in Objects, NEW i \in Ids, Holds(u, r, x, i)
          PROVE  \E v \in Threads, w \in Places : Holds(v, w, x, i)'
      <4>1. CASE i \in ids
        <5>1. x = o
          BY <2>h, <3>2, <4>1
        <5>2. Holds(t, "hand", x, i)'
          BY <2>2, <2>7, <4>1, <5>1 DEF Holds, TypeOK
        <5>3. QED
          BY <5>2 DEF Places
      <4>2. CASE i \notin ids
        <5>1. r = "hand" => u # t
          BY <2>1, <3>2 DEF Holds, NoCall
        <5>2. Holds(u, r, x, i)'
          BY <2>1, <2>7, <3>2, <4>2, <5>1 DEF Holds, Entries, TypeOK
        <5>3. QED
          BY <5>2
      <4>3. QED
        BY <4>1, <4>2
    <3>3. Carried(ids, home[o], "table", t, "hand")
      BY <2>1, <3>1, <3>2 DEF Carried, Alive
    <3>4. QED
      BY <2>3, <2>5, <2>7, <3>3, CarriedKeeps DEF Places
  <2>8. QED
    BY <2>1, <2>6, <2>7
<1>4. CASE Emit(t, o)
  <2>1. OwnersKept
    BY <1>4 DEF Emit, OwnersKept, Alive
  <2>2. QED
    BY <1>4, <2>1, SendKeeps DEF Emit, UserCode
<1>5. CASE DeleteLater(t, o)
  <2>1. CASE Served(o) /\ Send(t, "delete", o, {}) /\ UNCHANGED <<table, state, timerId>>
    <3>1. OwnersKept
      BY <1>5, <2>1 DEF DeleteLater, OwnersKept, Alive
    <3>2. QED
      BY <1>5, <2>1, <3>1, SendKeeps DEF DeleteLater, UserCode
  <2>2. CASE Destroy(o) /\ UNCHANGED call
    <3>1. Custody'
      BY <1>5, <2>2, DestroyKeeps DEF DeleteLater
    <3>2. Tidy'
      BY <1>5, <2>2, TidyKept DEF DeleteLater, Destroy, Tidy, BatchOfPass, TypeOK
    <3>3. QED
      BY <3>1, <3>2
  <2>3. QED
    BY <1>5, <2>1, <2>2 DEF DeleteLater
<1>6. CASE Delete(t, o)
  <2>1. Custody'
    BY <1>6, DestroyKeeps DEF Delete
  <2>2. Tidy'
    BY <1>6, TidyKept DEF Delete, Destroy, Tidy, BatchOfPass, TypeOK
  <2>3. QED
    BY <2>1, <2>2
<1>7. ASSUME NEW context \in Timers, SingleShotCall(t, o, context) PROVE Custody' /\ Tidy'
  <2>1. /\ state[o] = "unborn" /\ state' = [state EXCEPT ![o] = "alive"] /\ call[t] = NoCall
        /\ UNCHANGED <<quiet, threadVars, queue, passVars, deletePosted>>
    BY <1>7 DEF SingleShotCall, UserCode
  <2>2. timerId[o] = 0
    BY <2>1 DEF HelpersAtHome, Known
  <2>3. CASE StartTimer(t, o) /\ UNCHANGED call
    <3>1. \A x \in Objects : x # o => state'[x] = state[x]
      BY <2>1 DEF TypeOK
    <3>2. Custody'
      BY <2>1, <2>3, <3>1, StartTimerKeeps
    <3>3. Tidy'
      BY <2>1, <2>3, TidyKept DEF Tidy, BatchOfPass, TypeOK
    <3>4. QED
      BY <3>2, <3>3
  <2>4. CASE /\ UNCHANGED <<table, timerId, nextId, lost, shots>>
             /\ \/ UNCHANGED call
                \/ \E to \in Threads \cup {Nowhere} :
                     Begin(t, [at |-> "posting", to |-> to, dropped |-> FALSE,
                               kind |-> "arm", obj |-> o, ids |-> {}])
    <3>1. /\ \A u \in Threads : u # t => call'[u] = call[u]
          /\ call[t].ids = {} /\ call'[t].ids = {}
      BY <2>1, <2>4 DEF Begin, NoCall, TypeOK
    <3>2. HoldersKept
      BY <2>1, <2>4, <3>1 DEF HoldersKept, Holds
    <3>3. OwnersKept
      BY <2>1, <2>2, <2>4 DEF OwnersKept, Alive, TypeOK
    <3>4. Tidy'
      BY <2>1, <2>4, <3>1, TidyKept DEF Tidy, BatchOfPass, TypeOK
    <3>5. QED
      BY <3>2, <3>3, <3>4, KeptKeeps
  <2>5. Served(context) => home[context] \in Threads
    BY ServedTypes DEF Objects
  <2>6. QED
    BY <1>7, <2>3, <2>4, <2>5 DEF SingleShotCall
<1>8. QED
  BY <1>0, <1>1, <1>2, <1>3, <1>4, <1>5, <1>6, <1>7

\* The ids a thread has in hand are nowhere else.
LEMMA OnlyHolder ==
  ASSUME Custody, NEW a \in Threads, NEW p \in Places, NEW o \in Objects, NEW S \in SUBSET Ids,
         \A i \in S : Holds(a, p, o, i)
  PROVE  \A u \in Threads, r \in Places, x \in Objects, i \in S :
           Holds(u, r, x, i) => u = a /\ r = p /\ x = o
BY DEF Custody, OneHolder

\* Ids that leave a thread's hand for another place, or get lost.
LEMMA HandOver ==
  ASSUME TypeOK, TypeOK', Custody, OwnersKept, NEW t \in Threads, NEW b \in Threads, NEW q \in Places,
         q # "hand", call[t].obj \in Objects, call[t].ids \in SUBSET Ids,
         \A u \in Threads : u # t => call'[u] = call[u], call'[t].ids = {},
         \A u \in Threads, r \in Places, x \in Objects, i \in Ids : r # "hand" =>
           (Holds(u, r, x, i)' <=> \/ Holds(u, r, x, i)
                                   \/ u = b /\ r = q /\ x = call[t].obj /\ i \in call[t].ids)
  PROVE  Custody'
<1> DEFINE S == call[t].ids
<1>1. /\ "hand" \in Places /\ \A i \in S : Holds(t, "hand", call[t].obj, i)
      /\ \A x \in Objects, i \in Ids : Holds(t, "hand", x, i) => x = call[t].obj /\ i \in S
  BY DEF Places, Holds
<1>2. \A u \in Threads, r \in Places, x \in Objects, i \in S :
        Holds(u, r, x, i) => u = t /\ r = "hand" /\ x = call[t].obj
  BY <1>1, OnlyHolder
<1>3. \A u \in Threads, x \in Objects, i \in Ids : u # t => (Holds(u, "hand", x, i)' <=> Holds(u, "hand", x, i))
  BY DEF Holds
<1>4. \A x \in Objects, i \in Ids : ~Holds(t, "hand", x, i)'
  BY DEF Holds
<1> HIDE DEF S
<1>5. ASSUME NEW u \in Threads, NEW r \in Places, NEW x \in Objects, NEW i \in Ids, Holds(u, r, x, i)'
      PROVE  \/ i \notin S /\ Holds(u, r, x, i)
             \/ i \in S /\ u = b /\ r = q /\ Holds(t, "hand", x, i)
  <2>1. CASE r = "hand"
    BY <1>2, <1>3, <1>4, <1>5, <2>1
  <2>2. CASE r # "hand"
    BY <1>1, <1>2, <1>5, <2>2 DEF S
  <2>3. QED
    BY <2>1, <2>2
<1>6. ASSUME NEW u \in Threads, NEW r \in Places, NEW x \in Objects, NEW i \in Ids, Holds(u, r, x, i)
      PROVE  \E v \in Threads, w \in Places : Holds(v, w, x, i)'
  <2>1. CASE r = "hand" /\ u = t
    <3>1. Holds(b, q, x, i)'
      BY <1>1, <1>6, <2>1 DEF S
    <3>2. QED
      BY <3>1
  <2>2. CASE r = "hand" /\ u # t
    BY <1>3, <1>6, <2>2
  <2>3. CASE r # "hand"
    BY <1>6, <2>3
  <2>4. QED
    BY <2>1, <2>2, <2>3
<1>7. Carried(S, t, "hand", b, q)
  BY <1>5, <1>6 DEF Carried, OwnersKept
<1>8. QED
  BY <1>1, <1>7, CarriedKeeps

LEMMA LoseKeeps ==
  ASSUME TypeOK, TypeOK', Custody, NEW ids, Lose(ids), UNCHANGED <<nextId, timerId, state>>,
         \A u \in Threads, r \in Places, x \in Objects, i \in Ids : Holds(u, r, x, i)' => Holds(u, r, x, i),
         \A u \in Threads, r \in Places, x \in Objects, i \in Ids :
           Holds(u, r, x, i) => Holds(u, r, x, i)' \/ i \in ids
  PROVE  Custody'
<1>1. HoldersKept
  BY DEF HoldersKept, Lose, TypeOK
<1>2. OwnersKept
  BY DEF OwnersKept, Lose, Alive, TypeOK
<1>3. QED
  BY <1>1, <1>2, KeptKeeps

\* Letting go of a dispatcher loses what it has, and nothing else.
LEMMA ReplaceKeeps ==
  ASSUME TypeOK, TypeOK', Custody, NEW t \in Threads, Replace(t),
         UNCHANGED <<nextId, timerId, state, batch>>
  PROVE  Custody'
<1>1. ASSUME NEW u \in Threads
      PROVE  /\ call'[u].obj = call[u].obj /\ call'[u].ids = call[u].ids
  <2>1. call[u] \in Call
    BY DEF TypeOK
  <2>2. call'[u] = call[u] \/ call'[u] = [call[u] EXCEPT !.dropped = TRUE]
    BY DEF Replace
  <2>3. QED
    BY <2>1, <2>2 DEF Call, NoCall, Moved, Handing
<1>2. \A u \in Threads : \/ u # t /\ queue'[u] = queue[u] /\ table'[u] = table[u]
                         \/ u = t /\ queue'[u] = {} /\ table'[u] = {}
  BY DEF Replace, TypeOK
<1>3. ASSUME NEW u \in Threads, NEW r \in Places, NEW x \in Objects, NEW i \in Ids, Holds(u, r, x, i)'
      PROVE  Holds(u, r, x, i)
  BY <1>1, <1>2, <1>3 DEF Holds
<1>4. ASSUME NEW u \in Threads, NEW r \in Places, NEW x \in Objects, NEW i \in Ids, Holds(u, r, x, i)
      PROVE  Holds(u, r, x, i)' \/ i \in Aboard(t)
  BY <1>1, <1>2, <1>4 DEF Holds, Aboard
<1>5. QED
  BY <1>3, <1>4, LoseKeeps DEF Replace

\* A call's ids end up in the queue it posts to.
LEMMA EnqueueKeeps ==
  ASSUME TypeOK, TypeOK', Custody, Tidy, OwnersKept, NEW t \in Threads, NEW b \in Threads, NEW kind,
         call[t].obj \in Objects, call[t].ids \in SUBSET Ids, kind # "rearm" => call[t].ids = {},
         Enqueue(b, kind, call[t].obj, call[t].ids), Return(t), UNCHANGED <<table, batch, stage, buried, state>>
  PROVE  Custody' /\ Tidy'
<1>1. /\ \A u \in Threads : u # t => call'[u] = call[u]
      /\ call'[t] = NoCall /\ call'[t].ids = {}
  BY DEF Return, Begin, NoCall, TypeOK
<1>2. PICK n \in {0} \cup {e.seq + 1 : e \in queue[b]} :
        queue' = [queue EXCEPT ![b] = @ \cup {[seq |-> n, kind |-> kind, obj |-> call[t].obj, ids |-> call[t].ids]}]
  BY DEF Enqueue
<1> DEFINE new == [seq |-> n, kind |-> kind, obj |-> call[t].obj, ids |-> call[t].ids]
<1>3. /\ \A u \in Threads : u # b => queue'[u] = queue[u]
      /\ queue'[b] = queue[b] \cup {new}
      /\ new.obj = call[t].obj /\ new.ids = call[t].ids
  BY <1>2 DEF TypeOK
<1> HIDE DEF new
<1>4. ASSUME NEW u \in Threads, NEW r \in Places, NEW x \in Objects, NEW i \in Ids, r # "hand"
      PROVE  Holds(u, r, x, i)' <=> \/ Holds(u, r, x, i)
                                    \/ u = b /\ r = "queue" /\ x = call[t].obj /\ i \in call[t].ids
  <2>1. CASE r = "queue" /\ u = b
    BY <1>3, <2>1 DEF Holds
  <2>2. CASE r = "queue" /\ u # b
    BY <1>3, <2>2 DEF Holds
  <2>3. CASE r = "table"
    BY <2>3 DEF Holds
  <2>4. CASE r = "batch"
    BY <2>4 DEF Holds
  <2>5. QED
    BY <1>4, <2>1, <2>2, <2>3, <2>4 DEF Places
<1>5. Custody'
  <2>1. "queue" \in Places /\ "queue" # "hand"
    BY DEF Places
  <2>2. QED
    BY <1>1, <1>4, <2>1, HandOver
<1>6. ASSUME NEW e \in queue[b], NEW i \in e.ids \cap call[t].ids PROVE FALSE
  <2>1. e.obj \in Objects /\ i \in Ids
    BY Fields DEF TypeOK
  <2>2. Holds(b, "queue", e.obj, i) /\ Holds(t, "hand", call[t].obj, i)
    BY DEF Holds
  <2>3. "queue" \in Places /\ "hand" \in Places /\ "queue" # "hand"
    BY DEF Places
  <2>4. QED
    BY <2>1, <2>2, <2>3 DEF Custody, OneHolder
<1>7. \A e \in queue[b] : e.ids \cap call[t].ids = {}
  BY <1>6
<1>8. OneEvent' /\ \A u \in Threads : \A e \in queue'[u] \cup batch'[u] : e.kind # "rearm" => e.ids = {}
  BY <1>7, TidyEnqueue
<1>9. BuriedFreed' /\ BatchOfPass'
  BY DEF Tidy, BuriedFreed, BatchOfPass
<1>10. OnlyRearmsCarry'
  BY <1>1, <1>8 DEF Tidy, OnlyRearmsCarry
<1>11. QED
  BY <1>5, <1>8, <1>9, <1>10 DEF Tidy

\* A call that finds nobody to hand its ids to loses them.
LEMMA ReturnLoses ==
  ASSUME TypeOK, TypeOK', Custody, Tidy, NEW t \in Threads, Return(t), Lose(call[t].ids),
         UNCHANGED <<queue, table, batch, stage, buried, state, nextId, timerId>>
  PROVE  Custody' /\ Tidy'
<1>1. /\ \A u \in Threads : u # t => call'[u] = call[u]
      /\ call'[t] = NoCall /\ call'[t].ids = {}
  BY DEF Return, Begin, NoCall, TypeOK
<1>2. ASSUME NEW u \in Threads, NEW r \in Places, NEW x \in Objects, NEW i \in Ids
      PROVE  /\ Holds(u, r, x, i)' => Holds(u, r, x, i)
             /\ Holds(u, r, x, i) => Holds(u, r, x, i)' \/ i \in call[t].ids
  BY <1>1 DEF Holds
<1>3. Custody'
  BY <1>2, LoseKeeps
<1>4. Tidy'
  <2>1. \A u \in Threads : stage'[u] \notin {"dispatch", "drain"} => batch'[u] = {}
    BY DEF Tidy, BatchOfPass
  <2>2. QED
    BY <1>1, <2>1, TidyKept
<1>5. QED
  BY <1>3, <1>4

\* An event leaves the batch: with its ids, if it has any.
LEMMA ConsumeHolds ==
  ASSUME TypeOK, Tidy, NEW t \in Threads, NEW e \in batch[t], Consume(t, e)
  PROVE  /\ \A u \in Threads, x \in Objects, i \in Ids :
              Holds(u, "batch", x, i)' <=> Holds(u, "batch", x, i) /\ ~(u = t /\ i \in e.ids)
         /\ \A i \in e.ids : Holds(t, "batch", e.obj, i)
<1>1. /\ batch'[t] = batch[t] \ {e}
      /\ \A u \in Threads : u # t => batch'[u] = batch[u]
  BY DEF Consume, TypeOK
<1>2. ASSUME NEW x \in Objects, NEW i \in Ids
      PROVE  Holds(t, "batch", x, i)' <=> Holds(t, "batch", x, i) /\ i \notin e.ids
  <2>1. \A f \in batch[t] : i \in e.ids /\ i \in f.ids => e = f
    BY DEF Tidy, OneEvent
  <2>2. QED
    BY <1>1, <2>1 DEF Holds
<1>3. QED
  BY <1>1, <1>2 DEF Holds

\* The queued re-registration: its ids go to the table at home, into the thread's hand, or are
\* lost.
LEMMA RearmKeeps ==
  ASSUME TypeOK, TypeOK', HelpersAtHome, Custody, Tidy, NEW t \in Threads, NEW e \in batch[t],
         DispatchRearm(t, e)
  PROVE  Custody' /\ Tidy'
<1> USE DEF threadVars, objectVars
<1>1. /\ e.obj \in Objects /\ e.ids \in SUBSET Ids /\ call[t] = NoCall /\ call[t].ids = {}
      /\ stage[t] \in {"dispatch", "drain"} /\ Consume(t, e)
      /\ UNCHANGED <<queue, stage, buried, state, timerId, nextId>>
  BY Fields DEF DispatchRearm, IsNext, NoCall, TypeOK
<1>2. /\ \A u \in Threads, x \in Objects, i \in Ids :
            Holds(u, "batch", x, i)' <=> Holds(u, "batch", x, i) /\ ~(u = t /\ i \in e.ids)
      /\ \A i \in e.ids : Holds(t, "batch", e.obj, i)
  BY <1>1, ConsumeHolds
<1>3. /\ "batch" \in Places /\ "table" \in Places /\ "hand" \in Places
      /\ Places = {"table", "queue", "batch", "hand"}
  BY DEF Places
<1>4. \A u \in Threads, r \in Places, x \in Objects, i \in e.ids :
        Holds(u, r, x, i) => u = t /\ r = "batch" /\ x = e.obj
  BY <1>1, <1>2, <1>3, OnlyHolder, SMTT(30)
<1>5. \A u \in Threads, x \in Objects, i \in Ids : Holds(u, "queue", x, i)' <=> Holds(u, "queue", x, i)
  BY <1>1 DEF Holds
<1>6. \A u \in Threads : batch'[u] \subseteq batch[u]
  BY <1>1 DEF Consume, TypeOK
<1>7. CASE table' = [table EXCEPT ![t] = @ \cup Entries(e.obj, e.ids)] /\ UNCHANGED <<call, lost>>
  <2>1. \A u \in Threads, x \in Objects, i \in Ids :
          Holds(u, "table", x, i)' <=> Holds(u, "table", x, i) \/ (u = t /\ x = e.obj /\ i \in e.ids)
    BY <1>7 DEF Holds, Entries, TypeOK
  <2>2. \A u \in Threads, x \in Objects, i \in Ids : Holds(u, "hand", x, i)' <=> Holds(u, "hand", x, i)
    BY <1>7 DEF Holds
  <2>3. ASSUME NEW u \in Threads, NEW r \in Places, NEW x \in Objects, NEW i \in Ids, Holds(u, r, x, i)'
        PROVE  \/ i \notin e.ids /\ Holds(u, r, x, i)
               \/ i \in e.ids /\ u = t /\ r = "table" /\ Holds(t, "batch", x, i)
    BY <1>2, <1>3, <1>4, <1>5, <2>1, <2>2, <2>3
  <2>4. ASSUME NEW u \in Threads, NEW r \in Places, NEW x \in Objects, NEW i \in Ids, Holds(u, r, x, i)
        PROVE  \E v \in Threads, w \in Places : Holds(v, w, x, i)'
    <3>1. CASE i \in e.ids
      BY <1>3, <1>4, <2>1, <2>4, <3>1
    <3>2. CASE i \notin e.ids
      BY <1>2, <1>3, <1>5, <2>1, <2>2, <2>4, <3>2
    <3>3. QED
      BY <3>1, <3>2
  <2>5. Carried(e.ids, t, "batch", t, "table")
    BY <1>1, <1>7, <2>3, <2>4 DEF Carried, Alive
  <2>6. Tidy'
    BY <1>1, <1>6, <1>7, TidyKept DEF Tidy, BatchOfPass
  <2>7. QED
    BY <1>3, <2>5, <2>6, CarriedKeeps
<1>8. CASE /\ UNCHANGED <<table, lost>>
           /\ \E to \in Threads \cup {Nowhere} :
                call' = [call EXCEPT ![t] = [at |-> "registering", to |-> to, dropped |-> FALSE,
                                             kind |-> "rearm", obj |-> e.obj, ids |-> e.ids]]
  <2>1. \A u \in Threads, x \in Objects, i \in Ids : Holds(u, "table", x, i)' <=> Holds(u, "table", x, i)
    BY <1>8 DEF Holds
  <2>2. \A u \in Threads : u # t => call'[u] = call[u]
    BY <1>8 DEF TypeOK
  <2>3. call'[t].obj = e.obj /\ call'[t].ids = e.ids /\ call'[t].kind = "rearm"
    BY <1>8 DEF TypeOK
  <2>4. \A u \in Threads, x \in Objects, i \in Ids :
          Holds(u, "hand", x, i)' <=> Holds(u, "hand", x, i) \/ (u = t /\ x = e.obj /\ i \in e.ids)
    BY <1>1, <2>2, <2>3 DEF Holds
  <2>5. ASSUME NEW u \in Threads, NEW r \in Places, NEW x \in Objects, NEW i \in Ids, Holds(u, r, x, i)'
        PROVE  \/ i \notin e.ids /\ Holds(u, r, x, i)
               \/ i \in e.ids /\ u = t /\ r = "hand" /\ Holds(t, "batch", x, i)
    BY <1>2, <1>3, <1>4, <1>5, <2>1, <2>4, <2>5
  <2>6. ASSUME NEW u \in Threads, NEW r \in Places, NEW x \in Objects, NEW i \in Ids, Holds(u, r, x, i)
        PROVE  \E v \in Threads, w \in Places : Holds(v, w, x, i)'
    <3>1. CASE i \in e.ids
      BY <1>3, <1>4, <2>4, <2>6, <3>1
    <3>2. CASE i \notin e.ids
      BY <1>2, <1>3, <1>5, <2>1, <2>4, <2>6, <3>2
    <3>3. QED
      BY <3>1, <3>2
  <2>7. Carried(e.ids, t, "batch", t, "hand")
    BY <1>1, <1>8, <2>5, <2>6 DEF Carried, Alive
  <2>8. Tidy'
    BY <1>1, <1>6, <2>2, <2>3, TidyKept DEF Tidy, BatchOfPass
  <2>9. QED
    BY <1>3, <2>7, <2>8, CarriedKeeps
<1>9. CASE Lose(e.ids) /\ UNCHANGED <<table, call>>
  <2>1. \A u \in Threads, x \in Objects, i \in Ids :
          /\ Holds(u, "table", x, i)' <=> Holds(u, "table", x, i)
          /\ Holds(u, "hand", x, i)' <=> Holds(u, "hand", x, i)
    BY <1>9 DEF Holds
  <2>2. ASSUME NEW u \in Threads, NEW r \in Places, NEW x \in Objects, NEW i \in Ids
        PROVE  /\ Holds(u, r, x, i)' => Holds(u, r, x, i)
               /\ Holds(u, r, x, i) => Holds(u, r, x, i)' \/ i \in e.ids
    BY <1>2, <1>3, <1>5, <2>1
  <2>3. Custody'
    BY <1>1, <1>9, <2>2, LoseKeeps
  <2>4. Tidy'
    BY <1>1, <1>6, <1>9, TidyKept DEF Tidy, BatchOfPass
  <2>5. QED
    BY <2>3, <2>4
<1>10. Served(e.obj) => home[e.obj] \in Threads
  BY <1>1, ServedTypes
<1>11. QED
  BY <1>7, <1>8, <1>9, <1>10 DEF DispatchRearm, Begin

\* ... then how calls and passes proceed, ...
LEMMA CustodyProceed ==
  ASSUME TypeOK, TypeOK', HelpersAtHome, Custody, Tidy, NEW t \in Threads, Proceed(t)
  PROVE  Custody' /\ Tidy'
<1> USE DEF threadVars, passVars, objectVars
<1>c. call[t] \in Call
  BY DEF TypeOK
<1>1. CASE ResolveRearm(t)
  <2>2. call[t].obj \in Objects /\ call[t].ids \in SUBSET Ids
    BY <1>1, <1>c, Fields DEF ResolveRearm
  <2>3. CASE Served(call[t].obj) /\ Send(t, "rearm", call[t].obj, call[t].ids) /\ UNCHANGED lost
    <3>1. OwnersKept
      BY <1>1, <2>3 DEF ResolveRearm, OwnersKept, Alive
    <3>2. CASE Enqueue(t, "rearm", call[t].obj, call[t].ids) /\ Return(t)
      BY <1>1, <2>2, <3>1, <3>2, EnqueueKeeps DEF ResolveRearm
    <3>3. CASE /\ UNCHANGED queue
               /\ \E to \in Threads :
                    call' = [call EXCEPT ![t] = [at |-> "posting", to |-> to, dropped |-> FALSE,
                                                 kind |-> "rearm", obj |-> call[t].obj, ids |-> call[t].ids]]
      <4>1. /\ \A u \in Threads : call'[u].obj = call[u].obj /\ call'[u].ids = call[u].ids
            /\ call'[t].kind = "rearm" /\ \A u \in Threads : u # t => call'[u] = call[u]
        BY <3>3 DEF TypeOK
      <4>2. HoldersKept
        BY <1>1, <3>3, <4>1 DEF ResolveRearm, HoldersKept, Holds
      <4>3. Tidy'
        BY <1>1, <3>3, <4>1, TidyKept DEF ResolveRearm, Tidy, BatchOfPass
      <4>4. QED
        BY <3>1, <4>2, <4>3, KeptKeeps
    <3>4. QED
      BY <2>2, <2>3, <3>2, <3>3, ServedTypes DEF Send, Begin
  <2>4. CASE Return(t) /\ Lose(call[t].ids) /\ UNCHANGED queue
    BY <1>1, <2>4, ReturnLoses DEF ResolveRearm
  <2>5. QED
    BY <1>1, <2>3, <2>4 DEF ResolveRearm
<1>2. CASE Post(t)
  <2>1. /\ call[t].obj \in Objects /\ call[t].ids \in SUBSET Ids /\ call[t].to \in Threads
        /\ call[t].kind # "rearm" => call[t].ids = {}
    BY <1>2, <1>c, Fields DEF Post, Tidy, OnlyRearmsCarry
  <2>2. CASE Enqueue(call[t].to, call[t].kind, call[t].obj, call[t].ids) /\ UNCHANGED lost
    <3>1. OwnersKept
      BY <1>2, <2>2 DEF Post, OwnersKept, Alive
    <3>2. QED
      BY <1>2, <2>1, <2>2, <3>1, EnqueueKeeps DEF Post
  <2>3. CASE Lose(call[t].ids) /\ UNCHANGED queue
    BY <1>2, <2>3, ReturnLoses DEF Post
  <2>4. QED
    BY <1>2, <2>2, <2>3 DEF Post
<1>3. CASE Register(t)
  <2>1. call[t].obj \in Objects /\ call[t].ids \in SUBSET Ids /\ call[t].to \in Threads
    BY <1>3, <1>c, Fields DEF Register
  <2>2. CASE table' = [table EXCEPT ![call[t].to] = @ \cup Entries(call[t].obj, call[t].ids)] /\ UNCHANGED lost
    <3>1. OwnersKept
      BY <1>3, <2>2 DEF Register, OwnersKept, Alive
    <3>2. /\ \A u \in Threads : u # t => call'[u] = call[u]
          /\ call'[t] = NoCall /\ call'[t].ids = {}
      BY <1>3 DEF Register, Return, Begin, NoCall, TypeOK
    <3>3. ASSUME NEW u \in Threads, NEW x \in Objects, NEW i \in Ids
          PROVE  /\ Holds(u, "table", x, i)' <=> \/ Holds(u, "table", x, i)
                                                 \/ u = call[t].to /\ x = call[t].obj /\ i \in call[t].ids
                 /\ Holds(u, "queue", x, i)' <=> Holds(u, "queue", x, i)
                 /\ Holds(u, "batch", x, i)' <=> Holds(u, "batch", x, i)
      <4>1. Holds(u, "table", x, i)' <=> \/ Holds(u, "table", x, i)
                                         \/ u = call[t].to /\ x = call[t].obj /\ i \in call[t].ids
        BY <2>1, <2>2 DEF Holds, Entries, TypeOK
      <4>2. /\ Holds(u, "queue", x, i)' <=> Holds(u, "queue", x, i)
            /\ Holds(u, "batch", x, i)' <=> Holds(u, "batch", x, i)
        BY <1>3 DEF Register, Holds
      <4>3. QED
        BY <4>1, <4>2
    <3>4. "table" \in Places /\ "table" # "hand" /\ Places = {"table", "queue", "batch", "hand"}
      BY DEF Places
    <3>5. \A u \in Threads, r \in Places, x \in Objects, i \in Ids : r # "hand" =>
            (Holds(u, r, x, i)' <=> \/ Holds(u, r, x, i)
                                    \/ u = call[t].to /\ r = "table" /\ x = call[t].obj /\ i \in call[t].ids)
      BY <3>3, <3>4
    <3>6. Custody'
      <4>1. PICK b \in Threads : b = call[t].to
        BY <2>1
      <4>2. PICK q \in Places : q = "table"
        BY <3>4
      <4>3. q # "hand" /\ \A u \in Threads, r \in Places, x \in Objects, i \in Ids : r # "hand" =>
              (Holds(u, r, x, i)' <=> Holds(u, r, x, i) \/ (u = b /\ r = q /\ x = call[t].obj /\ i \in call[t].ids))
        BY <3>5, <4>1, <4>2
      <4>4. call[t].obj \in Objects /\ call[t].ids \in SUBSET Ids /\ call'[t].ids = {}
        BY <2>1, <3>2
      <4>5. \A u \in Threads : u # t => call'[u] = call[u]
        BY <3>2
      <4>6. QED
        BY <3>1, <4>3, <4>4, <4>5, HandOver, ZenonT(60)
    <3>7. Tidy'
      BY <1>3, <3>2, TidyKept DEF Register, Tidy, BatchOfPass
    <3>8. QED
      BY <3>6, <3>7
  <2>3. CASE Lose(call[t].ids) /\ UNCHANGED table
    BY <1>3, <2>3, ReturnLoses DEF Register
  <2>4. QED
    BY <1>3, <2>2, <2>3 DEF Register
<1>4. ASSUME NEW e \in batch[t],
             DispatchCall(t, e) \/ DispatchDelete(t, e) \/ DispatchArm(t, e) \/ DispatchRearm(t, e)
      PROVE  Custody' /\ Tidy'
  <2>1. e.obj \in Objects
    BY Fields DEF TypeOK
  <2>2. Consume(t, e) /\ stage[t] \in {"dispatch", "drain"} /\ UNCHANGED stage
    BY <1>4 DEF DispatchCall, DispatchDelete, DispatchArm, DispatchRearm, IsNext
  <2>3. \A u \in Threads : batch'[u] \subseteq batch[u]
    BY <2>2 DEF Consume, TypeOK
  <2>4. \A u \in Threads : \A f \in batch[u] \ batch'[u] : f = e
    BY <2>2 DEF Consume, TypeOK
  <2>5. e.kind # "rearm" => e.ids = {}
    BY DEF Tidy, OnlyRearmsCarry
  <2>6. CASE DispatchCall(t, e)
    <3>1. \A i \in e.ids : ~Alive(e.obj)
      BY <2>5, <2>6 DEF DispatchCall, Tidy, BuriedFreed, Alive
    <3>2. /\ \A u \in Threads, x \in Objects, i \in Ids :
               Holds(u, "batch", x, i)' <=> Holds(u, "batch", x, i) /\ ~(u = t /\ i \in e.ids)
          /\ \A i \in e.ids : Holds(t, "batch", e.obj, i)
      BY <2>2, ConsumeHolds
    <3>3. ASSUME NEW u \in Threads, NEW r \in Places, NEW x \in Objects, NEW i \in Ids, r # "batch"
          PROVE  Holds(u, r, x, i)' <=> Holds(u, r, x, i)
      BY <2>6, <3>3 DEF DispatchCall, Holds
    <3>4. \A x \in Objects, i \in e.ids : i \in Ids /\ Holds(t, "batch", x, i) => x = e.obj
      BY <2>1, <3>2 DEF Custody, OneHolder, Places
    <3>5. \A x \in Objects : Alive(x)' => Alive(x)
      BY <2>6 DEF DispatchCall, Alive
    <3>6. HoldersKept
      BY <3>1, <3>2, <3>3, <3>4, <3>5 DEF HoldersKept
    <3>7. OwnersKept
      BY <2>6 DEF DispatchCall, OwnersKept, Alive
    <3>8. Tidy'
      BY <2>2, <2>3, <2>6, TidyKept DEF DispatchCall, Tidy, BatchOfPass
    <3>9. QED
      BY <3>6, <3>7, <3>8, KeptKeeps
  <2>7. CASE DispatchDelete(t, e)
    <3>1. Custody'
      BY <2>1, <2>3, <2>4, <2>5, <2>7, DestroyKeeps DEF DispatchDelete
    <3>2. Tidy'
      BY <2>1, <2>2, <2>3, <2>7, TidyKept DEF DispatchDelete, Destroy, Tidy, BatchOfPass, TypeOK
    <3>3. QED
      BY <3>1, <3>2
  <2>8. CASE DispatchArm(t, e)
    <3>1. Custody'
      BY <2>1, <2>3, <2>4, <2>5, <2>8, StartTimerKeeps DEF DispatchArm
    <3>2. Tidy'
      BY <2>2, <2>3, <2>8, TidyKept DEF DispatchArm, Tidy, BatchOfPass
    <3>3. QED
      BY <3>1, <3>2
  <2>9. CASE DispatchRearm(t, e)
    BY <2>9, RearmKeeps
  <2>10. QED
    BY <1>4, <2>6, <2>7, <2>8, <2>9
<1>5. ASSUME NEW o \in Objects, NEW i \in Ids, SkipTimer(t, o, i) PROVE Custody' /\ Tidy'
  <2>1. HoldersKept /\ OwnersKept
    BY <1>5 DEF SkipTimer, HoldersKept, OwnersKept, Holds, Alive
  <2>2. Tidy'
    BY <1>5, TidyKept DEF SkipTimer, Tidy, BatchOfPass
  <2>3. QED
    BY <2>1, <2>2, KeptKeeps
<1>6. ASSUME NEW o \in Objects, NEW i \in Ids, RunFunctor(t, o, i) PROVE Custody' /\ Tidy'
  <2>1. OwnersKept
    BY <1>6 DEF RunFunctor, OwnersKept, Alive
  <2>2. CASE deletePosted[o]
    <3>1. HoldersKept
      BY <1>6, <2>2 DEF RunFunctor, HoldersKept, Holds
    <3>2. Tidy'
      BY <1>6, <2>2, TidyKept DEF RunFunctor, Tidy, BatchOfPass
    <3>3. QED
      BY <2>1, <3>1, <3>2, KeptKeeps
  <2>3. CASE ~deletePosted[o]
    BY <1>6, <2>1, <2>3, SendKeeps DEF RunFunctor, NextTimer
  <2>4. QED
    BY <2>2, <2>3
<1>7. ASSUME NEW o \in Objects, NEW i \in Ids, NEW single \in BOOLEAN, Timeout(t, o, i, single)
      PROVE  Custody' /\ Tidy'
  <2>1. Tidy'
    BY <1>7, TidyKept DEF Timeout, Tidy, BatchOfPass
  <2>2. CASE single
    <3>1. ASSUME NEW u \in Threads, NEW r \in Places, NEW x \in Objects, NEW j \in Ids
          PROVE  /\ Holds(u, r, x, j)' => Holds(u, r, x, j)
                 /\ x # o /\ Holds(u, r, x, j) => Holds(u, r, x, j)'
      BY <1>7, <2>2 DEF Timeout, KillTimer, Holds, TypeOK
    <3>2. timerId'[o] = 0 /\ \A x \in Objects : x # o => timerId'[x] = timerId[x]
      BY <1>7, <2>2 DEF Timeout, TypeOK
    <3>3. HoldersKept
      BY <3>1, <3>2 DEF HoldersKept, Ids
    <3>4. OwnersKept
      BY <1>7, <3>2 DEF OwnersKept, Timeout, Alive
    <3>5. QED
      BY <2>1, <3>3, <3>4, KeptKeeps
  <2>3. CASE ~single
    <3>1. HoldersKept /\ OwnersKept
      BY <1>7, <2>3 DEF Timeout, HoldersKept, OwnersKept, Holds, Alive
    <3>2. QED
      BY <2>1, <3>1, KeptKeeps
  <2>4. QED
    BY <2>2, <2>3
<1>8. CASE PassDone(t)
  <2>1. HoldersKept /\ OwnersKept
    BY <1>8 DEF PassDone, HoldersKept, OwnersKept, Holds, Alive
  <2>2. Tidy'
    BY <1>8, TidyKept DEF PassDone, Tidy, BatchOfPass, TypeOK
  <2>3. QED
    BY <2>1, <2>2, KeptKeeps
<1>9. CASE DrainPass(t)
  <2>1. \A u \in Threads : u # t => queue'[u] = queue[u] /\ batch'[u] = batch[u] /\ stage'[u] = stage[u]
    BY <1>9 DEF DrainPass, TakeDeletes, TypeOK
  <2>2. /\ queue'[t] = queue[t] \ Deletes(t) /\ batch[t] = {} /\ batch'[t] = Deletes(t)
        /\ stage'[t] = IF Deletes(t) = {} THEN "drained" ELSE "drain"
    BY <1>9 DEF DrainPass, TakeDeletes, TypeOK
  <2>3. \A e \in Deletes(t) : e.ids = {} /\ e \in queue[t]
    BY DEF Deletes, Tidy, OnlyRearmsCarry
  <2>4. UNCHANGED <<table, call, nextId, timerId, state, lost, buried>>
    BY <1>9 DEF DrainPass
  <2>5. HoldersKept /\ OwnersKept
    BY <2>1, <2>2, <2>3, <2>4 DEF HoldersKept, OwnersKept, Holds, Alive
  <2>6. Tidy'
    BY <2>1, <2>2, <2>3, <2>4, TidyKept DEF Tidy, BatchOfPass
  <2>7. QED
    BY <2>5, <2>6, KeptKeeps
<1>10. CASE LetGo(t)
  <2>1. Custody'
    BY <1>10, ReplaceKeeps DEF LetGo
  <2>2. \A u \in Threads : stage'[u] \notin {"dispatch", "drain"} => batch'[u] = {}
    BY <1>10 DEF LetGo, Tidy, BatchOfPass, TypeOK
  <2>3. Tidy'
    BY <1>10, <2>2, TidyKept DEF LetGo, Replace, TypeOK
  <2>4. QED
    BY <2>1, <2>3
<1>11. QED
  BY <1>1, <1>2, <1>3, <1>4, <1>5, <1>6, <1>7, <1>8, <1>9, <1>10 DEF Proceed

\* A pass takes the queue with the ids in it.
LEMMA TakePassKeeps ==
  ASSUME TypeOK, TypeOK', Custody, Tidy, NEW t \in Threads, NEW expired \in SUBSET table[t],
         TakePass(t, expired)
  PROVE  Custody' /\ Tidy'
<1> USE DEF threadVars, objectVars
<1>1. /\ queue'[t] = {} /\ batch'[t] = queue[t] /\ batch[t] = {} /\ stage'[t] = "dispatch"
      /\ \A u \in Threads : u # t => queue'[u] = queue[u] /\ batch'[u] = batch[u] /\ stage'[u] = stage[u]
      /\ UNCHANGED <<table, call, nextId, timerId, state, lost, buried>>
  BY DEF TakePass, Tidy, BatchOfPass, TypeOK
<1>2. Places = {"table", "queue", "batch", "hand"}
  BY DEF Places
<1>3. \A u \in Threads, x \in Objects, i \in Ids :
        /\ Holds(u, "table", x, i)' <=> Holds(u, "table", x, i)
        /\ Holds(u, "hand", x, i)' <=> Holds(u, "hand", x, i)
        /\ Holds(u, "queue", x, i)' <=> u # t /\ Holds(u, "queue", x, i)
        /\ Holds(u, "batch", x, i)' <=> \/ u # t /\ Holds(u, "batch", x, i)
                                        \/ u = t /\ Holds(t, "queue", x, i)
        /\ ~Holds(t, "batch", x, i)
  BY <1>1 DEF Holds
<1> DEFINE S == {i \in Ids : \E o \in Objects : Holds(t, "queue", o, i)}
<1>4. ASSUME NEW u \in Threads, NEW r \in Places, NEW x \in Objects, NEW i \in Ids, Holds(u, r, x, i)
      PROVE  i \in S <=> u = t /\ r = "queue"
  <2>1. "queue" \in Places
    BY <1>2
  <2>2. QED
    BY <1>4, <2>1 DEF Custody, OneHolder
<1>5. \A x \in Objects, i \in Ids : Holds(t, "queue", x, i) => i \in S
  OBVIOUS
<1> HIDE DEF S
<1>6. ASSUME NEW u \in Threads, NEW r \in Places, NEW x \in Objects, NEW i \in Ids, Holds(u, r, x, i)'
      PROVE  \/ i \notin S /\ Holds(u, r, x, i)
             \/ i \in S /\ u = t /\ r = "batch" /\ Holds(t, "queue", x, i)
  BY <1>2, <1>3, <1>4, <1>5, <1>6
<1>7. ASSUME NEW u \in Threads, NEW r \in Places, NEW x \in Objects, NEW i \in Ids, Holds(u, r, x, i)
      PROVE  \E v \in Threads, w \in Places : Holds(v, w, x, i)'
  BY <1>2, <1>3, <1>7
<1>8. Carried(S, t, "queue", t, "batch")
  BY <1>1, <1>6, <1>7 DEF Carried, Alive
<1>9. Tidy'
  BY <1>1, TidyKept DEF Tidy, BatchOfPass
<1>10. QED
  BY <1>2, <1>8, <1>9, CarriedKeeps

\* ... and how loops begin and end.
LEMMA CustodyStep ==
  TypeInv /\ TypeInv' /\ Custody /\ Tidy /\ [Next]_vars => Custody' /\ Tidy'
<1> SUFFICES ASSUME TypeOK, TypeOK', HelpersAtHome, Custody, Tidy, [Next]_vars PROVE Custody' /\ Tidy'
  BY DEF TypeInv
<1> USE DEF threadVars, passVars, objectVars
<1>1. ASSUME NEW t \in Threads, ThreadStart(t) \/ ThreadDestroyed(t) PROVE Custody' /\ Tidy'
  <2>1. HoldersKept /\ OwnersKept
    BY <1>1 DEF ThreadStart, ThreadDestroyed, HoldersKept, OwnersKept, Holds, Alive
  <2>2. Tidy'
    BY <1>1, TidyKept DEF ThreadStart, ThreadDestroyed, Tidy, BatchOfPass, TypeOK
  <2>3. QED
    BY <2>1, <2>2, KeptKeeps
<1>2. ASSUME NEW t \in Threads, Close(t) PROVE Custody' /\ Tidy'
  <2>1. \A u \in Threads : u # t => queue'[u] = queue[u] /\ batch'[u] = batch[u] /\ stage'[u] = stage[u]
    BY <1>2 DEF Close, TakeDeletes, TypeOK
  <2>2. /\ queue'[t] = queue[t] \ Deletes(t) /\ batch[t] = {} /\ batch'[t] = Deletes(t)
        /\ stage'[t] = "drain"
    BY <1>2 DEF Close, TakeDeletes, Tidy, BatchOfPass, TypeOK
  <2>3. \A e \in Deletes(t) : e.ids = {} /\ e \in queue[t]
    BY DEF Deletes, Tidy, OnlyRearmsCarry
  <2>4. UNCHANGED <<table, call, nextId, timerId, state, lost, buried>>
    BY <1>2 DEF Close
  <2>5. HoldersKept /\ OwnersKept
    BY <2>1, <2>2, <2>3, <2>4 DEF HoldersKept, OwnersKept, Holds, Alive
  <2>6. Tidy'
    BY <2>1, <2>2, <2>3, <2>4, TidyKept DEF Tidy, BatchOfPass
  <2>7. QED
    BY <2>5, <2>6, KeptKeeps
<1>3. CASE AppConstruct
  <2>1. Main \in Threads /\ Replace(Main) /\ UNCHANGED <<stage, passVars, objectVars, nextId, quiet, shots>>
    BY <1>3 DEF AppConstruct, Threads
  <2>2. Custody'
    BY <2>1, ReplaceKeeps
  <2>3. Tidy'
    BY <2>1, TidyKept DEF Replace, Tidy, BatchOfPass, TypeOK
  <2>4. QED
    BY <2>2, <2>3
<1>4. CASE UNCHANGED vars
  <2>1. HoldersKept /\ OwnersKept
    BY <1>4 DEF vars, HoldersKept, OwnersKept, Holds, Alive
  <2>2. Tidy'
    BY <1>4, TidyKept DEF vars, Tidy, BatchOfPass
  <2>3. QED
    BY <2>1, <2>2, KeptKeeps
<1>5. QED
  BY <1>1, <1>2, <1>3, <1>4, CustodyUser, CustodyProceed, TakePassKeeps DEF Next

CustodyInv == TypeInv /\ Custody /\ Tidy

\* In every reachable state every id has one holder.
LEMMA CustodyInvariant == Safety => []CustodyInv
<1>1. ASSUME Init PROVE Custody /\ Tidy
  <2>1. /\ \A o \in Objects : timerId[o] = 0
        /\ nextId = 1
        /\ \A t \in Threads : /\ queue[t] = {} /\ batch[t] = {} /\ table[t] = {} /\ buried[t] = {}
                              /\ call[t] = NoCall
    BY <1>1 DEF Init
  <2>2. NoCall.ids = {}
    BY DEF NoCall
  <2>3. \A t \in Threads, p \in Places, o \in Objects, i \in Ids : ~Holds(t, p, o, i)
    BY <2>1, <2>2 DEF Holds
  <2>4. Custody
    BY <2>1, <2>3 DEF Custody, OneHolder, IdsBelow, OwnId, HeldForOwner, Held, Ids
  <2>5. Tidy
    BY <2>1, <2>2 DEF Tidy, OneEvent, BuriedFreed, OnlyRearmsCarry, BatchOfPass
  <2>6. QED
    BY <2>4, <2>5
<1>2. CustodyInv /\ TypeInv' /\ [Next]_vars => CustodyInv'
  BY CustodyStep DEF CustodyInv
<1>3. Init /\ TypeInv => CustodyInv
  BY <1>1 DEF CustodyInv
<1>4. QED
  BY <1>2, <1>3, TypeInvariant, PTL DEF Safety

\* However objects are moved, and whenever loops start, stop and change dispatchers: the timer
\* of a live active object is registered once, or on its way to be, unless a dispatcher took it
\* to its grave.
THEOREM TimersAreInOnePlace == Safety => []OneCopy
<1>1. ASSUME TypeOK, Custody PROVE OneCopy
  <2>1. ASSUME NEW o \in Objects, Alive(o), timerId[o] # 0, ~lost[o] PROVE Copies(timerId[o]) # {}
    <3>1. PICK i \in Ids : i = timerId[o]
      BY <1>1, <2>1 DEF TypeOK
    <3>2. PICK t \in Threads, p \in Places : Holds(t, p, o, i)
      BY <1>1, <2>1, <3>1 DEF Custody, Held
    <3>3. Carries(t, p, i)
      BY <3>2 DEF Holds, Carries
    <3>4. <<t, p>> \in Copies(i)
      BY <3>3 DEF Copies
    <3>5. QED
      BY <3>1, <3>4
  <2>2. ASSUME NEW o \in Objects, timerId[o] # 0, NEW k \in Copies(timerId[o]), NEW l \in Copies(timerId[o])
        PROVE  k = l
    <3>1. PICK i \in Ids : i = timerId[o]
      BY <1>1, <2>2 DEF TypeOK
    <3>2. ASSUME NEW t \in Threads, NEW p \in Places, Carries(t, p, i)
          PROVE  \E x \in Objects : Holds(t, p, x, i)
      <4>1. \A e \in queue[t] \cup batch[t] : e.obj \in Objects
        BY <1>1, Fields DEF TypeOK
      <4>2. call[t].ids # {} => call[t].obj \in Objects
        <5>1. call[t] \in Call
          BY <1>1 DEF TypeOK
        <5>2. NoCall.ids = {} /\ \A c \in Moved \cup Handing : c.obj \in Objects
          BY DEF NoCall, Moved, Handing
        <5>3. QED
          BY <5>1, <5>2 DEF Call
      <4>3. CASE p = "table"
        <5>1. PICK x \in Objects : <<x, i>> \in table[t]
          BY <3>2, <4>3 DEF Carries
        <5>2. Holds(t, p, x, i)
          BY <4>3, <5>1 DEF Holds
        <5>3. QED
          BY <5>2
      <4>4. CASE p = "queue"
        BY <3>2, <4>1, <4>4 DEF Carries, Holds
      <4>5. CASE p = "batch"
        BY <3>2, <4>1, <4>5 DEF Carries, Holds
      <4>6. CASE p = "hand"
        BY <3>2, <4>2, <4>6 DEF Carries, Holds
      <4>7. QED
        BY <4>3, <4>4, <4>5, <4>6 DEF Places
    <3>3. PICK t \in Threads, p \in Places : k = <<t, p>> /\ Carries(t, p, i)
      BY <2>2, <3>1 DEF Copies
    <3>4. PICK u \in Threads, q \in Places : l = <<u, q>> /\ Carries(u, q, i)
      BY <2>2, <3>1 DEF Copies
    <3>5. QED
      BY <1>1, <3>2, <3>3, <3>4 DEF Custody, OneHolder
  <2>3. QED
    BY <2>1, <2>2 DEF OneCopy
<1>2. CustodyInv => OneCopy
  BY <1>1 DEF CustodyInv, TypeInv
<1>3. QED
  BY <1>2, CustodyInvariant, PTL
=============================================================================
