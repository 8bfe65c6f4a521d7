------------------------ MODULE AffinityQuietProofs ------------------------
(***************************************************************************)
(* What is proved of Affinity when objects are only moved while nothing    *)
(* about them is under way: that everything is handed over on the thread   *)
(* the object lives on, and to a live object.                              *)
(***************************************************************************)
EXTENDS AffinityShotProofs

-----------------------------------------------------------------------------
(* Dispatchers, whatever the discipline.                                   *)

\* A thread without a dispatcher has nothing queued and nothing registered, nobody reaches for a
\* dispatcher that is not there, and only a pass has timers to fire.
Emptied(t) == stage[t] \in {"off", "gone"} => queue[t] = {} /\ table[t] = {}
Reaching(t) == call[t].at \in {"posting", "registering"} /\ ~call[t].dropped =>
                 stage[call[t].to] \notin {"off", "gone"}
TimersOfPass(t) == stage[t] # "dispatch" => timerBatch[t] = {}
Standing == \A t \in Threads : Emptied(t) /\ Reaching(t) /\ TimersOfPass(t)

\* A step that queues, registers and reaches for nothing with a thread that has no dispatcher.
LEMMA StandingKeeps ==
  ASSUME Standing, stage' = stage,
         \A u \in Threads : stage[u] \in {"off", "gone"} =>
           queue'[u] \subseteq queue[u] /\ table'[u] \subseteq table[u],
         \A u \in Threads : \/ call'[u] = call[u] \/ call'[u].at \in {"none", "moved"}
                            \/ stage[call'[u].to] \notin {"off", "gone"},
         \A u \in Threads : timerBatch'[u] \subseteq timerBatch[u]
  PROVE  Standing'
<1> SUFFICES ASSUME NEW t \in Threads PROVE Emptied(t)' /\ Reaching(t)' /\ TimersOfPass(t)'
  BY DEF Standing
<1>1. Emptied(t) /\ Reaching(t) /\ TimersOfPass(t)
  BY DEF Standing
<1>2. Emptied(t)'
  BY <1>1 DEF Emptied
<1>3. Reaching(t)'
  BY <1>1 DEF Reaching
<1>4. TimersOfPass(t)'
  BY <1>1 DEF TimersOfPass
<1>5. QED
  BY <1>2, <1>3, <1>4

\* What Send() does to queues and calls.
LEMMA SendStanding ==
  ASSUME TypeOK, NEW t \in Threads, NEW kind, NEW o \in Objects, NEW ids, Send(t, kind, o, ids),
         home[o] \in Threads, stage[home[o]] \notin {"off", "gone"}
  PROVE  /\ \A u \in Threads : stage[u] \in {"off", "gone"} => queue'[u] \subseteq queue[u]
         /\ \A u \in Threads : \/ call'[u] = call[u] \/ call'[u].at \in {"none", "moved"}
                               \/ stage[call'[u].to] \notin {"off", "gone"}
<1>1. CASE home[o] = t /\ Enqueue(t, kind, o, ids) /\ Return(t)
  <2>1. \A u \in Threads : u # t => queue'[u] = queue[u]
    BY <1>1, EnqueueOne
  <2>2. \A u \in Threads : call'[u] = call[u] \/ call'[u].at = "none"
    BY <1>1 DEF Return, Begin, NoCall, TypeOK
  <2>3. QED
    BY <1>1, <2>1, <2>2
<1>2. CASE /\ home[o] # t /\ UNCHANGED queue
           /\ Begin(t, [at |-> "posting", to |-> home[o], dropped |-> FALSE,
                        kind |-> kind, obj |-> o, ids |-> ids])
  BY <1>2 DEF Begin, TypeOK
<1>3. QED
  BY <1>1, <1>2 DEF Send

\* First what user code does, ...
LEMMA StandingUser == ASSUME TypeOK, TypeOK', Standing, NEW t \in Threads, UserStep(t) PROVE Standing'
<1> USE ThreadsAssumption DEF threadVars, passVars, objectVars
<1>0. PICK o \in Objects :
        \/ Start(t, o) \/ Stop(t, o)
        \/ \E to \in Threads \cup {Nowhere} : Move(t, o, to)
        \/ Emit(t, o) \/ DeleteLater(t, o) \/ Delete(t, o)
        \/ \E context \in Timers : SingleShotCall(t, o, context)
  BY DEF UserStep
<1>u. stage[t] \notin {"off", "gone"}
  BY <1>0 DEF UserCode, Start, Stop, Move, Emit, DeleteLater, Delete, SingleShotCall
<1>1. CASE Start(t, o) \/ Stop(t, o)
  <2>1. \A u \in Threads : u # t => table'[u] = table[u]
    BY <1>1 DEF Start, Stop, StartTimer, KillTimer, TypeOK
  <2>2. QED
    BY <1>1, <1>u, <2>1, StandingKeeps DEF Start, Stop
<1>2. ASSUME NEW to \in Threads \cup {Nowhere}, Move(t, o, to) PROVE Standing'
  <2> DEFINE ids == IF Served(o) THEN IdsOf(o, home[o]) ELSE {}
             moved == [NoCall EXCEPT !.at = "moved", !.obj = o, !.ids = ids]
  <2>1. /\ table' = [u \in Threads |-> IF u = home[o] THEN table[u] \ Entries(o, ids) ELSE table[u]]
        /\ UNCHANGED call \/ call' = [call EXCEPT ![t] = moved]
        /\ UNCHANGED <<quiet, threadVars, queue, passVars, state, timerId, deletePosted, nextId, shots, lost>>
    BY <1>2 DEF Move, Begin
  <2>2. moved.at = "moved"
    BY DEF NoCall
  <2> HIDE DEF ids, moved
  <2>3. \A u \in Threads : table'[u] \subseteq table[u] /\ (call'[u] = call[u] \/ call'[u].at = "moved")
    BY <2>1, <2>2 DEF TypeOK
  <2>4. QED
    BY <2>1, <2>3, StandingKeeps
<1>3. CASE Emit(t, o)
  <2>1. Send(t, "call", o, {}) /\ home[o] \in Threads /\ stage[home[o]] \notin {"off", "gone"}
    BY <1>3, ServedTypes DEF Emit, Served
  <2>2. QED
    BY <1>3, <2>1, SendStanding, StandingKeeps DEF Emit
<1>4. CASE DeleteLater(t, o)
  <2>1. CASE Served(o) /\ Send(t, "delete", o, {}) /\ UNCHANGED <<table, state, timerId>>
    <3>1. home[o] \in Threads /\ stage[home[o]] \notin {"off", "gone"}
      BY <2>1, ServedTypes DEF Served
    <3>2. QED
      BY <1>4, <2>1, <3>1, SendStanding, StandingKeeps DEF DeleteLater
  <2>2. CASE Destroy(o) /\ UNCHANGED call
    <3>1. \A u \in Threads : queue'[u] \subseteq queue[u] /\ table'[u] \subseteq table[u]
      BY <2>2 DEF Destroy
    <3>2. QED
      BY <1>4, <2>2, <3>1, StandingKeeps DEF DeleteLater
  <2>3. QED
    BY <1>4, <2>1, <2>2 DEF DeleteLater
<1>5. CASE Delete(t, o)
  <2>1. \A u \in Threads : queue'[u] \subseteq queue[u] /\ table'[u] \subseteq table[u]
    BY <1>5 DEF Delete, Destroy
  <2>2. QED
    BY <1>5, <2>1, StandingKeeps DEF Delete
<1>6. ASSUME NEW context \in Timers, SingleShotCall(t, o, context) PROVE Standing'
  <2>1. UNCHANGED <<quiet, threadVars, queue, passVars, deletePosted>>
    BY <1>6 DEF SingleShotCall
  <2>2. CASE StartTimer(t, o) /\ UNCHANGED call
    <3>1. \A u \in Threads : u # t => table'[u] = table[u]
      BY <2>2 DEF StartTimer, TypeOK
    <3>2. QED
      BY <1>u, <2>1, <2>2, <3>1, StandingKeeps
  <2>3. CASE /\ Served(context) /\ UNCHANGED <<table, timerId, nextId, shots, lost>>
             /\ Begin(t, [at |-> "posting", to |-> home[context], dropped |-> FALSE,
                          kind |-> "arm", obj |-> o, ids |-> {}])
    <3>1. \A u \in Threads : call'[u] = call[u] \/ stage[call'[u].to] \notin {"off", "gone"}
      BY <2>3 DEF Begin, Served, TypeOK
    <3>2. QED
      BY <2>1, <2>3, <3>1, StandingKeeps
  <2>4. CASE UNCHANGED <<table, timerId, nextId, call, shots, lost>>
    BY <2>1, <2>4, StandingKeeps
  <2>5. QED
    BY <1>6, <2>2, <2>3, <2>4 DEF SingleShotCall
<1>7. QED
  BY <1>0, <1>1, <1>2, <1>3, <1>4, <1>5, <1>6

\* A loop takes from its queue, begins or ends.
LEMMA LoopStanding ==
  ASSUME TypeOK, Standing, NEW t \in Threads, UNCHANGED <<table, call>>,
         \A u \in Threads : u # t => stage'[u] = stage[u] /\ timerBatch'[u] = timerBatch[u],
         stage'[t] \in {"off", "gone"} => stage[t] \in {"off", "gone"},
         stage'[t] = "dispatch" \/ timerBatch'[t] = {},
         \A u \in Threads : queue'[u] \subseteq queue[u]
  PROVE  Standing'
<1> SUFFICES ASSUME NEW u \in Threads PROVE Emptied(u)' /\ Reaching(u)' /\ TimersOfPass(u)'
  BY DEF Standing
<1>1. Emptied(u) /\ Reaching(u) /\ TimersOfPass(u)
  BY DEF Standing
<1>2. Emptied(u)'
  BY <1>1 DEF Emptied
<1>3. Reaching(u)'
  <2>1. call[u].at \in {"posting", "registering"} => call[u].to \in Threads
    BY Fields DEF TypeOK
  <2>2. QED
    BY <1>1, <2>1 DEF Reaching
<1>4. TimersOfPass(u)'
  BY <1>1 DEF TimersOfPass
<1>5. QED
  BY <1>2, <1>3, <1>4

\* A dispatcher that goes leaves nothing behind, and nobody reaching for it.
LEMMA ReplaceStanding ==
  ASSUME TypeOK, TypeOK', Standing, NEW t \in Threads, Replace(t), UNCHANGED timerBatch,
         \A u \in Threads : u # t => stage'[u] = stage[u],
         stage'[t] = stage[t] \/ stage[t] = "drained"
  PROVE  Standing'
<1> SUFFICES ASSUME NEW u \in Threads PROVE Emptied(u)' /\ Reaching(u)' /\ TimersOfPass(u)'
  BY DEF Standing
<1>1. Emptied(u) /\ Reaching(u) /\ TimersOfPass(u)
  BY DEF Standing
<1>2. Emptied(u)'
  BY <1>1 DEF Replace, Emptied, TypeOK
<1>3. Reaching(u)'
  <2>0. call[u] \in Call
    BY DEF TypeOK
  <2>1. CASE call[u].to = t
    <3>1. call'[u] = [call[u] EXCEPT !.dropped = TRUE]
      BY <2>1 DEF Replace
    <3>2. call'[u].dropped = TRUE
      BY <2>0, <3>1 DEF Call, NoCall, Moved, Handing
    <3>3. QED
      BY <3>2 DEF Reaching
  <2>2. CASE call[u].to # t
    <3>1. call'[u] = call[u]
      BY <2>2 DEF Replace
    <3>2. call[u].at \in {"posting", "registering"} => call[u].to \in Threads
      BY <2>0, Fields
    <3>3. QED
      BY <1>1, <2>2, <3>1, <3>2 DEF Reaching
  <2>3. QED
    BY <2>1, <2>2
<1>4. TimersOfPass(u)'
  BY <1>1 DEF TimersOfPass
<1>5. QED
  BY <1>2, <1>3, <1>4

\* ... then calls and passes, ...
LEMMA StandingProceed ==
  ASSUME TypeOK, TypeOK', HelpersAtHome, Standing, NEW t \in Threads, Proceed(t) PROVE Standing'
<1> USE ThreadsAssumption DEF threadVars, passVars, objectVars
<1>c. call[t] \in Call /\ Reaching(t)
  BY DEF TypeOK, Standing
<1>r. Return(t) => \A u \in Threads : call'[u] = call[u] \/ call'[u].at = "none"
  BY DEF Return, Begin, NoCall, TypeOK
<1>1. CASE ResolveRearm(t)
  <2>1. PICK o \in Objects, ids \in SUBSET Ids : o = call[t].obj /\ ids = call[t].ids
    BY <1>1, <1>c, Fields DEF ResolveRearm
  <2>2. CASE Served(o) /\ Send(t, "rearm", o, ids)
    <3>1. home[o] \in Threads /\ stage[home[o]] \notin {"off", "gone"}
      BY <2>2, ServedTypes DEF Served
    <3>2. QED
      BY <1>1, <2>2, <3>1, SendStanding, StandingKeeps DEF ResolveRearm
  <2>3. CASE Return(t) /\ UNCHANGED queue
    BY <1>1, <1>r, <2>3, StandingKeeps DEF ResolveRearm
  <2>4. QED
    BY <1>1, <2>1, <2>2, <2>3 DEF ResolveRearm
<1>2. CASE Post(t)
  <2>1. call[t].to \in Threads /\ call[t].obj \in Objects
    BY <1>2, <1>c, Fields DEF Post
  <2>2. \A u \in Threads : stage[u] \in {"off", "gone"} => queue'[u] = queue[u]
    BY <1>2, <1>c, <2>1, EnqueueOne DEF Post, Reaching
  <2>3. QED
    BY <1>2, <1>r, <2>2, StandingKeeps DEF Post
<1>3. CASE Register(t)
  <2>1. call[t].to \in Threads
    BY <1>3, <1>c, Fields DEF Register
  <2>2. \A u \in Threads : stage[u] \in {"off", "gone"} => table'[u] = table[u]
    BY <1>3, <1>c, <2>1 DEF Register, Reaching, TypeOK
  <2>3. QED
    BY <1>3, <1>r, <2>2, StandingKeeps DEF Register
<1>4. ASSUME NEW e \in batch[t],
             DispatchCall(t, e) \/ DispatchDelete(t, e) \/ DispatchArm(t, e) \/ DispatchRearm(t, e)
      PROVE Standing'
  <2>0. e.obj \in Objects /\ stage[t] \notin {"off", "gone"}
    BY <1>4, Fields DEF DispatchCall, DispatchDelete, DispatchArm, DispatchRearm, IsNext, TypeOK
  <2>1. CASE DispatchCall(t, e)
    BY <2>1, StandingKeeps DEF DispatchCall
  <2>2. CASE DispatchDelete(t, e)
    <3>1. \A u \in Threads : queue'[u] \subseteq queue[u] /\ table'[u] \subseteq table[u]
      BY <2>2 DEF DispatchDelete, Destroy
    <3>2. QED
      BY <2>2, <3>1, StandingKeeps DEF DispatchDelete
  <2>3. CASE DispatchArm(t, e)
    <3>1. \A u \in Threads : u # t => table'[u] = table[u]
      BY <2>3 DEF DispatchArm, StartTimer, TypeOK
    <3>2. QED
      BY <2>0, <2>3, <3>1, StandingKeeps DEF DispatchArm
  <2>4. CASE DispatchRearm(t, e)
    <3>1. \A u \in Threads : u # t => table'[u] = table[u]
      BY <2>4 DEF DispatchRearm, TypeOK
    <3>2. \A u \in Threads : call'[u] = call[u] \/ stage[call'[u].to] \notin {"off", "gone"}
      BY <2>4 DEF DispatchRearm, Begin, Served, TypeOK
    <3>3. QED
      BY <2>0, <2>4, <3>1, <3>2, StandingKeeps DEF DispatchRearm
  <2>5. QED
    BY <1>4, <2>1, <2>2, <2>3, <2>4
<1>5. ASSUME NEW o \in Objects, NEW i \in Ids,
             SkipTimer(t, o, i) \/ \E single \in BOOLEAN : Timeout(t, o, i, single)
      PROVE Standing'
  <2>1. \A u \in Threads : timerBatch'[u] \subseteq timerBatch[u] /\ table'[u] \subseteq table[u]
    <3>1. CASE SkipTimer(t, o, i)
      BY <3>1 DEF SkipTimer, NextTimer, TypeOK
    <3>2. ASSUME NEW single \in BOOLEAN, Timeout(t, o, i, single)
          PROVE  \A u \in Threads : timerBatch'[u] \subseteq timerBatch[u] /\ table'[u] \subseteq table[u]
      BY <3>2 DEF Timeout, NextTimer, KillTimer, TypeOK
    <3>3. QED
      BY <1>5, <3>1, <3>2
  <2>2. UNCHANGED <<stage, queue, call>>
    BY <1>5 DEF SkipTimer, Timeout
  <2>3. QED
    BY <2>1, <2>2, StandingKeeps
<1>6. ASSUME NEW o \in Objects, NEW i \in Ids, RunFunctor(t, o, i) PROVE Standing'
  <2>1. home[o] = t /\ stage[t] \notin {"off", "gone"}
    BY <1>6 DEF RunFunctor, NextTimer, HelpersAtHome, GoodEntry
  <2>2. \A u \in Threads : timerBatch'[u] \subseteq timerBatch[u]
    BY <1>6 DEF RunFunctor, NextTimer, TypeOK
  <2>3. CASE deletePosted[o]
    BY <1>6, <2>2, <2>3, StandingKeeps DEF RunFunctor
  <2>4. CASE Send(t, "delete", o, {})
    BY <1>6, <2>1, <2>2, <2>4, SendStanding, StandingKeeps DEF RunFunctor
  <2>5. QED
    BY <1>6, <2>3, <2>4 DEF RunFunctor
<1>7. CASE PassDone(t) \/ DrainPass(t)
  <2>1. /\ \A u \in Threads : u # t => stage'[u] = stage[u]
        /\ stage'[t] \notin {"off", "gone"} /\ stage[t] \notin {"off", "gone"}
        /\ timerBatch[t] = {} /\ UNCHANGED <<timerBatch, table, call>>
        /\ \A u \in Threads : queue'[u] \subseteq queue[u]
    BY <1>7 DEF PassDone, DrainPass, TakeDeletes, Standing, TimersOfPass, TypeOK
  <2>2. QED
    BY <2>1, LoopStanding
<1>8. CASE LetGo(t)
  <2>1. /\ stage[t] = "drained" /\ \A u \in Threads : u # t => stage'[u] = stage[u]
        /\ Replace(t) /\ UNCHANGED timerBatch
    BY <1>8 DEF LetGo, TypeOK
  <2>2. QED
    BY <2>1, ReplaceStanding
<1>9. QED
  BY <1>1, <1>2, <1>3, <1>4, <1>5, <1>6, <1>7, <1>8 DEF Proceed

\* ... and how loops begin and end.
LEMMA StandingStep == TypeInv /\ TypeInv' /\ Standing /\ [Next]_vars => Standing'
<1> SUFFICES ASSUME TypeOK, TypeOK', HelpersAtHome, Standing, [Next]_vars PROVE Standing'
  BY DEF TypeInv
<1> USE DEF threadVars, passVars, objectVars
<1>1. ASSUME NEW t \in Threads, (\E expired \in SUBSET table[t] : TakePass(t, expired)) \/ Close(t)
      PROVE Standing'
  <2>1. /\ \A u \in Threads : u # t => stage'[u] = stage[u] /\ timerBatch'[u] = timerBatch[u]
        /\ stage[t] = "idle" /\ stage'[t] \in {"dispatch", "drain"}
        /\ stage'[t] = "drain" => timerBatch'[t] = {}
        /\ UNCHANGED <<table, call>>
        /\ \A u \in Threads : queue'[u] \subseteq queue[u]
    BY <1>1 DEF TakePass, Close, TakeDeletes, Standing, TimersOfPass, TypeOK
  <2>2. QED
    BY <2>1, LoopStanding
<1>2. ASSUME NEW t \in Threads, ThreadStart(t) \/ ThreadDestroyed(t) PROVE Standing'
  <2>1. /\ \A u \in Threads : u # t => stage'[u] = stage[u]
        /\ stage[t] = "off" /\ stage'[t] \in {"idle", "gone"}
        /\ timerBatch[t] = {} /\ UNCHANGED <<queue, table, timerBatch, call>>
    BY <1>2 DEF ThreadStart, ThreadDestroyed, Standing, TimersOfPass, TypeOK
  <2>2. QED
    BY <2>1, LoopStanding
<1>3. CASE AppConstruct
  BY <1>3, ReplaceStanding DEF AppConstruct, Threads
<1>4. CASE UNCHANGED vars
  BY <1>4 DEF vars, Standing, Emptied, Reaching, TimersOfPass
<1>5. QED
  BY <1>1, <1>2, <1>3, <1>4, StandingUser, StandingProceed DEF Next

-----------------------------------------------------------------------------
(* What is under way about an object, if it was settled when it was moved. *)

Touching(t, o) == call[t].obj = o /\ (call[t].at = "moved" \/ call[t].kind # "call")

\* Everything is on its thread, and nothing but a queued slot outlives it.
QueuedHere(t, o) == \A e \in queue[t] : e.obj = o =>
  (e.kind # "call" => Alive(o)) /\ (Alive(o) => home[o] = t)
TakenHere(t, o) == \A e \in batch[t] : e.obj = o =>
  (e.kind # "call" => Alive(o) \/ o \in buried[t]) /\ (Alive(o) => home[o] = t)
RegisteredHere(t, o) == \A i \in Ids : <<o, i>> \in table[t] => Alive(o) /\ home[o] = t
ExpiredHere(t, o) == \A i \in Ids : <<o, i>> \in timerBatch[t] =>
  (Alive(o) /\ home[o] = t) \/ o \in buried[t]

\* One thread at a time hands over what will touch it, and not while it is to be deleted.
HandedHere(t, o) ==
  /\ call[t].obj = o => /\ call[t].at # "registering"
                        /\ call[t].at = "posting" /\ Alive(o) => home[o] = call[t].to
  /\ Touching(t, o) => /\ Alive(o)
                       /\ \A u \in Threads : /\ ~DeleteIn(queue[u] \cup batch[u], o)
                                             /\ Touching(u, o) => u = t

\* deleteLater() posts once.
Undeleted(t, o) == ~deletePosted[o] => /\ ~DeleteIn(queue[t] \cup batch[t], o)
                                       /\ ~(call[t].obj = o /\ call[t].kind = "delete")

Settled(o) == \A t \in Threads : /\ QueuedHere(t, o) /\ TakenHere(t, o) /\ RegisteredHere(t, o)
                                 /\ ExpiredHere(t, o) /\ HandedHere(t, o) /\ Undeleted(t, o)
AllSettled == quiet => \A o \in Objects : Settled(o)

QuietInv == CustodyInv /\ Shot /\ Standing /\ AllSettled

\* What a step must leave alone to be none of o's business. What was queued may be taken.
Apart(o) ==
  /\ state'[o] = state[o] /\ home'[o] = home[o] /\ deletePosted'[o] = deletePosted[o]
  /\ \A t \in Threads :
       /\ \A e \in queue'[t] : e.obj = o => e \in queue[t]
       /\ \A e \in batch'[t] : e.obj = o => e \in batch[t] \cup queue[t]
       /\ \A i \in Ids : <<o, i>> \in table'[t] => <<o, i>> \in table[t]
       /\ \A i \in Ids : <<o, i>> \in timerBatch'[t] => <<o, i>> \in timerBatch[t] \cup table[t]
       /\ o \in buried[t] => o \in buried'[t] \/ (batch[t] = {} /\ timerBatch[t] = {})
       /\ call'[t].obj = o => /\ call[t].obj = o /\ call'[t].kind = call[t].kind
                              /\ call'[t].at = call[t].at /\ call'[t].to = call[t].to

LEMMA ApartKeeps == ASSUME TypeOK, NEW o \in Objects, Settled(o), Apart(o) PROVE Settled(o)'
<1> SUFFICES ASSUME NEW t \in Threads
             PROVE  /\ QueuedHere(t, o)' /\ TakenHere(t, o)' /\ RegisteredHere(t, o)'
                    /\ ExpiredHere(t, o)' /\ HandedHere(t, o)' /\ Undeleted(t, o)'
  BY DEF Settled
<1>0. Alive(o)' <=> Alive(o)
  BY DEF Apart, Alive
<1>1. QueuedHere(t, o)'
  BY <1>0 DEF Apart, Settled, QueuedHere
<1>2. TakenHere(t, o)'
  BY <1>0 DEF Apart, Settled, QueuedHere, TakenHere
<1>3. RegisteredHere(t, o)'
  BY <1>0 DEF Apart, Settled, RegisteredHere
<1>4. ExpiredHere(t, o)'
  BY <1>0 DEF Apart, Settled, RegisteredHere, ExpiredHere
<1>d. \A u \in Threads : DeleteIn(queue'[u] \cup batch'[u], o) => DeleteIn(queue[u] \cup batch[u], o)
  BY DEF Apart, DeleteIn
<1>5. HandedHere(t, o)'
  <2>1. \A u \in Threads : Touching(u, o)' => Touching(u, o)
    BY DEF Apart, Touching
  <2>2. call'[t].obj = o => /\ call'[t].at # "registering"
                            /\ call'[t].at = "posting" /\ Alive(o)' => home'[o] = call'[t].to
    BY <1>0 DEF Apart, Settled, HandedHere
  <2>3. Touching(t, o)' => /\ Alive(o)'
                           /\ \A u \in Threads : /\ ~DeleteIn(queue[u] \cup batch[u], o)
                                                 /\ Touching(u, o) => u = t
    BY <1>0, <2>1 DEF Settled, HandedHere
  <2>4. QED
    BY <1>d, <2>1, <2>2, <2>3 DEF HandedHere
<1>6. Undeleted(t, o)'
  BY <1>d DEF Apart, Settled, Undeleted
<1>7. QED
  BY <1>1, <1>2, <1>3, <1>4, <1>5, <1>6

\* Nothing is queued, taken, registered or expired.
Bare(o) == \A u \in Threads : /\ \A e \in queue[u] \cup batch[u] : e.obj # o
                              /\ \A i \in Ids : <<o, i>> \notin table[u] /\ <<o, i>> \notin timerBatch[u]

LEMMA BareSettled ==
  ASSUME NEW o \in Objects, Bare(o)',
         \A u \in Threads : /\ call'[u].obj = o => HandedHere(u, o)'
                            /\ call'[u].obj = o /\ call'[u].kind = "delete" => deletePosted'[o]
  PROVE  Settled(o)'
<1> SUFFICES ASSUME NEW t \in Threads
             PROVE  /\ QueuedHere(t, o)' /\ TakenHere(t, o)' /\ RegisteredHere(t, o)'
                    /\ ExpiredHere(t, o)' /\ HandedHere(t, o)' /\ Undeleted(t, o)'
  BY DEF Settled
<1>1. QueuedHere(t, o)' /\ TakenHere(t, o)' /\ RegisteredHere(t, o)' /\ ExpiredHere(t, o)'
  BY DEF Bare, QueuedHere, TakenHere, RegisteredHere, ExpiredHere
<1>2. HandedHere(t, o)'
  BY DEF HandedHere, Touching
<1>3. Undeleted(t, o)'
  BY DEF Bare, Undeleted, DeleteIn
<1>4. QED
  BY <1>1, <1>2, <1>3

\* Nothing is under way about a settled object whose thread has no dispatcher.
LEMMA Adrift ==
  ASSUME TypeOK, Tidy, Standing, NEW o \in Objects, Settled(o), Alive(o), ~Served(o) PROVE Bare(o)
<1> SUFFICES ASSUME NEW u \in Threads
             PROVE  /\ \A e \in queue[u] \cup batch[u] : e.obj # o
                    /\ \A i \in Ids : <<o, i>> \notin table[u] /\ <<o, i>> \notin timerBatch[u]
  BY DEF Bare
<1>1. home[o] = u => stage[u] \in {"off", "gone"}
  BY ThreadsAssumption DEF Served, Threads
<1>2. home[o] = u => queue[u] = {} /\ table[u] = {} /\ batch[u] = {} /\ timerBatch[u] = {}
  BY <1>1 DEF Standing, Emptied, TimersOfPass, Tidy, BatchOfPass
<1>3. o \notin buried[u]
  BY DEF Tidy, BuriedFreed, Alive
<1>4. QED
  BY <1>2, <1>3 DEF Settled, QueuedHere, TakenHere, RegisteredHere, ExpiredHere

\* An object that lives on a thread takes what that thread has of it with it.
LEMMA DestroyBare ==
  ASSUME TypeOK, NEW o \in Objects, Settled(o), Alive(o), Destroy(o), UNCHANGED <<batch, timerBatch>>,
         \A u \in Threads : /\ \A e \in batch[u] : e.obj # o
                            /\ \A i \in Ids : <<o, i>> \notin timerBatch[u]
  PROVE  Bare(o)'
<1> SUFFICES ASSUME NEW u \in Threads
             PROVE  /\ \A e \in queue'[u] \cup batch'[u] : e.obj # o
                    /\ \A i \in Ids : <<o, i>> \notin table'[u] /\ <<o, i>> \notin timerBatch'[u]
  BY DEF Bare
<1>1. CASE home[o] = u
  BY <1>1 DEF Destroy
<1>2. CASE home[o] # u
  <2>1. queue'[u] = queue[u] /\ table'[u] = table[u]
    BY <1>2 DEF Destroy
  <2>2. QED
    BY <1>2, <2>1 DEF Settled, QueuedHere, RegisteredHere
<1>3. QED
  BY <1>1, <1>2

\* What destroys one object or posts about it is no business of another.
LEMMA OthersApart ==
  ASSUME TypeOK, NEW o \in Objects, NEW x \in Objects, x # o,
         state'[x] = state[x], home'[x] = home[x], deletePosted'[x] = deletePosted[x],
         UNCHANGED <<batch, timerBatch, buried>>,
         \A u \in Threads : /\ \A e : e.obj = x => (e \in queue'[u] <=> e \in queue[u])
                            /\ \A i \in Ids : <<x, i>> \in table'[u] => <<x, i>> \in table[u]
                            /\ call'[u].obj = x => call'[u] = call[u] \/ x = Nowhere
  PROVE  Apart(x)
<1>1. x # Nowhere
  BY ThreadsAssumption
<1>2. QED
  BY <1>1 DEF Apart

\* What has been posted at home about a live object, or is on its way there.
LEMMA SendSettled ==
  ASSUME TypeOK, NEW t \in Threads, NEW kind \in {"call", "delete", "rearm"}, NEW o \in Objects, NEW ids,
         Send(t, kind, o, ids), Settled(o), Alive(o), state'[o] = state[o], UNCHANGED <<home, table, batch, buried>>,
         \A u \in Threads : timerBatch'[u] \subseteq timerBatch[u],
         deletePosted[o] => deletePosted'[o], kind = "delete" => deletePosted'[o],
         kind # "call" => \A u \in Threads : Touching(u, o) => u = t,
         kind = "rearm" => \A u \in Threads : ~DeleteIn(queue[u] \cup batch[u], o),
         kind = "delete" => /\ \A u \in Threads : ~Touching(u, o)
                            /\ \A u \in Threads : ~DeleteIn(queue[u] \cup batch[u], o)
  PROVE  Settled(o)'
<1>n. o # Nowhere
  BY ThreadsAssumption
<1>a. Alive(o) /\ Alive(o)' /\ home'[o] = home[o]
  BY DEF Alive
<1>1. CASE home[o] = t /\ Enqueue(t, kind, o, ids) /\ Return(t)
  <2>1. PICK e : queue'[t] = queue[t] \cup {e} /\ e.kind = kind /\ e.obj = o
    BY <1>1, EnqueueOne
  <2>2. \A u \in Threads : u # t => queue'[u] = queue[u]
    BY <1>1, EnqueueOne
  <2>3. call'[t].obj = Nowhere /\ \A u \in Threads : u # t => call'[u] = call[u]
    BY <1>1 DEF Return, Begin, NoCall, TypeOK
  <2>4. \A u \in Threads : DeleteIn(queue'[u] \cup batch'[u], o) =>
           DeleteIn(queue[u] \cup batch[u], o) \/ kind = "delete"
    BY <2>1, <2>2 DEF DeleteIn
  <2>5. \A u \in Threads : Touching(u, o)' => Touching(u, o) /\ u # t
    BY <1>n, <2>3 DEF Touching
  <2> SUFFICES ASSUME NEW u \in Threads
               PROVE  /\ QueuedHere(u, o)' /\ TakenHere(u, o)' /\ RegisteredHere(u, o)'
                      /\ ExpiredHere(u, o)' /\ HandedHere(u, o)' /\ Undeleted(u, o)'
    BY DEF Settled
  <2>6. QueuedHere(u, o)'
    BY <1>1, <1>a, <2>1, <2>2 DEF Settled, QueuedHere
  <2>7. TakenHere(u, o)' /\ RegisteredHere(u, o)' /\ ExpiredHere(u, o)'
    BY <1>a DEF Settled, TakenHere, RegisteredHere, ExpiredHere
  <2>8. HandedHere(u, o)'
    <3>1. call'[u].obj = o => call'[u] = call[u]
      BY <1>n, <2>3
    <3>2. Touching(u, o)' => kind = "call"
      BY <2>5
    <3>3. QED
      BY <1>a, <2>4, <2>5, <3>1, <3>2 DEF Settled, HandedHere
  <2>9. Undeleted(u, o)'
    BY <1>n, <2>3, <2>4 DEF Settled, Undeleted
  <2>10. QED
    BY <2>6, <2>7, <2>8, <2>9
<1>2. CASE /\ home[o] # t /\ UNCHANGED queue
           /\ Begin(t, [at |-> "posting", to |-> home[o], dropped |-> FALSE,
                        kind |-> kind, obj |-> o, ids |-> ids])
  <2>1. /\ call'[t].at = "posting" /\ call'[t].to = home[o] /\ call'[t].kind = kind /\ call'[t].obj = o
        /\ \A u \in Threads : u # t => call'[u] = call[u]
    BY <1>2 DEF Begin, TypeOK
  <2> SUFFICES ASSUME NEW u \in Threads
               PROVE  /\ QueuedHere(u, o)' /\ TakenHere(u, o)' /\ RegisteredHere(u, o)'
                      /\ ExpiredHere(u, o)' /\ HandedHere(u, o)' /\ Undeleted(u, o)'
    BY DEF Settled
  <2>2. QueuedHere(u, o)' /\ TakenHere(u, o)' /\ RegisteredHere(u, o)' /\ ExpiredHere(u, o)'
    BY <1>2, <1>a DEF Settled, QueuedHere, TakenHere, RegisteredHere, ExpiredHere
  <2>3. \A v \in Threads : Touching(v, o)' => Touching(v, o) \/ (v = t /\ kind # "call")
    BY <2>1 DEF Touching
  <2>4. \A v \in Threads : DeleteIn(queue'[v] \cup batch'[v], o) <=> DeleteIn(queue[v] \cup batch[v], o)
    BY <1>2
  <2>5. HandedHere(u, o)'
    <3>1. /\ call'[u].obj = o => call'[u].at # "registering"
          /\ call'[u].at = "posting" /\ call'[u].obj = o => home'[o] = call'[u].to
      BY <1>a, <2>1 DEF Settled, HandedHere
    <3>2. ASSUME NEW v \in Threads, Touching(u, o)', Touching(v, o)' PROVE u = v
      BY <2>1, <2>3, <3>2 DEF Settled, HandedHere, Touching
    <3>3. ASSUME NEW v \in Threads, Touching(u, o)', DeleteIn(queue'[v] \cup batch'[v], o) PROVE FALSE
      BY <2>3, <2>4, <3>3 DEF Settled, HandedHere
    <3>4. QED
      BY <1>a, <3>1, <3>2, <3>3 DEF HandedHere
  <2>6. Undeleted(u, o)'
    BY <2>1, <2>4 DEF Settled, Undeleted
  <2>7. QED
    BY <2>2, <2>5, <2>6
<1>3. QED
  BY <1>1, <1>2 DEF Send

\* First what user code does, ...
LEMMA SettledUser ==
  ASSUME TypeOK, TypeOK', HelpersAtHome, Tidy, Standing, quiet, \A o \in Objects : Settled(o),
         NEW t \in Threads, UserStep(t), NEW x \in Objects
  PROVE  Settled(x)'
<1> USE ThreadsAssumption DEF threadVars, passVars, objectVars
<1>0. PICK o \in Objects :
        \/ Start(t, o) \/ Stop(t, o)
        \/ \E to \in Threads \cup {Nowhere} : Move(t, o, to)
        \/ Emit(t, o) \/ DeleteLater(t, o) \/ Delete(t, o)
        \/ \E context \in Timers : SingleShotCall(t, o, context)
  BY DEF UserStep
<1>t. Timers \subseteq Objects /\ Helpers \subseteq Objects
  BY DEF Objects
<1>n. x # Nowhere /\ o # Nowhere
  OBVIOUS
<1>x. Settled(x) /\ Settled(o)
  OBVIOUS
<1>1. CASE Start(t, o)
  <2>1. UNCHANGED <<quiet, threadVars, queue, passVars, home, state, deletePosted, call>>
    BY <1>1 DEF Start
  <2>2. Alive(o) /\ home[o] = t
    BY <1>1 DEF Start, Owner
  <2>3. \A u \in Threads, i \in Ids : <<x, i>> \in table'[u] => <<x, i>> \in table[u] \/ (x = o /\ u = t)
    BY <1>1 DEF Start, StartTimer, TypeOK
  <2>4. CASE x # o
    <3>1. Apart(x)
      BY <2>1, <2>3, <2>4 DEF Apart
    <3>2. QED
      BY <1>x, <3>1, ApartKeeps
  <2>5. CASE x = o
    <3> SUFFICES ASSUME NEW u \in Threads
                 PROVE  /\ QueuedHere(u, x)' /\ TakenHere(u, x)' /\ RegisteredHere(u, x)'
                        /\ ExpiredHere(u, x)' /\ HandedHere(u, x)' /\ Undeleted(u, x)'
      BY DEF Settled
    <3>1. QueuedHere(u, x)' /\ TakenHere(u, x)' /\ ExpiredHere(u, x)' /\ Undeleted(u, x)'
      BY <1>x, <2>1 DEF Settled, QueuedHere, TakenHere, ExpiredHere, Undeleted, Alive
    <3>2. RegisteredHere(u, x)'
      BY <1>x, <2>1, <2>2, <2>3, <2>5 DEF Settled, RegisteredHere, Alive
    <3>3. HandedHere(u, x)'
      <4>1. HandedHere(u, x)
        BY <1>x DEF Settled
      <4>2. QED
        BY <2>1, <4>1 DEF HandedHere, Touching, Alive
    <3>4. QED
      BY <3>1, <3>2, <3>3
  <2>6. QED
    BY <2>4, <2>5
<1>2. CASE Stop(t, o)
  <2>1. \A u \in Threads : table'[u] \subseteq table[u]
    BY <1>2 DEF Stop, KillTimer, TypeOK
  <2>2. Apart(x)
    BY <1>2, <2>1 DEF Stop, Apart
  <2>3. QED
    BY <1>x, <2>2, ApartKeeps
<1>3. ASSUME NEW to \in Threads \cup {Nowhere}, Move(t, o, to) PROVE Settled(x)'
  <2> DEFINE ids == IF Served(o) THEN IdsOf(o, home[o]) ELSE {}
             moved == [NoCall EXCEPT !.at = "moved", !.obj = o, !.ids = ids]
  <2>1. /\ home' = [home EXCEPT ![o] = to] /\ Alive(o) /\ ~About(o)
        /\ table' = [u \in Threads |-> IF u = home[o] THEN table[u] \ Entries(o, ids) ELSE table[u]]
        /\ UNCHANGED call \/ call' = [call EXCEPT ![t] = moved]
        /\ UNCHANGED <<quiet, threadVars, queue, passVars, state, timerId, deletePosted, nextId, shots, lost>>
    BY <1>3 DEF Move, Begin
  <2>2. moved.obj = o /\ moved.at = "moved" /\ moved.kind = "call"
    BY DEF NoCall
  <2>3. Served(o) => ids = IdsOf(o, home[o])
    OBVIOUS
  <2> HIDE DEF ids, moved
  <2>4. \A u \in Threads : table'[u] \subseteq table[u]
    BY <2>1
  <2>5. \A u \in Threads : call'[u] = call[u] \/ (u = t /\ call'[u] = moved)
    BY <2>1 DEF TypeOK
  <2>6. CASE x # o
    <3>1. home'[x] = home[x]
      BY <2>1, <2>6 DEF TypeOK
    <3>2. \A u \in Threads : call'[u].obj = x => call'[u] = call[u]
      BY <2>2, <2>5, <2>6
    <3>3. Apart(x)
      BY <2>1, <2>4, <3>1, <3>2 DEF Apart
    <3>4. QED
      BY <1>x, <3>3, ApartKeeps
  <2>7. CASE x = o
    <3>1. \A u \in Threads : /\ call[u].obj # o
                             /\ \A e \in queue[u] \cup batch[u] : e.obj # o
                             /\ \A i \in Ids : <<o, i>> \notin timerBatch[u]
      BY <2>1 DEF About
    <3>2. \A u \in Threads, i \in Ids : <<o, i>> \notin table'[u]
      <4>1. CASE Served(o)
        <5>1. \A u \in Threads, i \in Ids : <<o, i>> \in table[u] => u = home[o] /\ i \in ids
          BY <1>x, <2>3, <4>1 DEF Settled, RegisteredHere, IdsOf
        <5>2. \A i \in ids : <<o, i>> \in Entries(o, ids)
          BY DEF Entries
        <5>3. QED
          BY <2>1, <5>1, <5>2
      <4>2. CASE ~Served(o)
        BY <1>x, <2>1, <2>4, <4>2, Adrift DEF Bare
      <4>3. QED
        BY <4>1, <4>2
    <3>3. Bare(x)'
      BY <2>1, <2>7, <3>1, <3>2 DEF Bare
    <3>4. \A u \in Threads : Touching(u, x)' => u = t
      BY <2>5, <2>7, <3>1 DEF Touching
    <3>5. \A u \in Threads : ~DeleteIn(queue'[u] \cup batch'[u], x)
      BY <3>3 DEF Bare, DeleteIn
    <3>6. \A u \in Threads : call'[u].obj = x => HandedHere(u, x)' /\ call'[u].kind # "delete"
      <4>1. Alive(x)'
        BY <2>1, <2>7 DEF Alive
      <4>2. QED
        BY <2>2, <2>5, <2>7, <3>1, <3>4, <3>5, <4>1 DEF HandedHere
    <3>7. QED
      BY <3>3, <3>6, BareSettled
  <2>8. QED
    BY <2>6, <2>7
<1>4. CASE Emit(t, o)
  <2>1. /\ Send(t, "call", o, {}) /\ Alive(o)
        /\ UNCHANGED <<quiet, threadVars, table, passVars, objectVars, nextId, shots, lost>>
    BY <1>4 DEF Emit
  <2>2. CASE x # o
    <3>1. \A u \in Threads : /\ \A e : e.obj = x => (e \in queue'[u] <=> e \in queue[u])
                             /\ call'[u].obj = x => call'[u] = call[u] \/ x = Nowhere
      BY <2>1, <2>2, SendOthers
    <3>2. Apart(x)
      BY <2>1, <2>2, <3>1, OthersApart
    <3>3. QED
      BY <1>x, <3>2, ApartKeeps
  <2>3. CASE x = o
    BY <1>x, <2>1, <2>3, SendSettled
  <2>4. QED
    BY <2>2, <2>3
<1>5. CASE DeleteLater(t, o)
  <2>1. /\ Alive(o) /\ ~deletePosted[o] /\ \A u \in Threads : call[u].obj # o
        /\ deletePosted' = [deletePosted EXCEPT ![o] = TRUE]
        /\ UNCHANGED <<quiet, threadVars, passVars, home, nextId, shots, lost>>
    <3>1. \A u \in Threads : call[u].obj # o
      BY <1>5, Zenon DEF DeleteLater
    <3>2. QED
      BY <1>5, <3>1 DEF DeleteLater
  <2>2. deletePosted'[o] /\ (x # o => deletePosted'[x] = deletePosted[x])
    <3>1. deletePosted \in [Objects -> BOOLEAN]
      BY DEF TypeOK
    <3>2. QED
      BY <2>1, <3>1
  <2>3. CASE Send(t, "delete", o, {}) /\ UNCHANGED <<table, state, timerId>>
    <3>1. CASE x # o
      <4>1. \A u \in Threads : /\ \A e : e.obj = x => (e \in queue'[u] <=> e \in queue[u])
                               /\ call'[u].obj = x => call'[u] = call[u] \/ x = Nowhere
        BY <2>3, <3>1, SendOthers
      <4>2. Apart(x)
        BY <2>1, <2>2, <2>3, <3>1, <4>1, OthersApart
      <4>3. QED
        BY <1>x, <4>2, ApartKeeps
    <3>2. CASE x = o
      <4>1. \A u \in Threads : ~Touching(u, o) /\ ~DeleteIn(queue[u] \cup batch[u], o)
        BY <1>x, <2>1 DEF Touching, Settled, Undeleted
      <4>2. Settled(o)'
        BY <1>x, <2>1, <2>2, <2>3, <4>1, SendSettled
      <4>3. QED
        BY <3>2, <4>2
    <3>3. QED
      BY <3>1, <3>2
  <2>4. CASE ~Served(o) /\ Destroy(o) /\ UNCHANGED call
    <3>1. CASE x # o
      <4>1. Gone(o, x)
        BY <2>4, <3>1, DestroyOthers
      <4>2. Apart(x)
        BY <2>1, <2>2, <2>4, <3>1, <4>1 DEF Gone, Apart
      <4>3. QED
        BY <1>x, <4>2, ApartKeeps
    <3>2. CASE x = o
      <4>1. Bare(o)
        BY <1>x, <2>1, <2>4, Adrift
      <4>2. Bare(o)'
        BY <1>x, <2>1, <2>4, <4>1, DestroyBare DEF Bare
      <4>3. QED
        BY <2>1, <2>4, <3>2, <4>2, BareSettled
    <3>3. QED
      BY <3>1, <3>2
  <2>5. QED
    BY <1>5, <2>3, <2>4 DEF DeleteLater
<1>6. CASE Delete(t, o)
  <2>1. /\ Alive(o) /\ Destroy(o) /\ \A u \in Threads : call[u].obj # o
        /\ UNCHANGED <<quiet, threadVars, passVars, home, deletePosted, call, nextId, shots, lost>>
    BY <1>6 DEF Delete
  <2>2. CASE x # o
    <3>1. Gone(o, x)
      BY <2>1, <2>2, DestroyOthers
    <3>2. Apart(x)
      BY <2>1, <3>1 DEF Gone, Apart
    <3>3. QED
      BY <1>x, <3>2, ApartKeeps
  <2>3. CASE x = o
    <3>1. \A u \in Threads : /\ \A e \in batch[u] : e.obj # o
                             /\ \A i \in Ids : <<o, i>> \notin timerBatch[u]
      <4>1. CASE Owner(o) = t
        <5>1. home[o] = t
          BY <4>1 DEF Owner
        <5>2. /\ \A e \in batch[t] : e.obj # o
              /\ \A i \in Ids : <<o, i>> \notin timerBatch[t]
          BY <1>6, <4>1 DEF Delete
        <5>3. \A u \in Threads : o \notin buried[u]
          BY <2>1 DEF Tidy, BuriedFreed, Alive
        <5>4. QED
          BY <1>x, <2>1, <5>1, <5>2, <5>3 DEF Settled, TakenHere, ExpiredHere
      <4>2. CASE Owner(o) # t
        <5>1. ~Served(o)
          BY <1>6, <4>2 DEF Delete, Owner, Served
        <5>2. QED
          BY <1>x, <2>1, <5>1, Adrift DEF Bare
      <4>3. QED
        BY <4>1, <4>2
    <3>2. Bare(o)'
      BY <1>x, <2>1, <3>1, DestroyBare
    <3>3. QED
      BY <2>1, <2>3, <3>2, BareSettled
  <2>4. QED
    BY <2>2, <2>3
<1>7. ASSUME NEW context \in Timers, SingleShotCall(t, o, context) PROVE Settled(x)'
  <2>1. /\ o \in Helpers /\ ~Known(o) /\ state' = [state EXCEPT ![o] = "alive"]
        /\ home' = [home EXCEPT ![o] = Owner(context)]
        /\ UNCHANGED <<quiet, threadVars, queue, passVars, deletePosted>>
    BY <1>7 DEF SingleShotCall, Known
  <2>2. \A u \in Threads : /\ \A e \in queue[u] \cup batch[u] : e.obj # o
                           /\ call[u].obj # o
                           /\ \A i \in Ids : <<o, i>> \notin table[u] /\ <<o, i>> \notin timerBatch[u]
    BY <1>n, <2>1 DEF HelpersAtHome, GoodEvent, GoodEntry, GoodCall
  <2>3. \A u \in Threads, i \in Ids : <<x, i>> \in table'[u] =>
           <<x, i>> \in table[u] \/ (x = o /\ u = t /\ Owner(context) = t)
    BY <1>7 DEF SingleShotCall, StartTimer, TypeOK
  <2>4. \A u \in Threads : \/ call'[u] = call[u]
                           \/ /\ u = t /\ call'[u].obj = o /\ call'[u].at = "posting" /\ call'[u].kind = "arm"
                              /\ call'[u].to = Owner(context)
    BY <1>7 DEF SingleShotCall, Begin, Owner, TypeOK
  <2>5. CASE x # o
    <3>1. state'[x] = state[x] /\ home'[x] = home[x]
      BY <2>1, <2>5 DEF TypeOK
    <3>2. Apart(x)
      BY <2>1, <2>3, <2>4, <2>5, <3>1 DEF Apart
    <3>3. QED
      BY <1>x, <3>2, ApartKeeps
  <2>6. CASE x = o
    <3>1. Alive(o)' /\ home'[o] = Owner(context)
      BY <2>1 DEF Alive, TypeOK
    <3> SUFFICES ASSUME NEW u \in Threads
                 PROVE  /\ QueuedHere(u, o)' /\ TakenHere(u, o)' /\ RegisteredHere(u, o)'
                        /\ ExpiredHere(u, o)' /\ HandedHere(u, o)' /\ Undeleted(u, o)'
      BY <2>6 DEF Settled
    <3>2. QueuedHere(u, o)' /\ TakenHere(u, o)' /\ ExpiredHere(u, o)'
      BY <2>1, <2>2 DEF QueuedHere, TakenHere, ExpiredHere
    <3>3. RegisteredHere(u, o)'
      BY <2>2, <2>3, <2>6, <3>1 DEF RegisteredHere
    <3>4. \A v \in Threads : /\ Touching(v, o)' => v = t
                             /\ ~DeleteIn(queue'[v] \cup batch'[v], o)
      BY <2>1, <2>2, <2>4 DEF Touching, DeleteIn
    <3>5. HandedHere(u, o)'
      BY <2>2, <2>4, <3>1, <3>4 DEF HandedHere
    <3>6. Undeleted(u, o)'
      BY <2>2, <2>4, <3>4 DEF Undeleted
    <3>7. QED
      BY <3>2, <3>3, <3>5, <3>6
  <2>7. QED
    BY <2>5, <2>6
<1>8. QED
  BY <1>0, <1>1, <1>2, <1>3, <1>4, <1>5, <1>6, <1>7

\* A timer is registered at home; an event may have been dispatched for that.
LEMMA RegisterSettled ==
  ASSUME TypeOK, NEW t \in Threads, NEW o \in Objects, Settled(o), Alive(o), home[o] = t,
         UNCHANGED <<state, home, deletePosted, queue, timerBatch, buried, call>>,
         \A u \in Threads : /\ batch'[u] \subseteq batch[u]
                            /\ \A i \in Ids : <<o, i>> \in table'[u] => <<o, i>> \in table[u] \/ u = t
  PROVE  Settled(o)'
<1> SUFFICES ASSUME NEW u \in Threads
             PROVE  /\ QueuedHere(u, o)' /\ TakenHere(u, o)' /\ RegisteredHere(u, o)'
                    /\ ExpiredHere(u, o)' /\ HandedHere(u, o)' /\ Undeleted(u, o)'
  BY DEF Settled
<1>0. Alive(o)'
  BY DEF Alive
<1>1. QueuedHere(u, o)' /\ TakenHere(u, o)' /\ ExpiredHere(u, o)'
  BY <1>0 DEF Settled, QueuedHere, TakenHere, ExpiredHere
<1>2. RegisteredHere(u, o)'
  BY <1>0 DEF Settled, RegisteredHere
<1>3. \A v \in Threads : DeleteIn(queue'[v] \cup batch'[v], o) => DeleteIn(queue[v] \cup batch[v], o)
  BY DEF DeleteIn
<1>4. HandedHere(u, o)'
  <2>1. \A v \in Threads : Touching(v, o)' <=> Touching(v, o)
    BY DEF Touching
  <2>2. QED
    BY <1>0, <1>3, <2>1 DEF Settled, HandedHere
<1>5. Undeleted(u, o)'
  BY <1>3 DEF Settled, Undeleted
<1>6. QED
  BY <1>1, <1>2, <1>4, <1>5

\* ... then how a pass or a drain dispatches what it has taken, ...
LEMMA SettledDispatch ==
  ASSUME TypeOK, TypeOK', HelpersAtHome, Tidy, Standing, \A o \in Objects : Settled(o),
         NEW t \in Threads, NEW e \in batch[t],
         DispatchCall(t, e) \/ DispatchDelete(t, e) \/ DispatchArm(t, e) \/ DispatchRearm(t, e),
         NEW x \in Objects
  PROVE  Settled(x)'
<1> USE ThreadsAssumption DEF threadVars, passVars, objectVars
<1>0. /\ e.obj \in Objects /\ stage[t] \in {"dispatch", "drain"}
      /\ \A u \in Threads : batch'[u] \subseteq batch[u]
  <2>1. IsNext(t, e) /\ Consume(t, e)
    BY DEF DispatchCall, DispatchDelete, DispatchArm, DispatchRearm
  <2>2. \A u \in Threads : batch'[u] \subseteq batch[u]
    BY <2>1 DEF Consume, TypeOK
  <2>3. e.obj \in Objects
    BY Fields DEF TypeOK
  <2>4. QED
    BY <2>1, <2>2, <2>3 DEF IsNext
<1>x. Settled(x)
  OBVIOUS
<1>o. e.kind # "call" /\ e.obj \notin buried[t] => Alive(e.obj) /\ home[e.obj] = t
  BY <1>0 DEF Settled, TakenHere
<1>1. CASE DispatchCall(t, e)
  <2>1. Apart(x)
    BY <1>0, <1>1 DEF DispatchCall, Apart
  <2>2. QED
    BY <1>x, <2>1, ApartKeeps
<1>2. CASE DispatchDelete(t, e)
  <2> DEFINE o == e.obj
  <2>1. /\ o \notin buried[t] /\ e.kind = "delete" /\ Destroy(o)
        /\ buried' = [buried EXCEPT ![t] = @ \cup {o}]
        /\ UNCHANGED <<quiet, threadVars, timerBatch, home, deletePosted, call, nextId, shots, lost>>
    BY <1>2 DEF DispatchDelete
  <2>2. /\ \A u \in Threads : buried[u] \subseteq buried'[u]
        /\ o \in buried'[t]
    BY <2>1 DEF TypeOK
  <2>3. CASE x # o
    <3>1. Gone(o, x)
      BY <2>1, <2>3, DestroyOthers
    <3>2. Apart(x)
      BY <1>0, <2>1, <2>2, <3>1 DEF Gone, Apart
    <3>3. QED
      BY <1>x, <3>2, ApartKeeps
  <2>4. CASE x = o
    <3>1. Alive(x) /\ home[x] = t /\ DeleteIn(batch[t], x) /\ DeleteIn(queue[t] \cup batch[t], x)
      BY <1>o, <2>1, <2>4 DEF DeleteIn
    <3>2. /\ ~Alive(x)' /\ home'[x] = t
          /\ \A u \in Threads : /\ \A f \in queue'[u] : f.obj = x => f \in queue[u] /\ u # t
                                /\ \A i \in Ids : <<x, i>> \in table'[u] => <<x, i>> \in table[u] /\ u # t
      BY <2>1, <2>4, <3>1 DEF Destroy, Alive, TypeOK
    <3>3. \A u \in Threads : x \notin buried[u]
      BY <3>1 DEF Tidy, BuriedFreed, Alive
    <3> SUFFICES ASSUME NEW u \in Threads
                 PROVE  /\ QueuedHere(u, x)' /\ TakenHere(u, x)' /\ RegisteredHere(u, x)'
                        /\ ExpiredHere(u, x)' /\ HandedHere(u, x)' /\ Undeleted(u, x)'
      BY DEF Settled
    <3>4. QueuedHere(u, x)'
      BY <1>x, <3>1, <3>2 DEF Settled, QueuedHere
    <3>5. TakenHere(u, x)'
      BY <1>0, <1>x, <2>2, <2>4, <3>1, <3>2 DEF Settled, TakenHere
    <3>6. RegisteredHere(u, x)'
      BY <1>x, <3>1, <3>2 DEF Settled, RegisteredHere
    <3>7. ExpiredHere(u, x)'
      BY <1>x, <2>1, <2>2, <2>4, <3>1, <3>3 DEF Settled, ExpiredHere
    <3>8. HandedHere(u, x)'
      <4>1. ~Touching(u, x) /\ (call[u].obj = x => call[u].at # "registering")
        BY <1>x, <3>1 DEF Settled, HandedHere
      <4>2. QED
        BY <2>1, <3>2, <4>1 DEF HandedHere, Touching
    <3>9. Undeleted(u, x)'
      BY <1>x, <2>1, <3>1 DEF Settled, Undeleted
    <3>10. QED
      BY <3>4, <3>5, <3>6, <3>7, <3>8, <3>9
  <2>5. QED
    BY <2>3, <2>4
<1>3. CASE DispatchArm(t, e)
  <2>1. /\ e.obj \notin buried[t] /\ e.kind = "arm" /\ StartTimer(t, e.obj)
        /\ UNCHANGED <<quiet, threadVars, queue, timerBatch, buried, home, state, deletePosted, call>>
    BY <1>3 DEF DispatchArm
  <2>2. \A u \in Threads, i \in Ids : <<x, i>> \in table'[u] => <<x, i>> \in table[u] \/ (x = e.obj /\ u = t)
    BY <2>1 DEF StartTimer, TypeOK
  <2>3. CASE x # e.obj
    <3>1. Apart(x)
      BY <1>0, <2>1, <2>2, <2>3 DEF Apart
    <3>2. QED
      BY <1>x, <3>1, ApartKeeps
  <2>4. CASE x = e.obj
    BY <1>0, <1>o, <1>x, <2>1, <2>2, <2>4, RegisterSettled
  <2>5. QED
    BY <2>3, <2>4
<1>4. CASE DispatchRearm(t, e)
  <2>1. /\ e.obj \notin buried[t] /\ e.kind = "rearm"
        /\ UNCHANGED <<quiet, threadVars, queue, timerBatch, buried, objectVars, nextId, shots>>
    BY <1>4 DEF DispatchRearm
  <2>2. Alive(e.obj) /\ home[e.obj] = t /\ Served(e.obj)
    BY <1>0, <1>o, <2>1 DEF Served, Threads
  <2>3. table' = [table EXCEPT ![t] = @ \cup Entries(e.obj, e.ids)] /\ UNCHANGED call
    BY <1>4, <2>2 DEF DispatchRearm
  <2>4. \A u \in Threads, i \in Ids : <<x, i>> \in table'[u] => <<x, i>> \in table[u] \/ (x = e.obj /\ u = t)
    BY <2>3 DEF Entries, TypeOK
  <2>5. CASE x # e.obj
    <3>1. Apart(x)
      BY <1>0, <2>1, <2>3, <2>4, <2>5 DEF Apart
    <3>2. QED
      BY <1>x, <3>1, ApartKeeps
  <2>6. CASE x = e.obj
    BY <1>0, <1>x, <2>1, <2>2, <2>3, <2>4, <2>6, RegisterSettled
  <2>7. QED
    BY <2>5, <2>6
<1>5. QED
  BY <1>1, <1>2, <1>3, <1>4

\* ... hands over what it was asked to, ...
LEMMA SettledPost ==
  ASSUME TypeOK, \A o \in Objects : Settled(o), NEW t \in Threads, Post(t), NEW x \in Objects
  PROVE  Settled(x)'
<1> USE ThreadsAssumption DEF passVars, objectVars
<1>c. call[t] \in Call
  BY DEF TypeOK
<1>1. call[t].obj \in Objects /\ call[t].to \in Threads /\ call[t].at = "posting"
  BY <1>c, Fields DEF Post
<1> DEFINE o == call[t].obj
           to == call[t].to
<1>2. /\ UNCHANGED <<table, passVars, objectVars>>
      /\ call'[t].obj = Nowhere /\ \A u \in Threads : u # t => call'[u] = call[u]
  BY DEF Post, Return, Begin, NoCall, TypeOK
<1>3. \/ queue' = queue
      \/ \E e : /\ queue'[to] = queue[to] \cup {e} /\ e.kind = call[t].kind /\ e.obj = o
                /\ \A u \in Threads : u # to => queue'[u] = queue[u]
  BY <1>1, EnqueueOne DEF Post
<1>x. Settled(x) /\ \A u \in Threads : call'[u].obj = x => call'[u] = call[u]
  BY <1>2
<1>4. CASE queue' = queue \/ x # o
  <2>1. \A u \in Threads : \A e \in queue'[u] : e.obj = x => e \in queue[u]
    BY <1>3, <1>4
  <2>2. Apart(x)
    BY <1>2, <1>x, <2>1 DEF Apart
  <2>3. QED
    BY <1>x, <2>2, ApartKeeps
<1>5. ASSUME x = o, NEW e, queue'[to] = queue[to] \cup {e}, e.kind = call[t].kind, e.obj = o,
             \A u \in Threads : u # to => queue'[u] = queue[u]
      PROVE  Settled(x)'
  <2>a. Alive(x)' <=> Alive(x)
    BY <1>2 DEF Alive
  <2>1. HandedHere(t, x) /\ Undeleted(t, x) /\ call[t].obj = x
    BY <1>5, <1>x DEF Settled
  <2>2. e.kind # "call" => Touching(t, x) /\ Alive(x)
    BY <1>5, <2>1 DEF HandedHere, Touching
  <2>3. Alive(x) => home[x] = to
    BY <1>1, <2>1 DEF HandedHere
  <2>4. \A u \in Threads : DeleteIn(queue'[u] \cup batch'[u], x) =>
           DeleteIn(queue[u] \cup batch[u], x) \/ e.kind = "delete"
    BY <1>2, <1>5 DEF DeleteIn
  <2> SUFFICES ASSUME NEW u \in Threads
               PROVE  /\ QueuedHere(u, x)' /\ TakenHere(u, x)' /\ RegisteredHere(u, x)'
                      /\ ExpiredHere(u, x)' /\ HandedHere(u, x)' /\ Undeleted(u, x)'
    BY DEF Settled
  <2>5. QueuedHere(u, x)'
    BY <1>2, <1>5, <1>x, <2>a, <2>2, <2>3 DEF Settled, QueuedHere
  <2>6. TakenHere(u, x)' /\ RegisteredHere(u, x)' /\ ExpiredHere(u, x)'
    BY <1>2, <1>x, <2>a DEF Settled, TakenHere, RegisteredHere, ExpiredHere
  <2>7. HandedHere(u, x)'
    <3>1. \A v \in Threads : Touching(v, x)' => Touching(v, x) /\ v # t
      BY <1>2 DEF Touching
    <3>2. Touching(u, x)' => e.kind = "call"
      BY <2>1, <2>2, <3>1 DEF HandedHere
    <3>3. QED
      BY <1>2, <1>x, <2>a, <2>4, <3>1, <3>2 DEF Settled, HandedHere
  <2>8. Undeleted(u, x)'
    BY <1>2, <1>5, <1>x, <2>1, <2>4 DEF Settled, Undeleted
  <2>9. QED
    BY <2>5, <2>6, <2>7, <2>8
<1>6. QED
  BY <1>3, <1>4, <1>5

\* ... fires its timers, ...
LEMMA SettledFunctor ==
  ASSUME TypeOK, HelpersAtHome, Shot, \A o \in Objects : Settled(o),
         NEW t \in Threads, NEW h \in Helpers, NEW i \in Ids, RunFunctor(t, h, i), NEW x \in Objects
  PROVE  Settled(x)'
<1> USE ThreadsAssumption DEF threadVars
<1>h. h \in Objects /\ h # Nowhere /\ x # Nowhere
  BY DEF Objects
<1>x. Settled(x)
  OBVIOUS
<1>1. /\ <<h, i>> \in timerBatch[t] /\ timerId[h] = i /\ i # 0
      /\ deletePosted' = [deletePosted EXCEPT ![h] = TRUE]
      /\ UNCHANGED <<table, batch, buried, home, state>>
      /\ IF deletePosted[h] THEN UNCHANGED <<queue, call>> ELSE Send(t, "delete", h, {})
  BY DEF RunFunctor, NextTimer, Ids
<1>2. \A u \in Threads : timerBatch'[u] \subseteq timerBatch[u]
  BY DEF RunFunctor, NextTimer, TypeOK
<1>3. Alive(h)
  BY <1>1 DEF Shot, HelperShot, Fired
<1>4. deletePosted'[h] /\ (x # h => deletePosted'[x] = deletePosted[x])
  BY <1>h, <1>1 DEF TypeOK
<1>5. CASE deletePosted[h]
  <2>1. deletePosted'[x] = deletePosted[x]
    BY <1>4, <1>5, <1>1 DEF TypeOK
  <2>2. Apart(x)
    BY <1>1, <1>2, <1>5, <2>1 DEF Apart
  <2>3. QED
    BY <1>x, <2>2, ApartKeeps
<1>6. CASE ~deletePosted[h] /\ x # h
  <2>0. Send(t, "delete", h, {})
    BY <1>1, <1>6
  <2>1. \A u \in Threads : /\ \A e : e.obj = x => (e \in queue'[u] <=> e \in queue[u])
                           /\ call'[u].obj = x => call'[u] = call[u] \/ x = Nowhere
    BY <1>h, <1>6, <2>0, SendOthers, ZenonT(60)
  <2>2. Apart(x)
    BY <1>h, <1>1, <1>2, <1>4, <1>6, <2>1 DEF Apart
  <2>3. QED
    BY <1>x, <2>2, ApartKeeps
<1>7. CASE ~deletePosted[h] /\ x = h
  <2>1. \A u \in Threads : ~DeleteIn(queue[u] \cup batch[u], h)
    BY <1>7, <1>x DEF Settled, Undeleted
  <2>2. ASSUME NEW u \in Threads, Touching(u, h) PROVE FALSE
    <3>1. Arming(u, h)
      BY <2>2 DEF HelpersAtHome, GoodCall, Touching, Arming
    <3>2. QED
      BY <1>1, <3>1 DEF Shot, HelperShot, Unarmed
  <2>3. Settled(h)'
    BY <1>h, <1>1, <1>2, <1>3, <1>4, <1>7, <1>x, <2>1, <2>2, SendSettled
  <2>4. QED
    BY <1>7, <2>3
<1>8. QED
  BY <1>5, <1>6, <1>7

\* ... and comes to an end, ...
LEMMA ReplaceApart ==
  ASSUME TypeOK, NEW t \in Threads, Replace(t), NEW x \in Objects,
         UNCHANGED <<state, home, deletePosted, batch, timerBatch>>,
         \A u \in Threads : buried'[u] = buried[u] \/ (batch[u] = {} /\ timerBatch[u] = {})
  PROVE  Apart(x)
<1>1. \A u \in Threads : queue'[u] \subseteq queue[u] /\ table'[u] \subseteq table[u]
  BY DEF Replace, TypeOK
<1>2. ASSUME NEW u \in Threads
      PROVE  call'[u].obj = call[u].obj /\ call'[u].kind = call[u].kind
             /\ call'[u].at = call[u].at /\ call'[u].to = call[u].to
  <2>1. call[u] \in Call
    BY DEF TypeOK
  <2>2. call'[u] = call[u] \/ call'[u] = [call[u] EXCEPT !.dropped = TRUE]
    BY DEF Replace
  <2>3. QED
    BY <2>1, <2>2 DEF Call, NoCall, Moved, Handing
<1>3. QED
  BY <1>1, <1>2 DEF Apart

LEMMA SettledProceed ==
  ASSUME TypeOK, TypeOK', HelpersAtHome, Tidy, Shot, Standing, \A o \in Objects : Settled(o),
         NEW t \in Threads, Proceed(t), NEW x \in Objects
  PROVE  Settled(x)'
<1> USE ThreadsAssumption DEF threadVars, passVars, objectVars
<1>c. call[t] \in Call /\ x # Nowhere
  BY DEF TypeOK
<1>x. Settled(x)
  OBVIOUS
<1>1. CASE ResolveRearm(t)
  <2>1. PICK o \in Objects, ids \in SUBSET Ids : o = call[t].obj /\ ids = call[t].ids
    BY <1>1, <1>c, Fields DEF ResolveRearm
  <2>2. UNCHANGED <<quiet, threadVars, table, passVars, objectVars, nextId, shots>>
    BY <1>1 DEF ResolveRearm
  <2>3. CASE Send(t, "rearm", o, ids) /\ x # o
    <3>1. \A u \in Threads : /\ \A e : e.obj = x => (e \in queue'[u] <=> e \in queue[u])
                             /\ call'[u].obj = x => call'[u] = call[u] \/ x = Nowhere
      BY <2>3, SendOthers
    <3>2. Apart(x)
      BY <2>2, <2>3, <3>1, OthersApart
    <3>3. QED
      BY <1>x, <3>2, ApartKeeps
  <2>4. CASE Send(t, "rearm", o, ids) /\ x = o
    <3>1. Touching(t, o)
      BY <1>1, <2>1 DEF ResolveRearm, Touching
    <3>2. /\ Alive(o) /\ \A u \in Threads : Touching(u, o) => u = t
          /\ \A u \in Threads : ~DeleteIn(queue[u] \cup batch[u], o)
      BY <3>1 DEF Settled, HandedHere
    <3>3. Settled(o)'
      BY <2>2, <2>4, <3>2, SendSettled
    <3>4. QED
      BY <2>4, <3>3
  <2>5. CASE Return(t) /\ UNCHANGED queue
    <3>1. \A u \in Threads : call'[u].obj = x => call'[u] = call[u]
      BY <1>c, <2>5 DEF Return, Begin, NoCall, TypeOK
    <3>2. Apart(x)
      BY <2>2, <2>5, <3>1 DEF Apart
    <3>3. QED
      BY <1>x, <3>2, ApartKeeps
  <2>6. QED
    BY <1>1, <2>1, <2>3, <2>4, <2>5 DEF ResolveRearm
<1>2. CASE Post(t)
  BY <1>2, SettledPost
<1>3. CASE Register(t)
  <2>1. call[t].obj \in Objects /\ call[t].at = "registering"
    BY <1>3, <1>c, Fields DEF Register
  <2>2. HandedHere(t, call[t].obj)
    BY <2>1 DEF Settled
  <2>3. QED
    BY <2>1, <2>2 DEF HandedHere
<1>4. ASSUME NEW e \in batch[t],
             DispatchCall(t, e) \/ DispatchDelete(t, e) \/ DispatchArm(t, e) \/ DispatchRearm(t, e)
      PROVE Settled(x)'
  BY <1>4, SettledDispatch
<1>5. ASSUME NEW o \in Objects, NEW i \in Ids,
             SkipTimer(t, o, i) \/ \E single \in BOOLEAN : Timeout(t, o, i, single)
      PROVE Settled(x)'
  <2>1. \A u \in Threads : timerBatch'[u] \subseteq timerBatch[u] /\ table'[u] \subseteq table[u]
    <3>1. CASE SkipTimer(t, o, i)
      BY <3>1 DEF SkipTimer, NextTimer, TypeOK
    <3>2. ASSUME NEW single \in BOOLEAN, Timeout(t, o, i, single)
          PROVE  \A u \in Threads : timerBatch'[u] \subseteq timerBatch[u] /\ table'[u] \subseteq table[u]
      BY <3>2 DEF Timeout, NextTimer, KillTimer, TypeOK
    <3>3. QED
      BY <1>5, <3>1, <3>2
  <2>2. UNCHANGED <<state, home, deletePosted, queue, batch, buried, call>>
    BY <1>5 DEF SkipTimer, Timeout
  <2>3. Apart(x)
    BY <2>1, <2>2 DEF Apart
  <2>4. QED
    BY <1>x, <2>3, ApartKeeps
<1>6. ASSUME NEW o \in Objects, NEW i \in Ids, RunFunctor(t, o, i) PROVE Settled(x)'
  BY <1>6, SettledFunctor DEF RunFunctor
<1>7. CASE PassDone(t)
  <2>1. /\ batch[t] = {} /\ timerBatch[t] = {} /\ \A u \in Threads : u # t => buried'[u] = buried[u]
        /\ UNCHANGED <<queue, table, batch, timerBatch, objectVars, call>>
    BY <1>7 DEF PassDone, TypeOK
  <2>2. Apart(x)
    BY <2>1 DEF Apart
  <2>3. QED
    BY <1>x, <2>2, ApartKeeps
<1>8. CASE DrainPass(t)
  <2>1. /\ \A u \in Threads : queue'[u] \subseteq queue[u] /\ batch'[u] \subseteq batch[u] \cup queue[u]
        /\ UNCHANGED <<table, timerBatch, buried, objectVars, call>>
    BY <1>8 DEF DrainPass, TakeDeletes, Deletes, TypeOK
  <2>2. Apart(x)
    BY <2>1 DEF Apart
  <2>3. QED
    BY <1>x, <2>2, ApartKeeps
<1>9. CASE LetGo(t)
  <2>1. /\ stage[t] = "drained" /\ Replace(t) /\ UNCHANGED <<batch, timerBatch, objectVars>>
        /\ \A u \in Threads : u # t => buried'[u] = buried[u]
    BY <1>9 DEF LetGo, TypeOK
  <2>2. batch[t] = {} /\ timerBatch[t] = {}
    BY <2>1 DEF Tidy, BatchOfPass, Standing, TimersOfPass
  <2>3. Apart(x)
    BY <2>1, <2>2, ReplaceApart
  <2>4. QED
    BY <1>x, <2>3, ApartKeeps
<1>10. QED
  BY <1>1, <1>2, <1>3, <1>4, <1>5, <1>6, <1>7, <1>8, <1>9 DEF Proceed

\* ... and how loops begin and end.
LEMMA SettledStep ==
  CustodyInv /\ TypeInv' /\ Shot /\ Standing /\ AllSettled /\ [Next]_vars => AllSettled'
<1> SUFFICES ASSUME TypeOK, TypeOK', HelpersAtHome, Tidy, Shot, Standing, AllSettled, [Next]_vars,
                    quiet', NEW x \in Objects
             PROVE  Settled(x)'
  BY DEF CustodyInv, TypeInv, AllSettled
<1> USE DEF threadVars, passVars, objectVars
<1>1. quiet' = quiet
  <2>1. ASSUME NEW t \in Threads, UserStep(t) PROVE quiet' = quiet
    BY <2>1 DEF UserStep, Start, Stop, Move, Emit, DeleteLater, Delete, SingleShotCall
  <2>2. ASSUME NEW t \in Threads, Proceed(t) PROVE quiet' = quiet
    <3>1. (ResolveRearm(t) \/ Post(t) \/ Register(t) \/ PassDone(t) \/ DrainPass(t) \/ LetGo(t))
            => quiet' = quiet
      BY DEF ResolveRearm, Post, Register, PassDone, DrainPass, LetGo
    <3>2. \A e : DispatchCall(t, e) \/ DispatchDelete(t, e) \/ DispatchArm(t, e) \/ DispatchRearm(t, e)
            => quiet' = quiet
      BY DEF DispatchCall, DispatchDelete, DispatchArm, DispatchRearm
    <3>3. \A o, i : SkipTimer(t, o, i) \/ RunFunctor(t, o, i) \/ (\E single \in BOOLEAN : Timeout(t, o, i, single))
                => quiet' = quiet
      BY DEF SkipTimer, RunFunctor, Timeout
    <3>4. QED
      BY <2>2, <3>1, <3>2, <3>3, Zenon DEF Proceed
  <2>3. ASSUME NEW t \in Threads, (\E expired \in SUBSET table[t] : TakePass(t, expired)) \/ ThreadStart(t)
                                    \/ Close(t) \/ ThreadDestroyed(t) PROVE quiet' = quiet
    BY <2>3 DEF TakePass, ThreadStart, Close, ThreadDestroyed
  <2>4. AppConstruct \/ UNCHANGED vars => quiet' = quiet
    BY DEF AppConstruct, vars
  <2>5. QED
    BY <2>1, <2>2, <2>3, <2>4 DEF Next
<1>2. quiet /\ \A o \in Objects : Settled(o)
  BY <1>1 DEF AllSettled
<1>3. ASSUME NEW t \in Threads,
             (\E expired \in SUBSET table[t] : TakePass(t, expired)) \/ ThreadStart(t) \/ Close(t)
               \/ ThreadDestroyed(t)
      PROVE  Apart(x)
  <2>1. /\ \A u \in Threads : /\ queue'[u] \subseteq queue[u] /\ batch'[u] \subseteq batch[u] \cup queue[u]
                              /\ timerBatch'[u] \subseteq timerBatch[u] \cup table[u]
        /\ UNCHANGED <<table, buried, objectVars, call>>
    <3>1. ASSUME NEW expired \in SUBSET table[t], TakePass(t, expired)
          PROVE  /\ \A u \in Threads : /\ queue'[u] \subseteq queue[u] /\ batch'[u] \subseteq batch[u] \cup queue[u]
                                       /\ timerBatch'[u] \subseteq timerBatch[u] \cup table[u]
                 /\ UNCHANGED <<table, buried, objectVars, call>>
      <4>1. \A u \in Threads : /\ u = t => queue'[u] = {} /\ batch'[u] = queue[u] /\ timerBatch'[u] = expired
                               /\ u # t => /\ queue'[u] = queue[u] /\ batch'[u] = batch[u]
                                           /\ timerBatch'[u] = timerBatch[u]
        BY <3>1 DEF TakePass, TypeOK
      <4>2. \A u \in Threads : queue'[u] \subseteq queue[u] /\ batch'[u] \subseteq batch[u] \cup queue[u]
        BY <4>1
      <4>3. \A u \in Threads : timerBatch'[u] \subseteq timerBatch[u] \cup table[u]
        BY <4>1
      <4>4. QED
        BY <3>1, <4>2, <4>3 DEF TakePass
    <3>2. CASE Close(t)
      BY <3>2 DEF Close, TakeDeletes, Deletes, TypeOK
    <3>3. CASE ThreadStart(t) \/ ThreadDestroyed(t)
      BY <3>3 DEF ThreadStart, ThreadDestroyed
    <3>4. QED
      BY <1>3, <3>1, <3>2, <3>3
  <2>2. QED
    BY <2>1 DEF Apart
<1>4. CASE AppConstruct
  <2>1. Main \in Threads /\ Replace(Main) /\ UNCHANGED <<passVars, objectVars>>
    BY <1>4 DEF AppConstruct, Threads
  <2>2. Apart(x)
    BY <2>1, ReplaceApart
  <2>3. QED
    BY <1>2, <2>2, ApartKeeps
<1>5. CASE UNCHANGED vars
  BY <1>2, <1>5, ApartKeeps DEF vars, Apart
<1>6. QED
  BY <1>2, <1>3, <1>4, <1>5, SettledUser, SettledProceed, ApartKeeps DEF Next

-----------------------------------------------------------------------------
(* The two properties.                                                     *)

LEMMA QuietInvariant == Safety => []QuietInv
<1>1. Init => Standing /\ AllSettled
  <2> SUFFICES ASSUME Init PROVE Standing /\ AllSettled
    OBVIOUS
  <2>1. \A t \in Threads : /\ queue[t] = {} /\ batch[t] = {} /\ table[t] = {} /\ timerBatch[t] = {}
                           /\ call[t].obj = Nowhere /\ call[t].at = "none"
    BY DEF Init, NoCall
  <2>2. Standing
    BY <2>1 DEF Standing, Emptied, Reaching, TimersOfPass
  <2>3. ASSUME NEW o \in Objects PROVE Settled(o)
    <3>1. o # Nowhere
      BY ThreadsAssumption
    <3>2. QED
      BY <2>1, <3>1 DEF Settled, QueuedHere, TakenHere, RegisteredHere, ExpiredHere, HandedHere,
                        Undeleted, Touching, DeleteIn
  <2>4. QED
    BY <2>2, <2>3 DEF AllSettled
<1>2. CustodyInv /\ CustodyInv' /\ Shot /\ Standing /\ AllSettled /\ [Next]_vars => Standing' /\ AllSettled'
  BY StandingStep, SettledStep DEF CustodyInv
<1>3. QED
  BY <1>1, <1>2, ShotInvariant, PTL DEF Safety, QuietInv

\* If objects are only moved when nothing about them is under way, every queued event, every
\* registered timer and every expired one of a live object is with the thread it lives on.
THEOREM EverythingIsServedAtHome == Safety => []ServedAtHome
<1>1. ASSUME TypeOK, Tidy, AllSettled PROVE ServedAtHome
  <2> SUFFICES ASSUME quiet, NEW t \in Threads
               PROVE  /\ \A e \in queue[t] \cup batch[t] : Alive(e.obj) => home[e.obj] = t
                      /\ \A r \in table[t] \cup timerBatch[t] : Alive(r[1]) => home[r[1]] = t
    BY DEF ServedAtHome
  <2>1. ASSUME NEW e \in queue[t] \cup batch[t], Alive(e.obj) PROVE home[e.obj] = t
    <3>1. e.obj \in Objects
      BY <1>1, Fields DEF TypeOK
    <3>2. QED
      BY <1>1, <2>1, <3>1 DEF AllSettled, Settled, QueuedHere, TakenHere
  <2>2. ASSUME NEW r \in table[t] \cup timerBatch[t], Alive(r[1]) PROVE home[r[1]] = t
    <3>1. PICK o \in Objects, i \in Ids : r = <<o, i>>
      BY <1>1 DEF TypeOK
    <3>2. Settled(o) /\ Alive(o) /\ \A u \in Threads : o \notin buried[u]
      BY <1>1, <2>2, <3>1 DEF AllSettled, Tidy, BuriedFreed, Alive
    <3>3. QED
      BY <3>1, <3>2 DEF Settled, RegisteredHere, ExpiredHere
  <2>3. QED
    BY <2>1, <2>2
<1>2. QED
  BY <1>1, QuietInvariant, PTL DEF QuietInv, CustodyInv, TypeInv

\* Under the same discipline what a loop or moveToThread() dereferences is alive: the receiver of
\* the next re-registration or deferred delete, of an expired timer, and the object just moved.
THEOREM OnlyTheLiveAreTouched == Safety => []TouchesLive
<1>1. ASSUME TypeOK, AllSettled PROVE TouchesLive
  <2> SUFFICES ASSUME quiet, NEW t \in Threads, NEW o \in Objects, Dereferences(t, o) PROVE Alive(o)
    BY DEF TouchesLive
  <2>0. Settled(o)
    BY <1>1 DEF AllSettled
  <2>1. CASE call[t].at = "moved" /\ call[t].obj = o
    BY <2>0, <2>1 DEF Settled, HandedHere, Touching
  <2>2. ASSUME o \notin buried[t], NEW e \in batch[t], e.obj = o, e.kind \in {"rearm", "delete"} PROVE Alive(o)
    BY <2>0, <2>2 DEF Settled, TakenHere
  <2>3. ASSUME o \notin buried[t], NEW i \in Ids, <<o, i>> \in timerBatch[t] PROVE Alive(o)
    BY <2>0, <2>3 DEF Settled, ExpiredHere
  <2>4. QED
    BY <2>1, <2>2, <2>3 DEF Dereferences
<1>2. QED
  BY <1>1, QuietInvariant, PTL DEF QuietInv, CustodyInv, TypeInv
=============================================================================
