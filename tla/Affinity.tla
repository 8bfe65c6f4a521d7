------------------------------- MODULE Affinity -------------------------------
(***************************************************************************)
(* Which thread's dispatcher serves which Object: moveToThread() and what  *)
(* it does to active timers, queued calls and deferred deletes that are    *)
(* under way, Timer and Timer::singleShot(), and the moments at which a    *)
(* thread gets, swaps or loses its dispatcher.                             *)
(*                                                                         *)
(* Several loops run at once. A step is a critical section of one          *)
(* dispatcher, a read or a store of one Affinity box, or the dispatch of   *)
(* one event; a call that finds another thread's dispatcher keeps its      *)
(* reference until it has posted. Locks, waiting and waking inside one     *)
(* dispatcher are the subject of EventDispatcher, the inside of ~Object()  *)
(* and of the life token that of ObjectLifetime. User code runs on a       *)
(* thread between any two events it dispatches: inside the slots of        *)
(* objects not in the model.                                               *)
(***************************************************************************)
EXTENDS Naturals

CONSTANTS Main,        \* the thread that constructs CoreApplication; adopted before
          Workers,     \* threads that Thread::start() runs
          Nowhere,     \* no thread affinity, no object
          Timers,      \* objects of class Timer, addresses not reused
          Helpers,     \* the objects Timer::singleShot() allocates
          Quiet,       \* the disciplines to explore: TRUE, only settled objects are moved
          MaxIds       \* bound on the timer ids handed out

Threads == Workers \cup {Main}
Objects == Timers \cup Helpers
Ids == 1..MaxIds

ASSUME ThreadsAssumption == /\ Main \notin Workers
                            /\ Nowhere \notin Threads \cup Objects
ASSUME ObjectsAssumption == Timers \cap Helpers = {}
ASSUME QuietAssumption == Quiet \subseteq BOOLEAN
ASSUME BoundsAssumption == MaxIds \in Nat

VARIABLES
  quiet,         \* the discipline of this behaviour
  app,           \* whether CoreApplication exists
  queue,         \* mEventQueue of the dispatcher each thread has
  table,         \* its mTimers, each an object and a timer id
  stage,         \* where each thread is; "off" and "gone" have no dispatcher
  batch,         \* eventsToProcess, or deferredDeletes while draining
  timerBatch,    \* timerEventsToProcess
  buried,        \* deletedReceivers of the pass or of the drain
  home,          \* each object's Affinity box
  state,         \* of each object
  timerId,       \* mTimerId or mId, 0 for -1 (a Timer is active iff it is not)
  deletePosted,  \* mDeleteLaterPosted
  call,          \* the dispatcher call each thread is inside
  nextId,        \* sNextTimerId
  shots,         \* history: how often it has emitted as a single shot since its last start
  lost           \* history: its registration went down with a dispatcher

threadVars == <<app, stage>>
passVars   == <<batch, timerBatch, buried>>
objectVars == <<home, state, timerId, deletePosted>>
vars == <<quiet, threadVars, queue, table, passVars, objectVars, call, nextId, shots, lost>>

Event == [seq : Nat, kind : {"call", "delete", "rearm", "arm"}, obj : Objects, ids : SUBSET Ids]
Stages == {"off", "idle", "dispatch", "drain", "drained", "gone"}

\* at: how far the call has come; to: the thread whose dispatcher it holds a reference to;
\* dropped: that thread has let go of it; kind, obj and ids: what is posted or registered.
NoCall == [at |-> "none", to |-> Nowhere, dropped |-> FALSE, kind |-> "call", obj |-> Nowhere, ids |-> {}]
Moved == [at : {"moved"}, to : {Nowhere}, dropped : {FALSE}, kind : {"call"}, obj : Objects, ids : SUBSET Ids]
Handing == [at : {"posting", "registering"}, to : Threads, dropped : BOOLEAN,
            kind : {"call", "delete", "rearm", "arm"}, obj : Objects, ids : SUBSET Ids]
Call == {NoCall} \cup Moved \cup Handing

TypeOK ==
  /\ quiet \in Quiet
  /\ app \in BOOLEAN
  /\ stage \in [Threads -> Stages]
  /\ queue \in [Threads -> SUBSET Event] /\ batch \in [Threads -> SUBSET Event]
  /\ table \in [Threads -> SUBSET (Objects \X Ids)]
  /\ timerBatch \in [Threads -> SUBSET (Objects \X Ids)]
  /\ buried \in [Threads -> SUBSET Objects]
  /\ home \in [Objects -> Threads \cup {Nowhere}]
  /\ state \in [Objects -> {"unborn", "alive", "freed"}]
  /\ timerId \in [Objects -> Ids \cup {0}]
  /\ deletePosted \in [Objects -> BOOLEAN]
  /\ call \in [Threads -> Call]
  /\ nextId \in Nat \ {0}
  /\ shots \in [Objects -> Nat] /\ lost \in [Objects -> BOOLEAN]

\* Main was adopted with a plain dispatcher when it created its first object.
Init ==
  /\ quiet \in Quiet
  /\ app = FALSE
  /\ stage = [t \in Threads |-> IF t = Main THEN "idle" ELSE "off"]
  /\ queue = [t \in Threads |-> {}] /\ batch = [t \in Threads |-> {}]
  /\ table = [t \in Threads |-> {}] /\ timerBatch = [t \in Threads |-> {}]
  /\ buried = [t \in Threads |-> {}]
  /\ home = [o \in Objects |-> Main]
  /\ state = [o \in Objects |-> IF o \in Timers THEN "alive" ELSE "unborn"]
  /\ timerId = [o \in Objects |-> 0]
  /\ deletePosted = [o \in Objects |-> FALSE]
  /\ call = [t \in Threads |-> NoCall]
  /\ nextId = 1
  /\ shots = [o \in Objects |-> 0] /\ lost = [o \in Objects |-> FALSE]

-----------------------------------------------------------------------------
UserCode(t) == call[t] = NoCall /\ stage[t] \in {"idle", "dispatch"}
Alive(o) == state[o] = "alive"

\* Object::thread(): null without an affinity and once the Thread has been destroyed.
Owner(o) == IF home[o] = Nowhere THEN Nowhere
            ELSE IF stage[home[o]] = "gone" THEN Nowhere ELSE home[o]

\* The thread o lives on has a dispatcher.
Served(o) == home[o] # Nowhere /\ stage[home[o]] \notin {"off", "gone"}

\* The registrations with these ids are gone.
Lose(ids) == lost' = [o \in Objects |-> lost[o] \/ timerId[o] \in ids]

IdsOf(o, t) == {i \in Ids : <<o, i>> \in table[t]}
Entries(o, ids) == {<<o, i>> : i \in ids}

\* Somebody besides o's own thread is to hand something to o, or is about to.
About(o) == \/ \E t \in Threads : call[t].obj = o
            \/ \E t \in Threads : \/ \E e \in queue[t] \cup batch[t] : e.obj = o
                                  \/ \E i \in Ids : <<o, i>> \in timerBatch[t]

Begin(t, c) == call' = [call EXCEPT ![t] = c]
Return(t) == Begin(t, NoCall)

\* postEvent(): n is the place behind everything in the queue.
Enqueue(u, kind, o, ids) ==
  \E n \in {0} \cup {e.seq + 1 : e \in queue[u]} :
    /\ \A e \in queue[u] : e.seq < n
    /\ queue' = [queue EXCEPT ![u] = @ \cup {[seq |-> n, kind |-> kind, obj |-> o, ids |-> ids]}]

\* t has found the dispatcher of the thread o lives on. Its own cannot go away before it has
\* posted; another thread's can.
Send(t, kind, o, ids) ==
  \/ /\ home[o] = t
     /\ Enqueue(t, kind, o, ids)
     /\ Return(t)
  \/ /\ home[o] # t
     /\ Begin(t, [at |-> "posting", to |-> home[o], dropped |-> FALSE,
                  kind |-> kind, obj |-> o, ids |-> ids])
     /\ UNCHANGED queue

-----------------------------------------------------------------------------
(* Timer::start() and stop(), on the timer's own thread.                   *)

\* killTimer() refuses on another thread than the object's.
KillTimer(t, o) == table' = [table EXCEPT ![t] = IF Owner(o) = t THEN @ \ {<<o, timerId[o]>>} ELSE @]

\* startTimer() takes the next id. start() stops the timer first.
StartTimer(t, o) ==
  /\ nextId <= MaxIds
  /\ nextId' = nextId + 1
  /\ timerId' = [timerId EXCEPT ![o] = nextId]
  /\ table' = [table EXCEPT ![t] = (@ \ {<<o, timerId[o]>>}) \cup {<<o, nextId>>}]
  /\ shots' = [shots EXCEPT ![o] = 0]
  /\ lost' = [lost EXCEPT ![o] = FALSE]

Start(t, o) ==
  /\ UserCode(t) /\ o \in Timers /\ Alive(o) /\ Owner(o) = t
  /\ StartTimer(t, o)
  /\ UNCHANGED <<quiet, threadVars, queue, passVars, home, state, deletePosted, call>>

Stop(t, o) ==
  /\ UserCode(t) /\ o \in Timers /\ Alive(o) /\ Owner(o) = t
  /\ timerId[o] # 0
  /\ KillTimer(t, o)
  /\ timerId' = [timerId EXCEPT ![o] = 0]
  /\ lost' = [lost EXCEPT ![o] = FALSE]
  /\ UNCHANGED <<quiet, threadVars, queue, passVars, home, state, deletePosted, call, nextId, shots>>

-----------------------------------------------------------------------------
(* moveToThread(): take the timers, store the affinity, queue their        *)
(* re-registration wherever the object lives by then.                      *)

\* Mutant: the timers are copied, not taken.
MoveCopies(t, o, to) ==
  /\ UserCode(t) /\ o \in Timers /\ Alive(o)
  /\ Owner(o) # to
  /\ to # Nowhere => stage[to] # "gone"
  /\ \/ Owner(o) = t
     \/ Owner(o) = Nowhere /\ to = t
  /\ quiet => ~About(o)
  /\ home' = [home EXCEPT ![o] = to]
  /\ LET ids == IF Served(o) THEN IdsOf(o, home[o]) ELSE {} IN
       \/ ids = {} /\ UNCHANGED call
       \/ ids # {} /\ Begin(t, [NoCall EXCEPT !.at = "moved", !.obj = o, !.ids = ids])
  /\ UNCHANGED <<quiet, threadVars, queue, table, passVars, state, timerId, deletePosted, nextId, shots, lost>>

\* Mutant: the timers stay registered where the object comes from.
MoveLeavesTimers(t, o, to) ==
  /\ UserCode(t) /\ o \in Timers /\ Alive(o)
  /\ Owner(o) # to
  /\ to # Nowhere => stage[to] # "gone"
  /\ \/ Owner(o) = t
     \/ Owner(o) = Nowhere /\ to = t
  /\ quiet => ~About(o)
  /\ home' = [home EXCEPT ![o] = to]
  /\ UNCHANGED <<quiet, threadVars, queue, table, passVars, state, timerId, deletePosted, call,
                 nextId, shots, lost>>

\* Up to setData(): until then nobody else can tell that the timers are already gone.
Move(t, o, to) ==
  /\ UserCode(t) /\ o \in Timers /\ Alive(o)
  /\ Owner(o) # to
  /\ to # Nowhere => stage[to] # "gone"
  /\ \/ Owner(o) = t
     \/ Owner(o) = Nowhere /\ to = t
  /\ quiet => ~About(o)
  /\ home' = [home EXCEPT ![o] = to]
  /\ LET ids == IF Served(o) THEN IdsOf(o, home[o]) ELSE {} IN
       /\ table' = [u \in Threads |-> IF u = home[o] THEN table[u] \ Entries(o, ids) ELSE table[u]]
       /\ \/ ids = {} /\ UNCHANGED call
          \/ ids # {} /\ Begin(t, [NoCall EXCEPT !.at = "moved", !.obj = o, !.ids = ids])
  /\ UNCHANGED <<quiet, threadVars, queue, passVars, state, timerId, deletePosted, nextId, shots, lost>>

\* dispatchMetaCall() reads the affinity again; without a dispatcher the timers are forgotten.
ResolveRearm(t) ==
  /\ call[t].at = "moved"
  /\ LET o == call[t].obj IN
       \/ /\ Served(o)
          /\ Send(t, "rearm", o, call[t].ids)
          /\ UNCHANGED lost
       \/ /\ ~Served(o)
          /\ Return(t)
          /\ Lose(call[t].ids)
          /\ UNCHANGED queue
  /\ UNCHANGED <<quiet, threadVars, table, passVars, objectVars, nextId, shots>>

-----------------------------------------------------------------------------
(* Posting to the dispatcher of the thread an object lives on.             *)

\* The bound on queued slots: one at a time for each object.
CallUnderWay(o) == \E t \in Threads :
  \/ call[t].obj = o /\ call[t].kind = "call"
  \/ \E e \in queue[t] \cup batch[t] : e.obj = o /\ e.kind = "call"

\* Mutant: the dispatcher is not tested for null.
EmitBlind(t, o) ==
  /\ UserCode(t) /\ o \in Timers /\ Alive(o)
  /\ ~CallUnderWay(o)
  /\ Send(t, "call", o, {})
  /\ UNCHANGED <<quiet, threadVars, table, passVars, objectVars, nextId, shots, lost>>

\* A queued slot: resolved through the Affinity box, dropped without a dispatcher.
Emit(t, o) ==
  /\ UserCode(t) /\ o \in Timers /\ Alive(o)
  /\ Served(o)
  /\ ~CallUnderWay(o)
  /\ Send(t, "call", o, {})
  /\ UNCHANGED <<quiet, threadVars, table, passVars, objectVars, nextId, shots, lost>>

\* Everything the home's dispatcher has of o goes with it: removeEventsForReceiver().
Destroy(o) ==
  /\ state' = [state EXCEPT ![o] = "freed"]
  /\ timerId' = [timerId EXCEPT ![o] = 0]
  /\ queue' = [u \in Threads |-> IF u = home[o] THEN {e \in queue[u] : e.obj # o} ELSE queue[u]]
  /\ table' = [u \in Threads |-> IF u = home[o] THEN {r \in table[u] : r[1] # o} ELSE table[u]]

\* deleteLater(): only the first call posts; without a dispatcher, delete this.
DeleteLater(t, o) ==
  /\ UserCode(t) /\ o \in Timers /\ Alive(o) /\ ~deletePosted[o]
  /\ quiet => ~\E u \in Threads : call[u].obj = o
  /\ deletePosted' = [deletePosted EXCEPT ![o] = TRUE]
  /\ \/ /\ Served(o)
        /\ Send(t, "delete", o, {})
        /\ UNCHANGED <<table, state, timerId>>
     \/ /\ ~Served(o)
        /\ Destroy(o)
        /\ UNCHANGED call
  /\ UNCHANGED <<quiet, threadVars, passVars, home, nextId, shots, lost>>

\* delete, on the object's own thread or once that thread has no loop any more. The caller
\* answers for nobody being inside a call on the object and for none of its events being
\* in the batch that its own thread dispatches.
Delete(t, o) ==
  /\ UserCode(t) /\ o \in Timers /\ Alive(o)
  /\ Owner(o) \in {t, Nowhere} \/ \E u \in Workers : home[o] = u /\ stage[u] = "off"
  /\ \A u \in Threads : call[u].obj # o
  /\ Owner(o) = t => /\ \A e \in batch[t] : e.obj # o
                     /\ \A r \in timerBatch[t] : r[1] # o
  /\ Destroy(o)
  /\ UNCHANGED <<quiet, threadVars, passVars, home, deletePosted, call, nextId, shots, lost>>

\* A dispatcher that its thread has let go of takes the event to its grave.
Post(t) ==
  /\ call[t].at = "posting"
  /\ LET c == call[t] IN
       \/ /\ ~c.dropped
          /\ Enqueue(c.to, c.kind, c.obj, c.ids)
          /\ UNCHANGED lost
       \/ /\ c.dropped
          /\ Lose(c.ids)
          /\ UNCHANGED queue
  /\ Return(t)
  /\ UNCHANGED <<quiet, threadVars, table, passVars, objectVars, nextId, shots>>

-----------------------------------------------------------------------------
(* Timer::singleShot( msec, context, functor ).                            *)

\* A helper made on the context's thread arms itself; otherwise it moves there, without
\* timers to take along, and callLater() asks it to.
SingleShotCall(t, h, context) ==
  /\ UserCode(t) /\ h \in Helpers /\ state[h] = "unborn"
  /\ context \in Timers /\ Alive(context)
  /\ state' = [state EXCEPT ![h] = "alive"]
  /\ home' = [home EXCEPT ![h] = Owner(context)]
  /\ \/ /\ Owner(context) = t
        /\ StartTimer(t, h)
        /\ UNCHANGED call
     \/ /\ Owner(context) \notin {t, Nowhere} /\ Served(context)
        /\ Begin(t, [at |-> "posting", to |-> home[context], dropped |-> FALSE,
                     kind |-> "arm", obj |-> h, ids |-> {}])
        /\ UNCHANGED <<table, timerId, nextId, shots, lost>>
     \/ /\ Owner(context) = Nowhere \/ ~Served(context)
        /\ UNCHANGED <<table, timerId, nextId, call, shots, lost>>
  /\ UNCHANGED <<quiet, threadVars, queue, passVars, deletePosted>>

-----------------------------------------------------------------------------
(* The loops.                                                              *)

\* The critical section of processEvents(): any of the timers may have expired.
TakePass(t, expired) ==
  /\ stage[t] = "idle" /\ call[t] = NoCall
  /\ queue[t] # {} \/ expired # {}
  /\ batch' = [batch EXCEPT ![t] = queue[t]]
  /\ queue' = [queue EXCEPT ![t] = {}]
  /\ timerBatch' = [timerBatch EXCEPT ![t] = expired]
  /\ stage' = [stage EXCEPT ![t] = "dispatch"]
  /\ UNCHANGED <<quiet, app, table, buried, objectVars, call, nextId, shots, lost>>

\* Nothing of the batch comes before e, and the thread is not inside another call.
IsNext(t, e) == /\ stage[t] \in {"dispatch", "drain"} /\ call[t] = NoCall
                /\ e \in batch[t] /\ \A f \in batch[t] : e.seq <= f.seq

Consume(t, e) == batch' = [batch EXCEPT ![t] = @ \ {e}]

\* A receiver this pass has deleted, or a queued slot, whose body is user code.
DispatchCall(t, e) ==
  /\ IsNext(t, e)
  /\ e.obj \in buried[t] \/ e.kind = "call"
  /\ Consume(t, e)
  /\ UNCHANGED <<quiet, threadVars, queue, table, timerBatch, buried, objectVars, call, nextId, shots, lost>>

\* Mutant: the pass does not remember whom it has deleted.
DispatchDeleteForgets(t, e) ==
  /\ IsNext(t, e) /\ e.obj \notin buried[t] /\ e.kind = "delete"
  /\ Consume(t, e)
  /\ Destroy(e.obj)
  /\ UNCHANGED <<quiet, threadVars, timerBatch, buried, home, deletePosted, call, nextId, shots, lost>>

DispatchDelete(t, e) ==
  /\ IsNext(t, e) /\ e.obj \notin buried[t] /\ e.kind = "delete"
  /\ Consume(t, e)
  /\ Destroy(e.obj)
  /\ buried' = [buried EXCEPT ![t] = @ \cup {e.obj}]
  /\ UNCHANGED <<quiet, threadVars, timerBatch, home, deletePosted, call, nextId, shots, lost>>

\* SingleShotContextHelper::arm().
DispatchArm(t, e) ==
  /\ IsNext(t, e) /\ e.obj \notin buried[t] /\ e.kind = "arm"
  /\ Consume(t, e)
  /\ StartTimer(t, e.obj)
  /\ UNCHANGED <<quiet, threadVars, queue, timerBatch, buried, home, state, deletePosted, call>>

\* The lambda moveToThread() queued: it looks the object's dispatcher up once more. At home
\* it registers the timers there and then ...
DispatchRearm(t, e) ==
  /\ IsNext(t, e) /\ e.obj \notin buried[t] /\ e.kind = "rearm"
  /\ Consume(t, e)
  /\ \/ /\ home[e.obj] = t
        /\ table' = [table EXCEPT ![t] = @ \cup Entries(e.obj, e.ids)]
        /\ UNCHANGED <<call, lost>>
     \/ /\ home[e.obj] # t /\ Served(e.obj)
        /\ Begin(t, [at |-> "registering", to |-> home[e.obj], dropped |-> FALSE,
                     kind |-> "rearm", obj |-> e.obj, ids |-> e.ids])
        /\ UNCHANGED <<table, lost>>
     \/ /\ ~Served(e.obj)
        /\ Lose(e.ids)
        /\ UNCHANGED <<table, call>>
  /\ UNCHANGED <<quiet, threadVars, queue, timerBatch, buried, objectVars, nextId, shots>>

\* ... and elsewhere with the dispatcher it found, whatever has become of it.
Register(t) ==
  /\ call[t].at = "registering"
  /\ LET c == call[t] IN
       \/ /\ ~c.dropped
          /\ table' = [table EXCEPT ![c.to] = @ \cup Entries(c.obj, c.ids)]
          /\ UNCHANGED lost
       \/ /\ c.dropped
          /\ Lose(c.ids)
          /\ UNCHANGED table
  /\ Return(t)
  /\ UNCHANGED <<quiet, threadVars, queue, passVars, objectVars, nextId, shots>>

NextTimer(t, o, i) == /\ stage[t] = "dispatch" /\ call[t] = NoCall /\ batch[t] = {}
                      /\ <<o, i>> \in timerBatch[t]
                      /\ timerBatch' = [timerBatch EXCEPT ![t] = @ \ {<<o, i>>}]

\* The receiver was deleted by this pass, or it no longer knows the id.
SkipTimer(t, o, i) ==
  /\ NextTimer(t, o, i)
  /\ o \in buried[t] \/ timerId[o] # i
  /\ UNCHANGED <<quiet, threadVars, queue, table, batch, buried, objectVars, call, nextId, shots, lost>>

\* Timer::timerEvent(). setSingleShot() may have been called with either value at any time; a
\* single shot stops itself before it emits timeout.
Timeout(t, o, i, singleShot) ==
  /\ NextTimer(t, o, i)
  /\ o \notin buried[t] /\ timerId[o] = i /\ o \in Timers
  /\ \/ /\ singleShot
        /\ KillTimer(t, o)
        /\ timerId' = [timerId EXCEPT ![o] = 0]
        /\ shots' = [shots EXCEPT ![o] = @ + 1]
     \/ /\ ~singleShot
        /\ UNCHANGED <<table, timerId, shots>>
  /\ UNCHANGED <<quiet, threadVars, queue, batch, buried, home, state, deletePosted, call,
                 nextId, lost>>

\* Mutant: the helper stays.
RunFunctorStays(t, h, i) ==
  /\ NextTimer(t, h, i)
  /\ h \notin buried[t] /\ timerId[h] = i /\ h \in Helpers
  /\ shots' = [shots EXCEPT ![h] = @ + 1]
  /\ UNCHANGED <<quiet, threadVars, queue, table, batch, buried, objectVars, call, nextId, lost>>

\* The helper runs the functor and calls deleteLater() on itself.
RunFunctor(t, h, i) ==
  /\ NextTimer(t, h, i)
  /\ h \notin buried[t] /\ timerId[h] = i /\ h \in Helpers
  /\ shots' = [shots EXCEPT ![h] = @ + 1]
  /\ deletePosted' = [deletePosted EXCEPT ![h] = TRUE]
  /\ IF deletePosted[h] THEN UNCHANGED <<queue, call>> ELSE Send(t, "delete", h, {})
  /\ UNCHANGED <<quiet, threadVars, table, batch, buried, home, state, timerId, nextId, lost>>

PassDone(t) ==
  /\ stage[t] = "dispatch" /\ call[t] = NoCall
  /\ batch[t] = {} /\ timerBatch[t] = {}
  /\ stage' = [stage EXCEPT ![t] = "idle"]
  /\ buried' = [buried EXCEPT ![t] = {}]
  /\ UNCHANGED <<quiet, app, queue, table, batch, timerBatch, objectVars, call, nextId, shots, lost>>

-----------------------------------------------------------------------------
(* Dispatchers come and go.                                                *)

\* Ids that are registered with t's dispatcher or about to be, in its queue.
Aboard(t) == {i \in Ids : \/ \E o \in Objects : <<o, i>> \in table[t]
                          \/ \E e \in queue[t] : i \in e.ids}

\* setDispatcher(): nothing is carried over from the dispatcher it replaces, which lives on
\* for as long as somebody is inside a call to it.
Replace(t) ==
  /\ queue' = [queue EXCEPT ![t] = {}]
  /\ table' = [table EXCEPT ![t] = {}]
  /\ Lose(Aboard(t))
  /\ call' = [u \in Threads |-> IF call[u].to = t THEN [call[u] EXCEPT !.dropped = TRUE] ELSE call[u]]

ThreadStart(t) ==
  /\ t \in Workers /\ stage[t] = "off"
  /\ stage' = [stage EXCEPT ![t] = "idle"]
  /\ UNCHANGED <<quiet, app, queue, table, passVars, objectVars, call, nextId, shots, lost>>

\* CoreApplication's constructor, on a thread adopted before it.
AppConstruct ==
  /\ UserCode(Main) /\ ~app
  /\ app' = TRUE
  /\ Replace(Main)
  /\ UNCHANGED <<quiet, stage, passVars, objectVars, nextId, shots>>

Deletes(t) == {e \in queue[t] : e.kind = "delete"}

TakeDeletes(t) ==
  /\ queue' = [queue EXCEPT ![t] = @ \ Deletes(t)]
  /\ batch' = [batch EXCEPT ![t] = Deletes(t)]

\* The loop has ended: run() has returned, or ~CoreApplication() is entered.
Close(t) ==
  /\ stage[t] = "idle" /\ call[t] = NoCall
  /\ t = Main => app
  /\ TakeDeletes(t)
  /\ stage' = [stage EXCEPT ![t] = "drain"]
  /\ UNCHANGED <<quiet, app, table, timerBatch, buried, objectVars, call, nextId, shots, lost>>

\* processDeferredDeletes() looks again until it finds none.
DrainPass(t) ==
  /\ stage[t] = "drain" /\ batch[t] = {} /\ call[t] = NoCall
  /\ TakeDeletes(t)
  /\ stage' = [stage EXCEPT ![t] = IF Deletes(t) = {} THEN "drained" ELSE "drain"]
  /\ UNCHANGED <<quiet, app, table, timerBatch, buried, objectVars, call, nextId, shots, lost>>

\* A worker is left without a dispatcher, the main thread with a plain one.
LetGo(t) ==
  /\ stage[t] = "drained"
  /\ Replace(t)
  /\ \/ /\ t \in Workers
        /\ stage' = [stage EXCEPT ![t] = "off"]
        /\ UNCHANGED app
     \/ /\ t = Main
        /\ stage' = [stage EXCEPT ![t] = "idle"]
        /\ app' = FALSE
  /\ buried' = [buried EXCEPT ![t] = {}]
  /\ UNCHANGED <<quiet, batch, timerBatch, objectVars, nextId, shots>>

\* ~Thread() of a worker that is not running: thread() is null for what still lives there.
ThreadDestroyed(t) ==
  /\ t \in Workers /\ stage[t] = "off"
  /\ stage' = [stage EXCEPT ![t] = "gone"]
  /\ UNCHANGED <<quiet, app, queue, table, passVars, objectVars, call, nextId, shots, lost>>

-----------------------------------------------------------------------------
UserStep(t) ==
  \E o \in Objects : \/ Start(t, o) \/ Stop(t, o)
                     \/ \E to \in Threads \cup {Nowhere} : Move(t, o, to)
                     \/ Emit(t, o) \/ DeleteLater(t, o) \/ Delete(t, o)
                     \/ \E context \in Timers : SingleShotCall(t, o, context)

\* A call that has begun runs to its end, a pass and a drain too.
Proceed(t) == \/ ResolveRearm(t) \/ Post(t) \/ Register(t)
              \/ \E e \in batch[t] : \/ DispatchCall(t, e) \/ DispatchDelete(t, e)
                                     \/ DispatchArm(t, e) \/ DispatchRearm(t, e)
              \/ \E o \in Objects, i \in Ids :
                   \/ SkipTimer(t, o, i) \/ RunFunctor(t, o, i)
                   \/ \E singleShot \in BOOLEAN : Timeout(t, o, i, singleShot)
              \/ PassDone(t) \/ DrainPass(t) \/ LetGo(t)

Next == \/ \E t \in Threads : \/ UserStep(t) \/ Proceed(t)
                              \/ \E expired \in SUBSET table[t] : TakePass(t, expired)
                              \/ ThreadStart(t) \/ Close(t) \/ ThreadDestroyed(t)
        \/ AppConstruct

Safety == Init /\ [][Next]_vars

-----------------------------------------------------------------------------
(* Properties.                                                             *)

\* Where a timer id can be: registered with a thread's dispatcher, in a re-registration that
\* is queued there or in its batch, or in the hands of the thread.
Places == {"table", "queue", "batch", "hand"}
Carries(t, place, i) ==
  \/ place = "table" /\ \E o \in Objects : <<o, i>> \in table[t]
  \/ place = "queue" /\ \E e \in queue[t] : i \in e.ids
  \/ place = "batch" /\ \E e \in batch[t] : i \in e.ids
  \/ place = "hand"  /\ i \in call[t].ids
Copies(i) == {l \in Threads \X Places : Carries(l[1], l[2], i)}

\* However moves, re-registrations and starts and stops of loops interleave, the timer of a
\* live active object is in exactly one place, unless it was lost with a dispatcher: it is
\* neither dropped by moveToThread() nor registered with two loops.
OneCopy == \A o \in Objects :
  Alive(o) /\ timerId[o] # 0 => /\ ~lost[o] => Copies(timerId[o]) # {}
                                /\ \A k, l \in Copies(timerId[o]) : k = l

\* A single shot, Timer or helper, is the last emission for the start() or arm() that led to
\* it, although the expired timer may be in several batches, of several threads, before it
\* has stopped itself or been deleted.
ShotOnce == \A o \in Objects : shots[o] <= 1

\* What dereferences its receiver finds it alive, if objects are only moved when nothing
\* about them is under way: the re-registration, deferred deletes and timerEvent(), and
\* moveToThread() itself after it has given the object away.
Dereferences(t, o) ==
  \/ call[t].at = "moved" /\ call[t].obj = o
  \/ /\ stage[t] \in {"dispatch", "drain"} /\ call[t] = NoCall /\ o \notin buried[t]
     /\ \/ \E e \in batch[t] : IsNext(t, e) /\ e.obj = o /\ e.kind \in {"rearm", "delete"}
        \/ stage[t] = "dispatch" /\ batch[t] = {} /\ \E i \in Ids : <<o, i>> \in timerBatch[t]
TouchesLive == quiet => \A t \in Threads, o \in Objects : Dereferences(t, o) => Alive(o)

\* What moveToThread() says of its queued re-registration, of any move: if the object is
\* destroyed first, ~Object() strips it, so that it is dropped rather than dangling.
RearmNeverDangles == \A t \in Threads : \A e \in batch[t] :
  IsNext(t, e) /\ e.kind = "rearm" /\ e.obj \notin buried[t] => Alive(e.obj)

\* Under the same discipline everything is handed over on the thread the object lives on.
ServedAtHome == quiet => \A t \in Threads :
  /\ \A e \in queue[t] \cup batch[t] : Alive(e.obj) => home[e.obj] = t
  /\ \A r \in table[t] \cup timerBatch[t] : Alive(r[1]) => home[r[1]] = t
=============================================================================
