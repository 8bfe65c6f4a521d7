---------------------------- MODULE ObjectLifetime ----------------------------
(***************************************************************************)
(* The life of the Objects that live on one thread: queued calls posted by *)
(* connect() wrappers, timer events, deleteLater(), ~Object() and the      *)
(* drain of the deferred deletes when the thread's loop has stopped.       *)
(*                                                                         *)
(* Loop is the thread the objects live on; it runs exec() and then the end *)
(* of Thread::threadBody(). Clients are other threads: they emit signals   *)
(* connected to the objects and call deleteLater(). Waking, interrupting   *)
(* and first-in first-out order are EventDispatcher's subject; here a pass *)
(* simply takes everything there is. The queue is a set of numbered events *)
(* (seq is the order of posting), so that stripping a receiver is a set    *)
(* difference.                                                             *)
(***************************************************************************)
EXTENDS Naturals, Sequences

CONSTANTS Objects,        \* addresses of Objects that live on Loop, not reused
          Clients,        \* threads other than Loop
          Loop,           \* the thread the objects live on
          NoObject,       \* no slot is running
          ClientsEmit,    \* whether Clients emit signals connected to Objects
          DirectDeletes,  \* whether slots on Loop use delete instead of deleteLater()
          MaxCalls        \* bound on the wrapper invocations

Threads == Clients \cup {Loop}

ASSUME ThreadsAssumption == Loop \notin Clients /\ NoObject \notin Objects
ASSUME ChoicesAssumption == ClientsEmit \in BOOLEAN /\ DirectDeletes \in BOOLEAN
ASSUME MaxCallsAssumption == MaxCalls \in Nat

VARIABLES
  queue,         \* the dispatcher's mEventQueue
  posts,         \* events posted so far: the number of the next one
  timers,        \* objects with a timer registered in the dispatcher
  dispatcher,    \* whether the thread's ThreadData still has its dispatcher
  loop,          \* where Loop is
  batch,         \* eventsToProcess, or deferredDeletes while draining
  timerBatch,    \* receivers of timerEventsToProcess
  deleted,       \* deletedReceivers of the pass or of the drain
  slotOf,        \* the object whose slot or timerEvent() is running
  phase,         \* "alive", "destroying" (inside ~Object()), "freed"
  life,          \* mLife has not been reset
  deletePosted,  \* mDeleteLaterPosted
  nest,          \* objects whose ~Object() a thread is inside, innermost first
  pc, arg,       \* where a thread is inside emit or deleteLater(), and on which object
  calls,         \* wrapper invocations so far
  deaths,        \* history: times ~Object() was entered
  owed           \* history: objects whose deferred delete was queued in time

queueVars == <<queue, posts, timers, dispatcher>>
loopVars  == <<loop, batch, timerBatch, deleted, slotOf>>
objVars   == <<phase, life, deaths, nest>>
callVars  == <<pc, arg, calls>>
vars == <<queueVars, loopVars, objVars, callVars, deletePosted, owed>>

Event == [seq : Nat, kind : {"call", "delete"}, obj : Objects]
LoopStates == {"starting", "pass", "dispatch", "slot", "timerSlot", "stopping",
               "drain", "draining", "drained", "finished"}
Holding  == {"locked", "queueing", "posted"}
Deleting == {"deleting", "deletePosting"}

TypeOK ==
  /\ queue \in SUBSET Event /\ batch \in SUBSET Event /\ posts \in Nat
  /\ timers \in SUBSET Objects /\ timerBatch \in SUBSET Objects
  /\ deleted \in SUBSET Objects /\ owed \in SUBSET Objects
  /\ dispatcher \in BOOLEAN
  /\ loop \in LoopStates
  /\ slotOf \in Objects \cup {NoObject}
  /\ phase \in [Objects -> {"alive", "destroying", "freed"}]
  /\ life \in [Objects -> BOOLEAN] /\ deletePosted \in [Objects -> BOOLEAN]
  /\ deaths \in [Objects -> Nat]
  /\ nest \in [Threads -> Seq(Objects)]
  /\ pc \in [Threads -> {"idle"} \cup Holding \cup Deleting]
  /\ arg \in [Threads -> Objects \cup {NoObject}]
  /\ calls \in 0..MaxCalls

Init ==
  /\ queue = {} /\ batch = {} /\ posts = 0
  /\ timers = {} /\ timerBatch = {} /\ deleted = {} /\ owed = {}
  /\ dispatcher = TRUE /\ loop = "starting" /\ slotOf = NoObject
  /\ phase = [o \in Objects |-> "alive"]
  /\ life = [o \in Objects |-> TRUE]
  /\ deletePosted = [o \in Objects |-> FALSE]
  /\ deaths = [o \in Objects |-> 0]
  /\ nest = [t \in Threads |-> <<>>]
  /\ pc = [t \in Threads |-> "idle"] /\ arg = [t \in Threads |-> NoObject]
  /\ calls = 0

\* weakLife.lock() succeeds: the object, a wrapper or a running slot has the token.
TokenHeld(o) == \/ life[o]
                \/ loop = "slot" /\ slotOf = o
                \/ \E t \in Threads : pc[t] \in Holding /\ arg[t] = o

\* User code: clients at any time, Loop inside a slot (of started and finished too), either
\* of them inside a cleanup callback.
RunsUserCode(t) ==
  /\ pc[t] = "idle"
  /\ t = Loop => loop \in {"starting", "slot", "timerSlot", "stopping"} \/ nest[t] # <<>>

Goto(t, at, o) == pc' = [pc EXCEPT ![t] = at] /\ arg' = [arg EXCEPT ![t] = o]
Return(t) == Goto(t, "idle", NoObject)

-----------------------------------------------------------------------------
(* ~Object().                                                              *)

\* Up to and including the cleanup callbacks, which are user code: mLife is reset first.
BeginDestroy(t, o) ==
  /\ phase' = [phase EXCEPT ![o] = "destroying"]
  /\ life' = [life EXCEPT ![o] = FALSE]
  /\ deaths' = [deaths EXCEPT ![o] = @ + 1]
  /\ nest' = [nest EXCEPT ![t] = <<o>> \o @]

\* The end: removeEventsForReceiver() on the thread's dispatcher, if it still has one.
FinishDestroy(t) ==
  /\ pc[t] = "idle" /\ nest[t] # <<>>
  /\ LET o == Head(nest[t]) IN
       /\ queue' = IF dispatcher THEN {e \in queue : e.obj # o} ELSE queue
       /\ timers' = IF dispatcher THEN timers \ {o} ELSE timers
       /\ phase' = [phase EXCEPT ![o] = "freed"]
  /\ nest' = [nest EXCEPT ![t] = Tail(@)]
  /\ UNCHANGED <<posts, dispatcher, loopVars, life, deaths, callVars, deletePosted, owed>>

\* delete from a slot on the object's own thread, or from any thread once the loop has
\* finished. The caller answers for nobody else being inside a call on the object.
DirectDelete(t, o) ==
  /\ RunsUserCode(t)
  /\ \/ loop = "finished" /\ t \in Clients
     \/ DirectDeletes /\ t = Loop
  /\ phase[o] = "alive"
  /\ \A u \in Threads : ~(pc[u] \in Deleting /\ arg[u] = o)
  /\ BeginDestroy(t, o)
  /\ UNCHANGED <<queueVars, loopVars, callVars, deletePosted, owed>>

-----------------------------------------------------------------------------
(* A queued connection's wrapper: lock the token, resolve the dispatcher   *)
(* through the Affinity box, post, and only then let the token go.         *)

Lock(t, o) ==
  /\ RunsUserCode(t) /\ calls < MaxCalls
  /\ t \in Clients => ClientsEmit
  /\ TokenHeld(o)
  /\ calls' = calls + 1
  /\ Goto(t, "locked", o)
  /\ UNCHANGED <<queueVars, loopVars, objVars, deletePosted, owed>>

\* Mutant: the receiver is not handed on as the queue key.
ResolveNull(t) ==
  /\ pc[t] = "locked"
  /\ Goto(t, IF dispatcher THEN "queueing" ELSE "posted", NoObject)
  /\ UNCHANGED <<queueVars, loopVars, objVars, calls, deletePosted, owed>>

\* Without a dispatcher the call is dropped.
Resolve(t) ==
  /\ pc[t] = "locked"
  /\ Goto(t, IF dispatcher THEN "queueing" ELSE "posted", arg[t])
  /\ UNCHANGED <<queueVars, loopVars, objVars, calls, deletePosted, owed>>

\* postEvent(). A dispatcher its thread has dropped meanwhile takes the event and never
\* delivers it: it is destroyed with the caller's reference.
Push(kind, o) ==
  /\ queue' = IF dispatcher THEN queue \cup {[seq |-> posts, kind |-> kind, obj |-> o]} ELSE queue
  /\ posts' = posts + 1
  /\ UNCHANGED <<timers, dispatcher>>

PostCall(t) ==
  /\ pc[t] = "queueing"
  /\ Push("call", arg[t])
  /\ Goto(t, "posted", arg[t])
  /\ UNCHANGED <<loopVars, objVars, calls, deletePosted, owed>>

Unlock(t) ==
  /\ pc[t] = "posted"
  /\ Return(t)
  /\ UNCHANGED <<queueVars, loopVars, objVars, calls, deletePosted, owed>>

-----------------------------------------------------------------------------
(* deleteLater().                                                          *)

\* Mutant: the exchange is gone, every call posts.
DeleteLaterTwice(t, o) ==
  /\ RunsUserCode(t)
  /\ phase[o] = "alive"
  /\ deletePosted' = [deletePosted EXCEPT ![o] = TRUE]
  /\ Goto(t, "deleting", o)
  /\ UNCHANGED <<queueVars, loopVars, objVars, calls, owed>>

\* mDeleteLaterPosted.exchange( true ): only the first caller goes on. The caller answers
\* for the object being alive when it makes the call.
DeleteLater(t, o) ==
  /\ RunsUserCode(t)
  /\ phase[o] = "alive" /\ ~deletePosted[o]
  /\ deletePosted' = [deletePosted EXCEPT ![o] = TRUE]
  /\ Goto(t, "deleting", o)
  /\ UNCHANGED <<queueVars, loopVars, objVars, calls, owed>>

\* With a dispatcher the event will be posted to it; without one, delete this.
ResolveDelete(t) ==
  /\ pc[t] = "deleting"
  /\ \/ /\ dispatcher
        /\ Goto(t, "deletePosting", arg[t])
        /\ UNCHANGED objVars
     \/ /\ ~dispatcher
        /\ BeginDestroy(t, arg[t])
        /\ Return(t)
  /\ UNCHANGED <<queueVars, loopVars, calls, deletePosted, owed>>

\* A loop that has not taken its last look at the queue owes what is queued in it.
StillLooks == loop \notin {"drained", "finished"}

PostDelete(t) ==
  /\ pc[t] = "deletePosting"
  /\ Push("delete", arg[t])
  /\ owed' = IF StillLooks THEN owed \cup {arg[t]} ELSE owed
  /\ Return(t)
  /\ UNCHANGED <<loopVars, objVars, calls, deletePosted>>

-----------------------------------------------------------------------------
(* startTimer() and killTimer(), on the object's own thread.               *)

StartTimer(o) ==
  /\ RunsUserCode(Loop)
  /\ phase[o] = "alive" /\ o \notin timers /\ dispatcher
  /\ timers' = timers \cup {o}
  /\ UNCHANGED <<queue, posts, dispatcher, loopVars, objVars, callVars, deletePosted, owed>>

KillTimer(o) ==
  /\ RunsUserCode(Loop)
  /\ phase[o] = "alive" /\ o \in timers /\ dispatcher
  /\ timers' = timers \ {o}
  /\ UNCHANGED <<queue, posts, dispatcher, loopVars, objVars, callVars, deletePosted, owed>>

-----------------------------------------------------------------------------
(* threadBody() on Loop: started, exec() and its passes, finished.         *)

LoopReady == pc[Loop] = "idle" /\ nest[Loop] = <<>>

Started ==
  /\ loop = "starting" /\ LoopReady
  /\ loop' = "pass"
  /\ UNCHANGED <<queueVars, batch, timerBatch, deleted, slotOf, objVars, callVars, deletePosted, owed>>

\* The critical section: the expired timers are collected, the queue is emptied.
Take(expired) ==
  /\ loop = "pass"
  /\ queue # {} \/ expired # {}
  /\ batch' = queue /\ queue' = {}
  /\ timerBatch' = expired
  /\ deleted' = {}
  /\ loop' = "dispatch"
  /\ UNCHANGED <<posts, timers, dispatcher, slotOf, objVars, callVars, deletePosted, owed>>

\* e is the next event of the batch.
IsNext(e) == e \in batch /\ \A f \in batch : e.seq <= f.seq

\* An event for a receiver this pass has already deleted is freed unseen.
SkipEvent(e) ==
  /\ loop = "dispatch" /\ LoopReady
  /\ IsNext(e) /\ e.obj \in deleted
  /\ batch' = batch \ {e}
  /\ UNCHANGED <<queueVars, loop, timerBatch, deleted, slotOf, objVars, callVars, deletePosted, owed>>

\* Mutant: the receiver is not recorded.
DispatchDeleteForgets(e) ==
  /\ loop = "dispatch" /\ LoopReady
  /\ IsNext(e) /\ e.kind = "delete" /\ e.obj \notin deleted
  /\ batch' = batch \ {e}
  /\ BeginDestroy(Loop, e.obj)
  /\ UNCHANGED <<queueVars, loop, timerBatch, deleted, slotOf, callVars, deletePosted, owed>>

\* event() of a DeferredDelete: delete this, and the receiver is remembered.
DispatchDelete(e) ==
  /\ loop = "dispatch" /\ LoopReady
  /\ IsNext(e) /\ e.kind = "delete" /\ e.obj \notin deleted
  /\ batch' = batch \ {e}
  /\ deleted' = deleted \cup {e.obj}
  /\ BeginDestroy(Loop, e.obj)
  /\ UNCHANGED <<queueVars, loop, timerBatch, slotOf, callVars, deletePosted, owed>>

\* event() of a MetaCall: boundSlot locks the token again and only then calls the slot.
DispatchCall(e) ==
  /\ loop = "dispatch" /\ LoopReady
  /\ IsNext(e) /\ e.kind = "call" /\ e.obj \notin deleted
  /\ batch' = batch \ {e}
  /\ \/ TokenHeld(e.obj) /\ loop' = "slot" /\ slotOf' = e.obj
     \/ ~TokenHeld(e.obj) /\ UNCHANGED <<loop, slotOf>>
  /\ UNCHANGED <<queueVars, timerBatch, deleted, objVars, callVars, deletePosted, owed>>

\* Timer events come after the queued ones and are skipped the same way.
DispatchTimer(o) ==
  /\ loop = "dispatch" /\ LoopReady
  /\ batch = {} /\ o \in timerBatch
  /\ timerBatch' = timerBatch \ {o}
  /\ \/ o \in deleted /\ UNCHANGED <<loop, slotOf>>
     \/ o \notin deleted /\ loop' = "timerSlot" /\ slotOf' = o
  /\ UNCHANGED <<queueVars, batch, deleted, objVars, callVars, deletePosted, owed>>

SlotReturns ==
  /\ loop \in {"slot", "timerSlot"} /\ LoopReady
  /\ loop' = "dispatch" /\ slotOf' = NoObject
  /\ UNCHANGED <<queueVars, batch, timerBatch, deleted, objVars, callVars, deletePosted, owed>>

PassDone ==
  /\ loop = "dispatch" /\ LoopReady
  /\ batch = {} /\ timerBatch = {}
  /\ loop' = "pass"
  /\ UNCHANGED <<queueVars, batch, timerBatch, deleted, slotOf, objVars, callVars, deletePosted, owed>>

-----------------------------------------------------------------------------
(* The end of threadBody().                                                *)

ExecReturns ==
  /\ loop = "pass"
  /\ loop' = "stopping"
  /\ UNCHANGED <<queueVars, batch, timerBatch, deleted, slotOf, objVars, callVars, deletePosted, owed>>

\* The slots of finished have run.
Stopped ==
  /\ loop = "stopping" /\ LoopReady
  /\ loop' = "drain" /\ deleted' = {}
  /\ UNCHANGED <<queueVars, batch, timerBatch, slotOf, objVars, callVars, deletePosted, owed>>

Deletes == {e \in queue : e.kind = "delete"}

\* Mutant: one pass over the queue and no more.
DrainOnce ==
  /\ loop = "drain"
  /\ queue' = queue \ Deletes
  /\ batch' = Deletes
  /\ loop' = IF Deletes = {} \/ deleted # {} THEN "drained" ELSE "draining"
  /\ UNCHANGED <<posts, timers, dispatcher, timerBatch, deleted, slotOf, objVars, callVars,
                 deletePosted, owed>>

\* processDeferredDeletes(): take the deferred deletes out of the queue until there are none.
Drain ==
  /\ loop = "drain"
  /\ queue' = queue \ Deletes
  /\ batch' = Deletes
  /\ loop' = IF Deletes = {} THEN "drained" ELSE "draining"
  /\ UNCHANGED <<posts, timers, dispatcher, timerBatch, deleted, slotOf, objVars, callVars,
                 deletePosted, owed>>

DrainDelete(e) ==
  /\ loop = "draining" /\ LoopReady
  /\ IsNext(e)
  /\ batch' = batch \ {e}
  /\ deleted' = deleted \cup {e.obj}
  /\ \/ e.obj \notin deleted /\ BeginDestroy(Loop, e.obj)
     \/ e.obj \in deleted /\ UNCHANGED objVars
  /\ UNCHANGED <<queueVars, loop, timerBatch, slotOf, callVars, deletePosted, owed>>

DrainPassDone ==
  /\ loop = "draining" /\ LoopReady
  /\ batch = {}
  /\ loop' = "drain"
  /\ UNCHANGED <<queueVars, batch, timerBatch, deleted, slotOf, objVars, callVars, deletePosted, owed>>

\* setDispatcher( nullptr ). What is left in the queue is freed with the dispatcher, its
\* receivers are not.
DropDispatcher ==
  /\ loop = "drained"
  /\ dispatcher' = FALSE
  /\ queue' = {} /\ timers' = {}
  /\ loop' = "finished"
  /\ UNCHANGED <<posts, batch, timerBatch, deleted, slotOf, objVars, callVars, deletePosted, owed>>

-----------------------------------------------------------------------------
UserStep(t) == \E o \in Objects : Lock(t, o) \/ DeleteLater(t, o) \/ DirectDelete(t, o)

\* What a thread has begun it goes on with.
Proceed(t) == \/ Resolve(t) \/ PostCall(t) \/ Unlock(t)
              \/ ResolveDelete(t) \/ PostDelete(t) \/ FinishDestroy(t)

Dispatch == \E e \in batch : SkipEvent(e) \/ DispatchDelete(e) \/ DispatchCall(e) \/ DrainDelete(e)

LoopStep == \/ Started
            \/ \E expired \in SUBSET timers : Take(expired)
            \/ Dispatch
            \/ \E o \in Objects : DispatchTimer(o)
            \/ SlotReturns \/ PassDone
            \/ Stopped \/ Drain \/ DrainPassDone \/ DropDispatcher

Next == \/ \E t \in Threads : UserStep(t) \/ Proceed(t)
        \/ \E o \in Objects : StartTimer(o) \/ KillTimer(o)
        \/ LoopStep
        \/ ExecReturns

\* Threads are scheduled; slots and cleanup callbacks return. Whether the loop is ever
\* told to stop, and what user code does, is left open.
Fairness == /\ \A t \in Threads : WF_vars(Proceed(t))
            /\ WF_vars(LoopStep)

Safety == Init /\ [][Next]_vars
Spec == Safety /\ Fairness

-----------------------------------------------------------------------------
(* Properties.                                                             *)

\* However deleteLater(), the passes of the loop and the drain at its end interleave, ~Object()
\* is entered at most once per object (mDeleteLaterPosted and the two deletedReceivers sets).
DestroyedOnce == \A o \in Objects : deaths[o] <= 1

\* A thread inside deleteLater() still has a live object under it: until its own event is
\* queued nobody else can have scheduled the deletion.
DeleteLaterOnLive == \A t \in Threads :
  pc[t] \in Deleting => arg[t] \in Objects /\ phase[arg[t]] = "alive"

\* A deferred delete that was queued before the drain took its last look, even by a destructor
\* the drain itself ran, has been carried out when the thread lets go of its dispatcher.
StoppedLoopOwesNothing == loop = "finished" => \A o \in owed : phase[o] # "alive"

\* A slot, reached through the queue, runs on an object that is alive when it is entered.
SlotsReachLive == [][loop = "dispatch" /\ loop' = "slot" => phase[slotOf'] = "alive"]_vars

\* timerEvent() is only ever called on a live object, though its events were collected
\* before the pass destroyed anything.
TimersReachLive == [][loop = "dispatch" /\ loop' = "timerSlot" => phase[slotOf'] = "alive"]_vars

\* A deferred delete that was queued in time is carried out, loop stopped or not.
OwedIsDestroyed == \A o \in Objects : (o \in owed) ~> (phase[o] = "freed")

\* What is asked of an object, and what becomes of it, is that of ObjectLives: destroyed once,
\* not while a slot runs, and before the drain's last look if it was asked for by then; slots
\* and timer events are for the living (Object.cpp:151-207, EventDispatcherDefault.cpp:339-460).
Lives == INSTANCE ObjectLives WITH due <- owed, entered <- slotOf, open <- StillLooks
ImplementsLives == Lives!Safety

-----------------------------------------------------------------------------
(* What makes them inductive, as long as slots on Loop use deleteLater().  *)

\* An object is alive until ~Object() is entered, once.
DeathsCounted == \A o \in Objects : /\ life[o] <=> phase[o] = "alive"
                                    /\ deaths[o] = IF phase[o] = "alive" THEN 0 ELSE 1

\* Inside ~Object(): exactly the objects that some thread is destroying, each once.
Nests ==
  /\ \A t \in Threads : \A i \in DOMAIN nest[t] : phase[nest[t][i]] = "destroying"
  /\ \A o \in Objects : phase[o] = "destroying" =>
       \E t \in Threads : \E i \in DOMAIN nest[t] : nest[t][i] = o
  /\ \A t, u \in Threads : \A i \in DOMAIN nest[t], j \in DOMAIN nest[u] :
       nest[t][i] = nest[u][j] => t = u /\ i = j

\* What each stage of threadBody() has behind it.
Stages ==
  /\ loop \in {"pass", "drain", "drained", "finished"} => pc[Loop] = "idle" /\ nest[Loop] = <<>>
  /\ loop \notin {"dispatch", "slot", "timerSlot", "draining"} => batch = {}
  /\ loop \notin {"dispatch", "slot", "timerSlot"} => timerBatch = {}
  /\ loop = "draining" => \A e \in batch : e.kind = "delete"
  /\ dispatcher <=> loop # "finished"
  /\ loop = "finished" => queue = {} /\ timers = {}
  /\ loop # "finished" => \A t \in Clients : nest[t] = <<>>

\* Nothing is half destroyed while a slot runs.
SlotsClear ==
  /\ loop \in {"slot", "timerSlot"} <=> slotOf # NoObject
  /\ slotOf # NoObject => nest[Loop] = <<>>

Pending == queue \cup batch
Numbered == (\A e \in Pending : e.seq < posts) /\ queue \cap batch = {}

\* At most one deferred delete exists per object: queued, taken, or about to be queued; and
\* while it exists the object is alive.
OneDelete ==
  /\ \A e, f \in Pending : e.kind = "delete" /\ f.kind = "delete" /\ e.obj = f.obj => e = f
  /\ \A e \in Pending : e.kind = "delete" => deletePosted[e.obj] /\ phase[e.obj] = "alive"
  /\ \A t \in Threads : pc[t] \in Deleting =>
       /\ arg[t] \in Objects /\ deletePosted[arg[t]] /\ phase[arg[t]] = "alive"
       /\ \A e \in Pending : e.kind = "delete" => e.obj # arg[t]
       /\ \A u \in Threads : pc[u] \in Deleting /\ arg[u] = arg[t] => u = t

DeletedAreDead == \A o \in deleted : phase[o] # "alive"

\* What is owed is pending, until the drain's last look finds nothing pending.
OwedPending == \A o \in owed : phase[o] = "alive" =>
  /\ StillLooks
  /\ \E e \in Pending : e.kind = "delete" /\ e.obj = o

\* As long as the loop looks, what is pending is owed.
PendingOwed == StillLooks => \A e \in Pending : e.kind = "delete" => e.obj \in owed

\* A collected timer event is for a live object or for one this pass has deleted.
TimersLive ==
  /\ \A o \in timers : phase[o] = "alive" \/ \E i \in DOMAIN nest[Loop] : nest[Loop][i] = o
  /\ \A o \in timerBatch : phase[o] = "alive" \/ o \in deleted

\* Without emissions from Clients only Loop's own wrappers hold tokens.
TokensAtHome == ~ClientsEmit => \A t \in Clients : pc[t] \notin Holding

LifeInv == /\ DeathsCounted /\ Nests /\ Stages /\ SlotsClear /\ Numbered
           /\ OneDelete /\ DeletedAreDead /\ OwedPending /\ PendingOwed /\ TimersLive
           /\ TokensAtHome
=============================================================================
