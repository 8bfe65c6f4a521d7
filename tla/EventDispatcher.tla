--------------------------- MODULE EventDispatcher ---------------------------
(***************************************************************************)
(* One event loop: Thread::exec() driving EventDispatcherDefault and its   *)
(* two platform subclasses, while any number of other threads post events, *)
(* start and stop timers and ask the loop to exit.                         *)
(*                                                                         *)
(* platform selects the wait/wake pair of virtual functions:               *)
(*   "default"  condition variable      (EventDispatcherDefault)           *)
(*   "linux"    poll() on an eventfd    (EventDispatcherLinux)             *)
(*   "win32"    the message queue       (EventDispatcherWin32)             *)
(*                                                                         *)
(* A step is a critical section of mMutex, an access to one atomic, or one *)
(* system call. mutex is held between steps only where the code keeps      *)
(* mMutex across something that another thread can observe: wakeWaiter()   *)
(* inside registerTimer(), and the gap between testing the wait predicate  *)
(* and blocking. Time is abstract: a timer is due or it is not.            *)
(***************************************************************************)
EXTENDS Naturals, Sequences

CONSTANTS Threads,      \* threads other than the one that runs the loop
          Loop,         \* the thread that runs the loop
          NoThread,     \* mMutex is free
          Events,       \* queued events, each posted at most once
          Timers,       \* timer ids, each registered at most once
          Sources,      \* event sources (a descriptor with a callback), each registered at most once
          FdOf,         \* the descriptor of each
          Platforms,    \* the platforms to build for
          Failing,      \* whether write()/PostMessage() may fail: the cases to explore
          MaxExits,     \* bound on the calls of Thread::exit(), interrupt() and wakeUp()
          MaxExecs      \* bound on the calls of exec()

Callers == Threads \cup {Loop}

ASSUME CallersAssumption == /\ Loop \notin Threads
                            /\ NoThread \notin Callers
ASSUME PlatformAssumption == /\ Platforms \subseteq {"default", "linux", "win32"}
                             /\ Failing \subseteq BOOLEAN
ASSUME SourcesAssumption == Sources \cap Timers = {}
ASSUME BoundsAssumption == MaxExits \in Nat /\ MaxExecs \in Nat

VARIABLES
  platform,         \* the subclass that threadBody() creates
  mayFail,          \* whether its write() or PostMessage() may fail
  queue,            \* mEventQueue
  timers,           \* ids in mTimers
  due,              \* those whose mNextFire has passed
  interrupted,      \* mInterrupt
  wakeUpRequested,  \* mWakeUpRequested
  timersChanged,    \* mTimersChanged
  mutex,            \* who keeps mMutex between two steps
  wakePending,      \* mWakePending
  token,            \* value of the eventfd / kWakeUpMessages in the message queue
  sources,          \* mSources
  exiting,          \* Thread::mExiting
  loop,             \* where the loop thread is
  deadlines,        \* timers the current wait computed its timeout from
  polled,           \* the sources it has copied, then those of them it has still to call back
  batch,            \* eventsToProcess
  timerBatch,       \* timerEventsToProcess
  pc,               \* where each caller is inside a dispatcher call
  op,               \* which call it is making
  posted,           \* history: events handed to postEvent()
  delivered,        \* history: events dispatched, oldest first
  fired,            \* history: timers that have been dispatched
  started,          \* history: timers and sources registered at least once
  exits, execs      \* calls made so far, bounded

callVars == <<pc, op>>
waitVars == <<mutex, wakePending, token>>
loopVars == <<loop, deadlines, polled, batch, timerBatch>>
build == <<platform, mayFail>>
history  == <<posted, delivered, fired, started, exits, execs>>
vars == <<build, queue, timers, due, interrupted, wakeUpRequested, timersChanged,
          callVars, waitVars, loopVars, sources, exiting, history>>

Idle == [call |-> "none"]
Ops == {Idle} \cup [call : {"post"}, event : Events]
              \cup [call : {"register", "unregister"}, timer : Timers]
              \cup [call : {"interrupt", "wakeUp", "interruptOnly"}]
              \cup [call : {"registerSource", "unregisterSource"}, source : Sources]

LoopStates == {"test", "enter", "collect", "cvTest", "cvBlock", "blocked", "woken",
               "timedOut", "poll", "read", "rearm", "sources", "callback", "relock", "platform", "peeked",
               "dispatch", "slot", "done"}
CallStates == {"idle", "lock", "notify", "exchange", "write", "failed"}

FlagsOK ==
  /\ interrupted \in BOOLEAN /\ wakeUpRequested \in BOOLEAN /\ timersChanged \in BOOLEAN
  /\ wakePending \in BOOLEAN /\ exiting \in BOOLEAN /\ mayFail \in BOOLEAN

TypeOK ==
  /\ platform \in Platforms
  /\ FlagsOK
  /\ queue \in Seq(Events) /\ batch \in Seq(Events) /\ delivered \in Seq(Events)
  /\ timers \in SUBSET Timers /\ due \in SUBSET Timers /\ deadlines \in SUBSET Timers
  /\ timerBatch \in SUBSET Timers /\ fired \in SUBSET Timers
  /\ sources \in SUBSET Sources /\ polled \in SUBSET Sources
  /\ started \in SUBSET (Timers \cup Sources)
  /\ token \in Nat
  /\ mutex \in Callers \cup {NoThread}
  /\ loop \in LoopStates
  /\ pc \in [Callers -> CallStates] /\ op \in [Callers -> Ops]
  /\ posted \in SUBSET Events
  /\ exits \in 0..MaxExits /\ execs \in 0..MaxExecs

Init ==
  /\ platform \in Platforms
  /\ mayFail \in Failing /\ (platform = "default" => ~mayFail)
  /\ queue = <<>> /\ batch = <<>> /\ delivered = <<>>
  /\ timers = {} /\ due = {} /\ deadlines = {} /\ timerBatch = {}
  /\ fired = {} /\ started = {} /\ posted = {} /\ sources = {} /\ polled = {}
  /\ interrupted = FALSE /\ wakeUpRequested = FALSE /\ timersChanged = FALSE
  /\ wakePending = FALSE /\ token = 0 /\ exiting = FALSE
  /\ mutex = NoThread
  /\ loop = "test"
  /\ pc = [t \in Callers |-> "idle"] /\ op = [t \in Callers |-> Idle]
  /\ exits = 0 /\ execs = 0

-----------------------------------------------------------------------------
(* Calls into the dispatcher, made by any thread, or by the loop thread    *)
(* from inside a slot.                                                     *)

MayCall(t) == /\ pc[t] = "idle"
              /\ t = Loop => loop \in {"slot", "callback"}

Begin(t, call) == /\ op' = [op EXCEPT ![t] = call]
                  /\ pc' = [pc EXCEPT ![t] = "lock"]

\* postEvent() with a receiver and an event.
BeginPost(t, e) ==
  /\ MayCall(t) /\ e \notin posted
  /\ posted' = posted \cup {e}
  /\ Begin(t, [call |-> "post", event |-> e])
  /\ UNCHANGED <<queue, timers, due, interrupted, wakeUpRequested, timersChanged, waitVars,
                 loopVars, sources, exiting, delivered, fired, started, exits, execs>>

BeginRegister(t, m) ==
  /\ MayCall(t) /\ m \notin started
  /\ started' = started \cup {m}
  /\ Begin(t, [call |-> "register", timer |-> m])
  /\ UNCHANGED <<queue, timers, due, interrupted, wakeUpRequested, timersChanged, waitVars,
                 loopVars, sources, exiting, posted, delivered, fired, exits, execs>>

BeginUnregister(t, m) ==
  /\ MayCall(t) /\ m \in timers
  /\ Begin(t, [call |-> "unregister", timer |-> m])
  /\ UNCHANGED <<queue, timers, due, interrupted, wakeUpRequested, timersChanged, waitVars,
                 loopVars, sources, exiting, history>>

\* Mutant: the flag is stored and the dispatcher is not told.
ExitSilently(t) ==
  /\ MayCall(t) /\ exits < MaxExits
  /\ exits' = exits + 1
  /\ exiting' = TRUE
  /\ UNCHANGED <<queue, timers, due, interrupted, wakeUpRequested, timersChanged, waitVars,
                 callVars, loopVars, sources, posted, delivered, fired, started, execs>>

\* Thread::exit() stores mExiting, then calls interrupt() and wakeUp().
Exit(t) ==
  /\ MayCall(t) /\ exits < MaxExits
  /\ exits' = exits + 1
  /\ exiting' = TRUE
  /\ Begin(t, [call |-> "interrupt"])
  /\ UNCHANGED <<queue, timers, due, interrupted, wakeUpRequested, timersChanged, waitVars,
                 loopVars, sources, posted, delivered, fired, started, execs>>

\* registerEventSource() and unregisterEventSource().
BeginRegisterSource(t, s) ==
  /\ MayCall(t) /\ platform = "linux" /\ s \notin started
  /\ started' = started \cup {s}
  /\ Begin(t, [call |-> "registerSource", source |-> s])
  /\ UNCHANGED <<queue, timers, due, interrupted, wakeUpRequested, timersChanged, waitVars,
                 loopVars, sources, exiting, posted, delivered, fired, exits, execs>>

BeginUnregisterSource(t, s) ==
  /\ MayCall(t) /\ s \in sources
  /\ Begin(t, [call |-> "unregisterSource", source |-> s])
  /\ UNCHANGED <<queue, timers, due, interrupted, wakeUpRequested, timersChanged, waitVars,
                 loopVars, sources, exiting, history>>

\* interrupt() or wakeUp() alone: both are public on the dispatcher that
\* Thread::eventDispatcher() hands out.
Control(t) ==
  /\ MayCall(t) /\ exits < MaxExits
  /\ exits' = exits + 1
  /\ \E call \in {"interruptOnly", "wakeUp"} : Begin(t, [call |-> call])
  /\ UNCHANGED <<queue, timers, due, interrupted, wakeUpRequested, timersChanged, waitVars,
                 loopVars, sources, exiting, posted, delivered, fired, started, execs>>

Ready(t, call) == pc[t] = "lock" /\ op[t].call = call
ToWake(t) == pc' = [pc EXCEPT ![t] = "notify"]

\* Mutant: the null check is gone and a null event is queued.
PostEventNull(t) ==
  /\ Ready(t, "post") /\ mutex = NoThread
  /\ queue' = Append(queue, NoThread)
  /\ ToWake(t)
  /\ UNCHANGED <<timers, due, interrupted, wakeUpRequested, timersChanged, op, waitVars,
                 loopVars, sources, exiting, history>>

PostEvent(t) ==
  /\ Ready(t, "post") /\ mutex = NoThread
  /\ queue' = Append(queue, op[t].event)
  /\ ToWake(t)
  /\ UNCHANGED <<timers, due, interrupted, wakeUpRequested, timersChanged, op, waitVars,
                 loopVars, sources, exiting, history>>

\* Mutant: the timer list changes and the wait predicate cannot see it.
RegisterTimerSilently(t) ==
  /\ Ready(t, "register") /\ mutex = NoThread
  /\ mutex' = t
  /\ timers' = timers \cup {op[t].timer}
  /\ due' = due \ {op[t].timer}
  /\ ToWake(t)
  /\ UNCHANGED <<queue, interrupted, wakeUpRequested, timersChanged, op, wakePending, token,
                 loopVars, sources, exiting, history>>

\* registerTimer() keeps mMutex while it wakes the waiter.
RegisterTimer(t) ==
  /\ Ready(t, "register") /\ mutex = NoThread
  /\ mutex' = t
  /\ timers' = timers \cup {op[t].timer}
  /\ due' = due \ {op[t].timer}
  /\ timersChanged' = TRUE
  /\ ToWake(t)
  /\ UNCHANGED <<queue, interrupted, wakeUpRequested, op, wakePending, token,
                 loopVars, sources, exiting, history>>

Finish(t) == /\ pc' = [pc EXCEPT ![t] = "idle"]
             /\ op' = [op EXCEPT ![t] = Idle]

\* unregisterTimer() wakes the waiter only if it found the timer.
UnregisterTimer(t) ==
  /\ Ready(t, "unregister") /\ mutex = NoThread
  /\ \/ /\ op[t].timer \in timers
        /\ timers' = timers \ {op[t].timer}
        /\ due' = due \ {op[t].timer}
        /\ mutex' = t
        /\ timersChanged' = TRUE
        /\ ToWake(t)
        /\ UNCHANGED op
     \/ /\ op[t].timer \notin timers
        /\ Finish(t)
        /\ UNCHANGED <<timers, due, mutex, timersChanged>>
  /\ UNCHANGED <<queue, interrupted, wakeUpRequested, wakePending, token,
                 loopVars, sources, exiting, history>>

Interrupt(t) ==
  /\ Ready(t, "interrupt") \/ Ready(t, "interruptOnly")
  /\ mutex = NoThread
  /\ interrupted' = TRUE
  /\ ToWake(t)
  /\ UNCHANGED <<queue, timers, due, wakeUpRequested, timersChanged, op, waitVars,
                 loopVars, sources, exiting, history>>

\* Mutant: the request is stored without taking mMutex.
WakeUpUnlocked(t) ==
  /\ Ready(t, "wakeUp")
  /\ wakeUpRequested' = TRUE
  /\ ToWake(t)
  /\ UNCHANGED <<queue, timers, due, interrupted, timersChanged, op, waitVars,
                 loopVars, sources, exiting, history>>

WakeUp(t) ==
  /\ Ready(t, "wakeUp") /\ mutex = NoThread
  /\ wakeUpRequested' = TRUE
  /\ ToWake(t)
  /\ UNCHANGED <<queue, timers, due, interrupted, timersChanged, op, waitVars,
                 loopVars, sources, exiting, history>>

Same(s) == {x \in sources : FdOf[x] = FdOf[s]}
SourceSection == UNCHANGED <<queue, timers, due, interrupted, wakeUpRequested, timersChanged,
                             waitVars, loopVars, exiting, history>>

\* A source of the same descriptor is replaced. The wake comes after mMutex is released.
RegisterSource(t) ==
  /\ Ready(t, "registerSource") /\ mutex = NoThread
  /\ sources' = (sources \ Same(op[t].source)) \cup {op[t].source}
  /\ ToWake(t)
  /\ UNCHANGED op
  /\ SourceSection

UnregisterSource(t) ==
  /\ Ready(t, "unregisterSource") /\ mutex = NoThread
  /\ sources' = sources \ Same(op[t].source)
  /\ \/ Same(op[t].source) # {} /\ ToWake(t) /\ UNCHANGED op
     \/ Same(op[t].source) = {} /\ Finish(t)
  /\ SourceSection

-----------------------------------------------------------------------------
(* wakeWaiter(): notify_all(), then on the two platforms the collapsing    *)
(* flag and the system call.                                               *)

\* The end of a call: registerTimer() and unregisterTimer() release mMutex,
\* exit() goes on from interrupt() to wakeUp().
Return(t) ==
  /\ mutex' = IF mutex = t THEN NoThread ELSE mutex
  /\ \/ /\ op[t].call = "interrupt"
        /\ Begin(t, [call |-> "wakeUp"])
     \/ /\ op[t].call # "interrupt"
        /\ Finish(t)

WakeUnchanged == UNCHANGED <<queue, timers, due, interrupted, wakeUpRequested, timersChanged,
                             deadlines, polled, batch, timerBatch, sources, exiting, history>>

NotifyAll(t) ==
  /\ pc[t] = "notify"
  /\ loop' = IF loop = "blocked" THEN "woken" ELSE loop
  /\ \/ platform = "default" /\ Return(t)
     \/ platform # "default" /\ pc' = [pc EXCEPT ![t] = "exchange"] /\ UNCHANGED <<op, mutex>>
  /\ WakeUnchanged /\ UNCHANGED <<wakePending, token>>

\* mWakePending.exchange( true ): only the first wake of a batch goes on.
ExchangePending(t) ==
  /\ pc[t] = "exchange"
  /\ wakePending' = TRUE
  /\ \/ wakePending /\ Return(t)
     \/ ~wakePending /\ pc' = [pc EXCEPT ![t] = "write"] /\ UNCHANGED <<op, mutex>>
  /\ WakeUnchanged /\ UNCHANGED <<loop, token>>

WriteWake(t) ==
  /\ pc[t] = "write"
  /\ \/ token' = token + 1 /\ Return(t)
     \/ mayFail /\ pc' = [pc EXCEPT ![t] = "failed"] /\ UNCHANGED <<token, op, mutex>>
  /\ WakeUnchanged /\ UNCHANGED <<loop, wakePending>>

\* Mutant: the flag stays set although no wakeup is coming.
WriteFailedKeepsFlag(t) ==
  /\ pc[t] = "failed"
  /\ Return(t)
  /\ WakeUnchanged /\ UNCHANGED <<loop, wakePending, token>>

\* The write failed: re-arm the flag so that the next caller retries.
WriteFailed(t) ==
  /\ pc[t] = "failed"
  /\ wakePending' = FALSE
  /\ Return(t)
  /\ WakeUnchanged /\ UNCHANGED <<loop, token>>

-----------------------------------------------------------------------------
(* The loop: Thread::exec() and processEvents().                           *)

LoopUnchanged == UNCHANGED <<callVars, sources, exiting, posted, started, exits, execs>>

\* while( !mExiting.load() && dispatcher )
ExecTest ==
  /\ loop = "test"
  /\ loop' = IF exiting THEN "done" ELSE "enter"
  /\ UNCHANGED <<queue, timers, due, interrupted, wakeUpRequested, timersChanged, waitVars,
                 deadlines, polled, batch, timerBatch, delivered, fired>>
  /\ LoopUnchanged

\* Mutant: the interrupt is tested and left set.
TestInterrupt ==
  /\ loop = "enter"
  /\ loop' = IF interrupted THEN "test" ELSE "collect"
  /\ UNCHANGED <<queue, timers, due, interrupted, wakeUpRequested, timersChanged, waitVars,
                 deadlines, polled, batch, timerBatch, delivered, fired>>
  /\ LoopUnchanged

\* if( mInterrupt.exchange( false ) ) return false;
ConsumeInterrupt ==
  /\ loop = "enter"
  /\ interrupted' = FALSE
  /\ loop' = IF interrupted THEN "test" ELSE "collect"
  /\ UNCHANGED <<queue, timers, due, wakeUpRequested, timersChanged, waitVars,
                 deadlines, polled, batch, timerBatch, delivered, fired>>
  /\ LoopUnchanged

\* Mutant: the queue is drained before the interrupt is looked at.
TakeThenTest(expired) ==
  /\ interrupted' = FALSE
  /\ queue' = <<>>
  /\ \/ /\ interrupted
        /\ timerBatch' = {}
        /\ loop' = "test"
        /\ UNCHANGED batch
     \/ /\ ~interrupted
        /\ batch' = queue
        /\ timerBatch' = expired
        /\ loop' = IF platform = "win32" THEN "platform" ELSE "dispatch"

\* The end of the critical section: the second interrupt check, then the
\* drain of the whole queue. Timer events collected before an interrupt are freed.
Take(expired) ==
  /\ interrupted' = FALSE
  /\ \/ /\ interrupted
        /\ timerBatch' = {}
        /\ loop' = "test"
        /\ UNCHANGED <<queue, batch>>
     \/ /\ ~interrupted
        /\ queue' = <<>>
        /\ batch' = queue
        /\ timerBatch' = expired
        /\ loop' = IF platform = "win32" THEN "platform" ELSE "dispatch"

\* Expired timers are collected and re-armed; there is work, so no wait.
CollectAndTake ==
  /\ loop = "collect" /\ mutex = NoThread
  /\ queue # <<>> \/ due # {}
  /\ due' = {}
  /\ Take(due)
  /\ UNCHANGED <<timers, wakeUpRequested, timersChanged, waitVars, deadlines, polled, delivered, fired>>
  /\ LoopUnchanged

\* What poll() works on is copied while mMutex is still held.
CopySources == polled' = sources

\* Nothing to do: the timeout is computed, mTimersChanged is cleared and
\* waitForEvents() is entered with mMutex held.
CollectAndWait ==
  /\ loop = "collect" /\ mutex = NoThread
  /\ queue = <<>> /\ due = {}
  /\ timersChanged' = FALSE
  /\ deadlines' = timers
  /\ CopySources
  /\ \/ platform = "default" /\ loop' = "cvTest" /\ mutex' = Loop
     \/ platform # "default" /\ loop' = "poll" /\ UNCHANGED mutex
  /\ UNCHANGED <<queue, timers, due, interrupted, wakeUpRequested, wakePending, token,
                 batch, timerBatch, delivered, fired>>
  /\ LoopUnchanged

\* wakeUp() is one-shot: it is consumed here, by the wait it ended.
AfterWait ==
  /\ wakeUpRequested' = FALSE
  /\ Take({})
  /\ UNCHANGED <<timers, due, timersChanged, wakePending, token, deadlines, polled, delivered, fired>>
  /\ LoopUnchanged

PollOnly == /\ UNCHANGED <<queue, timers, due, interrupted, wakeUpRequested, timersChanged,
                           wakePending, token, deadlines, batch, timerBatch, delivered, fired>>
            /\ LoopUnchanged
LoopOnly == PollOnly /\ UNCHANGED polled

WakeCondition == queue # <<>> \/ interrupted \/ timersChanged \/ wakeUpRequested

\* The expired deadline is one the wait knew of when it began.
DeadlinePassed == deadlines \cap due # {}

\* std::condition_variable: test under the lock, then release it and block in
\* one step; a notification while not blocked is lost.
CvTest ==
  /\ loop = "cvTest"
  /\ ~WakeCondition
  /\ loop' = "cvBlock"
  /\ LoopOnly /\ UNCHANGED mutex

CvBlock ==
  /\ loop = "cvBlock"
  /\ loop' = "blocked"
  /\ mutex' = NoThread
  /\ LoopOnly

CvTimeout ==
  /\ loop = "blocked" /\ DeadlinePassed
  /\ loop' = "timedOut"
  /\ LoopOnly /\ UNCHANGED mutex

\* A wakeup once the deadline has passed is reported as the timeout.
CvSpurious ==
  /\ loop = "blocked" /\ ~DeadlinePassed
  /\ loop' = "woken"
  /\ LoopOnly /\ UNCHANGED mutex

CvReacquire ==
  /\ loop = "woken" /\ mutex = NoThread
  /\ loop' = "cvTest" /\ mutex' = Loop
  /\ LoopOnly

CvReturn ==
  /\ \/ loop = "cvTest" /\ WakeCondition
     \/ loop = "timedOut" /\ mutex = NoThread
  /\ mutex' = NoThread
  /\ AfterWait

\* poll() / MsgWaitForMultipleObjectsEx() return for the wakeup, and perhaps descriptors, ...
PollWake ==
  /\ loop = "poll" /\ token > 0
  /\ polled' \in SUBSET polled
  /\ loop' = IF platform = "linux" THEN "read" ELSE "relock"
  /\ PollOnly /\ UNCHANGED mutex

\* ... for the deadline, ...
PollTimeout ==
  /\ loop = "poll" /\ DeadlinePassed
  /\ polled' = {}
  /\ loop' = "relock"
  /\ PollOnly /\ UNCHANGED mutex

AfterDrain(ready) == IF ready = {} THEN "relock" ELSE "sources"

\* ... or for descriptors alone, another message or a signal.
PollOther ==
  /\ loop = "poll" /\ token = 0
  /\ polled' \in SUBSET polled
  /\ loop' = AfterDrain(polled')
  /\ PollOnly /\ UNCHANGED mutex

\* The copy of the callback is invoked, mMutex released, whatever has become of the source.
CallSource ==
  /\ loop = "sources"
  /\ \E s \in polled : polled' = polled \ {s}
  /\ loop' = "callback"
  /\ PollOnly /\ UNCHANGED mutex

CallbackReturns ==
  /\ loop = "callback" /\ pc[Loop] = "idle"
  /\ loop' = AfterDrain(polled)
  /\ LoopOnly /\ UNCHANGED mutex

DrainUnchanged ==
  /\ UNCHANGED <<queue, timers, due, interrupted, wakeUpRequested, timersChanged, mutex,
                 deadlines, polled, batch, timerBatch, delivered, fired>>
  /\ LoopUnchanged

\* Mutant: the collapsing flag is cleared before the read.
DrainWakeFdClearsFirst ==
  /\ \/ loop = "read"  /\ wakePending' = FALSE /\ loop' = "rearm"  /\ UNCHANGED token
     \/ loop = "rearm" /\ token' = 0 /\ loop' = AfterDrain(polled) /\ UNCHANGED wakePending
  /\ DrainUnchanged

\* The read empties the eventfd, and only then is the collapsing flag cleared.
DrainWakeFd ==
  /\ \/ loop = "read"  /\ token' = 0 /\ loop' = "rearm"  /\ UNCHANGED wakePending
     \/ loop = "rearm" /\ wakePending' = FALSE /\ loop' = AfterDrain(polled) /\ UNCHANGED token
  /\ DrainUnchanged

PollReturn ==
  /\ loop = "relock" /\ mutex = NoThread
  /\ AfterWait
  /\ UNCHANGED mutex

\* Mutant: the wakeup message is taken and the flag is left set.
PeekWakeKeepsFlag ==
  /\ \/ loop = "platform" /\ token > 0 /\ token' = token - 1 /\ loop' = "peeked"
     \/ loop = "peeked" /\ loop' = "platform" /\ UNCHANGED token
  /\ UNCHANGED wakePending
  /\ DrainUnchanged

\* EventDispatcherWin32::processPlatformEvents(), mMutex released: one wakeup message is
\* taken, then the flag is cleared.
PeekWake ==
  /\ \/ /\ loop = "platform" /\ token > 0
        /\ token' = token - 1 /\ loop' = "peeked"
        /\ UNCHANGED wakePending
     \/ /\ loop = "peeked"
        /\ wakePending' = FALSE /\ loop' = "platform"
        /\ UNCHANGED token
  /\ DrainUnchanged

\* WM_QUIT: interrupt() this loop and stop peeking.
PeekQuit ==
  /\ loop = "platform" /\ exits < MaxExits
  /\ exits' = exits + 1
  /\ loop' = "dispatch"
  /\ Begin(Loop, [call |-> "interruptOnly"])
  /\ UNCHANGED <<queue, timers, due, interrupted, wakeUpRequested, timersChanged, waitVars,
                 deadlines, polled, batch, timerBatch, sources, exiting, posted, delivered, fired, started, execs>>

PeekDone ==
  /\ loop = "platform" /\ token = 0
  /\ loop' = "dispatch"
  /\ LoopOnly /\ UNCHANGED mutex

DispatchEvent ==
  /\ loop = "dispatch" /\ pc[Loop] = "idle"
  /\ batch # <<>>
  /\ delivered' = Append(delivered, Head(batch))
  /\ batch' = Tail(batch)
  /\ loop' = "slot"
  /\ UNCHANGED <<queue, timers, due, interrupted, wakeUpRequested, timersChanged, waitVars,
                 deadlines, polled, timerBatch, fired>>
  /\ LoopUnchanged

DispatchTimer(m) ==
  /\ loop = "dispatch" /\ pc[Loop] = "idle"
  /\ batch = <<>> /\ m \in timerBatch
  /\ fired' = fired \cup {m}
  /\ timerBatch' = timerBatch \ {m}
  /\ loop' = "slot"
  /\ UNCHANGED <<queue, timers, due, interrupted, wakeUpRequested, timersChanged, waitVars,
                 deadlines, polled, batch, delivered>>
  /\ LoopUnchanged

SlotReturns ==
  /\ loop = "slot" /\ pc[Loop] = "idle"
  /\ loop' = "dispatch"
  /\ LoopOnly /\ UNCHANGED mutex

PassDone ==
  /\ loop = "dispatch" /\ pc[Loop] = "idle"
  /\ batch = <<>> /\ timerBatch = {}
  /\ loop' = "test"
  /\ LoopOnly /\ UNCHANGED mutex

\* CoreApplication::exec() entered again on the same dispatcher.
ExecAgain ==
  /\ loop = "done" /\ execs < MaxExecs
  /\ execs' = execs + 1
  /\ exiting' = FALSE
  /\ loop' = "test"
  /\ UNCHANGED <<queue, timers, due, interrupted, wakeUpRequested, timersChanged, callVars,
                 waitVars, deadlines, polled, batch, timerBatch, sources, posted, delivered, fired, started, exits>>

\* The clock passes mNextFire of a registered timer.
Tick(m) ==
  /\ m \in timers \ due
  /\ due' = due \cup {m}
  /\ UNCHANGED <<build, queue, timers, interrupted, wakeUpRequested, timersChanged, callVars,
                 waitVars, loopVars, sources, exiting, history>>

-----------------------------------------------------------------------------
Call(t) ==
  /\ \/ \E e \in Events : BeginPost(t, e)
     \/ \E m \in Timers : BeginRegister(t, m) \/ BeginUnregister(t, m)
     \/ \E s \in Sources : BeginRegisterSource(t, s) \/ BeginUnregisterSource(t, s)
     \/ Exit(t) \/ Control(t)
  /\ UNCHANGED build

\* A call that has begun runs to its end.
Proceed(t) ==
  /\ \/ PostEvent(t) \/ RegisterTimer(t) \/ UnregisterTimer(t) \/ Interrupt(t) \/ WakeUp(t)
     \/ RegisterSource(t) \/ UnregisterSource(t)
     \/ NotifyAll(t) \/ ExchangePending(t) \/ WriteWake(t) \/ WriteFailed(t)
  /\ UNCHANGED build

LoopStep ==
  /\ \/ ExecTest \/ ConsumeInterrupt \/ CollectAndTake \/ CollectAndWait
     \/ CvTest \/ CvBlock \/ CvTimeout \/ CvReacquire \/ CvReturn
     \/ PollWake \/ PollTimeout \/ DrainWakeFd \/ CallSource \/ CallbackReturns \/ PollReturn
     \/ PeekWake \/ PeekDone
     \/ DispatchEvent \/ SlotReturns \/ PassDone
     \/ \E m \in Timers : DispatchTimer(m)
  /\ UNCHANGED build

Environment ==
  /\ CvSpurious \/ PollOther \/ PeekQuit \/ ExecAgain
  /\ UNCHANGED build

Next == \/ \E t \in Callers : Call(t) \/ Proceed(t)
        \/ LoopStep
        \/ Environment
        \/ \E m \in Timers : Tick(m)

\* Threads are scheduled, a timed wait ends, time passes, and a thread that waits for mMutex
\* gets it if it is free again and again (the loop takes it once per pass). Nothing is
\* assumed of Environment: spurious wakeups and other descriptors may come at any rate.
Fairness == /\ \A t \in Callers : SF_vars(Proceed(t))
            /\ WF_vars(LoopStep)
            /\ \A m \in Timers : WF_vars(Tick(m))

Safety == Init /\ [][Next]_vars
Spec == Safety /\ Fairness

-----------------------------------------------------------------------------
(* Properties.                                                             *)

Waking(t) == pc[t] \in {"notify", "exchange", "write"}
Waiting == loop \in {"blocked", "poll"}
Work == queue # <<>> \/ interrupted \/ timersChanged

\* A wakeup that ends the wait is there or is being made.
WakeComing == token > 0 \/ \E t \in Callers : Waking(t)

\* A loop asleep in its wait never has work nobody is about to wake it for, nor a timer its
\* timeout does not know of: either the eventfd or wakeup message is already there, or the
\* thread that brought the work or the timer has not finished its wakeWaiter() (postEvent,
\* interrupt, registerTimer).
NoLostWakeup ==
  (~mayFail /\ Waiting /\ (Work \/ ~(timers \subseteq deadlines))) => WakeComing

\* Once exit() has stored mExiting the loop does not sleep on: a wakeup is coming, or the
\* thread in exit() has still to interrupt it. Neither an interrupt of an earlier call that
\* the pass consumes nor a wakeup that ends an earlier wait takes the place of this one.
ExitHeeded ==
  (exiting /\ ~mayFail /\ Waiting) => WakeComing \/ \E t \in Callers : Ready(t, "interrupt")

\* The same for a bare wakeUp(), which leaves no work behind, only its request, of the condition
\* variable and of the eventfd. On Windows processPlatformEvents() may consume the wakeup of a
\* pass under way and leave the request for a wait that never looks at it.
WakeUpHeeded ==
  (platform # "win32" /\ ~mayFail /\ Waiting /\ wakeUpRequested) => WakeComing

\* poll() works on a copy of the sources. One that has become stale, so that a new source would
\* not be heard or an unregistered descriptor is not let go of, is about to be given up.
SourcesUpToDate ==
  (~mayFail /\ loop = "poll" /\ polled # sources) => WakeComing

\* The collapsing flag is set only while a wakeup is on its way or being consumed, so it can
\* never wedge wakeWaiter() shut, not even after a failed write() or PostMessage().
FlagNeverWedged ==
  wakePending => \/ token > 0
                 \/ loop \in {"rearm", "peeked"}
                 \/ \E t \in Callers : pc[t] \in {"write", "failed"}

\* And while it is set there is only one: the eventfd or the message, or the thread that is about
\* to make it or has failed to, or the loop that has taken it and is about to clear the flag. So
\* a burst of wakeups leaves at most one message in a queue of fixed capacity.
Making(t) == pc[t] \in {"write", "failed"}
WakeupsCollapse ==
  /\ token <= 1
  /\ token > 0 => loop \notin {"rearm", "peeked"}
  /\ \A t \in Callers : Making(t) => /\ token = 0 /\ loop \notin {"rearm", "peeked"}
                                     /\ \A u \in Callers : Making(u) => u = t
FlagMeansOneWakeup == FlagNeverWedged /\ WakeupsCollapse

\* What makes these inductive. The condition variable is safe because the predicate
\* is false, and cannot change, between its test and the block; ...
BlockedKnowingly ==
  /\ loop \in {"cvTest", "cvBlock"} => mutex = Loop
  /\ loop = "cvBlock" => ~WakeCondition
  /\ loop \notin {"slot", "callback", "dispatch"} => pc[Loop] = "idle"

PlatformSteps ==
  /\ \A t \in Callers : /\ pc[t] \in {"exchange", "write", "failed"} => platform # "default"
                        /\ pc[t] = "failed" => mayFail
  /\ loop \in {"cvTest", "cvBlock", "blocked", "woken", "timedOut"} => platform = "default"
  /\ loop \in {"poll", "read", "rearm", "sources", "callback", "relock", "platform", "peeked"}
       => platform # "default"

\* ... poll() and the message queue because the flag promises a wakeup, and an interrupt that the loop will
\* not look at before it sleeps is still covered by one.
InterruptCovered ==
  (/\ platform # "default" /\ ~mayFail
   /\ interrupted /\ loop \in {"collect", "poll", "read"})
    => WakeComing

WorkCovered == (~mayFail /\ Waiting /\ Work) => WakeComing

WakeInv == /\ BlockedKnowingly /\ PlatformSteps /\ InterruptCovered
           /\ FlagNeverWedged /\ WorkCovered /\ SourcesUpToDate

\* Whoever has the wakeup in hand has set the flag, which keeps all others out; and the loop reads
\* the eventfd only when there is something in it.
FlagHeld ==
  /\ (token > 0 \/ loop \in {"rearm", "peeked"} \/ \E t \in Callers : Making(t)) => wakePending
  /\ loop = "read" => token > 0

\* A wait computes its timeout from all timers, and what changes the list afterwards says so.
DeadlinesKnown ==
  (loop \in {"cvTest", "cvBlock", "blocked", "woken", "poll"} /\ ~(timers \subseteq deadlines))
    => timersChanged

\* A loop that has gone past the test of mExiting finds the interrupt, or it is still to come.
ExitPending ==
  (exiting /\ loop \notin {"test", "done"}) => interrupted \/ \E t \in Callers : Ready(t, "interrupt")

\* exit() always brings a running loop to an end, however its interrupt and its wakeup
\* race the loop's own consumption of them; unless the wakeup itself may fail.
ExitEndsLoop == (exiting /\ ~mayFail) ~> (loop = "done" \/ ~exiting)

\* A loop with no timer left goes back to sleep instead of spinning: an interrupt or a
\* wakeup that has been acted on does not stay behind and make every pass return at once.
LoopRests == <>[](timers = {}) => []<>(Waiting \/ loop = "done")

\* A timer registered while the loop sleeps without a deadline still fires.
TimerFires == \A m \in Timers :
  (m \in timers) ~> (m \in fired \/ m \notin timers \/ loop = "done")

\* The dispatcher implements the first-in first-out queue of EventQueue: the batch taken by
\* the running pass comes first, then the queue; nothing is lost, duplicated or overtaken.
Queue == INSTANCE EventQueue WITH pending <- batch \o queue, open <- (loop # "done")
ImplementsQueue == Queue!Spec
=============================================================================
