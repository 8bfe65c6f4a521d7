# A verification project for QtLikeSignal

QtLikeSignal is a C++17 library in the manner of Qt's `QObject`, `QThread` and signals: objects with
a thread affinity, queued connections, deferred deletion, timers and event loops. This directory
holds TLA+ models of its concurrent core, TLC configurations that check them on small instances and
TLAPS proofs for every size. Paths below are relative to `src/src/` of the repository.

## 1. The system

| part | state | operations | talks to |
|---|---|---|---|
| `EventDispatcherDefault` (implements `AbstractEventDispatcher`) | `mEventQueue`, `mTimers`, `mInterrupt`, `mTimersChanged`, `mWakeUpRequested` under `mMutex`; `mCv` | `processEvents()`, `postEvent()`, `registerTimer()`, `unregisterTimer()`, `removeEventsForReceiver()`, `takeTimersForReceiver()`, `processDeferredDeletes()`, `wakeUp()`, `interrupt()` | calls `Object::event()` with the mutex released; called from any thread |
| `EventDispatcherLinux` | the eventfd, `mWakePending`, the event sources | `waitForEvents()` with `poll()`, `wakeWaiter()`, `drainWakeFd()`, `registerEventSource()` | overrides the wait/wake pair |
| `EventDispatcherWin32` | the message queue, `mWakePending` | `waitForEvents()`, `wakeWaiter()`, `processPlatformEvents()` | the same |
| `Object` | `mLife`, `mAffinity`, `mDeleteLaterPosted`, `mIncoming`, cleanup callbacks | `connect()`, `deleteLater()`, `~Object()`, `startTimer()`, `killTimer()`, `moveToThread()`, `callLater()` | posts to the dispatcher of the affinity's thread |
| `callLater` registry | process-wide map of pending calls, one node with an invoker each | `scheduleCallLater()`, the queued metacall | `dispatchMetaCall()` |
| connections | `Cleanup` tokens, connection handles, slots of a boost signal | `connect()`, `trackIncoming()`, `disconnect()` | the boost signal's own mutex |
| `Thread` (`ThreadPosix`, `ThreadWin`) | `mExiting`, `mFinished`, the running flag, the native handle, `mPriority` | `start()`, `threadBody()`, `exec()`, `exit()`, `wait()`, `setPriority()`, `~Thread()` | creates and drops the dispatcher |
| `ThreadData`, `Affinity` | strong references that outlive `Thread` and `Object` | `dispatcher()`, `setDispatcher()`, `data()`, `setData()` | read by every poster |
| `CoreApplication` | the main thread's dispatcher | construction (swap of the dispatcher), `exec()`, `exit()` | `Thread` |
| `Timer` | timer id, single-shot flag, the `singleShot()` helper | `start()`, `stop()`, `timerEvent()` | `Object` timers |

What is hard here is listed, line by line, under `hazards` in `PROJECT.json`. In short: three
different wait/wake protocols that must lose no wakeup now that waits are unbounded; an interrupt
flag consumed in two places; snapshots of the queue and of expired timers dispatched after objects
have died; a life token other threads hold; several threads deleting one object; a loop that drains
its deferred deletes and then lets go of its queue; a pending-call registry shared by all threads;
start, finish, wait and restart of a thread.

What makes each part correct:

* dispatcher: no lost wakeup, `exit()` always ends the loop, a served interrupt does not make it
  spin, timers fire, events are delivered once and in order;
* object lifetime: `~Object()` runs once, slots and `timerEvent()` reach only live objects, a
  `deleteLater()` is carried out even if the loop stops;
* `callLater`: a call that was accepted runs once with the latest invoker;
* thread lifecycle: one OS thread per run, `wait()` returns only after the run and never deadlocks;
* affinity: a timer is registered in one place however its object is moved, events are delivered on
  the thread the object lives on, a single shot fires once;
* connections: the receiver's list of connections and the signal's list of slots agree, whatever
  dies in the middle, and the two mutexes of a connection are never waited for in a circle.

## 2. The modules

| module | models | lines it stands for |
|---|---|---|
| `EventQueue` | what a dispatcher promises: a first-in first-out queue that is open or closed | `AbstractEventDispatcher.h` |
| `ObjectLives` | what a thread promises its objects: deaths that were asked for, slots that run on the living, a loop that closes with nothing owed | `Object.cpp:42-159,415-443`, `EventDispatcherDefault.cpp:146-192,414-447` |
| `ThreadRuns` | what a `Thread` promises its users: runs one after another, waits that outlast them | `Thread.cpp:18-94,160-175`, `ThreadPosix.cpp:174-222` |
| `Links` | what a connection promises: made once, cut once, reached only while it stands, outlived by both its ends | as `Connections`, whose operations its actions are |
| `EventDispatcher` | `Thread::exec()` on one of the three dispatchers, any number of callers | `EventDispatcherDefault.cpp`, `EventDispatcherLinux.cpp`, `EventDispatcherWin32.cpp`, `Thread.cpp:184-197,444-455` |
| `EventDispatcherProofs` | theorems about it | |
| `ObjectLifetime` | objects of one thread: queued calls, timer events, deletion, the end of `threadBody()` | `Object.cpp`, `Object.h:565-587`, `EventDispatcherDefault.cpp:128-194,339-460`, `Thread.cpp:121-158` |
| `ObjectLifetimeProofs` | theorems about it | |
| `CallLater` | the registry of pending calls and the metacalls that empty it | `Object.cpp:13-37,135-149,210-282,577-621`, `Object.h:356-400,1010-1465` |
| `CallLaterProofs` | theorems about it | |
| `ThreadLifecycle` | one `Thread`, the threads that use it and the OS threads it runs on, one after another | `Thread.cpp:27-197,224-254,437-455`, `ThreadPosix.cpp:82-222`, `ThreadWin.cpp:13-156`, `ThreadData.cpp`, `Thread.h:158-198` |
| `ThreadLifecycleProofs` | theorems about it | |
| `Affinity` | several threads with dispatchers that come and go, and the timers, queued calls and deletions of objects that move between them | `Object.cpp:287-443,501-560,577-689`, `Timer.cpp`, `Timer.h:105-254`, `EventDispatcherDefault.cpp:258-460`, `CoreApplication.cpp:44-116`, `Thread.cpp:26-45,97-149,288-322`, `ThreadData.hpp:91-135` |
| `AffinityProofs`, `AffinityShotProofs`, `AffinityQuietProofs` | theorems about it: types and places of timers, single shots, the discipline `quiet` | |
| `Connections` | the two sides of a connection, and the calls that make, use and break it | `Object.h:464-534,538-1008`, `Object.cpp:52-207`, `Signal.h` |
| `ConnectionsProofs` | theorems about it | |
| `MC...` | instances for TLC | |

### EventDispatcher

A step is a critical section of `mMutex`, one access to an atomic, or one system call. The variable
`platform`, chosen at the start, says which pair of virtual functions overrides. `pc[t]` and `op[t]` say where a thread
is inside a call (`lock` before the critical section, `notify`/`exchange`/`write`/`failed` inside
`wakeWaiter()`), `loop` where the loop thread is inside `exec()` and `processEvents()`. The variable
`mutex` is set only where `mMutex` stays locked over several visible steps: `registerTimer()` wakes
the waiter while holding it, and the condition variable's wait holds it from the test of the
predicate to the block. Time is abstract: `due` is the set of timers whose `mNextFire` has passed;
`deadlines` are the timers a wait computed its timeout from, so a timer registered later cannot end
the wait by itself. The eventfd counter and the number of wakeup messages are both `token`.
`PollOther` covers descriptors, other messages, signals and APCs; `CvSpurious` the spurious
wakeups. `sources` is `mSources` of the Linux dispatcher, a source being a descriptor with its
callback; `polled` is the copy a wait makes of them, and, once `poll()` has returned, what is left of it
to be called back. Any polled source may be ready: masks are left out. Callbacks are user code and
call into the dispatcher, as slots do. `mayFail`, chosen at the start, says whether `write()` or
`PostMessage()` may fail, each time it is called.

### ObjectLifetime

Wakeups and order are left to `EventDispatcher`; a pass simply takes the whole queue (a set of
numbered events) and any subset of the timers. `phase` is the real state of the memory of an object,
`life` its token; a token is *held* while the object owns it or a wrapper or a running slot has
locked it. `~Object()` is two steps, since cleanup callbacks, which are user code, run in between,
and nests: `nest[t]` is the stack of destructors thread `t` is inside. `loop` follows
`threadBody()`: `started`, the passes, `finished`, the drain, `setDispatcher( nullptr )`. The choice
when `exec()` returns is left open (`ExecReturns`). Abstractions: addresses are not reused, there is
no nested `processEvents()`, the thread is not started again, and the insertion into
`deletedReceivers` is made when the destructor begins (nothing reads the set before it ends). User
code is assumed to respect what the library cannot check: nobody calls a method of an object that is
already being destroyed.

### CallLater

A step is one critical section of the registry's mutex or of a node's, one lookup of the dispatcher,
or one post. `pending` is `sPending`, `invoker` the contents of the nodes; nodes and invokers are
named by the number of the call that made them, so a metacall carries a key, a node and the call
that posted it. A node that goes with its last holder, after `Undo` or a stop of the thread, keeps its contents
in the model, so that the calls lost with it can be told (`Stranded`). `stage` follows the loop thread through a metacall (`erase`, `move`, `slot`) and
through stops and restarts of the thread; `run` tells its dispatchers apart, since a call may post
to one that has been dropped after it was resolved. The loop takes events in any order: the order is
`EventDispatcher`'s matter. `~Object()` of a context is one step, because whoever destroys an object
must see to it that nobody is inside a call on it, and no other thread can touch its keys then; a new
object may take the address, and with it the keys. The history variables `before`, `returned` and
`settled` say which call was made after which had returned.

### ThreadLifecycle

`call` and `pc` are the public call a thread is making and its place in it; `start()` and `~Thread()`
go through the places of `wait()`, which they call. `stage` is the same for the OS threads: a run is
`gone` when `threadEntry()` has returned, which is what `pthread_join()` and the object of a Windows
thread wait for. `platform`, chosen at the start, is the one of `ThreadPosix.cpp` and `ThreadWin.cpp`
that is built. An OS thread, its native handle and the dispatcher it creates have the number of the
run; `handle` is `mThreadId` while `mJoinable`, or `mHandle`. The mutexes are not variables: who
holds `mPriorityMutex` follows from `pc` (`PriorityHolders`: the stores of `start()` up to the
creation, which other threads see one by one, the use of the handle, the POSIX join), and
`mWaitMutex` is held between the test of the predicate and the block. `mWaiters` is the number of
callers between the two sections of the Windows `wait()`. `exit()` is the store of `mExiting`, the
lookup of the dispatcher, and the nudge of whatever it found, which may be that of a run that is over.
Inside `exec()` only what can end it is kept: a pass comes back when it was nudged, or because it
had something to do; that a nudge ends a pass is what `EventDispatcher` shows.

Left out: the values of priorities and exit codes, `mPriorityNeedsReset` (it decides about a call
that does nothing on POSIX), a failing `ResumeThread()` or `WaitForSingleObject()`, adopted threads,
and calls that a slot of the run itself makes on its own `Thread`. Users are taken at their word where the
library cannot check: nobody begins a call on an object while it is being destroyed. What callers
may otherwise overlap is a matter of constants: `StartsRace`, whether two may be in `start()` at
once, and `RestartsMeetWaits`, the platforms where a `start()` may overlap somebody's `wait()`.

### Affinity

`home` is the `Affinity` box of each object (the thread whose `ThreadData` it holds), `queue` and
`table` the event queue and the timers of the dispatcher a thread has at the moment. `stage` says
whether it has one: `off` before a worker's run and after it, `gone` once the `Thread` is destroyed,
so that `thread()` is null. The main thread was adopted, with a plain dispatcher, before
`CoreApplication` is constructed (`AppConstruct`), and gets a plain one back when it is destroyed
(`Close`, `DrainPass`, `LetGo` with `app`). `call[t]` is the dispatcher call thread `t` is inside: a
call resolves the dispatcher of another thread, keeps the reference, and posts or registers a step
later, when that thread may have dropped it (`dropped`). `moveToThread()` is `Move` up to
`setData()`, then `ResolveRearm`, which reads the affinity again, and `Post`; the queued lambda is
`DispatchRearm`, which resolves once more, and `Register`. `Timer::singleShot()` is `SingleShotCall`,
with `DispatchArm` when the helper has to be asked to arm itself on another thread.

A pass is `batch`, `timerBatch` and `buried` (`deletedReceivers`), as in `ObjectLifetime`; wakeups are
left to `EventDispatcher`, time to a choice of timers that have expired. Left out: intervals, names,
direct calls, slots that call into an object that is being destroyed, the end of an adopted thread,
and nested passes. Calls the library refuses by comparing threads are not made, except the
`killTimer()` of the `stop()` that `timerEvent()` makes, which can be refused (`KillTimer`). `quiet` is a discipline of the users: an object
is moved only when nothing about it is queued, in a batch or being posted, and a call to
`deleteLater()` does not overlap a `moveToThread()`. Without it, events do stay behind on the thread
they were posted to; that is what the code accepts, and what `OneCopy` and `ShotOnce` do not mind.

### Connections

A connection is known to two sides, and no step changes both: `connected` is the slot in its signal,
`incoming` the list of its receiver. `connect()` is `Connect`, `Insert` (into the signal), `Track`
(into the list), `Release` (its own reference to the `Cleanup` token). The walks of an emission,
`disconnect()`, `~Signal()` and `~Object()` are one `todo` set each, visited in any order. A slot is
destroyed by whoever drops it last, and the token by whoever lets go of its last reference; then the
thread is in `~Cleanup()`: `test` of the life token, `erase` under `mIncomingMutex`. `boost::signals2`
is not in the repository. It is modelled as far as the code relies on it: an emission keeps the slot it
is in, skips those disconnected since, and does its bookkeeping under the signal's mutex, which a
thread that destroys a slot either still holds (the comment of `~Object()` allows for that) or not:
`mode.holding`, and both are explored. `mode.careful` is the discipline of the users that
`~Object()` does not begin while a slot of the object is running, or being destroyed, on another
thread. Left out: nested emissions, slots that connect or disconnect something else than
themselves, and what a wrapper does with its call.

### The abstract specifications, and the refinements

`EventQueue` has no lock, wakeup or batch. `EventDispatcher` implements it under
`pending <- batch \o queue`, `open <- (loop # "done")`: taking a batch is a stutter, the critical
section of `postEvent()` is `Post`, a dispatch is `Deliver`. The abstract fairness, that an event
does not stay pending in an open loop, is part of what is checked, so the refinement contains the
liveness of every wait/wake protocol.

`ObjectLives` has no queue, token or batch. `ObjectLifetime` implements it (`ImplementsLives`) under
`due <- owed`, `entered <- slotOf`, `open <- StillLooks`, and `phase` itself: `deleteLater()` is `Ask`,
`BeginDestroy` and `FinishDestroy` are `Die` and `Free`, the drain's last look at an empty queue is
`Close`. While the loop is open an object dies only if that was asked for, no slot or timer event is
entered for another object than a live one, nothing dies while one runs, and the loop closes only when
everybody it owes a deletion to is freed.

`ThreadRuns` has no flag, handle or mutex. `ThreadLifecycle` implements it (`ImplementsRuns`) under
`begun <- runs`, `alive <- AliveRuns`, `gone <- destroyed`, and `awaited`, which is what the callers
inside an untimed wait have found alive: the creation of the OS thread is `Start`, the step that ends
`threadEntry()` is `End`, the look at the running flag or the handle is `Wait`. A timed wait may
give up, so `WaitOutlastsRun` speaks of those.

`Links` has no slot list, `mIncoming`, mutex or token. `Connections` implements it (`ImplementsLinks`): a
connection is `made` from the start of `connect()`, `standing` while its slot is connected in the signal's
list, `cut` when it no longer is (`LinkOf`); a signal is `dying` while a thread is in `~Signal()` (`SignalOf`);
`reached` and `running` are where the visits of emissions are (`ReachedBy`); `strict <- mode.careful`. An
insertion is `Stand`; `disconnect()`, a slot's own or a step of a destructor is `Cut`, if it is the first of them, and a
stutter if it is not; a visit that finds the slot connected is `Reach`; the end of either destructor is `Free` or
`FreeSignal`, which asks that all connections of that end be cut. Both lists, the swap of `mIncoming`, `Cleanup` and
its tokens are stutters: whatever they do, they may not bring a cut connection back, leave one standing
when an end has gone, or let a careful user's slot start on a dying receiver.

These three are refinements of safety alone: the liveness of `ObjectLifetime` and `ThreadLifecycle` is
stated apart, `Connections` states none.

## 3. The runs

Symmetry over threads, signals, contexts, slots or connections is used in configurations that check
no liveness property and have more than one of them; every specification treats them alike.

Bounds and what they make happen:

* Dispatcher runs: one other thread plus the loop thread, which makes calls from its own slots; two
  events, so that order and an event posted during a dispatch are seen; one timer, registered and
  unregistered at any moment; one `exit()` (or bare `wakeUp()`, `interrupt()` or WM_QUIT) and one
  second `exec()` (`Dispatcher`). `Wakeups` makes do with one event and has one event source instead,
  registered and unregistered by either thread, and system calls that fail (`Failing`). With two
  sources of one descriptor, one replacing the other, and no timer its properties hold too.
* Lifetime run: two objects, so that one can destroy the other from a slot, a timer event or a
  destructor; two other threads; two wrapper invocations. Timers may be started and killed without
  bound.
* CallLater runs: two threads and the loop's own slots, one object with two slots, three calls (a
  pending one, one that joins it, one that comes after), two runs of the thread. Objects die and are
  replaced without bound.
* Thread runs: the owner, who alone starts, and one other thread; two OS threads, so that every step
  of one run can meet what the next one changes. The number of calls is not bounded.
* Affinity run: the main thread, one worker that may be started again and again, one `Timer`, one
  helper; moves, passes, starts and stops of the loops and of `CoreApplication` without bound. Two timer
  ids: for a second `start()` while an expiry of the first is under way, or for a helper beside a
  timer. The constraint `Small` follows settled moves (`quiet`) with both, and arbitrary moves with one
  id and no helper, which nobody can move.
  One queued slot per object is under way at a time (`CallUnderWay`).
* Connections runs: three threads, since the hazard needs one that drops a slot, one that holds the
  life token, and one in `~Object()`; two connections of one receiver; two signals, so that a walk of
  the receiver meets a walk of each signal. Emissions and disconnects without bound; a connection is
  made once.

| run | asks |
|---|---|
| `Dispatcher` | the liveness of the wait: rest, timers, and the refinement of `EventQueue`, on the condition variable and the eventfd |
| `Wakeups` | no lost wakeup, no `exit()` slept through and no stale copy of the event sources on any of the three platforms; the collapsing flag, when system calls fail and when many call at once; `exit()` ends the loop |
| `Lifetime` | two other threads and the slots delete: the refinement of `ObjectLives`; timers reach live objects, and deferred deletes are carried out, loop stopped or not |
| `CallLater` | calls collapse and the last one wins, restarts included; no entry is left without a carrier before the thread stops, and each is taken out in the end |
| `CallLater_overtaken` (violation) | a call joins an entry whose metacall overtakes it, and never runs |
| `CallLater_restart` (violation) | a metacall freed by a stopping thread disables its slot after the restart |
| `Thread` | the refinement of `ThreadRuns`; `wait()` outlasts the run, is notified of it and comes back, `exit()` is heard and ends the run, handles are used while valid, nothing is left after `~Thread()`; restarts meet waits on Windows |
| `Thread_restart` (violation) | on POSIX a waiter of the previous run joins the next one with `mPriorityMutex` held, which the run needs to end |
| `Affinity` | a timer is in one place however it is moved, single shots fire once; settled objects are served at home and alive |
| `Affinity_dangling` (violation) | the queued re-registration of a timer runs on a freed object that had moved on |
| `Connections` | the refinement of `Links`; both sides of a connection agree, `~Cleanup()` meets live receivers, no circle of mutexes |
| `Connections_cleanup` (violation) | without the discipline, `~Cleanup()` locks the mutex of a freed receiver |

What the models show besides, by changing the constants of a configuration:

* On Windows a bare `wakeUp()` may have its message consumed by `processPlatformEvents()` of the
  running pass (`EventDispatcherWin32.cpp:172`) while `mWakeUpRequested` stays set for a wait that
  never looks at it: without its first conjunct `WakeUpHeeded` fails for `win32`. That is harmless
  for `exit()`, which also interrupts, and within the library only `exit()` calls `wakeUp()`; but both
  are public, and `Control` makes them callable.
* `Lifetime` with `ClientsEmit = TRUE`: a thread that is emitting holds the life token
  (`Object.h:571`), so the queued call of an earlier emission passes its own check while the object is
  being destroyed, and `ImplementsLives` fails (`SlotsReachLive` says it by itself).
* `Lifetime` with `DirectDeletes = TRUE`, slots that delete directly: an object deleted by a slot still
  receives the timer event the pass has collected for it, and `TimersReachLive` fails.
* `Thread` with two starters and `StartsRace = TRUE`: `start()` tests the running flag before it takes
  `mPriorityMutex` and not again under it (`Thread.cpp:65`), so two callers at once create two OS
  threads, and `ImplementsRuns` fails (`OneRun` says it by itself).
* `SourcesUpToDate` is what holds of an unregistered descriptor: the wait that still polls it is being
  ended. It is not that "the caller is entitled to close it once we return"
  (`EventDispatcherLinux.cpp:106-107`): the loop may have copied the sources and not yet have called
  `poll()`, which then runs on a closed descriptor, or on whatever file has its number by then, and
  the copied callback is invoked (`CallSource`) for it.
* Sources are polled only by a pass that finds nothing else to do (`CollectAndWait`): a timer that is
  due in every pass keeps them from being heard, although "the loop will poll() it alongside
  everything else" (`EventDispatcherLinux.h:16`).
* `Dispatcher` with `Platforms = {"win32"}` and `MaxExecs = 0`: the refinement, `LoopRests` and
  `TimerFires` hold of the message queue too.

And what they show by construction, worth knowing for a user of the library:

* An active timer moved to a worker that has not been started, or to no thread, is forgotten: the
  re-registration finds no dispatcher (`ResolveRearm`, `Object.cpp:376`), although `isActive()` stays
  true. `OneCopy` counts such timers as `lost`, and those that went down with a dispatcher.
* `CoreApplication.cpp:74-75` says nothing can be lost in the swap of dispatchers since the thread was
  adopted in that very constructor. It need not have been: any `Object`, or `Thread::currentThread()`,
  adopts the thread earlier, and what was queued or registered by then is discarded (`Replace`).
* `Timer::stop()` on a foreign thread "warns and leaves the timer running" (`Timer.cpp:90`), but clears
  `mTimerId`, so that the timer never emits again.
* `moveToThread()` uses `this` after `setData()`, when the new thread may already run code that deletes
  the object; a `singleShot()` helper whose context has no dispatcher is leaked (`Timer.h:229-233`).
* A `deleteLater()` that lands between the drain's last look and the drop of the dispatcher is never
  carried out; `ObjectLives`, and `StoppedLoopOwesNothing`, speak of those that were asked for before that look.

`CHECK_DEADLOCK FALSE` everywhere: loops return, threads finish and bounded callers have nothing
left to do, so every system here may legitimately stop.

### Fairness

Every thread that has begun a call goes on with it, the loop thread is scheduled, slots and cleanup
callbacks return, time passes. Threads that wait for `mMutex` get strong fairness: the loop holds
and releases the mutex once per pass, and a `std::mutex` that starved a waiter for ever would make
no program live; the same goes for `mPriorityMutex` and `mWaitMutex` in `ThreadLifecycle`. Nothing is assumed of what callers choose to do, of spurious wakeups, other
descriptors or WM_QUIT, nor that the loop is ever told to stop, that a timed wait ever runs out, or
that an overridden `run()` comes back by itself. `Affinity` and `Connections` state no fairness:
their properties are invariants.

## 4. What is proved

`EventDispatcherProofs` (any threads, events, timers, platform, bounds):

* `TypeCorrect`.
* `WakeInvariant`: the inductive invariant `WakeInv`. `NoLostWakeup` alone is not inductive: that
  the condition variable's waiter blocks with a false predicate needs `BlockedKnowingly` (the
  mutex is the loop's from test to block, and everything the predicate reads changes under it); that
  a poller's `exchange` which finds the flag set may rely on somebody else's wakeup needs
  `FlagNeverWedged`; that an interrupt the pass has looked past before it arrived ends the coming
  wait needs `InterruptCovered`.
* `WakeupsAreNeverLost` and `SourcesAreHeard` follow, the first with `DeadlinesKnown`: a wait
  whose deadlines miss a timer has `mTimersChanged` set, which ends it.
* `FlagIsTheWakeup`: besides, there is never a second wakeup while `mWakePending` is set, so that a burst of posts
  leaves one message in a queue "of fixed capacity" (`EventDispatcherWin32.cpp:138-140`). From `FlagHeld`: whoever makes the
  wakeup, has failed to, or has taken it and not yet cleared the flag, finds the flag set and keeps the others
  out; and `read()` comes only after `poll()` has reported something to read.
* `ExitIsHeeded`: a loop does not sleep through an `exit()`. From `ExitPending`: the loop takes an interrupt
  back only where it goes on to test `mExiting`, so that past this test the interrupt of an `exit()` is still there or
  still to come; if it is there, `WorkCovered` has a wakeup for it.
* `WakeUpsAreHeeded`, off Windows, from `RequestCovered`: from the moment the request is stored until
  the wait that clears it, a wakeup is there or is being made.
* `DispatcherIsAQueue`, the safety part of the refinement `ImplementsQueue`, from `BatchInPass`: a batch is left
  only where a pass is under way, so that what the next pass takes comes after nothing. A step posts,
  hands over the oldest (`OldestOfBatch`), starts or stops the loop, or moves events between `queue` and
  `batch`, which `EventQueue` does not see.

`ObjectLifetimeProofs` (any objects, clients, number of calls; slots on the loop use
`deleteLater()`, i.e. `DirectDeletes = FALSE`):

* `TypeCorrect` (without that assumption).
* `LifeInvariant`: the inductive invariant `LifeInv`. Its heart is `OneDelete` (per object at most
  one deferred delete is queued, taken or about to be queued, and its receiver is alive) together
  with `Stages` (what each stage of `threadBody()` has behind it).
* `ObjectsDieOnce`, `DeleteLaterIsSafe`, `StoppedLoopIsClean`, `TimersReachTheLiving`, and
  `SlotsReachTheLiving` when other threads do not emit.
* `LivesAreKept`, the refinement of `ObjectLives`, when other threads do not emit. That an object dies only
  when that was asked for needs `PendingOwed`: a delete that is queued or taken is owed. That the loop closes
  with nothing owed and nothing half destroyed needs `Nests`: the objects being destroyed are those on the
  stacks of the threads, each once, so that with empty stacks everything that has died is freed. That
  nothing dies under a slot, and a slot is left before the next is entered, needs `SlotsClear`.

`CallLaterProofs` (any threads, contexts, slots and bounds):

* `TypeCorrect`.
* `CallInvariant`: the inductive invariant `CallInv`. `OneQueued` needs `Carriers`: an entry and its
  carrier (the creator or the metacall) name the same node, so a second carrier would be the first.
  `LatestRuns` needs `Overwrites`: an invoker found in a node never belongs to a call that a returned
  one had followed; a caller that was overtaken still holds an older node, which is why the invariant
  speaks of `pending` and not of the node a call holds.
* `CallsCollapse` and `LastArgumentsWin` follow, stops and restarts included.
* `CallsRunOnce` (`RunsOnce`, an action property no run lists): a slot is entered with an invoker that was waiting and
  waits no more, and a call that was run or replaced never waits again. From `OneNode`: an invoker is in
  the hands of its caller or in one node, and gets there from nowhere else (`HowInvokersMove`).
* `NoEntryIsForgotten`, until the thread drops its dispatcher, a condition `CallLater_restart` shows
  to be necessary.
* `OnlyTheForsakenAreLost` (`LostOnlyIfForsaken`, an action property no run lists): as long as the dispatcher
  stays, an invoker comes to be in a node nobody will look into in two ways only. Either its own store puts it
  there, because the node has left the registry since the call joined it (`Overtaken`, shown by
  `CallLater_overtaken`); or the creator of the node finds no dispatcher and gives up (`Undo`), and takes along
  what the node holds: its own call, or that of a caller that joined the entry and stored in time. The model
  keeps the nodes nobody holds any more so that both losses can be counted. Since a node in the registry has a carrier
  (`ServedInv`), only a step of that carrier could strand what it holds, and of those the post and the metacall
  do not (`HeldOrStranded`, `CallLosesNothing`, `OthersLoseNothing`). What is lost stays lost (`TheLostStayLost`),
  and an invoker that leaves its node without another in its place runs, or its context has died (`TheTakenRun`).
* `OwnCallsAreInTime` and `OwnCallsAreNotLost`: the thread's own calls are not overtaken, since the metacall they rely on
  cannot run while the thread is inside `callLater()` (`OwnInv`). This holds if nobody calls before there is a
  dispatcher, or if nobody else calls: a foreign creator that finds no dispatcher takes its entry back, with
  the invoker of whoever joined it. The second, that no call at all is lost before the stop, is for a thread that is
  the only caller; `CallLater_overtaken` shows that with one more it is not so.

`ThreadLifecycleProofs` (any callers, starters, platforms, number of runs; all but `TypeCorrect` if no two callers are
in `start()` at once, i.e. `StartsRace = FALSE`):

* `TypeCorrect`.
* `ThreadInvariant`: the inductive invariant `ThreadInv`, if no two callers are in `start()` at once
  (with two starters and `StartsRace = TRUE`, `OneRun` fails). `OneRun` needs to know that whoever starts has
  seen the previous run end, wherever in `wait()` it learnt it (`Current`): from the absent handle,
  from the join, or on Windows from the copy of the handle, which is that of the run alive as long as
  nobody else can start (`Copies`). The running flag belongs to a thread before the end of its
  body only while nobody is between the stores of `start()` and the creation (`RunningFlag`), and
  `Exclusive` keeps `setPriority()` out of that stretch.
* `OneRunAtATime`, `PrioritiesMeetLiveThreads`, `HandlesAreUsedOpen`, `DestroyedThreadsAreQuiet` and
  `WaitsOutlastRuns` follow; `WaitersLetFinish` follows where `start()` does not overlap a `wait()` on
  POSIX, a condition `Thread_restart` shows to be necessary (`FinishedFlag`, `Joiners`).
* `SleepersAreAlwaysWoken`: on POSIX a run notifies its waiters once, and nobody sleeps past it. Under the same
  condition, from `Sleepers`: whoever tests the predicate or sleeps holds the handle of a run that has not notified,
  because the flag it waits for changes under the mutex it holds from test to block.
* `ExitsAreHeard`, from `Heard`: a run that was asked to end while alive finds `mExiting` set until `start()` clears
  it for the next one, and the dispatcher an `exit()` looks up afterwards is the one this run holds.
* `ThreadImplementsRuns`, the refinement of `ThreadRuns`, if no two callers are in `start()` at once. `FoundByWaits`:
  only a caller inside `wait()` has runs to outlast. What a run leaves alone is settled by `ThreadInv`, and that a wait returns after
  the runs it found by `WaitsOutlastRuns`.

`AffinityProofs` (any threads, timers, helpers, bounds; settled moves or not):

* `TypeCorrect`. Types alone are not inductive: they need `HelpersAtHome`, that a helper stays on the
  thread it was made for and that nobody knows one that does not exist yet.
* `TimersAreInOnePlace`, from the invariant `Custody`. `OneHolder`: an id is held in one place (a
  table, a queued re-registration, a call under way), for one object. `IdsBelow`: every id anywhere is below `nextId`,
  so a new one is held nowhere. `HeldForOwner`: a place holds the current id of an object only for
  that object. `Held`: the id of a live object that is not lost is held. A timer whose `killTimer()` was
  refused leaves its registration behind; that id is nobody's any more. `Tidy` says of queues and passes
  what deletion needs: `OneEvent`, `BuriedFreed`, `OnlyRearmsCarry`, `BatchOfPass`.

`AffinityShotProofs` (the same), on top of `Custody`:

* `SingleShotIsOne`, from `Shot`. A `Timer` that runs has not fired as a single shot (`TimerShot`), for it
  stops itself first. A helper stays registered after it has fired, so more is needed: it asks to be
  deleted when it fires and not before (`Fired`, `Condemned`); it is armed once, before anything else
  happens to it (`Unarmed`, `OneArm`); and once it has fired, its thread comes to the deferred delete
  before it comes to the timer again (`Doomed`): the delete is in the batch, or it is in the queue that
  every pass takes at the moment it collects the expired timers.

`AffinityQuietProofs` (the same), on top of `Shot`:

* `EverythingIsServedAtHome` and `OnlyTheLiveAreTouched`, from `Standing` and `AllSettled`. `Standing` holds whatever users
  do: a thread without a dispatcher has nothing queued or registered (`Emptied`), nobody reaches for a dispatcher
  that is not there (`Reaching`), and only a pass has timers (`TimersOfPass`). `Settled` is what the discipline
  `quiet` keeps true of each object: what is queued, taken, registered or expired is on its thread, and only a
  queued slot outlives it (`QueuedHere`, `TakenHere`, `RegisteredHere`, `ExpiredHere`); one thread at a time hands over
  what will touch it, and not while it is to be deleted (`HandedHere`); it is to be deleted once (`Undeleted`).

`ConnectionsProofs` (any threads, signals, receivers, connections, disciplines):

* `TypeCorrect`, with `Ends` (both ends of a connection are known at once), `Hand` (what a thread has
  in hand at each step) and `OneDestroyer`.
* `ListsStayInStep` and `NoSlotLeftBehind`, from `Book`: what `~Object()` has still to disconnect is in
  its walk, or in `mIncoming` until it takes that (`Walked`), and a token is destroyed only after its
  connection, and after its `connect()` (`Dropped`).
* `CleanupIsSafe`, from `SlotsOfLive`, if `mode.careful`; `Connections_cleanup` shows that the condition
  is needed.
* `NoCircleOfWaiting`, from `Holders`: a signal's mutex is held only by a thread in `~Cleanup()`, an
  `mIncomingMutex` only by one that swaps the list, which waits for nothing; so no two threads can wait
  for each other, nor more than two in a circle.
* `LinksAreKept`, the refinement of `Links`, from `Book`, `SlotsOfLive` and `SignalUse`. That a connection stands only while
  its signal lives needs that a signal being emitted or connected to is there, and that a connection is inserted
  once, by the one thread that made it; that a signal goes only when all its connections are cut needs that what is
  still connected is in the walk of `~Signal()` (`SignalUse`), and for a receiver that it is in the walk of `~Object()`
  or in `mIncoming` (`Book`). `SlotsOfLive` is for careful users: their slots start on living receivers.

Only model-checked: the liveness properties and, for that, the liveness of `EventQueue` that the dispatcher
implements. TLAPS has no rules for fairness and ENABLED here.

## 5. What is not modelled

The plan of the modules is carried out. What could still be added, in this order:

1. nested `processEvents()` and reuse of addresses in `ObjectLifetime`: a stack of batches per thread,
   and names for addresses apart from names for objects;
2. a run that deletes its own `Thread`, slots of `started` and `finished` that call it, and the end of
   an adopted thread.

Left out for good: intervals of timers (a negative one gives an id that never fires), templates of `Global.h` and the overload sets of `connect()` (compile time),
object names, the text of warnings, `boost::signals2` (outside the repository), build scripts.
