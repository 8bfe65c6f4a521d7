-------------------------- MODULE ThreadLifecycle --------------------------
(***************************************************************************)
(* One Thread object and the OS threads it runs on, one after another:     *)
(* start(), threadBody(), exit(), wait(), setPriority() and ~Thread(), on  *)
(* POSIX and on Windows.  A step is a critical section, the access to one  *)
(* atomic, or one system call; sections that do several things another     *)
(* thread can see without the lock are split.                              *)
(*                                                                         *)
(* Which mutex is held follows from where the callers are: mPriorityMutex  *)
(* over the creation of the OS thread, the use of its handle and the POSIX *)
(* join; mWaitMutex between the test of the predicate and the block.  An   *)
(* OS thread, its handle and the dispatcher it creates all have the number *)
(* of the run.  Inside exec() only what ends it is kept: EventDispatcher   *)
(* has the rest, and shows that interrupt() and wakeUp() end a pass.       *)
(***************************************************************************)
EXTENDS Naturals

CONSTANTS Callers,           \* threads that use the object
          Starters,          \* those among them that call start()
          Platforms,         \* the platforms to build for
          RestartsMeetWaits, \* those where start() may overlap somebody's wait()
          StartsRace,        \* whether two callers may be in start() at once
          MaxRuns            \* bound on the number of OS threads created

ASSUME ConstantsAssumption ==
  /\ Starters \subseteq Callers
  /\ Platforms \subseteq {"posix", "win32"} /\ RestartsMeetWaits \subseteq Platforms
  /\ StartsRace \in BOOLEAN
  /\ MaxRuns \in Nat

Runs == 1 .. MaxRuns
None == 0

VARIABLES
  platform,   \* the one of ThreadPosix.cpp and ThreadWin.cpp that is built
  call, pc,   \* what each caller is doing, and where it is in it
  op,         \* its locals: the handle wait() copies on Windows, or the dispatcher exit()
              \* refers to; and, as history, the runs that were alive when a wait() began
  running,    \* ThreadData::mThreadRunning
  finished,   \* mFinished
  exiting,    \* mExiting
  handle,     \* the OS thread of mThreadId while mJoinable, or of mHandle; None without
  dispatcher, \* ThreadData::mDispatcher, named by the run that created it
  stage,      \* of every run: where its OS thread is in threadBody()
  held,       \* exec(): the loop's reference to the dispatcher
  created,    \* the runs whose createdDispatcher is set
  nudged,     \* dispatchers that were interrupted and woken
  runs,       \* number of OS threads created
  destroyed,  \* whether ~Thread() has run
  reaped,     \* history: runs joined, or whose handle was closed
  asked       \* history: runs that were alive when exit() set mExiting

flags == <<running, finished, exiting>>
callerVars == <<call, pc, op>>
loopVars == <<dispatcher, held, created, nudged>>
bodyVars == <<loopVars, stage, runs>>
history == <<reaped, asked>>
vars == <<platform, callerVars, flags, handle, bodyVars, destroyed, history>>

WaitStages == {"waitTest", "predicate", "block", "asleep", "reap", "join",
               "object", "completed", "expired"}
Steps == WaitStages \cup
  {"idle", "startLock", "storeFinished", "storeExiting", "create", "exitRead", "exitNudge", "apply"}
Alive == {"entry", "setup", "run", "test", "events", "finish", "clear", "store", "notify", "leave"}

Op == [run : 0 .. MaxRuns, found : SUBSET Runs]
NoOp == [run |-> None, found |-> {}]

TypeOK ==
  /\ platform \in Platforms
  /\ call \in [Callers -> {"none", "start", "wait", "timed", "exit", "setPriority", "destroy"}]
  /\ pc \in [Callers -> Steps]
  /\ op \in [Callers -> Op]
  /\ running \in BOOLEAN /\ finished \in BOOLEAN /\ exiting \in BOOLEAN
  /\ handle \in 0 .. MaxRuns /\ dispatcher \in 0 .. MaxRuns /\ runs \in 0 .. MaxRuns
  /\ stage \in [Runs -> Alive \cup {"none", "gone"}]
  /\ held \in [Runs -> 0 .. MaxRuns]
  /\ created \subseteq Runs /\ nudged \subseteq Runs
  /\ destroyed \in BOOLEAN
  /\ reaped \subseteq 0 .. MaxRuns /\ asked \subseteq Runs
  /\ \A t \in Callers : /\ pc[t] = "idle" <=> call[t] = "none"
                        /\ pc[t] \in {"object", "completed", "expired"} => op[t].run \in Runs
                        /\ pc[t] = "exitNudge" => op[t].run \in Runs
  /\ \A r \in Runs : stage[r] = "events" => held[r] \in Runs

Init ==
  /\ platform \in Platforms
  /\ call = [t \in Callers |-> "none"] /\ pc = [t \in Callers |-> "idle"]
  /\ op = [t \in Callers |-> NoOp]
  /\ running = FALSE /\ finished = FALSE /\ exiting = FALSE
  /\ handle = None /\ dispatcher = None /\ runs = 0
  /\ stage = [r \in Runs |-> "none"] /\ held = [r \in Runs |-> None]
  /\ created = {} /\ nudged = {}
  /\ destroyed = FALSE
  /\ reaped = {} /\ asked = {}

AliveRuns == {r \in Runs : stage[r] \in Alive}

\* mPriorityMutex and mWaitMutex.
PriorityHolders == {"storeFinished", "storeExiting", "create", "apply", "join"}
PriorityFree == \A t \in Callers : pc[t] \notin PriorityHolders
WaitFree == \A t \in Callers : pc[t] # "block"

Enter(t, p, locals) ==
  /\ pc' = [pc EXCEPT ![t] = p]
  /\ op' = [op EXCEPT ![t] = locals]
  /\ UNCHANGED call
Goto(t, p) == Enter(t, p, op[t])

Return(t) ==
  /\ pc' = [pc EXCEPT ![t] = "idle"]
  /\ op' = [op EXCEPT ![t] = NoOp]
  /\ call' = [call EXCEPT ![t] = "none"]
-----------------------------------------------------------------------------
(* A call begins with its first step.                                      *)

Begin(t, c, p) ==
  /\ pc[t] = "idle" /\ ~destroyed /\ \A u \in Callers : call[u] # "destroy"
  /\ call' = [call EXCEPT ![t] = c]
  /\ pc' = [pc EXCEPT ![t] = p]
  /\ UNCHANGED op
-----------------------------------------------------------------------------
(* start().                                                                *)

\* Who may call it when is up to the users of the object; the model says what it assumes.
MayStart(t) ==
  /\ t \in Starters
  /\ \A u \in Callers : /\ call[u] = "start" => StartsRace
                        /\ call[u] \in {"wait", "timed"} => platform \in RestartsMeetWaits

\* Mutant: start() does not reap the previous run.
StartTestNoReap(t) ==
  /\ MayStart(t) /\ ~running
  /\ Begin(t, "start", "startLock")
  /\ UNCHANGED <<platform, flags, handle, bodyVars, destroyed, history>>

\* The flag is read without the lock. A call that finds it set returns without effect.
StartTest(t) ==
  /\ MayStart(t) /\ ~running
  /\ Begin(t, "start", "waitTest")
  /\ UNCHANGED <<platform, flags, handle, bodyVars, destroyed, history>>

\* From here to the creation the lock is held; the flags are seen without it, one by one.
StartLock(t) ==
  /\ pc[t] = "startLock" /\ PriorityFree
  /\ running' = TRUE
  /\ Goto(t, "storeFinished")
  /\ UNCHANGED <<platform, finished, exiting, handle, bodyVars, destroyed, history>>

StoreNotFinished(t) ==
  /\ pc[t] = "storeFinished"
  /\ finished' = FALSE
  /\ Goto(t, "storeExiting")
  /\ UNCHANGED <<platform, running, exiting, handle, bodyVars, destroyed, history>>

StoreNotExiting(t) ==
  /\ pc[t] = "storeExiting"
  /\ exiting' = FALSE
  /\ Goto(t, "create")
  /\ UNCHANGED <<platform, running, finished, handle, bodyVars, destroyed, history>>

\* startPlatformSpecific(): the OS thread and its handle, and the end of the lock.
CreateThread(t) ==
  /\ pc[t] = "create" /\ runs < MaxRuns
  /\ runs' = runs + 1
  /\ handle' = runs + 1
  /\ stage' = [stage EXCEPT ![runs + 1] = "entry"]
  /\ Return(t)
  /\ UNCHANGED <<platform, flags, loopVars, destroyed, history>>

\* The system refuses; the handle of an earlier run stays where it is.
CreateFails(t) ==
  /\ pc[t] = "create"
  /\ running' = FALSE
  /\ Return(t)
  /\ UNCHANGED <<platform, finished, exiting, handle, bodyVars, destroyed, history>>
-----------------------------------------------------------------------------
(* wait(): called by itself, by start() and by ~Thread().                  *)

WaitReturns(t) ==
  \/ call[t] \in {"wait", "timed"} /\ Return(t) /\ UNCHANGED destroyed
  \/ call[t] = "start" /\ Enter(t, "startLock", NoOp) /\ UNCHANGED destroyed
  \/ call[t] = "destroy" /\ Return(t) /\ destroyed' = TRUE

BeginWait(t) ==
  /\ \A u \in Callers : call[u] = "start" => platform \in RestartsMeetWaits
  /\ \E c \in {"wait", "timed"} : Begin(t, c, "waitTest")
  /\ UNCHANGED <<platform, flags, handle, bodyVars, destroyed, history>>

\* The first section of the lock: whether there is anything to wait for.
WaitTest(t) ==
  /\ pc[t] = "waitTest" /\ PriorityFree
  /\ IF handle = None THEN WaitReturns(t)
     ELSE /\ IF platform = "posix"
             THEN Enter(t, "predicate", [run |-> None, found |-> AliveRuns])
             ELSE Enter(t, "object", [run |-> handle, found |-> AliveRuns])
          /\ UNCHANGED destroyed
  /\ UNCHANGED <<platform, flags, handle, bodyVars, history>>

\* Mutant: no waiting for mFinished before the join.
TestPredicateBlind(t) ==
  /\ pc[t] = "predicate" /\ WaitFree
  /\ Goto(t, "reap")
  /\ UNCHANGED <<platform, flags, handle, bodyVars, destroyed, history>>

\* POSIX: mWaitMutex is taken, the predicate evaluated, and the caller blocks with it given up.
TestPredicate(t) ==
  /\ pc[t] = "predicate" /\ WaitFree
  /\ Goto(t, IF finished THEN "reap" ELSE "block")
  /\ UNCHANGED <<platform, flags, handle, bodyVars, destroyed, history>>

Block(t) ==
  /\ pc[t] = "block"
  /\ Goto(t, "asleep")
  /\ UNCHANGED <<platform, flags, handle, bodyVars, destroyed, history>>

\* A spurious wakeup, or the end of the time, after which the predicate decides.
WakesEarly(t) ==
  /\ pc[t] = "asleep"
  /\ \/ Goto(t, "predicate")
     \/ call[t] = "timed" /\ WaitFree /\ IF finished THEN Goto(t, "reap") ELSE Return(t)
  /\ UNCHANGED <<platform, flags, handle, bodyVars, destroyed, history>>

\* Mutant: once mFinished is set the thread is taken for ended.
ReapUnjoined(t) ==
  /\ pc[t] = "reap" /\ PriorityFree
  /\ handle' = None
  /\ reaped' = reaped \cup ({handle} \cap Runs)
  /\ WaitReturns(t)
  /\ UNCHANGED <<platform, flags, bodyVars, asked>>

\* The second section: the first to come joins, holding the lock.
Reap(t) ==
  /\ pc[t] = "reap" /\ PriorityFree
  /\ IF handle = None THEN WaitReturns(t) ELSE Goto(t, "join") /\ UNCHANGED destroyed
  /\ UNCHANGED <<platform, flags, handle, bodyVars, history>>

\* pthread_join().
Join(t) ==
  /\ pc[t] = "join" /\ stage[handle] = "gone"
  /\ handle' = None
  /\ reaped' = reaped \cup {handle}
  /\ WaitReturns(t)
  /\ UNCHANGED <<platform, flags, bodyVars, asked>>

\* Windows: WaitForSingleObject() on the copy of the handle.
ObjectSignalled(t) ==
  /\ pc[t] = "object" /\ stage[op[t].run] = "gone"
  /\ Goto(t, "completed")
  /\ UNCHANGED <<platform, flags, handle, bodyVars, destroyed, history>>

ObjectTimesOut(t) ==
  /\ pc[t] = "object" /\ call[t] = "timed"
  /\ Goto(t, "expired")
  /\ UNCHANGED <<platform, flags, handle, bodyVars, destroyed, history>>

\* mWaiters: the calls between the two sections of the lock.
Waiters == {t \in Callers : pc[t] \in {"object", "completed", "expired"}}

\* Mutant: whoever is first closes the handle.
LeaveObjectCloses(t) ==
  /\ pc[t] = "completed" /\ PriorityFree
  /\ reaped' = reaped \cup {op[t].run}
  /\ handle' = IF handle = op[t].run THEN None ELSE handle
  /\ WaitReturns(t)
  /\ UNCHANGED <<platform, flags, bodyVars, asked>>

\* The last of the waiters closes the handle, if it saw the thread end.
LeaveObject(t) ==
  /\ pc[t] = "completed" /\ PriorityFree
  /\ IF Waiters = {t}
     THEN /\ reaped' = reaped \cup {op[t].run}
          /\ handle' = IF handle = op[t].run THEN None ELSE handle
     ELSE UNCHANGED <<reaped, handle>>
  /\ WaitReturns(t)
  /\ UNCHANGED <<platform, flags, bodyVars, asked>>

LeaveExpired(t) ==
  /\ pc[t] = "expired" /\ PriorityFree
  /\ Return(t)
  /\ UNCHANGED <<platform, flags, handle, bodyVars, destroyed, history>>
-----------------------------------------------------------------------------
(* exit(), and ~Thread(), which begins with it.                            *)

ExitReturns(t) ==
  IF call[t] = "destroy" THEN Enter(t, "waitTest", NoOp) ELSE Return(t)

\* To destroy an object while others use it is their mistake.
StoreExiting(t) ==
  /\ \/ Begin(t, "exit", "exitRead")
     \/ (\A u \in Callers : pc[u] = "idle") /\ Begin(t, "destroy", "exitRead")
  /\ exiting' = TRUE
  /\ asked' = asked \cup AliveRuns
  /\ UNCHANGED <<platform, running, finished, handle, bodyVars, destroyed, reaped>>

\* Mutant: a dispatcher is taken for granted.
ReadDispatcherBlind(t) ==
  /\ pc[t] = "exitRead"
  /\ Enter(t, "exitNudge", [run |-> dispatcher, found |-> {}])
  /\ UNCHANGED <<platform, flags, handle, bodyVars, destroyed, history>>

ReadDispatcher(t) ==
  /\ pc[t] = "exitRead"
  /\ IF dispatcher = None THEN ExitReturns(t)
     ELSE Enter(t, "exitNudge", [run |-> dispatcher, found |-> {}])
  /\ UNCHANGED <<platform, flags, handle, bodyVars, destroyed, history>>

\* Mutant: exit() only sets the flag.
NudgeNobody(t) ==
  /\ pc[t] = "exitNudge"
  /\ ExitReturns(t)
  /\ UNCHANGED <<platform, flags, handle, bodyVars, destroyed, history>>

\* interrupt() and wakeUp().
Nudge(t) ==
  /\ pc[t] = "exitNudge"
  /\ nudged' = nudged \cup {op[t].run}
  /\ ExitReturns(t)
  /\ UNCHANGED <<platform, flags, handle, dispatcher, held, created, stage, runs, destroyed, history>>
-----------------------------------------------------------------------------
(* setPriority(): the test and the use of the handle, in one section.      *)

\* A call that finds no running thread returns without effect.
TestRunning(t) ==
  /\ PriorityFree /\ running /\ handle # None
  /\ Begin(t, "setPriority", "apply")
  /\ UNCHANGED <<platform, flags, handle, bodyVars, destroyed, history>>

ApplyPriority(t) ==
  /\ pc[t] = "apply"
  /\ Return(t)
  /\ UNCHANGED <<platform, flags, handle, bodyVars, destroyed, history>>
-----------------------------------------------------------------------------
(* threadBody() of run r.                                                  *)

Advance(r, s) ==
  /\ stage' = [stage EXCEPT ![r] = s]
  /\ UNCHANGED <<platform, call, op, handle, runs, destroyed, history>>

\* The lock that start() still holds when the OS thread begins.
PassGate(r) ==
  /\ stage[r] = "entry" /\ PriorityFree
  /\ Advance(r, "setup")
  /\ UNCHANGED <<pc, flags, loopVars>>

SetUpDispatcher(r) ==
  /\ stage[r] = "setup"
  /\ IF dispatcher = None THEN dispatcher' = r /\ created' = created \cup {r}
                          ELSE UNCHANGED <<dispatcher, created>>
  /\ Advance(r, "run")
  /\ UNCHANGED <<pc, flags, held, nudged>>

\* run() of Thread enters the loop; one that was overridden may come back by itself.
EnterExec(r) ==
  /\ stage[r] = "run"
  /\ held' = [held EXCEPT ![r] = dispatcher]
  /\ Advance(r, "test")
  /\ UNCHANGED <<pc, flags, dispatcher, created, nudged>>

RunReturns(r) ==
  /\ stage[r] = "run"
  /\ Advance(r, "finish")
  /\ UNCHANGED <<pc, flags, loopVars>>

LoopTest(r) ==
  /\ stage[r] = "test"
  /\ IF exiting \/ held[r] = None
     THEN Advance(r, "finish") /\ held' = [held EXCEPT ![r] = None]
     ELSE Advance(r, "events") /\ UNCHANGED held
  /\ UNCHANGED <<pc, flags, dispatcher, created, nudged>>

\* processEvents() comes back when it was told to, or when it has had something to do.
PassInterrupted(r) ==
  /\ stage[r] = "events" /\ held[r] \in nudged
  /\ nudged' = nudged \ {held[r]}
  /\ held' = [held EXCEPT ![r] = dispatcher]
  /\ Advance(r, "test")
  /\ UNCHANGED <<pc, flags, dispatcher, created>>

PassServed(r) ==
  /\ stage[r] = "events"
  /\ held' = [held EXCEPT ![r] = dispatcher]
  /\ Advance(r, "test")
  /\ UNCHANGED <<pc, flags, dispatcher, created, nudged>>

\* finished(), the drain (ObjectLifetime has it) and the drop of the dispatcher.
DropDispatcher(r) ==
  /\ stage[r] = "finish"
  /\ dispatcher' = IF r \in created THEN None ELSE dispatcher
  /\ created' = created \ {r}
  /\ Advance(r, "clear")
  /\ UNCHANGED <<pc, flags, held, nudged>>

\* Mutant: the flag is cleared without the lock.
ClearUnlocked(r) ==
  /\ stage[r] = "clear"
  /\ running' = FALSE
  /\ Advance(r, "store")
  /\ UNCHANGED <<pc, finished, exiting, loopVars>>

ClearRunning(r) ==
  /\ stage[r] = "clear" /\ PriorityFree
  /\ running' = FALSE
  /\ Advance(r, "store")
  /\ UNCHANGED <<pc, finished, exiting, loopVars>>

StoreFinished(r) ==
  /\ stage[r] = "store"
  /\ finished' = TRUE
  /\ Advance(r, "notify")
  /\ UNCHANGED <<pc, running, exiting, loopVars>>

Woken == [t \in Callers |-> IF pc[t] = "asleep" THEN "predicate" ELSE pc[t]]

\* Mutant: mWaitMutex is not taken around notify_all().
NotifyUnlocked(r) ==
  /\ stage[r] = "notify"
  /\ pc' = Woken
  /\ Advance(r, "leave")
  /\ UNCHANGED <<flags, loopVars>>

NotifyWaiters(r) ==
  /\ stage[r] = "notify" /\ WaitFree
  /\ pc' = Woken
  /\ Advance(r, "leave")
  /\ UNCHANGED <<flags, loopVars>>

\* threadEntry() returns: the OS thread can be joined, its object is signalled.
ThreadEnds(r) ==
  /\ stage[r] = "leave"
  /\ Advance(r, "gone")
  /\ UNCHANGED <<pc, flags, loopVars>>
-----------------------------------------------------------------------------
Begins(t) == StartTest(t) \/ BeginWait(t) \/ StoreExiting(t) \/ TestRunning(t)

\* Steps a caller inside a call takes without waiting for a mutex.
Goes(t) ==
  \/ StoreNotFinished(t) \/ StoreNotExiting(t) \/ CreateThread(t) \/ CreateFails(t)
  \/ Block(t) \/ Join(t) \/ ObjectSignalled(t)
  \/ ReadDispatcher(t) \/ Nudge(t) \/ ApplyPriority(t)

\* Those that take one.
Locks(t) ==
  \/ StartLock(t) \/ WaitTest(t) \/ TestPredicate(t) \/ Reap(t) \/ LeaveObject(t) \/ LeaveExpired(t)

RunGoes(r) ==
  \/ SetUpDispatcher(r) \/ EnterExec(r) \/ LoopTest(r) \/ PassInterrupted(r) \/ DropDispatcher(r)
  \/ StoreFinished(r) \/ ThreadEnds(r)

RunLocks(r) == PassGate(r) \/ ClearRunning(r) \/ NotifyWaiters(r)

Next ==
  \/ \E t \in Callers : Begins(t) \/ Goes(t) \/ Locks(t) \/ WakesEarly(t) \/ ObjectTimesOut(t)
  \/ \E r \in Runs : RunGoes(r) \/ RunLocks(r) \/ RunReturns(r) \/ PassServed(r)

\* Threads go on with what they have begun and every thread gets a mutex that is released
\* again and again. No call need ever begin, no event arrive, no time run out.
Fairness ==
  /\ \A t \in Callers : WF_vars(Goes(t)) /\ SF_vars(Locks(t))
  /\ \A r \in Runs : WF_vars(RunGoes(r)) /\ SF_vars(RunLocks(r))

Safety == Init /\ [][Next]_vars
Spec == Safety /\ Fairness
-----------------------------------------------------------------------------
(* Properties.                                                             *)

\* start() never begins a run while the OS thread of another one is alive: two of them in
\* threadBody() would share the flags, the dispatcher and the affinity (Thread.cpp:47-91).
OneRun == \A r, s \in AliveRuns : r = s

\* Nobody who holds mPriorityMutex waits for a run that has yet to take it: "a waiter cannot
\* keep the finishing thread from taking it" (Thread.h:188-196, ThreadPosix.cpp:213-221).
WaiterLetsFinish ==
  \A t \in Callers : pc[t] = "join" =>
    stage[handle] \notin {"entry", "setup", "run", "test", "events", "finish", "clear"}

\* setPriority() uses the handle of a thread that has not reached the end of its body
\* (Thread.h:188-194, Thread.cpp:236-253).
PriorityMeetsLiveThread ==
  \A t \in Callers : pc[t] = "apply" =>
    handle # None /\ stage[handle] \in Alive \ {"store", "notify", "leave"}

\* No thread is joined twice, and no handle waited for or closed after it was closed
\* (ThreadPosix.cpp:214-221, ThreadWin.cpp:126-155).
HandlesOutliveUse ==
  \A t \in Callers :
    /\ pc[t] = "join" => handle \in Runs \ reaped
    /\ pc[t] \in {"object", "completed", "expired"} => op[t].run \notin reaped

\* When ~Thread() has waited, no OS thread is left to touch the object, and none unreaped
\* (Thread.cpp:27-45).
DestroyedIsQuiet == destroyed => AliveRuns = {} /\ handle = None

\* wait() that returns true, the wait of start() and ~Thread() included, returns after the
\* runs it found alive are over (ThreadPosix.cpp:172-222, ThreadWin.cpp:110-157).
Waited(t) == pc[t] \in {"reap", "join", "completed"} /\ pc'[t] \in {"idle", "startLock"}
WaitOutlastsRun ==
  [][\A t \in Callers : Waited(t) => \A r \in op[t].found : stage[r] = "gone"]_vars

\* A waiter that blocks, or is asleep, has the one notification of its run still to come:
\* mFinished is stored without mWaitMutex, so nothing but the lock around notify_all() keeps
\* it from coming between the waiter's test and its block (ThreadPosix.cpp:175-205).
SleepersAreWoken ==
  \A t \in Callers : pc[t] \in {"block", "asleep"} => \E r \in AliveRuns : stage[r] # "leave"

\* A run that was asked to end and is inside a pass of the loop has been interrupted, or the
\* thread in exit() is still on its way to the dispatcher this run holds; and nothing has taken
\* the request back (Thread.cpp:184-197, 444-455).
ExitIsHeard ==
  \A r \in asked : stage[r] = "events" =>
    /\ exiting
    /\ \/ held[r] \in nudged
       \/ \E t \in Callers : \/ pc[t] = "exitNudge" /\ op[t].run = held[r]
                             \/ pc[t] = "exitRead" /\ dispatcher = held[r]

\* A run that was alive when exit() was called comes to its end, wherever it was
\* (Thread.cpp:184-197, 444-455).
ExitEndsRun == \A r \in Runs : r \in asked ~> stage[r] = "gone"

\* wait() comes back once the run is over, whatever else is started, timed out or destroyed
\* meanwhile (ThreadPosix.cpp:175-222).
WaitEnds == \A t \in Callers :
  (pc[t] \in WaitStages /\ AliveRuns = {}) ~> (pc[t] \notin WaitStages \/ AliveRuns # {})

\* The runs, waits and the end of the object are those of ThreadRuns. A wait() with a time may
\* give up, so only those without one are mapped; WaitOutlastsRun has the others.
Abstract == INSTANCE ThreadRuns WITH
  begun <- runs, alive <- AliveRuns, gone <- destroyed,
  awaited <- [t \in Callers |-> IF call[t] = "timed" THEN {} ELSE op[t].found]
ImplementsRuns == Abstract!Safety
=============================================================================
