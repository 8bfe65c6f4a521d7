----------------------- MODULE ThreadLifecycleProofs -----------------------
(***************************************************************************)
(* What is proved of ThreadLifecycle for every set of callers, number of   *)
(* runs and choice of platforms, when no two callers are in start() at     *)
(* once (with StartsRace OneRun fails: each of two callers creates one).   *)
(***************************************************************************)
EXTENDS ThreadLifecycle, TLAPS

LEMMA Locals ==
  /\ \A o \in Op : o.run \in 0 .. MaxRuns /\ o.found \subseteq Runs
  /\ \A n \in 0 .. MaxRuns, S \in SUBSET Runs : [run |-> n, found |-> S] \in Op
  /\ NoOp \in Op /\ NoOp.run = None /\ NoOp.found = {}
BY ConstantsAssumption DEF Op, NoOp, None, Runs

CallNames == {"none", "start", "wait", "timed", "exit", "setPriority", "destroy"}
NeedsRun == {"object", "completed", "expired", "exitNudge"}

\* TypeOK in two halves: the callers, and the object with its OS threads.
CallersOK ==
  /\ call \in [Callers -> CallNames]
  /\ pc \in [Callers -> Steps]
  /\ op \in [Callers -> Op]
  /\ \A t \in Callers : /\ pc[t] = "idle" <=> call[t] = "none"
                        /\ pc[t] \in NeedsRun => op[t].run \in Runs

ObjectOK ==
  /\ platform \in Platforms
  /\ running \in BOOLEAN /\ finished \in BOOLEAN /\ exiting \in BOOLEAN
  /\ handle \in 0 .. MaxRuns /\ dispatcher \in 0 .. MaxRuns /\ runs \in 0 .. MaxRuns
  /\ stage \in [Runs -> Alive \cup {"none", "gone"}]
  /\ held \in [Runs -> 0 .. MaxRuns]
  /\ created \subseteq Runs /\ nudged \subseteq Runs
  /\ destroyed \in BOOLEAN
  /\ reaped \subseteq 0 .. MaxRuns /\ asked \subseteq Runs
  /\ \A r \in Runs : stage[r] = "events" => held[r] \in Runs

LEMMA Halves == TypeOK <=> CallersOK /\ ObjectOK
BY DEF TypeOK, CallersOK, ObjectOK, CallNames, NeedsRun

\* The three ways a caller moves.
LEMMA EnterTypes ==
  ASSUME CallersOK, NEW t \in Callers, pc[t] # "idle", NEW p \in Steps \ {"idle"}, NEW locals \in Op,
         p \in NeedsRun => locals.run \in Runs, Enter(t, p, locals)
  PROVE  CallersOK'
<1>1. /\ pc' = [pc EXCEPT ![t] = p] /\ op' = [op EXCEPT ![t] = locals] /\ call' = call
  BY DEF Enter
<1>2. pc' \in [Callers -> Steps] /\ op' \in [Callers -> Op] /\ call' \in [Callers -> CallNames]
  BY <1>1 DEF CallersOK
<1>3. ASSUME NEW u \in Callers
      PROVE /\ pc'[u] = "idle" <=> call'[u] = "none"
            /\ pc'[u] \in NeedsRun => op'[u].run \in Runs
  <2>1. CASE u = t
    <3>1. pc'[u] = p /\ op'[u] = locals /\ call'[u] # "none"
      BY <1>1, <2>1 DEF CallersOK
    <3>2. QED
      BY <3>1
  <2>2. CASE u # t
    <3>1. pc'[u] = pc[u] /\ op'[u] = op[u] /\ call'[u] = call[u]
      BY <1>1, <2>2 DEF CallersOK
    <3>2. QED
      BY <3>1 DEF CallersOK
  <2>3. QED
    BY <2>1, <2>2
<1>4. QED
  BY <1>2, <1>3 DEF CallersOK

LEMMA ReturnTypes ==
  ASSUME CallersOK, NEW t \in Callers, Return(t)
  PROVE  CallersOK'
<1>1. /\ pc' = [pc EXCEPT ![t] = "idle"] /\ op' = [op EXCEPT ![t] = NoOp]
      /\ call' = [call EXCEPT ![t] = "none"]
  BY DEF Return
<1>2. pc' \in [Callers -> Steps] /\ op' \in [Callers -> Op] /\ call' \in [Callers -> CallNames]
  BY <1>1, Locals DEF CallersOK, Steps, CallNames
<1>3. ASSUME NEW u \in Callers
      PROVE /\ pc'[u] = "idle" <=> call'[u] = "none"
            /\ pc'[u] \in NeedsRun => op'[u].run \in Runs
  BY <1>1 DEF CallersOK, NeedsRun
<1>4. QED
  BY <1>2, <1>3 DEF CallersOK

LEMMA BeginTypes ==
  ASSUME CallersOK, NEW t \in Callers, NEW c \in CallNames \ {"none"},
         NEW p \in Steps \ {"idle"}, p \notin NeedsRun, Begin(t, c, p)
  PROVE  CallersOK'
<1>1. /\ pc' = [pc EXCEPT ![t] = p] /\ op' = op /\ call' = [call EXCEPT ![t] = c]
  BY DEF Begin
<1>2. pc' \in [Callers -> Steps] /\ op' \in [Callers -> Op] /\ call' \in [Callers -> CallNames]
  BY <1>1 DEF CallersOK
<1>3. ASSUME NEW u \in Callers
      PROVE /\ pc'[u] = "idle" <=> call'[u] = "none"
            /\ pc'[u] \in NeedsRun => op'[u].run \in Runs
  BY <1>1 DEF CallersOK
<1>4. QED
  BY <1>2, <1>3 DEF CallersOK

LEMMA GotoTypes ==
  ASSUME CallersOK, NEW t \in Callers, pc[t] # "idle", NEW p \in Steps \ {"idle"},
         p \in NeedsRun => pc[t] \in NeedsRun, Goto(t, p)
  PROVE  CallersOK'
<1>1. op[t] \in Op /\ (p \in NeedsRun => op[t].run \in Runs)
  BY DEF CallersOK
<1>2. QED
  BY <1>1, EnterTypes DEF Goto

LEMMA WaitReturnTypes ==
  ASSUME CallersOK, ObjectOK, NEW t \in Callers, pc[t] # "idle", WaitReturns(t)
  PROVE  CallersOK' /\ destroyed' \in BOOLEAN
<1>1. NoOp \in Op /\ "startLock" \in Steps \ {"idle"} /\ "startLock" \notin NeedsRun
  BY Locals DEF Steps, NeedsRun
<1>2. QED
  BY <1>1, EnterTypes, ReturnTypes DEF WaitReturns, ObjectOK

LEMMA ExitReturnTypes ==
  ASSUME CallersOK, NEW t \in Callers, pc[t] # "idle", ExitReturns(t)
  PROVE  CallersOK'
<1>1. NoOp \in Op /\ "waitTest" \in Steps \ {"idle"} /\ "waitTest" \notin NeedsRun
  BY Locals DEF Steps, WaitStages, NeedsRun
<1>2. QED
  BY <1>1, EnterTypes, ReturnTypes DEF ExitReturns

LEMMA CallerTypes ==
  ASSUME TypeOK, NEW t \in Callers, Begins(t) \/ Goes(t) \/ Locks(t) \/ WakesEarly(t) \/ ObjectTimesOut(t)
  PROVE  CallersOK'
<1> USE Halves
<1>0. /\ CallersOK /\ ObjectOK
      /\ "idle" \notin NeedsRun /\ NeedsRun \subseteq Steps
      /\ WaitStages \subseteq Steps /\ "idle" \notin WaitStages
  BY DEF NeedsRun, Steps, WaitStages
<1>1. CASE Begins(t)
  <2>1. /\ {"waitTest", "exitRead", "apply"} \subseteq (Steps \ {"idle"}) \ NeedsRun
        /\ {"start", "wait", "timed", "exit", "destroy", "setPriority"} \subseteq CallNames \ {"none"}
    BY DEF NeedsRun, Steps, WaitStages, CallNames
  <2>2. CASE StartTest(t)
    BY <1>0, <2>1, <2>2, BeginTypes DEF StartTest
  <2>3. CASE BeginWait(t)
    BY <1>0, <2>1, <2>3, BeginTypes DEF BeginWait
  <2>4. CASE StoreExiting(t)
    BY <1>0, <2>1, <2>4, BeginTypes DEF StoreExiting
  <2>5. CASE TestRunning(t)
    BY <1>0, <2>1, <2>5, BeginTypes DEF TestRunning
  <2>6. QED
    BY <1>1, <2>2, <2>3, <2>4, <2>5 DEF Begins
<1>2. ASSUME NEW p \in {"storeFinished", "storeExiting", "create", "predicate", "reap", "block", "asleep", "join"},
             pc[t] # "idle", Goto(t, p)
      PROVE  CallersOK'
  <2>1. p \in Steps \ {"idle"} /\ p \notin NeedsRun
    BY DEF NeedsRun, Steps, WaitStages
  <2>2. QED
    BY <1>0, <1>2, <2>1, GotoTypes
<1>3. ASSUME NEW p \in {"completed", "expired"}, pc[t] = "object", Goto(t, p)
      PROVE  CallersOK'
  <2>1. p \in Steps \ {"idle"} /\ pc[t] \in NeedsRun /\ pc[t] # "idle"
    BY <1>3 DEF NeedsRun, Steps, WaitStages
  <2>2. QED
    BY <1>0, <1>3, <2>1, GotoTypes
<1>4. CASE Goes(t)
  <2>1. CASE StoreNotFinished(t) \/ StoreNotExiting(t) \/ Block(t)
    BY <1>2, <2>1 DEF StoreNotFinished, StoreNotExiting, Block
  <2>2. CASE CreateThread(t) \/ CreateFails(t) \/ ApplyPriority(t)
    BY <1>0, <2>2, ReturnTypes DEF CreateThread, CreateFails, ApplyPriority
  <2>3. CASE Join(t)
    BY <1>0, <2>3, WaitReturnTypes DEF Join
  <2>4. CASE ObjectSignalled(t)
    BY <1>3, <2>4 DEF ObjectSignalled
  <2>5. CASE ReadDispatcher(t)
    <3>1. CASE dispatcher = None
      BY <1>0, <2>5, <3>1, ExitReturnTypes DEF ReadDispatcher
    <3>2. CASE dispatcher # None
      <4> DEFINE locals == [run |-> dispatcher, found |-> {}]
      <4>1. locals \in Op /\ locals.run \in Runs
        BY <1>0, <3>2 DEF ObjectOK, Op, Runs, None
      <4>2. pc[t] # "idle" /\ Enter(t, "exitNudge", locals) /\ "exitNudge" \in Steps \ {"idle"}
        BY <2>5, <3>2 DEF ReadDispatcher, Steps
      <4> HIDE DEF locals
      <4>3. QED
        BY <1>0, <4>1, <4>2, EnterTypes
    <3>3. QED
      BY <3>1, <3>2
  <2>6. CASE Nudge(t)
    BY <1>0, <2>6, ExitReturnTypes DEF Nudge
  <2>7. QED
    BY <1>4, <2>1, <2>2, <2>3, <2>4, <2>5, <2>6 DEF Goes
<1>5. CASE Locks(t)
  <2>1. CASE StartLock(t)
    BY <1>2, <2>1 DEF StartLock
  <2>2. CASE WaitTest(t)
    <3>1. CASE handle = None
      BY <1>0, <2>2, <3>1, WaitReturnTypes DEF WaitTest
    <3>2. CASE handle # None
      <4>1. /\ [run |-> None, found |-> AliveRuns] \in Op /\ [run |-> handle, found |-> AliveRuns] \in Op
            /\ handle \in Runs
        BY <1>0, <3>2, ConstantsAssumption DEF ObjectOK, Op, Runs, None, AliveRuns
      <4>2. /\ pc[t] # "idle"
            /\ \/ Enter(t, "predicate", [run |-> None, found |-> AliveRuns])
               \/ Enter(t, "object", [run |-> handle, found |-> AliveRuns])
        BY <2>2, <3>2 DEF WaitTest
      <4>3. "predicate" \in (Steps \ {"idle"}) \ NeedsRun /\ "object" \in Steps \ {"idle"}
        BY DEF Steps, WaitStages, NeedsRun
      <4>4. [run |-> handle, found |-> AliveRuns].run \in Runs
        BY <4>1
      <4>5. CASE Enter(t, "predicate", [run |-> None, found |-> AliveRuns])
        BY <1>0, <4>1, <4>2, <4>3, <4>5, EnterTypes
      <4>6. CASE Enter(t, "object", [run |-> handle, found |-> AliveRuns])
        BY <1>0, <4>1, <4>2, <4>3, <4>4, <4>6, EnterTypes
      <4>7. QED
        BY <4>2, <4>5, <4>6
    <3>3. QED
      BY <3>1, <3>2
  <2>3. CASE TestPredicate(t)
    BY <1>2, <2>3 DEF TestPredicate
  <2>4. CASE Reap(t)
    BY <1>0, <1>2, <2>4, WaitReturnTypes DEF Reap
  <2>5. CASE LeaveObject(t)
    BY <1>0, <2>5, WaitReturnTypes DEF LeaveObject
  <2>6. CASE LeaveExpired(t)
    BY <1>0, <2>6, ReturnTypes DEF LeaveExpired
  <2>7. QED
    BY <1>5, <2>1, <2>2, <2>3, <2>4, <2>5, <2>6 DEF Locks
<1>6. CASE WakesEarly(t)
  BY <1>0, <1>2, <1>6, ReturnTypes DEF WakesEarly
<1>7. CASE ObjectTimesOut(t)
  BY <1>3, <1>7 DEF ObjectTimesOut
<1>8. QED
  BY <1>1, <1>4, <1>5, <1>6, <1>7

LEMMA TypeStep == TypeOK /\ [Next]_vars => TypeOK'
<1> SUFFICES ASSUME TypeOK, [Next]_vars PROVE TypeOK'
  OBVIOUS
<1> USE ConstantsAssumption, Halves
<1>1. ASSUME NEW t \in Callers, Begins(t) PROVE ObjectOK'
  BY <1>1 DEF Begins, StartTest, BeginWait, StoreExiting, TestRunning, ObjectOK,
     flags, loopVars, bodyVars, history, AliveRuns
<1>2. ASSUME NEW t \in Callers, Goes(t) PROVE ObjectOK'
  <2>1. CASE CreateThread(t)
    <3>1. runs + 1 \in Runs /\ runs' = runs + 1 /\ handle' = runs + 1
      BY <2>1 DEF CreateThread, ObjectOK, Runs
    <3>2. stage' = [stage EXCEPT ![runs + 1] = "entry"] /\ "entry" \in Alive
      BY <2>1 DEF CreateThread, Alive
    <3>3. QED
      BY <2>1, <3>1, <3>2 DEF CreateThread, ObjectOK, Runs, flags, loopVars, history
  <2>2. CASE Join(t)
    <3>1. destroyed' \in BOOLEAN
      BY <2>2 DEF Join, WaitReturns, ObjectOK
    <3>2. QED
      BY <2>2, <3>1 DEF Join, ObjectOK, flags, loopVars, bodyVars, None
  <2>3. CASE Nudge(t)
    <3>1. op[t].run \in Runs
      BY <2>3 DEF Nudge, CallersOK, NeedsRun
    <3>2. QED
      BY <2>3, <3>1 DEF Nudge, ObjectOK, flags, history
  <2>4. CASE StoreNotFinished(t) \/ StoreNotExiting(t) \/ CreateFails(t) \/ Block(t)
             \/ ObjectSignalled(t) \/ ReadDispatcher(t) \/ ApplyPriority(t)
    BY <2>4 DEF StoreNotFinished, StoreNotExiting, CreateFails, Block, ObjectSignalled, ReadDispatcher,
       ApplyPriority, ObjectOK, flags, loopVars, bodyVars, history
  <2>5. QED
    BY <1>2, <2>1, <2>2, <2>3, <2>4 DEF Goes
<1>3. ASSUME NEW t \in Callers, Locks(t) PROVE ObjectOK'
  <2>1. CASE StartLock(t) \/ TestPredicate(t) \/ LeaveExpired(t)
    BY <2>1 DEF StartLock, TestPredicate, LeaveExpired, ObjectOK, flags, loopVars, bodyVars, history
  <2>2. CASE WaitTest(t) \/ Reap(t)
    <3>1. destroyed' \in BOOLEAN
      BY <2>2 DEF WaitTest, Reap, WaitReturns, ObjectOK
    <3>2. QED
      BY <2>2, <3>1 DEF WaitTest, Reap, ObjectOK, flags, loopVars, bodyVars, history
  <2>3. CASE LeaveObject(t)
    <3>1. destroyed' \in BOOLEAN
      BY <2>3 DEF LeaveObject, WaitReturns, ObjectOK
    <3>2. op[t].run \in Runs
      BY <2>3 DEF LeaveObject, CallersOK, NeedsRun
    <3>3. reaped' \subseteq 0 .. MaxRuns /\ handle' \in 0 .. MaxRuns /\ asked' = asked
      <4>1. 0 \in 0 .. MaxRuns /\ op[t].run \in 0 .. MaxRuns
        BY <3>2, ConstantsAssumption DEF Runs
      <4>2. QED
        BY <2>3, <4>1 DEF LeaveObject, ObjectOK, None
    <3>4. QED
      BY <2>3, <3>1, <3>3 DEF LeaveObject, ObjectOK, flags, loopVars, bodyVars
  <2>4. QED
    BY <1>3, <2>1, <2>2, <2>3 DEF Locks
<1>4. ASSUME NEW t \in Callers, WakesEarly(t) \/ ObjectTimesOut(t) PROVE ObjectOK'
  BY <1>4 DEF WakesEarly, ObjectTimesOut, ObjectOK, flags, loopVars, bodyVars, history
<1>5. ASSUME NEW r \in Runs, RunGoes(r) \/ RunLocks(r) \/ RunReturns(r) \/ PassServed(r)
      PROVE  ObjectOK' /\ CallersOK'
  <2>1. CASE NotifyWaiters(r)
    <3>1. ASSUME NEW u \in Callers
          PROVE /\ pc'[u] \in Steps /\ (pc'[u] = "idle" <=> call'[u] = "none")
                /\ pc'[u] \in NeedsRun => op'[u].run \in Runs
      BY <2>1 DEF NotifyWaiters, Woken, Advance, CallersOK, Steps, WaitStages, NeedsRun
    <3>2. pc' \in [Callers -> Steps] /\ call' = call /\ op' = op
      BY <2>1, <3>1 DEF NotifyWaiters, Woken, Advance
    <3>3. CallersOK'
      BY <3>1, <3>2 DEF CallersOK
    <3>4. QED
      BY <2>1, <3>3 DEF NotifyWaiters, Advance, ObjectOK, flags, loopVars, history, Alive
  <2>2. CASE ~NotifyWaiters(r)
    <3>1. pc' = pc /\ call' = call /\ op' = op
      BY <1>5, <2>2 DEF RunGoes, SetUpDispatcher, EnterExec, LoopTest, PassInterrupted, DropDispatcher,
         StoreFinished, ThreadEnds, RunLocks, PassGate, ClearRunning, RunReturns, PassServed, Advance
    <3>2. CallersOK'
      BY <3>1 DEF CallersOK
    <3>3. ObjectOK'
      <4>1. CASE PassGate(r) \/ RunReturns(r) \/ ClearRunning(r) \/ StoreFinished(r) \/ ThreadEnds(r)
        BY <4>1 DEF PassGate, RunReturns, ClearRunning, StoreFinished, ThreadEnds, Advance, ObjectOK,
           flags, loopVars, history, Alive
      <4>2. CASE SetUpDispatcher(r)
        BY <4>2, SMTT(30) DEF SetUpDispatcher, Advance, ObjectOK, flags, history, Alive, Runs
      <4>3. CASE EnterExec(r) \/ PassInterrupted(r) \/ PassServed(r)
        BY <4>3 DEF EnterExec, PassInterrupted, PassServed, Advance, ObjectOK, flags, history, Alive
      <4>4. CASE LoopTest(r)
        <5>1. CASE exiting \/ held[r] = None
          BY <4>4, <5>1 DEF LoopTest, Advance, ObjectOK, flags, history, Alive, None
        <5>2. CASE ~(exiting \/ held[r] = None)
          <6>1. held[r] \in Runs /\ held' = held /\ stage' = [stage EXCEPT ![r] = "events"]
            BY <4>4, <5>2 DEF LoopTest, Advance, ObjectOK, Runs, None
          <6>2. QED
            BY <4>4, <6>1 DEF LoopTest, Advance, ObjectOK, flags, history, Alive
        <5>3. QED
          BY <5>1, <5>2
      <4>5. CASE DropDispatcher(r)
        BY <4>5 DEF DropDispatcher, Advance, ObjectOK, flags, history, Alive, None
      <4>6. QED
        BY <1>5, <2>2, <4>1, <4>2, <4>3, <4>4, <4>5 DEF RunGoes, RunLocks
    <3>4. QED
      BY <3>2, <3>3
  <2>3. QED
    BY <2>1, <2>2
<1>6. CASE UNCHANGED vars
  BY <1>6 DEF TypeOK, vars, callerVars, flags, loopVars, bodyVars, history
<1>7. CallersOK' /\ ObjectOK' => TypeOK'
  BY DEF TypeOK, CallersOK, ObjectOK, CallNames, NeedsRun
<1>8. CASE \E t \in Callers : Begins(t) \/ Goes(t) \/ Locks(t) \/ WakesEarly(t) \/ ObjectTimesOut(t)
  BY <1>1, <1>2, <1>3, <1>4, <1>7, <1>8, CallerTypes
<1>9. CASE \E r \in Runs : RunGoes(r) \/ RunLocks(r) \/ RunReturns(r) \/ PassServed(r)
  BY <1>5, <1>7, <1>9
<1>10. QED
  BY <1>6, <1>8, <1>9 DEF Next

\* Type correctness of Thread and its OS threads.
THEOREM TypeCorrect == Safety => []TypeOK
<1>1. Init => TypeOK
  <2> SUFFICES ASSUME Init PROVE CallersOK /\ ObjectOK
    BY Halves
  <2>1. CallersOK
    BY Locals DEF Init, CallersOK, CallNames, Steps, NeedsRun
  <2>2. ObjectOK
    <3>1. 0 \in 0 .. MaxRuns
      BY ConstantsAssumption
    <3>2. stage \in [Runs -> Alive \cup {"none", "gone"}] /\ held \in [Runs -> 0 .. MaxRuns]
      BY <3>1 DEF Init, None
    <3>3. QED
      BY <3>1, <3>2 DEF Init, ObjectOK, None
  <2>3. QED
    BY <2>1, <2>2
<1>2. QED
  BY <1>1, TypeStep, PTL DEF Safety
-----------------------------------------------------------------------------
(* The inductive invariant.                                                *)

PosixWait == {"predicate", "block", "asleep", "reap", "join"}
WindowsWait == {"object", "completed", "expired"}
Storing == {"storeFinished", "storeExiting", "create"}
Starting == Storing \cup {"startLock"}
Ending == {"notify", "leave"}
BeforeClear == {"entry", "setup", "run", "test", "events", "finish", "clear"}

\* Which call a caller's place belongs to, and on which platform.
Places ==
  \A t \in Callers :
    /\ pc[t] \in Starting => call[t] = "start"
    /\ pc[t] \in WaitStages => call[t] \in {"start", "wait", "timed", "destroy"}
    /\ pc[t] \in PosixWait => platform = "posix"
    /\ pc[t] \in WindowsWait => platform = "win32"
    /\ pc[t] = "expired" => call[t] = "timed"

\* Which calls overlap: what users of the object have promised.
Overlaps ==
  /\ \A t, u \in Callers :
       /\ call[t] = "start" /\ call[u] = "start" => t = u
       /\ call[t] = "start" /\ call[u] \in {"wait", "timed"} => platform \in RestartsMeetWaits
       /\ call[t] = "destroy" => t = u \/ pc[u] = "idle"
  /\ destroyed => \A t \in Callers : pc[t] = "idle"

\* mPriorityMutex has one holder.
Exclusive ==
  \A t, u \in Callers : pc[t] \in PriorityHolders /\ pc[u] \in PriorityHolders => t = u

\* Runs are numbered in the order of their creation; what is reaped is over and forgotten.
Numbers ==
  /\ \A r \in Runs : stage[r] = "none" <=> r > runs
  /\ \A r \in reaped : r \in Runs /\ stage[r] = "gone"
  /\ handle \notin reaped

\* The handle is that of the run that is alive, and start() has seen the previous one end.
Current ==
  /\ \A r \in AliveRuns : r = handle
  /\ \A t \in Callers : pc[t] \in Starting => AliveRuns = {}

\* What a waiter on Windows knows of the handle it has copied.
Copies ==
  \A t \in Callers : pc[t] \in WindowsWait =>
    /\ op[t].run \notin reaped
    /\ call[t] = "start" => \A r \in AliveRuns : r = op[t].run
    /\ call[t] = "destroy" => handle = op[t].run
    /\ pc[t] = "completed" => stage[op[t].run] = "gone"

\* What a waiter has seen alive was a run, on Windows the one it waits for.
Sightings ==
  \A t \in Callers :
    /\ pc[t] \in PosixWait \cup WindowsWait => \A r \in op[t].found : stage[r] # "none"
    /\ pc[t] \in WindowsWait => \A r \in op[t].found : r = op[t].run

\* While nobody is starting a run, the running flag is that of a thread before the end of its
\* body; it does not change under setPriority().
RunningFlag ==
  /\ running /\ (\A t \in Callers : pc[t] \notin Storing) =>
       handle \in Runs /\ stage[handle] \in BeforeClear
  /\ \A t \in Callers : pc[t] = "apply" => running

\* mFinished is not set while a run has yet to end, nor when one is created.
FinishedFlag ==
  /\ finished => \A r \in AliveRuns : stage[r] \in Ending
  /\ \A t \in Callers : pc[t] \in {"storeExiting", "create"} => ~finished

\* Whoever is about to join has seen mFinished, and no run has begun since.
Joiners ==
  \A t \in Callers :
    /\ pc[t] = "join" => handle # None
    /\ "posix" \notin RestartsMeetWaits /\ pc[t] \in {"reap", "join"} =>
         \A r \in AliveRuns : stage[r] \in Ending

ThreadInv ==
  /\ Places /\ Overlaps /\ Exclusive /\ Numbers /\ Current /\ Copies /\ Sightings
  /\ RunningFlag /\ FinishedFlag /\ Joiners /\ DestroyedIsQuiet
-----------------------------------------------------------------------------
(* What a step of a caller, and of an OS thread, is made of.               *)

CallerStep(t) == Begins(t) \/ Goes(t) \/ Locks(t) \/ WakesEarly(t) \/ ObjectTimesOut(t)
RunStep(r) == RunGoes(r) \/ RunLocks(r) \/ RunReturns(r) \/ PassServed(r)

\* How the place of the caller that moves changes.
BeginsAt(t) ==
  /\ pc[t] = "idle" /\ ~destroyed /\ \A u \in Callers : call[u] # "destroy"
  /\ \/ call'[t] = "start" /\ pc'[t] = "waitTest" /\ MayStart(t)
     \/ /\ call'[t] \in {"wait", "timed"} /\ pc'[t] = "waitTest"
        /\ \A u \in Callers : call[u] = "start" => platform \in RestartsMeetWaits
     \/ call'[t] = "exit" /\ pc'[t] = "exitRead"
     \/ call'[t] = "destroy" /\ pc'[t] = "exitRead" /\ \A u \in Callers : pc[u] = "idle"
     \/ call'[t] = "setPriority" /\ pc'[t] = "apply" /\ PriorityFree

GoesOn(t) ==
  /\ pc[t] # "idle" /\ call'[t] = call[t]
  /\ \/ pc[t] = "startLock" /\ pc'[t] = "storeFinished" /\ PriorityFree
     \/ pc[t] = "storeFinished" /\ pc'[t] = "storeExiting"
     \/ pc[t] = "storeExiting" /\ pc'[t] = "create"
     \/ pc[t] \in {"waitTest", "reap", "join", "completed"} /\ pc'[t] = "startLock" /\ call[t] = "start"
     \/ pc[t] = "waitTest" /\ pc'[t] = "predicate" /\ platform = "posix"
     \/ pc[t] = "waitTest" /\ pc'[t] = "object" /\ platform # "posix"
     \/ pc[t] = "predicate" /\ pc'[t] \in {"reap", "block"}
     \/ pc[t] = "block" /\ pc'[t] = "asleep"
     \/ pc[t] = "asleep" /\ pc'[t] \in {"predicate", "reap"}
     \/ pc[t] = "reap" /\ pc'[t] = "join" /\ PriorityFree
     \/ pc[t] = "object" /\ pc'[t] = "completed"
     \/ pc[t] = "object" /\ pc'[t] = "expired" /\ call[t] = "timed"
     \/ pc[t] = "exitRead" /\ pc'[t] = "exitNudge"
     \/ pc[t] \in {"exitRead", "exitNudge"} /\ pc'[t] = "waitTest" /\ call[t] = "destroy"

Ends(t) == pc[t] # "idle" /\ pc'[t] = "idle" /\ call'[t] = "none"

LEMMA Moves ==
  ASSUME TypeOK, NEW t \in Callers, CallerStep(t)
  PROVE  /\ BeginsAt(t) \/ GoesOn(t) \/ Ends(t)
         /\ platform' = platform
         /\ \A u \in Callers \ {t} : pc'[u] = pc[u] /\ call'[u] = call[u] /\ op'[u] = op[u]
<1>0. /\ pc \in [Callers -> Steps] /\ op \in [Callers -> Op]
      /\ DOMAIN call = Callers
  BY DEF TypeOK
<1>1. CASE Begins(t)
  BY <1>0, <1>1 DEF Begins, StartTest, BeginWait, StoreExiting, TestRunning, Begin, BeginsAt
<1>2. CASE Goes(t)
  <2>1. CASE StoreNotFinished(t) \/ StoreNotExiting(t) \/ CreateThread(t) \/ CreateFails(t)
    BY <1>0, <2>1 DEF StoreNotFinished, StoreNotExiting, CreateThread, CreateFails, Goto, Enter,
       Return, GoesOn, Ends
  <2>2. CASE Block(t) \/ ObjectSignalled(t) \/ ApplyPriority(t)
    BY <1>0, <2>2 DEF Block, ObjectSignalled, ApplyPriority, Goto, Enter, Return, GoesOn, Ends
  <2>3. CASE Join(t)
    BY <1>0, <2>3 DEF Join, WaitReturns, Enter, Return, GoesOn, Ends
  <2>4. CASE ReadDispatcher(t) \/ Nudge(t)
    BY <1>0, <2>4 DEF ReadDispatcher, Nudge, ExitReturns, Enter, Return, GoesOn, Ends
  <2>5. QED
    BY <1>2, <2>1, <2>2, <2>3, <2>4 DEF Goes
<1>3. CASE Locks(t)
  <2>1. CASE StartLock(t) \/ TestPredicate(t) \/ LeaveExpired(t)
    BY <1>0, <2>1 DEF StartLock, TestPredicate, LeaveExpired, Goto, Enter, Return, GoesOn, Ends
  <2>2. CASE WaitTest(t)
    BY <1>0, <2>2 DEF WaitTest, WaitReturns, Enter, Return, GoesOn, Ends
  <2>3. CASE Reap(t)
    BY <1>0, <2>3 DEF Reap, WaitReturns, Goto, Enter, Return, GoesOn, Ends
  <2>4. CASE LeaveObject(t)
    BY <1>0, <2>4 DEF LeaveObject, WaitReturns, Enter, Return, GoesOn, Ends
  <2>5. QED
    BY <1>3, <2>1, <2>2, <2>3, <2>4 DEF Locks
<1>4. CASE WakesEarly(t) \/ ObjectTimesOut(t)
  BY <1>0, <1>4 DEF WakesEarly, ObjectTimesOut, Goto, Enter, Return, GoesOn, Ends
<1>5. QED
  BY <1>1, <1>2, <1>3, <1>4 DEF CallerStep

LEMMA RunMoves ==
  ASSUME TypeOK, NEW r \in Runs, RunStep(r)
  PROVE  /\ stage[r] \in Alive /\ stage'[r] \in Alive \cup {"gone"}
         /\ \A s \in Runs \ {r} : stage'[s] = stage[s]
         /\ UNCHANGED <<platform, call, op, handle, runs, destroyed, reaped>>
         /\ \A u \in Callers : pc'[u] = pc[u] \/ (pc[u] = "asleep" /\ pc'[u] = "predicate")
<1>0. stage \in [Runs -> Alive \cup {"none", "gone"}] /\ pc \in [Callers -> Steps]
  BY DEF TypeOK
<1>1. /\ stage[r] \in Alive /\ \E s \in Alive \cup {"gone"} : Advance(r, s)
      /\ pc' = pc \/ pc' = Woken
  <2>1. CASE PassGate(r) \/ SetUpDispatcher(r) \/ EnterExec(r) \/ RunReturns(r)
    BY <2>1 DEF PassGate, SetUpDispatcher, EnterExec, RunReturns, Alive
  <2>2. CASE LoopTest(r) \/ PassInterrupted(r) \/ PassServed(r)
    BY <2>2 DEF LoopTest, PassInterrupted, PassServed, Alive
  <2>3. CASE DropDispatcher(r) \/ ClearRunning(r) \/ StoreFinished(r)
    BY <2>3 DEF DropDispatcher, ClearRunning, StoreFinished, Alive
  <2>4. CASE NotifyWaiters(r) \/ ThreadEnds(r)
    BY <2>4 DEF NotifyWaiters, ThreadEnds, Alive
  <2>5. QED
    BY <2>1, <2>2, <2>3, <2>4 DEF RunStep, RunGoes, RunLocks
<1>2. PICK s \in Alive \cup {"gone"} : Advance(r, s)
  BY <1>1
<1>3. stage' = [stage EXCEPT ![r] = s] /\ UNCHANGED <<platform, call, op, handle, runs, destroyed, reaped>>
  BY <1>2 DEF Advance, history
<1>4. \A u \in Callers : pc'[u] = pc[u] \/ (pc[u] = "asleep" /\ pc'[u] = "predicate")
  <2>1. CASE pc' = Woken
    BY <2>1 DEF Woken
  <2>2. CASE pc' = pc
    BY <2>2
  <2>3. QED
    BY <1>1, <2>1, <2>2
<1>5. QED
  BY <1>0, <1>1, <1>3, <1>4

LEMMA NextSteps ==
  [Next]_vars => \/ \E t \in Callers : CallerStep(t)
                 \/ \E r \in Runs : RunStep(r)
                 \/ UNCHANGED vars
BY DEF Next, CallerStep, RunStep

LEMMA PlacesStep == TypeOK /\ Places /\ [Next]_vars => Places'
<1> SUFFICES ASSUME TypeOK, Places, [Next]_vars PROVE Places'
  OBVIOUS
<1> USE DEF Starting, Storing, WaitStages, PosixWait, WindowsWait
<1>1. ASSUME NEW t \in Callers, CallerStep(t) PROVE Places'
  <2>1. platform = "posix" \/ platform = "win32"
    BY ConstantsAssumption DEF TypeOK
  <2>2. CASE BeginsAt(t)
    BY <1>1, <2>1, <2>2, Moves DEF BeginsAt, Places
  <2>3. CASE GoesOn(t)
    BY <1>1, <2>1, <2>3, Moves DEF GoesOn, Places
  <2>4. CASE Ends(t)
    BY <1>1, <2>1, <2>4, Moves DEF Ends, Places
  <2>5. QED
    BY <1>1, <2>2, <2>3, <2>4, Moves
<1>2. ASSUME NEW r \in Runs, RunStep(r) PROVE Places'
  BY <1>2, RunMoves DEF Places
<1>3. CASE UNCHANGED vars
  BY <1>3 DEF vars, callerVars, Places
<1>4. QED
  BY <1>1, <1>2, <1>3, NextSteps

LEMMA OverlapsStep == StartsRace = FALSE /\ TypeOK /\ Overlaps /\ [Next]_vars => Overlaps'
<1> SUFFICES ASSUME StartsRace = FALSE, TypeOK, Overlaps, [Next]_vars PROVE Overlaps'
  OBVIOUS
<1>0. \A u \in Callers : pc[u] = "idle" <=> call[u] = "none"
  BY DEF TypeOK
<1>1. ASSUME NEW t \in Callers, CallerStep(t) PROVE Overlaps'
  <2>1. destroyed' = destroyed \/ (destroyed' = TRUE /\ call[t] = "destroy" /\ pc'[t] = "idle")
    BY <1>1 DEF CallerStep, Begins, StartTest, BeginWait, StoreExiting, TestRunning, Goes,
       StoreNotFinished, StoreNotExiting, CreateThread, CreateFails, Block, Join, ObjectSignalled,
       ReadDispatcher, Nudge, ApplyPriority, Locks, StartLock, WaitTest, TestPredicate, Reap,
       LeaveObject, LeaveExpired, WakesEarly, ObjectTimesOut, WaitReturns, Return, TypeOK
  <2>2. CASE BeginsAt(t)
    BY <1>0, <1>1, <2>1, <2>2, Moves DEF BeginsAt, MayStart, Overlaps
  <2>3. CASE GoesOn(t) \/ Ends(t)
    BY <1>0, <1>1, <2>1, <2>3, Moves DEF GoesOn, Ends, Overlaps
  <2>4. QED
    BY <1>1, <2>2, <2>3, Moves
<1>2. ASSUME NEW r \in Runs, RunStep(r) PROVE Overlaps'
  BY <1>2, RunMoves DEF Overlaps
<1>3. CASE UNCHANGED vars
  BY <1>3 DEF vars, callerVars, Overlaps
<1>4. QED
  BY <1>1, <1>2, <1>3, NextSteps

LEMMA ExclusiveStep == TypeOK /\ Exclusive /\ [Next]_vars => Exclusive'
<1> SUFFICES ASSUME TypeOK, Exclusive, [Next]_vars PROVE Exclusive'
  OBVIOUS
<1>1. ASSUME NEW t \in Callers, CallerStep(t) PROVE Exclusive'
  <2>1. pc'[t] \in PriorityHolders => pc[t] \in PriorityHolders \/ PriorityFree
    BY <1>1, Moves DEF BeginsAt, GoesOn, Ends, PriorityHolders
  <2>2. QED
    BY <1>1, <2>1, Moves DEF Exclusive, PriorityFree
<1>2. ASSUME NEW r \in Runs, RunStep(r) PROVE Exclusive'
  BY <1>2, RunMoves DEF Exclusive, PriorityHolders
<1>3. CASE UNCHANGED vars
  BY <1>3 DEF vars, callerVars, Exclusive
<1>4. QED
  BY <1>1, <1>2, <1>3, NextSteps
-----------------------------------------------------------------------------
(* What a step of a caller does to the OS threads and their handles.       *)

LEMMA Effects ==
  ASSUME TypeOK, NEW t \in Callers, CallerStep(t)
  PROVE  \/ CreateThread(t)
         \/ /\ stage' = stage /\ runs' = runs
            /\ (handle' = handle /\ reaped' = reaped) \/ Join(t) \/ LeaveObject(t)
<1>1. CASE Begins(t)
  BY <1>1 DEF Begins, StartTest, BeginWait, StoreExiting, TestRunning, bodyVars, history
<1>2. CASE Goes(t)
  BY <1>2 DEF Goes, StoreNotFinished, StoreNotExiting, CreateFails, Block, Join, ObjectSignalled,
     ReadDispatcher, Nudge, ApplyPriority, bodyVars, history
<1>3. CASE Locks(t)
  BY <1>3 DEF Locks, StartLock, WaitTest, TestPredicate, Reap, LeaveObject, LeaveExpired,
     bodyVars, history
<1>4. CASE WakesEarly(t) \/ ObjectTimesOut(t)
  BY <1>4 DEF WakesEarly, ObjectTimesOut, bodyVars, history
<1>5. QED
  BY <1>1, <1>2, <1>3, <1>4 DEF CallerStep

\* Who leaves wait() to go on with start(), and why the previous run is over.
LEMMA EntersStart ==
  ASSUME TypeOK, NEW t \in Callers, CallerStep(t), pc[t] \notin Starting, pc'[t] \in Starting
  PROVE  /\ call[t] = "start"
         /\ \/ handle = None
            \/ Join(t)
            \/ LeaveObject(t)
<1>1. GoesOn(t) /\ pc[t] \in {"waitTest", "reap", "join", "completed"} /\ call[t] = "start"
      /\ pc'[t] = "startLock"
  BY Moves DEF BeginsAt, GoesOn, Ends, Starting, Storing
<1>2. CASE pc[t] \in {"join", "completed"}
  BY <1>1, <1>2 DEF CallerStep, Begins, StartTest, BeginWait, StoreExiting, TestRunning, Begin, Goes,
     StoreNotFinished, StoreNotExiting, CreateThread, CreateFails, Block, ObjectSignalled,
     ReadDispatcher, Nudge, ApplyPriority, Locks, StartLock, WaitTest, TestPredicate, Reap,
     LeaveExpired, WakesEarly, ObjectTimesOut
<1>3. CASE pc[t] \in {"waitTest", "reap"}
  <2>1. WaitTest(t) \/ Reap(t)
    BY <1>3 DEF CallerStep, Begins, StartTest, BeginWait, StoreExiting, TestRunning, Begin, Goes,
       StoreNotFinished, StoreNotExiting, CreateThread, CreateFails, Block, Join, ObjectSignalled,
       ReadDispatcher, Nudge, ApplyPriority, Locks, StartLock, TestPredicate, LeaveObject,
       LeaveExpired, WakesEarly, ObjectTimesOut
  <2>2. handle # None => pc'[t] \in {"predicate", "object", "join"}
    BY <2>1 DEF WaitTest, Reap, Goto, Enter, TypeOK
  <2>3. QED
    BY <1>1, <2>2
<1>4. QED
  BY <1>1, <1>2, <1>3

\* A caller comes to wait on Windows with a copy of the handle, and keeps it.
LEMMA EntersObject ==
  ASSUME TypeOK, NEW t \in Callers, CallerStep(t), pc'[t] \in WindowsWait
  PROVE  \/ /\ pc[t] \in WindowsWait /\ op'[t] = op[t] /\ call'[t] = call[t]
            /\ UNCHANGED <<stage, handle, reaped>>
            /\ pc'[t] = "completed" => stage[op[t].run] = "gone"
         \/ /\ pc[t] = "waitTest" /\ handle # None /\ pc'[t] = "object"
            /\ op'[t] = [run |-> handle, found |-> AliveRuns] /\ call'[t] = call[t]
            /\ UNCHANGED <<stage, handle, reaped>>
<1>1. GoesOn(t) /\ (pc[t] = "waitTest" \/ pc[t] = "object")
  BY Moves DEF BeginsAt, GoesOn, Ends, WindowsWait
<1>2. WaitTest(t) \/ ObjectSignalled(t) \/ ObjectTimesOut(t)
  BY <1>1 DEF CallerStep, Begins, StartTest, BeginWait, StoreExiting, TestRunning, Begin, Goes,
     StoreNotFinished, StoreNotExiting, CreateThread, CreateFails, Block, Join,
     ReadDispatcher, Nudge, ApplyPriority, Locks, StartLock, TestPredicate, Reap, LeaveObject,
     LeaveExpired, WakesEarly
<1>3. CASE WaitTest(t)
  <2>1. handle # None
    BY <1>3 DEF WaitTest, WaitReturns, Enter, Return, TypeOK, WindowsWait
  <2>2. QED
    BY <1>3, <2>1 DEF WaitTest, Enter, TypeOK, WindowsWait, bodyVars, history
<1>4. CASE ObjectSignalled(t) \/ ObjectTimesOut(t)
  BY <1>4 DEF ObjectSignalled, ObjectTimesOut, Goto, Enter, TypeOK, WindowsWait, bodyVars, history
<1>5. QED
  BY <1>2, <1>3, <1>4

LEMMA Created ==
  ASSUME TypeOK, Numbers, NEW t \in Callers, CreateThread(t)
  PROVE  /\ runs + 1 \in Runs /\ runs' = runs + 1 /\ handle' = runs + 1 /\ reaped' = reaped
         /\ stage[runs + 1] = "none" /\ stage'[runs + 1] = "entry"
         /\ \A r \in Runs \ {runs + 1} : stage'[r] = stage[r]
         /\ AliveRuns' = AliveRuns \cup {runs + 1}
         /\ pc[t] = "create" /\ pc'[t] = "idle" /\ UNCHANGED <<finished, running>>
<1>1. runs + 1 \in Runs /\ runs \in Nat
  BY ConstantsAssumption DEF CreateThread, TypeOK, Runs
<1>2. stage[runs + 1] = "none"
  BY <1>1 DEF Numbers, Runs
<1>3. stage' = [stage EXCEPT ![runs + 1] = "entry"] /\ runs' = runs + 1 /\ handle' = runs + 1
  BY DEF CreateThread
<1>4. stage'[runs + 1] = "entry" /\ \A r \in Runs \ {runs + 1} : stage'[r] = stage[r]
  BY <1>1, <1>3 DEF TypeOK
<1>5. AliveRuns' = AliveRuns \cup {runs + 1}
  BY <1>1, <1>2, <1>4 DEF AliveRuns, Alive
<1>6. QED
  BY <1>1, <1>2, <1>3, <1>4, <1>5 DEF CreateThread, Return, TypeOK, flags, history

LEMMA SameAlive == stage' = stage => AliveRuns' = AliveRuns
BY DEF AliveRuns

LEMMA RunAlive ==
  ASSUME TypeOK, NEW r \in Runs, RunStep(r)
  PROVE  AliveRuns' \subseteq AliveRuns
BY RunMoves DEF AliveRuns

LEMMA NumbersStep == TypeOK /\ Numbers /\ Copies /\ Joiners /\ [Next]_vars => Numbers'
<1> SUFFICES ASSUME TypeOK, Numbers, Copies, Joiners, [Next]_vars PROVE Numbers'
  OBVIOUS
<1>0. handle \in 0 .. MaxRuns /\ runs \in 0 .. MaxRuns /\ None \notin Runs
  BY DEF TypeOK, None, Runs
<1>1. ASSUME NEW t \in Callers, CallerStep(t) PROVE Numbers'
  <2>1. CASE CreateThread(t)
    <3>1. /\ runs + 1 \in Runs /\ runs' = runs + 1 /\ handle' = runs + 1 /\ reaped' = reaped
          /\ stage[runs + 1] = "none" /\ stage'[runs + 1] = "entry"
          /\ \A r \in Runs \ {runs + 1} : stage'[r] = stage[r]
      BY <2>1, Created
    <3>2. \A r \in Runs : stage'[r] = "none" <=> r > runs'
      BY <1>0, <3>1 DEF Numbers, Runs
    <3>3. \A r \in reaped : r # runs + 1 /\ r \in Runs /\ stage'[r] = "gone"
      BY <3>1 DEF Numbers
    <3>4. QED
      BY <3>1, <3>2, <3>3 DEF Numbers
  <2>2. CASE Join(t)
    <3>1. handle \in Runs /\ stage[handle] = "gone"
      BY <1>0, <2>2 DEF Join, Joiners, Runs, None
    <3>2. handle' = None /\ reaped' = reaped \cup {handle} /\ stage' = stage /\ runs' = runs
      BY <2>2 DEF Join, bodyVars
    <3>3. QED
      BY <1>0, <3>1, <3>2 DEF Numbers
  <2>3. CASE LeaveObject(t)
    <3>1. op[t].run \in Runs /\ stage[op[t].run] = "gone"
      BY <2>3 DEF LeaveObject, TypeOK, Copies, WindowsWait
    <3>2. stage' = stage /\ runs' = runs
      BY <2>3 DEF LeaveObject, bodyVars
    <3>3. \/ reaped' = reaped /\ handle' = handle
          \/ /\ reaped' = reaped \cup {op[t].run}
             /\ handle' = IF handle = op[t].run THEN None ELSE handle
      BY <2>3 DEF LeaveObject
    <3>4. QED
      BY <1>0, <3>1, <3>2, <3>3 DEF Numbers
  <2>4. CASE stage' = stage /\ runs' = runs /\ handle' = handle /\ reaped' = reaped
    BY <2>4 DEF Numbers
  <2>5. QED
    BY <1>1, <2>1, <2>2, <2>3, <2>4, Effects
<1>2. ASSUME NEW r \in Runs, RunStep(r) PROVE Numbers'
  BY <1>2, RunMoves DEF Numbers, Alive
<1>3. CASE UNCHANGED vars
  BY <1>3 DEF vars, bodyVars, history, Numbers
<1>4. QED
  BY <1>1, <1>2, <1>3, NextSteps

\* A caller that is starting a run is the only one.
LEMMA OneStarter ==
  ASSUME Places, Overlaps, NEW t \in Callers, NEW u \in Callers, pc[t] \in Starting, call[u] = "start"
  PROVE  t = u
BY DEF Places, Overlaps

LEMMA CurrentStep ==
  TypeOK /\ Places /\ Overlaps /\ Numbers /\ Current /\ Copies /\ [Next]_vars => Current'
<1> SUFFICES ASSUME TypeOK, Places, Overlaps, Numbers, Current, Copies, [Next]_vars PROVE Current'
  OBVIOUS
<1>0. None \notin Runs /\ AliveRuns \subseteq Runs /\ \A r \in AliveRuns : stage[r] \in Alive
  BY DEF None, Runs, AliveRuns
<1>00. "gone" \notin Alive
  BY DEF Alive
<1>1. ASSUME NEW t \in Callers, CallerStep(t) PROVE Current'
  <2>0. \A u \in Callers \ {t} : pc'[u] = pc[u] /\ call'[u] = call[u]
    BY <1>1, Moves
  <2>1. CASE CreateThread(t)
    <3>1. AliveRuns = {} /\ AliveRuns' = {runs + 1} /\ handle' = runs + 1 /\ pc'[t] = "idle"
          /\ pc[t] \in Starting
      BY <2>1, Created DEF Current, Starting, Storing
    <3>2. ASSUME NEW u \in Callers, pc'[u] \in Starting PROVE FALSE
      <4>1. u # t
        BY <3>1, <3>2 DEF Starting, Storing
      <4>2. pc[u] \in Starting /\ call[u] = "start" /\ call[t] = "start"
        BY <2>0, <3>1, <3>2, <4>1 DEF Places
      <4>3. QED
        BY <3>1, <4>1, <4>2, OneStarter
    <3>3. QED
      BY <3>1, <3>2 DEF Current
  <2>2. CASE stage' = stage
    <3>0. AliveRuns' = AliveRuns
      BY <2>2, SameAlive
    <3>1. ASSUME NEW r \in AliveRuns PROVE r = handle'
      <4>1. r = handle
        BY DEF Current
      <4>2. CASE Join(t)
        BY <1>0, <1>00, <4>1, <4>2 DEF Join
      <4>3. CASE LeaveObject(t)
        BY <1>0, <1>00, <4>1, <4>3 DEF LeaveObject, Copies, WindowsWait
      <4>4. CASE CreateThread(t)
        BY <2>1, <4>4, <2>2, <1>0, Created DEF Alive
      <4>5. QED
        BY <1>1, <4>1, <4>2, <4>3, <4>4, Effects
    <3>2. ASSUME NEW u \in Callers, pc'[u] \in Starting PROVE AliveRuns = {}
      <4>1. CASE pc[u] \in Starting
        BY <4>1 DEF Current
      <4>2. CASE pc[u] \notin Starting
        <5>1. u = t
          BY <2>0, <3>2, <4>2
        <5>2. call[t] = "start" /\ (handle = None \/ Join(t) \/ LeaveObject(t))
          BY <1>1, <3>2, <4>2, <5>1, EntersStart
        <5>3. CASE handle = None
          BY <1>0, <5>3 DEF Current
        <5>4. CASE Join(t)
          BY <1>0, <1>00, <5>4 DEF Join, Current
        <5>5. CASE LeaveObject(t)
          BY <1>0, <1>00, <5>2, <5>5 DEF LeaveObject, Copies, WindowsWait
        <5>6. QED
          BY <5>2, <5>3, <5>4, <5>5
      <4>3. QED
        BY <4>1, <4>2
    <3>3. QED
      BY <3>0, <3>1, <3>2 DEF Current
  <2>3. QED
    BY <1>1, <2>1, <2>2, Effects
<1>2. ASSUME NEW r \in Runs, RunStep(r) PROVE Current'
  <2>1. AliveRuns' \subseteq AliveRuns /\ handle' = handle
    BY <1>2, RunAlive, RunMoves
  <2>2. \A u \in Callers : pc'[u] \in Starting => pc[u] \in Starting
    BY <1>2, RunMoves DEF Starting, Storing
  <2>3. QED
    BY <2>1, <2>2 DEF Current
<1>3. CASE UNCHANGED vars
  BY <1>3, SameAlive DEF vars, bodyVars, callerVars, Current
<1>4. QED
  BY <1>1, <1>2, <1>3, NextSteps

LEMMA CopiesStep ==
  TypeOK /\ Places /\ Overlaps /\ Numbers /\ Current /\ Copies /\ [Next]_vars => Copies'
<1> SUFFICES ASSUME TypeOK, Places, Overlaps, Numbers, Current, Copies, [Next]_vars,
                    NEW t \in Callers, pc'[t] \in WindowsWait
             PROVE  /\ op'[t].run \notin reaped'
                    /\ call'[t] = "start" => \A r \in AliveRuns' : r = op'[t].run
                    /\ call'[t] = "destroy" => handle' = op'[t].run
                    /\ pc'[t] = "completed" => stage'[op'[t].run] = "gone"
  BY DEF Copies
<1>1. CASE CallerStep(t)
  <2>1. CASE pc[t] \in WindowsWait /\ op'[t] = op[t] /\ call'[t] = call[t]
             /\ UNCHANGED <<stage, handle, reaped>>
    BY <1>1, <2>1, EntersObject, SameAlive DEF Copies
  <2>2. CASE /\ op'[t] = [run |-> handle, found |-> AliveRuns] /\ pc'[t] = "object"
             /\ UNCHANGED <<stage, handle, reaped>>
    BY <2>2, SameAlive DEF Numbers, Current
  <2>3. QED
    BY <1>1, <2>1, <2>2, EntersObject
<1>2. ASSUME NEW u \in Callers \ {t}, CallerStep(u)
      PROVE /\ op'[t].run \notin reaped'
            /\ call'[t] = "start" => \A r \in AliveRuns' : r = op'[t].run
            /\ call'[t] = "destroy" => handle' = op'[t].run
            /\ pc'[t] = "completed" => stage'[op'[t].run] = "gone"
  <2>1. pc'[t] = pc[t] /\ call'[t] = call[t] /\ op'[t] = op[t]
    BY <1>2, Moves
  <2>2. pc[t] \in WindowsWait /\ op[t].run \in Runs /\ pc[t] # "idle"
    BY <2>1 DEF TypeOK, WindowsWait
  <2>3. call[t] = "destroy" => ~CallerStep(u) \/ BeginsAt(u)
    BY <1>2, <2>2, Moves DEF Overlaps, GoesOn, Ends
  <2>4. call[t] # "destroy"
    BY <1>2, <2>3 DEF BeginsAt
  <2>5. CASE CreateThread(u)
    <3>1. pc[u] = "create" /\ call[u] = "start" /\ reaped' = reaped
          /\ (stage[op[t].run] # "none" => stage'[op[t].run] = stage[op[t].run])
      BY <2>2, <2>5, Created DEF Places, Starting, Storing
    <3>2. call[t] # "start"
      <4>1. pc[u] \in Starting /\ u # t
        BY <1>2, <3>1 DEF Starting, Storing
      <4>2. QED
        BY <4>1, OneStarter
    <3>3. QED
      BY <2>1, <2>2, <2>4, <3>1, <3>2 DEF Copies
  <2>6. CASE Join(u)
    <3>1. FALSE
      BY <2>2, <2>6 DEF Join, Places, PosixWait
    <3>2. QED
      BY <3>1
  <2>7. CASE LeaveObject(u)
    <3>1. t \in Waiters
      BY <2>2 DEF Waiters, WindowsWait
    <3>2. reaped' = reaped /\ stage' = stage
      BY <1>2, <2>7, <3>1 DEF LeaveObject, bodyVars
    <3>3. QED
      BY <2>1, <2>2, <2>4, <3>2, SameAlive DEF Copies
  <2>8. CASE stage' = stage /\ handle' = handle /\ reaped' = reaped
    BY <2>1, <2>2, <2>8, SameAlive DEF Copies
  <2>9. QED
    BY <1>2, <2>5, <2>6, <2>7, <2>8, Effects
<1>3. ASSUME NEW r \in Runs, RunStep(r)
      PROVE /\ op'[t].run \notin reaped'
            /\ call'[t] = "start" => \A s \in AliveRuns' : s = op'[t].run
            /\ call'[t] = "destroy" => handle' = op'[t].run
            /\ pc'[t] = "completed" => stage'[op'[t].run] = "gone"
  <2>1. pc'[t] = pc[t] /\ call'[t] = call[t] /\ op'[t] = op[t] /\ handle' = handle /\ reaped' = reaped
    BY <1>3, RunMoves DEF WindowsWait
  <2>2. pc[t] \in WindowsWait /\ op[t].run \in Runs
    BY <2>1 DEF TypeOK, WindowsWait
  <2>3. AliveRuns' \subseteq AliveRuns
    BY <1>3, RunAlive
  <2>4. stage[op[t].run] = "gone" => stage'[op[t].run] = "gone"
    BY <1>3, <2>2, RunMoves DEF Alive
  <2>5. QED
    BY <2>1, <2>2, <2>3, <2>4 DEF Copies
<1>4. CASE UNCHANGED vars
  BY <1>4, SameAlive DEF vars, bodyVars, callerVars, history, Copies
<1>5. QED
  BY <1>1, <1>2, <1>3, <1>4, NextSteps

\* The same for the waiters of POSIX.
LEMMA EntersPredicate ==
  ASSUME TypeOK, NEW t \in Callers, CallerStep(t), pc'[t] \in PosixWait
  PROVE  /\ stage' = stage
         /\ \/ pc[t] \in PosixWait /\ op'[t] = op[t]
            \/ op'[t] = [run |-> None, found |-> AliveRuns] /\ pc'[t] = "predicate"
<1>1. pc[t] \in {"waitTest", "predicate", "block", "asleep", "reap"}
  BY Moves DEF BeginsAt, GoesOn, Ends, PosixWait
<1>2. WaitTest(t) \/ TestPredicate(t) \/ Block(t) \/ WakesEarly(t) \/ Reap(t)
  BY <1>1 DEF CallerStep, Begins, StartTest, BeginWait, StoreExiting, TestRunning, Begin, Goes,
     StoreNotFinished, StoreNotExiting, CreateThread, CreateFails, Join, ObjectSignalled,
     ReadDispatcher, Nudge, ApplyPriority, Locks, StartLock, LeaveObject, LeaveExpired, ObjectTimesOut
<1>3. CASE WaitTest(t)
  <2>1. handle # None
    BY <1>3 DEF WaitTest, WaitReturns, Enter, Return, TypeOK, PosixWait
  <2>2. QED
    BY <1>3, <2>1 DEF WaitTest, Enter, TypeOK, PosixWait, bodyVars
<1>4. CASE TestPredicate(t) \/ Block(t) \/ WakesEarly(t)
  BY <1>4 DEF TestPredicate, Block, WakesEarly, Goto, Enter, Return, TypeOK, PosixWait, bodyVars
<1>5. CASE Reap(t)
  BY <1>5 DEF Reap, WaitReturns, Goto, Enter, Return, TypeOK, PosixWait, bodyVars
<1>6. QED
  BY <1>2, <1>3, <1>4, <1>5

LEMMA SightingsStep == TypeOK /\ Numbers /\ Current /\ Sightings /\ [Next]_vars => Sightings'
<1> SUFFICES ASSUME TypeOK, Numbers, Current, Sightings, [Next]_vars,
                    NEW t \in Callers, pc'[t] \in PosixWait \cup WindowsWait
             PROVE  /\ \A r \in op'[t].found : stage'[r] # "none"
                    /\ pc'[t] \in WindowsWait => \A r \in op'[t].found : r = op'[t].run
  BY DEF Sightings, PosixWait, WindowsWait
<1>0. \A r \in AliveRuns : r \in Runs /\ stage[r] # "none"
  BY DEF AliveRuns, Alive
<1>1. CASE CallerStep(t)
  <2>1. CASE pc'[t] \in PosixWait
    BY <1>0, <1>1, <2>1, EntersPredicate DEF Sightings, PosixWait, WindowsWait
  <2>2. CASE pc'[t] \in WindowsWait
    BY <1>0, <1>1, <2>2, EntersObject DEF Sightings, Current
  <2>3. QED
    BY <2>1, <2>2
<1>2. CASE pc[t] \in PosixWait \cup WindowsWait /\ op'[t] = op[t]
           /\ (pc'[t] \in WindowsWait => pc[t] \in WindowsWait)
           /\ \A r \in Runs : stage[r] # "none" => stage'[r] # "none"
  <2>1. op[t].found \subseteq Runs
    BY Locals DEF TypeOK
  <2>2. QED
    BY <1>2, <2>1 DEF Sightings
<1>3. ASSUME NEW u \in Callers \ {t}, CallerStep(u)
      PROVE  /\ pc'[t] = pc[t] /\ op'[t] = op[t]
             /\ \A r \in Runs : stage[r] # "none" => stage'[r] # "none"
  BY <1>3, Moves, Effects, Created
<1>4. ASSUME NEW s \in Runs, RunStep(s)
      PROVE  /\ pc[t] \in PosixWait \cup WindowsWait /\ op'[t] = op[t]
             /\ (pc'[t] \in WindowsWait => pc[t] \in WindowsWait)
             /\ \A r \in Runs : stage[r] # "none" => stage'[r] # "none"
  BY <1>4, RunMoves DEF PosixWait, WindowsWait, Alive
<1>5. CASE UNCHANGED vars
  BY <1>2, <1>5 DEF vars, callerVars, bodyVars
<1>6. QED
  BY <1>1, <1>2, <1>3, <1>4, <1>5, NextSteps
-----------------------------------------------------------------------------
(* The flags.                                                              *)

\* The steps of a caller that change a flag, or stop starting a run.
LEMMA FlagSteps ==
  ASSUME TypeOK, NEW t \in Callers, CallerStep(t)
  PROVE  \/ StartLock(t) \/ StoreNotFinished(t) \/ CreateThread(t) \/ CreateFails(t)
         \/ /\ running' = running /\ finished' = finished
            /\ pc[t] \in Storing => pc'[t] \in Storing
            /\ pc'[t] \in Storing => pc[t] \in Storing
            /\ pc'[t] \in {"storeExiting", "create"} => pc[t] \in {"storeExiting", "create"}
            /\ pc'[t] = "apply" => running
<1>1. CASE Begins(t)
  BY <1>1 DEF Begins, StartTest, BeginWait, StoreExiting, TestRunning, Begin, flags, Storing, TypeOK
<1>2. CASE Goes(t)
  <2>1. CASE StoreNotExiting(t)
    BY <2>1 DEF StoreNotExiting, Goto, Enter, Storing, TypeOK
  <2>2. CASE Block(t) \/ ObjectSignalled(t) \/ ApplyPriority(t)
    BY <2>2 DEF Block, ObjectSignalled, ApplyPriority, Goto, Enter, Return, flags, Storing, TypeOK
  <2>3. CASE Join(t)
    BY <2>3 DEF Join, WaitReturns, Enter, Return, flags, Storing, TypeOK
  <2>4. CASE ReadDispatcher(t) \/ Nudge(t)
    BY <2>4 DEF ReadDispatcher, Nudge, ExitReturns, Enter, Return, flags, Storing, TypeOK
  <2>5. QED
    BY <1>2, <2>1, <2>2, <2>3, <2>4 DEF Goes
<1>3. CASE Locks(t)
  <2>1. CASE WaitTest(t)
    BY <2>1 DEF WaitTest, WaitReturns, Enter, Return, flags, Storing, TypeOK
  <2>2. CASE TestPredicate(t) \/ LeaveExpired(t)
    BY <2>2 DEF TestPredicate, LeaveExpired, Goto, Enter, Return, flags, Storing, TypeOK
  <2>3. CASE Reap(t)
    BY <2>3 DEF Reap, WaitReturns, Goto, Enter, Return, flags, Storing, TypeOK
  <2>4. CASE LeaveObject(t)
    BY <2>4 DEF LeaveObject, WaitReturns, Enter, Return, flags, Storing, TypeOK
  <2>5. QED
    BY <1>3, <2>1, <2>2, <2>3, <2>4 DEF Locks
<1>4. CASE WakesEarly(t) \/ ObjectTimesOut(t)
  BY <1>4 DEF WakesEarly, ObjectTimesOut, Goto, Enter, Return, flags, Storing, TypeOK
<1>5. QED
  BY <1>1, <1>2, <1>3, <1>4 DEF CallerStep

\* The steps of an OS thread that do, and how far it has come.
LEMMA RunFlagSteps ==
  ASSUME TypeOK, NEW r \in Runs, RunStep(r)
  PROVE  /\ running' = running \/ ClearRunning(r)
         /\ finished' = finished \/ StoreFinished(r)
         /\ stage[r] \in BeforeClear => ClearRunning(r) \/ stage'[r] \in BeforeClear
         /\ stage[r] \in Ending => stage'[r] \in Ending \cup {"gone"}
<1>0. DOMAIN stage = Runs
  BY DEF TypeOK
<1>1. CASE RunGoes(r)
  BY <1>0, <1>1 DEF RunGoes, SetUpDispatcher, EnterExec, LoopTest, PassInterrupted, DropDispatcher,
     StoreFinished, ThreadEnds, Advance, flags, BeforeClear, Ending
<1>2. CASE RunLocks(r)
  BY <1>0, <1>2 DEF RunLocks, PassGate, ClearRunning, NotifyWaiters, Advance, flags, BeforeClear, Ending
<1>3. CASE RunReturns(r) \/ PassServed(r)
  BY <1>0, <1>3 DEF RunReturns, PassServed, Advance, flags, BeforeClear, Ending
<1>4. QED
  BY <1>1, <1>2, <1>3 DEF RunStep

LEMMA RunningFlagStep ==
  /\ TypeOK /\ Exclusive /\ Numbers /\ Copies /\ RunningFlag /\ [Next]_vars
  => RunningFlag'
<1> SUFFICES ASSUME TypeOK, Exclusive, Numbers, Copies, RunningFlag, [Next]_vars PROVE RunningFlag'
  OBVIOUS
<1> DEFINE Held == \A u \in Callers : pc[u] \notin Storing
           Good == handle \in Runs /\ stage[handle] \in BeforeClear
<1>0. "gone" \notin BeforeClear /\ DOMAIN pc = Callers
  BY DEF BeforeClear, TypeOK
<1>1. ASSUME NEW t \in Callers, CallerStep(t) PROVE RunningFlag'
  <2>0. \A u \in Callers \ {t} : pc'[u] = pc[u]
    BY <1>1, Moves
  <2>1. CASE CreateThread(t)
    <3>1. handle' \in Runs /\ stage'[handle'] \in BeforeClear /\ running' = running /\ pc'[t] = "idle"
      BY <2>1, Created DEF BeforeClear
    <3>2. QED
      BY <2>0, <3>1 DEF RunningFlag
  <2>2. CASE StartLock(t)
    <3>1. running' = TRUE /\ pc'[t] \in Storing /\ pc'[t] # "apply"
      BY <1>0, <2>2 DEF StartLock, Goto, Enter, Storing
    <3>2. QED
      BY <2>0, <3>1 DEF RunningFlag
  <2>3. CASE CreateFails(t)
    <3>1. running' = FALSE /\ pc[t] = "create" /\ pc'[t] = "idle"
      BY <1>0, <2>3 DEF CreateFails, Return
    <3>2. ASSUME NEW u \in Callers, pc'[u] = "apply" PROVE FALSE
      <4>1. u # t /\ pc[u] = "apply"
        BY <2>0, <3>1, <3>2
      <4>2. QED
        BY <3>1, <4>1 DEF Exclusive, PriorityHolders
    <3>3. QED
      BY <3>1, <3>2 DEF RunningFlag
  <2>4. CASE StoreNotFinished(t)
    <3>1. /\ running' = running /\ pc[t] \in Storing /\ pc'[t] \in Storing /\ pc'[t] # "apply"
      BY <1>0, <2>4 DEF StoreNotFinished, Goto, Enter, Storing
    <3>2. QED
      BY <2>0, <3>1 DEF RunningFlag
  <2>5. CASE /\ ~CreateThread(t)
             /\ running' = running /\ finished' = finished
             /\ pc[t] \in Storing => pc'[t] \in Storing
             /\ pc'[t] = "apply" => running
    <3>1. ASSUME running', \A u \in Callers : pc'[u] \notin Storing
          PROVE  handle' \in Runs /\ stage'[handle'] \in BeforeClear
      <4>1. handle \in Runs /\ stage[handle] \in BeforeClear
        BY <2>0, <2>5, <3>1 DEF RunningFlag
      <4>2. stage' = stage /\ (handle' = handle \/ Join(t) \/ LeaveObject(t))
        BY <1>1, <2>5, Effects
      <4>3. CASE Join(t)
        BY <1>0, <4>1, <4>3 DEF Join
      <4>4. CASE LeaveObject(t)
        <5>1. stage[op[t].run] = "gone"
          BY <4>4 DEF LeaveObject, Copies, WindowsWait
        <5>2. handle' = handle
          BY <1>0, <4>1, <4>4, <5>1 DEF LeaveObject
        <5>3. QED
          BY <4>1, <4>2, <5>2
      <4>5. QED
        BY <4>1, <4>2, <4>3, <4>4
    <3>2. ASSUME NEW u \in Callers, pc'[u] = "apply" PROVE running'
      BY <2>0, <2>5, <3>2 DEF RunningFlag
    <3>3. QED
      BY <3>1, <3>2 DEF RunningFlag
  <2>6. QED
    BY <1>1, <2>1, <2>2, <2>3, <2>4, <2>5, FlagSteps
<1>2. ASSUME NEW r \in Runs, RunStep(r) PROVE RunningFlag'
  <2>1. /\ handle' = handle
        /\ \A u \in Callers : /\ pc'[u] \in Storing <=> pc[u] \in Storing
                              /\ pc'[u] = "apply" => pc[u] = "apply"
    BY <1>2, RunMoves DEF Storing
  <2>2. CASE ClearRunning(r)
    <3>1. running' = FALSE /\ \A u \in Callers : pc[u] # "apply"
      BY <2>2 DEF ClearRunning, PriorityFree, PriorityHolders
    <3>2. QED
      BY <2>1, <3>1 DEF RunningFlag
  <2>3. CASE ~ClearRunning(r)
    <3>1. running' = running /\ (stage[r] \in BeforeClear => stage'[r] \in BeforeClear)
      BY <1>2, <2>3, RunFlagSteps
    <3>2. \A s \in Runs : stage[s] \in BeforeClear => stage'[s] \in BeforeClear
      BY <1>2, <3>1, RunMoves
    <3>3. QED
      BY <2>1, <3>1, <3>2 DEF RunningFlag
  <2>4. QED
    BY <2>2, <2>3
<1>3. CASE UNCHANGED vars
  BY <1>3 DEF vars, flags, bodyVars, callerVars, RunningFlag
<1>4. QED
  BY <1>1, <1>2, <1>3, NextSteps

LEMMA EndingStep ==
  ASSUME TypeOK, NEW r \in Runs, RunStep(r), \A s \in AliveRuns : stage[s] \in Ending
  PROVE  \A s \in AliveRuns' : stage'[s] \in Ending
<1>1. ASSUME NEW s \in AliveRuns' PROVE stage'[s] \in Ending
  <2>1. s \in AliveRuns /\ s \in Runs /\ stage[s] \in Ending /\ stage'[s] # "gone"
    BY <1>1, RunAlive DEF AliveRuns, Alive
  <2>2. CASE s = r
    BY <2>1, <2>2, RunFlagSteps
  <2>3. CASE s # r
    BY <2>1, <2>3, RunMoves
  <2>4. QED
    BY <2>2, <2>3
<1>2. QED
  BY <1>1

LEMMA FinishedFlagStep ==
  TypeOK /\ Numbers /\ Current /\ FinishedFlag /\ [Next]_vars => FinishedFlag'
<1> SUFFICES ASSUME TypeOK, Numbers, Current, FinishedFlag, [Next]_vars PROVE FinishedFlag'
  OBVIOUS
<1>0. DOMAIN pc = Callers
  BY DEF TypeOK
<1>1. ASSUME NEW t \in Callers, CallerStep(t) PROVE FinishedFlag'
  <2>0. \A u \in Callers \ {t} : pc'[u] = pc[u]
    BY <1>1, Moves
  <2>1. CASE CreateThread(t)
    <3>1. ~finished' /\ pc'[t] = "idle"
      BY <2>1, Created DEF FinishedFlag
    <3>2. QED
      BY <2>0, <3>1 DEF FinishedFlag
  <2>2. CASE StoreNotFinished(t)
    BY <2>2 DEF StoreNotFinished, FinishedFlag
  <2>3. CASE ~CreateThread(t) /\ ~StoreNotFinished(t)
    <3>1. stage' = stage
      BY <1>1, <2>3, Effects
    <3>2. finished' = finished
          /\ (pc'[t] \in {"storeExiting", "create"} => pc[t] \in {"storeExiting", "create"})
      <4>1. CASE StartLock(t) \/ CreateFails(t)
        BY <1>0, <4>1 DEF StartLock, CreateFails, Goto, Enter, Return
      <4>2. QED
        BY <1>1, <2>3, <4>1, FlagSteps
    <3>3. QED
      BY <2>0, <3>1, <3>2, SameAlive DEF FinishedFlag
  <2>4. QED
    BY <2>1, <2>2, <2>3
<1>2. ASSUME NEW r \in Runs, RunStep(r) PROVE FinishedFlag'
  <2>0. r \in AliveRuns /\ AliveRuns' \subseteq AliveRuns
        /\ \A u \in Callers : pc'[u] \in {"storeExiting", "create"} => pc'[u] = pc[u]
    BY <1>2, RunMoves, RunAlive DEF AliveRuns
  <2>1. CASE StoreFinished(r)
    <3>1. stage'[r] = "notify"
      BY <2>1 DEF StoreFinished, Advance, TypeOK
    <3>2. \A s \in AliveRuns : s = r
      BY <2>0 DEF Current
    <3>3. \A u \in Callers : pc'[u] \notin {"storeExiting", "create"}
      BY <2>0 DEF Current, Starting, Storing
    <3>4. QED
      BY <2>0, <3>1, <3>2, <3>3 DEF FinishedFlag, Ending
  <2>2. CASE ~StoreFinished(r)
    <3>1. finished' = finished
      BY <1>2, <2>2, RunFlagSteps
    <3>2. QED
      BY <1>2, <2>0, <3>1, EndingStep DEF FinishedFlag
  <2>3. QED
    BY <2>1, <2>2
<1>3. CASE UNCHANGED vars
  BY <1>3, SameAlive DEF vars, flags, bodyVars, callerVars, FinishedFlag
<1>4. QED
  BY <1>1, <1>2, <1>3, NextSteps
-----------------------------------------------------------------------------
(* Those who join, and those who destroy.                                  *)

\* Whoever gets as far as the second section of wait() has seen mFinished.
LEMMA EntersReap ==
  ASSUME TypeOK, NEW t \in Callers, CallerStep(t), pc'[t] \in {"reap", "join"}
  PROVE  /\ UNCHANGED <<stage, handle>>
         /\ pc'[t] = "reap" => finished
         /\ pc'[t] = "join" => pc[t] = "reap" /\ handle # None
<1>1. pc[t] \in {"predicate", "asleep", "reap"}
  BY Moves DEF BeginsAt, GoesOn, Ends
<1>2. TestPredicate(t) \/ WakesEarly(t) \/ Reap(t)
  BY <1>1 DEF CallerStep, Begins, StartTest, BeginWait, StoreExiting, TestRunning, Begin, Goes,
     StoreNotFinished, StoreNotExiting, CreateThread, CreateFails, Block, Join, ObjectSignalled,
     ReadDispatcher, Nudge, ApplyPriority, Locks, StartLock, WaitTest, LeaveObject, LeaveExpired,
     ObjectTimesOut
<1>3. CASE TestPredicate(t) \/ WakesEarly(t)
  BY <1>3 DEF TestPredicate, WakesEarly, Goto, Enter, Return, TypeOK, bodyVars
<1>4. CASE Reap(t)
  BY <1>4 DEF Reap, WaitReturns, Goto, Enter, Return, TypeOK, bodyVars
<1>5. QED
  BY <1>2, <1>3, <1>4

LEMMA JoinersStep ==
  /\ TypeOK /\ Places /\ Overlaps /\ Exclusive /\ Numbers /\ FinishedFlag /\ Joiners /\ [Next]_vars
  => Joiners'
<1> SUFFICES ASSUME TypeOK, Places, Overlaps, Exclusive, Numbers, FinishedFlag, Joiners, [Next]_vars,
                    NEW t \in Callers, pc'[t] \in {"reap", "join"}
             PROVE  /\ pc'[t] = "join" => handle' # None
                    /\ "posix" \notin RestartsMeetWaits => \A r \in AliveRuns' : stage'[r] \in Ending
  BY DEF Joiners
<1>1. CASE CallerStep(t)
  BY <1>1, EntersReap, SameAlive DEF FinishedFlag, Joiners
<1>2. ASSUME NEW u \in Callers \ {t}, CallerStep(u)
      PROVE  /\ pc'[t] = "join" => handle' # None
             /\ "posix" \notin RestartsMeetWaits => \A r \in AliveRuns' : stage'[r] \in Ending
  <2>1. pc[t] = pc'[t] /\ pc[t] \in PosixWait /\ pc[t] # "idle" /\ pc[t] \in WaitStages
    BY <1>2, Moves DEF PosixWait, WaitStages
  <2>2. CASE CreateThread(u)
    <3>1. pc[u] \in Starting /\ pc[u] # "idle"
      BY <2>2 DEF CreateThread, Starting, Storing
    <3>2. call[u] = "start" /\ call[t] \in {"start", "wait", "timed", "destroy"} /\ platform = "posix"
      BY <2>1, <3>1 DEF Places
    <3>3. "posix" \in RestartsMeetWaits
      BY <1>2, <3>1, <3>2 DEF Overlaps
    <3>4. handle' # None
      BY <2>2, Created DEF None, Runs
    <3>5. QED
      BY <3>3, <3>4
  <2>3. CASE ~CreateThread(u)
    <3>1. stage' = stage /\ (handle' = handle \/ Join(u) \/ LeaveObject(u))
      BY <1>2, <2>3, Effects
    <3>2. pc'[t] = "join" => ~Join(u) /\ ~LeaveObject(u)
      BY <1>2, <2>1 DEF Join, LeaveObject, Exclusive, PriorityFree, PriorityHolders
    <3>3. QED
      BY <2>1, <3>1, <3>2, SameAlive DEF Joiners
  <2>4. QED
    BY <2>2, <2>3
<1>3. ASSUME NEW r \in Runs, RunStep(r)
      PROVE  /\ pc'[t] = "join" => handle' # None
             /\ "posix" \notin RestartsMeetWaits => \A s \in AliveRuns' : stage'[s] \in Ending
  <2>1. pc[t] = pc'[t] /\ handle' = handle
    BY <1>3, RunMoves
  <2>2. "posix" \notin RestartsMeetWaits => \A s \in AliveRuns : stage[s] \in Ending
    BY <2>1 DEF Joiners
  <2>3. QED
    BY <1>3, <2>1, <2>2, EndingStep DEF Joiners
<1>4. CASE UNCHANGED vars
  BY <1>4, SameAlive DEF vars, bodyVars, callerVars, Joiners
<1>5. QED
  BY <1>1, <1>2, <1>3, <1>4, NextSteps

\* How ~Thread() comes to its end.
LEMMA Destroys ==
  ASSUME TypeOK, NEW t \in Callers, CallerStep(t), destroyed' # destroyed
  PROVE  /\ call[t] = "destroy" /\ pc[t] # "idle"
         /\ (handle = None /\ handle' = None) \/ Join(t) \/ LeaveObject(t)
<1>1. WaitTest(t) \/ Reap(t) \/ Join(t) \/ LeaveObject(t)
  BY DEF CallerStep, Begins, StartTest, BeginWait, StoreExiting, TestRunning, Goes,
     StoreNotFinished, StoreNotExiting, CreateThread, CreateFails, Block, ObjectSignalled,
     ReadDispatcher, Nudge, ApplyPriority, Locks, StartLock, TestPredicate,
     LeaveExpired, WakesEarly, ObjectTimesOut
<1>2. WaitReturns(t) /\ ((handle = None /\ handle' = None) \/ Join(t) \/ LeaveObject(t)) /\ pc[t] # "idle"
  BY <1>1 DEF WaitTest, Reap, Join, LeaveObject
<1>3. QED
  BY <1>2 DEF WaitReturns

LEMMA QuietStep ==
  TypeOK /\ Overlaps /\ Copies /\ Current' /\ DestroyedIsQuiet /\ [Next]_vars => DestroyedIsQuiet'
<1> SUFFICES ASSUME TypeOK, Overlaps, Copies, Current', DestroyedIsQuiet, [Next]_vars, destroyed'
             PROVE  AliveRuns' = {} /\ handle' = None
  BY DEF DestroyedIsQuiet
<1>0. AliveRuns' \subseteq Runs /\ None \notin Runs
  BY DEF AliveRuns, None, Runs
<1>1. ASSUME NEW t \in Callers, CallerStep(t) PROVE AliveRuns' = {} /\ handle' = None
  <2>1. CASE destroyed
    <3>1. FALSE
      BY <1>1, <2>1, Moves DEF Overlaps, BeginsAt, GoesOn, Ends
    <3>2. QED
      BY <3>1
  <2>2. CASE ~destroyed
    <3>1. /\ call[t] = "destroy" /\ pc[t] # "idle"
          /\ (handle = None /\ handle' = None) \/ Join(t) \/ LeaveObject(t)
      BY <1>1, <2>2, Destroys
    <3>2. CASE LeaveObject(t)
      <4>1. \A u \in Callers \ {t} : pc[u] = "idle"
        BY <3>1 DEF Overlaps
      <4>2. pc[t] = "completed" /\ Waiters = {t}
        BY <3>2, <4>1 DEF LeaveObject, Waiters
      <4>3. handle = op[t].run
        BY <3>1, <4>2 DEF Copies, WindowsWait
      <4>4. QED
        BY <3>2, <4>2, <4>3, <1>0 DEF LeaveObject, Current
    <3>3. CASE Join(t)
      BY <1>0, <3>3 DEF Join, Current
    <3>4. CASE handle' = None
      BY <1>0, <3>4 DEF Current
    <3>5. QED
      BY <3>1, <3>2, <3>3, <3>4
  <2>3. QED
    BY <2>1, <2>2
<1>2. ASSUME NEW r \in Runs, RunStep(r) PROVE AliveRuns' = {} /\ handle' = None
  <2>1. destroyed /\ r \in AliveRuns
    BY <1>2, RunMoves DEF AliveRuns
  <2>2. QED
    BY <2>1 DEF DestroyedIsQuiet
<1>3. CASE UNCHANGED vars
  BY <1>3, SameAlive DEF vars, bodyVars, DestroyedIsQuiet
<1>4. QED
  BY <1>1, <1>2, <1>3, NextSteps
-----------------------------------------------------------------------------
(* The invariant, and what follows from it.                                *)

LEMMA InvInit == Init => ThreadInv
<1> SUFFICES ASSUME Init PROVE ThreadInv
  OBVIOUS
<1>1. AliveRuns = {}
  BY DEF Init, AliveRuns, Alive
<1>2. Places /\ Overlaps /\ Exclusive /\ Copies /\ Sightings
  BY DEF Init, Places, Overlaps, Exclusive, Copies, Sightings, Starting, Storing, WaitStages,
     PosixWait, WindowsWait, PriorityHolders
<1>3. Numbers /\ Current
  BY <1>1 DEF Init, Numbers, Current, Starting, Storing, Runs
<1>4. RunningFlag /\ FinishedFlag /\ Joiners /\ DestroyedIsQuiet
  BY <1>1 DEF Init, RunningFlag, FinishedFlag, Joiners, DestroyedIsQuiet
<1>5. QED
  BY <1>2, <1>3, <1>4 DEF ThreadInv

LEMMA InvStep == StartsRace = FALSE /\ TypeOK /\ ThreadInv /\ [Next]_vars => ThreadInv'
<1> SUFFICES ASSUME StartsRace = FALSE, TypeOK, ThreadInv, [Next]_vars PROVE ThreadInv'
  OBVIOUS
<1>0. /\ Places /\ Overlaps /\ Exclusive /\ Numbers /\ Current /\ Copies /\ Sightings
      /\ RunningFlag /\ FinishedFlag /\ Joiners /\ DestroyedIsQuiet
  BY DEF ThreadInv
<1>1. Places' /\ Overlaps' /\ Exclusive' /\ Numbers'
  BY <1>0, PlacesStep, OverlapsStep, ExclusiveStep, NumbersStep
<1>2. Current' /\ Copies' /\ Sightings'
  BY <1>0, CurrentStep, CopiesStep, SightingsStep
<1>3. RunningFlag' /\ FinishedFlag' /\ Joiners'
  BY <1>0, RunningFlagStep, FinishedFlagStep, JoinersStep
<1>4. DestroyedIsQuiet'
  BY <1>0, <1>2, QuietStep
<1>5. QED
  BY <1>1, <1>2, <1>3, <1>4 DEF ThreadInv

\* The invariant holds if no two callers are in start() at once.
THEOREM ThreadInvariant == StartsRace = FALSE => (Safety => []ThreadInv)
<1> SUFFICES ASSUME StartsRace = FALSE PROVE Safety => []ThreadInv
  OBVIOUS
<1>1. TypeOK /\ ThreadInv /\ [Next]_vars => ThreadInv'
  BY InvStep
<1>2. QED
  BY <1>1, InvInit, TypeCorrect, PTL DEF Safety

\* When no two callers are in start() at once, it never begins a run while another one is alive.
THEOREM OneRunAtATime == StartsRace = FALSE => (Safety => []OneRun)
<1> SUFFICES ASSUME StartsRace = FALSE PROVE Safety => []OneRun
  OBVIOUS
<1>1. ThreadInv => OneRun
  BY DEF ThreadInv, Current, OneRun
<1>2. QED
  BY <1>1, ThreadInvariant, PTL

\* Where start() overlaps no other start(), nor a wait() on POSIX, nobody joins, with
\* mPriorityMutex held, a thread that has yet to take it: the deadlock of Thread_restart needs the overlap.
THEOREM WaitersLetFinish ==
  StartsRace = FALSE /\ "posix" \notin RestartsMeetWaits => (Safety => []WaiterLetsFinish)
<1> SUFFICES ASSUME StartsRace = FALSE, "posix" \notin RestartsMeetWaits
             PROVE  Safety => []WaiterLetsFinish
  OBVIOUS
<1>1. TypeOK /\ ThreadInv => WaiterLetsFinish
  <2> SUFFICES ASSUME TypeOK, ThreadInv, NEW t \in Callers, pc[t] = "join"
               PROVE  stage[handle] \notin BeforeClear
    BY DEF WaiterLetsFinish, BeforeClear
  <2>1. handle \in Runs /\ \A r \in AliveRuns : stage[r] \in Ending
    BY DEF TypeOK, ThreadInv, Joiners, None, Runs
  <2>2. QED
    BY <2>1 DEF AliveRuns, Alive, Ending, BeforeClear
<1>2. QED
  BY <1>1, TypeCorrect, ThreadInvariant, PTL

\* When no two callers are in start() at once, setPriority() never uses the handle of a thread
\* that has come to the end of its body.
THEOREM PrioritiesMeetLiveThreads == StartsRace = FALSE => (Safety => []PriorityMeetsLiveThread)
<1> SUFFICES ASSUME StartsRace = FALSE PROVE Safety => []PriorityMeetsLiveThread
  OBVIOUS
<1>1. ThreadInv => PriorityMeetsLiveThread
  <2> SUFFICES ASSUME ThreadInv, NEW t \in Callers, pc[t] = "apply"
               PROVE  handle # None /\ stage[handle] \in Alive \ {"store", "notify", "leave"}
    BY DEF PriorityMeetsLiveThread
  <2>1. running /\ \A u \in Callers : pc[u] \notin Storing
    BY DEF ThreadInv, RunningFlag, Exclusive, PriorityHolders, Storing
  <2>2. handle \in Runs /\ stage[handle] \in BeforeClear
    BY <2>1 DEF ThreadInv, RunningFlag
  <2>3. QED
    BY <2>2 DEF BeforeClear, Alive, None, Runs
<1>2. QED
  BY <1>1, ThreadInvariant, PTL

\* When no two callers are in start() at once, no thread is joined twice, and no handle used
\* after it was closed.
THEOREM HandlesAreUsedOpen == StartsRace = FALSE => (Safety => []HandlesOutliveUse)
<1> SUFFICES ASSUME StartsRace = FALSE PROVE Safety => []HandlesOutliveUse
  OBVIOUS
<1>1. TypeOK /\ ThreadInv => HandlesOutliveUse
  <2> SUFFICES ASSUME TypeOK, ThreadInv, NEW t \in Callers
               PROVE  /\ pc[t] = "join" => handle \in Runs \ reaped
                      /\ pc[t] \in {"object", "completed", "expired"} => op[t].run \notin reaped
    BY DEF HandlesOutliveUse
  <2>1. handle \in 0 .. MaxRuns /\ handle \notin reaped /\ (pc[t] = "join" => handle # 0)
    BY DEF TypeOK, ThreadInv, Numbers, Joiners, None
  <2>2. pc[t] = "join" => handle \in Runs \ reaped
    BY <2>1, ConstantsAssumption DEF Runs
  <2>3. pc[t] \in {"object", "completed", "expired"} => op[t].run \notin reaped
    BY DEF ThreadInv, Copies, WindowsWait
  <2>4. QED
    BY <2>2, <2>3
<1>2. QED
  BY <1>1, TypeCorrect, ThreadInvariant, PTL

\* When no two callers are in start() at once, ~Thread() leaves no OS thread behind that could
\* touch the object, and none unreaped.
THEOREM DestroyedThreadsAreQuiet == StartsRace = FALSE => (Safety => []DestroyedIsQuiet)
<1> SUFFICES ASSUME StartsRace = FALSE PROVE Safety => []DestroyedIsQuiet
  OBVIOUS
<1>1. ThreadInv => DestroyedIsQuiet
  BY DEF ThreadInv
<1>2. QED
  BY <1>1, ThreadInvariant, PTL

\* Whoever comes out of a wait() with true has outlasted every run that it found alive.
LEMMA WaitedRunsAreOver ==
  ASSUME TypeOK, ThreadInv, [Next]_vars, NEW t \in Callers, Waited(t), NEW r \in op[t].found
  PROVE  stage[r] = "gone"
<1>0. pc[t] \in {"reap", "join", "completed"} /\ pc'[t] \in {"idle", "startLock"}
  BY DEF Waited
<1>1. r \in Runs /\ stage[r] # "none" /\ (r \in AliveRuns => r = handle) /\ None \notin Runs
  BY <1>0, Locals DEF TypeOK, ThreadInv, Sightings, Current, PosixWait, WindowsWait, None, Runs
<1>2. stage[r] = "gone" \/ r \in AliveRuns
  BY <1>1 DEF TypeOK, AliveRuns
<1>3. CallerStep(t)
  <2>1. ASSUME NEW u \in Callers \ {t}, CallerStep(u) PROVE FALSE
    BY <1>0, <2>1, Moves
  <2>2. ASSUME NEW s \in Runs, RunStep(s) PROVE FALSE
    BY <1>0, <2>2, RunMoves
  <2>3. ~UNCHANGED vars
    BY <1>0 DEF vars, callerVars
  <2>4. QED
    BY <1>0, <2>1, <2>2, <2>3, NextSteps
<1>4. Reap(t) \/ Join(t) \/ LeaveObject(t)
  BY <1>0, <1>3 DEF CallerStep, Begins, StartTest, BeginWait, StoreExiting, TestRunning, Begin, Goes,
     StoreNotFinished, StoreNotExiting, CreateThread, CreateFails, Block, ObjectSignalled,
     ReadDispatcher, Nudge, ApplyPriority, Locks, StartLock, WaitTest, TestPredicate,
     LeaveExpired, WakesEarly, ObjectTimesOut
<1>5. CASE Reap(t)
  <2>1. handle = None
    BY <1>0, <1>5 DEF Reap, Goto, Enter, TypeOK
  <2>2. QED
    BY <1>1, <1>2, <2>1
<1>6. CASE Join(t)
  BY <1>1, <1>2, <1>6 DEF Join
<1>7. CASE LeaveObject(t)
  BY <1>1, <1>7 DEF LeaveObject, ThreadInv, Sightings, Copies, WindowsWait
<1>8. QED
  BY <1>4, <1>5, <1>6, <1>7

\* When no two callers are in start() at once, a wait() that returns true, by itself or for
\* start() and ~Thread(), has outlasted every run that it found alive.
THEOREM WaitsOutlastRuns == StartsRace = FALSE => (Safety => WaitOutlastsRun)
<1> SUFFICES ASSUME StartsRace = FALSE PROVE Safety => WaitOutlastsRun
  OBVIOUS
<1>1. TypeOK /\ ThreadInv /\ [Next]_vars
      => [\A t \in Callers : Waited(t) => \A r \in op[t].found : stage[r] = "gone"]_vars
  BY WaitedRunsAreOver
<1>2. QED
  BY <1>1, TypeCorrect, ThreadInvariant, PTL DEF Safety, WaitOutlastsRun
-----------------------------------------------------------------------------
(* No waiter sleeps through the notification of its run.                   *)

BeforeNotify == BeforeClear \cup {"store"}

\* On POSIX, where start() does not overlap a wait(): the handle is gone before the next run is
\* prepared, so that a handle with mFinished unset is that of a run that has yet to notify.
Sleepers ==
  /\ \A t \in Callers : pc[t] \in Starting /\ platform = "posix" => handle = None
  /\ platform = "posix" /\ handle # None /\ ~finished => stage[handle] \in BeforeNotify
  /\ \A t \in Callers : pc[t] = "predicate" => finished \/ handle # None
  /\ \A t \in Callers : pc[t] \in {"block", "asleep"} =>
       handle # None /\ stage[handle] \in BeforeNotify \cup {"notify"}

\* How a caller comes to sleep, and a run to notify.
LEMMA EntersSleep ==
  ASSUME TypeOK, NEW t \in Callers, CallerStep(t)
  PROVE  /\ pc'[t] = "predicate" => handle # None \/ pc[t] = "asleep"
         /\ pc'[t] = "block" => pc[t] = "predicate" /\ ~finished
         /\ pc'[t] = "asleep" => pc[t] = "block"
<1>1. CASE pc'[t] \in {"predicate", "block", "asleep"}
  <2>1. GoesOn(t) /\ pc[t] \in {"waitTest", "predicate", "block", "asleep"}
    BY <1>1, Moves DEF BeginsAt, GoesOn, Ends
  <2>2. WaitTest(t) \/ TestPredicate(t) \/ Block(t) \/ WakesEarly(t)
    BY <2>1 DEF CallerStep, Begins, StartTest, BeginWait, StoreExiting, TestRunning, Begin, Goes,
       StoreNotFinished, StoreNotExiting, CreateThread, CreateFails, Join, ObjectSignalled,
       ReadDispatcher, Nudge, ApplyPriority, Locks, StartLock, Reap, LeaveObject,
       LeaveExpired, ObjectTimesOut
  <2>3. CASE WaitTest(t)
    BY <1>1, <2>3 DEF WaitTest, WaitReturns, Enter, Return, TypeOK
  <2>4. CASE TestPredicate(t) \/ Block(t) \/ WakesEarly(t)
    BY <2>4 DEF TestPredicate, Block, WakesEarly, Goto, Enter, Return, TypeOK
  <2>5. QED
    BY <2>2, <2>3, <2>4
<1>2. QED
  BY <1>1

LEMMA RunNotifies ==
  ASSUME TypeOK, NEW r \in Runs, RunStep(r)
  PROVE  /\ finished => finished'
         /\ stage[r] \in BeforeNotify =>
              stage'[r] \in BeforeNotify \/ (stage'[r] = "notify" /\ finished')
         /\ stage[r] = "notify" =>
              \A u \in Callers : pc[u] # "block" /\ (pc[u] = "asleep" => pc'[u] = "predicate")
<1>0. DOMAIN stage = Runs
  BY DEF TypeOK
<1>1. CASE RunGoes(r)
  BY <1>0, <1>1 DEF RunGoes, SetUpDispatcher, EnterExec, LoopTest, PassInterrupted, DropDispatcher,
     StoreFinished, ThreadEnds, Advance, flags, BeforeNotify, BeforeClear
<1>2. CASE RunLocks(r)
  BY <1>0, <1>2 DEF RunLocks, PassGate, ClearRunning, NotifyWaiters, Woken, WaitFree, Advance, flags,
     BeforeNotify, BeforeClear
<1>3. CASE RunReturns(r) \/ PassServed(r)
  BY <1>0, <1>3 DEF RunReturns, PassServed, Advance, flags, BeforeNotify, BeforeClear
<1>4. QED
  BY <1>1, <1>2, <1>3 DEF RunStep

\* start() finds nobody waiting on POSIX.
LEMMA StartsAlone ==
  ASSUME "posix" \notin RestartsMeetWaits, Places, Overlaps,
         NEW t \in Callers, NEW u \in Callers, pc[t] \in Starting, pc[u] \in PosixWait
  PROVE  FALSE
<1>1. /\ call[t] = "start" /\ pc[t] # "idle" /\ t # u
      /\ call[u] \in {"start", "wait", "timed", "destroy"} /\ platform = "posix"
  BY DEF Places, Starting, Storing, PosixWait, WaitStages
<1>2. QED
  BY <1>1 DEF Overlaps

LEMMA SleepersStep ==
  /\ "posix" \notin RestartsMeetWaits
  /\ TypeOK /\ ThreadInv /\ Sleepers /\ [Next]_vars
  => Sleepers'
<1> SUFFICES ASSUME "posix" \notin RestartsMeetWaits, TypeOK, ThreadInv, Sleepers, [Next]_vars
             PROVE  Sleepers'
  OBVIOUS
<1>0. /\ Places /\ Overlaps /\ Numbers /\ Current /\ Joiners
      /\ handle \in 0 .. MaxRuns /\ None \notin Runs
      /\ {"predicate", "block", "asleep"} \subseteq PosixWait
      /\ BeforeNotify \subseteq Alive \ {"gone"} /\ "gone" \notin Alive
  BY DEF ThreadInv, TypeOK, None, Runs, PosixWait, BeforeNotify, BeforeClear, Alive
<1>1. ASSUME NEW t \in Callers, CallerStep(t) PROVE Sleepers'
  <2>0. platform' = platform /\ \A u \in Callers \ {t} : pc'[u] = pc[u]
    BY <1>1, Moves
  <2>1. CASE CreateThread(t)
    <3>1. pc[t] \in Starting /\ pc'[t] = "idle" /\ handle' = runs + 1 /\ stage'[runs + 1] = "entry"
      BY <1>0, <2>1, Created DEF Starting, Storing
    <3>2. \A u \in Callers : pc'[u] \notin Starting /\ pc'[u] \notin PosixWait
      <4>1. ASSUME NEW u \in Callers, pc'[u] \in Starting \cup PosixWait PROVE FALSE
        <5>1. u # t /\ pc[u] = pc'[u]
          BY <2>0, <3>1, <4>1 DEF Starting, Storing, PosixWait
        <5>2. CASE pc[u] \in Starting
          BY <1>0, <3>1, <5>1, <5>2, OneStarter DEF Places
        <5>3. CASE pc[u] \in PosixWait
          BY <1>0, <3>1, <5>3, StartsAlone
        <5>4. QED
          BY <4>1, <5>1, <5>2, <5>3
      <4>2. QED
        BY <4>1
    <3>3. QED
      BY <1>0, <3>1, <3>2 DEF Sleepers, BeforeNotify, BeforeClear
  <2>2. CASE Join(t)
    <3>1. /\ handle # None /\ platform = "posix" /\ stage[handle] = "gone"
          /\ handle' = None /\ finished' = finished /\ pc'[t] \notin PosixWait
      BY <1>0, <2>2, <1>1, Moves DEF Join, Joiners, Places, PosixWait, flags, BeginsAt, GoesOn, Ends
    <3>2. finished /\ \A u \in Callers : pc[u] \notin {"block", "asleep"}
      BY <1>0, <3>1 DEF Sleepers, Alive
    <3>3. QED
      BY <1>0, <2>0, <3>1, <3>2 DEF Sleepers
  <2>3. CASE LeaveObject(t)
    <3>1. platform = "win32" /\ pc'[t] \notin PosixWait
      BY <1>0, <1>1, <2>3, Moves DEF LeaveObject, Places, WindowsWait, PosixWait, BeginsAt, GoesOn, Ends
    <3>2. \A u \in Callers : pc'[u] \notin PosixWait
      BY <1>0, <2>0, <3>1 DEF Places
    <3>3. QED
      BY <1>0, <2>0, <3>1, <3>2 DEF Sleepers
  <2>4. CASE StoreNotFinished(t)
    <3>1. /\ pc[t] \in Starting /\ pc'[t] \notin PosixWait /\ handle' = handle /\ stage' = stage
      BY <2>4 DEF StoreNotFinished, Goto, Enter, TypeOK, bodyVars, Starting, Storing, PosixWait
    <3>2. \A u \in Callers : pc'[u] \notin PosixWait
      BY <1>0, <2>0, <3>1, StartsAlone
    <3>3. platform = "posix" => handle = None
      BY <3>1 DEF Sleepers
    <3>4. QED
      BY <1>0, <2>0, <3>1, <3>2, <3>3 DEF Sleepers
  <2>5. CASE ~CreateThread(t) /\ ~Join(t) /\ ~LeaveObject(t) /\ ~StoreNotFinished(t)
    <3>1. handle' = handle /\ stage' = stage
      BY <1>1, <2>5, Effects
    <3>2. finished' = finished
      <4>1. CASE StartLock(t) \/ CreateFails(t)
        BY <4>1 DEF StartLock, CreateFails
      <4>2. QED
        BY <1>1, <2>5, <4>1, FlagSteps
    <3>3. pc'[t] \in Starting /\ platform = "posix" => handle = None
      BY <1>1, <2>5, EntersStart DEF Sleepers
    <3>4. pc'[t] = "predicate" => finished \/ handle # None
      BY <1>1, EntersSleep DEF Sleepers
    <3>5. pc'[t] \in {"block", "asleep"} => handle # None /\ stage[handle] \in BeforeNotify \cup {"notify"}
      BY <1>0, <1>1, EntersSleep DEF Sleepers, Places
    <3>6. QED
      BY <2>0, <3>1, <3>2, <3>3, <3>4, <3>5 DEF Sleepers
  <2>6. QED
    BY <2>1, <2>2, <2>3, <2>4, <2>5
<1>2. ASSUME NEW r \in Runs, RunStep(r) PROVE Sleepers'
  <2>1. /\ platform' = platform /\ handle' = handle /\ handle = r /\ handle # None
        /\ \A u \in Callers : pc'[u] = pc[u] \/ (pc[u] = "asleep" /\ pc'[u] = "predicate")
    BY <1>0, <1>2, RunMoves DEF Current, AliveRuns
  <2>2. \A u \in Callers : pc'[u] \notin Starting
    BY <1>0, <1>2, <2>1, RunMoves DEF Current, AliveRuns, Starting, Storing
  <2>3. platform = "posix" /\ ~finished' => stage'[r] \in BeforeNotify
    <3>1. ASSUME platform = "posix", ~finished' PROVE stage'[r] \in BeforeNotify
      <4>1. stage[r] \in BeforeNotify
        BY <1>2, <2>1, <3>1, RunNotifies DEF Sleepers
      <4>2. QED
        BY <1>2, <3>1, <4>1, RunNotifies
    <3>2. QED
      BY <3>1
  <2>4. ASSUME NEW u \in Callers, pc'[u] \in {"block", "asleep"}
        PROVE  stage'[r] \in BeforeNotify \cup {"notify"}
    <3>1. pc[u] = pc'[u] /\ stage[r] \in BeforeNotify \cup {"notify"}
      BY <2>1, <2>4 DEF Sleepers
    <3>2. stage[r] # "notify"
      BY <1>2, <2>4, <3>1, RunNotifies
    <3>3. QED
      BY <1>2, <3>1, <3>2, RunNotifies
  <2>5. QED
    BY <2>1, <2>2, <2>3, <2>4 DEF Sleepers
<1>3. CASE UNCHANGED vars
  BY <1>3 DEF vars, flags, bodyVars, callerVars, Sleepers
<1>4. QED
  BY <1>1, <1>2, <1>3, NextSteps

\* Where start() overlaps no other start(), nor a wait() on POSIX, nobody sleeps on a run that has already
\* notified: the safety that WaitEnds rests on.
THEOREM SleepersAreAlwaysWoken ==
  StartsRace = FALSE /\ "posix" \notin RestartsMeetWaits => (Safety => []SleepersAreWoken)
<1> SUFFICES ASSUME StartsRace = FALSE, "posix" \notin RestartsMeetWaits
             PROVE  Safety => []SleepersAreWoken
  OBVIOUS
<1>1. Init => Sleepers
  BY DEF Init, Sleepers, Starting, Storing
<1>2. TypeOK /\ ThreadInv /\ Sleepers /\ [Next]_vars => Sleepers'
  BY SleepersStep
<1>3. TypeOK /\ Sleepers => SleepersAreWoken
  <2> SUFFICES ASSUME TypeOK, Sleepers, NEW t \in Callers, pc[t] \in {"block", "asleep"}
               PROVE  \E r \in AliveRuns : stage[r] # "leave"
    BY DEF SleepersAreWoken
  <2>1. handle \in Runs /\ stage[handle] \in BeforeNotify \cup {"notify"}
    BY ConstantsAssumption DEF TypeOK, Sleepers, None, Runs
  <2>2. handle \in AliveRuns /\ stage[handle] # "leave"
    BY <2>1 DEF AliveRuns, Alive, BeforeNotify, BeforeClear
  <2>3. QED
    BY <2>2
<1>4. QED
  BY <1>1, <1>2, <1>3, TypeCorrect, ThreadInvariant, PTL DEF Safety
-----------------------------------------------------------------------------
(* No exit() is missed by a loop inside a pass.                            *)

\* A request that counts stays in mExiting until its run is over, for the next start() comes
\* after that; and the loop holds the dispatcher that exit() finds.
Heard ==
  /\ \A r \in asked : stage[r] # "none" /\ (stage[r] \in Alive => exiting)
  /\ \A r \in Runs : stage[r] \in {"test", "events"} => held[r] = dispatcher
  /\ ExitIsHeard

\* What a caller does to a request, and how exit() goes on.
LEMMA ExitSteps ==
  ASSUME TypeOK, NEW t \in Callers, CallerStep(t)
  PROVE  /\ UNCHANGED <<dispatcher, held>> /\ nudged \subseteq nudged'
         /\ exiting' = exiting \/ exiting' = TRUE \/ pc[t] \in Starting
         /\ \/ asked' = asked
            \/ asked' = asked \cup AliveRuns /\ exiting' = TRUE /\ pc'[t] = "exitRead" /\ stage' = stage
         /\ pc[t] = "exitRead" =>
              dispatcher = None \/ (pc'[t] = "exitNudge" /\ op'[t].run = dispatcher)
         /\ pc[t] = "exitNudge" => op[t].run \in nudged'
<1>0. pc \in [Callers -> Steps] /\ op \in [Callers -> Op]
  BY DEF TypeOK
<1> USE DEF bodyVars, loopVars, flags, history
<1>1. CASE Begins(t)
  <2>1. CASE StoreExiting(t)
    <3>1. pc'[t] = "exitRead" /\ pc[t] = "idle"
      BY <1>0, <2>1 DEF StoreExiting, Begin
    <3>2. QED
      BY <2>1, <3>1 DEF StoreExiting
  <2>2. CASE StartTest(t) \/ BeginWait(t) \/ TestRunning(t)
    BY <1>0, <2>2 DEF StartTest, BeginWait, TestRunning, Begin
  <2>3. QED
    BY <1>1, <2>1, <2>2 DEF Begins
<1>2. CASE Goes(t)
  <2>1. CASE StoreNotFinished(t) \/ StoreNotExiting(t) \/ CreateThread(t) \/ CreateFails(t)
    BY <1>0, <2>1 DEF StoreNotFinished, StoreNotExiting, CreateThread, CreateFails, Starting, Storing
  <2>2. CASE Block(t) \/ ObjectSignalled(t) \/ ApplyPriority(t) \/ Join(t)
    BY <1>0, <2>2 DEF Block, ObjectSignalled, ApplyPriority, Join
  <2>3. CASE ReadDispatcher(t)
    BY <1>0, <2>3 DEF ReadDispatcher, Enter
  <2>4. CASE Nudge(t)
    BY <1>0, <2>4 DEF Nudge
  <2>5. QED
    BY <1>2, <2>1, <2>2, <2>3, <2>4 DEF Goes
<1>3. CASE Locks(t)
  BY <1>0, <1>3 DEF Locks, StartLock, WaitTest, TestPredicate, Reap, LeaveObject, LeaveExpired
<1>4. CASE WakesEarly(t) \/ ObjectTimesOut(t)
  BY <1>0, <1>4 DEF WakesEarly, ObjectTimesOut
<1>5. QED
  BY <1>1, <1>2, <1>3, <1>4 DEF CallerStep

\* How a run comes to test mExiting, and to begin a pass.
LEMMA RunHears ==
  ASSUME TypeOK, NEW r \in Runs, RunStep(r)
  PROVE  /\ UNCHANGED <<exiting, asked>>
         /\ stage'[r] = "events" =>
              stage[r] = "test" /\ ~exiting /\ held' = held /\ dispatcher' = dispatcher
         /\ stage'[r] = "test" => held'[r] = dispatcher /\ dispatcher' = dispatcher
<1>0. DOMAIN stage = Runs /\ DOMAIN held = Runs
  BY DEF TypeOK
<1> USE DEF Advance, flags, history, loopVars
<1>1. CASE RunGoes(r)
  BY <1>0, <1>1 DEF RunGoes, SetUpDispatcher, EnterExec, LoopTest, PassInterrupted, DropDispatcher,
     StoreFinished, ThreadEnds
<1>2. CASE RunLocks(r)
  BY <1>0, <1>2 DEF RunLocks, PassGate, ClearRunning, NotifyWaiters
<1>3. CASE RunReturns(r) \/ PassServed(r)
  BY <1>0, <1>3 DEF RunReturns, PassServed
<1>4. QED
  BY <1>1, <1>2, <1>3 DEF RunStep

LEMMA HeardStep == TypeOK /\ ThreadInv /\ Heard /\ [Next]_vars => Heard'
<1> SUFFICES ASSUME TypeOK, ThreadInv, Heard, [Next]_vars PROVE Heard'
  OBVIOUS
<1> DEFINE Coming(r) == \E t \in Callers : \/ pc[t] = "exitNudge" /\ op[t].run = held[r]
                                           \/ pc[t] = "exitRead" /\ dispatcher = held[r]
<1>0. /\ Numbers /\ Current /\ asked \subseteq Runs /\ None \notin Runs
      /\ \A r \in Runs : stage[r] = "events" => held[r] \in Runs
      /\ \A r \in Runs : r \in AliveRuns <=> stage[r] \in Alive
      /\ {"test", "events"} \subseteq Alive /\ {"none", "gone"} \cap Alive = {}
  BY DEF ThreadInv, TypeOK, None, Runs, AliveRuns, Alive
<1>1. ASSUME NEW t \in Callers, CallerStep(t) PROVE Heard'
  <2>0. \A u \in Callers \ {t} : pc'[u] = pc[u] /\ op'[u] = op[u]
    BY <1>1, Moves
  <2>1. /\ \A r \in Runs : stage[r] # "none" => stage'[r] = stage[r]
        /\ \A r \in Runs : stage'[r] \in {"test", "events"} => stage'[r] = stage[r]
    <3>1. CASE CreateThread(t)
      BY <1>0, <3>1, Created
    <3>2. CASE ~CreateThread(t)
      BY <1>1, <3>2, Effects
    <3>3. QED
      BY <3>1, <3>2
  <2>2. ASSUME NEW r \in asked' PROVE stage'[r] # "none" /\ (stage'[r] \in Alive => exiting')
    <3>1. CASE r \in asked
      <4>1. r \in Runs /\ stage'[r] = stage[r] /\ (stage[r] \in Alive => exiting)
        BY <1>0, <2>1, <3>1 DEF Heard
      <4>2. stage[r] \in Alive => pc[t] \notin Starting
        BY <1>0, <4>1 DEF Current
      <4>3. QED
        BY <1>1, <3>1, <4>1, <4>2, ExitSteps DEF Heard
    <3>2. CASE r \notin asked
      <4>1. r \in AliveRuns /\ exiting' = TRUE /\ stage' = stage
        BY <1>1, <2>2, <3>2, ExitSteps
      <4>2. r \in Runs /\ stage[r] \in Alive
        BY <1>0, <4>1 DEF AliveRuns
      <4>3. QED
        BY <1>0, <4>1, <4>2
    <3>3. QED
      BY <3>1, <3>2
  <2>3. ASSUME NEW r \in Runs, stage'[r] \in {"test", "events"} PROVE held'[r] = dispatcher'
    BY <1>1, <2>1, <2>3, ExitSteps DEF Heard
  <2>4. ASSUME NEW r \in asked', stage'[r] = "events" PROVE held'[r] \in nudged' \/ Coming(r)'
    <3>1. r \in Runs /\ stage[r] = "events" /\ held'[r] = held[r] /\ held[r] = dispatcher
          /\ dispatcher' = dispatcher /\ dispatcher # None
      <4>1. r \in Runs
        BY <1>0, <1>1, <2>4, ExitSteps DEF AliveRuns
      <4>2. QED
        BY <1>0, <1>1, <2>1, <2>4, <4>1, ExitSteps DEF Heard
    <3>2. CASE r \in asked
      <4>1. held[r] \in nudged \/ Coming(r)
        BY <3>1, <3>2 DEF Heard, ExitIsHeard
      <4>2. CASE held[r] \in nudged
        BY <1>1, <3>1, <4>2, ExitSteps
      <4>3. CASE Coming(r)
        <5>1. PICK u \in Callers : \/ pc[u] = "exitNudge" /\ op[u].run = held[r]
                                   \/ pc[u] = "exitRead" /\ dispatcher = held[r]
          BY <4>3
        <5>2. CASE u # t
          BY <2>0, <3>1, <5>1, <5>2
        <5>3. CASE u = t
          BY <1>1, <3>1, <5>1, <5>3, ExitSteps
        <5>4. QED
          BY <5>2, <5>3
      <4>4. QED
        BY <4>1, <4>2, <4>3
    <3>3. CASE r \notin asked
      <4>1. pc'[t] = "exitRead"
        BY <1>1, <2>4, <3>3, ExitSteps
      <4>2. QED
        BY <3>1, <4>1
    <3>4. QED
      BY <3>2, <3>3
  <2>5. ASSUME NEW r \in asked', stage'[r] = "events" PROVE exiting'
    BY <1>0, <2>2, <2>5
  <2>6. QED
    BY <2>2, <2>3, <2>4, <2>5 DEF Heard, ExitIsHeard
<1>2. ASSUME NEW s \in Runs, RunStep(s) PROVE Heard'
  <2>1. /\ stage[s] \in Alive /\ stage'[s] \in Alive \cup {"gone"}
        /\ \A r \in Runs \ {s} : stage'[r] = stage[r]
        /\ UNCHANGED <<exiting, asked>>
    BY <1>2, RunMoves, RunHears
  <2>2. \A r \in Runs \ {s} : stage[r] \notin Alive
    BY <1>0, <2>1 DEF Current
  <2>3. ASSUME NEW r \in asked PROVE stage'[r] # "none" /\ (stage'[r] \in Alive => exiting)
    BY <1>0, <2>1, <2>2, <2>3 DEF Heard
  <2>4. ASSUME NEW r \in Runs, stage'[r] \in {"test", "events"} PROVE held'[r] = dispatcher'
    <3>1. r = s
      BY <1>0, <2>1, <2>2, <2>4
    <3>2. QED
      BY <1>2, <2>4, <3>1, RunHears DEF Heard
  <2>5. ASSUME NEW r \in asked, stage'[r] = "events" PROVE FALSE
    <3>1. r = s /\ exiting
      BY <1>0, <2>1, <2>2, <2>3, <2>5
    <3>2. QED
      BY <1>2, <2>5, <3>1, RunHears
  <2>6. QED
    BY <2>1, <2>3, <2>4, <2>5 DEF Heard, ExitIsHeard
<1>3. CASE UNCHANGED vars
  BY <1>3 DEF vars, flags, bodyVars, loopVars, callerVars, history, Heard, ExitIsHeard
<1>4. QED
  BY <1>1, <1>2, <1>3, NextSteps

\* When no two callers are in start() at once, a run inside a pass never misses an exit(): the safety that ExitEndsRun rests on.
THEOREM ExitsAreHeard == StartsRace = FALSE => (Safety => []ExitIsHeard)
<1> SUFFICES ASSUME StartsRace = FALSE PROVE Safety => []ExitIsHeard
  OBVIOUS
<1>1. Init => Heard
  BY DEF Init, Heard, ExitIsHeard
<1>2. Heard => ExitIsHeard
  BY DEF Heard
<1>3. QED
  BY <1>1, <1>2, HeardStep, TypeCorrect, ThreadInvariant, PTL DEF Safety
-----------------------------------------------------------------------------
(* ThreadRuns is implemented.                                              *)

Awaited == [t \in Callers |-> IF call[t] = "timed" THEN {} ELSE op[t].found]

\* Only a caller inside wait() has found runs.
FoundByWaits == \A t \in Callers : pc[t] \notin PosixWait \cup WindowsWait => op[t].found = {}

\* What a caller has found: unchanged unless its wait() begins, gives up or has outlasted it.
LEMMA FoundMoves ==
  ASSUME TypeOK, ThreadInv, FoundByWaits, NEW t \in Callers, CallerStep(t)
  PROVE  /\ pc'[t] \notin PosixWait \cup WindowsWait => op'[t].found = {}
         /\ \/ op'[t].found = op[t].found /\ (call'[t] = call[t] \/ op[t].found = {})
            \/ op'[t].found = {} /\ call[t] = "timed" /\ destroyed' = destroyed
            \/ /\ op'[t].found = AliveRuns /\ op[t].found = {} /\ pc[t] = "waitTest"
               /\ call'[t] = call[t] /\ destroyed' = destroyed
            \/ op'[t].found = {} /\ Waited(t)
<1>0. /\ pc \in [Callers -> Steps] /\ op \in [Callers -> Op] /\ DOMAIN call = Callers
      /\ pc[t] \notin PosixWait \cup WindowsWait => op[t].found = {}
      /\ NoOp.found = {} /\ Places
  BY Locals DEF TypeOK, FoundByWaits, ThreadInv
<1> USE DEF PosixWait, WindowsWait
<1>1. CASE Begins(t)
  BY <1>0, <1>1 DEF Begins, StartTest, BeginWait, StoreExiting, TestRunning, Begin
<1>2. CASE Goes(t)
  <2>1. CASE StoreNotFinished(t) \/ StoreNotExiting(t) \/ CreateThread(t) \/ CreateFails(t)
    BY <1>0, <2>1 DEF StoreNotFinished, StoreNotExiting, CreateThread, CreateFails, Goto, Enter, Return
  <2>2. CASE Block(t) \/ ObjectSignalled(t) \/ ApplyPriority(t)
    BY <1>0, <2>2 DEF Block, ObjectSignalled, ApplyPriority, Goto, Enter, Return
  <2>3. CASE Join(t)
    BY <1>0, <2>3 DEF Join, WaitReturns, Enter, Return, Waited
  <2>4. CASE ReadDispatcher(t)
    <3>1. CASE dispatcher = None
      BY <1>0, <2>4, <3>1 DEF ReadDispatcher, ExitReturns, Enter, Return
    <3>2. CASE dispatcher # None
      BY <1>0, <2>4, <3>2 DEF ReadDispatcher, Enter
    <3>3. QED
      BY <3>1, <3>2
  <2>5. CASE Nudge(t)
    BY <1>0, <2>5 DEF Nudge, ExitReturns, Enter, Return
  <2>6. QED
    BY <1>2, <2>1, <2>2, <2>3, <2>4, <2>5 DEF Goes
<1>3. CASE Locks(t)
  <2>1. CASE StartLock(t) \/ TestPredicate(t)
    BY <1>0, <2>1 DEF StartLock, TestPredicate, Goto, Enter
  <2>2. CASE WaitTest(t)
    <3>1. CASE handle = None
      BY <1>0, <2>2, <3>1 DEF WaitTest, WaitReturns, Enter, Return
    <3>2. CASE handle # None
      BY <1>0, <2>2, <3>2 DEF WaitTest, Enter
    <3>3. QED
      BY <3>1, <3>2
  <2>3. CASE Reap(t)
    BY <1>0, <2>3 DEF Reap, WaitReturns, Goto, Enter, Return, Waited
  <2>4. CASE LeaveObject(t)
    BY <1>0, <2>4 DEF LeaveObject, WaitReturns, Enter, Return, Waited
  <2>5. CASE LeaveExpired(t)
    BY <1>0, <2>5 DEF LeaveExpired, Return, Places
  <2>6. QED
    BY <1>3, <2>1, <2>2, <2>3, <2>4, <2>5 DEF Locks
<1>4. CASE WakesEarly(t) \/ ObjectTimesOut(t)
  BY <1>0, <1>4 DEF WakesEarly, ObjectTimesOut, Goto, Enter, Return
<1>5. QED
  BY <1>1, <1>2, <1>3, <1>4 DEF CallerStep

LEMMA FoundStep == TypeOK /\ ThreadInv /\ FoundByWaits /\ [Next]_vars => FoundByWaits'
<1> SUFFICES ASSUME TypeOK, ThreadInv, FoundByWaits, [Next]_vars PROVE FoundByWaits'
  OBVIOUS
<1>1. ASSUME NEW t \in Callers, CallerStep(t) PROVE FoundByWaits'
  BY <1>1, Moves, FoundMoves DEF FoundByWaits
<1>2. ASSUME NEW r \in Runs, RunStep(r) PROVE FoundByWaits'
  BY <1>2, RunMoves DEF FoundByWaits, PosixWait
<1>3. CASE UNCHANGED vars
  BY <1>3 DEF vars, callerVars, FoundByWaits
<1>4. QED
  BY <1>1, <1>2, <1>3, NextSteps

\* One caller's part of what is awaited changes.
LEMMA AwaitedStep ==
  ASSUME TypeOK, NEW t \in Callers, CallerStep(t)
  PROVE  /\ Awaited \in [Callers -> SUBSET Runs]
         /\ Awaited' = [Awaited EXCEPT ![t] = IF call'[t] = "timed" THEN {} ELSE op'[t].found]
<1>1. \A u \in Callers : op[u].found \in SUBSET Runs
  BY Locals DEF TypeOK
<1>2. \A u \in Callers \ {t} : call'[u] = call[u] /\ op'[u] = op[u]
  BY Moves
<1>3. QED
  BY <1>1, <1>2 DEF Awaited

LEMMA CallersMap ==
  ASSUME TypeOK, ThreadInv, ThreadInv', FoundByWaits, [Next]_vars, NEW t \in Callers, CallerStep(t)
  PROVE  Abstract!Next \/ UNCHANGED Abstract!vars
<1>0. /\ Current /\ Overlaps /\ Numbers /\ Places /\ DestroyedIsQuiet' /\ None \notin Runs
      /\ pc[t] \notin PosixWait \cup WindowsWait => op[t].found = {}
  BY DEF ThreadInv, FoundByWaits, None, Runs
<1> DEFINE New == IF call'[t] = "timed" THEN {} ELSE op'[t].found
<1>1. /\ Awaited' = [Awaited EXCEPT ![t] = New] /\ Awaited \in [Callers -> SUBSET Runs]
      /\ Awaited[t] = IF call[t] = "timed" THEN {} ELSE op[t].found
  BY AwaitedStep DEF Awaited
<1>2. CASE CreateThread(t)
  <2>1. /\ runs' = runs + 1 /\ AliveRuns = {} /\ AliveRuns' = {runs + 1} /\ pc[t] = "create"
        /\ destroyed' = destroyed
    BY <1>0, <1>2, Created DEF Current, Starting, Storing, CreateThread
  <2>2. ~destroyed
    BY <1>0, <2>1 DEF Overlaps, TypeOK
  <2>3. New = {} /\ Awaited[t] = {}
    BY <1>0, <1>1, <1>2, <2>1, Locals DEF PosixWait, WindowsWait, CreateThread, Return, TypeOK
  <2>4. Awaited' = Awaited
    BY <1>1, <2>3
  <2>5. Abstract!Start
    BY <2>1, <2>2, <2>4 DEF Abstract!Start, Awaited
  <2>6. QED
    BY <2>5 DEF Abstract!Next
<1>3. CASE stage' = stage /\ runs' = runs /\ destroyed' = destroyed
  <2>0. AliveRuns' = AliveRuns
    BY <1>3, SameAlive
  <2>1. CASE New = Awaited[t]
    <3>1. Awaited' = Awaited
      BY <1>1, <2>1
    <3>2. QED
      BY <1>3, <2>0, <3>1 DEF Abstract!vars, Awaited
  <2>2. CASE New # Awaited[t] /\ pc[t] = "waitTest" /\ op'[t].found = AliveRuns /\ op[t].found = {}
             /\ call'[t] = call[t]
    <3>1. New = AliveRuns /\ Awaited[t] = {} /\ ~destroyed
      BY <1>0, <1>1, <2>2 DEF Overlaps, TypeOK
    <3>2. Abstract!Wait(t)
      BY <1>1, <1>3, <2>0, <3>1 DEF Abstract!Wait, Awaited
    <3>3. QED
      BY <3>2 DEF Abstract!Next
  <2>3. CASE New = {} /\ Waited(t)
    <3>1. \A r \in Awaited[t] : r \notin AliveRuns
      BY <1>1, <2>3, WaitedRunsAreOver DEF AliveRuns, Alive
    <3>2. Abstract!Return(t)
      BY <1>1, <1>3, <2>0, <2>3, <3>1 DEF Abstract!Return, Awaited
    <3>3. QED
      BY <3>2 DEF Abstract!Next
  <2>4. QED
    BY <1>1, <2>1, <2>2, <2>3, FoundMoves
<1>4. CASE destroyed' # destroyed /\ stage' = stage /\ runs' = runs
  <2>1. call[t] = "destroy" /\ pc[t] # "idle"
    BY <1>4, Destroys
  <2>2. destroyed' = TRUE /\ ~destroyed /\ pc'[t] = "idle"
    <3>1. CASE destroyed
      BY <1>0, <2>1, <3>1 DEF Overlaps
    <3>2. WaitTest(t) \/ Reap(t) \/ Join(t) \/ LeaveObject(t)
      BY <1>4 DEF CallerStep, Begins, StartTest, BeginWait, StoreExiting, TestRunning, Goes,
         StoreNotFinished, StoreNotExiting, CreateThread, CreateFails, Block, ObjectSignalled,
         ReadDispatcher, Nudge, ApplyPriority, Locks, StartLock, TestPredicate,
         LeaveExpired, WakesEarly, ObjectTimesOut
    <3>3. WaitReturns(t)
      BY <1>4, <3>2 DEF WaitTest, Reap, Join, LeaveObject
    <3>4. QED
      BY <1>4, <2>1, <3>1, <3>3 DEF WaitReturns, Return, TypeOK
  <2>3. AliveRuns = {} /\ AliveRuns' = AliveRuns
    BY <1>0, <1>4, <2>2, SameAlive DEF DestroyedIsQuiet
  <2>4. \A u \in Callers \ {t} : op[u].found = {}
    BY <1>0, <2>1 DEF Overlaps, FoundByWaits, PosixWait, WindowsWait
  <2>5. op'[t].found = {}
    BY <2>2, FoundMoves DEF PosixWait, WindowsWait
  <2>6. Awaited' = [u \in Callers |-> {}] /\ \A u \in Callers \ {t} : Awaited[u] = {}
    <3>1. \A u \in Callers \ {t} : Awaited[u] = {}
      BY <2>4 DEF Awaited
    <3>2. QED
      BY <1>1, <2>5, <3>1
  <2>7. Abstract!Destroy(t)
    BY <1>4, <2>2, <2>3, <2>6 DEF Abstract!Destroy, Abstract!Nobody, Awaited
  <2>8. QED
    BY <2>7 DEF Abstract!Next
<1>5. QED
  BY <1>2, <1>3, <1>4, Effects

LEMMA RunsMap ==
  ASSUME TypeOK, ThreadInv, NEW r \in Runs, RunStep(r)
  PROVE  Abstract!Next \/ UNCHANGED Abstract!vars
<1>1. /\ UNCHANGED <<runs, destroyed, op, call>> /\ r \in AliveRuns
      /\ \A s \in Runs \ {r} : stage'[s] = stage[s]
      /\ stage'[r] \in Alive \cup {"gone"}
  BY RunMoves DEF AliveRuns
<1>2. AliveRuns = {r}
  BY <1>1 DEF ThreadInv, Current
<1>3. CASE stage'[r] \in Alive
  <2>1. AliveRuns' = AliveRuns
    BY <1>1, <1>2, <1>3 DEF AliveRuns
  <2>2. QED
    BY <1>1, <2>1 DEF Abstract!vars
<1>4. CASE stage'[r] = "gone"
  <2>1. AliveRuns' = {}
    BY <1>1, <1>2, <1>4 DEF AliveRuns, Alive
  <2>2. Abstract!End
    BY <1>1, <1>2, <2>1 DEF Abstract!End
  <2>3. QED
    BY <2>2 DEF Abstract!Next
<1>5. QED
  BY <1>1, <1>3, <1>4

\* The Thread of POSIX and of Windows is the one ThreadRuns describes: one run after another,
\* every wait() without a time outlasts the run it finds, and the object dies last, when no two
\* callers are in start() at once.
THEOREM ThreadImplementsRuns == StartsRace = FALSE => (Safety => ImplementsRuns)
<1> SUFFICES ASSUME StartsRace = FALSE PROVE Safety => ImplementsRuns
  OBVIOUS
<1>1. Init => FoundByWaits /\ Abstract!Init
  <2> SUFFICES ASSUME Init PROVE FoundByWaits /\ Abstract!Init
    OBVIOUS
  <2>1. AliveRuns = {} /\ \A t \in Callers : op[t].found = {}
    BY Locals DEF Init, AliveRuns, Alive
  <2>2. QED
    BY <2>1 DEF Init, FoundByWaits, Abstract!Init, Abstract!Nobody
<1>2. TypeOK /\ ThreadInv /\ ThreadInv' /\ FoundByWaits /\ [Next]_vars => [Abstract!Next]_(Abstract!vars)
  <2> SUFFICES ASSUME TypeOK, ThreadInv, ThreadInv', FoundByWaits, [Next]_vars
               PROVE  Abstract!Next \/ UNCHANGED Abstract!vars
    OBVIOUS
  <2>1. CASE UNCHANGED vars
    BY <2>1, SameAlive DEF vars, bodyVars, callerVars, Abstract!vars
  <2>2. QED
    BY <2>1, CallersMap, RunsMap, NextSteps
<1>3. QED
  BY <1>1, <1>2, FoundStep, TypeCorrect, ThreadInvariant, PTL DEF Safety, ImplementsRuns, Abstract!Safety
=============================================================================
