----------------------- MODULE EventDispatcherProofs -----------------------
(***************************************************************************)
(* What is proved of EventDispatcher for every set of threads, events and  *)
(* timers, every platform and every bound: type correctness, and that the  *)
(* wait/wake protocols lose no wakeup. WakeInv is the inductive invariant. *)
(***************************************************************************)
EXTENDS EventDispatcher, SequenceTheorems, TLAPS

\* The calls a thread can be making, and what each carries.
LEMMA OpTypes ==
  /\ Idle \in Ops
  /\ \A c \in {"interrupt", "wakeUp", "interruptOnly"} : [call |-> c] \in Ops
  /\ \A e \in Events : [call |-> "post", event |-> e] \in Ops
  /\ \A c \in {"register", "unregister"}, m \in Timers : [call |-> c, timer |-> m] \in Ops
  /\ \A c \in {"registerSource", "unregisterSource"}, s \in Sources : [call |-> c, source |-> s] \in Ops
  /\ \A o \in Ops : /\ o.call = "post" => o.event \in Events
                    /\ o.call \in {"register", "unregister"} => o.timer \in Timers
                    /\ o.call \in {"registerSource", "unregisterSource"} => o.source \in Sources
<1>1. \A o \in {Idle} : o.call \notin {"post", "register", "unregister", "registerSource", "unregisterSource"}
  BY DEF Idle
<1>2. QED
  BY <1>1 DEF Ops, Idle

\* The end of processEvents()'s critical section moves well-typed events and timers.
LEMMA TakeTypes ==
  ASSUME TypeOK, NEW expired \in SUBSET Timers, Take(expired)
  PROVE  /\ queue' \in Seq(Events) /\ batch' \in Seq(Events)
         /\ timerBatch' \in SUBSET Timers /\ loop' \in LoopStates
<1>1. CASE interrupted
  BY <1>1 DEF Take, TypeOK, LoopStates
<1>2. CASE ~interrupted
  <2>1. queue' = <<>> /\ batch' = queue /\ timerBatch' = expired
    BY <1>2, Zenon DEF Take
  <2>2. loop' \in {"platform", "dispatch"}
    BY <1>2 DEF Take
  <2>3. QED
    BY <2>1, <2>2 DEF TypeOK, LoopStates
<1>3. QED
  BY <1>1, <1>2

\* The end of a call leaves its caller in a state it can be in.
LEMMA ReturnTypes ==
  ASSUME TypeOK, NEW t \in Callers, Return(t)
  PROVE  /\ mutex' \in Callers \cup {NoThread}
         /\ pc' \in [Callers -> CallStates] /\ op' \in [Callers -> Ops]
BY OpTypes DEF Return, Begin, Finish, TypeOK, CallStates

\* The flags are only ever stored constants.
LEMMA FlagsStep == FlagsOK /\ [Next]_vars => FlagsOK'
<1> SUFFICES ASSUME FlagsOK, [Next]_vars PROVE FlagsOK'
  OBVIOUS
<1> USE DEF FlagsOK, build, waitVars, loopVars, callVars
<1>1. ASSUME NEW t \in Callers, Call(t) PROVE FlagsOK'
  BY <1>1, ZenonT(60) DEF Call, BeginPost, BeginRegister, BeginUnregister, BeginRegisterSource,
                     BeginUnregisterSource, Exit, Control, Begin
<1>2. ASSUME NEW t \in Callers, Proceed(t) PROVE FlagsOK'
  BY <1>2, Zenon DEF Proceed, PostEvent, RegisterTimer, UnregisterTimer, Interrupt, WakeUp,
                     RegisterSource, UnregisterSource, SourceSection, NotifyAll,
                     ExchangePending, WriteWake, WriteFailed, WakeUnchanged
<1>3. CASE LoopStep
  BY <1>3, ZenonT(60) DEF LoopStep, ExecTest, ConsumeInterrupt, CollectAndTake, CollectAndWait, CvTest, CvBlock,
       CvTimeout, CvReacquire, CvReturn, PollWake, PollTimeout, DrainWakeFd, CallSource, CallbackReturns,
       PollReturn, PeekWake, PollOnly,
       PeekDone, DispatchEvent, DispatchTimer, SlotReturns, PassDone, AfterWait, Take,
       LoopOnly, LoopUnchanged, DrainUnchanged
<1>4. CASE Environment
  BY <1>4, Zenon DEF Environment, CvSpurious, PollOther, PeekQuit, ExecAgain, LoopOnly, PollOnly, LoopUnchanged
<1>5. ASSUME NEW m \in Timers, Tick(m) PROVE FlagsOK'
  BY <1>5, Zenon DEF Tick
<1>6. CASE UNCHANGED vars
  BY <1>6, Zenon DEF vars
<1>7. QED
  BY <1>1, <1>2, <1>3, <1>4, <1>5, <1>6 DEF Next

\* The program is built for one platform.
LEMMA BuildStays == [Next]_vars => platform' = platform /\ mayFail' = mayFail
BY Zenon DEF Next, build, Call, Proceed, LoopStep, Environment, Tick, vars

\* Every operation keeps every variable in its type.
THEOREM TypeCorrect == Safety => []TypeOK
<1> USE OpTypes, BoundsAssumption
<1>1. Init => TypeOK
  <2>1. Init => FlagsOK
    BY PlatformAssumption DEF Init, FlagsOK
  <2>2. QED
    BY <2>1 DEF Init, TypeOK, LoopStates, CallStates
<1>2. TypeOK /\ [Next]_vars => TypeOK'
  <2> SUFFICES ASSUME TypeOK, [Next]_vars PROVE TypeOK'
    OBVIOUS
  <2>0. FlagsOK' /\ platform' = platform /\ mayFail' = mayFail
    BY FlagsStep, BuildStays DEF TypeOK
  <2> USE <2>0
  <2>1. ASSUME NEW t \in Callers, Call(t) PROVE TypeOK'
    <3> USE DEF Begin, TypeOK, CallStates, waitVars, loopVars
    <3>1. ASSUME NEW e \in Events, BeginPost(t, e) PROVE TypeOK'
      BY <3>1 DEF BeginPost
    <3>2. ASSUME NEW m \in Timers, BeginRegister(t, m) PROVE TypeOK'
      BY <3>2 DEF BeginRegister
    <3>3. ASSUME NEW m \in Timers, BeginUnregister(t, m) PROVE TypeOK'
      BY <3>3 DEF BeginUnregister, history
    <3>4. CASE Exit(t)
      BY <3>4 DEF Exit
    <3>5. CASE Control(t)
      BY <3>5 DEF Control
    <3>6. ASSUME NEW s \in Sources, BeginRegisterSource(t, s) PROVE TypeOK'
      BY <3>6 DEF BeginRegisterSource
    <3>7. ASSUME NEW s \in Sources, BeginUnregisterSource(t, s) PROVE TypeOK'
      BY <3>7 DEF BeginUnregisterSource, history
    <3>8. QED
      BY <2>1, <3>1, <3>2, <3>3, <3>4, <3>5, <3>6, <3>7 DEF Call
  <2>2. ASSUME NEW t \in Callers, Proceed(t) PROVE TypeOK'
    <3>0. op[t] \in Ops
      BY DEF TypeOK
    <3>1. CASE PostEvent(t)
      BY <3>0, <3>1 DEF PostEvent, Ready, ToWake, TypeOK, CallStates,
                        waitVars, loopVars, history
    <3>2. CASE RegisterTimer(t)
      BY <3>0, <3>2 DEF RegisterTimer, Ready, ToWake, TypeOK, CallStates,
                        loopVars, history
    <3>3. CASE UnregisterTimer(t)
      BY <3>0, <3>3 DEF UnregisterTimer, Ready, ToWake, Finish, TypeOK, CallStates,
                        loopVars, history
    <3>4. CASE Interrupt(t) \/ WakeUp(t)
      BY <3>4 DEF Interrupt, WakeUp, ToWake, TypeOK, CallStates, waitVars, loopVars, history
    <3>5. CASE NotifyAll(t) \/ ExchangePending(t)
      <4>1. CASE NotifyAll(t)
        BY <4>1, ReturnTypes DEF NotifyAll, WakeUnchanged, Finish, TypeOK, LoopStates, CallStates, history
      <4>2. CASE ExchangePending(t)
        BY <4>2, ReturnTypes DEF ExchangePending, WakeUnchanged, TypeOK, CallStates, history
      <4>3. QED
        BY <3>5, <4>1, <4>2
    <3>6. CASE WriteFailed(t)
      BY <3>6, ReturnTypes DEF WriteFailed, WakeUnchanged, TypeOK, history
    <3>7. CASE WriteWake(t)
      <4>1. mutex' \in Callers \cup {NoThread} /\ pc' \in [Callers -> CallStates]
            /\ op' \in [Callers -> Ops] /\ token' \in Nat
        <5>1. CASE token' = token + 1 /\ Return(t)
          BY <5>1, ReturnTypes DEF TypeOK
        <5>2. CASE pc' = [pc EXCEPT ![t] = "failed"] /\ UNCHANGED <<token, op, mutex>>
          BY <5>2 DEF TypeOK, CallStates
        <5>3. QED
          BY <3>7, <5>1, <5>2 DEF WriteWake
      <4>2. QED
        BY <3>7, <4>1 DEF WriteWake, WakeUnchanged, TypeOK, history
    <3>8. CASE RegisterSource(t) \/ UnregisterSource(t)
      <4>1. sources' \in SUBSET Sources
        BY <3>0, <3>8 DEF RegisterSource, UnregisterSource, Ready, TypeOK
      <4>2. /\ pc' \in {[pc EXCEPT ![t] = "notify"], [pc EXCEPT ![t] = "idle"]}
            /\ op' \in {op, [op EXCEPT ![t] = Idle]}
        BY <3>8 DEF RegisterSource, UnregisterSource, ToWake, Finish
      <4>3. pc' \in [Callers -> CallStates] /\ op' \in [Callers -> Ops]
        BY <4>2 DEF TypeOK, CallStates
      <4>4. SourceSection
        BY <3>8 DEF RegisterSource, UnregisterSource
      <4>5. QED
        BY <4>1, <4>3, <4>4 DEF SourceSection, TypeOK, waitVars, loopVars, history
    <3>9. QED
      BY <2>2, <3>1, <3>2, <3>3, <3>4, <3>5, <3>6, <3>7, <3>8 DEF Proceed
  <2>3. CASE LoopStep
    <3>1. CASE ExecTest \/ ConsumeInterrupt \/ CollectAndWait
      BY <3>1 DEF ExecTest, ConsumeInterrupt, CollectAndWait, CopySources, LoopUnchanged, TypeOK, LoopStates,
                  Callers, callVars, waitVars
    <3>2. CASE CollectAndTake
      BY <3>2, TakeTypes DEF CollectAndTake, LoopUnchanged, TypeOK, callVars, waitVars
    <3>3. CASE CvTest \/ CvBlock \/ CvTimeout \/ CvReacquire
      BY <3>3 DEF CvTest, CvBlock, CvTimeout, CvReacquire, LoopOnly, PollOnly, LoopUnchanged, TypeOK,
                  LoopStates, Callers, callVars
    <3>4. CASE CvReturn \/ PollReturn
      BY <3>4, TakeTypes DEF CvReturn, PollReturn, AfterWait, LoopUnchanged, TypeOK, callVars
    <3>5. CASE PollWake \/ PollTimeout \/ CallSource \/ CallbackReturns \/ PeekDone \/ SlotReturns \/ PassDone
      BY <3>5 DEF PollWake, PollTimeout, CallSource, CallbackReturns, AfterDrain, PeekDone, SlotReturns,
                  PassDone, LoopOnly, PollOnly, LoopUnchanged, TypeOK, LoopStates, callVars
    <3>6. CASE DrainWakeFd \/ PeekWake
      BY <3>6 DEF DrainWakeFd, AfterDrain, PeekWake, DrainUnchanged, LoopUnchanged, TypeOK, LoopStates, callVars
    <3>7. CASE DispatchEvent
      BY <3>7 DEF DispatchEvent, LoopUnchanged, TypeOK, LoopStates, callVars, waitVars
    <3>8. ASSUME NEW m \in Timers, DispatchTimer(m) PROVE TypeOK'
      BY <3>8 DEF DispatchTimer, LoopUnchanged, TypeOK, LoopStates, callVars, waitVars
    <3>9. QED
      BY <2>3, <3>1, <3>2, <3>3, <3>4, <3>5, <3>6, <3>7, <3>8 DEF LoopStep
  <2>4. CASE Environment
    <3>1. CASE CvSpurious \/ PollOther
      BY <3>1 DEF CvSpurious, PollOther, AfterDrain, LoopOnly, PollOnly, LoopUnchanged, TypeOK,
                  LoopStates, callVars
    <3>2. CASE PeekQuit
      BY <3>2 DEF PeekQuit, Begin, TypeOK, LoopStates, CallStates, Callers, waitVars
    <3>3. CASE ExecAgain
      BY <3>3 DEF ExecAgain, TypeOK, LoopStates, callVars, waitVars
    <3>4. QED
      BY <2>4, <3>1, <3>2, <3>3 DEF Environment
  <2>5. ASSUME NEW m \in Timers, Tick(m) PROVE TypeOK'
    BY <2>5 DEF Tick, TypeOK, callVars, waitVars, loopVars, history
  <2>6. CASE UNCHANGED vars
    BY <2>6 DEF vars, TypeOK, callVars, waitVars, loopVars, history
  <2>7. QED
    BY <2>1, <2>2, <2>3, <2>4, <2>5, <2>6 DEF Next
<1>3. QED
  BY <1>1, <1>2, PTL DEF Safety

-----------------------------------------------------------------------------
\* A call that begins, and its critical section, leave the caller on its way to wakeWaiter().
LEMMA CallKeepsWakeInv ==
  ASSUME TypeOK, WakeInv, NEW t \in Callers, Call(t)
  PROVE  WakeInv'
<1> USE DEF TypeOK, WakeInv, BlockedKnowingly, PlatformSteps, InterruptCovered, FlagNeverWedged, WorkCovered, SourcesUpToDate, WakeComing, Waiting, Work,
           Waking, WakeCondition
<1>1. /\ MayCall(t)
      /\ pc' = [pc EXCEPT ![t] = "lock"]
      /\ UNCHANGED <<queue, interrupted, wakeUpRequested, timersChanged, mutex, wakePending,
                     token, loop, polled, sources, platform, mayFail>>
  BY DEF Call, BeginPost, BeginRegister, BeginUnregister, BeginRegisterSource,
         BeginUnregisterSource, Exit, Control, Begin, build, waitVars, loopVars
<1>2. QED
  BY <1>1 DEF MayCall

\* A critical section of mMutex brings work only with its own wakeWaiter() still to come.
LEMMA SectionKeepsWakeInv ==
  ASSUME TypeOK, WakeInv, NEW t \in Callers, platform' = platform, mayFail' = mayFail,
         \/ PostEvent(t) \/ RegisterTimer(t) \/ UnregisterTimer(t) \/ Interrupt(t) \/ WakeUp(t)
         \/ RegisterSource(t) \/ UnregisterSource(t)
  PROVE  WakeInv'
<1> USE DEF TypeOK, WakeInv, BlockedKnowingly, PlatformSteps, InterruptCovered, FlagNeverWedged, WorkCovered, SourcesUpToDate, WakeComing, Waiting, Work,
           Waking, WakeCondition
<1>1. /\ pc[t] = "lock" /\ mutex = NoThread
      /\ UNCHANGED <<wakePending, token, loop, polled>>
      /\ mutex' \in {t, NoThread}
  BY DEF PostEvent, RegisterTimer, UnregisterTimer, Interrupt, WakeUp, RegisterSource, UnregisterSource,
         SourceSection, Ready, waitVars, loopVars
<1>2. \/ pc' = [pc EXCEPT ![t] = "notify"]
      \/ /\ pc' = [pc EXCEPT ![t] = "idle"]
         /\ UNCHANGED <<queue, interrupted, wakeUpRequested, timersChanged, sources>>
  BY DEF PostEvent, RegisterTimer, UnregisterTimer, Interrupt, WakeUp, RegisterSource, UnregisterSource,
         SourceSection, Same, ToWake, Finish
<1>3. loop \notin {"cvTest", "cvBlock"}
  BY <1>1, CallersAssumption DEF Callers
<1>4. \A u \in Callers : u # t => pc'[u] = pc[u]
  BY <1>2
<1>5. BlockedKnowingly' /\ PlatformSteps'
  <2>1. BlockedKnowingly'
    BY <1>1, <1>2, <1>3, <1>4 DEF Callers
  <2>2. PlatformSteps'
    BY <1>1, <1>2, <1>4
  <2>3. QED
    BY <2>1, <2>2
<1>6. FlagNeverWedged'
  BY <1>1, <1>2, <1>4
<1>7. InterruptCovered' /\ WorkCovered' /\ SourcesUpToDate'
  BY <1>1, <1>2, <1>4
<1>8. QED
  BY <1>5, <1>6, <1>7

\* wakeWaiter() ends only once the loop has been notified or a wakeup is in place.
LEMMA WakeKeepsWakeInv ==
  ASSUME TypeOK, WakeInv, NEW t \in Callers, platform' = platform, mayFail' = mayFail,
         NotifyAll(t) \/ ExchangePending(t) \/ WriteWake(t) \/ WriteFailed(t)
  PROVE  WakeInv'
<1> USE DEF TypeOK, WakeInv, BlockedKnowingly, PlatformSteps, InterruptCovered, FlagNeverWedged, WorkCovered, SourcesUpToDate, WakeComing, Waiting, Work,
           Waking, WakeCondition
<1>1. UNCHANGED <<queue, interrupted, wakeUpRequested, timersChanged, sources, polled>>
  BY DEF NotifyAll, ExchangePending, WriteWake, WriteFailed, WakeUnchanged
<1>2. ASSUME Return(t) PROVE /\ mutex' = IF mutex = t THEN NoThread ELSE mutex
                             /\ \/ pc' = [pc EXCEPT ![t] = "lock"]
                                \/ pc' = [pc EXCEPT ![t] = "idle"]
  BY <1>2 DEF Return, Begin, Finish
<1>3. \/ loop' = loop
      \/ loop = "blocked" /\ loop' = "woken"
  BY DEF NotifyAll, ExchangePending, WriteWake, WriteFailed
<1>4. /\ pc[t] \in {"notify", "exchange", "write", "failed"}
      /\ loop \in {"cvTest", "cvBlock"} => t # Loop
  BY DEF NotifyAll, ExchangePending, WriteWake, WriteFailed
<1>5. CASE NotifyAll(t)
  <2>1. \/ platform = "default" /\ Return(t)
        \/ platform # "default" /\ pc' = [pc EXCEPT ![t] = "exchange"] /\ mutex' = mutex
    BY <1>5 DEF NotifyAll
  <2>2. UNCHANGED <<wakePending, token>> /\ loop' # "blocked" /\ pc[t] = "notify"
    BY <1>5 DEF NotifyAll
  <2>3. BlockedKnowingly' /\ PlatformSteps'
    <3>1. BlockedKnowingly'
      BY <1>1, <1>2, <1>3, <1>4, <2>1 DEF Callers
    <3>2. PlatformSteps'
      BY <1>1, <1>2, <1>3, <1>4, <2>1
    <3>3. QED
      BY <3>1, <3>2
  <2>4. FlagNeverWedged'
    BY <1>2, <1>3, <2>1, <2>2
  <2>5. InterruptCovered' /\ WorkCovered' /\ SourcesUpToDate'
    BY <1>1, <1>2, <1>3, <2>1, <2>2
  <2>6. QED
    BY <2>3, <2>4, <2>5
<1>6. CASE ExchangePending(t)
  <2>1. /\ wakePending' = TRUE /\ pc[t] = "exchange"
        /\ UNCHANGED <<loop, token>>
        /\ \/ wakePending /\ Return(t)
           \/ ~wakePending /\ pc' = [pc EXCEPT ![t] = "write"] /\ mutex' = mutex
    BY <1>6 DEF ExchangePending
  <2>2. BlockedKnowingly' /\ PlatformSteps'
    <3>1. BlockedKnowingly'
      BY <1>1, <1>2, <1>4, <2>1 DEF Callers
    <3>2. PlatformSteps'
      BY <1>1, <1>2, <1>4, <2>1
    <3>3. QED
      BY <3>1, <3>2
  <2>3. FlagNeverWedged'
    BY <1>2, <2>1
  <2>4. InterruptCovered' /\ WorkCovered' /\ SourcesUpToDate'
    BY <1>1, <1>2, <2>1
  <2>5. QED
    BY <2>2, <2>3, <2>4
<1>7. CASE WriteWake(t)
  <2>1. /\ pc[t] = "write" /\ UNCHANGED <<loop, wakePending>>
        /\ \/ token' = token + 1 /\ Return(t)
           \/ mayFail /\ pc' = [pc EXCEPT ![t] = "failed"] /\ UNCHANGED <<token, mutex>>
    BY <1>7 DEF WriteWake
  <2>2. BlockedKnowingly' /\ PlatformSteps'
    <3>1. BlockedKnowingly'
      BY <1>1, <1>2, <1>4, <2>1 DEF Callers
    <3>2. PlatformSteps'
      BY <1>1, <1>2, <1>4, <2>1
    <3>3. QED
      BY <3>1, <3>2
  <2>3. FlagNeverWedged'
    BY <1>2, <2>1
  <2>4. InterruptCovered' /\ WorkCovered' /\ SourcesUpToDate'
    BY <1>1, <1>2, <2>1
  <2>5. QED
    BY <2>2, <2>3, <2>4
<1>8. CASE WriteFailed(t)
  <2>1. /\ pc[t] = "failed" /\ wakePending' = FALSE /\ UNCHANGED <<loop, token>>
        /\ Return(t)
    BY <1>8 DEF WriteFailed
  <2>2. BlockedKnowingly' /\ PlatformSteps'
    <3>1. BlockedKnowingly'
      BY <1>1, <1>2, <1>4, <2>1 DEF Callers
    <3>2. PlatformSteps'
      BY <1>1, <1>2, <1>4, <2>1
    <3>3. QED
      BY <3>1, <3>2
  <2>3. FlagNeverWedged' /\ InterruptCovered' /\ WorkCovered' /\ SourcesUpToDate'
    BY <2>1
  <2>4. QED
    BY <2>2, <2>3
<1>9. QED
  BY <1>5, <1>6, <1>7, <1>8

\* The loop goes to sleep only with nothing to do, and takes a wakeup only to act on it.
LEMMA LoopKeepsWakeInv ==
  ASSUME TypeOK, WakeInv, platform' = platform, mayFail' = mayFail, LoopStep \/ Environment
  PROVE  WakeInv'
<1> USE DEF TypeOK, WakeInv, BlockedKnowingly, PlatformSteps, InterruptCovered, FlagNeverWedged, WorkCovered, SourcesUpToDate, WakeComing, Waiting, Work,
           Waking, WakeCondition
<1> USE DEF LoopUnchanged, LoopOnly, PollOnly, AfterDrain, callVars, waitVars
<1>1. CASE ExecTest \/ ConsumeInterrupt
  BY <1>1 DEF ExecTest, ConsumeInterrupt
<1>2. CASE CollectAndTake
  BY <1>2 DEF CollectAndTake, Take
<1>3. CASE CollectAndWait
  BY <1>3 DEF CollectAndWait, CopySources
<1>4. CASE CvTest \/ CvBlock \/ CvTimeout \/ CvReacquire
  BY <1>4 DEF CvTest, CvBlock, CvTimeout, CvReacquire
<1>5. CASE CvReturn \/ PollReturn
  BY <1>5 DEF CvReturn, PollReturn, AfterWait, Take
<1>6. CASE PollWake \/ PollTimeout \/ CallSource \/ CallbackReturns
  <2>1. /\ loop \in {"poll", "sources", "callback"} /\ loop' \in {"read", "relock", "callback", "sources"}
        /\ UNCHANGED <<pc, token, mutex, wakePending, interrupted, wakeUpRequested>>
        /\ loop' = "callback" \/ pc[Loop] = "idle"
        /\ loop' = "read" => token > 0
    BY <1>6 DEF PollWake, PollTimeout, CallSource, CallbackReturns
  <2>2. loop \in {"poll", "sources", "callback"} => platform # "default"
    OBVIOUS
  <2>3. QED
    BY <2>1, <2>2
<1>7. CASE PeekDone \/ SlotReturns \/ PassDone
  BY <1>7 DEF PeekDone, SlotReturns, PassDone
<1>8. CASE DrainWakeFd \/ PeekWake
  <2>1. UNCHANGED <<pc, mutex, queue, interrupted, wakeUpRequested, timersChanged, sources, polled>>
    BY <1>8 DEF DrainWakeFd, PeekWake, DrainUnchanged
  <2>2. CASE DrainWakeFd
    BY <2>1, <2>2 DEF DrainWakeFd
  <2>3. CASE PeekWake
    BY <2>1, <2>3 DEF PeekWake
  <2>4. QED
    BY <1>8, <2>2, <2>3
<1>9. CASE DispatchEvent \/ \E m \in Timers : DispatchTimer(m)
  <2>1. ASSUME NEW m \in Timers, DispatchTimer(m) PROVE WakeInv'
    BY <2>1, SMTT(30) DEF DispatchTimer
  <2>2. CASE DispatchEvent
    BY <2>2, SMTT(30) DEF DispatchEvent
  <2>3. QED
    BY <1>9, <2>1, <2>2
<1>10. CASE CvSpurious \/ PollOther \/ ExecAgain
  <2>1. CASE PollOther
    BY <2>1 DEF PollOther
  <2>2. CASE CvSpurious \/ ExecAgain
    BY <2>2 DEF CvSpurious, ExecAgain
  <2>3. QED
    BY <1>10, <2>1, <2>2
<1>11. CASE PeekQuit
  BY <1>11 DEF PeekQuit, Begin
<1>12. QED
  BY <1>1, <1>2, <1>3, <1>4, <1>5, <1>6, <1>7, <1>8, <1>9, <1>10, <1>11 DEF LoopStep, Environment

\* The inductive invariant of the wait/wake protocols of all three platforms.
THEOREM WakeInvariant == Safety => []WakeInv
<1>1. Init => WakeInv
  BY CallersAssumption, Zenon DEF Callers, Init, WakeInv, BlockedKnowingly, PlatformSteps, InterruptCovered, FlagNeverWedged, WorkCovered, SourcesUpToDate, WakeComing, Waiting, Work,
           Waking, WakeCondition
<1>2. TypeOK /\ WakeInv /\ [Next]_vars => WakeInv'
  <2> SUFFICES ASSUME TypeOK, WakeInv, [Next]_vars PROVE WakeInv'
    OBVIOUS
  <2>0. platform' = platform /\ mayFail' = mayFail
    BY BuildStays
  <2>1. ASSUME NEW t \in Callers, Proceed(t) PROVE WakeInv'
    BY <2>0, <2>1, SectionKeepsWakeInv, WakeKeepsWakeInv DEF Proceed
  <2>2. ASSUME NEW m \in Timers, Tick(m) PROVE WakeInv'
    BY <2>2 DEF Tick, build, WakeInv, BlockedKnowingly, PlatformSteps, InterruptCovered, FlagNeverWedged, WorkCovered, SourcesUpToDate, WakeComing, Waiting, Work,
           Waking, WakeCondition,
                callVars, waitVars, loopVars
  <2>3. CASE UNCHANGED vars
    BY <2>3 DEF vars, build, WakeInv, BlockedKnowingly, PlatformSteps, InterruptCovered, FlagNeverWedged, WorkCovered, SourcesUpToDate, WakeComing, Waiting, Work,
           Waking, WakeCondition,
                callVars, waitVars, loopVars
  <2>4. QED
    BY <2>0, <2>1, <2>2, <2>3, CallKeepsWakeInv, LoopKeepsWakeInv DEF Next
<1>3. QED
  BY <1>1, <1>2, TypeCorrect, PTL DEF Safety

\* No poll() goes on with a stale copy of the event sources.
THEOREM SourcesAreHeard == Safety => []SourcesUpToDate
<1>1. WakeInv => SourcesUpToDate
  BY DEF WakeInv
<1>2. QED
  BY <1>1, WakeInvariant, PTL

-----------------------------------------------------------------------------
\* Callers that change the list of timers say so, and a wait computes its timeout from it.
LEMMA DeadlinesStep == DeadlinesKnown /\ [Next]_vars => DeadlinesKnown'
<1> SUFFICES ASSUME DeadlinesKnown, [Next]_vars PROVE DeadlinesKnown'
  OBVIOUS
<1> USE DEF DeadlinesKnown
<1>1. ASSUME NEW t \in Callers, Call(t) PROVE DeadlinesKnown'
  BY <1>1 DEF Call, BeginPost, BeginRegister, BeginUnregister, BeginRegisterSource, BeginUnregisterSource,
              Exit, Control, loopVars
<1>2. ASSUME NEW t \in Callers, Proceed(t) PROVE DeadlinesKnown'
  <2>1. CASE NotifyAll(t)
    BY <2>1 DEF NotifyAll, WakeUnchanged
  <2>2. CASE ExchangePending(t) \/ WriteWake(t) \/ WriteFailed(t)
    BY <2>2 DEF ExchangePending, WriteWake, WriteFailed, WakeUnchanged
  <2>3. CASE \/ PostEvent(t) \/ RegisterTimer(t) \/ UnregisterTimer(t) \/ Interrupt(t) \/ WakeUp(t)
             \/ RegisterSource(t) \/ UnregisterSource(t)
    BY <2>3 DEF PostEvent, RegisterTimer, UnregisterTimer, Interrupt, WakeUp, RegisterSource, UnregisterSource,
                SourceSection, loopVars
  <2>4. QED
    BY <1>2, <2>1, <2>2, <2>3 DEF Proceed
<1>3. CASE LoopStep \/ Environment
  <2> USE DEF LoopUnchanged, LoopOnly, PollOnly
  <2>1. CASE ExecTest \/ ConsumeInterrupt \/ CollectAndWait
    BY <2>1 DEF ExecTest, ConsumeInterrupt, CollectAndWait
  <2>2. CASE CollectAndTake \/ CvReturn \/ PollReturn
    BY <2>2 DEF CollectAndTake, CvReturn, PollReturn, AfterWait, Take
  <2>3. CASE CvTest \/ CvBlock \/ CvTimeout \/ CvReacquire \/ CvSpurious
    BY <2>3 DEF CvTest, CvBlock, CvTimeout, CvReacquire, CvSpurious
  <2>4. CASE PollWake \/ PollTimeout \/ PollOther \/ CallSource \/ CallbackReturns \/ DrainWakeFd
    BY <2>4 DEF PollWake, PollTimeout, PollOther, CallSource, CallbackReturns, AfterDrain, DrainWakeFd
  <2>5. CASE PeekWake \/ PeekDone \/ PeekQuit
    BY <2>5 DEF PeekWake, PeekDone, PeekQuit, DrainUnchanged
  <2>6. CASE DispatchEvent \/ SlotReturns \/ PassDone \/ ExecAgain \/ \E m \in Timers : DispatchTimer(m)
    BY <2>6 DEF DispatchEvent, SlotReturns, PassDone, ExecAgain, DispatchTimer
  <2>7. QED
    BY <1>3, <2>1, <2>2, <2>3, <2>4, <2>5, <2>6 DEF LoopStep, Environment
<1>4. CASE (\E m \in Timers : Tick(m)) \/ UNCHANGED vars
  BY <1>4 DEF Tick, vars, loopVars
<1>5. QED
  BY <1>1, <1>2, <1>3, <1>4 DEF Next

\* No loop on any platform ever sleeps on work nobody is going to wake it for, nor beyond the
\* deadline of a timer that was registered after it had computed its timeout.
THEOREM WakeupsAreNeverLost == Spec => []NoLostWakeup
<1>1. Init => DeadlinesKnown
  BY DEF Init, DeadlinesKnown
<1>2. WakeInv /\ DeadlinesKnown => NoLostWakeup
  BY DEF WakeInv, WorkCovered, DeadlinesKnown, NoLostWakeup, Waiting, Work
<1>3. QED
  BY <1>1, <1>2, DeadlinesStep, WakeInvariant, PTL DEF Spec, Safety

\* exit() stores mExiting before it interrupts, and only the test of mExiting lets the loop
\* past an interrupt, so a loop that has passed that test has one to find.
LEMMA ExitPendingStep == TypeOK /\ WakeInv /\ ExitPending /\ [Next]_vars => ExitPending'
<1> SUFFICES ASSUME TypeOK, WakeInv, ExitPending, [Next]_vars PROVE ExitPending'
  OBVIOUS
<1> USE DEF ExitPending, Ready, TypeOK
<1>1. ASSUME NEW t \in Callers, Call(t) PROVE ExitPending'
  <2>1. /\ pc[t] = "idle" /\ pc' = [pc EXCEPT ![t] = "lock"] /\ UNCHANGED <<interrupted, loop>>
        /\ \E call : op' = [op EXCEPT ![t] = call]
        /\ \/ op' = [op EXCEPT ![t] = [call |-> "interrupt"]]
           \/ UNCHANGED exiting
    BY <1>1 DEF Call, BeginPost, BeginRegister, BeginUnregister, BeginRegisterSource, BeginUnregisterSource,
                Exit, Control, Begin, MayCall, loopVars
  <2>2. \A u \in Callers : u # t => pc'[u] = pc[u] /\ op'[u] = op[u]
    BY <2>1
  <2>3. CASE op' = [op EXCEPT ![t] = [call |-> "interrupt"]]
    BY <2>1, <2>3
  <2>4. CASE UNCHANGED exiting
    BY <2>1, <2>2, <2>4
  <2>5. QED
    BY <2>1, <2>3, <2>4
<1>2. ASSUME NEW t \in Callers, Proceed(t) PROVE ExitPending'
  <2>1. CASE Interrupt(t)
    BY <2>1 DEF Interrupt
  <2>2. CASE PostEvent(t) \/ RegisterTimer(t) \/ UnregisterTimer(t) \/ WakeUp(t) \/ RegisterSource(t) \/ UnregisterSource(t)
    <3>1. /\ op[t].call # "interrupt" /\ UNCHANGED <<interrupted, exiting, loop>>
          /\ \A u \in Callers : u # t => pc'[u] = pc[u] /\ op'[u] = op[u]
      BY <2>2 DEF PostEvent, RegisterTimer, UnregisterTimer, WakeUp, RegisterSource, UnregisterSource,
                  SourceSection, ToWake, Finish, loopVars
    <3>2. QED
      BY <3>1
  <2>3. CASE NotifyAll(t) \/ ExchangePending(t) \/ WriteWake(t) \/ WriteFailed(t)
    <3>1. /\ pc[t] # "lock" /\ UNCHANGED <<interrupted, exiting>>
          /\ loop' = loop \/ (loop = "blocked" /\ loop' = "woken")
      BY <2>3 DEF NotifyAll, ExchangePending, WriteWake, WriteFailed, WakeUnchanged
    <3>2. /\ \E at : pc' = [pc EXCEPT ![t] = at]
          /\ op' = op \/ \E call : op' = [op EXCEPT ![t] = call]
      <4>1. ASSUME Return(t) PROVE <3>2
        BY <4>1, Zenon DEF Return, Begin, Finish
      <4>2. QED
        BY <2>3, <4>1, Zenon DEF NotifyAll, ExchangePending, WriteWake, WriteFailed
    <3>3. \A u \in Callers : u # t => pc'[u] = pc[u] /\ op'[u] = op[u]
      BY <3>2
    <3>4. QED
      BY <3>1, <3>3
  <2>4. QED
    BY <1>2, <2>1, <2>2, <2>3 DEF Proceed
<1>3. CASE LoopStep \/ Environment
  <2> USE DEF LoopUnchanged, LoopOnly, PollOnly, callVars
  <2>1. CASE ExecTest \/ ConsumeInterrupt \/ CollectAndWait
    BY <2>1 DEF ExecTest, ConsumeInterrupt, CollectAndWait
  <2>2. CASE CollectAndTake \/ CvReturn \/ PollReturn
    BY <2>2 DEF CollectAndTake, CvReturn, PollReturn, AfterWait, Take
  <2>3. CASE CvTest \/ CvBlock \/ CvTimeout \/ CvReacquire \/ CvSpurious
    BY <2>3 DEF CvTest, CvBlock, CvTimeout, CvReacquire, CvSpurious
  <2>4. CASE PollWake \/ PollTimeout \/ PollOther \/ CallSource \/ CallbackReturns \/ DrainWakeFd
    BY <2>4 DEF PollWake, PollTimeout, PollOther, CallSource, CallbackReturns, AfterDrain, DrainWakeFd, DrainUnchanged
  <2>5. CASE PeekWake \/ PeekDone
    BY <2>5 DEF PeekWake, PeekDone, DrainUnchanged
  <2>6. CASE DispatchEvent \/ SlotReturns \/ PassDone \/ ExecAgain \/ \E m \in Timers : DispatchTimer(m)
    BY <2>6 DEF DispatchEvent, SlotReturns, PassDone, ExecAgain, DispatchTimer
  <2>7. CASE PeekQuit
    <3>1. pc[Loop] = "idle" /\ \A u \in Callers : u # Loop => pc'[u] = pc[u] /\ op'[u] = op[u]
      BY <2>7 DEF PeekQuit, Begin, WakeInv, BlockedKnowingly
    <3>2. QED
      BY <2>7, <3>1 DEF PeekQuit
  <2>8. QED
    BY <1>3, <2>1, <2>2, <2>3, <2>4, <2>5, <2>6, <2>7 DEF LoopStep, Environment
<1>4. CASE (\E m \in Timers : Tick(m)) \/ UNCHANGED vars
  BY <1>4 DEF Tick, vars, callVars, loopVars
<1>5. QED
  BY <1>1, <1>2, <1>3, <1>4 DEF Next

\* A call of exit() is never slept through, whichever interrupts and wakeups of other calls the
\* loop consumes between its test of mExiting and its wait.
THEOREM ExitIsHeeded == Safety => []ExitHeeded
<1>1. Init => ExitPending
  BY DEF Init, ExitPending
<1>2. WakeInv /\ ExitPending => ExitHeeded
  BY DEF WakeInv, WorkCovered, ExitPending, ExitHeeded, Waiting, Work
<1>3. QED
  BY <1>1, <1>2, ExitPendingStep, TypeCorrect, WakeInvariant, PTL DEF Safety

-----------------------------------------------------------------------------
\* A bare wakeUp() leaves only its request. On Linux nothing but the wait it ends consumes the
\* eventfd, and AfterWait() forgets the request on the way out; the condition variable is told
\* of a request that finds the loop blocked.
RequestCovered ==
  /\ platform = "linux" => loop \notin {"platform", "peeked"}
  /\ (platform = "linux" /\ ~mayFail /\ wakeUpRequested /\ loop \notin {"rearm", "sources", "callback", "relock"})
       => token > 0 \/ \E t \in Callers : Waking(t)
  /\ (platform = "default" /\ wakeUpRequested /\ loop = "blocked") => \E t \in Callers : Waking(t)

LEMMA CallersKeepRequests ==
  ASSUME TypeOK, WakeInv, RequestCovered, NEW t \in Callers, Call(t) \/ Proceed(t)
  PROVE  RequestCovered'
<1> USE DEF TypeOK, RequestCovered, Waking
<1>0. platform' = platform /\ mayFail' = mayFail
  BY DEF Call, Proceed, build
<1>1. CASE Call(t)
  <2>1. /\ pc[t] = "idle" /\ pc' = [pc EXCEPT ![t] = "lock"]
        /\ UNCHANGED <<wakeUpRequested, token, loop>>
    BY <1>1 DEF Call, BeginPost, BeginRegister, BeginUnregister, BeginRegisterSource,
                     BeginUnregisterSource, Exit, Control, Begin, MayCall, waitVars, loopVars
  <2>2. QED
    BY <1>0, <2>1
<1>2. CASE \/ PostEvent(t) \/ RegisterTimer(t) \/ UnregisterTimer(t) \/ Interrupt(t) \/ WakeUp(t)
           \/ RegisterSource(t) \/ UnregisterSource(t)
  <2>1. /\ pc[t] = "lock" /\ UNCHANGED <<token, loop>>
        /\ \/ pc' = [pc EXCEPT ![t] = "notify"]
           \/ pc' = [pc EXCEPT ![t] = "idle"] /\ UNCHANGED wakeUpRequested
    BY <1>2 DEF PostEvent, RegisterTimer, UnregisterTimer, Interrupt, WakeUp, RegisterSource, UnregisterSource,
                SourceSection, Ready, ToWake, Finish, waitVars, loopVars
  <2>2. QED
    BY <1>0, <2>1
<1>3. CASE NotifyAll(t)
  <2>1. /\ loop' # "blocked" /\ loop' = (IF loop = "blocked" THEN "woken" ELSE loop)
        /\ UNCHANGED <<token, wakeUpRequested>>
        /\ platform # "default" => pc' = [pc EXCEPT ![t] = "exchange"]
    BY <1>3 DEF NotifyAll, WakeUnchanged
  <2>2. QED
    BY <1>0, <2>1
<1>4. CASE ExchangePending(t) \/ WriteWake(t)
  <2>1. /\ pc[t] \in {"exchange", "write"} /\ UNCHANGED <<loop, wakeUpRequested>>
        /\ platform # "default"
    BY <1>4 DEF ExchangePending, WriteWake, WakeUnchanged, WakeInv, PlatformSteps
  <2>2. \/ wakePending /\ pc[t] = "exchange" /\ token' = token
           /\ pc' \in {[pc EXCEPT ![t] = "lock"], [pc EXCEPT ![t] = "idle"]}
        \/ pc' = [pc EXCEPT ![t] = "write"] /\ token' = token
        \/ token' = token + 1
        \/ mayFail
    BY <1>4 DEF ExchangePending, WriteWake, Return, Begin, Finish
  <2>3. QED
    BY <1>0, <2>1, <2>2 DEF WakeInv, FlagNeverWedged, PlatformSteps
<1>5. CASE WriteFailed(t)
  BY <1>0, <1>5 DEF WriteFailed, WakeInv, PlatformSteps
<1>6. QED
  BY <1>1, <1>2, <1>3, <1>4, <1>5 DEF Proceed

LEMMA LoopKeepsRequests ==
  ASSUME TypeOK, WakeInv, RequestCovered, LoopStep \/ Environment
  PROVE  RequestCovered'
<1> USE DEF TypeOK, RequestCovered, Waking, LoopUnchanged, LoopOnly, PollOnly, AfterDrain, callVars, waitVars
<1>0. platform' = platform /\ mayFail' = mayFail
  BY DEF LoopStep, Environment, build
<1>1. CASE ExecTest \/ ConsumeInterrupt \/ CollectAndTake \/ CollectAndWait
  BY <1>0, <1>1 DEF ExecTest, ConsumeInterrupt, CollectAndTake, CollectAndWait, Take
<1>2. CASE CvTest \/ CvBlock \/ CvTimeout \/ CvReacquire \/ CvSpurious
  BY <1>0, <1>2 DEF CvTest, CvBlock, CvTimeout, CvReacquire, CvSpurious, WakeInv, BlockedKnowingly, PlatformSteps, WakeCondition
<1>3. CASE CvReturn \/ PollReturn
  BY <1>0, <1>3 DEF CvReturn, PollReturn, AfterWait, Take
<1>4. CASE \/ PollWake \/ PollTimeout \/ PollOther \/ CallSource \/ CallbackReturns
           \/ DrainWakeFd \/ PeekWake \/ PeekDone
  BY <1>0, <1>4 DEF PollWake, PollTimeout, PollOther, CallSource, CallbackReturns, DrainWakeFd, PeekWake, PeekDone, DrainUnchanged, WakeInv, PlatformSteps
<1>5. CASE DispatchEvent \/ SlotReturns \/ PassDone \/ ExecAgain \/ \E m \in Timers : DispatchTimer(m)
  BY <1>0, <1>5 DEF DispatchEvent, SlotReturns, PassDone, ExecAgain, DispatchTimer
<1>6. CASE PeekQuit
  BY <1>0, <1>6 DEF PeekQuit, Begin
<1>7. QED
  BY <1>1, <1>2, <1>3, <1>4, <1>5, <1>6 DEF LoopStep, Environment

\* A bare wakeUp() ends the wait of the condition variable and of poll(); the message queue
\* of Windows makes no such promise.
THEOREM WakeUpsAreHeeded == Safety => []WakeUpHeeded
<1>1. Init => RequestCovered
  BY DEF Init, RequestCovered
<1>2. TypeOK /\ WakeInv /\ RequestCovered /\ [Next]_vars => RequestCovered'
  <2> SUFFICES ASSUME TypeOK, WakeInv, RequestCovered, [Next]_vars PROVE RequestCovered'
    OBVIOUS
  <2>1. ASSUME NEW m \in Timers, Tick(m) PROVE RequestCovered'
    BY <2>1 DEF Tick, build, RequestCovered, Waking, callVars, waitVars, loopVars
  <2>2. CASE UNCHANGED vars
    BY <2>2 DEF vars, build, RequestCovered, Waking, callVars, waitVars, loopVars
  <2>3. QED
    BY <2>1, <2>2, CallersKeepRequests, LoopKeepsRequests DEF Next
<1>3. TypeOK /\ WakeInv /\ RequestCovered => WakeUpHeeded
  BY PlatformAssumption DEF TypeOK, WakeInv, PlatformSteps, RequestCovered, WakeUpHeeded, Waiting, WakeComing
<1>4. QED
  BY <1>1, <1>2, <1>3, TypeCorrect, WakeInvariant, PTL DEF Safety

-----------------------------------------------------------------------------
(* The collapsing flag.                                                    *)

FlagInv == WakeupsCollapse /\ FlagHeld

\* Of the steps of a call only those of wakeWaiter() touch the flag or the wakeup.
LEMMA CallersKeepFlag ==
  ASSUME TypeOK, FlagInv, NEW t \in Callers, Call(t) \/ Proceed(t)
  PROVE  FlagInv'
<1> USE DEF FlagInv, WakeupsCollapse, FlagHeld, Making
<1>1. pc \in [Callers -> CallStates] /\ token \in Nat
  BY DEF TypeOK
<1>2. CASE Call(t)
  <2>1. /\ pc' = [pc EXCEPT ![t] = "lock"] /\ UNCHANGED <<wakePending, token, loop>>
    BY <1>2 DEF Call, BeginPost, BeginRegister, BeginUnregister, BeginRegisterSource,
                     BeginUnregisterSource, Exit, Control, Begin, waitVars, loopVars
  <2>2. QED
    BY <1>1, <2>1
<1>3. CASE \/ PostEvent(t) \/ RegisterTimer(t) \/ UnregisterTimer(t) \/ Interrupt(t) \/ WakeUp(t)
           \/ RegisterSource(t) \/ UnregisterSource(t)
  <2>1. /\ UNCHANGED <<wakePending, token, loop>>
        /\ pc' = [pc EXCEPT ![t] = "notify"] \/ pc' = [pc EXCEPT ![t] = "idle"]
    BY <1>3 DEF PostEvent, RegisterTimer, UnregisterTimer, Interrupt, WakeUp, RegisterSource, UnregisterSource,
                SourceSection, ToWake, Finish, waitVars, loopVars
  <2>2. QED
    BY <1>1, <2>1
<1>4. ASSUME Return(t) PROVE pc' = [pc EXCEPT ![t] = "lock"] \/ pc' = [pc EXCEPT ![t] = "idle"]
  BY <1>4 DEF Return, Begin, Finish
<1>5. CASE NotifyAll(t)
  <2>1. /\ UNCHANGED <<wakePending, token>>
        /\ loop' = loop \/ loop' = "woken"
        /\ Return(t) \/ pc' = [pc EXCEPT ![t] = "exchange"]
    BY <1>5 DEF NotifyAll
  <2>2. QED
    BY <1>1, <1>4, <2>1
<1>6. CASE ExchangePending(t)
  <2>1. /\ wakePending' = TRUE /\ UNCHANGED <<loop, token>>
        /\ Return(t) \/ (~wakePending /\ pc' = [pc EXCEPT ![t] = "write"])
    BY <1>6 DEF ExchangePending
  <2>2. QED
    BY <1>1, <1>4, <2>1
<1>7. CASE WriteWake(t)
  <2>1. /\ pc[t] = "write" /\ UNCHANGED <<loop, wakePending>>
        /\ \/ token' = token + 1 /\ Return(t)
           \/ pc' = [pc EXCEPT ![t] = "failed"] /\ token' = token
    BY <1>7 DEF WriteWake
  <2>2. QED
    BY <1>1, <1>4, <2>1
<1>8. CASE WriteFailed(t)
  <2>1. pc[t] = "failed" /\ UNCHANGED <<loop, token>> /\ Return(t)
    BY <1>8 DEF WriteFailed
  <2>2. QED
    BY <1>1, <1>4, <2>1
<1>9. QED
  BY <1>2, <1>3, <1>5, <1>6, <1>7, <1>8 DEF Proceed

\* The loop clears the flag only when it has taken the one wakeup there was.
LEMMA LoopKeepsFlag ==
  ASSUME TypeOK, FlagInv, LoopStep \/ Environment
  PROVE  FlagInv'
<1> USE DEF FlagInv, WakeupsCollapse, FlagHeld, Making, LoopUnchanged, LoopOnly, PollOnly, AfterDrain, callVars, waitVars
<1>1. pc \in [Callers -> CallStates] /\ token \in Nat
  BY DEF TypeOK
<1>2. CASE ExecTest \/ ConsumeInterrupt \/ CollectAndTake \/ CollectAndWait
  BY <1>2 DEF ExecTest, ConsumeInterrupt, CollectAndTake, CollectAndWait, Take
<1>3. CASE CvTest \/ CvBlock \/ CvTimeout \/ CvReacquire \/ CvSpurious
  BY <1>3 DEF CvTest, CvBlock, CvTimeout, CvReacquire, CvSpurious
<1>4. CASE CvReturn \/ PollReturn
  BY <1>4 DEF CvReturn, PollReturn, AfterWait, Take
<1>5. CASE PollWake \/ PollTimeout \/ PollOther \/ CallSource \/ CallbackReturns \/ PeekDone
  BY <1>5 DEF PollWake, PollTimeout, PollOther, CallSource, CallbackReturns, PeekDone
<1>6. CASE DrainWakeFd
  BY <1>1, <1>6 DEF DrainWakeFd, DrainUnchanged
<1>7. CASE PeekWake
  BY <1>1, <1>7 DEF PeekWake, DrainUnchanged
<1>8. CASE DispatchEvent \/ SlotReturns \/ PassDone \/ ExecAgain \/ \E m \in Timers : DispatchTimer(m)
  BY <1>8 DEF DispatchEvent, SlotReturns, PassDone, ExecAgain, DispatchTimer
<1>9. CASE PeekQuit
  BY <1>1, <1>9 DEF PeekQuit, Begin
<1>10. QED
  BY <1>2, <1>3, <1>4, <1>5, <1>6, <1>7, <1>8, <1>9 DEF LoopStep, Environment

\* However many threads post at once, and whatever fails, mWakePending is set only while a wakeup
\* is being made, waits to be read or has just been read, and there is never a second one: the
\* flag neither wedges wakeWaiter() shut nor lets a burst of wakeups through.
THEOREM FlagIsTheWakeup == Safety => []FlagMeansOneWakeup
<1>1. Init => FlagInv
  BY DEF Init, FlagInv, WakeupsCollapse, FlagHeld, Making
<1>2. TypeOK /\ FlagInv /\ [Next]_vars => FlagInv'
  <2> SUFFICES ASSUME TypeOK, FlagInv, [Next]_vars PROVE FlagInv'
    OBVIOUS
  <2>1. ASSUME NEW m \in Timers, Tick(m) PROVE FlagInv'
    BY <2>1 DEF Tick, build, FlagInv, WakeupsCollapse, FlagHeld, Making, callVars, waitVars, loopVars
  <2>2. CASE UNCHANGED vars
    BY <2>2 DEF vars, FlagInv, WakeupsCollapse, FlagHeld, Making, callVars, waitVars, loopVars
  <2>3. QED
    BY <2>1, <2>2, CallersKeepFlag, LoopKeepsFlag DEF Next
<1>3. WakeInv /\ FlagInv => FlagMeansOneWakeup
  BY DEF WakeInv, FlagInv, FlagMeansOneWakeup
<1>4. QED
  BY <1>1, <1>2, <1>3, TypeCorrect, WakeInvariant, PTL DEF Safety

-----------------------------------------------------------------------------
(* The dispatcher is a queue, as far as safety goes.                       *)

\* Only a pass has a batch, so that what it takes comes after nothing.
BatchInPass == loop \notin {"platform", "peeked", "dispatch", "slot"} => batch = <<>>

\* A step that posts nothing, hands over nothing and leaves the loop running or stopped.
QueueStutters == /\ batch' \o queue' = batch \o queue /\ delivered' = delivered
                 /\ (loop' # "done") = (loop # "done")

\* The oldest event of a pass is the oldest of all.
LEMMA OldestOfBatch ==
  ASSUME NEW s \in Seq(Events), NEW r \in Seq(Events), s # <<>>
  PROVE  s \o r # <<>> /\ Head(s \o r) = Head(s) /\ Tail(s \o r) = Tail(s) \o r
<1>1. s \o r \in Seq(Events) /\ Len(s) \in Nat /\ Len(r) \in Nat /\ Len(s \o r) = Len(s) + Len(r)
  OBVIOUS
<1>2. Len(s) > 0
  BY EmptySeq
<1>3. s \o r # <<>> /\ Head(s \o r) = Head(s)
  BY <1>1, <1>2
<1>4. /\ Tail(s) \in Seq(Events) /\ Len(Tail(s)) = Len(s) - 1
      /\ \A i \in 1 .. Len(Tail(s)) : Tail(s)[i] = s[i + 1]
  BY <1>2, HeadTailProperties
<1>5. /\ Tail(s \o r) \in Seq(Events) /\ Len(Tail(s \o r)) = Len(s \o r) - 1
      /\ \A i \in 1 .. Len(Tail(s \o r)) : Tail(s \o r)[i] = (s \o r)[i + 1]
  BY <1>1, <1>3, HeadTailProperties
<1>6. Tail(s) \o r \in Seq(Events) /\ Len(Tail(s) \o r) = Len(Tail(s)) + Len(r)
  BY <1>4
<1>7. Len(Tail(s \o r)) = Len(Tail(s) \o r)
  BY <1>1, <1>4, <1>5, <1>6
<1>8. ASSUME NEW i \in 1 .. Len(Tail(s) \o r) PROVE Tail(s \o r)[i] = (Tail(s) \o r)[i]
  BY <1>1, <1>4, <1>5, <1>6, <1>7
<1>9. QED
  BY <1>5, <1>6, <1>7, <1>8, SeqEqual

\* Callers post, or leave the queue alone, ...
LEMMA CallersQueue ==
  ASSUME TypeOK, BatchInPass, NEW t \in Callers, Call(t) \/ Proceed(t)
  PROVE  BatchInPass' /\ (QueueStutters \/ \E e \in Events : Queue!Post(e))
<1> USE DEF BatchInPass, QueueStutters, loopVars, history
<1>1. CASE Call(t)
  BY <1>1 DEF Call, BeginPost, BeginRegister, BeginUnregister, BeginRegisterSource, BeginUnregisterSource,
              Exit, Control
<1>2. CASE PostEvent(t)
  <2>1. op[t] \in Ops /\ op[t].call = "post"
    BY <1>2 DEF PostEvent, Ready, TypeOK
  <2>2. op[t].event \in Events
    BY <2>1, OpTypes
  <2>3. /\ queue' = Append(queue, op[t].event) /\ batch' = batch /\ loop' = loop /\ delivered' = delivered
        /\ queue \in Seq(Events) /\ batch \in Seq(Events)
    BY <1>2 DEF PostEvent, TypeOK
  <2>4. batch \o Append(queue, op[t].event) = Append(batch \o queue, op[t].event)
    BY <2>2, <2>3, AppendIsConcat, ConcatAssociative, ConcatProperties
  <2>5. Queue!Post(op[t].event)
    BY <2>3, <2>4 DEF Queue!Post
  <2>6. QED
    BY <2>2, <2>3, <2>5
<1>3. CASE \/ RegisterTimer(t) \/ UnregisterTimer(t) \/ Interrupt(t) \/ WakeUp(t)
           \/ RegisterSource(t) \/ UnregisterSource(t)
  BY <1>3 DEF RegisterTimer, UnregisterTimer, Interrupt, WakeUp, RegisterSource, UnregisterSource, SourceSection
<1>4. CASE NotifyAll(t)
  BY <1>4 DEF NotifyAll, WakeUnchanged
<1>5. CASE ExchangePending(t) \/ WriteWake(t) \/ WriteFailed(t)
  BY <1>5 DEF ExchangePending, WriteWake, WriteFailed, WakeUnchanged
<1>6. QED
  BY <1>1, <1>2, <1>3, <1>4, <1>5 DEF Proceed

\* ... and the loop hands over the oldest, moves what is queued to its batch, or comes and goes.
LEMMA LoopQueue ==
  ASSUME TypeOK, BatchInPass, LoopStep \/ Environment
  PROVE  BatchInPass' /\ (QueueStutters \/ Queue!Deliver \/ Queue!Close \/ Queue!Reopen)
<1> USE DEF BatchInPass, LoopUnchanged, LoopOnly, PollOnly, callVars, waitVars
<1>0. queue \in Seq(Events) /\ batch \in Seq(Events)
  BY DEF TypeOK
<1>1. ASSUME NEW expired, Take(expired), delivered' = delivered, batch = <<>>, loop # "done"
      PROVE  BatchInPass' /\ QueueStutters
  <2>1. CASE interrupted
    BY <1>1, <2>1 DEF Take, QueueStutters
  <2>2. CASE ~interrupted
    <3>1. queue' = <<>> /\ batch' = queue /\ loop' \in {"platform", "dispatch"}
      BY <1>1, <2>2 DEF Take
    <3>2. queue \o <<>> = <<>> \o queue
      BY <1>0, ConcatEmptySeq
    <3>3. QED
      BY <1>1, <3>1, <3>2 DEF QueueStutters
  <2>3. QED
    BY <2>1, <2>2
<1>2. CASE ExecTest
  BY <1>2 DEF ExecTest, QueueStutters, Queue!Close
<1>3. CASE CollectAndTake
  BY <1>1, <1>3 DEF CollectAndTake
<1>4. CASE ConsumeInterrupt \/ CollectAndWait
  BY <1>4 DEF ConsumeInterrupt, CollectAndWait, QueueStutters
<1>5. CASE CvTest \/ CvBlock \/ CvTimeout \/ CvReacquire \/ CvSpurious
  BY <1>5 DEF CvTest, CvBlock, CvTimeout, CvReacquire, CvSpurious, QueueStutters
<1>6. CASE CvReturn \/ PollReturn
  BY <1>1, <1>6 DEF CvReturn, PollReturn, AfterWait
<1>7. CASE PollWake \/ PollTimeout \/ PollOther \/ CallSource \/ CallbackReturns
  BY <1>7 DEF PollWake, PollTimeout, PollOther, CallSource, CallbackReturns, AfterDrain, QueueStutters
<1>8. CASE DrainWakeFd \/ PeekWake \/ PeekDone
  BY <1>8 DEF DrainWakeFd, PeekWake, PeekDone, DrainUnchanged, AfterDrain, QueueStutters
<1>9. CASE PeekQuit
  BY <1>9 DEF PeekQuit, QueueStutters
<1>10. CASE DispatchEvent
  <2>1. /\ batch # <<>> /\ loop = "dispatch" /\ loop' = "slot"
        /\ batch' = Tail(batch) /\ queue' = queue /\ delivered' = Append(delivered, Head(batch))
    BY <1>10 DEF DispatchEvent
  <2>2. Queue!Deliver
    BY <1>0, <2>1, OldestOfBatch DEF Queue!Deliver
  <2>3. QED
    BY <2>1, <2>2
<1>11. CASE SlotReturns \/ PassDone \/ \E m \in Timers : DispatchTimer(m)
  BY <1>11 DEF SlotReturns, PassDone, DispatchTimer, QueueStutters
<1>12. CASE ExecAgain
  BY <1>12 DEF ExecAgain, Queue!Reopen
<1>13. QED
  BY <1>2, <1>3, <1>4, <1>5, <1>6, <1>7, <1>8, <1>9, <1>10, <1>11, <1>12 DEF LoopStep, Environment

\* The safety part of ImplementsQueue: whatever callers, wakeups and interrupts do, the events
\* that are queued or taken are one first-in first-out queue, and leave it only to be dispatched,
\* one after another and while the loop runs.
THEOREM DispatcherIsAQueue == Safety => Queue!Init /\ [][Queue!Next]_(Queue!vars)
<1>1. Init => BatchInPass /\ Queue!Init
  BY ConcatEmptySeq DEF Init, BatchInPass, Queue!Init
<1>2. TypeOK /\ BatchInPass /\ [Next]_vars => BatchInPass' /\ [Queue!Next]_(Queue!vars)
  <2> SUFFICES ASSUME TypeOK, BatchInPass, [Next]_vars PROVE BatchInPass' /\ [Queue!Next]_(Queue!vars)
    OBVIOUS
  <2>1. QueueStutters => UNCHANGED Queue!vars
    BY DEF QueueStutters, Queue!vars
  <2>2. ASSUME NEW t \in Callers, Call(t) \/ Proceed(t) PROVE BatchInPass' /\ [Queue!Next]_(Queue!vars)
    BY <2>1, <2>2, CallersQueue DEF Queue!Next
  <2>3. CASE LoopStep \/ Environment
    BY <2>1, <2>3, LoopQueue DEF Queue!Next
  <2>4. CASE (\E m \in Timers : Tick(m)) \/ UNCHANGED vars
    <3>1. UNCHANGED <<queue, loopVars, delivered>>
      BY <2>4 DEF Tick, vars, history
    <3>2. BatchInPass' /\ QueueStutters
      BY <3>1 DEF BatchInPass, QueueStutters, loopVars
    <3>3. QED
      BY <2>1, <3>2
  <2>5. QED
    BY <2>2, <2>3, <2>4 DEF Next
<1>3. QED
  BY <1>1, <1>2, TypeCorrect, PTL DEF Safety
=============================================================================
