------------------------- MODULE ObjectLifetimeProofs -------------------------
(* Proofs about ObjectLifetime: its types, that an object is destroyed at  *)
(* most once, that deleteLater() works on a live object, that a stopped    *)
(* loop owes no deletion, that slots and timer events reach live objects,  *)
(* and that objects live as ObjectLives says.                              *)
EXTENDS ObjectLifetime, TLAPS

-----------------------------------------------------------------------------
(* Types.                                                                  *)

\* The Boolean fields, apart from the rest so that each half has its prover.
FlagsOK == /\ dispatcher \in BOOLEAN
           /\ life \in [Objects -> BOOLEAN] /\ deletePosted \in [Objects -> BOOLEAN]

CallsOK == /\ pc \in [Threads -> {"idle"} \cup Holding \cup Deleting]
           /\ arg \in [Threads -> Objects \cup {NoObject}]
           /\ calls \in 0..MaxCalls
          /\ \A t \in Threads : pc[t] # "idle" => arg[t] \in Objects

ObjsOK == /\ phase \in [Objects -> {"alive", "destroying", "freed"}]
          /\ deaths \in [Objects -> Nat]
          /\ nest \in [Threads -> Seq(Objects)]

QueueOK == /\ queue \in SUBSET Event /\ batch \in SUBSET Event /\ posts \in Nat
           /\ timers \in SUBSET Objects /\ timerBatch \in SUBSET Objects
           /\ deleted \in SUBSET Objects /\ owed \in SUBSET Objects
           /\ loop \in LoopStates
           /\ slotOf \in Objects \cup {NoObject}

TypeInv == FlagsOK /\ CallsOK /\ ObjsOK /\ QueueOK

\* deleteLater() and ~Object() are the only writers of an object's Boolean fields, and the end
\* of the thread the only writer of its dispatcher.
LEMMA FlagsStep ==
  ASSUME FlagsOK, [Next]_vars
  PROVE  FlagsOK'
  <1> USE ThreadsAssumption DEF FlagsOK, vars, queueVars, loopVars, objVars, callVars
  <1>1. ASSUME NEW t \in Threads, NEW o \in Objects, Lock(t, o) \/ DeleteLater(t, o) \/
               DirectDelete(t, o)
        PROVE  FlagsOK'
    BY <1>1 DEF Lock, RunsUserCode, Goto, TokenHeld, DeleteLater, DirectDelete, BeginDestroy
  <1>2. ASSUME NEW t \in Threads, Resolve(t) \/ PostCall(t) \/ Unlock(t) \/ ResolveDelete(t) \/
               PostDelete(t) \/ FinishDestroy(t)
        PROVE  FlagsOK'
    BY <1>2 DEF Resolve, Goto, PostCall, Push, Unlock, Return, ResolveDelete, BeginDestroy,
           PostDelete, FinishDestroy
  <1>3. ASSUME NEW o \in Objects, StartTimer(o) \/ KillTimer(o) \/ DispatchTimer(o)
        PROVE  FlagsOK'
    BY <1>3 DEF StartTimer, RunsUserCode, KillTimer, DispatchTimer, LoopReady
  <1>4. ASSUME NEW x \in SUBSET timers, Take(x)
        PROVE  FlagsOK'
    BY <1>4 DEF Take
  <1>5. ASSUME NEW e \in batch, SkipEvent(e) \/ DispatchDelete(e) \/ DispatchCall(e) \/
               DrainDelete(e)
        PROVE  FlagsOK'
    BY <1>5 DEF SkipEvent, LoopReady, IsNext, DispatchDelete, BeginDestroy, DispatchCall,
           DrainDelete
  <1>6. CASE Started \/ SlotReturns \/ PassDone \/ Stopped \/ Drain \/ DrainPassDone \/
           DropDispatcher \/ ExecReturns \/ UNCHANGED vars
    BY <1>6 DEF Started, LoopReady, SlotReturns, PassDone, Stopped, Drain, Deletes,
           DrainPassDone, DropDispatcher, ExecReturns
  <1> QED BY <1>1, <1>2, <1>3, <1>4, <1>5, <1>6 DEF Next, UserStep, Proceed, LoopStep, Dispatch

\* Every call works on an object, from its first step to its last.
LEMMA CallsStep ==
  ASSUME CallsOK, [Next]_vars
  PROVE  CallsOK'
  <1> USE ThreadsAssumption, MaxCallsAssumption DEF CallsOK, Holding, Deleting, vars, queueVars,
           loopVars, objVars, callVars
  <1>1. ASSUME NEW t \in Threads, NEW o \in Objects, Lock(t, o)
        PROVE  CallsOK'
    BY <1>1 DEF Lock, RunsUserCode, Goto, TokenHeld
  <1>2. ASSUME NEW t \in Threads, NEW o \in Objects, DeleteLater(t, o)
        PROVE  CallsOK'
    BY <1>2 DEF DeleteLater, RunsUserCode, Goto
  <1>3. ASSUME NEW t \in Threads, NEW o \in Objects, DirectDelete(t, o)
        PROVE  CallsOK'
    BY <1>3 DEF DirectDelete, RunsUserCode, BeginDestroy
  <1>4. ASSUME NEW t \in Threads, Resolve(t) \/ PostCall(t) \/ Unlock(t) \/ ResolveDelete(t) \/
               PostDelete(t) \/ FinishDestroy(t)
        PROVE  CallsOK'
    BY <1>4 DEF Resolve, Goto, PostCall, Push, Unlock, Return, ResolveDelete, BeginDestroy,
           PostDelete, FinishDestroy
  <1>5. ASSUME NEW o \in Objects, StartTimer(o) \/ KillTimer(o) \/ DispatchTimer(o)
        PROVE  CallsOK'
    BY <1>5 DEF StartTimer, RunsUserCode, KillTimer, DispatchTimer, LoopReady
  <1>6. ASSUME NEW x \in SUBSET timers, Take(x)
        PROVE  CallsOK'
    BY <1>6 DEF Take
  <1>7. ASSUME NEW e \in batch, SkipEvent(e) \/ DispatchDelete(e) \/ DispatchCall(e) \/
               DrainDelete(e)
        PROVE  CallsOK'
    BY <1>7 DEF SkipEvent, LoopReady, IsNext, DispatchDelete, BeginDestroy, DispatchCall,
           DrainDelete
  <1>8. CASE Started \/ SlotReturns \/ PassDone \/ Stopped \/ Drain \/ DrainPassDone \/
           DropDispatcher \/ ExecReturns \/ UNCHANGED vars
    BY <1>8 DEF Started, LoopReady, SlotReturns, PassDone, Stopped, Drain, Deletes,
           DrainPassDone, DropDispatcher, ExecReturns
  <1> QED BY <1>1, <1>2, <1>3, <1>4, <1>5, <1>6, <1>7, <1>8 DEF Next, UserStep, Proceed,
         LoopStep, Dispatch

\* ~Object() puts one more object on the destructors its thread is inside.
LEMMA BeginDestroyOK ==
  ASSUME ObjsOK, NEW t \in Threads, NEW o \in Objects, BeginDestroy(t, o)
  PROVE  ObjsOK'
  BY DEF ObjsOK, BeginDestroy

\* Phases, deaths and destructors in progress stay well-formed.
LEMMA ObjsStep ==
  ASSUME CallsOK, QueueOK, ObjsOK, [Next]_vars
  PROVE  ObjsOK'
  <1> USE ThreadsAssumption DEF CallsOK, ObjsOK, QueueOK, Event, Holding, Deleting, Threads,
           LoopStates, vars, queueVars, loopVars, objVars, callVars
  <1>1. ASSUME NEW t \in Threads, NEW o \in Objects, DirectDelete(t, o)
        PROVE  ObjsOK'
    BY <1>1 DEF DirectDelete, RunsUserCode, BeginDestroy
  <1>2. ASSUME NEW t \in Threads, ResolveDelete(t)
        PROVE  ObjsOK'
    <2>1. CASE BeginDestroy(t, arg[t])
      BY <1>2, <2>1, BeginDestroyOK DEF ResolveDelete
    <2>2. CASE UNCHANGED objVars
      BY <2>2
    <2> QED BY <1>2, <2>1, <2>2 DEF ResolveDelete
  <1>3. ASSUME NEW t \in Threads, FinishDestroy(t)
        PROVE  ObjsOK'
    BY <1>3 DEF FinishDestroy
  <1>4. ASSUME NEW e \in batch, DispatchDelete(e)
        PROVE  ObjsOK'
    BY <1>4 DEF DispatchDelete, LoopReady, IsNext, BeginDestroy
  <1>5. ASSUME NEW e \in batch, DrainDelete(e)
        PROVE  ObjsOK'
    <2>1. CASE BeginDestroy(Loop, e.obj)
      BY <2>1, BeginDestroyOK
    <2>2. CASE UNCHANGED objVars
      BY <2>2
    <2> QED BY <1>5, <2>1, <2>2 DEF DrainDelete
  <1>6. ASSUME NEW t \in Threads, NEW o \in Objects, Lock(t, o) \/ DeleteLater(t, o)
        PROVE  ObjsOK'
    BY <1>6 DEF Lock, RunsUserCode, Goto, TokenHeld, DeleteLater
  <1>7. ASSUME NEW t \in Threads, Resolve(t) \/ PostCall(t) \/ Unlock(t) \/ PostDelete(t)
        PROVE  ObjsOK'
    BY <1>7 DEF Resolve, Goto, PostCall, Push, Unlock, Return, PostDelete
  <1>8. ASSUME NEW o \in Objects, StartTimer(o) \/ KillTimer(o) \/ DispatchTimer(o)
        PROVE  ObjsOK'
    BY <1>8 DEF StartTimer, RunsUserCode, KillTimer, DispatchTimer, LoopReady
  <1>9. ASSUME NEW x \in SUBSET timers, Take(x)
        PROVE  ObjsOK'
    BY <1>9 DEF Take
  <1>10. ASSUME NEW e \in batch, SkipEvent(e) \/ DispatchCall(e)
         PROVE  ObjsOK'
    BY <1>10 DEF SkipEvent, LoopReady, IsNext, DispatchCall
  <1>11. CASE Started \/ SlotReturns \/ PassDone \/ Stopped \/ Drain \/ DrainPassDone \/
           DropDispatcher \/ ExecReturns \/ UNCHANGED vars
    BY <1>11 DEF Started, LoopReady, SlotReturns, PassDone, Stopped, Drain, Deletes,
           DrainPassDone, DropDispatcher, ExecReturns
  <1> QED BY <1>1, <1>2, <1>3, <1>4, <1>5, <1>6, <1>7, <1>8, <1>9, <1>10, <1>11 DEF Next,
         UserStep, Proceed, LoopStep, Dispatch

\* Queue, batch and timers only ever hold events and objects.
LEMMA QueueStep ==
  ASSUME CallsOK, ObjsOK, QueueOK, [Next]_vars
  PROVE  QueueOK'
  <1> USE ThreadsAssumption DEF CallsOK, ObjsOK, QueueOK, Event, Holding, Deleting, Threads,
           LoopStates, vars, queueVars, loopVars, objVars, callVars
  <1>1. ASSUME NEW t \in Threads, PostCall(t)
        PROVE  QueueOK'
    BY <1>1 DEF PostCall, Goto, Push
  <1>2. ASSUME NEW t \in Threads, PostDelete(t)
        PROVE  QueueOK'
    BY <1>2 DEF PostDelete, Push, Return, Goto
  <1>3. ASSUME NEW t \in Threads, FinishDestroy(t)
        PROVE  QueueOK'
    BY <1>3 DEF FinishDestroy
  <1>4. ASSUME NEW t \in Threads, NEW o \in Objects, Lock(t, o) \/ DeleteLater(t, o) \/
               DirectDelete(t, o)
        PROVE  QueueOK'
    BY <1>4 DEF Lock, RunsUserCode, Goto, TokenHeld, DeleteLater, DirectDelete, BeginDestroy
  <1>5. ASSUME NEW t \in Threads, Resolve(t) \/ Unlock(t) \/ ResolveDelete(t)
        PROVE  QueueOK'
    BY <1>5 DEF Resolve, Goto, Unlock, Return, ResolveDelete, BeginDestroy
  <1>6. ASSUME NEW o \in Objects, StartTimer(o) \/ KillTimer(o) \/ DispatchTimer(o)
        PROVE  QueueOK'
    BY <1>6 DEF StartTimer, RunsUserCode, KillTimer, DispatchTimer, LoopReady
  <1>7. ASSUME NEW x \in SUBSET timers, Take(x)
        PROVE  QueueOK'
    BY <1>7 DEF Take
  <1>8. ASSUME NEW e \in batch, SkipEvent(e) \/ DispatchDelete(e) \/ DispatchCall(e) \/
               DrainDelete(e)
        PROVE  QueueOK'
    BY <1>8 DEF SkipEvent, LoopReady, IsNext, DispatchDelete, BeginDestroy, DispatchCall,
           DrainDelete
  <1>9. CASE Started \/ SlotReturns \/ PassDone \/ Stopped \/ Drain \/ DrainPassDone \/
           DropDispatcher \/ ExecReturns \/ UNCHANGED vars
    BY <1>9 DEF Started, LoopReady, SlotReturns, PassDone, Stopped, Drain, Deletes,
           DrainPassDone, DropDispatcher, ExecReturns
  <1> QED BY <1>1, <1>2, <1>3, <1>4, <1>5, <1>6, <1>7, <1>8, <1>9 DEF Next, UserStep, Proceed,
         LoopStep, Dispatch

\* ObjectLifetime is type-correct, whatever the threads and objects.
THEOREM TypeCorrect == Safety => []TypeOK
  <1>1. Init => TypeInv
    <2> SUFFICES ASSUME Init PROVE TypeInv
      OBVIOUS
    <2>1. FlagsOK
      BY Zenon DEF Init, FlagsOK
    <2>2. CallsOK /\ ObjsOK /\ QueueOK
      BY MaxCallsAssumption DEF Init, CallsOK, ObjsOK, QueueOK, LoopStates
    <2> QED BY <2>1, <2>2 DEF TypeInv
  <1>2. TypeInv /\ [Next]_vars => TypeInv'
    BY FlagsStep, CallsStep, ObjsStep, QueueStep, Zenon DEF TypeInv
  <1>3. TypeInv => TypeOK
    BY Zenon DEF TypeInv, FlagsOK, CallsOK, ObjsOK, QueueOK, TypeOK
  <1> QED BY <1>1, <1>2, <1>3, PTL DEF Safety

-----------------------------------------------------------------------------
(* The invariant, as long as slots on Loop use deleteLater().              *)

\* One more in front of a sequence: the rest moves up by one.
LEMMA Pushed ==
  ASSUME NEW S, NEW s \in Seq(S), NEW x \in S, NEW r, r = <<x>> \o s
  PROVE  /\ r \in Seq(S) /\ 1 \in DOMAIN r /\ r[1] = x
         /\ \A i \in DOMAIN s : i + 1 \in DOMAIN r /\ r[i + 1] = s[i]
         /\ \A i \in DOMAIN r : i = 1 \/ (i - 1 \in DOMAIN s /\ r[i] = s[i - 1])
  OBVIOUS

\* Without the first of a sequence the rest moves down by one.
LEMMA Popped ==
  ASSUME NEW S, NEW s \in Seq(S), s # <<>>, NEW r, r = Tail(s)
  PROVE  /\ r \in Seq(S) /\ 1 \in DOMAIN s /\ Head(s) = s[1] /\ Head(s) \in S
         /\ \A i \in DOMAIN r : i + 1 \in DOMAIN s /\ i + 1 # 1 /\ r[i] = s[i + 1]
         /\ \A i \in DOMAIN s : i = 1 \/ (i - 1 \in DOMAIN r /\ r[i - 1] = s[i])
  <1>1. Len(s) \in Nat \ {0} /\ DOMAIN s = 1..Len(s)
    OBVIOUS
  <1>2. r \in Seq(S) /\ Len(r) = Len(s) - 1 /\ DOMAIN r = 1..(Len(s) - 1)
    OBVIOUS
  <1>3. \A i \in 1..(Len(s) - 1) : r[i] = s[i + 1]
    OBVIOUS
  <1>4. 1 \in DOMAIN s /\ Head(s) = s[1] /\ Head(s) \in S
    OBVIOUS
  <1>5. \A i \in DOMAIN r : i + 1 \in DOMAIN s /\ i + 1 # 1 /\ r[i] = s[i + 1]
    BY <1>1, <1>2, <1>3
  <1>6. ASSUME NEW i \in DOMAIN s, i # 1
        PROVE  i - 1 \in DOMAIN r /\ r[i - 1] = s[i]
    <2>1. i - 1 \in 1..(Len(s) - 1) /\ (i - 1) + 1 = i
      BY <1>1, <1>6
    <2> QED BY <1>2, <1>3, <2>1
  <1> QED BY <1>2, <1>4, <1>5, <1>6

\* ~Object() ends on an object inside its destructor and frees it, and no other.
LEMMA FinishFrees ==
  ASSUME ObjsOK, Nests, NEW t \in Threads, FinishDestroy(t)
  PROVE  /\ nest[t] \in Seq(Objects) /\ nest[t] # <<>> /\ nest'[t] = Tail(nest[t])
         /\ \A u \in Threads : u # t => nest'[u] = nest[u]
         /\ 1 \in DOMAIN nest[t] /\ Head(nest[t]) = nest[t][1] /\ Head(nest[t]) \in Objects
         /\ phase[Head(nest[t])] = "destroying" /\ phase'[Head(nest[t])] = "freed"
         /\ phase' = [phase EXCEPT ![Head(nest[t])] = "freed"]
         /\ \A p \in Objects : p # Head(nest[t]) => phase'[p] = phase[p]
  <1>1. nest[t] \in Seq(Objects) /\ nest[t] # <<>>
    BY DEF FinishDestroy, ObjsOK
  <1>2. 1 \in DOMAIN nest[t] /\ Head(nest[t]) = nest[t][1] /\ Head(nest[t]) \in Objects
    BY <1>1, Popped
  <1>3. phase[Head(nest[t])] = "destroying"
    BY <1>2 DEF Nests
  <1> QED BY <1>1, <1>2, <1>3 DEF FinishDestroy, ObjsOK

\* The memory of objects changes hands only at the two ends of ~Object(), and ~Object() begins
\* on live objects only.
LEMMA ObjectsChange ==
  ASSUME CallsOK, QueueOK, DirectDeletes = FALSE, Stages, OneDelete, [Next]_vars
  PROVE  \/ UNCHANGED <<phase, nest>>
         \/ \E t \in Threads : FinishDestroy(t)
         \/ \E t \in Threads, o \in Objects : phase[o] = "alive" /\ BeginDestroy(t, o)
  <1> USE DEF vars, queueVars, loopVars, objVars, callVars
  <1> DEFINE Begins == \E t \in Threads, o \in Objects : phase[o] = "alive" /\ BeginDestroy(t, o)
             Keeps == UNCHANGED <<phase, nest>>
  <1>1. ASSUME NEW t \in Threads, NEW o \in Objects, Lock(t, o) \/ DeleteLater(t, o) \/
               DirectDelete(t, o)
        PROVE  Keeps \/ Begins
    BY <1>1 DEF Lock, DeleteLater, DirectDelete
  <1>2. ASSUME NEW t \in Threads, Resolve(t) \/ PostCall(t) \/ Unlock(t) \/ PostDelete(t)
        PROVE  Keeps
    BY <1>2 DEF Resolve, PostCall, Unlock, PostDelete
  <1>3. ASSUME NEW t \in Threads, ResolveDelete(t)
        PROVE  Keeps \/ Begins
    <2>1. arg[t] \in Objects /\ phase[arg[t]] = "alive"
      BY <1>3 DEF ResolveDelete, OneDelete, Deleting
    <2> QED BY <1>3, <2>1 DEF ResolveDelete
  <1>4. ASSUME NEW o \in Objects, StartTimer(o) \/ KillTimer(o) \/ DispatchTimer(o)
        PROVE  Keeps
    BY <1>4 DEF StartTimer, KillTimer, DispatchTimer
  <1>5. ASSUME NEW x \in SUBSET timers, Take(x)
        PROVE  Keeps
    BY <1>5 DEF Take
  <1>6. ASSUME NEW e \in batch, SkipEvent(e) \/ DispatchDelete(e) \/ DispatchCall(e) \/
               DrainDelete(e)
        PROVE  Keeps \/ Begins
    <2>1. e.obj \in Objects /\ Loop \in Threads
      BY DEF QueueOK, Event, Threads
    <2>2. e.kind = "delete" => phase[e.obj] = "alive"
      BY DEF OneDelete, Pending
    <2>3. CASE SkipEvent(e) \/ DispatchCall(e)
      BY <2>3 DEF SkipEvent, DispatchCall
    <2>4. CASE DispatchDelete(e)
      BY <2>1, <2>2, <2>4 DEF DispatchDelete
    <2>5. CASE DrainDelete(e)
      BY <2>1, <2>2, <2>5 DEF DrainDelete, Stages
    <2> QED BY <1>6, <2>3, <2>4, <2>5
  <1>7. CASE Started \/ SlotReturns \/ PassDone \/ Stopped \/ Drain \/ DrainPassDone \/
           DropDispatcher \/ ExecReturns \/ UNCHANGED vars
    BY <1>7 DEF Started, SlotReturns, PassDone, Stopped, Drain, DrainPassDone, DropDispatcher,
           ExecReturns
  <1> QED BY <1>1, <1>2, <1>3, <1>4, <1>5, <1>6, <1>7 DEF Next, UserStep, Proceed, LoopStep,
         Dispatch

\* ~Object() begins: the object goes on top of its thread's destructors, where it was not before.
LEMMA BeginDestroyNests ==
  ASSUME ObjsOK, Nests, NEW t \in Threads, NEW o \in Objects, phase[o] = "alive",
         BeginDestroy(t, o)
  PROVE  Nests'
  <1>1. /\ nest'[t] = <<o>> \o nest[t] /\ nest[t] \in Seq(Objects)
        /\ \A u \in Threads : u # t => nest'[u] = nest[u]
        /\ phase'[o] = "destroying" /\ \A p \in Objects : p # o => phase'[p] = phase[p]
    BY DEF BeginDestroy, ObjsOK
  <1>2. \A u \in Threads : \A i \in DOMAIN nest[u] : nest[u][i] # o /\ nest[u][i] \in Objects
    BY DEF Nests, ObjsOK
  <1>3. /\ nest'[t] \in Seq(Objects) /\ 1 \in DOMAIN nest'[t] /\ nest'[t][1] = o
        /\ \A i \in DOMAIN nest[t] : i + 1 \in DOMAIN nest'[t] /\ nest'[t][i + 1] = nest[t][i]
        /\ \A i \in DOMAIN nest'[t] :
             i = 1 \/ (i - 1 \in DOMAIN nest[t] /\ nest'[t][i] = nest[t][i - 1])
    BY <1>1, Pushed
  <1>4. ASSUME NEW u \in Threads, NEW i \in DOMAIN nest'[u]
        PROVE  \/ u = t /\ i = 1 /\ nest'[u][i] = o
               \/ u = t /\ i - 1 \in DOMAIN nest[u] /\ nest'[u][i] = nest[u][i - 1]
               \/ u # t /\ i \in DOMAIN nest[u] /\ nest'[u][i] = nest[u][i]
    <2>1. CASE u = t
      BY <1>3, <2>1
    <2>2. CASE u # t
      BY <1>1, <2>2
    <2> QED BY <2>1, <2>2
  <1>5. ASSUME NEW u \in Threads, NEW i \in DOMAIN nest[u]
        PROVE  \E j \in DOMAIN nest'[u] : nest'[u][j] = nest[u][i]
    <2>1. CASE u = t
      BY <1>3, <2>1
    <2>2. CASE u # t
      BY <1>1, <2>2
    <2> QED BY <2>1, <2>2
  <1>6. ASSUME NEW u \in Threads, NEW i \in DOMAIN nest'[u]
        PROVE  phase'[nest'[u][i]] = "destroying"
    BY <1>1, <1>2, <1>4 DEF Nests
  <1>7. ASSUME NEW p \in Objects, phase'[p] = "destroying"
        PROVE  \E u \in Threads : \E i \in DOMAIN nest'[u] : nest'[u][i] = p
    <2>1. CASE p = o
      BY <1>3, <2>1
    <2>2. CASE p # o
      <3>1. PICK u \in Threads : \E i \in DOMAIN nest[u] : nest[u][i] = p
        BY <1>1, <1>7, <2>2 DEF Nests
      <3> QED BY <1>5, <3>1
    <2> QED BY <2>1, <2>2
  <1>8. ASSUME NEW u \in Threads, NEW v \in Threads, NEW i \in DOMAIN nest'[u],
               NEW j \in DOMAIN nest'[v], nest'[u][i] = nest'[v][j]
        PROVE  u = v /\ i = j
    <2>1. i \in Nat /\ j \in Nat
      <3>1. nest'[u] \in Seq(Objects) /\ nest'[v] \in Seq(Objects)
        BY <1>1, <1>3 DEF ObjsOK
      <3> QED BY <3>1
    <2> QED BY <1>2, <1>4, <1>8, <2>1 DEF Nests
  <1> QED BY <1>6, <1>7, <1>8, Zenon DEF Nests

\* ~Object() ends: the object on top is freed, and it was nowhere else.
LEMMA FinishDestroyNests ==
  ASSUME ObjsOK, Nests, NEW t \in Threads, FinishDestroy(t)
  PROVE  Nests'
  <1> DEFINE o == Head(nest[t])
  <1>1. /\ nest'[t] = Tail(nest[t]) /\ nest[t] \in Seq(Objects) /\ nest[t] # <<>>
        /\ \A u \in Threads : u # t => nest'[u] = nest[u]
        /\ phase'[o] = "freed" /\ \A p \in Objects : p # o => phase'[p] = phase[p]
    BY FinishFrees
  <1>2. 1 \in DOMAIN nest[t] /\ o = nest[t][1] /\ o \in Objects
    BY FinishFrees
  <1>3. /\ nest'[t] \in Seq(Objects)
        /\ \A i \in DOMAIN nest'[t] :
             i + 1 \in DOMAIN nest[t] /\ i + 1 # 1 /\ nest'[t][i] = nest[t][i + 1]
        /\ \A i \in DOMAIN nest[t] :
             i = 1 \/ (i - 1 \in DOMAIN nest'[t] /\ nest'[t][i - 1] = nest[t][i])
    BY <1>1, Popped
  <1>4. ASSUME NEW u \in Threads, NEW i \in DOMAIN nest'[u]
        PROVE  \/ u = t /\ i + 1 \in DOMAIN nest[u] /\ i + 1 # 1 /\ nest'[u][i] = nest[u][i + 1]
               \/ u # t /\ i \in DOMAIN nest[u] /\ nest'[u][i] = nest[u][i]
    <2>1. CASE u = t
      BY <1>3, <2>1
    <2>2. CASE u # t
      BY <1>1, <2>2
    <2> QED BY <2>1, <2>2
  <1>5. ASSUME NEW u \in Threads, NEW i \in DOMAIN nest[u], nest[u][i] # o
        PROVE  \E j \in DOMAIN nest'[u] : nest'[u][j] = nest[u][i]
    <2>1. CASE u = t
      <3>1. i - 1 \in DOMAIN nest'[t] /\ nest'[t][i - 1] = nest[t][i]
        BY <1>2, <1>5, <1>3, <2>1
      <3> QED BY <2>1, <3>1
    <2>2. CASE u # t
      BY <1>1, <2>2
    <2> QED BY <2>1, <2>2
  <1>6. ASSUME NEW u \in Threads, NEW i \in DOMAIN nest'[u]
        PROVE  phase'[nest'[u][i]] = "destroying"
    <2>1. \A v \in Threads : \A j \in DOMAIN nest[v] : nest[v][j] \in Objects
      BY DEF ObjsOK
    <2>2. nest'[u][i] # o
      BY <1>2, <1>4 DEF Nests
    <2> QED BY <1>1, <1>4, <2>1, <2>2 DEF Nests
  <1>7. ASSUME NEW p \in Objects, phase'[p] = "destroying"
        PROVE  \E u \in Threads : \E i \in DOMAIN nest'[u] : nest'[u][i] = p
    <2>1. p # o /\ phase[p] = "destroying"
      BY <1>1, <1>7
    <2>2. PICK u \in Threads : \E i \in DOMAIN nest[u] : nest[u][i] = p
      BY <2>1 DEF Nests
    <2> QED BY <1>5, <2>1, <2>2
  <1>8. ASSUME NEW u \in Threads, NEW v \in Threads, NEW i \in DOMAIN nest'[u],
               NEW j \in DOMAIN nest'[v], nest'[u][i] = nest'[v][j]
        PROVE  u = v /\ i = j
    <2>1. i \in Nat /\ j \in Nat
      <3>1. nest'[u] \in Seq(Objects) /\ nest'[v] \in Seq(Objects)
        BY <1>1, <1>3 DEF ObjsOK
      <3> QED BY <3>1
    <2> QED BY <1>4, <1>8, <2>1 DEF Nests
  <1> QED BY <1>6, <1>7, <1>8, Zenon DEF Nests

\* The destructors in progress are those of the objects that are being destroyed.
LEMMA NestsStep ==
  ASSUME CallsOK, ObjsOK, QueueOK, DirectDeletes = FALSE, Stages, OneDelete, Nests, [Next]_vars
  PROVE  Nests'
  <1>1. CASE UNCHANGED <<phase, nest>>
    BY <1>1 DEF Nests
  <1> QED BY <1>1, ObjectsChange, BeginDestroyNests, FinishDestroyNests

\* Entering ~Object() on a live object takes its life and counts one death.
LEMMA BeginDestroyCounts ==
  ASSUME FlagsOK, ObjsOK, DeathsCounted, NEW t \in Threads, NEW o \in Objects,
         phase[o] = "alive", BeginDestroy(t, o)
  PROVE  DeathsCounted'
  <1>1. \A p \in Objects : deaths'[p] = IF phase'[p] = "alive" THEN 0 ELSE 1
    BY DEF ObjsOK, DeathsCounted, BeginDestroy
  <1>2. ASSUME NEW p \in Objects PROVE life'[p] <=> phase'[p] = "alive"
    <2>1. CASE p = o
      <3>1. phase'[p] = "destroying"
        BY <2>1 DEF ObjsOK, BeginDestroy
      <3>2. life'[p] = FALSE
        BY <2>1, Zenon DEF FlagsOK, BeginDestroy
      <3> QED BY <3>1, <3>2
    <2>2. CASE p # o
      <3>1. phase'[p] = phase[p]
        BY <2>2 DEF ObjsOK, BeginDestroy
      <3>2. life'[p] = life[p]
        BY <2>2, Zenon DEF FlagsOK, BeginDestroy
      <3> QED BY <3>1, <3>2 DEF DeathsCounted
    <2> QED BY <2>1, <2>2
  <1> QED BY <1>1, <1>2 DEF DeathsCounted

\* Only live objects are destroyed: a deferred delete that is pending, or being posted, names one.
LEMMA DeathsStep ==
  ASSUME FlagsOK, CallsOK, ObjsOK, QueueOK, DirectDeletes = FALSE, Stages, DeathsCounted, OneDelete,
         Nests, [Next]_vars
  PROVE  DeathsCounted'
  <1> USE ThreadsAssumption DEF CallsOK, ObjsOK, QueueOK, Event, Holding, Deleting, Threads,
           LoopStates, DeathsCounted, OneDelete, Pending, vars, queueVars, loopVars,
           objVars, callVars
  <1>1. ASSUME NEW t \in Threads, NEW o \in Objects, DirectDelete(t, o)
        PROVE  DeathsCounted'
    BY <1>1, BeginDestroyCounts DEF DirectDelete, RunsUserCode
  <1>2. ASSUME NEW t \in Threads, ResolveDelete(t)
        PROVE  DeathsCounted'
    <2>1. CASE BeginDestroy(t, arg[t])
      BY <1>2, <2>1, BeginDestroyCounts DEF ResolveDelete
    <2>2. CASE UNCHANGED objVars
      BY <2>2
    <2> QED BY <1>2, <2>1, <2>2 DEF ResolveDelete
  <1>3. ASSUME NEW t \in Threads, FinishDestroy(t)
        PROVE  DeathsCounted'
    <2> HIDE DEF ObjsOK, DeathsCounted, OneDelete
    <2>1. UNCHANGED <<life, deaths>>
      BY <1>3 DEF FinishDestroy
    <2>2. \A p \in Objects : phase[p] = "alive" <=> phase'[p] = "alive"
      BY <1>3, FinishFrees
    <2> QED BY <2>1, <2>2 DEF DeathsCounted
  <1>4. ASSUME NEW e \in batch, DispatchDelete(e)
        PROVE  DeathsCounted'
    BY <1>4, BeginDestroyCounts DEF DispatchDelete
  <1>5. ASSUME NEW e \in batch, DrainDelete(e)
        PROVE  DeathsCounted'
    <2>1. CASE BeginDestroy(Loop, e.obj)
      BY <1>5, <2>1, BeginDestroyCounts DEF DrainDelete, Stages
    <2>2. CASE UNCHANGED objVars
      BY <2>2
    <2> QED BY <1>5, <2>1, <2>2 DEF DrainDelete
  <1>6. ASSUME NEW t \in Threads, NEW o \in Objects, Lock(t, o) \/ DeleteLater(t, o)
        PROVE  DeathsCounted'
    BY <1>6 DEF Lock, RunsUserCode, Goto, TokenHeld, DeleteLater
  <1>7. ASSUME NEW t \in Threads, Resolve(t) \/ PostCall(t) \/ Unlock(t) \/ PostDelete(t)
        PROVE  DeathsCounted'
    BY <1>7 DEF Resolve, Goto, PostCall, Push, Unlock, Return, PostDelete
  <1>8. ASSUME NEW o \in Objects, StartTimer(o) \/ KillTimer(o) \/ DispatchTimer(o)
        PROVE  DeathsCounted'
    BY <1>8 DEF StartTimer, RunsUserCode, KillTimer, DispatchTimer, LoopReady
  <1>9. ASSUME NEW x \in SUBSET timers, Take(x)
        PROVE  DeathsCounted'
    BY <1>9 DEF Take
  <1>10. ASSUME NEW e \in batch, SkipEvent(e) \/ DispatchCall(e)
         PROVE  DeathsCounted'
    BY <1>10 DEF SkipEvent, LoopReady, IsNext, DispatchCall
  <1>11. CASE Started \/ SlotReturns \/ PassDone \/ Stopped \/ Drain \/ DrainPassDone \/
           DropDispatcher \/ ExecReturns \/ UNCHANGED vars
    BY <1>11 DEF Started, LoopReady, SlotReturns, PassDone, Stopped, Drain, Deletes,
           DrainPassDone, DropDispatcher, ExecReturns
  <1> QED BY <1>1, <1>2, <1>3, <1>4, <1>5, <1>6, <1>7, <1>8, <1>9, <1>10, <1>11 DEF Next,
         UserStep, Proceed, LoopStep, Dispatch

\* Each stage of threadBody() leaves its batch empty and its destructors returned.
LEMMA StagesStep ==
  ASSUME FlagsOK, CallsOK, ObjsOK, QueueOK, DirectDeletes = FALSE, Stages, [Next]_vars
  PROVE  Stages'
  <1> USE ThreadsAssumption DEF CallsOK, ObjsOK, QueueOK, Event, Holding, Deleting, Threads,
           LoopStates, Stages, vars, queueVars, loopVars, objVars, callVars
  <1>1. ASSUME NEW t \in Threads, NEW o \in Objects, DirectDelete(t, o)
        PROVE  Stages'
    BY <1>1 DEF DirectDelete, RunsUserCode, BeginDestroy
  <1>2. ASSUME NEW t \in Threads, ResolveDelete(t)
        PROVE  Stages'
    BY <1>2 DEF ResolveDelete, BeginDestroy, Return, Goto
  <1>3. ASSUME NEW t \in Threads, FinishDestroy(t)
        PROVE  Stages'
    BY <1>3 DEF FinishDestroy
  <1>4. ASSUME NEW e \in batch, DrainDelete(e)
        PROVE  Stages'
    BY <1>4 DEF DrainDelete, LoopReady, IsNext, BeginDestroy
  <1>5. CASE Drain
    BY <1>5 DEF Drain, Deletes
  <1>6. CASE DropDispatcher
    BY <1>6 DEF DropDispatcher
  <1>7. ASSUME NEW t \in Threads, NEW o \in Objects, Lock(t, o) \/ DeleteLater(t, o)
        PROVE  Stages'
    BY <1>7, SMTT(30) DEF Lock, RunsUserCode, Goto, TokenHeld, DeleteLater
  <1>8. ASSUME NEW t \in Threads, Resolve(t) \/ PostCall(t) \/ Unlock(t) \/ PostDelete(t)
        PROVE  Stages'
    BY <1>8 DEF Resolve, Goto, PostCall, Push, Unlock, Return, PostDelete
  <1>9. ASSUME NEW o \in Objects, StartTimer(o) \/ KillTimer(o) \/ DispatchTimer(o)
        PROVE  Stages'
    BY <1>9 DEF StartTimer, RunsUserCode, KillTimer, DispatchTimer, LoopReady
  <1>10. ASSUME NEW x \in SUBSET timers, Take(x)
         PROVE  Stages'
    BY <1>10 DEF Take
  <1>11. ASSUME NEW e \in batch, SkipEvent(e) \/ DispatchDelete(e) \/ DispatchCall(e)
         PROVE  Stages'
    BY <1>11 DEF SkipEvent, LoopReady, IsNext, DispatchDelete, BeginDestroy, DispatchCall
  <1>12. CASE Started \/ SlotReturns \/ PassDone \/ Stopped \/ DrainPassDone \/ ExecReturns \/
           UNCHANGED vars
    BY <1>12 DEF Started, LoopReady, SlotReturns, PassDone, Stopped, DrainPassDone, ExecReturns
  <1> QED BY <1>1, <1>2, <1>3, <1>4, <1>5, <1>6, <1>7, <1>8, <1>9, <1>10, <1>11, <1>12 DEF Next,
         UserStep, Proceed, LoopStep, Dispatch

\* A slot is entered with no destructor under way, and none begins under it: its own thread
\* only posts deletions as long as it has a dispatcher.
LEMMA SlotsStep ==
  ASSUME CallsOK, ObjsOK, QueueOK, DirectDeletes = FALSE, Stages, SlotsClear, [Next]_vars
  PROVE  SlotsClear'
  <1> USE ThreadsAssumption DEF QueueOK, SlotsClear, vars, queueVars, loopVars, objVars, callVars
  <1>1. ASSUME NEW t \in Threads, NEW o \in Objects, Lock(t, o) \/ DeleteLater(t, o)
        PROVE  SlotsClear'
    BY <1>1 DEF Lock, DeleteLater
  <1>2. ASSUME NEW t \in Threads, NEW o \in Objects, DirectDelete(t, o)
        PROVE  SlotsClear'
    BY <1>2 DEF DirectDelete
  <1>3. ASSUME NEW t \in Threads, Resolve(t) \/ PostCall(t) \/ Unlock(t) \/ PostDelete(t)
        PROVE  SlotsClear'
    BY <1>3 DEF Resolve, PostCall, Unlock, PostDelete
  <1>4. ASSUME NEW t \in Threads, ResolveDelete(t)
        PROVE  SlotsClear'
    BY <1>4 DEF ResolveDelete, Stages
  <1>5. ASSUME NEW t \in Threads, FinishDestroy(t)
        PROVE  SlotsClear'
    BY <1>5 DEF FinishDestroy, ObjsOK
  <1>6. ASSUME NEW o \in Objects, StartTimer(o) \/ KillTimer(o) \/ DispatchTimer(o)
        PROVE  SlotsClear'
    BY <1>6 DEF StartTimer, KillTimer, DispatchTimer, LoopReady
  <1>7. ASSUME NEW x \in SUBSET timers, Take(x)
        PROVE  SlotsClear'
    BY <1>7 DEF Take
  <1>8. ASSUME NEW e \in batch, SkipEvent(e) \/ DispatchDelete(e) \/ DispatchCall(e) \/
               DrainDelete(e)
        PROVE  SlotsClear'
    BY <1>8 DEF SkipEvent, DispatchDelete, DispatchCall, DrainDelete, LoopReady, Event
  <1>9. CASE Started \/ SlotReturns \/ PassDone \/ Stopped \/ Drain \/ DrainPassDone \/
           DropDispatcher \/ ExecReturns \/ UNCHANGED vars
    BY <1>9 DEF Started, SlotReturns, PassDone, Stopped, Drain, DrainPassDone, DropDispatcher,
           ExecReturns
  <1> QED BY <1>1, <1>2, <1>3, <1>4, <1>5, <1>6, <1>7, <1>8, <1>9 DEF Next, UserStep, Proceed,
         LoopStep, Dispatch

\* Events keep their numbers, and leave the queue when they are taken.
LEMMA NumberedStep ==
  ASSUME FlagsOK, CallsOK, ObjsOK, QueueOK, DirectDeletes = FALSE, Stages, Numbered, [Next]_vars
  PROVE  Numbered'
  <1> USE ThreadsAssumption DEF CallsOK, ObjsOK, QueueOK, Event, Holding, Deleting, Threads,
           LoopStates, Stages, Numbered, Pending, vars, queueVars, loopVars, objVars, callVars
  <1>1. ASSUME NEW t \in Threads, PostCall(t)
        PROVE  Numbered'
    BY <1>1, SMTT(30) DEF PostCall, Goto, Push
  <1>2. ASSUME NEW t \in Threads, PostDelete(t)
        PROVE  Numbered'
    BY <1>2 DEF PostDelete, Push, Return, Goto
  <1>3. ASSUME NEW x \in SUBSET timers, Take(x)
        PROVE  Numbered'
    BY <1>3 DEF Take
  <1>4. CASE Drain
    BY <1>4 DEF Drain, Deletes
  <1>5. ASSUME NEW t \in Threads, NEW o \in Objects, Lock(t, o) \/ DeleteLater(t, o) \/
               DirectDelete(t, o)
        PROVE  Numbered'
    BY <1>5 DEF Lock, RunsUserCode, Goto, TokenHeld, DeleteLater, DirectDelete, BeginDestroy
  <1>6. ASSUME NEW t \in Threads, Resolve(t) \/ Unlock(t) \/ ResolveDelete(t) \/
               FinishDestroy(t)
        PROVE  Numbered'
    BY <1>6 DEF Resolve, Goto, Unlock, Return, ResolveDelete, BeginDestroy, FinishDestroy
  <1>7. ASSUME NEW o \in Objects, StartTimer(o) \/ KillTimer(o) \/ DispatchTimer(o)
        PROVE  Numbered'
    BY <1>7 DEF StartTimer, RunsUserCode, KillTimer, DispatchTimer, LoopReady
  <1>8. ASSUME NEW e \in batch, SkipEvent(e) \/ DispatchDelete(e) \/ DispatchCall(e) \/
               DrainDelete(e)
        PROVE  Numbered'
    BY <1>8 DEF SkipEvent, LoopReady, IsNext, DispatchDelete, BeginDestroy, DispatchCall,
           DrainDelete
  <1>9. CASE Started \/ SlotReturns \/ PassDone \/ Stopped \/ DrainPassDone \/ DropDispatcher \/
           ExecReturns \/ UNCHANGED vars
    BY <1>9 DEF Started, LoopReady, SlotReturns, PassDone, Stopped, DrainPassDone,
           DropDispatcher, ExecReturns
  <1> QED BY <1>1, <1>2, <1>3, <1>4, <1>5, <1>6, <1>7, <1>8, <1>9 DEF Next, UserStep, Proceed,
         LoopStep, Dispatch

\* deleteLater() posts at most one event per object, and nothing else destroys the object first.
LEMMA OneDeleteStep ==
  ASSUME FlagsOK, CallsOK, ObjsOK, QueueOK, DirectDeletes = FALSE, Stages, Numbered, OneDelete,
         DeletedAreDead, Nests, [Next]_vars
  PROVE  OneDelete'
  <1> USE ThreadsAssumption DEF CallsOK, ObjsOK, QueueOK, Event, Holding, Deleting, Threads,
           LoopStates, Stages, Numbered, OneDelete, DeletedAreDead, Pending, vars,
           queueVars, loopVars, objVars, callVars
  <1>1. ASSUME NEW t \in Threads, NEW o \in Objects, Lock(t, o)
        PROVE  OneDelete'
    BY <1>1 DEF Lock, RunsUserCode, Goto, TokenHeld
  <1>2. ASSUME NEW t \in Threads, NEW o \in Objects, DeleteLater(t, o)
        PROVE  OneDelete'
    <2> HIDE DEF CallsOK, ObjsOK, QueueOK, Event, Holding, Deleting, Threads, LoopStates, Stages,
             Numbered, OneDelete, DeletedAreDead, Pending, vars, queueVars, loopVars,
             objVars, callVars
    <2>1. /\ deletePosted'[o]
          /\ \A p \in Objects : deletePosted[p] => deletePosted'[p]
      BY <1>2, Zenon DEF DeleteLater, FlagsOK
    <2>2. /\ UNCHANGED <<queue, batch, phase>>
          /\ phase[o] = "alive" /\ ~deletePosted[o]
          /\ \A u \in Threads : pc'[u] \in Deleting => u = t \/ (pc[u] \in Deleting /\ arg'[u] = arg[u])
          /\ arg'[t] = o
      BY <1>2 DEF DeleteLater, Goto, CallsOK, vars, queueVars, loopVars, objVars, callVars
    <2>3. \A e \in Pending : e.kind = "delete" => e.obj # o
      BY <2>2 DEF OneDelete
    <2>4. \A u \in Threads : pc[u] \in Deleting => arg[u] # o
      BY <2>2 DEF OneDelete
    <2>5. Pending' = Pending /\ \A e \in Pending : e.obj \in Objects
      BY <2>2 DEF Pending, QueueOK, Event
    <2>6. ASSUME NEW u \in Threads, pc'[u] \in Deleting
          PROVE  /\ arg'[u] \in Objects /\ deletePosted'[arg'[u]] /\ phase'[arg'[u]] = "alive"
                 /\ \A e \in Pending' : e.kind = "delete" => e.obj # arg'[u]
                 /\ \A v \in Threads : pc'[v] \in Deleting /\ arg'[v] = arg'[u] => v = u
      <3>1. CASE u = t
        BY <2>1, <2>2, <2>3, <2>4, <2>5, <3>1
      <3>2. CASE u # t
        BY <2>1, <2>2, <2>4, <2>5, <2>6, <3>2 DEF OneDelete
      <3> QED BY <3>1, <3>2
    <2>7. \A e \in Pending' : e.kind = "delete" => deletePosted'[e.obj] /\ phase'[e.obj] = "alive"
      BY <2>1, <2>2, <2>5 DEF OneDelete
    <2> QED BY <2>5, <2>6, <2>7, Zenon DEF OneDelete
  <1>3. ASSUME NEW t \in Threads, NEW o \in Objects, DirectDelete(t, o)
        PROVE  OneDelete'
    BY <1>3 DEF DirectDelete, RunsUserCode, BeginDestroy
  <1>4. ASSUME NEW t \in Threads, PostCall(t)
        PROVE  OneDelete'
    BY <1>4 DEF PostCall, Goto, Push
  <1>5. ASSUME NEW t \in Threads, ResolveDelete(t)
        PROVE  OneDelete'
    <2> HIDE DEF CallsOK, ObjsOK, QueueOK, Event, Holding, Deleting, Threads, LoopStates, Stages,
             Numbered, OneDelete, DeletedAreDead, Pending, vars, queueVars, loopVars,
             objVars, callVars
    <2>1. CASE dispatcher /\ Goto(t, "deletePosting", arg[t]) /\ UNCHANGED objVars
      <3>1. Pending' = Pending /\ UNCHANGED <<phase, deletePosted, arg>>
        BY <1>5, <2>1 DEF ResolveDelete, Goto, Pending, CallsOK, vars, queueVars, loopVars, objVars, callVars
      <3>2. \A u \in Threads : pc'[u] \in Deleting => pc[u] \in Deleting
        BY <1>5, <2>1 DEF ResolveDelete, Goto, CallsOK, Deleting
      <3> QED BY <3>1, <3>2 DEF OneDelete
    <2>2. CASE ~dispatcher /\ BeginDestroy(t, arg[t]) /\ Return(t)
      <3>1. Pending' = {} /\ UNCHANGED deletePosted
        BY <1>5, <2>2 DEF ResolveDelete, Stages, Pending, vars, queueVars, loopVars, objVars, callVars
      <3>2. \A u \in Threads : pc'[u] \in Deleting =>
              u # t /\ pc[u] \in Deleting /\ arg'[u] = arg[u]
        BY <1>5, <2>2 DEF ResolveDelete, Return, Goto, CallsOK, Deleting
      <3>3. pc[t] \in Deleting
        BY <1>5 DEF ResolveDelete, Deleting
      <3>4. \A o \in Objects : o # arg[t] => phase'[o] = phase[o]
        BY <2>2 DEF BeginDestroy, ObjsOK
      <3> QED BY <3>1, <3>2, <3>3, <3>4 DEF OneDelete
    <2> QED BY <1>5, <2>1, <2>2 DEF ResolveDelete
  <1>6. ASSUME NEW t \in Threads, PostDelete(t)
        PROVE  OneDelete'
    BY <1>6 DEF PostDelete, Push, Return, Goto
  <1>7. ASSUME NEW t \in Threads, FinishDestroy(t)
        PROVE  OneDelete'
    <2> HIDE DEF CallsOK, ObjsOK, QueueOK, Event, Holding, Deleting, Threads, LoopStates, Stages,
             Numbered, OneDelete, DeletedAreDead, Pending, vars, queueVars, loopVars,
             objVars, callVars
    <2>1. Pending' \subseteq Pending /\ UNCHANGED <<pc, arg, deletePosted>>
      BY <1>7 DEF FinishDestroy, Pending, vars, queueVars, loopVars, objVars, callVars
    <2>2. \A p \in Objects : phase[p] = "alive" => phase'[p] = "alive"
      BY <1>7, FinishFrees
    <2>3. \A e \in Pending : e.obj \in Objects
      BY DEF Pending, QueueOK, Event
    <2> QED BY <2>1, <2>2, <2>3 DEF OneDelete
  <1>8. ASSUME NEW x \in SUBSET timers, Take(x)
        PROVE  OneDelete'
    BY <1>8 DEF Take
  <1>9. ASSUME NEW e \in batch, DispatchDelete(e)
        PROVE  OneDelete'
    BY <1>9 DEF DispatchDelete, LoopReady, IsNext, BeginDestroy
  <1>10. ASSUME NEW e \in batch, DrainDelete(e)
         PROVE  OneDelete'
    BY <1>10 DEF DrainDelete, LoopReady, IsNext, BeginDestroy
  <1>11. CASE Drain
    BY <1>11 DEF Drain, Deletes
  <1>12. ASSUME NEW t \in Threads, Resolve(t) \/ Unlock(t)
         PROVE  OneDelete'
    <2> HIDE DEF CallsOK, ObjsOK, QueueOK, Event, Holding, Deleting, Threads, LoopStates, Stages,
             Numbered, OneDelete, DeletedAreDead, Pending, vars, queueVars, loopVars,
             objVars, callVars
    <2>1. UNCHANGED <<queue, batch, phase, deletePosted>>
      BY <1>12 DEF Resolve, Unlock, vars, queueVars, loopVars, objVars, callVars
    <2>2. \A u \in Threads : pc'[u] \in Deleting => pc[u] \in Deleting /\ arg'[u] = arg[u]
      BY <1>12 DEF Resolve, Goto, Unlock, Return, CallsOK, Deleting
    <2> QED BY <2>1, <2>2 DEF OneDelete, Pending
  <1>13. ASSUME NEW o \in Objects, StartTimer(o) \/ KillTimer(o) \/ DispatchTimer(o)
         PROVE  OneDelete'
    BY <1>13 DEF StartTimer, RunsUserCode, KillTimer, DispatchTimer, LoopReady
  <1>14. ASSUME NEW e \in batch, SkipEvent(e) \/ DispatchCall(e)
         PROVE  OneDelete'
    BY <1>14 DEF SkipEvent, LoopReady, IsNext, DispatchCall
  <1>15. CASE Started \/ SlotReturns \/ PassDone \/ Stopped \/ DrainPassDone \/ DropDispatcher
           \/ ExecReturns \/ UNCHANGED vars
    BY <1>15 DEF Started, LoopReady, SlotReturns, PassDone, Stopped, DrainPassDone,
           DropDispatcher, ExecReturns
  <1> QED BY <1>1, <1>2, <1>3, <1>4, <1>5, <1>6, <1>7, <1>8, <1>9, <1>10, <1>11, <1>12, <1>13,
         <1>14, <1>15 DEF Next, UserStep, Proceed, LoopStep, Dispatch

\* deletedReceivers names dead objects only.
LEMMA DeletedStep ==
  ASSUME FlagsOK, CallsOK, ObjsOK, QueueOK, DirectDeletes = FALSE, DeletedAreDead, [Next]_vars
  PROVE  DeletedAreDead'
  <1> USE ThreadsAssumption DEF CallsOK, ObjsOK, QueueOK, Event, Holding, Deleting, Threads,
           LoopStates, DeletedAreDead, vars, queueVars, loopVars, objVars, callVars
  <1>1. ASSUME NEW t \in Threads, NEW o \in Objects, DirectDelete(t, o)
        PROVE  DeletedAreDead'
    BY <1>1 DEF DirectDelete, RunsUserCode, BeginDestroy
  <1>2. ASSUME NEW t \in Threads, FinishDestroy(t)
        PROVE  DeletedAreDead'
    BY <1>2 DEF FinishDestroy
  <1>3. ASSUME NEW x \in SUBSET timers, Take(x)
        PROVE  DeletedAreDead'
    BY <1>3 DEF Take
  <1>4. ASSUME NEW e \in batch, DispatchDelete(e)
        PROVE  DeletedAreDead'
    BY <1>4 DEF DispatchDelete, LoopReady, IsNext, BeginDestroy
  <1>5. ASSUME NEW e \in batch, DrainDelete(e)
        PROVE  DeletedAreDead'
    BY <1>5 DEF DrainDelete, LoopReady, IsNext, BeginDestroy
  <1>6. ASSUME NEW t \in Threads, NEW o \in Objects, Lock(t, o) \/ DeleteLater(t, o)
        PROVE  DeletedAreDead'
    BY <1>6 DEF Lock, RunsUserCode, Goto, TokenHeld, DeleteLater
  <1>7. ASSUME NEW t \in Threads, Resolve(t) \/ PostCall(t) \/ Unlock(t) \/ ResolveDelete(t) \/
               PostDelete(t)
        PROVE  DeletedAreDead'
    BY <1>7 DEF Resolve, Goto, PostCall, Push, Unlock, Return, ResolveDelete, BeginDestroy,
           PostDelete
  <1>8. ASSUME NEW o \in Objects, StartTimer(o) \/ KillTimer(o) \/ DispatchTimer(o)
        PROVE  DeletedAreDead'
    BY <1>8 DEF StartTimer, RunsUserCode, KillTimer, DispatchTimer, LoopReady
  <1>9. ASSUME NEW e \in batch, SkipEvent(e) \/ DispatchCall(e)
        PROVE  DeletedAreDead'
    BY <1>9 DEF SkipEvent, LoopReady, IsNext, DispatchCall
  <1>10. CASE Started \/ SlotReturns \/ PassDone \/ Stopped \/ Drain \/ DrainPassDone \/
           DropDispatcher \/ ExecReturns \/ UNCHANGED vars
    BY <1>10 DEF Started, LoopReady, SlotReturns, PassDone, Stopped, Drain, Deletes,
           DrainPassDone, DropDispatcher, ExecReturns
  <1> QED BY <1>1, <1>2, <1>3, <1>4, <1>5, <1>6, <1>7, <1>8, <1>9, <1>10 DEF Next, UserStep,
         Proceed, LoopStep, Dispatch

\* A deferred delete leaves the queue only to be taken, and the batch only to be carried out.
LEMMA OwedStep ==
  ASSUME FlagsOK, CallsOK, ObjsOK, QueueOK, DirectDeletes = FALSE, Stages, OneDelete,
         DeletedAreDead, OwedPending, [Next]_vars
  PROVE  OwedPending'
  <1> USE ThreadsAssumption DEF CallsOK, ObjsOK, QueueOK, Event, Holding, Deleting, Threads,
           LoopStates, Stages, OneDelete, DeletedAreDead, OwedPending, Pending, StillLooks,
           vars, queueVars, loopVars, objVars, callVars
  <1>1. ASSUME NEW t \in Threads, NEW o \in Objects, DirectDelete(t, o)
        PROVE  OwedPending'
    BY <1>1 DEF DirectDelete, RunsUserCode, BeginDestroy
  <1>2. ASSUME NEW t \in Threads, ResolveDelete(t)
        PROVE  OwedPending'
    BY <1>2 DEF ResolveDelete, BeginDestroy, Return, Goto
  <1>3. ASSUME NEW t \in Threads, PostDelete(t)
        PROVE  OwedPending'
    <2> HIDE DEF CallsOK, ObjsOK, QueueOK, Event, Holding, Deleting, Threads, LoopStates, Stages,
             OneDelete, DeletedAreDead, OwedPending, Pending, StillLooks, vars, queueVars,
             loopVars, objVars, callVars
    <2>1. owed' = owed \/ (StillLooks /\ owed' = owed \cup {arg[t]})
      BY <1>3 DEF PostDelete
    <2>2. StillLooks => dispatcher
      BY DEF Stages, StillLooks
    <2>3. queue \subseteq queue' /\ UNCHANGED <<batch, phase, loop>>
      BY <1>3 DEF PostDelete, Push, vars, queueVars, loopVars, objVars, callVars
    <2>4. dispatcher => [seq |-> posts, kind |-> "delete", obj |-> arg[t]] \in queue'
      BY <1>3 DEF PostDelete, Push
    <2>5. StillLooks' = StillLooks /\ Pending \subseteq Pending'
      BY <2>3 DEF StillLooks, Pending
    <2>6. ASSUME NEW o \in owed', phase'[o] = "alive"
          PROVE  StillLooks' /\ \E e \in Pending' : e.kind = "delete" /\ e.obj = o
      <3>1. CASE o \in owed
        BY <2>3, <2>5, <2>6, <3>1 DEF OwedPending
      <3>2. CASE StillLooks /\ o = arg[t]
        BY <2>2, <2>4, <2>5, <3>2 DEF Pending
      <3> QED BY <2>1, <3>1, <3>2
    <2> QED BY <2>6 DEF OwedPending
  <1>4. ASSUME NEW t \in Threads, FinishDestroy(t)
        PROVE  OwedPending'
    BY <1>4 DEF FinishDestroy
  <1>5. ASSUME NEW x \in SUBSET timers, Take(x)
        PROVE  OwedPending'
    BY <1>5 DEF Take
  <1>6. ASSUME NEW e \in batch, SkipEvent(e)
        PROVE  OwedPending'
    BY <1>6 DEF SkipEvent, LoopReady, IsNext
  <1>7. ASSUME NEW e \in batch, DispatchDelete(e)
        PROVE  OwedPending'
    BY <1>7 DEF DispatchDelete, LoopReady, IsNext, BeginDestroy
  <1>8. ASSUME NEW e \in batch, DrainDelete(e)
        PROVE  OwedPending'
    BY <1>8 DEF DrainDelete, LoopReady, IsNext, BeginDestroy
  <1>9. CASE Drain
    BY <1>9 DEF Drain, Deletes
  <1>10. CASE DropDispatcher
    BY <1>10 DEF DropDispatcher
  <1>11. ASSUME NEW t \in Threads, NEW o \in Objects, Lock(t, o) \/ DeleteLater(t, o)
         PROVE  OwedPending'
    BY <1>11 DEF Lock, RunsUserCode, Goto, TokenHeld, DeleteLater
  <1>12. ASSUME NEW t \in Threads, Resolve(t) \/ PostCall(t) \/ Unlock(t)
         PROVE  OwedPending'
    BY <1>12 DEF Resolve, Goto, PostCall, Push, Unlock, Return
  <1>13. ASSUME NEW o \in Objects, StartTimer(o) \/ KillTimer(o) \/ DispatchTimer(o)
         PROVE  OwedPending'
    BY <1>13 DEF StartTimer, RunsUserCode, KillTimer, DispatchTimer, LoopReady
  <1>14. ASSUME NEW e \in batch, DispatchCall(e)
         PROVE  OwedPending'
    BY <1>14 DEF DispatchCall, LoopReady, IsNext
  <1>15. CASE Started \/ SlotReturns \/ PassDone \/ Stopped \/ DrainPassDone \/ ExecReturns \/
           UNCHANGED vars
    BY <1>15 DEF Started, LoopReady, SlotReturns, PassDone, Stopped, DrainPassDone, ExecReturns
  <1> QED BY <1>1, <1>2, <1>3, <1>4, <1>5, <1>6, <1>7, <1>8, <1>9, <1>10, <1>11, <1>12, <1>13,
         <1>14, <1>15 DEF Next, UserStep, Proceed, LoopStep, Dispatch

\* A deferred delete enters the queue and the books in one step.
LEMMA PendingStep ==
  ASSUME CallsOK, QueueOK, DirectDeletes = FALSE, Stages, PendingOwed, [Next]_vars
  PROVE  PendingOwed'
  <1> USE ThreadsAssumption DEF PendingOwed, Pending, StillLooks, vars, queueVars, loopVars,
           objVars, callVars
  <1>1. ASSUME NEW t \in Threads, NEW o \in Objects, Lock(t, o) \/ DeleteLater(t, o) \/
               DirectDelete(t, o)
        PROVE  PendingOwed'
    BY <1>1 DEF Lock, DeleteLater, DirectDelete
  <1>2. ASSUME NEW t \in Threads, PostCall(t)
        PROVE  PendingOwed'
    BY <1>2 DEF PostCall, Push
  <1>3. ASSUME NEW t \in Threads, PostDelete(t)
        PROVE  PendingOwed'
    BY <1>3 DEF PostDelete, Push
  <1>4. ASSUME NEW t \in Threads, Resolve(t) \/ Unlock(t) \/ ResolveDelete(t) \/ FinishDestroy(t)
        PROVE  PendingOwed'
    BY <1>4 DEF Resolve, Unlock, ResolveDelete, FinishDestroy
  <1>5. ASSUME NEW o \in Objects, StartTimer(o) \/ KillTimer(o) \/ DispatchTimer(o)
        PROVE  PendingOwed'
    BY <1>5 DEF StartTimer, KillTimer, DispatchTimer
  <1>6. ASSUME NEW x \in SUBSET timers, Take(x)
        PROVE  PendingOwed'
    BY <1>6 DEF Take
  <1>7. ASSUME NEW e \in batch, SkipEvent(e) \/ DispatchDelete(e) \/ DispatchCall(e) \/
               DrainDelete(e)
        PROVE  PendingOwed'
    BY <1>7 DEF SkipEvent, DispatchDelete, DispatchCall, DrainDelete
  <1>8. CASE Drain
    BY <1>8 DEF Drain, Deletes
  <1>9. CASE Started \/ SlotReturns \/ PassDone \/ Stopped \/ DrainPassDone \/
           DropDispatcher \/ ExecReturns \/ UNCHANGED vars
    BY <1>9 DEF Started, SlotReturns, PassDone, Stopped, DrainPassDone, DropDispatcher,
           ExecReturns
  <1> QED BY <1>1, <1>2, <1>3, <1>4, <1>5, <1>6, <1>7, <1>8, <1>9 DEF Next, UserStep, Proceed,
         LoopStep, Dispatch

\* ~Object() takes the timers of the object with it; what a pass had already collected is skipped.
LEMMA TimersStep ==
  ASSUME FlagsOK, CallsOK, ObjsOK, QueueOK, DirectDeletes = FALSE, Stages, DeletedAreDead,
         TimersLive, Nests, OneDelete, [Next]_vars
  PROVE  TimersLive'
  <1> USE ThreadsAssumption DEF CallsOK, ObjsOK, QueueOK, Event, Holding, Deleting, Threads,
           LoopStates, Stages, DeletedAreDead, TimersLive, Nests, OneDelete, vars,
           queueVars, loopVars, objVars, callVars
  <1>1. ASSUME NEW t \in Threads, NEW o \in Objects, DirectDelete(t, o)
        PROVE  TimersLive'
    BY <1>1 DEF DirectDelete, RunsUserCode, BeginDestroy
  <1>2. ASSUME NEW t \in Threads, ResolveDelete(t)
        PROVE  TimersLive'
    BY <1>2 DEF ResolveDelete, BeginDestroy, Return, Goto
  <1>3. ASSUME NEW t \in Threads, FinishDestroy(t)
        PROVE  TimersLive'
    <2> HIDE DEF CallsOK, ObjsOK, QueueOK, Event, Holding, Deleting, Threads, LoopStates, Stages,
             DeletedAreDead, TimersLive, Nests, OneDelete, vars, queueVars, loopVars,
             objVars, callVars
    <2> DEFINE o == Head(nest[t])
    <2>1. nest[t] \in Seq(Objects) /\ nest[t] # <<>> /\ o \in Objects
      BY <1>3 DEF FinishDestroy, ObjsOK
    <2>2. \A p \in Objects : p # o => phase'[p] = phase[p]
      BY <1>3 DEF FinishDestroy, ObjsOK
    <2>3. phase[o] # "alive"
      BY <2>1 DEF Nests
    <2>4. UNCHANGED <<timerBatch, deleted>>
      BY <1>3 DEF FinishDestroy, vars, queueVars, loopVars, objVars, callVars
    <2>5. ASSUME NEW p \in timers'
          PROVE  phase'[p] = "alive" \/ \E i \in DOMAIN nest'[Loop] : nest'[Loop][i] = p
      <3>1. p \in timers /\ p # o /\ loop # "finished"
        BY <1>3, <2>5 DEF FinishDestroy, Stages
      <3>2. t = Loop /\ Loop \in Threads
        BY <1>3, <3>1, ThreadsAssumption DEF FinishDestroy, Stages, Threads
      <3>3. nest'[Loop] = Tail(nest[Loop])
        BY <1>3, <3>2 DEF FinishDestroy, ObjsOK
      <3>4. ASSUME NEW i \in DOMAIN nest[Loop], nest[Loop][i] = p
            PROVE  \E j \in DOMAIN nest'[Loop] : nest'[Loop][j] = p
        <4>1. i - 1 \in DOMAIN Tail(nest[Loop]) /\ Tail(nest[Loop])[i - 1] = p
          BY <2>1, <3>1, <3>2, <3>4, SMTT(30)
        <4> QED BY <4>1, <3>3
      <3> QED BY <2>2, <3>1, <3>4 DEF TimersLive, QueueOK
    <2>6. ASSUME NEW p \in timerBatch PROVE phase'[p] = "alive" \/ p \in deleted
      BY <2>2, <2>3 DEF TimersLive, QueueOK
    <2> QED BY <2>4, <2>5, <2>6, Zenon DEF TimersLive
  <1>4. ASSUME NEW o \in Objects, StartTimer(o)
        PROVE  TimersLive'
    BY <1>4 DEF StartTimer, RunsUserCode
  <1>5. ASSUME NEW x \in SUBSET timers, Take(x)
        PROVE  TimersLive'
    BY <1>5 DEF Take
  <1>6. ASSUME NEW e \in batch, DispatchDelete(e)
        PROVE  TimersLive'
    BY <1>6 DEF DispatchDelete, LoopReady, IsNext, BeginDestroy
  <1>7. ASSUME NEW e \in batch, DrainDelete(e)
        PROVE  TimersLive'
    BY <1>7 DEF DrainDelete, LoopReady, IsNext, BeginDestroy
  <1>8. ASSUME NEW o \in Objects, DispatchTimer(o)
        PROVE  TimersLive'
    BY <1>8 DEF DispatchTimer, LoopReady
  <1>9. CASE DropDispatcher
    BY <1>9 DEF DropDispatcher
  <1>10. ASSUME NEW t \in Threads, NEW o \in Objects, Lock(t, o) \/ DeleteLater(t, o)
         PROVE  TimersLive'
    BY <1>10 DEF Lock, RunsUserCode, Goto, TokenHeld, DeleteLater
  <1>11. ASSUME NEW t \in Threads, Resolve(t) \/ PostCall(t) \/ Unlock(t) \/ PostDelete(t)
         PROVE  TimersLive'
    BY <1>11 DEF Resolve, Goto, PostCall, Push, Unlock, Return, PostDelete
  <1>12. ASSUME NEW o \in Objects, KillTimer(o)
         PROVE  TimersLive'
    BY <1>12 DEF KillTimer, RunsUserCode
  <1>13. ASSUME NEW e \in batch, SkipEvent(e) \/ DispatchCall(e)
         PROVE  TimersLive'
    BY <1>13 DEF SkipEvent, LoopReady, IsNext, DispatchCall
  <1>14. CASE Started \/ SlotReturns \/ PassDone \/ Stopped \/ Drain \/ DrainPassDone \/
           ExecReturns \/ UNCHANGED vars
    BY <1>14 DEF Started, LoopReady, SlotReturns, PassDone, Stopped, Drain, Deletes,
           DrainPassDone, ExecReturns
  <1> QED BY <1>1, <1>2, <1>3, <1>4, <1>5, <1>6, <1>7, <1>8, <1>9, <1>10, <1>11, <1>12, <1>13,
         <1>14 DEF Next, UserStep, Proceed, LoopStep, Dispatch

\* A token leaves Loop only with a wrapper that a client runs.
LEMMA TokensStep ==
  ASSUME FlagsOK, CallsOK, ObjsOK, QueueOK, DirectDeletes = FALSE, TokensAtHome, [Next]_vars
  PROVE  TokensAtHome'
  <1> USE ThreadsAssumption DEF CallsOK, ObjsOK, QueueOK, Event, Holding, Deleting, Threads,
           LoopStates, TokensAtHome, vars, queueVars, loopVars, objVars, callVars
  <1>1. ASSUME NEW t \in Threads, NEW o \in Objects, Lock(t, o)
        PROVE  TokensAtHome'
    BY <1>1 DEF Lock, RunsUserCode, Goto, TokenHeld
  <1>2. ASSUME NEW t \in Threads, NEW o \in Objects, DeleteLater(t, o)
        PROVE  TokensAtHome'
    BY <1>2 DEF DeleteLater, RunsUserCode, Goto
  <1>3. ASSUME NEW t \in Threads, NEW o \in Objects, DirectDelete(t, o)
        PROVE  TokensAtHome'
    BY <1>3 DEF DirectDelete, RunsUserCode, BeginDestroy
  <1>4. ASSUME NEW t \in Threads, Resolve(t) \/ PostCall(t) \/ Unlock(t) \/ ResolveDelete(t) \/
               PostDelete(t) \/ FinishDestroy(t)
        PROVE  TokensAtHome'
    BY <1>4 DEF Resolve, Goto, PostCall, Push, Unlock, Return, ResolveDelete, BeginDestroy,
           PostDelete, FinishDestroy
  <1>5. ASSUME NEW o \in Objects, StartTimer(o) \/ KillTimer(o) \/ DispatchTimer(o)
        PROVE  TokensAtHome'
    BY <1>5 DEF StartTimer, RunsUserCode, KillTimer, DispatchTimer, LoopReady
  <1>6. ASSUME NEW x \in SUBSET timers, Take(x)
        PROVE  TokensAtHome'
    BY <1>6 DEF Take
  <1>7. ASSUME NEW e \in batch, SkipEvent(e) \/ DispatchDelete(e) \/ DispatchCall(e) \/
               DrainDelete(e)
        PROVE  TokensAtHome'
    BY <1>7 DEF SkipEvent, LoopReady, IsNext, DispatchDelete, BeginDestroy, DispatchCall,
           DrainDelete
  <1>8. CASE Started \/ SlotReturns \/ PassDone \/ Stopped \/ Drain \/ DrainPassDone \/
           DropDispatcher \/ ExecReturns \/ UNCHANGED vars
    BY <1>8 DEF Started, LoopReady, SlotReturns, PassDone, Stopped, Drain, Deletes,
           DrainPassDone, DropDispatcher, ExecReturns
  <1> QED BY <1>1, <1>2, <1>3, <1>4, <1>5, <1>6, <1>7, <1>8 DEF Next, UserStep, Proceed,
         LoopStep, Dispatch

\* The invariant of the deferred discipline: nothing on Loop is destroyed except by a deferred
\* delete, by deleteLater() without a dispatcher, or by its owner after the loop has finished.
THEOREM LifeInvariant ==
  ASSUME DirectDeletes = FALSE PROVE Safety => [](TypeInv /\ LifeInv)
  <1>1. Init => TypeInv
    <2> SUFFICES ASSUME Init PROVE TypeInv
      OBVIOUS
    <2>1. FlagsOK
      BY Zenon DEF Init, FlagsOK
    <2>2. CallsOK /\ ObjsOK /\ QueueOK
      BY MaxCallsAssumption DEF Init, CallsOK, ObjsOK, QueueOK, LoopStates
    <2> QED BY <2>1, <2>2 DEF TypeInv
  <1>2. Init => LifeInv
    <2> SUFFICES ASSUME Init PROVE LifeInv
      OBVIOUS
    <2>1. DeathsCounted
      BY DEF Init, DeathsCounted
    <2>2. Nests /\ SlotsClear
      BY DEF Init, Nests, SlotsClear, Threads
    <2>3. Numbered /\ DeletedAreDead /\ OwedPending /\ PendingOwed /\ TimersLive /\ TokensAtHome
      BY DEF Init, PendingOwed, Numbered, DeletedAreDead, OwedPending, TimersLive, Pending,
             TokensAtHome, Holding, Threads
    <2>4. Stages /\ OneDelete
      BY DEF Init, Stages, OneDelete, Pending, Deleting, Threads
    <2> QED BY <2>1, <2>2, <2>3, <2>4 DEF LifeInv
  <1>3. TypeInv /\ [Next]_vars => TypeInv'
    BY FlagsStep, CallsStep, ObjsStep, QueueStep, Zenon DEF TypeInv
  <1>4. TypeInv /\ LifeInv /\ [Next]_vars => LifeInv'
    BY DeathsStep, NestsStep, StagesStep, SlotsStep, NumberedStep, OneDeleteStep, DeletedStep,
       OwedStep, PendingStep, TimersStep, TokensStep, Zenon DEF TypeInv, LifeInv
  <1> QED BY <1>1, <1>2, <1>3, <1>4, PTL DEF Safety

\* ~Object() is entered at most once per object, however many threads call deleteLater() and
\* however the passes, the destructors and the final drain interleave, if slots use deleteLater().
THEOREM ObjectsDieOnce ==
  ASSUME DirectDeletes = FALSE PROVE Safety => []DestroyedOnce
  <1>1. TypeInv /\ LifeInv => DestroyedOnce
    <2> SUFFICES ASSUME LifeInv, NEW o \in Objects PROVE deaths[o] <= 1
      BY DEF DestroyedOnce
    <2>1. deaths[o] = IF phase[o] = "alive" THEN 0 ELSE 1
      BY Zenon DEF LifeInv, DeathsCounted
    <2> QED BY <2>1
  <1> QED BY <1>1, LifeInvariant, PTL

\* The object under a deleteLater() in progress is alive until its own event is queued, if slots
\* use deleteLater() and never delete.
THEOREM DeleteLaterIsSafe ==
  ASSUME DirectDeletes = FALSE PROVE Safety => []DeleteLaterOnLive
  <1>1. TypeInv /\ LifeInv => DeleteLaterOnLive
    BY DEF LifeInv, OneDelete, DeleteLaterOnLive
  <1> QED BY <1>1, LifeInvariant, PTL

\* processDeferredDeletes() leaves no deferred delete behind that was queued before its last
\* look at the queue: if slots use deleteLater(), a thread that has finished owes no destruction.
THEOREM StoppedLoopIsClean ==
  ASSUME DirectDeletes = FALSE PROVE Safety => []StoppedLoopOwesNothing
  <1>1. TypeInv /\ LifeInv => StoppedLoopOwesNothing
    BY DEF LifeInv, OwedPending, StillLooks, StoppedLoopOwesNothing
  <1> QED BY <1>1, LifeInvariant, PTL

\* If slots use deleteLater(), deletedReceivers is enough to keep collected timer events away from
\* dead objects.
THEOREM TimersReachTheLiving ==
  ASSUME DirectDeletes = FALSE PROVE Safety => TimersReachLive
  <1>1. TypeInv /\ LifeInv /\ [Next]_vars
          => (loop = "dispatch" /\ loop' = "timerSlot" => phase[slotOf'] = "alive")
    <2> SUFFICES ASSUME TypeInv, LifeInv, Next, loop = "dispatch", loop' = "timerSlot"
                 PROVE  phase[slotOf'] = "alive"
      BY DEF vars, loopVars
    <2>1. \E o \in Objects : DispatchTimer(o) /\ o \notin deleted /\ slotOf' = o
      BY DEF Next, UserStep, Proceed, LoopStep, Dispatch, Lock, DeleteLater, DirectDelete,
         Resolve, PostCall, Unlock, ResolveDelete, PostDelete, FinishDestroy, StartTimer,
         KillTimer, Started, Take, SkipEvent, DispatchDelete, DispatchCall, DrainDelete,
         DispatchTimer, SlotReturns, PassDone, Stopped, Drain, DrainPassDone, DropDispatcher,
         ExecReturns, loopVars
    <2> QED BY <2>1 DEF DispatchTimer, LifeInv, TimersLive
  <1> QED BY <1>1, LifeInvariant, PTL DEF TimersReachLive, Safety

\* A token locked on delivery is that of a live object: nobody else can be holding it.
LEMMA TokenOfTheLiving ==
  ASSUME TypeInv, LifeInv, ClientsEmit = FALSE, NEW e \in batch, DispatchCall(e), TokenHeld(e.obj)
  PROVE  e.obj \in Objects /\ phase[e.obj] = "alive"
  <1>1. \A t \in Threads : pc[t] \notin Holding
    BY DEF DispatchCall, LoopReady, Holding, Threads, LifeInv, TokensAtHome
  <1>2. life[e.obj]
    BY <1>1, Zenon DEF TokenHeld, DispatchCall
  <1>3. e.obj \in Objects
    BY DEF TypeInv, QueueOK, Event
  <1> QED BY <1>2, <1>3, Zenon DEF LifeInv, DeathsCounted

\* While only Loop emits and slots use deleteLater(), the token looked at again on delivery keeps
\* queued slots away from dead objects.
THEOREM SlotsReachTheLiving ==
  ASSUME DirectDeletes = FALSE, ClientsEmit = FALSE PROVE Safety => SlotsReachLive
  <1>1. TypeInv /\ LifeInv /\ [Next]_vars
          => (loop = "dispatch" /\ loop' = "slot" => phase[slotOf'] = "alive")
    <2> SUFFICES ASSUME TypeInv, LifeInv, Next, loop = "dispatch", loop' = "slot"
                 PROVE  phase[slotOf'] = "alive"
      BY DEF vars, loopVars
    <2>1. PICK e \in batch : DispatchCall(e) /\ TokenHeld(e.obj) /\ slotOf' = e.obj
      BY DEF Next, UserStep, Proceed, LoopStep, Dispatch, Lock, DeleteLater, DirectDelete,
         Resolve, PostCall, Unlock, ResolveDelete, PostDelete, FinishDestroy, StartTimer,
         KillTimer, Started, Take, SkipEvent, DispatchDelete, DispatchCall, DrainDelete,
         DispatchTimer, SlotReturns, PassDone, Stopped, Drain, DrainPassDone, DropDispatcher,
         ExecReturns, loopVars
    <2> QED BY <2>1, TokenOfTheLiving
  <1> QED BY <1>1, LifeInvariant, PTL DEF SlotsReachLive, Safety
-----------------------------------------------------------------------------
(* ObjectLifetime implements ObjectLives.                                  *)

\* ~Object() begins with no slot running; while the loop looks, on an object that is owed it.
LEMMA DieMaps ==
  ASSUME NEW t \in Threads, NEW o \in Objects, BeginDestroy(t, o), phase[o] = "alive",
         slotOf = NoObject, StillLooks => o \in owed, UNCHANGED <<owed, slotOf, loop>>
  PROVE  Lives!Die(o)
  BY DEF BeginDestroy, Lives!Die, StillLooks

\* What threads do inside calls: they ask, and they free; ~Object() begins only once the loop
\* has gone.
LEMMA CallsMap ==
  ASSUME TypeInv, LifeInv, DirectDeletes = FALSE, NEW t \in Threads, UserStep(t) \/ Proceed(t)
  PROVE  Lives!Next \/ UNCHANGED Lives!vars
  <1> USE DEF Lives!vars, StillLooks, queueVars, loopVars, objVars, callVars
  <1>1. loop = "finished" => slotOf = NoObject /\ ~StillLooks
    BY DEF LifeInv, SlotsClear
  <1>2. ASSUME NEW o \in Objects, Lock(t, o) \/ DeleteLater(t, o)
        PROVE  UNCHANGED Lives!vars
    BY <1>2 DEF Lock, DeleteLater
  <1>3. ASSUME NEW o \in Objects, DirectDelete(t, o)
        PROVE  Lives!Die(o)
    <2>1. loop = "finished" /\ phase[o] = "alive" /\ BeginDestroy(t, o)
      BY <1>3 DEF DirectDelete
    <2>2. UNCHANGED <<owed, slotOf, loop>>
      BY <1>3 DEF DirectDelete
    <2> QED BY <1>1, <2>1, <2>2, DieMaps
  <1>4. CASE Resolve(t) \/ PostCall(t) \/ Unlock(t)
    BY <1>4 DEF Resolve, PostCall, Unlock
  <1>5. CASE ResolveDelete(t)
    <2>1. arg[t] \in Objects /\ phase[arg[t]] = "alive"
      BY <1>5 DEF ResolveDelete, LifeInv, OneDelete, Deleting
    <2>2. UNCHANGED <<owed, slotOf, loop>>
      BY <1>5 DEF ResolveDelete
    <2>3. CASE ~dispatcher /\ BeginDestroy(t, arg[t])
      <3>1. loop = "finished"
        BY <2>3 DEF LifeInv, Stages
      <3>2. Lives!Die(arg[t])
        BY <1>1, <2>1, <2>2, <2>3, <3>1, DieMaps
      <3> QED BY <2>1, <3>2 DEF Lives!Next
    <2>4. CASE UNCHANGED objVars
      BY <2>2, <2>4
    <2> QED BY <1>5, <2>3, <2>4 DEF ResolveDelete
  <1>6. CASE PostDelete(t)
    <2>1. /\ arg[t] \in Objects /\ phase[arg[t]] = "alive"
          /\ \A e \in Pending : e.kind = "delete" => e.obj # arg[t]
      BY <1>6 DEF PostDelete, LifeInv, OneDelete, Deleting
    <2>2. arg[t] \notin owed
      BY <2>1, Zenon DEF LifeInv, OwedPending
    <2>3. UNCHANGED <<phase, slotOf, loop>>
      BY <1>6 DEF PostDelete
    <2>4. CASE StillLooks /\ owed' = owed \cup {arg[t]}
      <3>1. Lives!Ask(arg[t])
        BY <2>1, <2>2, <2>3, <2>4 DEF Lives!Ask
      <3> QED BY <2>1, <3>1 DEF Lives!Next
    <2>5. CASE owed' = owed
      BY <2>3, <2>5
    <2> QED BY <1>6, <2>4, <2>5 DEF PostDelete
  <1>7. CASE FinishDestroy(t)
    <2>1. /\ Head(nest[t]) \in Objects /\ phase[Head(nest[t])] = "destroying"
          /\ phase' = [phase EXCEPT ![Head(nest[t])] = "freed"]
      BY <1>7, FinishFrees DEF TypeInv, LifeInv
    <2>2. UNCHANGED <<owed, slotOf, loop>>
      BY <1>7 DEF FinishDestroy
    <2>3. Lives!Free(Head(nest[t]))
      BY <2>1, <2>2 DEF Lives!Free
    <2> QED BY <2>1, <2>3 DEF Lives!Next
  <1> QED BY <1>2, <1>3, <1>4, <1>5, <1>6, <1>7 DEF UserStep, Proceed, Lives!Next

\* The drain that finds nothing has nothing left to do: no object is dying, and none is owed.
LEMMA DrainMaps ==
  ASSUME TypeInv, LifeInv, Drain
  PROVE  Lives!Close \/ UNCHANGED Lives!vars
  <1> USE DEF Lives!vars, StillLooks, loopVars, objVars
  <1>1. CASE Deletes # {}
    BY <1>1 DEF Drain
  <1>2. CASE Deletes = {}
    <2>1. slotOf = NoObject /\ \A t \in Threads : nest[t] = <<>>
      BY DEF Drain, LifeInv, SlotsClear, Stages, Threads
    <2>2. ASSUME NEW o \in Objects, phase[o] = "destroying"
          PROVE  FALSE
      <3>1. PICK t \in Threads : \E i \in DOMAIN nest[t] : nest[t][i] = o
        BY <2>2, Zenon DEF LifeInv, Nests
      <3>2. nest[t] = <<>> /\ DOMAIN <<>> = {}
        BY <2>1
      <3> QED BY <3>1, <3>2
    <2>3. \A e \in Pending : e.kind # "delete"
      BY <1>2 DEF Deletes, Pending, Drain, LifeInv, Stages
    <2>4. \A o \in owed : o \in Objects /\ phase[o] # "alive"
      BY <2>3, Zenon DEF LifeInv, OwedPending, TypeInv, QueueOK
    <2>5. \A o \in owed : phase[o] = "freed"
      BY <2>2, <2>4 DEF TypeInv, ObjsOK
    <2> QED BY <1>2, <2>1, <2>5 DEF Drain, Lives!Close
  <1> QED BY <1>1, <1>2

\* What the loop does: slots are entered and left, ~Object() begins on what is owed.
LEMMA LoopMaps ==
  ASSUME TypeInv, LifeInv, DirectDeletes = FALSE, ClientsEmit = FALSE, LoopStep
  PROVE  Lives!Next \/ UNCHANGED Lives!vars
  <1> USE DEF Lives!vars, StillLooks, queueVars, loopVars, objVars, callVars
  <1>1. Loop \in Threads /\ (loop \in {"dispatch", "draining"} => slotOf = NoObject)
    BY DEF Threads, LifeInv, SlotsClear
  <1>2. ASSUME NEW e \in batch
        PROVE  /\ e.obj \in Objects
               /\ e.kind = "delete" => phase[e.obj] = "alive" /\ (StillLooks => e.obj \in owed)
    BY DEF TypeInv, QueueOK, Event, LifeInv, OneDelete, PendingOwed, Pending
  <1>3. ASSUME NEW e \in batch, SkipEvent(e)
        PROVE  UNCHANGED Lives!vars
    BY <1>3 DEF SkipEvent
  <1>4. ASSUME NEW e \in batch, DispatchDelete(e)
        PROVE  Lives!Die(e.obj)
    <2>1. BeginDestroy(Loop, e.obj) /\ e.kind = "delete" /\ loop = "dispatch"
      BY <1>4 DEF DispatchDelete
    <2>2. UNCHANGED <<owed, slotOf, loop>>
      BY <1>4 DEF DispatchDelete
    <2> QED BY <1>1, <1>2, <2>1, <2>2, DieMaps
  <1>5. ASSUME NEW e \in batch, DispatchCall(e)
        PROVE  Lives!Enter(e.obj) \/ UNCHANGED Lives!vars
    <2>1. UNCHANGED <<phase, owed>> /\ loop = "dispatch"
      BY <1>5 DEF DispatchCall
    <2>2. CASE TokenHeld(e.obj) /\ loop' = "slot" /\ slotOf' = e.obj
      <3>1. phase[e.obj] = "alive"
        BY <1>5, <2>2, TokenOfTheLiving
      <3> QED BY <1>1, <2>1, <2>2, <3>1 DEF Lives!Enter
    <2>3. CASE UNCHANGED <<loop, slotOf>>
      BY <2>1, <2>3
    <2> QED BY <1>5, <2>2, <2>3 DEF DispatchCall
  <1>6. ASSUME NEW e \in batch, DrainDelete(e)
        PROVE  Lives!Die(e.obj) \/ UNCHANGED Lives!vars
    <2>1. loop = "draining" /\ e.kind = "delete"
      BY <1>6 DEF DrainDelete, LifeInv, Stages
    <2>2. UNCHANGED <<owed, slotOf, loop>>
      BY <1>6 DEF DrainDelete
    <2>3. CASE BeginDestroy(Loop, e.obj)
      BY <1>1, <1>2, <2>1, <2>2, <2>3, DieMaps
    <2>4. CASE UNCHANGED objVars
      BY <2>2, <2>4
    <2> QED BY <1>6, <2>3, <2>4 DEF DrainDelete
  <1>7. ASSUME NEW o \in Objects, DispatchTimer(o)
        PROVE  Lives!Enter(o) \/ UNCHANGED Lives!vars
    <2>1. UNCHANGED <<phase, owed>> /\ loop = "dispatch"
      BY <1>7 DEF DispatchTimer
    <2>2. CASE o \notin deleted /\ loop' = "timerSlot" /\ slotOf' = o
      <3>1. phase[o] = "alive"
        BY <1>7, <2>2 DEF DispatchTimer, LifeInv, TimersLive
      <3> QED BY <1>1, <2>1, <2>2, <3>1 DEF Lives!Enter
    <2>3. CASE UNCHANGED <<loop, slotOf>>
      BY <2>1, <2>3
    <2> QED BY <1>7, <2>2, <2>3 DEF DispatchTimer
  <1>8. CASE SlotReturns
    <2>1. slotOf # NoObject
      BY <1>8 DEF SlotReturns, LifeInv, SlotsClear
    <2>2. Lives!Leave
      BY <1>8, <2>1 DEF SlotReturns, Lives!Leave
    <2> QED BY <2>2 DEF Lives!Next
  <1>9. ASSUME NEW x \in SUBSET timers, Take(x)
        PROVE  UNCHANGED Lives!vars
    BY <1>9 DEF Take
  <1>10. CASE Started \/ PassDone \/ Stopped \/ DrainPassDone \/ DropDispatcher
    BY <1>10 DEF Started, PassDone, Stopped, DrainPassDone, DropDispatcher
  <1>11. CASE Drain
    BY <1>11, DrainMaps DEF Lives!Next
  <1> QED BY <1>2, <1>3, <1>4, <1>5, <1>6, <1>7, <1>8, <1>9, <1>10, <1>11 DEF LoopStep, Dispatch,
         Lives!Next

\* Whatever threads post, slots do and destructors ask for, an object lives as ObjectLives says,
\* as long as slots use deleteLater() and other threads do not emit.
THEOREM LivesAreKept ==
  ASSUME DirectDeletes = FALSE, ClientsEmit = FALSE PROVE Safety => ImplementsLives
  <1>1. Init => Lives!Init
    BY DEF Init, Lives!Init, StillLooks
  <1>2. TypeInv /\ LifeInv /\ [Next]_vars => [Lives!Next]_(Lives!vars)
    <2> SUFFICES ASSUME TypeInv, LifeInv, [Next]_vars
                 PROVE  Lives!Next \/ UNCHANGED Lives!vars
      OBVIOUS
    <2>1. ASSUME NEW o \in Objects, StartTimer(o) \/ KillTimer(o)
          PROVE  UNCHANGED Lives!vars
      BY <2>1 DEF StartTimer, KillTimer, Lives!vars, StillLooks, loopVars, objVars
    <2>2. CASE ExecReturns \/ UNCHANGED vars
      BY <2>2 DEF ExecReturns, vars, Lives!vars, StillLooks, loopVars, objVars
    <2> QED BY <2>1, <2>2, CallsMap, LoopMaps DEF Next
  <1> QED BY <1>1, <1>2, LifeInvariant, PTL DEF Safety, ImplementsLives, Lives!Safety
=============================================================================
