-------------------------- MODULE CallLaterProofs --------------------------
(***************************************************************************)
(* What is proved of CallLater for every set of threads, contexts and      *)
(* slots and every bound: that calls collapse into one metacall and the    *)
(* last one wins, runs and deaths of the thread included; and that no      *)
(* entry of the registry is forgotten before the thread drops a dispatcher.*)
(***************************************************************************)
EXTENDS CallLater, TLAPS

\* A metacall or an operation has the fields its set says.
LEMMA Fields ==
  /\ \A o \in Op : o.key \in Keys /\ o.id \in Calls /\ o.node \in Calls /\ o.run \in 0 .. MaxStarts
  /\ \A e \in Metacall : e.key \in Keys /\ e.node \in Calls /\ e.id \in Calls
BY DEF Op, Metacall

\* The end of a call leaves a state of the right type.
LEMMA ReturnTypes ==
  ASSUME TypeOK, NEW t \in Callers, pc[t] # "idle", Return(t)
  PROVE  /\ pc' \in [Callers -> {"idle", "store", "resolve", "post", "undo"}]
         /\ op' \in [Callers -> Op \cup {NoOp}]
         /\ returned' \in [Keys -> SUBSET Calls]
         /\ \A u \in Callers : /\ pc'[u] # "idle" => op'[u] \in Op
                               /\ pc'[u] = "post" => op'[u].run # None
<1>1. op[t] \in Op
  BY DEF TypeOK
<1>2. op[t].key \in Keys /\ op[t].id \in Calls
  BY <1>1, Fields
<1>3. returned' \in [Keys -> SUBSET Calls]
  BY <1>2 DEF TypeOK, Return
<1>4. pc' = [pc EXCEPT ![t] = "idle"] /\ op' = [op EXCEPT ![t] = NoOp]
  BY DEF Return
<1>5. QED
  BY <1>3, <1>4 DEF TypeOK

LEMMA TypeStep == TypeOK /\ [Next]_vars => TypeOK'
<1> SUFFICES ASSUME TypeOK, [Next]_vars PROVE TypeOK'
  OBVIOUS
<1> USE ConstantsAssumption
<1>1. ASSUME NEW t \in Callers, NEW k \in Keys, Find(t, k) PROVE TypeOK'
  <2> DEFINE id == calls + 1
             node == IF pending[k] # None THEN pending[k] ELSE id
             new == [key |-> k, id |-> id, node |-> node, run |-> None]
  <2>1. id \in Calls /\ node \in Calls
    BY <1>1 DEF Find, TypeOK, Calls, None
  <2>2. new \in Op
    BY <2>1 DEF Op, None
  <2>3. /\ op' = [op EXCEPT ![t] = new] /\ pc' = [pc EXCEPT ![t] = "store"]
        /\ pending' = [pending EXCEPT ![k] = node]
        /\ before' = [before EXCEPT ![id] = returned[k]] /\ calls' = id
        /\ UNCHANGED <<invoker, queue, loopVars, alive, returned, settled>>
    BY <1>1 DEF Find
  <2> HIDE DEF id, node, new
  <2>4. calls' \in 0 .. MaxCalls /\ pending' \in [Keys -> 0 .. MaxCalls]
    BY <2>1, <2>3 DEF TypeOK, Calls
  <2>5. before' \in [Calls -> SUBSET Calls]
    BY <2>1, <2>3 DEF TypeOK
  <2>6. QED
    BY <2>2, <2>3, <2>4, <2>5 DEF TypeOK, loopVars
<1>2. ASSUME NEW t \in Callers, Store(t) PROVE TypeOK'
  <2>1. op[t] \in Op /\ op[t].node \in Calls /\ op[t].id \in Calls
    BY <1>2, Fields DEF TypeOK, Store
  <2>2. invoker' \in [Calls -> 0 .. MaxCalls]
    BY <1>2, <2>1 DEF TypeOK, Store, Calls
  <2>3. CASE IsNew(t)
    BY <1>2, <2>2, <2>3 DEF TypeOK, Store, loopVars
  <2>4. CASE ~IsNew(t)
    <3>1. Return(t) /\ pc[t] # "idle"
      BY <1>2, <2>4 DEF Store
    <3>2. QED
      BY <1>2, <2>2, <3>1, ReturnTypes DEF TypeOK, Store, loopVars
  <2>5. QED
    BY <2>3, <2>4
<1>3. ASSUME NEW t \in Callers, Resolve(t) PROVE TypeOK'
  <2> DEFINE new == [op[t] EXCEPT !.run = IF open THEN run ELSE None]
  <2>1. op[t] \in Op
    BY <1>3 DEF TypeOK, Resolve
  <2>2. new \in Op
    BY <2>1 DEF Op, TypeOK, None
  <2>3. op' = [op EXCEPT ![t] = new]
    BY <1>3 DEF Resolve
  <2>4. open => new.run # None
    BY <2>1 DEF Op, TypeOK, None
  <2>5. QED
    BY <1>3, <2>2, <2>3, <2>4 DEF TypeOK, Resolve, registryVars, loopVars, history
<1>4. ASSUME NEW t \in Callers, Post(t) PROVE TypeOK'
  <2>1. op[t] \in Op /\ Return(t) /\ pc[t] # "idle"
    BY <1>4 DEF TypeOK, Post
  <2>2. MetacallOf(t) \in Metacall
    BY <2>1, Fields DEF MetacallOf, Metacall
  <2>3. QED
    BY <1>4, <2>1, <2>2, ReturnTypes DEF TypeOK, Post, registryVars, loopVars
<1>5. ASSUME NEW t \in Callers, Undo(t) PROVE TypeOK'
  <2>1. op[t] \in Op /\ Return(t) /\ pc[t] # "idle"
    BY <1>5 DEF TypeOK, Undo
  <2>2. op[t].key \in Keys
    BY <2>1, Fields
  <2>3. pending' \in [Keys -> 0 .. MaxCalls]
    BY <1>5, <2>2 DEF TypeOK, Undo, None
  <2>4. QED
    BY <1>5, <2>1, <2>3, ReturnTypes DEF TypeOK, Undo, loopVars
<1>6. CASE Dispatch
  BY <1>6, Fields DEF Dispatch, TypeOK, registryVars, callerVars
<1>7. CASE EraseKey
  BY <1>7, Fields DEF EraseKey, TypeOK, callerVars, history, None
<1>8. CASE MoveInvoker
  BY <1>8, Fields DEF MoveInvoker, TypeOK, callerVars, history, None
<1>9. CASE SlotReturns
  BY <1>9 DEF SlotReturns, TypeOK, registryVars, callerVars, history, None
<1>10. ASSUME NEW c \in Contexts, Destroy(c) PROVE TypeOK'
  BY <1>10 DEF Destroy, TypeOK, loopVars, callerVars, history, None
<1>11. ASSUME NEW c \in Contexts, Construct(c) PROVE TypeOK'
  BY <1>11 DEF Construct, TypeOK, registryVars, loopVars, callerVars, history
<1>12. CASE Start
  BY <1>12 DEF Start, TypeOK, registryVars, callerVars, history, None
<1>13. CASE Stop
  BY <1>13 DEF Stop, TypeOK, registryVars, callerVars, history
<1>14. CASE UNCHANGED vars
  BY <1>14 DEF TypeOK, vars, registryVars, loopVars, callerVars, history
<1>15. QED
  BY <1>1, <1>2, <1>3, <1>4, <1>5, <1>6, <1>7, <1>8, <1>9, <1>10, <1>11, <1>12, <1>13, <1>14
  DEF Next, CallAny, CallStep, LoopStep

\* Type correctness of callLater() and the metacall it queues.
THEOREM TypeCorrect == Safety => []TypeOK
<1>1. Init => TypeOK
  <2> SUFFICES ASSUME Init PROVE TypeOK
    OBVIOUS
  <2>1. /\ pending \in [Keys -> 0 .. MaxCalls] /\ invoker \in [Calls -> 0 .. MaxCalls]
        /\ run \in 0 .. MaxStarts /\ running \in 0 .. MaxCalls /\ calls \in 0 .. MaxCalls
    BY ConstantsAssumption DEF Init, None
  <2>2. /\ queue \subseteq Metacall /\ current \in Metacall \cup {NoMetacall}
        /\ alive \subseteq Contexts /\ settled \subseteq Calls
        /\ returned \in [Keys -> SUBSET Calls] /\ before \in [Calls -> SUBSET Calls]
    BY DEF Init
  <2>3. QED
    BY <2>1, <2>2 DEF Init, TypeOK
<1>2. QED
  BY <1>1, TypeStep, PTL DEF Safety

-----------------------------------------------------------------------------
(* The inductive invariant.                                                *)

\* Each action that ends or advances a call, seen from the calls of other threads.
LEMMA CallOnly ==
  ASSUME TypeOK, NEW t \in Callers, CallStep(t)
  PROVE  /\ pc[t] # "idle" /\ op[t] \in Op
         /\ \A u \in Callers \ {t} : pc'[u] = pc[u] /\ op'[u] = op[u]
         /\ pc'[t] # "idle" =>
              /\ op'[t].key = op[t].key /\ op'[t].id = op[t].id /\ op'[t].node = op[t].node
              /\ returned' = returned
         /\ pc'[t] = "idle" =>
              returned' = [returned EXCEPT ![op[t].key] = @ \cup {op[t].id}]
         /\ calls' = calls /\ before' = before /\ settled' = settled /\ loopVars' = loopVars
         /\ alive' = alive
<1>1. pc[t] # "idle" /\ op[t] \in Op
  BY DEF CallStep, Store, Resolve, Post, Undo, TypeOK
<1>2. CASE Return(t) /\ pc'[t] = "idle" /\ UNCHANGED <<calls, before, settled, loopVars, alive>>
  BY <1>1, <1>2 DEF Return, TypeOK
<1>3. CASE Store(t)
  <2>1. CASE IsNew(t)
    BY <1>1, <1>3, <2>1 DEF Store, TypeOK
  <2>2. CASE ~IsNew(t)
    BY <1>2, <1>3, <2>2 DEF Store, Return, TypeOK
  <2>3. QED
    BY <2>1, <2>2
<1>4. CASE Resolve(t)
  <2>1. op' = [op EXCEPT ![t].run = IF open THEN run ELSE None] /\ pc'[t] # "idle"
    BY <1>4 DEF Resolve, TypeOK
  <2>2. QED
    BY <1>1, <1>4, <2>1 DEF Resolve, TypeOK, history, Op
<1>5. CASE Post(t)
  BY <1>2, <1>5 DEF Post, Return, TypeOK
<1>6. CASE Undo(t)
  BY <1>2, <1>6 DEF Undo, Return, TypeOK
<1>7. QED
  BY <1>3, <1>4, <1>5, <1>6 DEF CallStep

LEMMA NumberedStep ==
  ASSUME TypeOK, Numbered, [Next]_vars
  PROVE  Numbered'
<1> USE ConstantsAssumption
<1>1. ASSUME NEW t \in Callers, NEW k \in Keys, Find(t, k) PROVE Numbered'
  <2> DEFINE id == calls + 1
             node == IF pending[k] # None THEN pending[k] ELSE id
             new == [key |-> k, id |-> id, node |-> node, run |-> None]
  <2>1. /\ op' = [op EXCEPT ![t] = new] /\ pc' = [pc EXCEPT ![t] = "store"]
        /\ pending' = [pending EXCEPT ![k] = node]
        /\ before' = [before EXCEPT ![id] = returned[k]] /\ calls' = id
        /\ UNCHANGED <<invoker, queue, loopVars, alive, returned, settled>>
    BY <1>1 DEF Find
  <2>2. id \in Calls /\ calls \in Nat /\ node <= id /\ node \in Nat
    BY <1>1 DEF Find, TypeOK, Calls, Numbered
  <2>3. new.id = id /\ new.node = node
    OBVIOUS
  <2> HIDE DEF node, new
  <2>4. \A j \in Keys : pending'[j] <= calls' /\ \A c \in returned'[j] : c <= calls'
    BY <2>1, <2>2 DEF TypeOK, Numbered, Calls
  <2>5. \A c \in settled' : c <= calls'
    BY <2>1, <2>2 DEF TypeOK, Numbered, Calls
  <2>6. \A c \in Calls : \A b \in before'[c] : b <= calls
    BY <2>1, <2>2 DEF TypeOK, Numbered
  <2>7. \A c \in Calls : \A b \in before'[c] : b <= calls'
    BY <2>1, <2>2, <2>6 DEF TypeOK, Calls
  <2>8. ASSUME NEW u \in Callers, pc'[u] # "idle"
        PROVE  /\ op'[u].id <= calls' /\ op'[u].node <= calls'
               /\ \A v \in Callers : pc'[v] # "idle" /\ op'[v].id = op'[u].id => v = u
               /\ \A j \in Keys : op'[u].id \notin returned'[j]
               /\ \A c \in Calls : op'[u].id \notin before'[c]
    <3>1. /\ op'[t].id = id /\ op'[t].node = node
          /\ \A v \in Callers \ {t} : op'[v] = op[v] /\ pc'[v] = pc[v]
      BY <2>1, <2>3 DEF TypeOK
    <3>2. \A v \in Callers \ {t} : pc'[v] # "idle" =>
            /\ op[v].id <= calls /\ op[v].id \in Nat /\ op[v].node <= calls /\ op[v].node \in Nat
            /\ \A w \in Callers : pc[w] # "idle" /\ op[w].id = op[v].id => w = v
            /\ \A j \in Keys : op[v].id \notin returned[j]
            /\ \A c \in Calls : op[v].id \notin before[c]
      BY <3>1, Fields DEF TypeOK, Numbered, Calls
    <3>3. CASE u = t
      BY <2>1, <2>2, <2>6, <3>1, <3>2, <3>3 DEF Numbered, TypeOK
    <3>4. CASE u # t
      BY <2>1, <2>2, <2>8, <3>1, <3>2, <3>4 DEF TypeOK
    <3>5. QED
      BY <3>3, <3>4
  <2>9. QED
    BY <2>4, <2>5, <2>7, <2>8 DEF Numbered
<1>2. ASSUME NEW t \in Callers, CallStep(t) PROVE Numbered'
  <2>1. /\ pc[t] # "idle" /\ op[t] \in Op /\ op[t].id \in Calls /\ op[t].key \in Keys
        /\ \A u \in Callers : pc'[u] # "idle" =>
             pc[u] # "idle" /\ op'[u].id = op[u].id /\ op'[u].node = op[u].node
        /\ pc'[t] = "idle" \/ returned' = returned
    BY <1>2, CallOnly, Fields
  <2>2. \A k \in Keys : \A c \in returned'[k] : c \in returned[k] \/ (c = op[t].id /\ pc'[t] = "idle")
    BY <1>2, <2>1, CallOnly DEF TypeOK
  <2>3. \A k \in Keys : pending'[k] <= calls'
    <3>1. pending' = pending \/ pending' = [pending EXCEPT ![op[t].key] = None]
      BY <1>2 DEF CallStep, Store, Resolve, Post, Undo, registryVars
    <3>2. QED
      BY <1>2, <2>1, <3>1, CallOnly DEF TypeOK, Numbered, None
  <2>4. calls' = calls /\ before' = before /\ settled' = settled
    BY <1>2, CallOnly
  <2>5. ASSUME NEW u \in Callers, pc'[u] # "idle", NEW k \in Keys PROVE op'[u].id \notin returned'[k]
    BY <2>1, <2>2, <2>5 DEF Numbered
  <2>6. \A k \in Keys : \A c \in returned'[k] : c <= calls
    BY <2>1, <2>2 DEF Numbered
  <2>7. QED
    BY <2>1, <2>3, <2>4, <2>5, <2>6 DEF Numbered
<1>3. CASE \/ LoopStep \/ Start \/ Stop
           \/ \E c \in Contexts : Destroy(c) \/ Construct(c)
           \/ UNCHANGED vars
  <2>1. UNCHANGED <<pc, op, calls, returned, before>>
    BY <1>3 DEF LoopStep, Dispatch, EraseKey, MoveInvoker, SlotReturns, Start, Stop, Destroy, Construct,
                vars, registryVars, callerVars, history
  <2>2. \A k \in Keys : pending'[k] = pending[k] \/ pending'[k] = None
    BY <1>3, Fields DEF LoopStep, Dispatch, EraseKey, MoveInvoker, SlotReturns, Start, Stop, Destroy,
                Construct, vars, registryVars, callerVars, TypeOK
  <2>3. settled' = settled \/ \E k \in Keys : settled' = returned[k]
    BY <1>3, Fields DEF LoopStep, Dispatch, EraseKey, MoveInvoker, SlotReturns, Start, Stop, Destroy,
                Construct, vars, history, TypeOK
  <2>4. \A k \in Keys : pending'[k] <= calls
    BY <2>2 DEF Numbered, TypeOK, None
  <2>5. \A c \in settled' : c <= calls
    BY <2>3 DEF Numbered
  <2>6. QED
    BY <2>1, <2>4, <2>5 DEF Numbered
<1>4. QED
  BY <1>1, <1>2, <1>3 DEF Next, CallAny

\* What a metacall is made of.
LEMMA MetacallsTyped ==
  ASSUME TypeOK
  PROVE  queue \cup Executing \subseteq Metacall
BY DEF TypeOK, Executing

LEMMA CarriersStep ==
  ASSUME TypeOK, TypeOK', Numbered, Carriers, [Next]_vars
  PROVE  Carriers'
<1> USE ConstantsAssumption
<1>1. ASSUME NEW t \in Callers, NEW k \in Keys, Find(t, k) PROVE Carriers'
  <2> DEFINE id == calls + 1
             node == IF pending[k] # None THEN pending[k] ELSE id
             new == [key |-> k, id |-> id, node |-> node, run |-> None]
  <2>1. /\ op' = [op EXCEPT ![t] = new] /\ pc' = [pc EXCEPT ![t] = "store"]
        /\ pending' = [pending EXCEPT ![k] = node]
        /\ queue' = queue /\ Executing' = Executing /\ stage' = stage /\ current' = current
    BY <1>1 DEF Find, Executing, loopVars
  <2>2. id \in Calls /\ calls \in Nat /\ pending[k] <= calls /\ pending[k] \in Nat
    BY <1>1 DEF Find, TypeOK, Calls, Numbered
  <2>3. new.id = id /\ new.key = k /\ new.node = node
    OBVIOUS
  <2>4. \A j \in Keys : pending[j] # None => pending'[j] = pending[j]
    BY <2>1 DEF TypeOK
  <2>5. \A e \in queue \cup Executing :
          /\ pending[e.key] = e.node /\ e.id = e.node
          /\ e.key \in Keys /\ e.node # None /\ e.id <= calls
    BY MetacallsTyped, Fields DEF Carriers, Numbered, Calls, None
  <2>6. op'[t].id = id /\ op'[t].key = k /\ op'[t].node = node /\ pc'[t] = "store"
    BY <2>1, <2>3 DEF TypeOK
  <2>7. \A u \in Callers \ {t} : op'[u] = op[u] /\ pc'[u] = pc[u]
    BY <2>1 DEF TypeOK
  <2>8. \A u \in Callers \ {t} : Creating(u) =>
          /\ op[u].key \in Keys /\ op[u].id \in Calls
          /\ pending[op[u].key] = op[u].id /\ \A e \in queue \cup Executing : e.id # op[u].id
    BY Fields DEF Carriers, Creating, TypeOK
  <2>9. Creating(t)' => node = id /\ pending[k] = None
    BY <2>2, <2>6 DEF Creating, IsNew
  <2>10. pending'[k] = node
    BY <2>1 DEF TypeOK
  <2>11. \A e \in queue \cup Executing : e.id # id
    BY <2>2, <2>5, MetacallsTyped, Fields DEF Calls
  <2> HIDE DEF id, node, new
  <2>12. \A u \in Callers : Creating(u)' =>
           /\ pending'[op'[u].key] = op'[u].id
           /\ \A e \in queue' \cup Executing' : e.id # op'[u].id
    <3> SUFFICES ASSUME NEW u \in Callers, Creating(u)'
                 PROVE  /\ pending'[op'[u].key] = op'[u].id
                        /\ \A e \in queue' \cup Executing' : e.id # op'[u].id
      OBVIOUS
    <3>1. CASE u = t
      BY <2>1, <2>6, <2>9, <2>10, <2>11, <3>1
    <3>2. CASE u # t
      <4>1. Creating(u)
        BY <2>7, <3>2 DEF Creating, IsNew
      <4>2. QED
        BY <2>1, <2>4, <2>7, <2>8, <3>2, <4>1 DEF Calls, None
    <3>3. QED
      BY <3>1, <3>2
  <2>13. \A e \in queue' \cup Executing' : pending'[e.key] = e.node /\ e.id = e.node
    BY <2>1, <2>4, <2>5
  <2>14. \A u \in Callers : pc'[u] \in {"resolve", "post", "undo"} => IsNew(u)'
    BY <2>6, <2>7 DEF Carriers, IsNew
  <2>15. QED
    BY <2>1, <2>12, <2>13, <2>14 DEF Carriers
<1>2. ASSUME NEW t \in Callers, CallStep(t) PROVE Carriers'
  <2>1. /\ pc[t] # "idle" /\ op[t].id \in Calls /\ op[t].key \in Keys
        /\ \A u \in Callers \ {t} : pc'[u] = pc[u] /\ op'[u] = op[u]
        /\ pc'[t] # "idle" =>
             op'[t].key = op[t].key /\ op'[t].id = op[t].id /\ op'[t].node = op[t].node
        /\ stage' = stage /\ current' = current /\ Executing' = Executing
    BY <1>2, CallOnly, Fields DEF loopVars, Executing
  <2>2. \A u \in Callers : Creating(u)' =>
          /\ Creating(u)
          /\ op'[u].key = op[u].key /\ op'[u].id = op[u].id
          /\ op[u].key \in Keys /\ op[u].id \in Calls
          /\ pending[op[u].key] = op[u].id
          /\ \A e \in queue \cup Executing : e.id # op[u].id
    BY <2>1, Fields DEF Creating, IsNew, Carriers, TypeOK
  <2>3. \A u \in Callers : pc'[u] \in {"resolve", "post", "undo"} => IsNew(u)'
    <3>1. pc'[t] \in {"resolve", "post", "undo"} => IsNew(t)
      BY <1>2 DEF CallStep, Store, Resolve, Post, Undo, Return, Carriers, TypeOK
    <3>2. QED
      BY <2>1, <3>1 DEF IsNew, Carriers
  <2>4. CASE Post(t)
    <3> DEFINE new == MetacallOf(t)
    <3>1. Creating(t)
      BY <2>4 DEF Post, Carriers, Creating
    <3>2. /\ new.key = op[t].key /\ new.node = op[t].id /\ new.id = op[t].id
          /\ pending[op[t].key] = op[t].id /\ \A e \in queue \cup Executing : e.id # op[t].id
      BY <3>1 DEF MetacallOf, Creating, IsNew, Carriers
    <3>3. pending' = pending /\ queue' \subseteq queue \cup {new} /\ pc'[t] = "idle"
      BY <2>4 DEF Post, registryVars, Return, TypeOK
    <3> HIDE DEF new
    <3>4. \A e \in queue' \cup Executing' : pending'[e.key] = e.node /\ e.id = e.node
      BY <2>1, <3>2, <3>3 DEF Carriers
    <3>5. stage' = "erase" => current' \notin queue'
      BY <2>1, <3>2, <3>3 DEF Carriers, Executing
    <3>6. \A u \in Callers : Creating(u)' =>
            /\ pending'[op'[u].key] = op'[u].id
            /\ \A e \in queue' \cup Executing' : e.id # op'[u].id
      <4>1. \A u \in Callers : Creating(u)' => u # t /\ op[u].id # op[t].id
        BY <2>1, <2>2, <3>3 DEF Creating, Numbered
      <4>2. QED
        BY <2>1, <2>2, <3>2, <3>3, <4>1
    <3>7. QED
      BY <2>3, <3>4, <3>5, <3>6 DEF Carriers
  <2>5. CASE Undo(t)
    <3>1. Creating(t)
      BY <2>5 DEF Undo, Carriers, Creating
    <3>2. pending[op[t].key] = op[t].id /\ \A e \in queue \cup Executing : e.id # op[t].id
      BY <3>1 DEF Creating, Carriers
    <3>3. pending' = [pending EXCEPT ![op[t].key] = None] /\ queue' = queue /\ pc'[t] = "idle"
      BY <2>5 DEF Undo, Return, TypeOK
    <3>4. \A e \in queue \cup Executing : e.key \in Keys /\ e.key # op[t].key
      BY <3>2, MetacallsTyped, Fields DEF Carriers
    <3>5. \A u \in Callers : Creating(u)' => u # t /\ op[u].key # op[t].key
      BY <2>1, <2>2, <3>2, <3>3 DEF Creating, Numbered
    <3>6. \A k \in Keys : k # op[t].key => pending'[k] = pending[k]
      BY <3>3 DEF TypeOK
    <3>7. \A e \in queue' \cup Executing' : pending'[e.key] = e.node /\ e.id = e.node
      BY <2>1, <3>3, <3>4, <3>6 DEF Carriers
    <3>8. QED
      BY <2>1, <2>2, <2>3, <3>3, <3>5, <3>6, <3>7 DEF Carriers
  <2>6. CASE Store(t) \/ Resolve(t)
    <3>1. pending' = pending /\ queue' = queue
      BY <2>6 DEF Store, Resolve, registryVars
    <3>2. QED
      BY <2>1, <2>2, <2>3, <3>1 DEF Carriers
  <2>7. QED
    BY <1>2, <2>4, <2>5, <2>6 DEF CallStep
<1>3. CASE Dispatch
  <2>1. PICK e \in queue : queue' = queue \ {e} /\ current' = e
    BY <1>3 DEF Dispatch
  <2>2. Executing' = {e} /\ pending' = pending /\ pc' = pc /\ op' = op
    BY <1>3, <2>1 DEF Dispatch, Executing, registryVars, callerVars
  <2>3. queue' \cup Executing' \subseteq queue \cup Executing
    BY <2>1, <2>2
  <2>4. QED
    BY <2>1, <2>2, <2>3 DEF Carriers, Creating, IsNew
<1>4. CASE EraseKey
  <2>1. /\ current \in Metacall /\ current \in Executing /\ current \notin queue
        /\ pending' = [pending EXCEPT ![current.key] = None]
        /\ Executing' = {} /\ queue' = queue /\ stage' = "move" /\ pc' = pc /\ op' = op
    BY <1>4 DEF EraseKey, TypeOK, Carriers, Executing, callerVars
  <2>2. \A e \in queue : e.key \in Keys /\ e.key # current.key
    <3>1. \A e \in queue : e.key = current.key => e.node = current.node /\ e.id = current.id
      BY <2>1 DEF Carriers
    <3>2. \A e, f \in Metacall : e.key = f.key /\ e.node = f.node /\ e.id = f.id => e = f
      BY DEF Metacall
    <3>3. QED
      BY <2>1, <3>1, <3>2, Fields DEF TypeOK
  <2>3. \A u \in Callers : Creating(u) => op[u].key \in Keys /\ op[u].key # current.key
    BY <2>1, Fields DEF Creating, Carriers, TypeOK
  <2>4. \A k \in Keys : k # current.key => pending'[k] = pending[k]
    BY <2>1 DEF TypeOK
  <2>5. QED
    BY <2>1, <2>2, <2>3, <2>4 DEF Carriers, Creating, IsNew
<1>5. ASSUME NEW c \in Contexts, Destroy(c) PROVE Carriers'
  <2>1. /\ Executing = {} /\ Executing' = {} /\ stage' # "erase" /\ pc' = pc /\ op' = op
        /\ queue' = {e \in queue : e.key[1] # c}
        /\ \A k \in Keys : k[1] # c => pending'[k] = pending[k]
        /\ \A t \in Callers : pc[t] # "idle" => op[t].key[1] # c
    BY <1>5 DEF Destroy, LoopIdle, Executing, loopVars, callerVars
  <2>2. \A e \in queue' : e \in queue /\ pending'[e.key] = e.node /\ e.id = e.node
    BY <2>1, MetacallsTyped, Fields DEF Carriers
  <2>3. \A u \in Callers : Creating(u) => pending'[op[u].key] = pending[op[u].key]
    BY <2>1, Fields DEF Creating, TypeOK
  <2>4. QED
    BY <2>1, <2>2, <2>3 DEF Carriers, Creating, IsNew
<1>6. CASE \/ MoveInvoker \/ SlotReturns \/ Start \/ Stop
           \/ \E c \in Contexts : Construct(c)
           \/ UNCHANGED vars
  <2>1. pending' = pending /\ queue' \subseteq queue /\ pc' = pc /\ op' = op
    BY <1>6 DEF MoveInvoker, SlotReturns, Start, Stop, Construct, vars, registryVars, callerVars
  <2>2. /\ Executing' \subseteq Executing /\ (stage' = "erase" => stage = "erase" /\ current' = current)
    BY <1>6 DEF MoveInvoker, SlotReturns, Start, Stop, LoopIdle, Construct, vars, loopVars, Executing
  <2>3. QED
    BY <2>1, <2>2 DEF Carriers, Creating, IsNew
<1>7. QED
  BY <1>1, <1>2, <1>3, <1>4, <1>5, <1>6 DEF Next, CallAny, LoopStep

\* What a step of a call does to the nodes: its own invoker goes into its own node.
LEMMA Invokers ==
  ASSUME TypeOK, NEW t \in Callers, CallStep(t)
  PROVE  /\ \A n \in Calls :
              invoker'[n] # invoker[n] => n = op[t].node /\ invoker'[n] = op[t].id
         /\ Store(t) => invoker'[op[t].node] = op[t].id
         /\ Undo(t) => pending'[op[t].key] = None
         /\ \A k \in Keys : pending'[k] = pending[k] \/ pending'[k] = None
<1>1. op[t].node \in Calls /\ op[t].key \in Keys
  BY CallOnly, Fields
<1>2. CASE Store(t)
  <2>1. invoker' = [invoker EXCEPT ![op[t].node] = op[t].id] /\ pending' = pending /\ ~Undo(t)
    BY <1>2 DEF Store, Undo
  <2>2. invoker'[op[t].node] = op[t].id /\ \A n \in Calls : n # op[t].node => invoker'[n] = invoker[n]
    BY <1>1, <2>1 DEF TypeOK
  <2>3. QED
    BY <2>1, <2>2, Zenon
<1>3. CASE Undo(t)
  <2>1. invoker' = invoker /\ pending' = [pending EXCEPT ![op[t].key] = None] /\ ~Store(t)
    BY <1>3 DEF Store, Undo
  <2>2. pending'[op[t].key] = None /\ \A k \in Keys : k # op[t].key => pending'[k] = pending[k]
    BY <1>1, <2>1 DEF TypeOK
  <2>3. QED
    BY <2>1, <2>2, Zenon
<1>4. CASE Resolve(t) \/ Post(t)
  <2>1. invoker' = invoker /\ pending' = pending /\ ~Store(t) /\ ~Undo(t)
    BY <1>4 DEF Store, Resolve, Post, Undo, registryVars
  <2>2. QED
    BY <2>1, Zenon
<1>5. QED
  BY <1>2, <1>3, <1>4 DEF CallStep

\* No call in flight has been followed, nor is there a call 0.
LEMMA Unfollowed ==
  ASSUME TypeOK, Numbered
  PROVE  \A c \in Calls : None \notin before[c]
BY DEF TypeOK, Calls, None

LEMMA OverwritesFind ==
  ASSUME TypeOK, Numbered, Overwrites, LatestRuns, NEW t \in Callers, NEW k \in Keys, Find(t, k)
  PROVE  Overwrites' /\ LatestRuns'
<1> DEFINE id == calls + 1
           node == IF pending[k] # None THEN pending[k] ELSE id
           new == [key |-> k, id |-> id, node |-> node, run |-> None]
<1>1. /\ op' = [op EXCEPT ![t] = new] /\ pc' = [pc EXCEPT ![t] = "store"]
      /\ pending' = [pending EXCEPT ![k] = node] /\ calls' = id
      /\ before' = [before EXCEPT ![id] = returned[k]]
      /\ UNCHANGED <<invoker, returned, settled, stage, current, running>>
  BY DEF Find, loopVars
<1>2. id \in Calls /\ calls \in Nat
  BY ConstantsAssumption DEF Find, TypeOK, Calls
<1>3. new.id = id /\ new.key = k /\ new.node = node
  OBVIOUS
<1>4. op'[t].id = id /\ op'[t].key = k /\ op'[t].node = node /\ pc'[t] = "store"
  BY <1>1, <1>3 DEF TypeOK
<1>5. \A u \in Callers \ {t} : op'[u] = op[u] /\ pc'[u] = pc[u]
  BY <1>1 DEF TypeOK
<1>6. \A c \in Calls : c <= calls => c # id /\ before'[c] = before[c]
  BY <1>1, <1>2 DEF TypeOK, Calls
<1>7. invoker[id] = None
  BY <1>2 DEF Overwrites, Calls
<1>8. pending'[k] = node /\ \A j \in Keys : j # k => pending'[j] = pending[j]
  BY <1>1 DEF TypeOK
<1>9. \A c \in Calls : None \notin before[c]
  BY Unfollowed
<1>10. \A n \in Calls : n > calls' => invoker'[n] = None
  BY <1>1, <1>2 DEF Overwrites, Calls
<1>11. ASSUME NEW j \in Keys, pending'[j] # None, NEW c \in returned'[j]
       PROVE  invoker'[pending'[j]] \notin before'[c]
  <2>1. c \in Calls /\ c \in returned[j] /\ before'[c] = before[c]
    BY <1>1, <1>6, <1>11 DEF Numbered, TypeOK
  <2>2. CASE pending'[j] = pending[j]
    BY <1>1, <1>11, <2>1, <2>2 DEF Overwrites
  <2>3. CASE pending'[j] = id
    BY <1>1, <1>7, <1>9, <2>1, <2>3
  <2>4. QED
    BY <1>8, <2>2, <2>3
<1>12. ASSUME NEW u \in Callers, pc'[u] # "idle", pending'[op'[u].key] # None,
              invoker'[pending'[op'[u].key]] \in before'[op'[u].id]
       PROVE  pending'[op'[u].key] = op'[u].node
  <2>1. CASE u = t
    BY <1>4, <1>8, <2>1
  <2>2. CASE u # t
    <3>1. /\ op'[u] = op[u] /\ pc'[u] = pc[u] /\ op[u].key \in Keys /\ op[u].id \in Calls
          /\ before'[op[u].id] = before[op[u].id]
      BY <1>5, <1>6, <1>12, <2>2, Fields DEF TypeOK, Numbered
    <3>2. pending'[op[u].key] = pending[op[u].key] \/ pending'[op[u].key] = id
      BY <1>8, <3>1
    <3>3. pending'[op[u].key] # id
      BY <1>1, <1>7, <1>9, <1>12, <3>1
    <3>4. QED
      BY <1>1, <1>12, <3>1, <3>2, <3>3 DEF Overwrites
  <2>3. QED
    BY <2>1, <2>2
<1>13. ASSUME NEW u \in Callers, pc'[u] \in {"resolve", "post", "undo"}
       PROVE  invoker'[op'[u].node] \notin before'[op'[u].id]
  <2>1. u # t
    BY <1>4, <1>13
  <2>2. op'[u] = op[u] /\ pc'[u] = pc[u] /\ op[u].id \in Calls /\ before'[op[u].id] = before[op[u].id]
    BY <1>5, <1>6, <1>13, <2>1, Fields DEF TypeOK, Numbered
  <2>3. QED
    BY <1>1, <1>13, <2>2 DEF Overwrites
<1>14. \A c \in settled : c \in Calls /\ before'[c] = before[c]
  BY <1>6 DEF TypeOK, Numbered
<1>15. LatestRuns' /\ (stage' \in {"erase", "move"} =>
         \A c \in settled' : invoker'[current'.node] \notin before'[c])
  BY <1>1, <1>14 DEF LatestRuns, Overwrites
<1> HIDE DEF id, node, new
<1>16. QED
  BY <1>10, <1>11, <1>12, <1>13, <1>15 DEF Overwrites

LEMMA OverwritesCall ==
  ASSUME TypeOK, Numbered, Carriers, Overwrites, LatestRuns, NEW t \in Callers, CallStep(t)
  PROVE  Overwrites' /\ LatestRuns'
<1>1. /\ pc[t] # "idle" /\ op[t].id \in Calls /\ op[t].key \in Keys /\ op[t].node \in Calls
      /\ \A u \in Callers \ {t} : pc'[u] = pc[u] /\ op'[u] = op[u]
      /\ pc'[t] # "idle" =>
           /\ op'[t].key = op[t].key /\ op'[t].id = op[t].id /\ op'[t].node = op[t].node
           /\ returned' = returned
      /\ pc'[t] = "idle" => returned' = [returned EXCEPT ![op[t].key] = @ \cup {op[t].id}]
      /\ calls' = calls /\ before' = before /\ settled' = settled
      /\ stage' = stage /\ current' = current /\ running' = running
  BY CallOnly, Fields DEF loopVars
<1>2. \A c \in Calls : op[t].id \notin before[c] /\ None \notin before[c]
  BY <1>1, Unfollowed DEF Numbered
<1>3. ASSUME NEW n \in Calls, NEW c \in Calls, invoker[n] \notin before[c]
      PROVE  invoker'[n] \notin before'[c]
  BY <1>1, <1>2, <1>3, Invokers
<1>4. \A n \in Calls : n > calls' => invoker'[n] = None
  BY SMTT(20), <1>1, Invokers DEF Overwrites, Numbered, Calls, TypeOK
<1>5. \A c \in settled' : c \in Calls
  BY <1>1 DEF TypeOK
<1>6. stage' \in {"erase", "move"} => \A c \in settled' : invoker'[current'.node] \notin before'[c]
  BY <1>1, <1>3, <1>5, Fields DEF Overwrites, TypeOK
<1>7. LatestRuns'
  BY <1>1 DEF LatestRuns
<1>8. ASSUME NEW u \in Callers, pc'[u] \in {"resolve", "post", "undo"}
      PROVE  invoker'[op'[u].node] \notin before'[op'[u].id]
  <2>1. pc[u] # "idle" /\ op[u].id \in Calls /\ op[u].node \in Calls
        /\ op'[u].id = op[u].id /\ op'[u].node = op[u].node
    BY <1>1, <1>8, Fields DEF TypeOK
  <2>2. CASE pc[u] = "store"
    <3>1. u = t /\ Store(t)
      BY <1>1, <1>8, <2>2 DEF CallStep, Resolve, Post, Undo
    <3>2. QED
      BY <1>1, <1>2, <2>1, <3>1, Invokers
  <2>3. CASE pc[u] # "store"
    <3>1. invoker[op[u].node] \notin before[op[u].id]
      BY <2>1, <2>3 DEF Overwrites, TypeOK
    <3>2. QED
      BY <1>3, <2>1, <3>1
  <2>4. QED
    BY <2>2, <2>3
<1>9. ASSUME NEW u \in Callers, pc'[u] # "idle", pending'[op'[u].key] # None,
             invoker'[pending'[op'[u].key]] \in before'[op'[u].id]
      PROVE  pending'[op'[u].key] = op'[u].node
  <2>1. /\ pc[u] # "idle" /\ op[u].key \in Keys /\ op[u].id \in Calls
        /\ op'[u].key = op[u].key /\ op'[u].id = op[u].id /\ op'[u].node = op[u].node
    BY <1>1, <1>9, Fields DEF TypeOK
  <2>2. pending'[op[u].key] = pending[op[u].key] /\ pending[op[u].key] \in Calls
    BY <1>9, <2>1, Invokers DEF TypeOK, Calls, None
  <2>3. QED
    BY <1>3, <1>9, <2>1, <2>2 DEF Overwrites
<1>10. ASSUME NEW k \in Keys, pending'[k] # None, NEW c \in returned'[k]
       PROVE  invoker'[pending'[k]] \notin before'[c]
  <2>1. pending'[k] = pending[k] /\ pending[k] \in Calls
    BY <1>10, Invokers DEF TypeOK, Calls, None
  <2>2. CASE c \in returned[k]
    BY <1>3, <1>10, <2>1, <2>2 DEF Overwrites, TypeOK
  <2>3. CASE c \notin returned[k]
    <3>1. k = op[t].key /\ c = op[t].id /\ pc'[t] = "idle"
      BY <1>1, <1>10, <2>3 DEF TypeOK
    <3>2. CASE pending[k] # op[t].node
      BY <1>1, <1>3, <1>10, <2>1, <3>1, <3>2 DEF Overwrites
    <3>3. CASE pending[k] = op[t].node /\ pc[t] = "store"
      <4>1. Store(t)
        BY <3>3 DEF CallStep, Resolve, Post, Undo
      <4>2. QED
        BY <1>1, <1>2, <2>1, <3>1, <3>3, <4>1, Invokers
    <3>4. CASE pc[t] # "store"
      <4>1. invoker[op[t].node] \notin before[op[t].id]
        BY <1>1, <3>4 DEF Overwrites, TypeOK
      <4>2. QED
        BY <1>1, <1>3, <2>1, <3>1, <3>2, <4>1
    <3>5. QED
      BY <3>2, <3>3, <3>4
  <2>4. QED
    BY <2>2, <2>3
<1>11. QED
  BY <1>4, <1>6, <1>7, <1>8, <1>9, <1>10 DEF Overwrites

LEMMA OverwritesLoop ==
  ASSUME TypeOK, Numbered, Carriers, Overwrites, LatestRuns,
         \/ LoopStep \/ Start \/ Stop
         \/ \E c \in Contexts : Destroy(c) \/ Construct(c)
         \/ UNCHANGED vars
  PROVE  Overwrites' /\ LatestRuns'
<1>1. UNCHANGED <<pc, op, calls, returned, before>>
  BY DEF LoopStep, Dispatch, EraseKey, MoveInvoker, SlotReturns, Start, Stop, Destroy, Construct,
         vars, registryVars, callerVars, history
<1>2. \A k \in Keys : pending'[k] = pending[k] \/ pending'[k] = None
  BY Fields DEF LoopStep, Dispatch, EraseKey, MoveInvoker, SlotReturns, Start, Stop, Destroy,
         Construct, vars, registryVars, callerVars, TypeOK
<1>3. \A n \in Calls : invoker'[n] = invoker[n] \/ invoker'[n] = None
  BY Fields DEF LoopStep, Dispatch, EraseKey, MoveInvoker, SlotReturns, Start, Stop, Destroy,
         Construct, vars, registryVars, callerVars, TypeOK
<1>4. ASSUME NEW n \in Calls, NEW c \in Calls, invoker[n] \notin before[c]
      PROVE  invoker'[n] \notin before'[c]
  BY <1>1, <1>3, <1>4, Unfollowed
<1>5. \A n \in Calls : n > calls' => invoker'[n] = None
  BY <1>1, <1>3 DEF Overwrites
<1>6. \A u \in Callers : pc'[u] \in {"resolve", "post", "undo"} =>
        invoker'[op'[u].node] \notin before'[op'[u].id]
  BY <1>1, <1>4, Fields DEF Overwrites, TypeOK
<1>7. ASSUME NEW k \in Keys, pending'[k] # None, NEW c \in Calls, invoker[pending[k]] \notin before[c]
      PROVE  invoker'[pending'[k]] \notin before'[c]
  <2>1. pending'[k] = pending[k] /\ pending[k] \in Calls
    BY <1>2, <1>7 DEF TypeOK, Calls, None
  <2>2. QED
    BY <1>4, <1>7, <2>1
<1>8. \A k \in Keys : pending'[k] # None =>
        \A c \in returned'[k] : invoker'[pending'[k]] \notin before'[c]
  BY <1>1, <1>2, <1>7 DEF Overwrites, TypeOK
<1>9. ASSUME NEW u \in Callers, pc'[u] # "idle", pending'[op'[u].key] # None,
             invoker'[pending'[op'[u].key]] \in before'[op'[u].id]
      PROVE  pending'[op'[u].key] = op'[u].node
  <2>1. op' = op /\ pc' = pc /\ op[u].key \in Keys /\ op[u].id \in Calls
    BY <1>1, <1>9, Fields DEF TypeOK
  <2>2. invoker[pending[op[u].key]] \in before[op[u].id] /\ pending'[op[u].key] = pending[op[u].key]
    BY <1>2, <1>7, <1>9, <2>1
  <2>3. QED
    BY <1>9, <2>1, <2>2 DEF Overwrites
<1>10. LatestRuns' /\ (stage' \in {"erase", "move"} =>
         \A c \in settled' : invoker'[current'.node] \notin before'[c])
  <2>1. CASE Dispatch
    <3>1. PICK e \in queue : current' = e /\ settled' = returned[e.key]
      BY <2>1 DEF Dispatch
    <3>2. /\ e.key \in Keys /\ e.node \in Calls /\ pending[e.key] = e.node /\ e.node # None
          /\ invoker' = invoker /\ stage' = "erase"
      BY <2>1, MetacallsTyped, Fields DEF Carriers, Dispatch, registryVars, Calls, None
    <3>3. QED
      BY <1>1, <3>1, <3>2 DEF Overwrites, LatestRuns
  <2>2. CASE EraseKey
    BY <1>1, <2>2 DEF EraseKey, Overwrites, LatestRuns, history
  <2>3. CASE MoveInvoker
    BY <1>1, <2>3 DEF MoveInvoker, Overwrites, LatestRuns, history
  <2>4. CASE \/ SlotReturns \/ Start \/ Stop
             \/ \E c \in Contexts : Destroy(c) \/ Construct(c)
             \/ UNCHANGED vars
    <3>1. /\ settled' = settled
          /\ stage' = "slot" => stage = "slot" /\ running' = running
          /\ stage' \in {"erase", "move"} => stage' = stage /\ current' = current
      BY <2>4 DEF SlotReturns, Start, Stop, Destroy, Construct, LoopIdle, vars, loopVars, history
    <3>2. /\ stage' = "slot" => LatestRuns'
          /\ stage' \in {"erase", "move"} =>
               \A c \in settled' : invoker'[current'.node] \notin before'[c]
      BY <1>1, <1>4, <3>1, Fields DEF LatestRuns, Overwrites, TypeOK
    <3>3. QED
      BY <3>2 DEF LatestRuns
  <2>5. QED
    BY <2>1, <2>2, <2>3, <2>4 DEF LoopStep
<1>11. QED
  BY <1>5, <1>6, <1>8, <1>9, <1>10 DEF Overwrites

\* CallInv is inductive.
LEMMA CallInvStep == TypeOK /\ CallInv /\ [Next]_vars => CallInv'
<1> SUFFICES ASSUME TypeOK, CallInv, [Next]_vars PROVE CallInv'
  OBVIOUS
<1>1. TypeOK' /\ Numbered /\ Carriers /\ Overwrites /\ LatestRuns
  BY TypeStep DEF CallInv
<1>2. Numbered' /\ Carriers'
  BY <1>1, NumberedStep, CarriersStep
<1>3. Overwrites' /\ LatestRuns'
  BY <1>1, OverwritesFind, OverwritesCall, OverwritesLoop DEF Next, CallAny
<1>4. QED
  BY <1>2, <1>3 DEF CallInv

\* The registry's invariant: calls are numbered, an entry has one carrier, and an invoker is
\* overwritten only by calls made later than it.
THEOREM CallInvariant == Safety => []CallInv
<1>1. Init => CallInv
  <2> SUFFICES ASSUME Init PROVE CallInv
    OBVIOUS
  <2>1. Numbered
    BY DEF Init, Numbered, None
  <2>2. Carriers
    BY DEF Init, Carriers, Creating, Executing
  <2>3. Overwrites /\ LatestRuns
    BY DEF Init, Overwrites, LatestRuns
  <2>4. QED
    BY <2>1, <2>2, <2>3 DEF CallInv
<1>2. QED
  BY <1>1, CallInvStep, TypeCorrect, PTL DEF Safety

\* However many threads call, and whether the thread stops or not, a key has at most one
\* metacall on its way: callLater() collapses.
THEOREM CallsCollapse == Safety => []OneQueued
<1>1. TypeOK /\ CallInv => OneQueued
  <2> SUFFICES ASSUME TypeOK, CallInv, NEW e \in queue \cup Executing, NEW f \in queue \cup Executing,
                      e.key = f.key
               PROVE  e = f
    BY DEF OneQueued
  <2>1. e.node = f.node /\ e.id = f.id
    BY DEF CallInv, Carriers
  <2>2. e \in Metacall /\ f \in Metacall
    BY MetacallsTyped
  <2>3. QED
    BY <2>1, <2>2 DEF Metacall
<1>2. QED
  BY <1>1, CallInvariant, TypeCorrect, PTL

\* A slot never runs with the arguments of a call that was replaced in time.
THEOREM LastArgumentsWin == Safety => []LatestRuns
<1>1. CallInv => LatestRuns
  BY DEF CallInv
<1>2. QED
  BY <1>1, CallInvariant, PTL
-----------------------------------------------------------------------------
(* No entry is forgotten before the thread stops.                          *)

LEMMA PostsArriveStep ==
  ASSUME TypeOK, TypeOK', PostsArrive, [Next]_vars
  PROVE  PostsArrive'
<1>1. ASSUME NEW t \in Callers, NEW k \in Keys, Find(t, k) PROVE PostsArrive'
  BY <1>1 DEF Find, PostsArrive, TypeOK, loopVars
<1>2. ASSUME NEW t \in Callers, CallStep(t) PROVE PostsArrive'
  <2>1. open' = open /\ stage' = stage /\ run' = run
    BY <1>2, CallOnly DEF loopVars
  <2>2. pc'[t] = "post" => op'[t].run \in 1 .. run
    <3>1. CASE Resolve(t)
      BY <1>2, <3>1, CallOnly DEF Resolve, TypeOK, Op, None
    <3>2. CASE ~Resolve(t)
      BY <1>2, <3>2 DEF CallStep, Store, Post, Undo, Return, TypeOK
    <3>3. QED
      BY <3>1, <3>2
  <2>3. QED
    BY <1>2, <2>1, <2>2, CallOnly DEF PostsArrive
<1>3. CASE Start
  BY <1>3 DEF Start, PostsArrive, callerVars, TypeOK
<1>4. CASE Stop
  BY <1>4 DEF Stop, PostsArrive, callerVars, TypeOK
<1>5. CASE LoopStep \/ (\E c \in Contexts : Destroy(c) \/ Construct(c)) \/ UNCHANGED vars
  <2>1. /\ open' = open /\ run' = run /\ pc' = pc /\ op' = op
        /\ stage' = "stopped" <=> stage = "stopped"
    BY <1>5 DEF LoopStep, Dispatch, EraseKey, MoveInvoker, SlotReturns, LoopIdle, Destroy, Construct,
                vars, loopVars, callerVars
  <2>2. QED
    BY <2>1 DEF PostsArrive
<1>6. QED
  BY <1>1, <1>2, <1>3, <1>4, <1>5 DEF Next, CallAny

\* A dispatcher that has been dropped stays dropped, and until then it is the one posts go to.
LEMMA Dropped ==
  ASSUME TypeOK, PostsArrive, [Next]_vars, Undropped'
  PROVE  /\ Undropped /\ ~Stop
         /\ \A t \in Callers : pc[t] = "post" => open /\ op[t].run = run
<1>1. ~Stop
  BY DEF Stop, Undropped, TypeOK, LoopIdle, PostsArrive, loopVars
<1>2. Start \/ (open' = open /\ run' = run)
  BY <1>1, CallOnly DEF Next, CallAny, Find, LoopStep, Dispatch, EraseKey, MoveInvoker, SlotReturns,
     Destroy, Construct, vars, loopVars
<1>3. Undropped
  BY <1>2 DEF Start, Undropped, TypeOK, None
<1>4. QED
  BY <1>1, <1>3 DEF Undropped, PostsArrive, TypeOK, None

LEMMA EntryServedStep ==
  ASSUME TypeOK, Numbered, Carriers, PostsArrive, EntryServed, [Next]_vars
  PROVE  EntryServed'
<1> SUFFICES ASSUME Undropped', NEW k \in Keys, pending'[k] # None
             PROVE  \/ \E e \in queue' \cup Executing' : e.key = k /\ e.node = pending'[k]
                    \/ \E t \in Callers : Creating(t)' /\ op'[t].key = k
  BY DEF EntryServed, Served
<1> DEFINE Queued == \E e \in queue' \cup Executing' : e.key = k /\ e.node = pending'[k]
           Made == \E t \in Callers : Creating(t)' /\ op'[t].key = k
<1>0. /\ ~Stop /\ \A t \in Callers : pc[t] = "post" => open /\ op[t].run = run
      /\ pending[k] # None =>
           \/ \E e \in queue \cup Executing : e.key = k /\ e.node = pending[k]
           \/ \E t \in Callers : Creating(t) /\ op[t].key = k
  BY Dropped DEF EntryServed, Served
<1>1. ASSUME NEW t \in Callers, NEW j \in Keys, Find(t, j) PROVE Queued \/ Made
  <2>1. /\ pc[t] = "idle" /\ queue' \cup Executing' = queue \cup Executing
        /\ \A u \in Callers \ {t} : op'[u] = op[u] /\ pc'[u] = pc[u]
    BY <1>1 DEF Find, TypeOK, Executing, loopVars
  <2>2. CASE pending[k] # None
    <3>1. pending'[k] = pending[k]
      BY <1>1, <2>2 DEF Find, TypeOK
    <3>2. CASE \E e \in queue \cup Executing : e.key = k /\ e.node = pending[k]
      BY <2>1, <3>1, <3>2
    <3>3. CASE \E u \in Callers : Creating(u) /\ op[u].key = k
      BY <2>1, <3>3 DEF Creating, IsNew
    <3>4. QED
      BY <1>0, <2>2, <3>2, <3>3
  <2>3. CASE pending[k] = None
    <3>1. /\ k = j /\ pc'[t] = "store" /\ op'[t].key = k
          /\ op'[t].node = calls + 1 /\ op'[t].id = calls + 1
      BY <1>1, <2>3 DEF Find, TypeOK
    <3>2. QED
      BY <3>1 DEF Creating, IsNew
  <2>4. QED
    BY <2>2, <2>3
<1>2. ASSUME NEW t \in Callers, CallStep(t) PROVE Queued \/ Made
  <2>1. /\ \A u \in Callers \ {t} : op'[u] = op[u] /\ pc'[u] = pc[u]
        /\ Executing' = Executing /\ op[t].key \in Keys
        /\ pc'[t] # "idle" =>
             op'[t].key = op[t].key /\ op'[t].id = op[t].id /\ op'[t].node = op[t].node
    BY <1>2, CallOnly, Fields DEF Executing, loopVars
  <2>2. queue \subseteq queue' /\ pending'[k] = pending[k]
    BY <1>2, <2>1, Invokers DEF CallStep, Store, Resolve, Post, Undo
  <2>3. CASE \E e \in queue \cup Executing : e.key = k /\ e.node = pending[k]
    BY <2>1, <2>2, <2>3
  <2>4. CASE \E u \in Callers : Creating(u) /\ op[u].key = k
    <3>1. PICK u \in Callers : Creating(u) /\ op[u].key = k
      BY <2>4
    <3>2. CASE u # t
      BY <2>1, <3>1, <3>2 DEF Creating, IsNew
    <3>3. CASE u = t /\ pc'[t] # "idle"
      BY <2>1, <3>1, <3>3 DEF Creating, IsNew
    <3>4. CASE u = t /\ Post(t)
      <4>1. MetacallOf(t) \in queue'
        BY <1>0, <3>4 DEF Post
      <4>2. MetacallOf(t).key = k /\ MetacallOf(t).node = pending[k]
        BY <3>1, <3>4 DEF MetacallOf, Carriers, Creating, IsNew
      <4>3. QED
        BY <2>2, <4>1, <4>2
    <3>5. CASE u = t /\ Undo(t)
      BY <1>2, <3>1, <3>5, Invokers
    <3>6. CASE u = t /\ (Store(t) \/ Resolve(t))
      <4>1. pc'[t] # "idle"
        BY <3>1, <3>6 DEF Store, Resolve, Creating, TypeOK
      <4>2. QED
        BY <3>3, <3>6, <4>1
    <3>7. QED
      BY <1>2, <3>2, <3>4, <3>5, <3>6 DEF CallStep
  <2>5. QED
    BY <1>0, <2>2, <2>3, <2>4
<1>3. CASE \/ LoopStep \/ Start
           \/ \E c \in Contexts : Destroy(c) \/ Construct(c)
           \/ UNCHANGED vars
  <2>1. pc' = pc /\ op' = op
    BY <1>3 DEF LoopStep, Dispatch, EraseKey, MoveInvoker, SlotReturns, Start, Destroy, Construct,
                vars, callerVars
  <2>2. pending'[k] = pending[k]
    BY <1>3, Fields DEF LoopStep, Dispatch, EraseKey, MoveInvoker, SlotReturns, Start, Destroy,
                Construct, vars, registryVars, TypeOK
  <2>3. ASSUME NEW e \in queue \cup Executing, e.key = k PROVE e \in queue' \cup Executing'
    <3>1. CASE Dispatch
      BY <3>1 DEF Dispatch, LoopIdle, Executing
    <3>2. CASE EraseKey
      BY <2>2, <2>3, <3>2 DEF EraseKey, Executing, TypeOK
    <3>3. CASE \E c \in Contexts : Destroy(c)
      <4>1. PICK c \in Contexts : Destroy(c)
        BY <3>3
      <4>2. k[1] # c /\ Executing = {}
        BY <4>1 DEF Destroy, LoopIdle, Executing
      <4>3. QED
        BY <2>3, <4>1, <4>2 DEF Destroy
    <3>4. CASE MoveInvoker \/ SlotReturns \/ Start \/ (\E c \in Contexts : Construct(c)) \/ UNCHANGED vars
      BY <3>4 DEF MoveInvoker, SlotReturns, Start, Construct, vars, loopVars, Executing
    <3>5. QED
      BY <1>3, <3>1, <3>2, <3>3, <3>4 DEF LoopStep
  <2>4. QED
    BY <1>0, <2>1, <2>2, <2>3 DEF Creating, IsNew
<1>4. QED
  BY <1>0, <1>1, <1>2, <1>3 DEF Next, CallAny

\* Until the thread drops the dispatcher it has installed, every entry of the registry has
\* somebody who will take it out: no pair of context and slot is disabled, by calls that fail
\* before the dispatcher exists or by objects that die and are replaced.
THEOREM NoEntryIsForgotten == Safety => []EntryServed
<1>1. Init => ServedInv
  BY DEF Init, ServedInv, PostsArrive, EntryServed, Served
<1>2. TypeOK /\ CallInv /\ ServedInv /\ [Next]_vars => ServedInv'
  BY TypeStep, PostsArriveStep, EntryServedStep DEF ServedInv, CallInv
<1>3. ServedInv => EntryServed
  BY DEF ServedInv
<1>4. QED
  BY <1>1, <1>2, <1>3, TypeCorrect, CallInvariant, PTL DEF Safety
-----------------------------------------------------------------------------
(* No call is lost but one that was overtaken, or given up by the creator  *)
(* of the entry it joined.                                                 *)

Held(n) == \/ \E e \in queue : e.node = n
           \/ stage \in {"erase", "move"} /\ current.node = n
           \/ \E t \in Callers : Creating(t) /\ op[t].node = n

\* Somebody is going to look into a node that has an invoker, or the call is lost.
LEMMA HeldOrStranded == \A n \in Calls : Stranded(n) <=> invoker[n] # None /\ ~Held(n)
BY DEF Stranded, Held

\* The steps of a call leave no invoker behind, except the store of an overtaken one and the
\* end of one that finds no dispatcher.
LEMMA CallLosesNothing ==
  ASSUME TypeOK, Carriers, PostsArrive, EntryServed, Undropped', [Next]_vars,
         NEW t \in Callers, CallStep(t),
         NEW n \in Calls, Stranded(n)', ~Stranded(n)
  PROVE  op[t].node = n /\ (Undo(t) \/ (Store(t) /\ Overtaken(t)))
<1>1. /\ pc[t] # "idle" /\ op[t] \in Op /\ op[t].key \in Keys /\ op[t].node \in Calls
      /\ \A u \in Callers \ {t} : pc'[u] = pc[u] /\ op'[u] = op[u]
      /\ stage' = stage /\ current' = current
  BY CallOnly, Fields DEF loopVars
<1>2. Undropped /\ (pc[t] = "post" => open /\ op[t].run = run)
  BY Dropped
<1>3. invoker'[n] # None /\ ~Held(n)' /\ (invoker[n] = None \/ Held(n))
  BY HeldOrStranded DEF Stranded, Held
<1>4. \A u \in Callers \ {t} : Creating(u) => Creating(u)' /\ op'[u].node = op[u].node
  BY <1>1 DEF Creating, IsNew
<1>5. CASE Store(t)
  <2>1. queue' = queue /\ invoker' = [invoker EXCEPT ![op[t].node] = op[t].id]
    BY <1>5 DEF Store
  <2>2. IsNew(t) => Creating(t)' /\ op'[t].node = op[t].node
    BY <1>5 DEF Store, Creating, IsNew, TypeOK
  <2>3. op[t].node = n
    <3>1. SUFFICES ASSUME op[t].node # n PROVE FALSE
      OBVIOUS
    <3>2. Held(n)
      BY <1>1, <1>3, <2>1, <3>1 DEF TypeOK
    <3>3. Held(n)'
      BY <1>1, <1>4, <2>1, <3>1, <3>2 DEF Held
    <3>4. QED
      BY <1>3, <3>3
  <2>4. ~IsNew(t)
    BY <1>3, <2>2, <2>3 DEF Held
  <2>5. ASSUME ~Overtaken(t) PROVE FALSE
    <3>1. pending[op[t].key] = n /\ n # None
      BY <2>3, <2>5 DEF Overtaken, Calls, None
    <3>2. \/ \E e \in queue \cup Executing : e.node = n
          \/ \E u \in Callers : Creating(u) /\ op[u].key = op[t].key
      BY <1>1, <1>2, <3>1 DEF EntryServed, Served
    <3>3. \A u \in Callers : Creating(u) /\ op[u].key = op[t].key => u # t /\ op[u].node = n
      BY <2>4, <3>1 DEF Carriers, Creating, IsNew
    <3>4. Held(n)'
      BY <1>1, <1>4, <2>1, <3>2, <3>3 DEF Held, Executing
    <3>5. QED
      BY <1>3, <3>4
  <2>6. QED
    BY <1>5, <2>3, <2>5
<1>6. ASSUME Resolve(t) \/ Post(t) PROVE FALSE
  <2>1. invoker'[n] = invoker[n] /\ Held(n)
    BY <1>1, <1>3, <1>6 DEF Resolve, Post, registryVars, TypeOK
  <2>2. queue \subseteq queue'
    BY <1>6 DEF Resolve, Post
  <2>3. ~(Creating(t) /\ op[t].node = n)
    <3>1. CASE Resolve(t)
      <4>1. Creating(t) => Creating(t)' /\ op'[t].node = op[t].node
        BY <1>1, <3>1, CallOnly DEF Resolve, Creating, IsNew, TypeOK
      <4>2. QED
        BY <1>3, <4>1 DEF Held
    <3>2. CASE Post(t)
      <4>1. MetacallOf(t) \in queue' /\ MetacallOf(t).node = op[t].node
        BY <1>2, <3>2 DEF Post, MetacallOf
      <4>2. QED
        BY <1>3, <4>1 DEF Held
    <3>3. QED
      BY <1>6, <3>1, <3>2
  <2>4. Held(n)'
    BY <1>1, <1>4, <2>1, <2>2, <2>3 DEF Held
  <2>5. QED
    BY <1>3, <2>4
<1>7. CASE Undo(t)
  <2>1. invoker' = invoker /\ queue' = queue
    BY <1>7 DEF Undo
  <2>2. Held(n) /\ ~\E e \in queue : e.node = n
    BY <1>3, <2>1 DEF Held
  <2>3. ~(stage \in {"erase", "move"} /\ current.node = n)
    BY <1>1, <1>3 DEF Held
  <2>4. Creating(t) /\ op[t].node = n
    BY <1>3, <1>4, <2>2, <2>3 DEF Held
  <2>5. QED
    BY <1>7, <2>4
<1>8. QED
  BY <1>5, <1>6, <1>7 DEF CallStep

\* Nor do the thread, the death of a context, and calls that begin.
LEMMA OthersLoseNothing ==
  ASSUME TypeOK, PostsArrive, Undropped', [Next]_vars,
         ~\E t \in Callers : CallStep(t),
         NEW n \in Calls, Stranded(n)'
  PROVE  Stranded(n)
<1>1. SUFFICES ASSUME ~Stranded(n) PROVE FALSE
  OBVIOUS
<1>2. invoker'[n] # None /\ ~Held(n)' /\ (invoker[n] = None \/ Held(n))
  BY <1>1, HeldOrStranded DEF Stranded, Held
<1>3. ~Stop
  BY Dropped
<1>4. ASSUME NEW t \in Callers, NEW k \in Keys, Find(t, k) PROVE FALSE
  <2>1. /\ pc[t] = "idle" /\ UNCHANGED <<invoker, queue, stage, current>>
        /\ \A u \in Callers \ {t} : op'[u] = op[u] /\ pc'[u] = pc[u]
    BY <1>4 DEF Find, loopVars, TypeOK
  <2>2. Held(n) => Held(n)'
    BY <2>1 DEF Held, Creating, IsNew
  <2>3. QED
    BY <1>2, <2>1, <2>2
<1>5. ASSUME \/ LoopStep \/ Start
             \/ \E c \in Contexts : Destroy(c) \/ Construct(c)
             \/ UNCHANGED vars
      PROVE  FALSE
  <2>1. pc' = pc /\ op' = op
    BY <1>5 DEF LoopStep, Dispatch, EraseKey, MoveInvoker, SlotReturns, Start, Destroy, Construct,
                vars, callerVars
  <2>2. invoker'[n] = invoker[n]
    BY <1>2, <1>5, Fields DEF LoopStep, Dispatch, EraseKey, MoveInvoker, SlotReturns, Start, Destroy,
                Construct, vars, registryVars, TypeOK
  <2>3. ASSUME \E e \in queue : e.node = n PROVE Held(n)'
    <3>1. PICK e \in queue : e.node = n
      BY <2>3
    <3>2. CASE Dispatch
      BY <3>1, <3>2 DEF Dispatch, Held
    <3>3. CASE \E c \in Contexts : Destroy(c)
      <4>1. PICK c \in Contexts : Destroy(c)
        BY <3>3
      <4>2. e.key[1] # c
        BY <1>2, <3>1, <4>1 DEF Destroy
      <4>3. QED
        BY <3>1, <4>1, <4>2 DEF Destroy, Held
    <3>4. CASE ~Dispatch /\ ~\E c \in Contexts : Destroy(c)
      <4>1. queue' = queue
        BY <1>5, <3>4 DEF LoopStep, EraseKey, MoveInvoker, SlotReturns, Start, Construct, vars
      <4>2. QED
        BY <3>1, <4>1 DEF Held
    <3>5. QED
      BY <3>2, <3>3, <3>4
  <2>4. ASSUME stage \in {"erase", "move"}, current.node = n PROVE Held(n)'
    <3>1. ~MoveInvoker
      BY <1>2, <2>4, Fields DEF MoveInvoker, TypeOK
    <3>2. stage' \in {"erase", "move"} /\ current' = current
      BY <1>5, <2>4, <3>1 DEF LoopStep, Dispatch, EraseKey, SlotReturns, Start, Destroy, Construct,
                LoopIdle, vars, loopVars
    <3>3. QED
      BY <2>4, <3>2 DEF Held
  <2>5. Held(n)'
    BY <1>2, <2>1, <2>2, <2>3, <2>4 DEF Held, Creating, IsNew
  <2>6. QED
    BY <1>2, <2>5
<1>6. QED
  BY <1>3, <1>4, <1>5 DEF Next, CallAny

\* A call that is lost stays lost: nobody comes to hold its node again, since only the creator
\* of a node hands it on, and a new node has a new number.
LEMMA TheLostStayLost ==
  ASSUME TypeOK, Carriers, Overwrites, Next, NEW n \in Calls, Stranded(n)
  PROVE  Stranded(n)'
<1>1. invoker[n] # None /\ ~Held(n) /\ n <= calls
  BY HeldOrStranded DEF Overwrites, TypeOK, Calls
<1>2. SUFFICES invoker'[n] # None /\ ~Held(n)'
  BY DEF Stranded, Held
<1>3. ASSUME NEW t \in Callers, NEW k \in Keys, Find(t, k)
      PROVE  invoker'[n] # None /\ ~Held(n)'
  <2>1. /\ UNCHANGED <<invoker, queue, stage, current>> /\ op'[t].id = calls + 1
        /\ \A u \in Callers \ {t} : op'[u] = op[u] /\ pc'[u] = pc[u]
    BY <1>3 DEF Find, loopVars, TypeOK
  <2>2. Creating(t)' => op'[t].node = calls + 1
    BY <2>1 DEF Creating, IsNew
  <2>3. ~Held(n)'
    BY <1>1, <2>1, <2>2 DEF Held, Creating, IsNew, TypeOK, Calls
  <2>4. QED
    BY <1>1, <2>1, <2>3
<1>4. ASSUME NEW t \in Callers, CallStep(t)
      PROVE  invoker'[n] # None /\ ~Held(n)'
  <2>1. /\ op[t].id \in Calls /\ stage' = stage /\ current' = current
        /\ \A u \in Callers \ {t} : pc'[u] = pc[u] /\ op'[u] = op[u]
        /\ pc[t] # "idle"
    BY <1>4, CallOnly, Fields DEF loopVars
  <2>2. invoker'[n] # None
    BY <1>1, <1>4, <2>1, Invokers DEF Calls, None
  <2>3. Creating(t)' => Creating(t) /\ op'[t].node = op[t].node
    BY <1>4, <2>1, CallOnly DEF Creating, IsNew
  <2>4. \A e \in queue' : e \in queue \/ (Creating(t) /\ e.node = op[t].node)
    <3>1. CASE Post(t)
      BY <2>1, <3>1 DEF Post, MetacallOf, Carriers, Creating
    <3>2. CASE Store(t) \/ Resolve(t) \/ Undo(t)
      BY <3>2 DEF Store, Resolve, Undo
    <3>3. QED
      BY <1>4, <3>1, <3>2 DEF CallStep
  <2>5. \A u \in Callers : Creating(u)' => Creating(u) /\ op'[u].node = op[u].node
    BY <2>1, <2>3 DEF Creating, IsNew
  <2>6. QED
    BY <1>1, <2>1, <2>2, <2>4, <2>5 DEF Held
<1>5. ASSUME \/ LoopStep \/ Start \/ Stop
             \/ \E c \in Contexts : Destroy(c) \/ Construct(c)
      PROVE  invoker'[n] # None /\ ~Held(n)'
  <2>1. pc' = pc /\ op' = op /\ queue' \subseteq queue
    BY <1>5 DEF LoopStep, Dispatch, EraseKey, MoveInvoker, SlotReturns, Start, Stop, Destroy, Construct,
                callerVars
  <2>2. stage' \in {"erase", "move"} => current' \in queue \/ (stage \in {"erase", "move"} /\ current' = current)
    BY <1>5 DEF LoopStep, Dispatch, EraseKey, MoveInvoker, SlotReturns, Start, Stop, Destroy, Construct,
                loopVars
  <2>3. ~Held(n)'
    BY <1>1, <2>1, <2>2 DEF Held, Creating, IsNew
  <2>4. invoker'[n] = invoker[n]
    BY <1>1, <1>5, Fields DEF Held, LoopStep, Dispatch, EraseKey, MoveInvoker, SlotReturns, Start, Stop,
                Destroy, Construct, registryVars, TypeOK
  <2>5. QED
    BY <1>1, <2>3, <2>4
<1>6. QED
  BY <1>3, <1>4, <1>5 DEF Next, CallAny

\* What leaves a node without another in its place is run, unless its context has died.
LEMMA TheTakenRun ==
  ASSUME TypeOK, Next, NEW n \in Calls, invoker[n] # None, invoker'[n] = None
  PROVE  running' = invoker[n] \/ ContextDied(n)
<1>1. ~\E t \in Callers : CallStep(t)
  BY CallOnly, Fields, Invokers DEF Calls, None
<1>2. MoveInvoker \/ \E c \in Contexts : Destroy(c)
  BY <1>1 DEF Next, CallAny, Find, LoopStep, Dispatch, EraseKey, SlotReturns, Start, Stop, Construct,
              registryVars
<1>3. CASE MoveInvoker
  <2>1. current.node = n /\ alive' = alive
    BY <1>3, Fields DEF MoveInvoker, TypeOK
  <2>2. QED
    BY <1>3, <2>1 DEF MoveInvoker, ContextDied
<1>4. CASE \E c \in Contexts : Destroy(c)
  BY <1>4 DEF Destroy, ContextDied, TypeOK
<1>5. QED
  BY <1>2, <1>3, <1>4

\* Before the thread stops a call can be lost in two ways only: it stored its invoker after the
\* entry it had joined was taken out of the registry, which CallLater_overtaken shows, or the
\* creator of the entry found no dispatcher and gave up, with what the creator itself or a caller
\* that joined it in time had stored. A loss is for good; and an invoker taken out of its node
\* runs, or its context is dead.
THEOREM OnlyTheForsakenAreLost == Safety => LostOnlyIfForsaken
<1>1. Init => ServedInv
  BY DEF Init, ServedInv, PostsArrive, EntryServed, Served
<1>2. TypeOK /\ CallInv /\ ServedInv /\ [Next]_vars => ServedInv'
  BY TypeStep, PostsArriveStep, EntryServedStep DEF ServedInv, CallInv
<1>3. TypeOK /\ CallInv /\ ServedInv /\ [Next]_vars => [LossesExplained]_vars
  <2> SUFFICES ASSUME TypeOK, CallInv, ServedInv, Next, NEW n \in Calls
               PROVE  /\ Undropped' /\ Stranded(n)' /\ ~Stranded(n) => Forsaken(n)
                      /\ Stranded(n) => Stranded(n)'
                      /\ invoker[n] # None /\ invoker'[n] = None => running' = invoker[n] \/ ContextDied(n)
    BY DEF LossesExplained
  <2>1. Carriers /\ Overwrites /\ PostsArrive /\ EntryServed
    BY DEF CallInv, ServedInv
  <2>2. Undropped' /\ Stranded(n)' /\ ~Stranded(n) => Forsaken(n)
    BY <2>1, CallLosesNothing, OthersLoseNothing DEF Forsaken
  <2>3. QED
    BY <2>1, <2>2, TheLostStayLost, TheTakenRun
<1>4. QED
  BY <1>1, <1>2, <1>3, TypeCorrect, CallInvariant, PTL DEF Safety, LostOnlyIfForsaken

-----------------------------------------------------------------------------
(* The context's own thread.                                               *)

\* Calls begin once there has been a dispatcher, and the loop is inside none while it executes
\* a metacall; so nobody gives up while the thread keeps its dispatcher.
OwnInv ==
  /\ pc[Loop] # "idle" => stage \in {"loop", "slot"}
  /\ \A t \in Callers : pc[t] # "idle" => run # None
  /\ Undropped => \A t \in Callers : pc[t] # "undo"
  /\ OwnCallsInTime

LEMMA OwnStep ==
  ASSUME EarlyCalls = FALSE \/ Threads = {},
         TypeOK, PostsArrive, OwnInv, [Next]_vars
  PROVE  OwnInv'
<1> USE ConstantsAssumption
<1>0. Loop \in Callers /\ pc \in [Callers -> {"idle", "store", "resolve", "post", "undo"}]
  BY DEF Callers, TypeOK
<1>1. Undropped' => Undropped /\ ~Stop
  BY Dropped
<1>2. ASSUME NEW t \in Callers, NEW k \in Keys, Find(t, k) PROVE OwnInv'
  <2> DEFINE node == IF pending[k] # None THEN pending[k] ELSE calls + 1
             new == [key |-> k, id |-> calls + 1, node |-> node, run |-> None]
  <2>1. /\ pc[t] = "idle" /\ MayRun(t) /\ (EarlyCalls \/ run # None)
        /\ op' = [op EXCEPT ![t] = new] /\ pc' = [pc EXCEPT ![t] = "store"]
        /\ pending' = [pending EXCEPT ![k] = node]
        /\ run' = run /\ open' = open /\ stage' = stage
    BY <1>2 DEF Find, loopVars
  <2>2. run # None
    <3>1. CASE Threads = {}
      <4>1. t = Loop /\ stage # "stopped"
        BY <2>1, <3>1 DEF Callers, MayRun
      <4>2. QED
        BY <4>1 DEF PostsArrive, TypeOK
    <3>2. CASE EarlyCalls = FALSE
      BY <2>1, <3>2
    <3>3. QED
      BY <3>1, <3>2
  <2>3. new.key = k /\ new.node = node
    OBVIOUS
  <2>4. \A j \in Keys : pending[j] # None => pending'[j] = pending[j]
    BY <2>1 DEF TypeOK
  <2>5. op'[t] = new /\ pending'[k] = node /\ \A u \in Callers \ {t} : op'[u] = op[u] /\ pc'[u] = pc[u]
    BY <2>1 DEF TypeOK
  <2> HIDE DEF node, new
  <2>6. OwnCallsInTime'
    <3>1. SUFFICES ASSUME Undropped', pc'[Loop] = "store" PROVE ~Overtaken(Loop)'
      BY DEF OwnCallsInTime
    <3>2. CASE t = Loop
      BY <2>3, <2>5, <3>2 DEF Overtaken
    <3>3. CASE t # Loop
      <4>1. /\ pending[op[Loop].key] = op[Loop].node
            /\ op'[Loop] = op[Loop] /\ op[Loop] \in Op
        BY <1>0, <1>1, <2>5, <3>1, <3>3 DEF OwnInv, OwnCallsInTime, Overtaken, TypeOK
      <4>2. op[Loop].key \in Keys /\ op[Loop].node # None
        BY <4>1, Fields DEF Calls, None
      <4>3. QED
        BY <2>4, <4>1, <4>2 DEF Overtaken
    <3>4. QED
      BY <3>2, <3>3
  <2>7. QED
    BY <1>0, <1>1, <2>1, <2>2, <2>5, <2>6 DEF OwnInv, MayRun
<1>3. ASSUME NEW t \in Callers, CallStep(t) PROVE OwnInv'
  <2>1. /\ pc[t] # "idle" /\ run' = run /\ open' = open /\ stage' = stage
        /\ \A u \in Callers \ {t} : pc'[u] = pc[u] /\ op'[u] = op[u]
    BY <1>3, CallOnly DEF loopVars
  <2>2. Undropped' => pc'[t] # "undo" /\ ~Undo(t)
    <3>1. Undropped' => open /\ pc[t] # "undo"
      BY <1>1, <2>1 DEF OwnInv, Undropped
    <3>2. QED
      BY <1>3, <3>1 DEF CallStep, Store, Resolve, Post, Undo, Return, TypeOK
  <2>3. OwnCallsInTime'
    <3>1. SUFFICES ASSUME Undropped', pc'[Loop] = "store" PROVE ~Overtaken(Loop)'
      BY DEF OwnCallsInTime
    <3>2. t # Loop
      BY <1>3, <3>1 DEF CallStep, Store, Resolve, Post, Undo, Return, TypeOK
    <3>3. pending' = pending
      BY <1>3, <2>2, <3>1 DEF CallStep, Store, Resolve, Post, registryVars
    <3>4. QED
      BY <1>0, <1>1, <2>1, <3>1, <3>2, <3>3 DEF OwnInv, OwnCallsInTime, Overtaken
  <2>4. QED
    BY <1>0, <1>1, <2>1, <2>2, <2>3 DEF OwnInv
<1>4. CASE LoopStep \/ Start \/ Stop \/ (\E c \in Contexts : Destroy(c) \/ Construct(c)) \/ UNCHANGED vars
  <2>1. pc' = pc /\ op' = op
    BY <1>4 DEF LoopStep, Dispatch, EraseKey, MoveInvoker, SlotReturns, Start, Stop, Destroy, Construct,
                vars, callerVars
  <2>2. pc[Loop] # "idle" => stage' = stage
    BY <1>4 DEF OwnInv, LoopStep, Dispatch, EraseKey, MoveInvoker, SlotReturns, Start, Stop, Destroy,
                Construct, LoopIdle, vars, loopVars
  <2>3. run # None => run' # None
    BY <1>4 DEF LoopStep, Dispatch, EraseKey, MoveInvoker, SlotReturns, Start, Stop, Destroy, Construct,
                vars, loopVars, TypeOK, None
  <2>4. pc[Loop] = "store" => pending'[op[Loop].key] = pending[op[Loop].key]
    <3>1. SUFFICES ASSUME pc[Loop] = "store" PROVE pending'[op[Loop].key] = pending[op[Loop].key]
      OBVIOUS
    <3>2. op[Loop].key \in Keys /\ ~EraseKey
      BY <1>0, <3>1, Fields DEF TypeOK, OwnInv, EraseKey
    <3>3. CASE \E c \in Contexts : Destroy(c)
      BY <1>0, <3>1, <3>2, <3>3 DEF Destroy
    <3>4. CASE ~\E c \in Contexts : Destroy(c)
      BY <1>4, <3>2, <3>4 DEF LoopStep, Dispatch, MoveInvoker, SlotReturns, Start, Stop, Construct,
                vars, registryVars
    <3>5. QED
      BY <3>3, <3>4
  <2>5. QED
    BY <1>1, <2>1, <2>2, <2>3, <2>4 DEF OwnInv, OwnCallsInTime, Overtaken
<1>5. QED
  BY <1>2, <1>3, <1>4 DEF Next, CallAny

\* The loop thread is never overtaken by the metacall it counts on, whatever other threads do,
\* if nobody calls before there is a dispatcher, or nobody else calls at all.
THEOREM OwnCallsAreInTime ==
  EarlyCalls = FALSE \/ Threads = {} => (Safety => []OwnCallsInTime)
<1> SUFFICES ASSUME EarlyCalls = FALSE \/ Threads = {} PROVE Safety => []OwnCallsInTime
  OBVIOUS
<1>1. Init => ServedInv /\ OwnInv
  BY ConstantsAssumption DEF Init, ServedInv, PostsArrive, EntryServed, Served, OwnInv, OwnCallsInTime, Callers
<1>2. TypeOK /\ CallInv /\ ServedInv /\ OwnInv /\ [Next]_vars => ServedInv' /\ OwnInv'
  BY TypeStep, PostsArriveStep, EntryServedStep, OwnStep DEF ServedInv, CallInv
<1>3. OwnInv => OwnCallsInTime
  BY DEF OwnInv
<1>4. QED
  BY <1>1, <1>2, <1>3, TypeCorrect, CallInvariant, PTL DEF Safety

\* Where only the context's own thread calls, no call is lost before it stops: the counterpart of
\* CallLater_overtaken, which has one thread more.
THEOREM OwnCallsAreNotLost ==
  Threads = {} => (Safety => [](Undropped => NothingStranded))
<1> SUFFICES ASSUME Threads = {} PROVE Safety => [](Undropped => NothingStranded)
  OBVIOUS
<1>1. Init => ServedInv /\ OwnInv /\ NothingStranded
  BY ConstantsAssumption DEF Init, ServedInv, PostsArrive, EntryServed, Served, OwnInv, OwnCallsInTime,
     Callers, NothingStranded, Stranded
<1>2. TypeOK /\ CallInv /\ ServedInv /\ OwnInv /\ [Next]_vars => ServedInv' /\ OwnInv'
  BY TypeStep, PostsArriveStep, EntryServedStep, OwnStep DEF ServedInv, CallInv
<1>3. TypeOK /\ CallInv /\ ServedInv /\ OwnInv /\ [Next]_vars /\ (Undropped => NothingStranded)
        => (Undropped => NothingStranded)'
  <2> SUFFICES ASSUME TypeOK, CallInv, ServedInv, OwnInv, [Next]_vars, Undropped => NothingStranded,
                      Undropped', NEW n \in Calls, Stranded(n)'
               PROVE  FALSE
    BY DEF NothingStranded
  <2>1. Carriers /\ PostsArrive /\ EntryServed
    BY DEF CallInv, ServedInv
  <2>2. Undropped /\ ~Stranded(n)
    BY <2>1, Dropped DEF NothingStranded
  <2>3. PICK t \in Callers : Store(t) /\ Overtaken(t)
    <3>1. PICK t \in Callers : Undo(t) \/ (Store(t) /\ Overtaken(t))
      BY <2>1, <2>2, CallLosesNothing, OthersLoseNothing
    <3>2. ~Undo(t)
      BY <2>2 DEF OwnInv, Undo
    <3>3. QED
      BY <3>1, <3>2
  <2>4. t = Loop /\ pc[t] = "store"
    BY <2>3 DEF Callers, Store
  <2>5. QED
    BY <2>2, <2>3, <2>4 DEF OwnInv, OwnCallsInTime
<1>4. QED
  BY <1>1, <1>2, <1>3, TypeCorrect, CallInvariant, PTL DEF Safety
-----------------------------------------------------------------------------
\* An invoker is in one place.
OneNode ==
  /\ \A n \in Calls : invoker[n] <= calls
  /\ \A m, n \in Calls : invoker[m] # None /\ invoker[m] = invoker[n] => m = n
  /\ \A t \in Callers, n \in Calls : pc[t] = "store" => invoker[n] # op[t].id

\* It gets there from the hands of its caller and nowhere else; and only a new call is in hand
\* that was not before.
LEMMA HowInvokersMove ==
  ASSUME TypeOK, Numbered, [Next]_vars
  PROVE  /\ \/ \A n \in Calls : invoker'[n] \in {invoker[n], None}
            \/ \E t \in Callers : /\ pc[t] = "store" /\ pc'[t] # "store" /\ op[t].node \in Calls
                                  /\ op[t].id \in Calls
                                  /\ invoker' = [invoker EXCEPT ![op[t].node] = op[t].id]
         /\ \A u \in Callers : pc'[u] = "store" =>
              \/ pc[u] = "store" /\ op'[u] = op[u]
              \/ op'[u].id = calls' /\ calls' = calls + 1 /\ invoker' = invoker
         /\ calls' \in {calls, calls + 1}
<1>1. ASSUME NEW t \in Callers, NEW k \in Keys, Find(t, k)
      PROVE  /\ invoker' = invoker /\ calls' = calls + 1
             /\ \A u \in Callers : pc'[u] = "store" =>
                  (pc[u] = "store" /\ op'[u] = op[u]) \/ op'[u].id = calls'
  BY <1>1 DEF Find, TypeOK
<1>2. ASSUME NEW t \in Callers, CallStep(t)
      PROVE  /\ calls' = calls
             /\ \A u \in Callers : pc'[u] = "store" => pc[u] = "store" /\ op'[u] = op[u]
             /\ \/ \A n \in Calls : invoker'[n] \in {invoker[n], None}
                \/ /\ pc[t] = "store" /\ pc'[t] # "store" /\ op[t].node \in Calls /\ op[t].id \in Calls
                   /\ invoker' = [invoker EXCEPT ![op[t].node] = op[t].id]
  <2>1. op[t].node \in Calls /\ op[t].id \in Calls /\ calls' = calls
    BY <1>2, CallOnly, Fields
  <2>2. pc'[t] # "store"
    BY <1>2 DEF CallStep, Store, Resolve, Post, Undo, Return, TypeOK
  <2>3. CASE Store(t)
    BY <1>2, <2>1, <2>2, <2>3, CallOnly DEF Store
  <2>4. CASE Resolve(t) \/ Post(t) \/ Undo(t)
    <3>1. \A n \in Calls : invoker'[n] \in {invoker[n], None}
      BY <2>1, <2>4 DEF Resolve, Post, Undo, registryVars, TypeOK
    <3>2. QED
      BY <1>2, <2>1, <2>2, <3>1, CallOnly
  <2>5. QED
    BY <1>2, <2>3, <2>4 DEF CallStep
<1>3. CASE \/ LoopStep \/ Start \/ Stop
           \/ \E c \in Contexts : Destroy(c) \/ Construct(c)
           \/ UNCHANGED vars
  <2>1. UNCHANGED <<pc, op, calls>>
    BY <1>3 DEF LoopStep, Dispatch, EraseKey, MoveInvoker, SlotReturns, Start, Stop, Destroy, Construct,
         vars, callerVars, history
  <2>2. \A n \in Calls : invoker'[n] \in {invoker[n], None}
    BY <1>3, Fields DEF LoopStep, Dispatch, EraseKey, MoveInvoker, SlotReturns, Start, Stop, Destroy,
         Construct, vars, registryVars, TypeOK
  <2>3. QED
    BY <2>1, <2>2
<1>4. CASE \E t \in Callers, k \in Keys : Find(t, k)
  BY <1>1, <1>4
<1>5. CASE \E t \in Callers : CallStep(t)
  BY <1>2, <1>5
<1>6. QED
  BY <1>3, <1>4, <1>5 DEF Next, CallAny

LEMMA OneNodeStep ==
  ASSUME TypeOK, Numbered, OneNode, [Next]_vars
  PROVE  /\ OneNode'
         /\ \A c \in Calls : c <= calls /\ ~Waits(c) => ~Waits(c)'
<1> USE DEF OneNode
<1>1. /\ calls \in Nat /\ invoker \in [Calls -> 0 .. MaxCalls]
      /\ calls' \in {calls, calls + 1}
      /\ \A t \in Callers : pc[t] = "store" => op[t].id <= calls /\ op[t].id \in Calls
      /\ \A t, u \in Callers : pc[t] = "store" /\ pc[u] = "store" /\ op[u].id = op[t].id => u = t
  BY HowInvokersMove, Fields DEF TypeOK, Numbered
<1>2. \A u \in Callers : pc'[u] = "store" =>
        \/ pc[u] = "store" /\ op'[u] = op[u]
        \/ op'[u].id = calls' /\ calls' = calls + 1 /\ invoker' = invoker
  BY HowInvokersMove
<1>3. CASE \A n \in Calls : invoker'[n] \in {invoker[n], None}
  <2>1. OneNode'
    BY <1>1, <1>2, <1>3 DEF None, Calls
  <2>2. \A c \in Calls : c <= calls /\ ~Waits(c) => ~Waits(c)'
    BY <1>1, <1>2, <1>3 DEF Waits, None, Calls
  <2>3. QED
    BY <2>1, <2>2
<1>4. ASSUME NEW t \in Callers, pc[t] = "store", pc'[t] # "store", op[t].node \in Calls, op[t].id \in Calls,
             invoker' = [invoker EXCEPT ![op[t].node] = op[t].id]
      PROVE  OneNode' /\ \A c \in Calls : c <= calls /\ ~Waits(c) => ~Waits(c)'
  <2>1. invoker[op[t].node] # op[t].id /\ invoker'[op[t].node] = op[t].id /\ invoker' # invoker
    BY <1>1, <1>4
  <2>2. \A n \in Calls : n # op[t].node => invoker'[n] = invoker[n]
    BY <1>1, <1>4
  <2>3. OneNode'
    BY <1>1, <1>2, <1>4, <2>1, <2>2 DEF None, Calls
  <2>4. \A c \in Calls : c <= calls /\ ~Waits(c) => ~Waits(c)'
    BY <1>1, <1>2, <1>4, <2>1, <2>2 DEF Waits
  <2>5. QED
    BY <2>3, <2>4
<1>5. QED
  BY <1>3, <1>4, HowInvokersMove

\* No call runs twice, and none that was replaced runs at all: the slot is entered with
\* an invoker that is moved out of the only place it was in.
THEOREM CallsRunOnce == Safety => RunsOnce
<1>1. Init => OneNode
  BY ConstantsAssumption DEF Init, OneNode, None, Calls
<1>2. TypeOK /\ CallInv /\ OneNode /\ [Next]_vars => OneNode'
  BY OneNodeStep DEF CallInv
<1>3. TypeOK /\ CallInv /\ OneNode /\ [Next]_vars => WaitEndsOnce
  <2> SUFFICES ASSUME TypeOK, CallInv, OneNode, [Next]_vars, NEW c \in Calls
               PROVE  /\ (c <= calls /\ ~Waits(c)) => ~Waits(c)'
                      /\ (running' = c /\ running # c) => Waits(c) /\ ~Waits(c)'
    BY DEF WaitEndsOnce
  <2>1. (c <= calls /\ ~Waits(c)) => ~Waits(c)'
    BY OneNodeStep DEF CallInv
  <2>2. ASSUME running' = c, running # c PROVE Waits(c) /\ ~Waits(c)'
    <3>1. MoveInvoker
      BY <2>2, CallOnly DEF Next, CallAny, Find, LoopStep, Dispatch, EraseKey, SlotReturns, Start, Stop,
         Destroy, Construct, vars, loopVars, None, Calls
    <3>2. /\ current.node \in Calls /\ c = invoker[current.node]
          /\ invoker' = [invoker EXCEPT ![current.node] = None] /\ pc' = pc /\ op' = op
      BY <2>2, <3>1, Fields DEF MoveInvoker, TypeOK, None, Calls, callerVars
    <3>3. \A n \in Calls : invoker'[n] # c
      BY <3>2 DEF OneNode, TypeOK, None, Calls
    <3>4. QED
      BY <3>2, <3>3 DEF Waits, OneNode
  <2>3. QED
    BY <2>1, <2>2
<1>4. QED
  BY <1>1, <1>2, <1>3, TypeCorrect, CallInvariant, PTL DEF Safety, RunsOnce
=============================================================================
