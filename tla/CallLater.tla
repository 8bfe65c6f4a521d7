----------------------------- MODULE CallLater -----------------------------
(***************************************************************************)
(* Object::callLater(): calls that are made before the queued one has run  *)
(* collapse into it, and the last one wins.  A process-wide registry maps  *)
(* a (context, slot) key to the node of the call that is waiting; the node *)
(* holds the invoker to run.  The registry and every node have a mutex of  *)
(* their own, and a call goes through them one after the other; a step is  *)
(* one such critical section, one lookup of the dispatcher, or one post.   *)
(*                                                                         *)
(* The contexts live on one thread, Loop, which may start after the first  *)
(* calls, and stop.  What order the loop runs its events in is the matter  *)
(* of EventDispatcher; here it takes any.  A node is named by the number   *)
(* of the call that created it; invokers are calls, too.                   *)
(***************************************************************************)
EXTENDS Naturals

CONSTANTS Threads,    \* callers other than the thread of the contexts
          Loop,       \* the thread the contexts live on
          Contexts, Slots,
          MaxCalls,   \* bound on the number of callLater() calls
          MaxStarts,  \* bound on the number of runs of the loop thread
          MayStop,    \* whether its threadBody() may end, dropping the dispatcher
          EarlyCalls  \* whether calls are made before it has installed one

ASSUME ConstantsAssumption ==
  /\ Loop \notin Threads
  /\ MaxCalls \in Nat /\ MaxStarts \in Nat
  /\ MayStop \in BOOLEAN /\ EarlyCalls \in BOOLEAN

Callers == Threads \cup {Loop}
Keys == Contexts \X Slots
Calls == 1 .. MaxCalls
None == 0
NoKey == <<>>

VARIABLES
  pending,   \* CallLaterRegistry::sPending: the node of each key, or None
  invoker,   \* CallLaterNode::mInvoker of every node: a call, or None when empty
  queue,     \* the metacalls in the queue of the thread's dispatcher
  run,       \* which dispatcher that is: the run of the thread, None before the first
  open,      \* whether ThreadData::mDispatcher is set
  stage,     \* where the loop thread is: stopped, loop, erase, move or slot
  current,   \* the metacall it is executing
  running,   \* the call whose invoker the slot was entered with
  pc, op,    \* each caller's place in scheduleCallLater(), and its locals
  alive,     \* contexts that exist; a new one may take the address of an old one
  calls,     \* history: the number of calls made
  returned,  \* history: the calls of each key that have returned
  before,    \* history: the calls of the same key that had returned when a call began
  settled    \* history: those that had returned when the current metacall was taken

registryVars == <<pending, invoker>>
loopVars == <<run, open, stage, current, running>>
callerVars == <<pc, op>>
history == <<calls, returned, before, settled>>
vars == <<registryVars, queue, loopVars, callerVars, alive, history>>

Metacall == [key : Keys, node : Calls, id : Calls]
NoMetacall == [key |-> NoKey, node |-> None, id |-> None]
Op == [key : Keys, id : Calls, node : Calls, run : 0 .. MaxStarts]
NoOp == [key |-> NoKey, id |-> None, node |-> None, run |-> None]
MetacallOf(t) == [key |-> op[t].key, node |-> op[t].node, id |-> op[t].id]

TypeOK ==
  /\ pending \in [Keys -> 0 .. MaxCalls]
  /\ invoker \in [Calls -> 0 .. MaxCalls]
  /\ queue \subseteq Metacall
  /\ run \in 0 .. MaxStarts /\ open \in BOOLEAN /\ (open => run # None)
  /\ stage \in {"stopped", "loop", "erase", "move", "slot"}
  /\ current \in Metacall \cup {NoMetacall}
  /\ running \in 0 .. MaxCalls
  /\ pc \in [Callers -> {"idle", "store", "resolve", "post", "undo"}]
  /\ op \in [Callers -> Op \cup {NoOp}]
  /\ alive \subseteq Contexts
  /\ calls \in 0 .. MaxCalls
  /\ returned \in [Keys -> SUBSET Calls]
  /\ before \in [Calls -> SUBSET Calls]
  /\ settled \subseteq Calls
  /\ \A t \in Callers : /\ pc[t] # "idle" => op[t] \in Op
                        /\ pc[t] = "post" => op[t].run # None
  /\ stage \in {"erase", "move"} => current \in Metacall

Init ==
  /\ pending = [k \in Keys |-> None]
  /\ invoker = [c \in Calls |-> None]
  /\ queue = {}
  /\ run = None /\ open = FALSE
  /\ stage = "stopped" /\ current = NoMetacall /\ running = None
  /\ pc = [t \in Callers |-> "idle"]
  /\ op = [t \in Callers |-> NoOp]
  /\ alive = Contexts
  /\ calls = 0
  /\ returned = [k \in Keys |-> {}]
  /\ before = [c \in Calls |-> {}]
  /\ settled = {}
-----------------------------------------------------------------------------
(* callLater() and scheduleCallLater().                                    *)

\* User code runs on the loop thread when no event is being executed by the library
\* itself: from a slot a metacall has entered, or from any other event.
MayRun(t) == t = Loop => stage \in {"loop", "slot"}

\* The registry lock: the node of the key, or a new one. The call bounds the model by
\* MaxCalls; it is made on a context that exists.
Find(t, k) ==
  LET id == calls + 1
      node == IF pending[k] # None THEN pending[k] ELSE id
  IN
  /\ pc[t] = "idle" /\ MayRun(t) /\ (EarlyCalls \/ run # None)
  /\ calls < MaxCalls /\ k[1] \in alive
  /\ calls' = id
  /\ before' = [before EXCEPT ![id] = returned[k]]
  /\ pending' = [pending EXCEPT ![k] = node]
  /\ op' = [op EXCEPT ![t] = [key |-> k, id |-> id, node |-> node, run |-> None]]
  /\ pc' = [pc EXCEPT ![t] = "store"]
  /\ UNCHANGED <<invoker, queue, loopVars, alive, returned, settled>>

\* The overloads of callLater() differ in how they make the key; here a call may have any.
CallAny(t) == \E k \in Keys : Find(t, k)

IsNew(t) == op[t].node = op[t].id

Return(t) ==
  /\ pc' = [pc EXCEPT ![t] = "idle"]
  /\ op' = [op EXCEPT ![t] = NoOp]
  /\ returned' = [returned EXCEPT ![op[t].key] = @ \cup {op[t].id}]

\* Mutant: an invoker that is already there is kept.
StoreKeepsFirst(t) ==
  /\ pc[t] = "store"
  /\ invoker' = [invoker EXCEPT ![op[t].node] = IF @ = None THEN op[t].id ELSE @]
  /\ IF IsNew(t) THEN pc' = [pc EXCEPT ![t] = "resolve"] /\ UNCHANGED <<op, returned>>
                 ELSE Return(t)
  /\ UNCHANGED <<pending, queue, loopVars, alive, calls, before, settled>>

\* Mutant: every call queues a metacall of its own.
StoreAlwaysNew(t) ==
  /\ pc[t] = "store"
  /\ invoker' = [invoker EXCEPT ![op[t].node] = op[t].id]
  /\ pc' = [pc EXCEPT ![t] = "resolve"]
  /\ UNCHANGED <<pending, queue, op, loopVars, alive, calls, returned, before, settled>>

\* The node lock: the last one to store is the one that runs.
Store(t) ==
  /\ pc[t] = "store"
  /\ invoker' = [invoker EXCEPT ![op[t].node] = op[t].id]
  /\ IF IsNew(t) THEN pc' = [pc EXCEPT ![t] = "resolve"] /\ UNCHANGED <<op, returned>>
                 ELSE Return(t)
  /\ UNCHANGED <<pending, queue, loopVars, alive, calls, before, settled>>

\* Mutant: nobody looks whether there is a dispatcher.
ResolveBlind(t) ==
  /\ pc[t] = "resolve"
  /\ op' = [op EXCEPT ![t].run = IF open THEN run ELSE None]
  /\ pc' = [pc EXCEPT ![t] = "post"]
  /\ UNCHANGED <<registryVars, queue, loopVars, alive, history>>

\* dispatchMetaCall(): a strong reference to the dispatcher, if there is one.
Resolve(t) ==
  /\ pc[t] = "resolve"
  /\ op' = [op EXCEPT ![t].run = IF open THEN run ELSE None]
  /\ pc' = [pc EXCEPT ![t] = IF open THEN "post" ELSE "undo"]
  /\ UNCHANGED <<registryVars, queue, loopVars, alive, history>>

\* postEvent(). A dispatcher that its thread has dropped meanwhile takes the event just as
\* well, and frees it unseen when the last reference to the dispatcher goes.
Post(t) ==
  /\ pc[t] = "post"
  /\ queue' = IF open /\ op[t].run = run THEN queue \cup {MetacallOf(t)} ELSE queue
  /\ Return(t)
  /\ UNCHANGED <<registryVars, loopVars, alive, calls, before, settled>>

\* Mutant: the entry of a call that could not be posted stays.
UndoForgets(t) ==
  /\ pc[t] = "undo"
  /\ Return(t)
  /\ UNCHANGED <<pending, invoker, queue, loopVars, alive, calls, before, settled>>

\* No dispatcher: the entry is taken back, so that the next call tries again. What is in its
\* node, this call or that of whoever joined the entry meanwhile, is given up.
Undo(t) ==
  /\ pc[t] = "undo"
  /\ pending' = [pending EXCEPT ![op[t].key] = None]
  /\ Return(t)
  /\ UNCHANGED <<invoker, queue, loopVars, alive, calls, before, settled>>
-----------------------------------------------------------------------------
(* The loop thread.                                                        *)

LoopIdle == stage = "loop" /\ pc[Loop] = "idle"

\* An event of the queue is dispatched: Object::event() calls the metacall.
Dispatch ==
  /\ LoopIdle
  /\ \E e \in queue : /\ queue' = queue \ {e} /\ current' = e
                     /\ settled' = returned[e.key]
  /\ stage' = "erase"
  /\ UNCHANGED <<registryVars, run, open, running, callerVars, alive, calls, returned, before>>

\* The registry lock again: from here on a call starts a new node.
EraseKey ==
  /\ stage = "erase"
  /\ pending' = [pending EXCEPT ![current.key] = None]
  /\ stage' = "move"
  /\ UNCHANGED <<invoker, queue, run, open, current, running, callerVars, alive, history>>

\* The node lock again: the invoker is moved out of its node, and called if the
\* context's life token is still there.
MoveInvoker ==
  LET fn == invoker[current.node]
      runs == fn # None /\ current.key[1] \in alive
  IN
  /\ stage = "move"
  /\ invoker' = [invoker EXCEPT ![current.node] = None]
  /\ running' = IF runs THEN fn ELSE None
  /\ stage' = IF runs THEN "slot" ELSE "loop"
  /\ current' = NoMetacall
  /\ UNCHANGED <<pending, queue, run, open, callerVars, alive, history>>

SlotReturns ==
  /\ stage = "slot" /\ pc[Loop] = "idle"
  /\ stage' = "loop" /\ running' = None
  /\ UNCHANGED <<registryVars, queue, run, open, current, callerVars, alive, history>>

\* Mutant: ~Object() leaves its entries in the registry.
DestroyForgets(c) ==
  /\ LoopIdle \/ stage = "stopped"
  /\ c \in alive
  /\ \A t \in Callers : pc[t] # "idle" => op[t].key[1] # c
  /\ alive' = alive \ {c}
  /\ queue' = {e \in queue : e.key[1] # c}
  /\ UNCHANGED <<registryVars, loopVars, callerVars, history>>

\* ~Object(), from a deferred delete or while the thread does not run: the entries of the
\* context go, and so do its events, the last to hold its nodes. Nobody is inside a call on
\* it, which is the caller's part of the bargain.
Destroy(c) ==
  /\ LoopIdle \/ stage = "stopped"
  /\ c \in alive
  /\ \A t \in Callers : pc[t] # "idle" => op[t].key[1] # c
  /\ alive' = alive \ {c}
  /\ pending' = [k \in Keys |-> IF k[1] = c THEN None ELSE pending[k]]
  /\ queue' = {e \in queue : e.key[1] # c}
  /\ invoker' = [n \in Calls |->
       IF \E e \in queue : e.node = n /\ e.key[1] = c THEN None ELSE invoker[n]]
  /\ UNCHANGED <<loopVars, callerVars, history>>

\* A new object at the address of the old one.
Construct(c) ==
  /\ c \notin alive
  /\ alive' = alive \cup {c}
  /\ UNCHANGED <<registryVars, queue, loopVars, callerVars, history>>

\* threadBody() installs a dispatcher ...
Start ==
  /\ stage = "stopped" /\ run < MaxStarts
  /\ run' = run + 1 /\ open' = TRUE /\ stage' = "loop"
  /\ UNCHANGED <<registryVars, queue, current, running, callerVars, alive, history>>

\* ... and drops it at its end. The drain before that looks at deferred deletes only, so
\* the metacalls that are still queued are freed with the dispatcher.
Stop ==
  /\ MayStop /\ LoopIdle
  /\ open' = FALSE /\ queue' = {} /\ stage' = "stopped"
  /\ UNCHANGED <<registryVars, run, current, running, callerVars, alive, history>>
-----------------------------------------------------------------------------
CallStep(t) == Store(t) \/ Resolve(t) \/ Post(t) \/ Undo(t)
LoopStep == Dispatch \/ EraseKey \/ MoveInvoker \/ SlotReturns

Next ==
  \/ \E t \in Callers : CallStep(t) \/ CallAny(t)
  \/ LoopStep
  \/ \E c \in Contexts : Destroy(c) \/ Construct(c)
  \/ Start \/ Stop

Safety == Init /\ [][Next]_vars

\* A call that has begun goes on; a loop thread that runs takes its events, and their
\* slots return. Nothing is assumed of the start of the thread, nor of its end.
Spec == /\ Safety
        /\ \A t \in Callers : WF_vars(CallStep(t))
        /\ WF_vars(LoopStep)
-----------------------------------------------------------------------------
(* Properties.                                                             *)

Creating(t) == pc[t] # "idle" /\ IsNew(t)
Executing == IF stage = "erase" THEN {current} ELSE {}

\* However many calls race, a key has at most one metacall between its post and its
\* execution: that is what collapsing means.
OneQueued ==
  \A e, f \in queue \cup Executing : e.key = f.key => e = f

Served(k) == pending[k] # None =>
  \/ \E e \in queue \cup Executing : e.key = k /\ e.node = pending[k]
  \/ \E t \in Callers : Creating(t) /\ op[t].key = k

\* The thread has kept the dispatcher it once installed, or has none yet.
Undropped == run = None \/ (run = 1 /\ open)

\* Before the thread stops, an entry of the registry is never left without somebody who will
\* take it out: its metacall is queued or about to erase it, or its creator is still at work.
\* Otherwise every later call of that key would join an entry nobody runs.
EntryServed == Undropped => \A k \in Keys : Served(k)

\* The same of a thread that has been started again.
ServedOnceOpen == open => \A k \in Keys : Served(k)

\* A slot never runs with the arguments of a call that another one, made after it and
\* returned before the metacall was taken, should have replaced.
LatestRuns ==
  stage = "slot" => \A c \in settled : running \notin before[c]

\* What makes these inductive. Calls are numbered as they are made, and a call in flight is
\* not yet one that others have followed; ...
Numbered ==
  /\ \A k \in Keys : pending[k] <= calls /\ \A c \in returned[k] : c <= calls
  /\ \A c \in settled : c <= calls
  /\ \A c \in Calls : \A b \in before[c] : b <= calls
  /\ \A t \in Callers : pc[t] # "idle" =>
       /\ op[t].id <= calls /\ op[t].node <= calls
       /\ \A u \in Callers : pc[u] # "idle" /\ op[u].id = op[t].id => u = t
       /\ \A k \in Keys : op[t].id \notin returned[k]
       /\ \A c \in Calls : op[t].id \notin before[c]

\* ... whoever carries a node, its creator or its metacall, carries the node of its entry,
\* and nobody else does; ...
Carriers ==
  /\ \A e \in queue \cup Executing : pending[e.key] = e.node /\ e.id = e.node
  /\ stage = "erase" => current \notin queue
  /\ \A t \in Callers : pc[t] \in {"resolve", "post", "undo"} => IsNew(t)
  /\ \A t \in Callers : Creating(t) =>
       /\ pending[op[t].key] = op[t].id
       /\ \A e \in queue \cup Executing : e.id # op[t].id

\* ... who posts does so to a dispatcher there has been; ...
PostsArrive ==
  /\ open <=> stage # "stopped"
  /\ \A t \in Callers : pc[t] = "post" => op[t].run \in 1 .. run

\* ... and no call is overwritten by one it followed: not in the node of its entry, nor in
\* the node of the metacall that is about to run.
Overwrites ==
  /\ \A n \in Calls : n > calls => invoker[n] = None
  /\ \A k \in Keys : pending[k] # None =>
       \A c \in returned[k] : invoker[pending[k]] \notin before[c]
  /\ \A t \in Callers : pc[t] # "idle" /\ pending[op[t].key] # None =>
       (invoker[pending[op[t].key]] \in before[op[t].id] => pending[op[t].key] = op[t].node)
  /\ \A t \in Callers : pc[t] \in {"resolve", "post", "undo"} =>
       invoker[op[t].node] \notin before[op[t].id]
  /\ stage \in {"erase", "move"} =>
       \A c \in settled : invoker[current.node] \notin before[c]

CallInv == Numbered /\ Carriers /\ Overwrites /\ LatestRuns
ServedInv == PostsArrive /\ EntryServed

\* An invoker in a node nobody is going to look into belongs to a call that never runs
\* (the model keeps the node to tell). A call of another thread
\* may join an entry whose metacall overtakes it, or whose creator gives up.
Stranded(n) == /\ invoker[n] # None
               /\ \A e \in queue : e.node # n
               /\ stage \in {"erase", "move"} => current.node # n
               /\ \A t \in Callers : Creating(t) => op[t].node # n
NothingStranded == \A n \in Calls : ~Stranded(n)

\* Those are the only two ways a call can be lost before the thread stops: it stored its invoker
\* after the entry it had joined was taken out of the registry, or the creator of its entry gave
\* up. No post, no start of the thread and no other call leaves an invoker behind; what is lost
\* stays so; and what is taken out of a node runs, unless its context has died.
Overtaken(t) == pending[op[t].key] # op[t].node
Forsaken(n) == \E t \in Callers :
  op[t].node = n /\ (Undo(t) \/ (Store(t) /\ Overtaken(t)))
ContextDied(n) == \E e \in queue \cup {current} : e.node = n /\ e.key[1] \notin alive'
LossesExplained == \A n \in Calls :
  /\ (Undropped' /\ Stranded(n)' /\ ~Stranded(n)) => Forsaken(n)
  /\ Stranded(n) => Stranded(n)'
  /\ (invoker[n] # None /\ invoker'[n] = None) => running' = invoker[n] \/ ContextDied(n)
LostOnlyIfForsaken == [][LossesExplained]_vars

\* The context's own thread is not overtaken, since it cannot run the metacall while it is
\* inside callLater(): only a creator that gives up, for want of a dispatcher, could.
OwnCallsInTime == (Undropped /\ pc[Loop] = "store") => ~Overtaken(Loop)

\* A call waits while its caller has yet to store its invoker, and while a node holds it. The slot
\* runs with the invoker of a call that was waiting and does not wait any more, and what has
\* been run or replaced never waits again: whichever two locks a caller and the
\* metacall hold, no call runs twice.
Waits(c) == \/ \E t \in Callers : pc[t] = "store" /\ op[t].id = c
            \/ \E n \in Calls : invoker[n] = c
WaitEndsOnce == \A c \in Calls :
  /\ (c <= calls /\ ~Waits(c)) => ~Waits(c)'
  /\ (running' = c /\ running # c) => Waits(c) /\ ~Waits(c)'
RunsOnce == [][WaitEndsOnce]_vars

\* Once a call has made an entry, the loop does get to it: no entry stays for ever, unless the
\* thread stops.
EntryLeaves == \A k \in Keys, n \in Calls :
  (pending[k] = n) ~> (pending[k] # n \/ ~Undropped)
=============================================================================
