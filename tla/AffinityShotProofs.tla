------------------------- MODULE AffinityShotProofs -------------------------
(***************************************************************************)
(* That a single shot is one, for every set of threads, timers and helpers *)
(* and any number of timer ids, whatever objects are moved when.           *)
(***************************************************************************)
EXTENDS AffinityProofs

-----------------------------------------------------------------------------
(* Single shots. A Timer stops itself before it emits; a helper goes on    *)
(* being registered until its deferred delete is dispatched, which the     *)
(* pass does before it looks at its timers.                                *)

DeleteIn(S, o) == \E e \in S : e.obj = o /\ e.kind = "delete"
ArmIn(S, o) == \E e \in S : e.obj = o /\ e.kind = "arm"
Arming(t, o) == call[t].obj = o /\ call[t].kind = "arm"

\* A running timer has not fired as a single shot.
TimerShot(o) == shots[o] <= 1 /\ (timerId[o] # 0 => shots[o] = 0)

\* A helper asks to be deleted when it fires, and only then.
Fired(h) == /\ shots[h] <= 1
            /\ deletePosted[h] => shots[h] = 1
            /\ state[h] = "freed" => shots[h] = 1
            /\ state[h] = "unborn" => shots[h] = 0
            /\ ~Alive(h) => timerId[h] = 0
Condemned(h) == \A t \in Threads : DeleteIn(queue[t] \cup batch[t], h) => shots[h] = 1

\* It is armed once, before anything else happens to it.
Unarmed(h) == \A t \in Threads :
  Arming(t, h) \/ ArmIn(queue[t] \cup batch[t], h) => timerId[h] = 0 /\ shots[h] = 0
OneArm(h) == \A t, u \in Threads :
  /\ Arming(t, h) => ~ArmIn(queue[u] \cup batch[u], h) /\ (Arming(u, h) => t = u)
  /\ ArmIn(queue[t], h) => ~ArmIn(batch[u], h)
  /\ \A e, f \in queue[t] : e.obj = h /\ f.obj = h /\ e.kind = "arm" /\ f.kind = "arm" => e = f
  /\ \A e, f \in batch[t] : e.obj = h /\ f.obj = h /\ e.kind = "arm" /\ f.kind = "arm" => e = f

\* Once it has fired, its thread comes to the deferred delete before it comes to its timer.
DoomedAt(t, h) ==
  \/ DeleteIn(batch[t], h)
  \/ /\ <<h, timerId[h]>> \notin timerBatch[t]
     /\ DeleteIn(queue[t], h) \/ <<h, timerId[h]>> \notin table[t]
Doomed(h) == timerId[h] # 0 /\ shots[h] = 1 => \A t \in Threads : home[h] = t => DoomedAt(t, h)

HelperShot(h) == Fired(h) /\ Condemned(h) /\ Unarmed(h) /\ OneArm(h) /\ Doomed(h)
Shot == (\A o \in Timers : TimerShot(o)) /\ (\A h \in Helpers : HelperShot(h))

\* What a step must leave alone to be none of h's business.
Aside(h) ==
  /\ shots'[h] = shots[h] /\ timerId'[h] = timerId[h] /\ deletePosted'[h] = deletePosted[h]
  /\ state'[h] = state[h] /\ home'[h] = home[h]
  /\ \A t \in Threads :
       /\ \A e \in queue'[t] : e.obj = h => e \in queue[t]
       /\ \A e \in batch'[t] : e.obj = h => e \in batch[t]
       /\ \A e \in queue[t] : e.obj = h /\ Alive(h) => e \in queue'[t]
       /\ \A e \in batch[t] : e.obj = h /\ Alive(h) => e \in batch'[t]
       /\ \A i \in Ids : <<h, i>> \in table'[t] => <<h, i>> \in table[t]
       /\ \A i \in Ids : <<h, i>> \in timerBatch'[t] => <<h, i>> \in timerBatch[t]
       /\ call'[t].obj = h => call[t].obj = h /\ call'[t].kind = call[t].kind

LEMMA AsideKeeps ==
  ASSUME TypeOK, TypeOK', NEW h \in Helpers, HelperShot(h), Aside(h) PROVE HelperShot(h)'
<1>h. h \in Objects
  BY DEF Objects
<1> USE DEF Aside, HelperShot
<1>1. Fired(h)'
  BY DEF Fired, Alive
<1>2. Condemned(h)'
  BY DEF Condemned, DeleteIn
<1>3. Unarmed(h)'
  BY DEF Unarmed, ArmIn, Arming
<1>4. OneArm(h)'
  <2>1. ASSUME NEW t \in Threads, NEW u \in Threads
        PROVE  /\ Arming(t, h)' => Arming(t, h)
               /\ ArmIn(queue'[u], h) => ArmIn(queue[u], h)
               /\ ArmIn(batch'[u], h) => ArmIn(batch[u], h)
               /\ ArmIn(queue'[u] \cup batch'[u], h) => ArmIn(queue[u] \cup batch[u], h)
    BY DEF ArmIn, Arming
  <2>2. ASSUME NEW t \in Threads
        PROVE  /\ \A e, f \in queue'[t] : e.obj = h /\ f.obj = h /\ e.kind = "arm" /\ f.kind = "arm" => e = f
               /\ \A e, f \in batch'[t] : e.obj = h /\ f.obj = h /\ e.kind = "arm" /\ f.kind = "arm" => e = f
    BY DEF OneArm
  <2>3. QED
    BY <2>1, <2>2, Zenon DEF OneArm
<1>5. Doomed(h)'
  <2> SUFFICES ASSUME timerId[h] # 0, shots[h] = 1, NEW t \in Threads, home[h] = t PROVE DoomedAt(t, h)'
    BY DEF Doomed
  <2>1. Alive(h) /\ DoomedAt(t, h) /\ timerId[h] \in Ids
    BY <1>h DEF Fired, Doomed, TypeOK
  <2>2. QED
    BY <2>1 DEF DoomedAt, DeleteIn
<1>6. QED
  BY <1>1, <1>2, <1>3, <1>4, <1>5
\* What is appended is about one object, and the only event that was not there.
LEMMA EnqueueOne ==
  ASSUME TypeOK, NEW u \in Threads, NEW kind, NEW o, NEW ids, Enqueue(u, kind, o, ids)
  PROVE  /\ \A v \in Threads : queue[v] \subseteq queue'[v] /\ (v # u => queue'[v] = queue[v])
         /\ \E e : /\ queue'[u] = queue[u] \cup {e}
                   /\ e.kind = kind /\ e.obj = o /\ e.ids = ids
<1>1. PICK n \in {0} \cup {e.seq + 1 : e \in queue[u]} :
        queue' = [queue EXCEPT ![u] = @ \cup {[seq |-> n, kind |-> kind, obj |-> o, ids |-> ids]}]
  BY DEF Enqueue
<1> DEFINE new == [seq |-> n, kind |-> kind, obj |-> o, ids |-> ids]
<1>2. new.kind = kind /\ new.obj = o /\ new.ids = ids
  OBVIOUS
<1>3. queue'[u] = queue[u] \cup {new} /\ \A v \in Threads : v # u => queue'[v] = queue[v]
  BY <1>1 DEF TypeOK
<1>4. \E e : queue'[u] = queue[u] \cup {e} /\ e.kind = kind /\ e.obj = o /\ e.ids = ids
  BY <1>2, <1>3
<1> HIDE DEF new
<1>5. QED
  BY <1>3, <1>4

\* What Send() does concerns the object it is about alone.
LEMMA SendOthers ==
  ASSUME TypeOK, NEW t \in Threads, NEW kind, NEW o \in Objects, NEW ids, Send(t, kind, o, ids), NEW h, h # o
  PROVE  \A u \in Threads : /\ \A e : e.obj = h => (e \in queue'[u] <=> e \in queue[u])
                            /\ call'[u].obj = h => call'[u] = call[u] \/ h = Nowhere
<1>1. CASE home[o] = t /\ Enqueue(t, kind, o, ids) /\ Return(t)
  <2>1. \A u \in Threads : \A e : e.obj = h => (e \in queue'[u] <=> e \in queue[u])
    BY <1>1, EnqueueOne
  <2>2. \A u \in Threads : call'[u] = call[u] \/ call'[u].obj = Nowhere
    BY <1>1 DEF Return, Begin, NoCall, TypeOK
  <2>3. QED
    BY <2>1, <2>2
<1>2. CASE /\ home[o] # t /\ UNCHANGED queue
           /\ Begin(t, [at |-> "posting", to |-> home[o], dropped |-> FALSE,
                        kind |-> kind, obj |-> o, ids |-> ids])
  BY <1>2 DEF Begin, TypeOK
<1>3. QED
  BY <1>1, <1>2 DEF Send

\* ~Object() takes what the dispatcher has of the object, and nothing of another one.
Gone(o, h) == /\ state'[h] = state[h] /\ timerId'[h] = timerId[h]
              /\ \A u \in Threads : /\ \A e : e.obj = h => (e \in queue'[u] <=> e \in queue[u])
                                    /\ \A i \in Ids : <<h, i>> \in table'[u] => <<h, i>> \in table[u]

LEMMA DestroyOthers ==
  ASSUME TypeOK, NEW o, Destroy(o), NEW h \in Objects, h # o PROVE Gone(o, h)
BY DEF Gone, Destroy, TypeOK

\* Where a thread's queue goes to its batch, as the critical sections of a pass and of the drain
\* take it, a fired helper's deferred delete comes along.
LEMMA TakeKeeps ==
  ASSUME TypeOK, TypeOK', HelpersAtHome, NEW h \in Helpers, HelperShot(h), NEW t \in Threads, batch[t] = {},
         \A u \in Threads : u # t => /\ queue'[u] = queue[u] /\ batch'[u] = batch[u]
                                     /\ timerBatch'[u] = timerBatch[u],
         queue'[t] \cup batch'[t] \subseteq queue[t], queue'[t] \cap batch'[t] = {},
         \A e \in queue[t] : e.kind = "delete" => e \in batch'[t],
         timerBatch'[t] \subseteq timerBatch[t] \cup table[t],
         UNCHANGED <<table, call, shots, timerId, deletePosted, state, home>>
  PROVE  HelperShot(h)'
<1>h. h \in Objects
  BY DEF Objects
<1>1. \A u \in Threads : \A e \in queue[u] \cup batch[u] : e.obj = h => home[h] = u
  BY DEF HelpersAtHome, GoodEvent
<1>2. \A u \in Threads : \A e \in queue'[u] \cup batch'[u] : e \in queue[u] \cup batch[u]
  OBVIOUS
<1> USE DEF HelperShot
<1>3. Fired(h)'
  BY DEF Fired, Alive
<1>4. Condemned(h)'
  BY <1>2 DEF Condemned, DeleteIn
<1>5. Unarmed(h)'
  BY <1>2 DEF Unarmed, ArmIn, Arming
<1>6. OneArm(h)'
  <2>1. ASSUME NEW u \in Threads, NEW v \in Threads
        PROVE  Arming(u, h)' => ~ArmIn(queue'[v] \cup batch'[v], h) /\ (Arming(v, h)' => u = v)
    BY <1>2 DEF OneArm, ArmIn, Arming
  <2>2. ASSUME NEW u \in Threads, NEW v \in Threads, ArmIn(queue'[u], h), ArmIn(batch'[v], h) PROVE FALSE
    <3>1. u = v
      BY <1>1, <1>2, <2>2 DEF ArmIn
    <3>2. CASE u = t
      BY <2>2, <3>1, <3>2 DEF OneArm, ArmIn
    <3>3. CASE u # t
      BY <2>2, <3>1, <3>3 DEF OneArm
    <3>4. QED
      BY <3>2, <3>3
  <2>3. ASSUME NEW u \in Threads
        PROVE  /\ \A e, f \in queue'[u] : e.obj = h /\ f.obj = h /\ e.kind = "arm" /\ f.kind = "arm" => e = f
               /\ \A e, f \in batch'[u] : e.obj = h /\ f.obj = h /\ e.kind = "arm" /\ f.kind = "arm" => e = f
    BY DEF OneArm
  <2>4. QED
    BY <2>1, <2>2, <2>3, Zenon DEF OneArm
<1>7. Doomed(h)'
  <2> SUFFICES ASSUME timerId[h] # 0, shots[h] = 1, NEW u \in Threads, home[h] = u PROVE DoomedAt(u, h)'
    BY DEF Doomed
  <2>1. DoomedAt(u, h)
    BY DEF Doomed
  <2>2. CASE u = t
    BY <2>1, <2>2 DEF DoomedAt, DeleteIn
  <2>3. CASE u # t
    BY <2>1, <2>3 DEF DoomedAt
  <2>4. QED
    BY <2>2, <2>3
<1>8. QED
  BY <1>3, <1>4, <1>5, <1>6, <1>7

\* A dispatcher that goes takes a helper's registration with its deferred delete.
LEMMA ReplaceShot ==
  ASSUME TypeOK, TypeOK', NEW h \in Helpers, HelperShot(h), NEW t \in Threads, Replace(t),
         UNCHANGED <<batch, timerBatch, shots, timerId, deletePosted, state, home>>
  PROVE  HelperShot(h)'
<1>h. h \in Objects
  BY DEF Objects
<1>1. \A u \in Threads : /\ queue'[u] \subseteq queue[u]
                         /\ u # t => queue'[u] = queue[u] /\ table'[u] = table[u]
                         /\ u = t => table'[u] = {}
  BY DEF Replace, TypeOK
<1>2. \A u \in Threads : call'[u].obj = call[u].obj /\ call'[u].kind = call[u].kind
  <2> SUFFICES ASSUME NEW u \in Threads PROVE call'[u].obj = call[u].obj /\ call'[u].kind = call[u].kind
    OBVIOUS
  <2>1. call[u] \in Call
    BY DEF TypeOK
  <2>2. call'[u] = call[u] \/ call'[u] = [call[u] EXCEPT !.dropped = TRUE]
    BY DEF Replace
  <2>3. QED
    BY <2>1, <2>2 DEF Call, NoCall, Moved, Handing
<1> USE DEF HelperShot
<1>3. Fired(h)'
  BY DEF Fired, Alive
<1>4. Condemned(h)'
  BY <1>1 DEF Condemned, DeleteIn
<1>5. \A u \in Threads : /\ Arming(u, h)' <=> Arming(u, h)
                         /\ ArmIn(queue'[u], h) => ArmIn(queue[u], h)
                         /\ ArmIn(queue'[u] \cup batch'[u], h) => ArmIn(queue[u] \cup batch[u], h)
  BY <1>1, <1>2 DEF Arming, ArmIn
<1>6. Unarmed(h)'
  BY <1>5 DEF Unarmed
<1>7. OneArm(h)'
  <2>1. \A u \in Threads :
          /\ \A e, f \in queue'[u] : e.obj = h /\ f.obj = h /\ e.kind = "arm" /\ f.kind = "arm" => e = f
          /\ \A e, f \in batch'[u] : e.obj = h /\ f.obj = h /\ e.kind = "arm" /\ f.kind = "arm" => e = f
    BY <1>1 DEF OneArm
  <2>2. QED
    BY <1>5, <2>1, Zenon DEF OneArm
<1>8. Doomed(h)'
  <2> SUFFICES ASSUME timerId[h] # 0, shots[h] = 1, NEW u \in Threads, home[h] = u PROVE DoomedAt(u, h)'
    BY DEF Doomed
  <2>1. QED
    BY <1>1 DEF Doomed, DoomedAt
<1>9. QED
  BY <1>3, <1>4, <1>6, <1>7, <1>8

\* First what user code does, ...
LEMMA ShotUser ==
  ASSUME TypeOK, TypeOK', HelpersAtHome, Shot, NEW t \in Threads, UserStep(t) PROVE Shot'
<1> USE ThreadsAssumption DEF threadVars, passVars, objectVars
<1>0. PICK o \in Objects :
        \/ Start(t, o) \/ Stop(t, o)
        \/ \E to \in Threads \cup {Nowhere} : Move(t, o, to)
        \/ Emit(t, o) \/ DeleteLater(t, o) \/ Delete(t, o)
        \/ \E context \in Timers : SingleShotCall(t, o, context)
  BY DEF UserStep
<1>t. Timers \cap Helpers = {} /\ Timers \subseteq Objects /\ Helpers \subseteq Objects
  BY ObjectsAssumption DEF Objects
<1>a. (\A x \in Timers : TimerShot(x)') /\ (\A h \in Helpers : Aside(h)) => Shot'
  BY AsideKeeps DEF Shot
<1>s. \A x \in Timers : TimerShot(x)
  BY DEF Shot
<1>1. CASE Start(t, o)
  <2>1. \A x \in Timers : TimerShot(x)'
    BY <1>1, <1>s, <1>t DEF Start, StartTimer, TimerShot, TypeOK
  <2>2. ASSUME NEW h \in Helpers PROVE Aside(h)
    <3>1. h # o /\ h \in Objects /\ h # Nowhere
      BY <1>1, <1>t DEF Start
    <3>2. \A u \in Threads, i \in Ids : <<h, i>> \in table'[u] => <<h, i>> \in table[u]
      BY <1>1, <3>1 DEF Start, StartTimer, TypeOK
    <3>3. shots'[h] = shots[h] /\ timerId'[h] = timerId[h]
      BY <1>1, <3>1 DEF Start, StartTimer, TypeOK
    <3>4. QED
      BY <1>1, <3>1, <3>2, <3>3 DEF Start, Aside
  <2>3. QED
    BY <1>a, <2>1, <2>2
<1>2. CASE Stop(t, o)
  <2>1. \A x \in Timers : TimerShot(x)'
    BY <1>2, <1>s, <1>t DEF Stop, TimerShot, TypeOK
  <2>2. ASSUME NEW h \in Helpers PROVE Aside(h)
    <3>1. h # o /\ h \in Objects /\ h # Nowhere
      BY <1>2, <1>t DEF Stop
    <3>2. \A u \in Threads, i \in Ids : <<h, i>> \in table'[u] => <<h, i>> \in table[u]
      BY <1>2, <3>1 DEF Stop, KillTimer, TypeOK
    <3>3. timerId'[h] = timerId[h]
      BY <1>2, <3>1 DEF Stop, TypeOK
    <3>4. QED
      BY <1>2, <3>1, <3>2, <3>3 DEF Stop, Aside
  <2>3. QED
    BY <1>a, <2>1, <2>2
<1>3. ASSUME NEW to \in Threads \cup {Nowhere}, Move(t, o, to) PROVE Shot'
  <2>1. \A x \in Timers : TimerShot(x)'
    BY <1>3, <1>s DEF Move, TimerShot
  <2> DEFINE ids == IF Served(o) THEN IdsOf(o, home[o]) ELSE {}
             moved == [NoCall EXCEPT !.at = "moved", !.obj = o, !.ids = ids]
  <2>2. /\ home' = [home EXCEPT ![o] = to] /\ o \in Timers
        /\ table' = [u \in Threads |-> IF u = home[o] THEN table[u] \ Entries(o, ids) ELSE table[u]]
        /\ UNCHANGED call \/ call' = [call EXCEPT ![t] = moved]
        /\ UNCHANGED <<quiet, threadVars, queue, passVars, state, timerId, deletePosted, nextId, shots, lost>>
    BY <1>3 DEF Move, Begin
  <2>3. moved.obj = o
    BY DEF NoCall
  <2> HIDE DEF ids, moved
  <2>4. ASSUME NEW h \in Helpers PROVE Aside(h)
    <3>1. h # o /\ h \in Objects /\ h # Nowhere
      BY <1>t, <2>2
    <3>2. \A u \in Threads : /\ table'[u] \subseteq table[u]
                             /\ call'[u].obj = h => call'[u] = call[u]
      BY <2>2, <2>3, <3>1 DEF TypeOK
    <3>3. home'[h] = home[h]
      BY <2>2, <3>1 DEF TypeOK
    <3>4. QED
      BY <2>2, <3>1, <3>2, <3>3 DEF Aside
  <2>5. QED
    BY <1>a, <2>1, <2>4
<1>4. CASE Emit(t, o)
  <2>1. \A x \in Timers : TimerShot(x)'
    BY <1>4, <1>s DEF Emit, TimerShot
  <2>2. ASSUME NEW h \in Helpers PROVE Aside(h)
    <3>1. h # o
      BY <1>4, <1>t DEF Emit
    <3>2. \A u \in Threads : /\ \A e : e.obj = h => (e \in queue'[u] <=> e \in queue[u])
                             /\ call'[u].obj = h => call'[u] = call[u] \/ h = Nowhere
      BY <1>4, <3>1, SendOthers DEF Emit
    <3>3. QED
      BY <1>4, <1>t, <3>1, <3>2 DEF Emit, Aside
  <2>3. QED
    BY <1>a, <2>1, <2>2
<1>5. CASE DeleteLater(t, o)
  <2>1. \A x \in Timers : TimerShot(x)'
    BY <1>5, <1>s, <1>t DEF DeleteLater, Destroy, TimerShot, TypeOK
  <2>2. ASSUME NEW h \in Helpers PROVE Aside(h)
    <3>1. h # o
      BY <1>5, <1>t DEF DeleteLater
    <3>2. CASE Send(t, "delete", o, {}) /\ UNCHANGED <<table, state, timerId>>
      <4>1. \A u \in Threads : /\ \A e : e.obj = h => (e \in queue'[u] <=> e \in queue[u])
                               /\ call'[u].obj = h => call'[u] = call[u] \/ h = Nowhere
        BY <3>1, <3>2, SendOthers
      <4>2. QED
        BY <1>5, <1>t, <3>1, <3>2, <4>1, SMTT(30) DEF DeleteLater, Aside, TypeOK
    <3>3. CASE Destroy(o) /\ UNCHANGED call
      <4>1. Gone(o, h)
        BY <1>t, <3>1, <3>3, DestroyOthers
      <4>2. QED
        BY <1>5, <1>t, <3>1, <3>3, <4>1 DEF DeleteLater, Gone, Aside, TypeOK
    <3>4. QED
      BY <1>5, <3>2, <3>3 DEF DeleteLater
  <2>3. QED
    BY <1>a, <2>1, <2>2
<1>6. CASE Delete(t, o)
  <2>1. \A x \in Timers : TimerShot(x)'
    BY <1>6, <1>s, <1>t DEF Delete, Destroy, TimerShot, TypeOK
  <2>2. ASSUME NEW h \in Helpers PROVE Aside(h)
    <3>1. h # o /\ h \in Objects /\ h # Nowhere
      BY <1>6, <1>t DEF Delete
    <3>2. Gone(o, h)
      BY <1>6, <3>1, DestroyOthers DEF Delete
    <3>3. QED
      BY <1>6, <3>1, <3>2 DEF Delete, Gone, Aside
  <2>3. QED
    BY <1>a, <2>1, <2>2
<1>7. ASSUME NEW context \in Timers, SingleShotCall(t, o, context) PROVE Shot'
  <2>1. /\ o \in Helpers /\ ~Known(o) /\ state' = [state EXCEPT ![o] = "alive"]
        /\ home' = [home EXCEPT ![o] = Owner(context)]
        /\ UNCHANGED <<quiet, threadVars, queue, passVars, deletePosted>>
    BY <1>7 DEF SingleShotCall, Known
  <2>2. /\ timerId[o] = 0 /\ shots[o] = 0 /\ ~deletePosted[o]
        /\ \A u \in Threads : /\ \A e \in queue[u] \cup batch[u] : e.obj # o
                              /\ call[u].obj # o
                              /\ \A i \in Ids : <<o, i>> \notin table[u] \cup timerBatch[u]
    <3>1. o # Nowhere
      BY <1>t
    <3>2. \A u \in Threads : /\ \A e \in queue[u] \cup batch[u] : e.obj # o
                             /\ call[u].obj # o
                             /\ \A i \in Ids : <<o, i>> \notin table[u] \cup timerBatch[u]
      BY <2>1, <3>1 DEF HelpersAtHome, GoodEvent, GoodEntry, GoodCall
    <3>3. timerId[o] = 0
      BY <2>1 DEF HelpersAtHome
    <3>4. shots[o] = 0 /\ ~deletePosted[o]
      BY <2>1 DEF Shot, HelperShot, Fired, Known
    <3>5. QED
      BY <3>2, <3>3, <3>4
  <2>3. /\ \A x \in Objects : x # o => timerId'[x] = timerId[x] /\ shots'[x] = shots[x]
        /\ timerId'[o] = 0 \/ call' = call
        /\ shots'[o] = 0
        /\ \A u \in Threads, x \in Objects, i \in Ids : x # o /\ <<x, i>> \in table'[u] => <<x, i>> \in table[u]
        /\ \A u \in Threads : \/ call'[u] = call[u]
                              \/ u = t /\ call'[u].obj = o /\ call'[u].kind = "arm"
    <3>1. CASE StartTimer(t, o) /\ UNCHANGED call
      BY <2>2, <3>1 DEF StartTimer, TypeOK
    <3>2. CASE /\ UNCHANGED <<table, timerId, nextId, shots, lost>>
               /\ Begin(t, [at |-> "posting", to |-> home[context], dropped |-> FALSE,
                            kind |-> "arm", obj |-> o, ids |-> {}])
      BY <2>2, <3>2 DEF Begin, TypeOK
    <3>3. CASE UNCHANGED <<table, timerId, nextId, call, shots, lost>>
      BY <2>2, <3>3
    <3>4. QED
      BY <1>7, <3>1, <3>2, <3>3 DEF SingleShotCall
  <2>4. \A x \in Timers : TimerShot(x)'
    BY <1>s, <1>t, <2>1, <2>3 DEF TimerShot
  <2>5. ASSUME NEW h \in Helpers PROVE HelperShot(h)'
    <3>1. CASE h # o
      <4>1. h \in Objects /\ h # Nowhere
        BY <1>t
      <4>2. state'[h] = state[h] /\ home'[h] = home[h]
        BY <2>1, <3>1, <4>1 DEF TypeOK
      <4>3. Aside(h)
        BY <2>1, <2>3, <3>1, <4>1, <4>2 DEF Aside
      <4>4. QED
        BY <4>3, AsideKeeps DEF Shot
    <3>2. CASE h = o
      <4>1. Fired(h)' /\ Condemned(h)'
        BY <2>1, <2>2, <2>3, <3>2 DEF Fired, Condemned, DeleteIn, Alive, TypeOK
      <4>2. \A u \in Threads : ~ArmIn(queue'[u], h) /\ ~ArmIn(batch'[u], h) /\ ~ArmIn(queue'[u] \cup batch'[u], h)
        BY <2>1, <2>2, <3>2 DEF ArmIn
      <4>3. \A u \in Threads : Arming(u, h)' => u = t /\ timerId'[h] = 0
        BY <2>2, <2>3, <3>2 DEF Arming
      <4>4. Unarmed(h)'
        BY <2>3, <3>2, <4>2, <4>3 DEF Unarmed
      <4>5. OneArm(h)'
        BY <2>1, <2>2, <3>2, <4>2, <4>3 DEF OneArm
      <4>6. Doomed(h)'
        BY <2>3, <3>2 DEF Doomed
      <4>7. QED
        BY <4>1, <4>4, <4>5, <4>6 DEF HelperShot
    <3>3. QED
      BY <3>1, <3>2
  <2>6. QED
    BY <2>4, <2>5 DEF Shot
<1>8. QED
  BY <1>0, <1>1, <1>2, <1>3, <1>4, <1>5, <1>6, <1>7

\* ... then how a pass fires its timers, ...
LEMMA ShotFunctor ==
  ASSUME TypeOK, TypeOK', HelpersAtHome, Shot, NEW t \in Threads, NEW h \in Helpers, NEW i \in Ids,
         RunFunctor(t, h, i)
  PROVE  Shot'
<1>t. Timers \cap Helpers = {} /\ Timers \subseteq Objects /\ Helpers \subseteq Objects
  BY ObjectsAssumption DEF Objects
<1>1. /\ stage[t] = "dispatch" /\ batch[t] = {} /\ <<h, i>> \in timerBatch[t]
      /\ timerBatch' = [timerBatch EXCEPT ![t] = @ \ {<<h, i>>}]
      /\ timerId[h] = i /\ i # 0 /\ shots' = [shots EXCEPT ![h] = @ + 1]
      /\ deletePosted' = [deletePosted EXCEPT ![h] = TRUE]
      /\ UNCHANGED <<quiet, threadVars, table, batch, buried, home, state, timerId, nextId, lost>>
  BY DEF RunFunctor, NextTimer, Ids
<1>2. home[h] = t
  BY <1>1 DEF HelpersAtHome, GoodEntry
<1>3. HelperShot(h) /\ Alive(h)
  BY <1>1 DEF Shot, HelperShot, Fired
<1>4. shots[h] = 0 /\ ~deletePosted[h]
  <2>1. ~DoomedAt(t, h)
    BY <1>1 DEF DoomedAt, DeleteIn
  <2>2. shots[h] # 1
    BY <1>1, <1>2, <1>3, <2>1 DEF HelperShot, Doomed
  <2>3. shots[h] \in Nat /\ shots[h] <= 1 /\ (deletePosted[h] => shots[h] = 1)
    BY <1>3, <1>t DEF HelperShot, Fired, TypeOK
  <2>4. QED
    BY <2>2, <2>3
<1>5. Send(t, "delete", h, {})
  BY <1>4 DEF RunFunctor
<1>6. Enqueue(t, "delete", h, {}) /\ Return(t)
  BY <1>2, <1>5 DEF Send
<1>7. \A x \in Timers : TimerShot(x)'
  BY <1>1, <1>t DEF Shot, TimerShot, TypeOK
<1>8. ASSUME NEW g \in Helpers, g # h PROVE HelperShot(g)'
  <2>1. g \in Objects /\ g # Nowhere
    BY <1>t, ThreadsAssumption
  <2>2. \A u \in Threads : /\ \A e : e.obj = g => (e \in queue'[u] <=> e \in queue[u])
                           /\ call'[u].obj = g => call'[u] = call[u]
    BY <1>5, <1>8, <1>t, <2>1, SendOthers
  <2>3. shots'[g] = shots[g] /\ deletePosted'[g] = deletePosted[g]
    BY <1>1, <1>8, <2>1 DEF TypeOK
  <2>4. \A u \in Threads : timerBatch'[u] \subseteq timerBatch[u]
    BY <1>1 DEF TypeOK
  <2>5. Aside(g)
    BY <1>1, <2>2, <2>3, <2>4 DEF Aside
  <2>6. QED
    BY <2>5, AsideKeeps DEF Shot
<1>9. HelperShot(h)'
  <2>1. PICK e : queue'[t] = queue[t] \cup {e} /\ e.kind = "delete" /\ e.obj = h
    BY <1>6, EnqueueOne
  <2>2. \A u \in Threads : u # t => queue'[u] = queue[u]
    BY <1>6, EnqueueOne
  <2>3. shots'[h] = 1 /\ timerBatch'[t] = timerBatch[t] \ {<<h, i>>}
    BY <1>1, <1>4, <1>t DEF TypeOK
  <2>4. \A u \in Threads : /\ ~Arming(u, h)
                           /\ ~ArmIn(queue[u] \cup batch[u], h)
    BY <1>1, <1>3 DEF HelperShot, Unarmed
  <2>5. \A u \in Threads : /\ ~Arming(u, h)'
                           /\ ~ArmIn(queue'[u] \cup batch'[u], h)
                           /\ ~ArmIn(queue'[u], h) /\ ~ArmIn(batch'[u], h)
    <3>1. ASSUME NEW u \in Threads PROVE ~Arming(u, h)'
      BY <1>6, <1>t, <2>4, ThreadsAssumption DEF Return, Begin, NoCall, Arming, TypeOK
    <3>2. ASSUME NEW u \in Threads PROVE ~ArmIn(queue'[u] \cup batch'[u], h)
      BY <1>1, <2>1, <2>2, <2>4 DEF ArmIn
    <3>3. QED
      BY <3>1, <3>2 DEF ArmIn
  <2>6. Fired(h)' /\ Condemned(h)'
    BY <1>1, <1>3, <2>3 DEF HelperShot, Fired, Condemned, Alive
  <2>7. Unarmed(h)'
    BY <2>5 DEF Unarmed
  <2>8. OneArm(h)'
    BY <2>5 DEF OneArm, ArmIn
  <2>9. Doomed(h)'
    BY <1>1, <1>2, <2>1, <2>3 DEF Doomed, DoomedAt, DeleteIn
  <2>10. QED
    BY <2>6, <2>7, <2>8, <2>9 DEF HelperShot
<1>10. QED
  BY <1>7, <1>8, <1>9 DEF Shot

\* ... dispatches its events, ...
LEMMA ShotDispatch ==
  ASSUME TypeOK, TypeOK', HelpersAtHome, Tidy, Shot, NEW t \in Threads, NEW e \in batch[t],
         DispatchCall(t, e) \/ DispatchDelete(t, e) \/ DispatchArm(t, e) \/ DispatchRearm(t, e)
  PROVE  Shot'
<1> USE ThreadsAssumption DEF threadVars, passVars, objectVars
<1>t. Timers \cap Helpers = {} /\ Timers \subseteq Objects /\ Helpers \subseteq Objects
  BY ObjectsAssumption DEF Objects
<1>a. (\A x \in Timers : TimerShot(x)') /\ (\A h \in Helpers : Aside(h)) => Shot'
  BY AsideKeeps DEF Shot
<1>s. \A x \in Timers : TimerShot(x)
  BY DEF Shot
<1>0. e.obj \in Objects /\ GoodEvent(t, e)
  BY Fields DEF TypeOK, HelpersAtHome
<1>b. batch'[t] = batch[t] \ {e} /\ \A u \in Threads : u # t => batch'[u] = batch[u]
  BY DEF DispatchCall, DispatchDelete, DispatchArm, DispatchRearm, Consume, TypeOK
<1>1. CASE DispatchCall(t, e)
  <2>1. e.obj \in Helpers => ~Alive(e.obj)
    BY <1>1, <1>0 DEF DispatchCall, GoodEvent, Tidy, BuriedFreed, Alive
  <2>2. ASSUME NEW h \in Helpers PROVE Aside(h)
    BY <1>1, <1>b, <2>1 DEF DispatchCall, Aside
  <2>3. QED
    BY <1>1, <1>a, <1>s, <2>2 DEF DispatchCall, TimerShot
<1>2. CASE DispatchDelete(t, e)
  <2>1. \A x \in Timers : TimerShot(x)'
    BY <1>2, <1>s, <1>t DEF DispatchDelete, Destroy, TimerShot, TypeOK
  <2>2. ASSUME NEW h \in Helpers, h # e.obj PROVE HelperShot(h)'
    <3>1. h \in Objects /\ h # Nowhere
      BY <1>t
    <3>2. Gone(e.obj, h)
      BY <1>2, <2>2, <3>1, DestroyOthers DEF DispatchDelete
    <3>3. Aside(h)
      BY <1>2, <1>b, <2>2, <3>2 DEF DispatchDelete, Gone, Aside
    <3>4. QED
      BY <3>3, AsideKeeps DEF Shot
  <2>3. ASSUME NEW h \in Helpers, h = e.obj PROVE HelperShot(h)'
    <3>1. HelperShot(h) /\ shots[h] = 1
      BY <1>2, <2>3 DEF DispatchDelete, Shot, HelperShot, Condemned, DeleteIn
    <3>2. /\ shots'[h] = 1 /\ timerId'[h] = 0 /\ state'[h] = "freed" /\ deletePosted'[h] = deletePosted[h]
          /\ UNCHANGED call /\ \A u \in Threads : queue'[u] \subseteq queue[u] /\ batch'[u] \subseteq batch[u]
      BY <1>0, <1>2, <1>b, <2>3, <3>1 DEF DispatchDelete, Destroy, TypeOK
    <3>3. \A u \in Threads : ~Arming(u, h)' /\ ~ArmIn(queue'[u] \cup batch'[u], h)
      BY <3>1, <3>2 DEF HelperShot, Unarmed, Arming, ArmIn
    <3>4. Fired(h)' /\ Condemned(h)' /\ Unarmed(h)' /\ Doomed(h)'
      BY <3>2, <3>3 DEF Fired, Condemned, Unarmed, Doomed
    <3>5. OneArm(h)'
      BY <3>3 DEF OneArm, ArmIn
    <3>6. QED
      BY <3>4, <3>5 DEF HelperShot
  <2>4. QED
    BY <2>1, <2>2, <2>3 DEF Shot
<1>3. CASE DispatchArm(t, e)
  <2>1. e.obj \in Helpers /\ home[e.obj] = t /\ Known(e.obj)
    BY <1>0, <1>3 DEF DispatchArm, GoodEvent
  <2>2. \A x \in Timers : TimerShot(x)'
    BY <1>3, <1>s, <1>t, <2>1 DEF DispatchArm, StartTimer, TimerShot, TypeOK
  <2>3. ASSUME NEW h \in Helpers, h # e.obj PROVE HelperShot(h)'
    <3>1. h \in Objects /\ h # Nowhere
      BY <1>t
    <3>2. /\ shots'[h] = shots[h] /\ timerId'[h] = timerId[h]
          /\ \A u \in Threads, i \in Ids : <<h, i>> \in table'[u] => <<h, i>> \in table[u]
      BY <1>3, <2>3, <3>1 DEF DispatchArm, StartTimer, TypeOK
    <3>3. Aside(h)
      BY <1>3, <1>b, <2>3, <3>2 DEF DispatchArm, Aside
    <3>4. QED
      BY <3>3, AsideKeeps DEF Shot
  <2>4. ASSUME NEW h \in Helpers, h = e.obj PROVE HelperShot(h)'
    <3>1. HelperShot(h) /\ e.kind = "arm"
      BY <1>3 DEF DispatchArm, Shot
    <3>2. timerId[h] = 0 /\ shots[h] = 0
      BY <2>4, <3>1 DEF HelperShot, Unarmed, ArmIn
    <3>3. ~deletePosted[h] /\ state[h] = "alive"
      BY <1>t, <2>1, <2>4, <3>1, <3>2 DEF HelperShot, Fired, Known, TypeOK
    <3>4. /\ shots'[h] = 0 /\ deletePosted'[h] = deletePosted[h] /\ state'[h] = state[h]
          /\ UNCHANGED <<call, queue>>
      BY <1>0, <1>3, <2>4 DEF DispatchArm, StartTimer, TypeOK
    <3>5. Fired(h)'
      BY <3>3, <3>4 DEF Fired, Alive
    <3>6. Condemned(h)'
      BY <1>b, <3>1, <3>2, <3>4 DEF HelperShot, Condemned, DeleteIn
    <3>7. \A u \in Threads : \A f \in queue[u] \cup batch[u] : f.obj = h => u = t
      BY <2>1, <2>4 DEF HelpersAtHome, GoodEvent
    <3>8. ASSUME NEW u \in Threads PROVE ~Arming(u, h)' /\ ~ArmIn(queue'[u] \cup batch'[u], h)
      <4>1. ArmIn(batch[t], h) /\ ArmIn(queue[t] \cup batch[t], h)
        BY <2>4, <3>1 DEF ArmIn
      <4>2. ~Arming(u, h) /\ ~ArmIn(queue[u], h)
        BY <3>1, <4>1 DEF HelperShot, OneArm
      <4>3. ~ArmIn(batch'[u], h)
        BY <1>b, <2>4, <3>1, <3>7 DEF HelperShot, OneArm, ArmIn
      <4>4. QED
        BY <3>4, <4>2, <4>3 DEF Arming, ArmIn
    <3>9. Unarmed(h)' /\ OneArm(h)'
      BY <3>8 DEF Unarmed, OneArm, ArmIn
    <3>10. Doomed(h)'
      BY <3>4 DEF Doomed
    <3>11. QED
      BY <3>5, <3>6, <3>9, <3>10 DEF HelperShot
  <2>5. QED
    BY <2>2, <2>3, <2>4 DEF Shot
<1>4. CASE DispatchRearm(t, e)
  <2>1. e.obj \notin Helpers
    BY <1>0, <1>4 DEF DispatchRearm, GoodEvent
  <2>2. ASSUME NEW h \in Helpers PROVE Aside(h)
    <3>1. h \in Objects /\ h # Nowhere /\ h # e.obj
      BY <1>t, <2>1
    <3>2. \A u \in Threads, i \in Ids : <<h, i>> \in table'[u] => <<h, i>> \in table[u]
      BY <1>4, <3>1 DEF DispatchRearm, Entries, TypeOK
    <3>3. \A u \in Threads : call'[u].obj = h => call'[u] = call[u]
      BY <1>4, <3>1 DEF DispatchRearm, Begin, TypeOK
    <3>4. QED
      BY <1>4, <1>b, <3>1, <3>2, <3>3 DEF DispatchRearm, Aside
  <2>3. QED
    BY <1>4, <1>a, <1>s, <2>2 DEF DispatchRearm, TimerShot
<1>5. QED
  BY <1>1, <1>2, <1>3, <1>4

\* ... hands over what it was asked to, ...
LEMMA ShotPost ==
  ASSUME TypeOK, TypeOK', HelpersAtHome, Shot, NEW t \in Threads, Post(t)
  PROVE  Shot'
<1> USE ThreadsAssumption DEF threadVars, passVars, objectVars
<1>t. Timers \cap Helpers = {} /\ Timers \subseteq Objects /\ Helpers \subseteq Objects
  BY ObjectsAssumption DEF Objects
<1>c. call[t] \in Call /\ GoodCall(call[t])
  BY DEF TypeOK, HelpersAtHome
<1>1. call[t].obj \in Objects /\ call[t].to \in Threads
  BY <1>c, Fields DEF Post
<1> DEFINE o == call[t].obj
<1>2. /\ UNCHANGED <<quiet, threadVars, table, passVars, objectVars, nextId, shots>>
      /\ call'[t].obj = Nowhere /\ \A u \in Threads : u # t => call'[u] = call[u]
  BY DEF Post, Return, Begin, NoCall, TypeOK
<1>3. \/ queue' = queue
      \/ \E e : /\ queue'[call[t].to] = queue[call[t].to] \cup {e}
                /\ e.kind = call[t].kind /\ e.obj = o
                /\ \A u \in Threads : u # call[t].to => queue'[u] = queue[u]
  BY <1>1, EnqueueOne DEF Post
<1>4. \A x \in Timers : TimerShot(x)'
  BY <1>2 DEF Shot, TimerShot
<1>5. ASSUME NEW h \in Helpers, h # o PROVE HelperShot(h)'
  <2>1. h \in Objects /\ h # Nowhere
    BY <1>t
  <2>2. \A u \in Threads : \A e : e.obj = h => (e \in queue'[u] <=> e \in queue[u])
    BY <1>3, <1>5
  <2>3. \A u \in Threads : call'[u].obj = h => call'[u] = call[u]
    BY <1>2, <2>1
  <2>4. Aside(h)
    BY <1>2, <2>2, <2>3 DEF Aside
  <2>5. QED
    BY <2>4, AsideKeeps DEF Shot
<1>6. ASSUME NEW h \in Helpers, h = o PROVE HelperShot(h)'
  <2>1. HelperShot(h) /\ Arming(t, h) /\ h # Nowhere
    BY <1>6, <1>c, <1>t DEF Shot, GoodCall, Arming
  <2>2. /\ timerId[h] = 0 /\ shots[h] = 0
        /\ \A u \in Threads : ~ArmIn(queue[u] \cup batch[u], h) /\ (u # t => ~Arming(u, h))
    BY <2>1 DEF HelperShot, Unarmed, OneArm
  <2>3. \A u \in Threads : ~Arming(u, h)'
    BY <1>2, <2>1, <2>2 DEF Arming
  <2>4. \A u \in Threads : ~ArmIn(batch'[u], h)
    BY <1>2, <2>2 DEF ArmIn
  <2>5. Fired(h)' /\ Unarmed(h)' /\ Doomed(h)'
    BY <1>2, <2>1, <2>2, <2>3 DEF HelperShot, Fired, Unarmed, Doomed, Alive
  <2>6. CASE queue' = queue
    <3>1. Condemned(h)'
      BY <1>2, <2>1, <2>6 DEF HelperShot, Condemned
    <3>2. OneArm(h)'
      BY <2>1, <2>2, <2>3, <2>4, <2>6, <1>2 DEF OneArm, ArmIn
    <3>3. QED
      BY <2>5, <3>1, <3>2 DEF HelperShot
  <2>7. ASSUME NEW e, queue'[call[t].to] = queue[call[t].to] \cup {e}, e.kind = "arm", e.obj = h,
               \A u \in Threads : u # call[t].to => queue'[u] = queue[u]
        PROVE  HelperShot(h)'
    <3>1. Condemned(h)'
      <4>1. \A u \in Threads : DeleteIn(queue'[u] \cup batch'[u], h) => DeleteIn(queue[u] \cup batch[u], h)
        BY <1>2, <2>7 DEF DeleteIn
      <4>2. QED
        BY <1>2, <2>1, <4>1 DEF HelperShot, Condemned
    <3>2. \A u \in Threads : \A f \in queue'[u] : f.obj = h /\ f.kind = "arm" => f = e
      BY <2>2, <2>7 DEF ArmIn
    <3>3. OneArm(h)'
      BY <2>3, <2>4, <3>2 DEF OneArm, ArmIn
    <3>4. QED
      BY <2>5, <3>1, <3>3 DEF HelperShot
  <2>8. QED
    BY <1>3, <1>6, <2>1, <2>6, <2>7 DEF Arming
<1>7. QED
  BY <1>4, <1>5, <1>6 DEF Shot

\* ... and comes to an end; ...
LEMMA ShotProceed ==
  ASSUME TypeOK, TypeOK', HelpersAtHome, Tidy, Shot, NEW t \in Threads, Proceed(t) PROVE Shot'
<1> USE ThreadsAssumption DEF threadVars, passVars, objectVars
<1>t. Timers \cap Helpers = {} /\ Timers \subseteq Objects /\ Helpers \subseteq Objects
  BY ObjectsAssumption DEF Objects
<1>a. (\A x \in Timers : TimerShot(x)') /\ (\A h \in Helpers : Aside(h)) => Shot'
  BY AsideKeeps DEF Shot
<1>s. \A x \in Timers : TimerShot(x)
  BY DEF Shot
<1>c. call[t] \in Call /\ GoodCall(call[t])
  BY DEF TypeOK, HelpersAtHome
<1>r. Return(t) => \A u \in Threads, h \in Helpers : call'[u].obj = h => call'[u] = call[u]
  BY <1>t DEF Return, Begin, NoCall, TypeOK
<1>1. CASE ResolveRearm(t)
  <2>1. call[t].obj \in Objects /\ call[t].obj \notin Helpers
    BY <1>1, <1>c, Fields DEF ResolveRearm, GoodCall
  <2>2. ASSUME NEW h \in Helpers PROVE Aside(h)
    <3>1. h # Nowhere /\ h # call[t].obj
      BY <1>t, <2>1
    <3>2. CASE Send(t, "rearm", call[t].obj, call[t].ids)
      <4>1. PICK o \in Objects, ids \in SUBSET Ids : o = call[t].obj /\ ids = call[t].ids
        BY <1>c, <2>1, Fields
      <4>2. h # o /\ Send(t, "rearm", o, ids)
        BY <3>1, <3>2, <4>1
      <4>3. \A u \in Threads : /\ \A e : e.obj = h => (e \in queue'[u] <=> e \in queue[u])
                               /\ call'[u].obj = h => call'[u] = call[u] \/ h = Nowhere
        BY <4>2, SendOthers
      <4>4. QED
        BY <1>1, <3>1, <4>3 DEF ResolveRearm, Aside
    <3>3. CASE Return(t) /\ UNCHANGED queue
      BY <1>1, <1>r, <3>3 DEF ResolveRearm, Aside
    <3>4. QED
      BY <1>1, <3>2, <3>3 DEF ResolveRearm
  <2>3. QED
    BY <1>1, <1>a, <1>s, <2>2 DEF ResolveRearm, TimerShot
<1>2. CASE Post(t)
  BY <1>2, ShotPost
<1>3. CASE Register(t)
  <2>1. call[t].obj \in Objects /\ call[t].obj \notin Helpers /\ call[t].to \in Threads
    BY <1>3, <1>c, Fields DEF Register, GoodCall
  <2>2. ASSUME NEW h \in Helpers PROVE Aside(h)
    <3>1. \A u \in Threads, i \in Ids : <<h, i>> \in table'[u] => <<h, i>> \in table[u]
      BY <1>3, <2>1 DEF Register, Entries, TypeOK
    <3>2. QED
      BY <1>3, <1>r, <3>1 DEF Register, Aside
  <2>3. QED
    BY <1>3, <1>a, <1>s, <2>2 DEF Register, TimerShot
<1>4. ASSUME NEW e \in batch[t],
             DispatchCall(t, e) \/ DispatchDelete(t, e) \/ DispatchArm(t, e) \/ DispatchRearm(t, e)
      PROVE Shot'
  BY <1>4, ShotDispatch
<1>5. ASSUME NEW o \in Objects, NEW i \in Ids, SkipTimer(t, o, i) PROVE Shot'
  <2>1. \A u \in Threads : timerBatch'[u] \subseteq timerBatch[u]
    BY <1>5 DEF SkipTimer, NextTimer, TypeOK
  <2>2. ASSUME NEW h \in Helpers PROVE Aside(h)
    BY <1>5, <2>1 DEF SkipTimer, Aside
  <2>3. QED
    BY <1>5, <1>a, <1>s, <2>2 DEF SkipTimer, TimerShot
<1>6. ASSUME NEW o \in Objects, NEW i \in Ids, RunFunctor(t, o, i) PROVE Shot'
  BY <1>6, ShotFunctor DEF RunFunctor
<1>7. ASSUME NEW o \in Objects, NEW i \in Ids, NEW single \in BOOLEAN, Timeout(t, o, i, single)
      PROVE Shot'
  <2>1. o \in Timers /\ timerId[o] = i /\ i # 0
    BY <1>7 DEF Timeout, Ids
  <2>2. \A x \in Timers : TimerShot(x)'
    BY <1>7, <1>s, <1>t, <2>1 DEF Timeout, TimerShot, TypeOK
  <2>3. ASSUME NEW h \in Helpers PROVE Aside(h)
    <3>1. h # o /\ h \in Objects
      BY <1>t, <2>1
    <3>2. \A u \in Threads : timerBatch'[u] \subseteq timerBatch[u] /\ table'[u] \subseteq table[u]
      BY <1>7 DEF Timeout, NextTimer, KillTimer, TypeOK
    <3>3. shots'[h] = shots[h] /\ timerId'[h] = timerId[h]
      BY <1>7, <3>1 DEF Timeout, TypeOK
    <3>4. QED
      BY <1>7, <3>2, <3>3 DEF Timeout, Aside
  <2>4. QED
    BY <1>a, <2>2, <2>3
<1>8. CASE PassDone(t)
  <2>1. ASSUME NEW h \in Helpers PROVE Aside(h)
    BY <1>8 DEF PassDone, Aside
  <2>2. QED
    BY <1>8, <1>a, <1>s, <2>1 DEF PassDone, TimerShot
<1>9. CASE DrainPass(t)
  <2>1. /\ batch[t] = {} /\ queue'[t] = queue[t] \ Deletes(t) /\ batch'[t] = Deletes(t)
        /\ \A u \in Threads : u # t => queue'[u] = queue[u] /\ batch'[u] = batch[u]
        /\ UNCHANGED <<table, timerBatch, call, shots, objectVars>>
    BY <1>9 DEF DrainPass, TakeDeletes, TypeOK
  <2>2. ASSUME NEW h \in Helpers PROVE HelperShot(h)'
    BY <2>1, TakeKeeps DEF Shot, Deletes
  <2>3. QED
    BY <1>s, <2>1, <2>2 DEF Shot, TimerShot
<1>10. CASE LetGo(t)
  <2>1. ASSUME NEW h \in Helpers PROVE HelperShot(h)'
    BY <1>10, ReplaceShot DEF LetGo, Shot
  <2>2. QED
    BY <1>10, <1>s, <2>1 DEF LetGo, Shot, TimerShot
<1>11. QED
  BY <1>1, <1>2, <1>3, <1>4, <1>5, <1>6, <1>7, <1>8, <1>9, <1>10 DEF Proceed

\* ... and how loops begin and end.
LEMMA ShotStep == CustodyInv /\ TypeInv' /\ Shot /\ [Next]_vars => Shot'
<1> SUFFICES ASSUME TypeOK, TypeOK', HelpersAtHome, Tidy, Shot, [Next]_vars PROVE Shot'
  BY DEF CustodyInv, TypeInv
<1> USE DEF threadVars, passVars, objectVars
<1>s. \A x \in Timers : TimerShot(x)
  BY DEF Shot
<1>1. ASSUME NEW t \in Threads, NEW expired \in SUBSET table[t], TakePass(t, expired) PROVE Shot'
  <2>1. /\ batch[t] = {} /\ queue'[t] = {} /\ batch'[t] = queue[t] /\ timerBatch'[t] = expired
        /\ \A u \in Threads : u # t => /\ queue'[u] = queue[u] /\ batch'[u] = batch[u]
                                       /\ timerBatch'[u] = timerBatch[u]
        /\ UNCHANGED <<table, call, shots, objectVars>>
    BY <1>1 DEF TakePass, Tidy, BatchOfPass, TypeOK
  <2>2. ASSUME NEW h \in Helpers PROVE HelperShot(h)'
    BY <2>1, TakeKeeps DEF Shot
  <2>3. QED
    BY <1>s, <2>1, <2>2 DEF Shot, TimerShot
<1>2. ASSUME NEW t \in Threads, Close(t) PROVE Shot'
  <2>1. /\ batch[t] = {} /\ queue'[t] = queue[t] \ Deletes(t) /\ batch'[t] = Deletes(t)
        /\ \A u \in Threads : u # t => queue'[u] = queue[u] /\ batch'[u] = batch[u]
        /\ UNCHANGED <<table, timerBatch, call, shots, objectVars>>
    BY <1>2 DEF Close, TakeDeletes, Tidy, BatchOfPass, TypeOK
  <2>2. ASSUME NEW h \in Helpers PROVE HelperShot(h)'
    BY <2>1, TakeKeeps DEF Shot, Deletes
  <2>3. QED
    BY <1>s, <2>1, <2>2 DEF Shot, TimerShot
<1>3. CASE AppConstruct
  <2>1. ASSUME NEW h \in Helpers PROVE HelperShot(h)'
    BY <1>3, ReplaceShot DEF AppConstruct, Shot, Threads
  <2>2. QED
    BY <1>3, <1>s, <2>1 DEF AppConstruct, Shot, TimerShot
<1>4. CASE (\E t \in Threads : ThreadStart(t) \/ ThreadDestroyed(t)) \/ UNCHANGED vars
  <2>1. UNCHANGED <<queue, table, passVars, objectVars, call, shots>>
    BY <1>4 DEF ThreadStart, ThreadDestroyed, vars
  <2>2. ASSUME NEW h \in Helpers PROVE Aside(h)
    BY <2>1 DEF Aside
  <2>3. QED
    BY <1>s, <2>1, <2>2, AsideKeeps DEF Shot, TimerShot
<1>5. QED
  BY <1>1, <1>2, <1>3, <1>4, ShotUser, ShotProceed DEF Next

LEMMA ShotInvariant == Safety => [](CustodyInv /\ Shot)
<1>1. Init => Shot
  <2> SUFFICES ASSUME Init PROVE Shot
    OBVIOUS
  <2>1. /\ \A o \in Objects : timerId[o] = 0 /\ shots[o] = 0 /\ ~deletePosted[o] /\ state[o] # "freed"
        /\ \A t \in Threads : queue[t] = {} /\ batch[t] = {} /\ call[t].obj = Nowhere
    BY DEF Init, NoCall
  <2>2. \A x \in Timers : TimerShot(x)
    BY <2>1 DEF TimerShot, Objects
  <2>3. ASSUME NEW h \in Helpers PROVE HelperShot(h)
    <3>1. h \in Objects /\ h # Nowhere
      BY ThreadsAssumption DEF Objects
    <3>2. QED
      BY <2>1, <3>1 DEF HelperShot, Fired, Condemned, Unarmed, OneArm, Doomed, DeleteIn, ArmIn, Arming
  <2>4. QED
    BY <2>2, <2>3 DEF Shot
<1>2. QED
  BY <1>1, ShotStep, CustodyInvariant, PTL DEF Safety, CustodyInv

\* A single shot emits once for each start() or arm(): a Timer that has fired is stopped, and a
\* helper that has is deleted before its thread looks at its timers again.
THEOREM SingleShotIsOne == Safety => []ShotOnce
<1>1. Shot => ShotOnce
  BY DEF Shot, TimerShot, HelperShot, Fired, ShotOnce, Objects
<1>2. QED
  BY <1>1, ShotInvariant, PTL
=============================================================================
