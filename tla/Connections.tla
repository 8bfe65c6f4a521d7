------------------------------ MODULE Connections ------------------------------
(***************************************************************************)
(* The bookkeeping of connections: connect(), disconnect(), the emission   *)
(* that still walks a slot, the Signal and the receiver that go away, and  *)
(* the Cleanup token in every slot that prunes the receiver's mIncoming.   *)
(*                                                                         *)
(* A connection is known to two sides, the slot list of its signal and     *)
(* mIncoming of its receiver, each with a mutex of its own, and no step    *)
(* changes both.  The signal is boost's, modelled as the code relies on    *)
(* it: an emission walks the slots it found when it began, skips those     *)
(* disconnected since, and keeps the one it is in from being destroyed.    *)
(* Whoever drops a slot last destroys it, with the signal's mutex held or  *)
(* after releasing it: releases of boost differ, the code allows for the   *)
(* first, and both are explored.  What the wrapper does with the call (run *)
(* it, queue it) and the rest of ~Object() are in ObjectLifetime.          *)
(***************************************************************************)
EXTENDS Naturals

CONSTANTS Threads,
          Signals,
          Objects,      \* receivers, addresses not reused
          Conns,        \* connections, each made once
          Nobody,       \* no thread, signal, object or connection
          Modes         \* the disciplines and the boosts to explore

ASSUME NobodyAssumption == Nobody \notin Threads \cup Signals \cup Objects \cup Conns

\* careful: no object is destroyed while a slot of it runs or is destroyed elsewhere;
\* holding: boost destroys slots under the signal's mutex.
ASSUME ModesAssumption == Modes \subseteq [careful : BOOLEAN, holding : BOOLEAN]

VARIABLES
  mode,           \* of this behaviour
  from, to,       \* the signal and the receiver of each connection made
  connected,      \* boost's flag: the connection is in its signal's slot list
  incoming,       \* mIncoming
  life,           \* of each object: mLife set, reset by ~Object(), memory gone
  sigMutex,       \* the mutex of each signal
  incomingMutex,  \* mIncomingMutex
  live,           \* whether each Signal exists
  call,           \* what each thread is doing
  subject,        \* the signal or object the call is about
  at,             \* how far it has come
  conn,           \* the connection in hand
  todo            \* the connections a walk has still to visit

linkVars == <<from, to, connected, incoming>>
mutexes == <<sigMutex, incomingMutex>>
deathVars == <<life, live>>
callVars == <<call, subject>>
stepVars == <<at, conn, todo>>
vars == <<mode, linkVars, mutexes, deathVars, callVars, stepVars>>

TypeOK ==
  /\ mode \in Modes
  /\ from \in [Conns -> Signals \cup {Nobody}] /\ to \in [Conns -> Objects \cup {Nobody}]
  /\ connected \in [Conns -> BOOLEAN]
  /\ incoming \in [Objects -> SUBSET Conns]
  /\ life \in [Objects -> {"alive", "dying", "freed"}]
  /\ live \in [Signals -> BOOLEAN]
  /\ sigMutex \in [Signals -> Threads \cup {Nobody}]
  /\ incomingMutex \in [Objects -> Threads \cup {Nobody}]
  /\ call \in [Threads -> {"none", "connect", "disconnect", "emit", "~Signal", "~Object"}]
  /\ subject \in [Threads -> Signals \cup Objects \cup {Nobody}]
  /\ at \in [Threads -> {"idle", "insert", "track", "release", "walk", "lock", "swap",
                         "wrapper", "slot", "leave", "test", "erase"}]
  /\ conn \in [Threads -> Conns \cup {Nobody}]
  /\ todo \in [Threads -> SUBSET Conns]

Init ==
  /\ mode \in Modes
  /\ from = [c \in Conns |-> Nobody] /\ to = [c \in Conns |-> Nobody]
  /\ connected = [c \in Conns |-> FALSE]
  /\ incoming = [o \in Objects |-> {}]
  /\ life = [o \in Objects |-> "alive"]
  /\ live = [s \in Signals |-> TRUE]
  /\ sigMutex = [s \in Signals |-> Nobody]
  /\ incomingMutex = [o \in Objects |-> Nobody]
  /\ call = [t \in Threads |-> "none"]
  /\ subject = [t \in Threads |-> Nobody]
  /\ at = [t \in Threads |-> "idle"]
  /\ conn = [t \in Threads |-> Nobody]
  /\ todo = [t \in Threads |-> {}]

-----------------------------------------------------------------------------
Made(c) == to[c] # Nobody

\* A thread inside the wrapper of c holds a reference to its slot; one inside connect() holds
\* a reference to its Cleanup.
Visiting(t, c) == conn[t] = c /\ at[t] \in {"wrapper", "slot", "leave"}
Connecting(t, c) == conn[t] = c /\ at[t] \in {"insert", "track", "release"}

\* Somebody besides t keeps the slot of c, or the Cleanup token in it, from being destroyed.
SlotKept(t, c) == \E u \in Threads \ {t} : Visiting(u, c)
TokenKept(t, c) == SlotKept(t, c) \/ \E u \in Threads \ {t} : Connecting(u, c)

\* mLife.expired(): reset by ~Object(), and no wrapper has the pointer it got from lock().
Expired(o) == /\ life[o] # "alive"
              /\ \A t \in Threads : at[t] = "slot" => to[conn[t]] # o

\* t is past the test of ~Cleanup(), on its way to the mutex and the list of its mOwner.
Pruning(t, o) == at[t] = "erase" /\ to[conn[t]] = o

SignalFree(c) == sigMutex[from[c]] = Nobody

\* t goes on to destroy the slot of c.
Keep(t, c) == sigMutex' = IF mode.holding THEN [sigMutex EXCEPT ![from[c]] = t] ELSE sigMutex

\* The call is over, or the walk it makes goes on.
Step(t, a) == at' = [at EXCEPT ![t] = a]
Resume(t) == /\ Step(t, "walk")
             /\ conn' = [conn EXCEPT ![t] = Nobody]
Start(t, c, s, a) == /\ at[t] = "idle"
                     /\ call' = [call EXCEPT ![t] = c]
                     /\ subject' = [subject EXCEPT ![t] = s]
                     /\ Step(t, a)

-----------------------------------------------------------------------------
\* Mutant of Connect: the two ends are exchanged.
ConnectEnds(t, c, s, o) ==
  /\ ~Made(c) /\ live[s] /\ life[o] = "alive"
  /\ Start(t, "connect", o, "insert")
  /\ from' = [from EXCEPT ![c] = o] /\ to' = [to EXCEPT ![c] = s]
  /\ conn' = [conn EXCEPT ![t] = c]
  /\ UNCHANGED <<mode, connected, incoming, mutexes, deathVars, todo>>

\* connect(): the receiver is the caller's to keep until it returns.
Connect(t, c, s, o) ==
  /\ ~Made(c) /\ live[s] /\ life[o] = "alive"
  /\ Start(t, "connect", o, "insert")
  /\ from' = [from EXCEPT ![c] = s] /\ to' = [to EXCEPT ![c] = o]
  /\ conn' = [conn EXCEPT ![t] = c]
  /\ UNCHANGED <<mode, connected, incoming, mutexes, deathVars, todo>>

\* aSignal.connect( wrapper )
Insert(t) ==
  /\ at[t] = "insert" /\ SignalFree(conn[t])
  /\ connected' = [connected EXCEPT ![conn[t]] = TRUE]
  /\ Step(t, "track")
  /\ UNCHANGED <<mode, from, to, incoming, mutexes, deathVars, callVars, conn, todo>>

\* trackIncoming(): the handle is in the Cleanup before it is in the list.
Track(t) ==
  /\ at[t] = "track" /\ incomingMutex[to[conn[t]]] = Nobody
  /\ incoming' = [incoming EXCEPT ![to[conn[t]]] = @ \cup {conn[t]}]
  /\ Step(t, "release")
  /\ UNCHANGED <<mode, from, to, connected, mutexes, deathVars, callVars, conn, todo>>

\* Mutant of Release: connect() has moved its token into the wrapper and holds none.
ReleaseMoved(t) ==
  /\ at[t] = "release"
  /\ Resume(t)
  /\ UNCHANGED <<mode, linkVars, mutexes, deathVars, callVars, todo>>

\* connect() lets go of its own reference to the token: the last one, if the connection has
\* been torn down meanwhile.
Release(t) ==
  /\ at[t] = "release"
  /\ \/ /\ ~connected[conn[t]] /\ ~TokenKept(t, conn[t])
        /\ Step(t, "test")
        /\ UNCHANGED conn
     \/ /\ connected[conn[t]] \/ TokenKept(t, conn[t])
        /\ Resume(t)
  /\ UNCHANGED <<mode, linkVars, mutexes, deathVars, callVars, todo>>

-----------------------------------------------------------------------------
\* The calls that walk over connections.  Object::disconnect() has one, whose handle connect()
\* has returned.
Disconnect(t, c) ==
  /\ Made(c) /\ ~\E u \in Threads : Connecting(u, c)
  /\ Start(t, "disconnect", Nobody, "walk")
  /\ todo' = [todo EXCEPT ![t] = {c}]
  /\ UNCHANGED <<mode, linkVars, mutexes, deathVars, conn>>

\* operator(): the slot list as it is now.
Emit(t, s) ==
  /\ live[s] /\ sigMutex[s] = Nobody
  /\ Start(t, "emit", s, "walk")
  /\ todo' = [todo EXCEPT ![t] = {c \in Conns : connected[c] /\ from[c] = s}]
  /\ UNCHANGED <<mode, linkVars, mutexes, deathVars, conn>>

\* ~Signal(): nobody else may be using it.
DestroySignal(t, s) ==
  /\ live[s] /\ sigMutex[s] = Nobody
  /\ \A u \in Threads : /\ call[u] = "emit" => subject[u] # s
                        /\ at[u] = "insert" => from[conn[u]] # s
  /\ Start(t, "~Signal", s, "walk")
  /\ live' = [live EXCEPT ![s] = FALSE]
  /\ todo' = [todo EXCEPT ![t] = {c \in Conns : connected[c] /\ from[c] = s}]
  /\ UNCHANGED <<mode, linkVars, mutexes, life, conn>>

\* ~Object() resets the life token before anything else.
InHand(o) == \E t \in Threads : (at[t] = "slot" /\ to[conn[t]] = o) \/ Pruning(t, o)

\* Mutant of DestroyObject: the life token goes with the other members, at the end.
DestroyObjectKeepsLife(t, o) ==
  /\ life[o] = "alive"
  /\ \A u \in Threads : call[u] = "connect" => subject[u] # o
  /\ mode.careful => ~InHand(o)
  /\ Start(t, "~Object", o, "lock")
  /\ UNCHANGED <<mode, linkVars, mutexes, deathVars, conn, todo>>

DestroyObject(t, o) ==
  /\ life[o] = "alive"
  /\ \A u \in Threads : call[u] = "connect" => subject[u] # o
  /\ mode.careful => ~InHand(o)
  /\ Start(t, "~Object", o, "lock")
  /\ life' = [life EXCEPT ![o] = "dying"]
  /\ UNCHANGED <<mode, linkVars, mutexes, live, conn, todo>>

\* incoming.swap( mIncoming ) under mIncomingMutex.
LockIncoming(t) ==
  /\ at[t] = "lock" /\ incomingMutex[subject[t]] = Nobody
  /\ incomingMutex' = [incomingMutex EXCEPT ![subject[t]] = t]
  /\ Step(t, "swap")
  /\ UNCHANGED <<mode, linkVars, sigMutex, deathVars, callVars, conn, todo>>

\* Mutants of SwapIncoming: the list is emptied and not walked; the mutex is held across the
\* walk, that is for good.
SwapIncomingClears(t) ==
  /\ at[t] = "swap"
  /\ incoming' = [incoming EXCEPT ![subject[t]] = {}]
  /\ incomingMutex' = [incomingMutex EXCEPT ![subject[t]] = Nobody]
  /\ Step(t, "walk")
  /\ UNCHANGED <<mode, from, to, connected, sigMutex, deathVars, callVars, conn, todo>>

SwapIncomingHolds(t) ==
  /\ at[t] = "swap"
  /\ todo' = [todo EXCEPT ![t] = incoming[subject[t]]]
  /\ incoming' = [incoming EXCEPT ![subject[t]] = {}]
  /\ Step(t, "walk")
  /\ UNCHANGED <<mode, from, to, connected, mutexes, deathVars, callVars, conn>>

SwapIncoming(t) ==
  /\ at[t] = "swap"
  /\ todo' = [todo EXCEPT ![t] = incoming[subject[t]]]
  /\ incoming' = [incoming EXCEPT ![subject[t]] = {}]
  /\ incomingMutex' = [incomingMutex EXCEPT ![subject[t]] = Nobody]
  /\ Step(t, "walk")
  /\ UNCHANGED <<mode, from, to, connected, sigMutex, deathVars, callVars, conn>>

\* handle.disconnect(): the flag under the signal's mutex; the slot is destroyed unless an
\* emission is inside it.
Disconnecting(t) == call[t] \in {"disconnect", "~Signal", "~Object"}

TearDown(t, c) ==
  /\ at[t] = "walk" /\ Disconnecting(t) /\ c \in todo[t] /\ SignalFree(c)
  /\ todo' = [todo EXCEPT ![t] = @ \ {c}]
  /\ connected' = [connected EXCEPT ![c] = FALSE]
  /\ \/ /\ connected[c] /\ ~TokenKept(t, c)
        /\ Keep(t, c)
        /\ Step(t, "test")
        /\ conn' = [conn EXCEPT ![t] = c]
     \/ /\ ~connected[c] \/ TokenKept(t, c)
        /\ UNCHANGED <<sigMutex, at, conn>>
  /\ UNCHANGED <<mode, from, to, incoming, incomingMutex, deathVars, callVars>>

\* The emission passes over a slot, or enters it.
Visit(t, c) ==
  /\ at[t] = "walk" /\ call[t] = "emit" /\ c \in todo[t] /\ SignalFree(c)
  /\ todo' = [todo EXCEPT ![t] = @ \ {c}]
  /\ \/ connected[c] /\ Step(t, "wrapper") /\ conn' = [conn EXCEPT ![t] = c]
     \/ ~connected[c] /\ UNCHANGED <<at, conn>>
  /\ UNCHANGED <<mode, linkVars, mutexes, deathVars, callVars>>

\* weakLife.lock(); nothing more is done for a receiver whose token is gone.
LockLife(t) ==
  /\ at[t] = "wrapper"
  /\ Step(t, IF Expired(to[conn[t]]) THEN "leave" ELSE "slot")
  /\ UNCHANGED <<mode, linkVars, mutexes, deathVars, callVars, conn, todo>>

\* A slot that disconnects itself; the emission keeps it until it returns.
DisconnectOwn(t) ==
  /\ at[t] = "slot" /\ SignalFree(conn[t])
  /\ connected' = [connected EXCEPT ![conn[t]] = FALSE]
  /\ UNCHANGED <<mode, from, to, incoming, mutexes, deathVars, callVars, stepVars>>

\* The slot has returned and the wrapper has dropped the life token.
ReturnSlot(t) ==
  /\ at[t] = "slot"
  /\ Step(t, "leave")
  /\ UNCHANGED <<mode, linkVars, mutexes, deathVars, callVars, conn, todo>>

\* The emission drops its reference to the slot.
Leave(t) ==
  /\ at[t] = "leave" /\ SignalFree(conn[t])
  /\ \/ /\ ~connected[conn[t]] /\ ~TokenKept(t, conn[t])
        /\ Keep(t, conn[t])
        /\ Step(t, "test")
        /\ UNCHANGED conn
     \/ /\ connected[conn[t]] \/ TokenKept(t, conn[t])
        /\ Resume(t)
        /\ UNCHANGED sigMutex
  /\ UNCHANGED <<mode, linkVars, incomingMutex, deathVars, callVars, todo>>

-----------------------------------------------------------------------------
\* ~Cleanup(): the signal's mutex is dropped when it returns, if it was held.
Unlock(t) == sigMutex' = [s \in Signals |-> IF sigMutex[s] = t THEN Nobody ELSE sigMutex[s]]

TestLife(t) ==
  /\ at[t] = "test"
  /\ \/ Expired(to[conn[t]]) /\ Unlock(t) /\ Resume(t)
     \/ ~Expired(to[conn[t]]) /\ Step(t, "erase") /\ UNCHANGED <<sigMutex, conn>>
  /\ UNCHANGED <<mode, linkVars, incomingMutex, deathVars, callVars, todo>>

\* With the owner freed there is no telling what this does: the thread is not followed further.
Prune(t) ==
  /\ at[t] = "erase" /\ life[to[conn[t]]] # "freed" /\ incomingMutex[to[conn[t]]] = Nobody
  /\ incoming' = [incoming EXCEPT ![to[conn[t]]] = @ \ {conn[t]}]
  /\ Unlock(t) /\ Resume(t)
  /\ UNCHANGED <<mode, from, to, connected, incomingMutex, deathVars, callVars, todo>>

\* Nothing left to visit: the call returns; after the rest of ~Object() the memory goes.
Finish(t) ==
  /\ at[t] = "walk" /\ todo[t] = {}
  /\ Step(t, "idle")
  /\ call' = [call EXCEPT ![t] = "none"]
  /\ subject' = [subject EXCEPT ![t] = Nobody]
  /\ \/ call[t] = "~Object" /\ life' = [life EXCEPT ![subject[t]] = "freed"]
     \/ call[t] # "~Object" /\ UNCHANGED life
  /\ UNCHANGED <<mode, linkVars, mutexes, live, conn, todo>>

Continue(t) ==
  \/ Insert(t) \/ Track(t) \/ Release(t)
  \/ LockIncoming(t) \/ SwapIncoming(t)
  \/ \E c \in Conns : TearDown(t, c) \/ Visit(t, c)
  \/ LockLife(t) \/ DisconnectOwn(t) \/ ReturnSlot(t) \/ Leave(t)
  \/ TestLife(t) \/ Prune(t) \/ Finish(t)

Begin(t) ==
  \/ \E c \in Conns, s \in Signals, o \in Objects : Connect(t, c, s, o)
  \/ \E c \in Conns : Disconnect(t, c)
  \/ \E s \in Signals : Emit(t, s) \/ DestroySignal(t, s)
  \/ \E o \in Objects : DestroyObject(t, o)

Next == \E t \in Threads : Begin(t) \/ Continue(t)

Spec == Init /\ [][Next]_vars

-----------------------------------------------------------------------------
\* The two sides agree about a living receiver.  Every connection its connect() has tracked
\* is listed until it is torn down; and an entry outlives its connection only while its token
\* is still to be destroyed, which removes it.  So neither an early disconnect(), nor a Signal
\* gone in the middle of a connect(), nor a slot that outlives its disconnect() leaves a handle
\* behind.
TokenOwed(c) == \E t \in Threads :
  conn[t] = c /\ at[t] \in {"insert", "track", "release", "wrapper", "slot", "leave", "test", "erase"}

HandlesAgree == \A c \in Conns : (Made(c) /\ life[to[c]] = "alive") =>
  /\ connected[c] => \/ c \in incoming[to[c]]
                     \/ \E t \in Threads : conn[t] = c /\ at[t] \in {"insert", "track"}
  /\ c \in incoming[to[c]] => connected[c] \/ TokenOwed(c)

\* No signal keeps a slot of a receiver that is gone, whoever was connecting, emitting or
\* disconnecting while ~Object() walked its list.
FreedLeaveNoSlots == \A c \in Conns :
  (Made(c) /\ life[to[c]] = "freed") => ~connected[c]

\* A connection stands while its slot is in the signal's list, and is cut when it has left it.
LinkOf(c) == IF ~Made(c) THEN "none"
             ELSE IF connected[c] THEN "standing"
             ELSE IF \E t \in Threads : at[t] = "insert" /\ conn[t] = c THEN "made" ELSE "cut"
SignalOf(s) == IF live[s] THEN "alive"
               ELSE IF \E t \in Threads : call[t] = "~Signal" /\ subject[t] = s THEN "dying" ELSE "freed"
Inside == {"wrapper", "slot", "leave"}
ReachedBy(t) == IF at[t] \in Inside THEN conn[t] ELSE Nobody

Abstract == INSTANCE Links WITH
  strict <- mode.careful,
  link <- [c \in Conns |-> LinkOf(c)],
  signal <- [s \in Signals |-> SignalOf(s)],
  reached <- [t \in Threads |-> ReachedBy(t)],
  running <- {t \in Threads : at[t] = "slot"}

\* However connect(), disconnect(), emissions and both destructors interleave, a connection is
\* made once and cut once; an emission gets to it only while it stands and the signal is
\* there; a slot starts on a living receiver, if users are careful; and neither end is gone
\* before all its connections are cut.
ImplementsLinks == Abstract!Safety

\* ~Cleanup() never reaches for the mutex of a receiver whose ~Object() has begun, as long as
\* no slot of the receiver was running and none was being destroyed when it began.
CleanupTouchesLive == mode.careful => \A t \in Threads :
  at[t] = "erase" => life[to[conn[t]]] = "alive"

\* The same without that discipline: the expired() test is made before the lock is taken.
CleanupNeverDangles == \A t \in Threads :
  at[t] = "erase" => life[to[conn[t]]] # "freed"

\* Of any threads that wait for a mutex at least one waits for a mutex none of them holds:
\* the signal's and mIncomingMutex are never waited for in a circle, whatever of disconnect(),
\* ~Cleanup(), ~Signal() and ~Object() they run.
Waits(t, u) ==
  \/ at[t] \in {"insert", "leave"} /\ sigMutex[from[conn[t]]] = u
  \/ at[t] = "walk" /\ \E c \in todo[t] : sigMutex[from[c]] = u
  \/ at[t] \in {"track", "erase"} /\ incomingMutex[to[conn[t]]] = u
  \/ at[t] = "lock" /\ incomingMutex[subject[t]] = u

NoCircle == \A S \in SUBSET Threads : S # {} => \E t \in S : \A u \in S : ~Waits(t, u)
=============================================================================
