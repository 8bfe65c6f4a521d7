--------------------------- MODULE ConnectionsProofs ---------------------------
(***************************************************************************)
(* Proofs about Connections, for any sets of threads, signals, receivers   *)
(* and connections, with and without the discipline and under either       *)
(* boost.  TypeInv says what a thread at each step has in hand; Book how   *)
(* the two lists and the steps under way account for every connection.     *)
(***************************************************************************)
EXTENDS Connections, TLAPS

Calls == {"none", "connect", "disconnect", "emit", "~Signal", "~Object"}
Places == {"idle", "insert", "track", "release", "walk", "lock", "swap",
           "wrapper", "slot", "leave", "test", "erase"}
Plain == {"idle", "walk", "lock", "swap"}

\* Both ends of a connection are known at once, and only then is it anywhere.
Ends == \A c \in Conns :
  /\ Made(c) <=> from[c] # Nobody
  /\ connected[c] => Made(c)
  /\ \A o \in Objects : c \in incoming[o] => to[c] = o
  /\ \A t \in Threads : c \in todo[t] => Made(c)

Hand(t) ==
  /\ at[t] \in Plain => conn[t] = Nobody
  /\ at[t] \notin Plain => conn[t] \in Conns /\ Made(conn[t])
  /\ at[t] = "idle" <=> call[t] = "none"
  /\ at[t] \in {"lock", "swap"} => call[t] = "~Object"
  /\ at[t] \in {"insert", "track", "release"} => call[t] = "connect" /\ subject[t] = to[conn[t]]
  /\ at[t] \in {"wrapper", "slot", "leave"} => call[t] = "emit"
  /\ call[t] = "connect" => subject[t] \in Objects /\ life[subject[t]] = "alive"
  /\ call[t] = "~Object" => subject[t] \in Objects /\ life[subject[t]] = "dying"
  /\ call[t] \in {"none", "connect"} => todo[t] = {}

OneDestroyer == \A t, u \in Threads :
  (call[t] = "~Object" /\ call[u] = "~Object" /\ subject[t] = subject[u]) => t = u

TypeInv == TypeOK /\ Ends /\ (\A t \in Threads : Hand(t)) /\ OneDestroyer

\* What ~Object() has not walked yet is in its list, or in mIncoming until it takes it.
Walked == \A t \in Threads, c \in Conns :
  (call[t] = "~Object" /\ connected[c] /\ to[c] = subject[t]) =>
    IF at[t] \in {"lock", "swap"} THEN c \in incoming[subject[t]] ELSE c \in todo[t]

\* A token is destroyed only after its connection, and after its connect().
Dropped == \A t \in Threads : at[t] \in {"test", "erase"} =>
  /\ ~connected[conn[t]]
  /\ \A u \in Threads : ~Connecting(u, conn[t])

Book == HandlesAgree /\ FreedLeaveNoSlots /\ Walked /\ Dropped

SlotsOfLive == mode.careful => \A t \in Threads :
  at[t] \in {"slot", "erase"} => life[to[conn[t]]] = "alive"

\* Who holds a mutex, and where.
Holders ==
  /\ \A s \in Signals : sigMutex[s] # Nobody => at[sigMutex[s]] \in {"test", "erase"}
  /\ \A o \in Objects : incomingMutex[o] # Nobody =>
       at[incomingMutex[o]] = "swap" /\ subject[incomingMutex[o]] = o
-----------------------------------------------------------------------------
\* Every action keeps TypeInv.
LEMMA TypeConnect == ASSUME TypeInv, NEW t \in Threads, NEW c \in Conns, NEW s \in Signals, NEW o \in Objects, Connect(t, c, s, o) PROVE TypeInv'
<1> USE NobodyAssumption DEF TypeInv, Connect, Start, Step, linkVars, mutexes, deathVars, callVars, stepVars
<1>1. TypeOK'
  BY DEF TypeOK, Ends, Hand, Plain, Made
<1>2. Ends'
  BY DEF TypeOK, Ends, Hand, Plain, Made
<1>3. \A u \in Threads : Hand(u)'
  <2> SUFFICES ASSUME NEW u \in Threads PROVE Hand(u)'
    OBVIOUS
  <2>1. CASE u = t
    BY <2>1 DEF TypeOK, Ends, Hand, Plain, Made
  <2>2. CASE u # t
    BY <2>2 DEF TypeOK, Ends, Hand, Plain, Made, OneDestroyer
  <2>3. QED
    BY <2>1, <2>2
<1>4. OneDestroyer'
  BY DEF TypeOK, OneDestroyer, Hand
<1>5. QED
  BY <1>1, <1>2, <1>3, <1>4

LEMMA TypeInsert == ASSUME TypeInv, NEW t \in Threads, Insert(t) PROVE TypeInv'
<1> USE NobodyAssumption DEF TypeInv, Insert, SignalFree, Step, linkVars, mutexes, deathVars, callVars, stepVars
<1>1. TypeOK'
  BY DEF TypeOK, Ends, Hand, Plain, Made
<1>2. Ends'
  BY DEF TypeOK, Ends, Hand, Plain, Made
<1>3. \A u \in Threads : Hand(u)'
  <2> SUFFICES ASSUME NEW u \in Threads PROVE Hand(u)'
    OBVIOUS
  <2>1. CASE u = t
    BY <2>1 DEF TypeOK, Ends, Hand, Plain, Made
  <2>2. CASE u # t
    BY <2>2 DEF TypeOK, Ends, Hand, Plain, Made, OneDestroyer
  <2>3. QED
    BY <2>1, <2>2
<1>4. OneDestroyer'
  BY DEF TypeOK, OneDestroyer, Hand
<1>5. QED
  BY <1>1, <1>2, <1>3, <1>4

LEMMA TypeTrack == ASSUME TypeInv, NEW t \in Threads, Track(t) PROVE TypeInv'
<1> USE NobodyAssumption DEF TypeInv, Track, Step, linkVars, mutexes, deathVars, callVars, stepVars
<1>1. TypeOK'
  BY DEF TypeOK, Ends, Hand, Plain, Made
<1>2. Ends'
  BY DEF TypeOK, Ends, Hand, Plain, Made
<1>3. \A u \in Threads : Hand(u)'
  <2> SUFFICES ASSUME NEW u \in Threads PROVE Hand(u)'
    OBVIOUS
  <2>1. CASE u = t
    BY <2>1 DEF TypeOK, Ends, Hand, Plain, Made
  <2>2. CASE u # t
    BY <2>2 DEF TypeOK, Ends, Hand, Plain, Made, OneDestroyer
  <2>3. QED
    BY <2>1, <2>2
<1>4. OneDestroyer'
  BY DEF TypeOK, OneDestroyer, Hand
<1>5. QED
  BY <1>1, <1>2, <1>3, <1>4

LEMMA TypeRelease == ASSUME TypeInv, NEW t \in Threads, Release(t) PROVE TypeInv'
<1> USE NobodyAssumption DEF TypeInv, Release, Step, Resume, linkVars, mutexes, deathVars, callVars, stepVars
<1>1. TypeOK'
  BY SMTT(30) DEF TypeOK, Ends, Hand, Plain, Made
<1>2. Ends'
  BY DEF TypeOK, Ends, Hand, Plain, Made
<1>3. \A u \in Threads : Hand(u)'
  <2> SUFFICES ASSUME NEW u \in Threads PROVE Hand(u)'
    OBVIOUS
  <2>1. CASE u = t
    BY <2>1 DEF TypeOK, Ends, Hand, Plain, Made
  <2>2. CASE u # t
    BY <2>2 DEF TypeOK, Ends, Hand, Plain, Made, OneDestroyer
  <2>3. QED
    BY <2>1, <2>2
<1>4. OneDestroyer'
  BY DEF TypeOK, OneDestroyer, Hand
<1>5. QED
  BY <1>1, <1>2, <1>3, <1>4

LEMMA TypeDisconnect == ASSUME TypeInv, NEW t \in Threads, NEW c \in Conns, Disconnect(t, c) PROVE TypeInv'
<1> USE NobodyAssumption DEF TypeInv, Disconnect, Start, Step, linkVars, mutexes, deathVars, callVars, stepVars
<1>1. TypeOK'
  BY DEF TypeOK, Ends, Hand, Plain, Made
<1>2. Ends'
  BY DEF TypeOK, Ends, Hand, Plain, Made
<1>3. \A u \in Threads : Hand(u)'
  <2> SUFFICES ASSUME NEW u \in Threads PROVE Hand(u)'
    OBVIOUS
  <2>1. CASE u = t
    BY <2>1 DEF TypeOK, Ends, Hand, Plain, Made
  <2>2. CASE u # t
    BY <2>2 DEF TypeOK, Ends, Hand, Plain, Made, OneDestroyer
  <2>3. QED
    BY <2>1, <2>2
<1>4. OneDestroyer'
  BY DEF TypeOK, OneDestroyer, Hand
<1>5. QED
  BY <1>1, <1>2, <1>3, <1>4

LEMMA TypeEmit == ASSUME TypeInv, NEW t \in Threads, NEW s \in Signals, Emit(t, s) PROVE TypeInv'
<1> USE NobodyAssumption DEF TypeInv, Emit, Start, Step, linkVars, mutexes, deathVars, callVars, stepVars
<1>1. TypeOK'
  BY DEF TypeOK, Ends, Hand, Plain, Made
<1>2. Ends'
  BY DEF TypeOK, Ends, Hand, Plain, Made
<1>3. \A u \in Threads : Hand(u)'
  <2> SUFFICES ASSUME NEW u \in Threads PROVE Hand(u)'
    OBVIOUS
  <2>1. CASE u = t
    BY <2>1 DEF TypeOK, Ends, Hand, Plain, Made
  <2>2. CASE u # t
    BY <2>2 DEF TypeOK, Ends, Hand, Plain, Made, OneDestroyer
  <2>3. QED
    BY <2>1, <2>2
<1>4. OneDestroyer'
  BY DEF TypeOK, OneDestroyer, Hand
<1>5. QED
  BY <1>1, <1>2, <1>3, <1>4

LEMMA TypeDestroySignal == ASSUME TypeInv, NEW t \in Threads, NEW s \in Signals, DestroySignal(t, s) PROVE TypeInv'
<1> USE NobodyAssumption DEF TypeInv, DestroySignal, Start, Step, linkVars, mutexes, deathVars, callVars, stepVars
<1>1. TypeOK'
  BY DEF TypeOK, Ends, Hand, Plain, Made
<1>2. Ends'
  BY DEF TypeOK, Ends, Hand, Plain, Made
<1>3. \A u \in Threads : Hand(u)'
  <2> SUFFICES ASSUME NEW u \in Threads PROVE Hand(u)'
    OBVIOUS
  <2>1. CASE u = t
    BY <2>1 DEF TypeOK, Ends, Hand, Plain, Made
  <2>2. CASE u # t
    BY <2>2 DEF TypeOK, Ends, Hand, Plain, Made, OneDestroyer
  <2>3. QED
    BY <2>1, <2>2
<1>4. OneDestroyer'
  BY DEF TypeOK, OneDestroyer, Hand
<1>5. QED
  BY <1>1, <1>2, <1>3, <1>4

LEMMA TypeDestroyObject == ASSUME TypeInv, NEW t \in Threads, NEW o \in Objects, DestroyObject(t, o) PROVE TypeInv'
<1> USE NobodyAssumption DEF TypeInv, DestroyObject, Start, Step, linkVars, mutexes, deathVars, callVars, stepVars
<1>1. TypeOK'
  BY DEF TypeOK, Ends, Hand, Plain, Made
<1>2. Ends'
  BY DEF TypeOK, Ends, Hand, Plain, Made
<1>3. \A u \in Threads : Hand(u)'
  <2> SUFFICES ASSUME NEW u \in Threads PROVE Hand(u)'
    OBVIOUS
  <2>1. CASE u = t
    BY <2>1 DEF TypeOK, Ends, Hand, Plain, Made
  <2>2. CASE u # t
    BY <2>2 DEF TypeOK, Ends, Hand, Plain, Made, OneDestroyer
  <2>3. QED
    BY <2>1, <2>2
<1>4. OneDestroyer'
  BY DEF TypeOK, OneDestroyer, Hand
<1>5. QED
  BY <1>1, <1>2, <1>3, <1>4

LEMMA TypeLockIncoming == ASSUME TypeInv, NEW t \in Threads, LockIncoming(t) PROVE TypeInv'
<1> USE NobodyAssumption DEF TypeInv, LockIncoming, Step, linkVars, mutexes, deathVars, callVars, stepVars
<1>1. TypeOK'
  BY DEF TypeOK, Ends, Hand, Plain, Made
<1>2. Ends'
  BY DEF TypeOK, Ends, Hand, Plain, Made
<1>3. \A u \in Threads : Hand(u)'
  <2> SUFFICES ASSUME NEW u \in Threads PROVE Hand(u)'
    OBVIOUS
  <2>1. CASE u = t
    BY <2>1 DEF TypeOK, Ends, Hand, Plain, Made
  <2>2. CASE u # t
    BY <2>2 DEF TypeOK, Ends, Hand, Plain, Made, OneDestroyer
  <2>3. QED
    BY <2>1, <2>2
<1>4. OneDestroyer'
  BY DEF TypeOK, OneDestroyer, Hand
<1>5. QED
  BY <1>1, <1>2, <1>3, <1>4

LEMMA TypeSwapIncoming == ASSUME TypeInv, NEW t \in Threads, SwapIncoming(t) PROVE TypeInv'
<1> USE NobodyAssumption DEF TypeInv, SwapIncoming, Step, linkVars, mutexes, deathVars, callVars, stepVars
<1>1. TypeOK'
  BY DEF TypeOK, Ends, Hand, Plain, Made
<1>2. Ends'
  BY DEF TypeOK, Ends, Hand, Plain, Made
<1>3. \A u \in Threads : Hand(u)'
  <2> SUFFICES ASSUME NEW u \in Threads PROVE Hand(u)'
    OBVIOUS
  <2>1. CASE u = t
    BY <2>1 DEF TypeOK, Ends, Hand, Plain, Made
  <2>2. CASE u # t
    BY <2>2 DEF TypeOK, Ends, Hand, Plain, Made, OneDestroyer
  <2>3. QED
    BY <2>1, <2>2
<1>4. OneDestroyer'
  BY DEF TypeOK, OneDestroyer, Hand
<1>5. QED
  BY <1>1, <1>2, <1>3, <1>4

LEMMA TypeTearDown == ASSUME TypeInv, NEW t \in Threads, NEW c \in Conns, TearDown(t, c) PROVE TypeInv'
<1> USE NobodyAssumption DEF TypeInv, TearDown, SignalFree, Keep, Step, Disconnecting, linkVars, mutexes, deathVars, callVars, stepVars
<1>1. TypeOK'
  BY SMTT(30) DEF TypeOK, Ends, Hand, Plain, Made
<1>2. Ends'
  BY DEF TypeOK, Ends, Hand, Plain, Made
<1>3. \A u \in Threads : Hand(u)'
  <2> SUFFICES ASSUME NEW u \in Threads PROVE Hand(u)'
    OBVIOUS
  <2>1. CASE u = t
    BY <2>1 DEF TypeOK, Ends, Hand, Plain, Made
  <2>2. CASE u # t
    BY <2>2 DEF TypeOK, Ends, Hand, Plain, Made, OneDestroyer
  <2>3. QED
    BY <2>1, <2>2
<1>4. OneDestroyer'
  BY DEF TypeOK, OneDestroyer, Hand
<1>5. QED
  BY <1>1, <1>2, <1>3, <1>4

LEMMA TypeVisit == ASSUME TypeInv, NEW t \in Threads, NEW c \in Conns, Visit(t, c) PROVE TypeInv'
<1> USE NobodyAssumption DEF TypeInv, Visit, SignalFree, Step, linkVars, mutexes, deathVars, callVars, stepVars
<1>1. TypeOK'
  BY DEF TypeOK, Ends, Hand, Plain, Made
<1>2. Ends'
  BY DEF TypeOK, Ends, Hand, Plain, Made
<1>3. \A u \in Threads : Hand(u)'
  <2> SUFFICES ASSUME NEW u \in Threads PROVE Hand(u)'
    OBVIOUS
  <2>1. CASE u = t
    BY <2>1 DEF TypeOK, Ends, Hand, Plain, Made
  <2>2. CASE u # t
    BY <2>2 DEF TypeOK, Ends, Hand, Plain, Made, OneDestroyer
  <2>3. QED
    BY <2>1, <2>2
<1>4. OneDestroyer'
  BY DEF TypeOK, OneDestroyer, Hand
<1>5. QED
  BY <1>1, <1>2, <1>3, <1>4

LEMMA TypeLockLife == ASSUME TypeInv, NEW t \in Threads, LockLife(t) PROVE TypeInv'
<1> USE NobodyAssumption DEF TypeInv, LockLife, Step, linkVars, mutexes, deathVars, callVars, stepVars
<1>1. TypeOK'
  BY DEF TypeOK, Ends, Hand, Plain, Made
<1>2. Ends'
  BY DEF TypeOK, Ends, Hand, Plain, Made
<1>3. \A u \in Threads : Hand(u)'
  <2> SUFFICES ASSUME NEW u \in Threads PROVE Hand(u)'
    OBVIOUS
  <2>1. CASE u = t
    BY <2>1 DEF TypeOK, Ends, Hand, Plain, Made
  <2>2. CASE u # t
    BY <2>2 DEF TypeOK, Ends, Hand, Plain, Made, OneDestroyer
  <2>3. QED
    BY <2>1, <2>2
<1>4. OneDestroyer'
  BY DEF TypeOK, OneDestroyer, Hand
<1>5. QED
  BY <1>1, <1>2, <1>3, <1>4

LEMMA TypeDisconnectOwn == ASSUME TypeInv, NEW t \in Threads, DisconnectOwn(t) PROVE TypeInv'
<1> USE NobodyAssumption DEF TypeInv, DisconnectOwn, SignalFree, linkVars, mutexes, deathVars, callVars, stepVars
<1>1. TypeOK'
  BY DEF TypeOK, Ends, Hand, Plain, Made
<1>2. Ends'
  BY DEF TypeOK, Ends, Hand, Plain, Made
<1>3. \A u \in Threads : Hand(u)'
  <2> SUFFICES ASSUME NEW u \in Threads PROVE Hand(u)'
    OBVIOUS
  <2>1. CASE u = t
    BY <2>1 DEF TypeOK, Ends, Hand, Plain, Made
  <2>2. CASE u # t
    BY <2>2 DEF TypeOK, Ends, Hand, Plain, Made, OneDestroyer
  <2>3. QED
    BY <2>1, <2>2
<1>4. OneDestroyer'
  BY DEF TypeOK, OneDestroyer, Hand
<1>5. QED
  BY <1>1, <1>2, <1>3, <1>4

LEMMA TypeReturnSlot == ASSUME TypeInv, NEW t \in Threads, ReturnSlot(t) PROVE TypeInv'
<1> USE NobodyAssumption DEF TypeInv, ReturnSlot, Step, linkVars, mutexes, deathVars, callVars, stepVars
<1>1. TypeOK'
  BY DEF TypeOK, Ends, Hand, Plain, Made
<1>2. Ends'
  BY DEF TypeOK, Ends, Hand, Plain, Made
<1>3. \A u \in Threads : Hand(u)'
  <2> SUFFICES ASSUME NEW u \in Threads PROVE Hand(u)'
    OBVIOUS
  <2>1. CASE u = t
    BY <2>1 DEF TypeOK, Ends, Hand, Plain, Made
  <2>2. CASE u # t
    BY <2>2 DEF TypeOK, Ends, Hand, Plain, Made, OneDestroyer
  <2>3. QED
    BY <2>1, <2>2
<1>4. OneDestroyer'
  BY DEF TypeOK, OneDestroyer, Hand
<1>5. QED
  BY <1>1, <1>2, <1>3, <1>4

LEMMA TypeLeave == ASSUME TypeInv, NEW t \in Threads, Leave(t) PROVE TypeInv'
<1> USE NobodyAssumption DEF TypeInv, Leave, SignalFree, Keep, Step, Resume, linkVars, mutexes, deathVars, callVars, stepVars
<1>1. TypeOK'
  BY SMTT(30) DEF TypeOK, Ends, Hand, Plain, Made
<1>2. Ends'
  BY DEF TypeOK, Ends, Hand, Plain, Made
<1>3. \A u \in Threads : Hand(u)'
  <2> SUFFICES ASSUME NEW u \in Threads PROVE Hand(u)'
    OBVIOUS
  <2>1. CASE u = t
    BY <2>1 DEF TypeOK, Ends, Hand, Plain, Made
  <2>2. CASE u # t
    BY <2>2 DEF TypeOK, Ends, Hand, Plain, Made, OneDestroyer
  <2>3. QED
    BY <2>1, <2>2
<1>4. OneDestroyer'
  BY DEF TypeOK, OneDestroyer, Hand
<1>5. QED
  BY <1>1, <1>2, <1>3, <1>4

LEMMA TypeTestLife == ASSUME TypeInv, NEW t \in Threads, TestLife(t) PROVE TypeInv'
<1> USE NobodyAssumption DEF TypeInv, TestLife, Unlock, Step, Resume, linkVars, mutexes, deathVars, callVars, stepVars
<1>1. TypeOK'
  BY DEF TypeOK, Ends, Hand, Plain, Made
<1>2. Ends'
  BY DEF TypeOK, Ends, Hand, Plain, Made
<1>3. \A u \in Threads : Hand(u)'
  <2> SUFFICES ASSUME NEW u \in Threads PROVE Hand(u)'
    OBVIOUS
  <2>1. CASE u = t
    BY <2>1 DEF TypeOK, Ends, Hand, Plain, Made
  <2>2. CASE u # t
    BY <2>2 DEF TypeOK, Ends, Hand, Plain, Made, OneDestroyer
  <2>3. QED
    BY <2>1, <2>2
<1>4. OneDestroyer'
  BY DEF TypeOK, OneDestroyer, Hand
<1>5. QED
  BY <1>1, <1>2, <1>3, <1>4

LEMMA TypePrune == ASSUME TypeInv, NEW t \in Threads, Prune(t) PROVE TypeInv'
<1> USE NobodyAssumption DEF TypeInv, Prune, Unlock, Step, Resume, linkVars, mutexes, deathVars, callVars, stepVars
<1>1. TypeOK'
  BY DEF TypeOK, Ends, Hand, Plain, Made
<1>2. Ends'
  BY DEF TypeOK, Ends, Hand, Plain, Made
<1>3. \A u \in Threads : Hand(u)'
  <2> SUFFICES ASSUME NEW u \in Threads PROVE Hand(u)'
    OBVIOUS
  <2>1. CASE u = t
    BY <2>1 DEF TypeOK, Ends, Hand, Plain, Made
  <2>2. CASE u # t
    BY <2>2 DEF TypeOK, Ends, Hand, Plain, Made, OneDestroyer
  <2>3. QED
    BY <2>1, <2>2
<1>4. OneDestroyer'
  BY DEF TypeOK, OneDestroyer, Hand
<1>5. QED
  BY <1>1, <1>2, <1>3, <1>4

LEMMA TypeFinish == ASSUME TypeInv, NEW t \in Threads, Finish(t) PROVE TypeInv'
<1> USE NobodyAssumption DEF TypeInv, Finish, Step, linkVars, mutexes, deathVars, callVars, stepVars
<1>1. TypeOK'
  BY DEF TypeOK, Ends, Hand, Plain, Made
<1>2. Ends'
  BY DEF TypeOK, Ends, Hand, Plain, Made
<1>3. \A u \in Threads : Hand(u)'
  <2> SUFFICES ASSUME NEW u \in Threads PROVE Hand(u)'
    OBVIOUS
  <2>1. CASE u = t
    BY <2>1 DEF TypeOK, Ends, Hand, Plain, Made
  <2>2. CASE u # t
    BY <2>2 DEF TypeOK, Ends, Hand, Plain, Made, OneDestroyer
  <2>3. QED
    BY <2>1, <2>2
<1>4. OneDestroyer'
  BY DEF TypeOK, OneDestroyer, Hand
<1>5. QED
  BY <1>1, <1>2, <1>3, <1>4


LEMMA TypeInvHolds == Spec => []TypeInv
<1>1. Init => TypeInv
  BY NobodyAssumption DEF Init, TypeInv, TypeOK, Ends, Hand, OneDestroyer, Plain, Made
<1>2. TypeInv /\ [Next]_vars => TypeInv'
  <2> SUFFICES ASSUME TypeInv, [Next]_vars PROVE TypeInv'
    OBVIOUS
  <2>1. CASE Next
    <3>1. PICK t \in Threads : Begin(t) \/ Continue(t)
      BY <2>1 DEF Next
    <3>2. CASE Begin(t)
      BY <3>2, TypeConnect, TypeDisconnect, TypeEmit, TypeDestroySignal, TypeDestroyObject DEF Begin
    <3>3. CASE Continue(t)
      BY <3>3, TypeInsert, TypeTrack, TypeRelease, TypeLockIncoming, TypeSwapIncoming, TypeTearDown, TypeVisit,
         TypeLockLife, TypeDisconnectOwn, TypeReturnSlot, TypeLeave, TypeTestLife, TypePrune, TypeFinish DEF Continue
    <3>4. QED
      BY <3>1, <3>2, <3>3
  <2>2. CASE UNCHANGED vars
    BY <2>2 DEF vars, linkVars, mutexes, deathVars, callVars, stepVars, TypeInv, TypeOK, Ends, Hand, OneDestroyer, Plain, Made
  <2>3. QED
    BY <2>1, <2>2
<1>3. QED
  BY <1>1, <1>2, PTL DEF Spec

\* Every variable keeps its type, whatever threads connect, emit, disconnect and destroy.
THEOREM TypeCorrect == Spec => []TypeOK
<1>1. TypeInv => TypeOK
  BY DEF TypeInv
<1>2. QED
  BY <1>1, TypeInvHolds, PTL

-----------------------------------------------------------------------------
\* Every action keeps the books.
LEMMA BookConnect == ASSUME TypeInv, TypeInv', Book, NEW t \in Threads, NEW c \in Conns, NEW s \in Signals, NEW o \in Objects, Connect(t, c, s, o) PROVE Book'
<1> USE NobodyAssumption DEF TypeInv, Book, Connect, Start, Step, linkVars, mutexes, deathVars, callVars, stepVars
<1>1. HandlesAgree'
  BY DEF TypeOK, Ends, Hand, Plain, Made, HandlesAgree, Dropped, TokenOwed, TokenKept, SlotKept, Visiting, Connecting, Expired
<1>2. FreedLeaveNoSlots'
  BY DEF TypeOK, Ends, Hand, Plain, Made, FreedLeaveNoSlots, Walked
<1>3. Walked'
  BY DEF TypeOK, Ends, Hand, Plain, Made, HandlesAgree, Walked, Dropped, OneDestroyer
<1>4. Dropped'
  BY DEF TypeOK, Ends, Hand, Plain, Made, Dropped, TokenKept, SlotKept, Visiting, Connecting
<1>5. QED
  BY <1>1, <1>2, <1>3, <1>4

LEMMA BookInsert == ASSUME TypeInv, TypeInv', Book, NEW t \in Threads, Insert(t) PROVE Book'
<1> USE NobodyAssumption DEF TypeInv, Book, Insert, SignalFree, Step, linkVars, mutexes, deathVars, callVars, stepVars
<1>1. HandlesAgree'
  BY DEF TypeOK, Ends, Hand, Plain, Made, HandlesAgree, Dropped, TokenOwed, TokenKept, SlotKept, Visiting, Connecting, Expired
<1>2. FreedLeaveNoSlots'
  BY DEF TypeOK, Ends, Hand, Plain, Made, FreedLeaveNoSlots, Walked
<1>3. Walked'
  BY DEF TypeOK, Ends, Hand, Plain, Made, HandlesAgree, Walked, Dropped, OneDestroyer
<1>4. Dropped'
  BY DEF TypeOK, Ends, Hand, Plain, Made, Dropped, TokenKept, SlotKept, Visiting, Connecting
<1>5. QED
  BY <1>1, <1>2, <1>3, <1>4

LEMMA BookTrack == ASSUME TypeInv, TypeInv', Book, NEW t \in Threads, Track(t) PROVE Book'
<1> USE NobodyAssumption DEF TypeInv, Book, Track, Step, linkVars, mutexes, deathVars, callVars, stepVars
<1>1. HandlesAgree'
  BY DEF TypeOK, Ends, Hand, Plain, Made, HandlesAgree, Dropped, TokenOwed, TokenKept, SlotKept, Visiting, Connecting, Expired
<1>2. FreedLeaveNoSlots'
  BY DEF TypeOK, Ends, Hand, Plain, Made, FreedLeaveNoSlots, Walked
<1>3. Walked'
  BY DEF TypeOK, Ends, Hand, Plain, Made, HandlesAgree, Walked, Dropped, OneDestroyer
<1>4. Dropped'
  BY DEF TypeOK, Ends, Hand, Plain, Made, Dropped, TokenKept, SlotKept, Visiting, Connecting
<1>5. QED
  BY <1>1, <1>2, <1>3, <1>4

LEMMA BookRelease == ASSUME TypeInv, TypeInv', Book, NEW t \in Threads, Release(t) PROVE Book'
<1> USE NobodyAssumption DEF TypeInv, Book, Release, Step, Resume, linkVars, mutexes, deathVars, callVars, stepVars
<1>1. HandlesAgree'
  BY SMTT(30) DEF TypeOK, Ends, Hand, Plain, Made, HandlesAgree, Dropped, TokenOwed, TokenKept, SlotKept, Visiting, Connecting, Expired
<1>2. FreedLeaveNoSlots'
  BY DEF TypeOK, Ends, Hand, Plain, Made, FreedLeaveNoSlots, Walked
<1>3. Walked'
  BY DEF TypeOK, Ends, Hand, Plain, Made, HandlesAgree, Walked, Dropped, OneDestroyer
<1>4. Dropped'
  BY SMTT(30) DEF TypeOK, Ends, Hand, Plain, Made, Dropped, TokenKept, SlotKept, Visiting, Connecting
<1>5. QED
  BY <1>1, <1>2, <1>3, <1>4

LEMMA BookDisconnect == ASSUME TypeInv, TypeInv', Book, NEW t \in Threads, NEW c \in Conns, Disconnect(t, c) PROVE Book'
<1> USE NobodyAssumption DEF TypeInv, Book, Disconnect, Start, Step, linkVars, mutexes, deathVars, callVars, stepVars
<1>1. HandlesAgree'
  BY DEF TypeOK, Ends, Hand, Plain, Made, HandlesAgree, Dropped, TokenOwed, TokenKept, SlotKept, Visiting, Connecting, Expired
<1>2. FreedLeaveNoSlots'
  BY DEF TypeOK, Ends, Hand, Plain, Made, FreedLeaveNoSlots, Walked
<1>3. Walked'
  BY DEF TypeOK, Ends, Hand, Plain, Made, HandlesAgree, Walked, Dropped, OneDestroyer
<1>4. Dropped'
  BY DEF TypeOK, Ends, Hand, Plain, Made, Dropped, TokenKept, SlotKept, Visiting, Connecting
<1>5. QED
  BY <1>1, <1>2, <1>3, <1>4

LEMMA BookEmit == ASSUME TypeInv, TypeInv', Book, NEW t \in Threads, NEW s \in Signals, Emit(t, s) PROVE Book'
<1> USE NobodyAssumption DEF TypeInv, Book, Emit, Start, Step, linkVars, mutexes, deathVars, callVars, stepVars
<1>1. HandlesAgree'
  BY DEF TypeOK, Ends, Hand, Plain, Made, HandlesAgree, Dropped, TokenOwed, TokenKept, SlotKept, Visiting, Connecting, Expired
<1>2. FreedLeaveNoSlots'
  BY DEF TypeOK, Ends, Hand, Plain, Made, FreedLeaveNoSlots, Walked
<1>3. Walked'
  BY DEF TypeOK, Ends, Hand, Plain, Made, HandlesAgree, Walked, Dropped, OneDestroyer
<1>4. Dropped'
  BY DEF TypeOK, Ends, Hand, Plain, Made, Dropped, TokenKept, SlotKept, Visiting, Connecting
<1>5. QED
  BY <1>1, <1>2, <1>3, <1>4

LEMMA BookDestroySignal == ASSUME TypeInv, TypeInv', Book, NEW t \in Threads, NEW s \in Signals, DestroySignal(t, s) PROVE Book'
<1> USE NobodyAssumption DEF TypeInv, Book, DestroySignal, Start, Step, linkVars, mutexes, deathVars, callVars, stepVars
<1>1. HandlesAgree'
  BY DEF TypeOK, Ends, Hand, Plain, Made, HandlesAgree, Dropped, TokenOwed, TokenKept, SlotKept, Visiting, Connecting, Expired
<1>2. FreedLeaveNoSlots'
  BY DEF TypeOK, Ends, Hand, Plain, Made, FreedLeaveNoSlots, Walked
<1>3. Walked'
  BY DEF TypeOK, Ends, Hand, Plain, Made, HandlesAgree, Walked, Dropped, OneDestroyer
<1>4. Dropped'
  BY DEF TypeOK, Ends, Hand, Plain, Made, Dropped, TokenKept, SlotKept, Visiting, Connecting
<1>5. QED
  BY <1>1, <1>2, <1>3, <1>4

LEMMA BookDestroyObject == ASSUME TypeInv, TypeInv', Book, NEW t \in Threads, NEW o \in Objects, DestroyObject(t, o) PROVE Book'
<1> USE NobodyAssumption DEF TypeInv, Book, DestroyObject, Start, Step, linkVars, mutexes, deathVars, callVars, stepVars
<1>1. HandlesAgree'
  BY DEF TypeOK, Ends, Hand, Plain, Made, HandlesAgree, Dropped, TokenOwed, TokenKept, SlotKept, Visiting, Connecting, Expired
<1>2. FreedLeaveNoSlots'
  BY DEF TypeOK, Ends, Hand, Plain, Made, FreedLeaveNoSlots, Walked
<1>3. Walked'
  BY DEF TypeOK, Ends, Hand, Plain, Made, HandlesAgree, Walked, Dropped, OneDestroyer
<1>4. Dropped'
  BY DEF TypeOK, Ends, Hand, Plain, Made, Dropped, TokenKept, SlotKept, Visiting, Connecting
<1>5. QED
  BY <1>1, <1>2, <1>3, <1>4

LEMMA BookLockIncoming == ASSUME TypeInv, TypeInv', Book, NEW t \in Threads, LockIncoming(t) PROVE Book'
<1> USE NobodyAssumption DEF TypeInv, Book, LockIncoming, Step, linkVars, mutexes, deathVars, callVars, stepVars
<1>1. HandlesAgree'
  BY DEF TypeOK, Ends, Hand, Plain, Made, HandlesAgree, Dropped, TokenOwed, TokenKept, SlotKept, Visiting, Connecting, Expired
<1>2. FreedLeaveNoSlots'
  BY DEF TypeOK, Ends, Hand, Plain, Made, FreedLeaveNoSlots, Walked
<1>3. Walked'
  BY DEF TypeOK, Ends, Hand, Plain, Made, HandlesAgree, Walked, Dropped, OneDestroyer
<1>4. Dropped'
  BY DEF TypeOK, Ends, Hand, Plain, Made, Dropped, TokenKept, SlotKept, Visiting, Connecting
<1>5. QED
  BY <1>1, <1>2, <1>3, <1>4

LEMMA BookSwapIncoming == ASSUME TypeInv, TypeInv', Book, NEW t \in Threads, SwapIncoming(t) PROVE Book'
<1> USE NobodyAssumption DEF TypeInv, Book, SwapIncoming, Step, linkVars, mutexes, deathVars, callVars, stepVars
<1>1. HandlesAgree'
  BY DEF TypeOK, Ends, Hand, Plain, Made, HandlesAgree, Dropped, TokenOwed, TokenKept, SlotKept, Visiting, Connecting, Expired
<1>2. FreedLeaveNoSlots'
  BY DEF TypeOK, Ends, Hand, Plain, Made, FreedLeaveNoSlots, Walked
<1>3. Walked'
  BY DEF TypeOK, Ends, Hand, Plain, Made, HandlesAgree, Walked, Dropped, OneDestroyer
<1>4. Dropped'
  BY DEF TypeOK, Ends, Hand, Plain, Made, Dropped, TokenKept, SlotKept, Visiting, Connecting
<1>5. QED
  BY <1>1, <1>2, <1>3, <1>4

LEMMA BookTearDown == ASSUME TypeInv, TypeInv', Book, NEW t \in Threads, NEW c \in Conns, TearDown(t, c) PROVE Book'
<1> USE NobodyAssumption DEF TypeInv, Book, TearDown, SignalFree, Keep, Step, Disconnecting, linkVars, mutexes, deathVars, callVars, stepVars
<1>1. HandlesAgree'
  BY SMTT(30) DEF TypeOK, Ends, Hand, Plain, Made, HandlesAgree, Dropped, TokenOwed, TokenKept, SlotKept, Visiting, Connecting, Expired
<1>2. FreedLeaveNoSlots'
  BY DEF TypeOK, Ends, Hand, Plain, Made, FreedLeaveNoSlots, Walked
<1>3. Walked'
  BY DEF TypeOK, Ends, Hand, Plain, Made, HandlesAgree, Walked, Dropped, OneDestroyer
<1>4. Dropped'
  BY SMTT(30) DEF TypeOK, Ends, Hand, Plain, Made, Dropped, TokenKept, SlotKept, Visiting, Connecting
<1>5. QED
  BY <1>1, <1>2, <1>3, <1>4

LEMMA BookVisit == ASSUME TypeInv, TypeInv', Book, NEW t \in Threads, NEW c \in Conns, Visit(t, c) PROVE Book'
<1> USE NobodyAssumption DEF TypeInv, Book, Visit, SignalFree, Step, linkVars, mutexes, deathVars, callVars, stepVars
<1>1. HandlesAgree'
  BY DEF TypeOK, Ends, Hand, Plain, Made, HandlesAgree, Dropped, TokenOwed, TokenKept, SlotKept, Visiting, Connecting, Expired
<1>2. FreedLeaveNoSlots'
  BY DEF TypeOK, Ends, Hand, Plain, Made, FreedLeaveNoSlots, Walked
<1>3. Walked'
  BY DEF TypeOK, Ends, Hand, Plain, Made, HandlesAgree, Walked, Dropped, OneDestroyer
<1>4. Dropped'
  BY DEF TypeOK, Ends, Hand, Plain, Made, Dropped, TokenKept, SlotKept, Visiting, Connecting
<1>5. QED
  BY <1>1, <1>2, <1>3, <1>4

LEMMA BookLockLife == ASSUME TypeInv, TypeInv', Book, NEW t \in Threads, LockLife(t) PROVE Book'
<1> USE NobodyAssumption DEF TypeInv, Book, LockLife, Step, linkVars, mutexes, deathVars, callVars, stepVars
<1>1. HandlesAgree'
  BY DEF TypeOK, Ends, Hand, Plain, Made, HandlesAgree, Dropped, TokenOwed, TokenKept, SlotKept, Visiting, Connecting, Expired
<1>2. FreedLeaveNoSlots'
  BY DEF TypeOK, Ends, Hand, Plain, Made, FreedLeaveNoSlots, Walked
<1>3. Walked'
  BY DEF TypeOK, Ends, Hand, Plain, Made, HandlesAgree, Walked, Dropped, OneDestroyer
<1>4. Dropped'
  BY DEF TypeOK, Ends, Hand, Plain, Made, Dropped, TokenKept, SlotKept, Visiting, Connecting
<1>5. QED
  BY <1>1, <1>2, <1>3, <1>4

LEMMA BookDisconnectOwn == ASSUME TypeInv, TypeInv', Book, NEW t \in Threads, DisconnectOwn(t) PROVE Book'
<1> USE NobodyAssumption DEF TypeInv, Book, DisconnectOwn, SignalFree, linkVars, mutexes, deathVars, callVars, stepVars
<1>1. HandlesAgree'
  BY DEF TypeOK, Ends, Hand, Plain, Made, HandlesAgree, Dropped, TokenOwed, TokenKept, SlotKept, Visiting, Connecting, Expired
<1>2. FreedLeaveNoSlots'
  BY DEF TypeOK, Ends, Hand, Plain, Made, FreedLeaveNoSlots, Walked
<1>3. Walked'
  BY DEF TypeOK, Ends, Hand, Plain, Made, HandlesAgree, Walked, Dropped, OneDestroyer
<1>4. Dropped'
  BY DEF TypeOK, Ends, Hand, Plain, Made, Dropped, TokenKept, SlotKept, Visiting, Connecting
<1>5. QED
  BY <1>1, <1>2, <1>3, <1>4

LEMMA BookReturnSlot == ASSUME TypeInv, TypeInv', Book, NEW t \in Threads, ReturnSlot(t) PROVE Book'
<1> USE NobodyAssumption DEF TypeInv, Book, ReturnSlot, Step, linkVars, mutexes, deathVars, callVars, stepVars
<1>1. HandlesAgree'
  BY DEF TypeOK, Ends, Hand, Plain, Made, HandlesAgree, Dropped, TokenOwed, TokenKept, SlotKept, Visiting, Connecting, Expired
<1>2. FreedLeaveNoSlots'
  BY DEF TypeOK, Ends, Hand, Plain, Made, FreedLeaveNoSlots, Walked
<1>3. Walked'
  BY DEF TypeOK, Ends, Hand, Plain, Made, HandlesAgree, Walked, Dropped, OneDestroyer
<1>4. Dropped'
  BY DEF TypeOK, Ends, Hand, Plain, Made, Dropped, TokenKept, SlotKept, Visiting, Connecting
<1>5. QED
  BY <1>1, <1>2, <1>3, <1>4

LEMMA BookLeave == ASSUME TypeInv, TypeInv', Book, NEW t \in Threads, Leave(t) PROVE Book'
<1> USE NobodyAssumption DEF TypeInv, Book, Leave, SignalFree, Keep, Step, Resume, linkVars, mutexes, deathVars, callVars, stepVars
<1>1. HandlesAgree'
  <2> SUFFICES ASSUME NEW c \in Conns, Made(c), life[to[c]] = "alive"
               PROVE  /\ connected[c] => \/ c \in incoming[to[c]]
                                         \/ \E u \in Threads : conn'[u] = c /\ at'[u] \in {"insert", "track"}
                      /\ c \in incoming[to[c]] => connected[c] \/ TokenOwed(c)'
    BY DEF HandlesAgree, Made
  <2>1. connected[c] => \/ c \in incoming[to[c]]
                        \/ \E u \in Threads : conn'[u] = c /\ at'[u] \in {"insert", "track"}
    BY DEF TypeOK, HandlesAgree
  <2>2. CASE c = conn[t] /\ at'[t] = "test"
    BY <2>1, <2>2 DEF TypeOK, TokenOwed
  <2>3. CASE c = conn[t] /\ TokenKept(t, c)
    BY <2>1, <2>3 DEF TypeOK, TokenOwed, TokenKept, SlotKept, Visiting, Connecting
  <2>4. CASE c # conn[t]
    BY <2>1, <2>4 DEF TypeOK, TokenOwed, HandlesAgree
  <2>5. QED
    BY <2>1, <2>2, <2>3, <2>4 DEF TypeOK
<1>2. FreedLeaveNoSlots'
  BY DEF TypeOK, Ends, Hand, Plain, Made, FreedLeaveNoSlots, Walked
<1>3. Walked'
  BY DEF TypeOK, Ends, Hand, Plain, Made, HandlesAgree, Walked, Dropped, OneDestroyer
<1>4. Dropped'
  BY DEF TypeOK, Ends, Hand, Plain, Made, Dropped, TokenKept, SlotKept, Visiting, Connecting
<1>5. QED
  BY <1>1, <1>2, <1>3, <1>4

LEMMA BookTestLife == ASSUME TypeInv, TypeInv', Book, NEW t \in Threads, TestLife(t) PROVE Book'
<1> USE NobodyAssumption DEF TypeInv, Book, TestLife, Unlock, Step, Resume, linkVars, mutexes, deathVars, callVars, stepVars
<1>1. HandlesAgree'
  BY DEF TypeOK, Ends, Hand, Plain, Made, HandlesAgree, Dropped, TokenOwed, TokenKept, SlotKept, Visiting, Connecting, Expired
<1>2. FreedLeaveNoSlots'
  BY DEF TypeOK, Ends, Hand, Plain, Made, FreedLeaveNoSlots, Walked
<1>3. Walked'
  BY DEF TypeOK, Ends, Hand, Plain, Made, HandlesAgree, Walked, Dropped, OneDestroyer
<1>4. Dropped'
  BY DEF TypeOK, Ends, Hand, Plain, Made, Dropped, TokenKept, SlotKept, Visiting, Connecting
<1>5. QED
  BY <1>1, <1>2, <1>3, <1>4

LEMMA BookPrune == ASSUME TypeInv, TypeInv', Book, NEW t \in Threads, Prune(t) PROVE Book'
<1> USE NobodyAssumption DEF TypeInv, Book, Prune, Unlock, Step, Resume, linkVars, mutexes, deathVars, callVars, stepVars
<1>1. HandlesAgree'
  BY DEF TypeOK, Ends, Hand, Plain, Made, HandlesAgree, Dropped, TokenOwed, TokenKept, SlotKept, Visiting, Connecting, Expired
<1>2. FreedLeaveNoSlots'
  BY DEF TypeOK, Ends, Hand, Plain, Made, FreedLeaveNoSlots, Walked
<1>3. Walked'
  BY DEF TypeOK, Ends, Hand, Plain, Made, HandlesAgree, Walked, Dropped, OneDestroyer
<1>4. Dropped'
  BY DEF TypeOK, Ends, Hand, Plain, Made, Dropped, TokenKept, SlotKept, Visiting, Connecting
<1>5. QED
  BY <1>1, <1>2, <1>3, <1>4

LEMMA BookFinish == ASSUME TypeInv, TypeInv', Book, NEW t \in Threads, Finish(t) PROVE Book'
<1> USE NobodyAssumption DEF TypeInv, Book, Finish, Step, linkVars, mutexes, deathVars, callVars, stepVars
<1>1. HandlesAgree'
  BY DEF TypeOK, Ends, Hand, Plain, Made, HandlesAgree, Dropped, TokenOwed, TokenKept, SlotKept, Visiting, Connecting, Expired
<1>2. FreedLeaveNoSlots'
  BY DEF TypeOK, Ends, Hand, Plain, Made, FreedLeaveNoSlots, Walked
<1>3. Walked'
  BY DEF TypeOK, Ends, Hand, Plain, Made, HandlesAgree, Walked, Dropped, OneDestroyer
<1>4. Dropped'
  BY DEF TypeOK, Ends, Hand, Plain, Made, Dropped, TokenKept, SlotKept, Visiting, Connecting
<1>5. QED
  BY <1>1, <1>2, <1>3, <1>4



LEMMA BookHolds == Spec => []Book
<1>1. Init => Book
  BY NobodyAssumption DEF Init, Book, HandlesAgree, FreedLeaveNoSlots, Walked, Dropped, Made
<1>2. TypeInv /\ TypeInv' /\ Book /\ [Next]_vars => Book'
  <2> SUFFICES ASSUME TypeInv, TypeInv', Book, [Next]_vars PROVE Book'
    OBVIOUS
  <2>1. CASE Next
    <3>1. PICK t \in Threads : Begin(t) \/ Continue(t)
      BY <2>1 DEF Next
    <3>2. CASE Begin(t)
      BY <3>2, BookConnect, BookDisconnect, BookEmit, BookDestroySignal, BookDestroyObject DEF Begin
    <3>3. CASE Continue(t)
      BY <3>3, BookInsert, BookTrack, BookRelease, BookLockIncoming, BookSwapIncoming, BookTearDown, BookVisit,
         BookLockLife, BookDisconnectOwn, BookReturnSlot, BookLeave, BookTestLife, BookPrune, BookFinish DEF Continue
    <3>4. QED
      BY <3>1, <3>2, <3>3
  <2>2. CASE UNCHANGED vars
    BY <2>2 DEF vars, linkVars, mutexes, deathVars, callVars, stepVars, Book, HandlesAgree, FreedLeaveNoSlots,
                Walked, Dropped, Made, TokenOwed, Connecting
  <2>3. QED
    BY <2>1, <2>2
<1>3. QED
  BY <1>1, <1>2, TypeInvHolds, PTL DEF Spec

\* Object::trackIncoming() and ~Cleanup() keep mIncoming of a living receiver in step with the
\* slots that exist.
THEOREM ListsStayInStep == Spec => []HandlesAgree
<1>1. Book => HandlesAgree
  BY DEF Book
<1>2. QED
  BY <1>1, BookHolds, PTL

\* ~Object() leaves no slot of the receiver behind in any signal.
THEOREM NoSlotLeftBehind == Spec => []FreedLeaveNoSlots
<1>1. Book => FreedLeaveNoSlots
  BY DEF Book
<1>2. QED
  BY <1>1, BookHolds, PTL

-----------------------------------------------------------------------------

LEMMA SlotsOfLiveKept == ASSUME TypeInv, SlotsOfLive, NEW t \in Threads, Begin(t) \/ Continue(t) PROVE SlotsOfLive'
<1> USE DEF SlotsOfLive, TypeInv, Start, Step, Resume, linkVars, mutexes, deathVars, callVars, stepVars
<1>1. CASE Begin(t)
  BY <1>1 DEF Begin, Connect, Disconnect, Emit, DestroySignal, DestroyObject, InHand, Pruning, Hand, Plain, Made, TypeOK
<1>2. CASE Insert(t) \/ Track(t) \/ Release(t) \/ LockIncoming(t) \/ SwapIncoming(t) \/ DisconnectOwn(t) \/ ReturnSlot(t)
  BY <1>2 DEF Insert, Track, Release, LockIncoming, SwapIncoming, DisconnectOwn, ReturnSlot, TypeOK
<1>3. CASE \E c \in Conns : TearDown(t, c) \/ Visit(t, c)
  BY <1>3 DEF TearDown, Visit, TypeOK
<1>4. CASE LockLife(t) \/ TestLife(t)
  BY <1>4 DEF LockLife, TestLife, Expired, TypeOK
<1>5. CASE Leave(t) \/ Prune(t)
  BY <1>5 DEF Leave, Prune, TypeOK
<1>6. CASE Finish(t)
  BY <1>6 DEF Finish, Hand, Plain, Made, TypeOK
<1>7. QED
  BY <1>1, <1>2, <1>3, <1>4, <1>5, <1>6 DEF Continue

\* Under the discipline ~Cleanup() only ever goes to the mutex of a living receiver.
THEOREM CleanupIsSafe == Spec => []CleanupTouchesLive
<1>1. Init => SlotsOfLive
  BY DEF Init, SlotsOfLive
<1>2. TypeInv /\ SlotsOfLive /\ [Next]_vars => SlotsOfLive'
  <2>1. CASE UNCHANGED vars
    BY <2>1 DEF vars, linkVars, deathVars, stepVars, SlotsOfLive
  <2>2. QED
    BY <2>1, SlotsOfLiveKept DEF Next
<1>3. SlotsOfLive => CleanupTouchesLive
  BY DEF SlotsOfLive, CleanupTouchesLive
<1>4. QED
  BY <1>1, <1>2, <1>3, TypeInvHolds, PTL DEF Spec

-----------------------------------------------------------------------------
LEMMA HoldersKept == ASSUME TypeInv, Holders, NEW t \in Threads, Begin(t) \/ Continue(t) PROVE Holders'
<1> USE NobodyAssumption DEF Holders, TypeInv, TypeOK, Start, Step, Resume, Unlock, Keep, linkVars, mutexes, deathVars, callVars, stepVars
<1>1. CASE Begin(t)
  BY <1>1 DEF Begin, Connect, Disconnect, Emit, DestroySignal, DestroyObject
<1>2. CASE Insert(t) \/ Track(t) \/ Release(t) \/ DisconnectOwn(t) \/ ReturnSlot(t) \/ LockLife(t)
  BY <1>2 DEF Insert, Track, Release, DisconnectOwn, ReturnSlot, LockLife
<1>3. CASE LockIncoming(t) \/ SwapIncoming(t)
  BY <1>3, SMTT(30) DEF LockIncoming, SwapIncoming, Hand
<1>4. CASE \E c \in Conns : TearDown(t, c) \/ Visit(t, c)
  BY <1>4 DEF TearDown, Visit, SignalFree
<1>5. CASE Leave(t)
  BY <1>5 DEF Leave, SignalFree
<1>6. CASE TestLife(t) \/ Prune(t)
  BY <1>6 DEF TestLife, Prune
<1>7. CASE Finish(t)
  BY <1>7 DEF Finish
<1>8. QED
  BY <1>1, <1>2, <1>3, <1>4, <1>5, <1>6, <1>7 DEF Continue

\* Who holds mIncomingMutex waits for nothing, and who holds a signal's mutex waits for
\* mIncomingMutex at most.
LEMMA HoldersBreakCircles == ASSUME TypeInv, Holders PROVE NoCircle
<1> SUFFICES ASSUME NEW S \in SUBSET Threads, S # {} PROVE \E t \in S : \A u \in S : ~Waits(t, u)
  BY DEF NoCircle
<1> USE NobodyAssumption DEF TypeInv, TypeOK
<1>1. CASE \E t \in S : at[t] = "swap"
  BY <1>1 DEF Waits
<1>2. CASE /\ \A t \in S : at[t] # "swap"
           /\ \E t \in S : at[t] \in {"test", "erase"}
  <2>1. PICK t \in S : at[t] \in {"test", "erase"}
    BY <1>2
  <2>2. \A u \in S : ~Waits(t, u)
    BY <1>2, <2>1 DEF Waits, Holders, Hand, Plain, Made
  <2>3. QED
    BY <2>2
<1>3. CASE \A t \in S : at[t] \notin {"swap", "test", "erase"}
  <2>1. ASSUME NEW t \in S, NEW u \in S PROVE ~Waits(t, u)
    <3>1. u \in Threads /\ t \in Threads /\ Hand(t)
      OBVIOUS
    <3>2. \A s \in Signals : sigMutex[s] # u
      BY <1>3, <3>1 DEF Holders
    <3>3. \A o \in Objects : incomingMutex[o] # u
      BY <1>3, <3>1 DEF Holders
    <3>4. \A c \in Conns : Made(c) => from[c] \in Signals /\ to[c] \in Objects
      BY DEF Ends, Made
    <3>5. \A c \in todo[t] : c \in Conns /\ Made(c)
      BY <3>1 DEF Ends
    <3>6. QED
      BY <3>1, <3>2, <3>3, <3>4, <3>5 DEF Waits, Hand, Plain
  <2>2. QED
    BY <2>1
<1>4. QED
  BY <1>1, <1>2, <1>3

\* The order in which ~Cleanup(), disconnect() and ~Object() take their mutexes admits no
\* deadlock.
THEOREM NoCircleOfWaiting == Spec => []NoCircle
<1>1. Init => Holders
  BY DEF Init, Holders
<1>2. TypeInv /\ Holders /\ [Next]_vars => Holders'
  <2>1. CASE UNCHANGED vars
    BY <2>1 DEF vars, mutexes, callVars, stepVars, Holders
  <2>2. QED
    BY <2>1, HoldersKept DEF Next
<1>3. TypeInv /\ Holders => NoCircle
  BY HoldersBreakCircles
<1>4. QED
  BY <1>1, <1>2, <1>3, TypeInvHolds, PTL DEF Spec

-----------------------------------------------------------------------------
(* The refinement of Links.                                                *)

\* A signal that is emitted or connected to is there, and ~Signal() has in its walk what is left
\* of its connections; a connection is inserted once.
SignalUse == \A t \in Threads :
  /\ call[t] = "emit" =>
       /\ subject[t] \in Signals /\ live[subject[t]]
       /\ \A c \in todo[t] : from[c] = subject[t]
       /\ at[t] \in Inside => from[conn[t]] = subject[t]
  /\ at[t] = "insert" =>
       /\ live[from[conn[t]]] /\ ~connected[conn[t]]
       /\ \A u \in Threads : at[u] = "insert" /\ conn[u] = conn[t] => u = t
  /\ call[t] = "~Signal" =>
       /\ subject[t] \in Signals /\ ~live[subject[t]]
       /\ \A c \in Conns : connected[c] /\ from[c] = subject[t] => c \in todo[t]
       /\ \A u \in Threads : call[u] = "~Signal" /\ subject[u] = subject[t] => u = t

LEMMA SignalUseKept == ASSUME TypeInv, SignalUse, NEW t \in Threads, Begin(t) \/ Continue(t) PROVE SignalUse'
<1> USE NobodyAssumption DEF SignalUse, TypeInv, Start, Step, Resume, Inside, linkVars, mutexes, deathVars, callVars, stepVars
<1>1. CASE \E c \in Conns, s \in Signals, o \in Objects : Connect(t, c, s, o)
  BY <1>1 DEF Connect, Hand, Ends, Plain, Made, TypeOK
<1>2. CASE \E c \in Conns : Disconnect(t, c)
  BY <1>2 DEF Disconnect, Hand, Plain, TypeOK
<1>3. CASE \E s \in Signals : Emit(t, s)
  BY <1>3 DEF Emit, Hand, Plain, TypeOK
<1>4. CASE \E s \in Signals : DestroySignal(t, s)
  BY <1>4 DEF DestroySignal, Hand, Plain, Made, TypeOK
<1>5. CASE \E o \in Objects : DestroyObject(t, o)
  BY <1>5 DEF DestroyObject, Hand, Plain, TypeOK
<1>6. CASE Insert(t)
  BY <1>6 DEF Insert, Hand, Ends, Plain, Made, TypeOK
<1>7. CASE Track(t) \/ Release(t) \/ LockIncoming(t) \/ SwapIncoming(t)
  BY <1>7 DEF Track, Release, LockIncoming, SwapIncoming, Hand, Plain, TypeOK
<1>8. ASSUME NEW c \in Conns, TearDown(t, c) \/ Visit(t, c) PROVE SignalUse'
  <2>1. CASE TearDown(t, c)
    BY <2>1 DEF TearDown, Disconnecting, Hand, Plain, TypeOK
  <2>2. CASE Visit(t, c)
    BY <2>2 DEF Visit, Hand, Plain, TypeOK
  <2>3. QED
    BY <1>8, <2>1, <2>2
<1>9. CASE LockLife(t) \/ DisconnectOwn(t) \/ ReturnSlot(t) \/ Leave(t)
  BY <1>9 DEF LockLife, DisconnectOwn, ReturnSlot, Leave, Hand, Plain, TypeOK
<1>10. CASE TestLife(t) \/ Prune(t)
  BY <1>10 DEF TestLife, Prune, Hand, Plain, TypeOK
<1>11. CASE Finish(t)
  BY <1>11 DEF Finish, Hand, Plain, TypeOK
<1>12. QED
  BY <1>1, <1>2, <1>3, <1>4, <1>5, <1>6, <1>7, <1>8, <1>9, <1>10, <1>11 DEF Begin, Continue

\* What other threads have in hand stays there.
LEMMA OnlyMine ==
  ASSUME TypeInv, NEW t \in Threads, Begin(t) \/ Continue(t)
  PROVE  /\ mode' = mode
         /\ \A u \in Threads \ {t} : /\ at'[u] = at[u] /\ conn'[u] = conn[u]
                                     /\ call'[u] = call[u] /\ subject'[u] = subject[u]
<1> USE DEF TypeInv, TypeOK, Start, Step, Resume, linkVars, mutexes, deathVars, callVars, stepVars
<1>1. CASE Begin(t)
  BY <1>1 DEF Begin, Connect, Disconnect, Emit, DestroySignal, DestroyObject
<1>2. CASE Insert(t) \/ Track(t) \/ Release(t) \/ LockIncoming(t) \/ SwapIncoming(t)
  BY <1>2 DEF Insert, Track, Release, LockIncoming, SwapIncoming
<1>3. CASE \E c \in Conns : TearDown(t, c) \/ Visit(t, c)
  BY <1>3 DEF TearDown, Visit
<1>4. CASE LockLife(t) \/ DisconnectOwn(t) \/ ReturnSlot(t) \/ Leave(t)
  BY <1>4 DEF LockLife, DisconnectOwn, ReturnSlot, Leave
<1>5. CASE TestLife(t) \/ Prune(t) \/ Finish(t)
  BY <1>5 DEF TestLife, Prune, Finish
<1>6. QED
  BY <1>1, <1>2, <1>3, <1>4, <1>5 DEF Continue

\* The parts of the refinement mapping.
LinkMap == [c \in Conns |-> LinkOf(c)]
SignalMap == [s \in Signals |-> SignalOf(s)]
ReachedMap == [t \in Threads |-> ReachedBy(t)]
RunningMap == {t \in Threads : at[t] = "slot"}

LEMMA LinkBecomes ==
  ASSUME NEW c \in Conns, NEW v, \A d \in Conns : LinkOf(d)' = IF d = c THEN v ELSE LinkOf(d)
  PROVE  LinkMap' = [LinkMap EXCEPT ![c] = v]
BY DEF LinkMap

LEMMA SignalBecomes ==
  ASSUME NEW s \in Signals, NEW v, \A r \in Signals : SignalOf(r)' = IF r = s THEN v ELSE SignalOf(r)
  PROVE  SignalMap' = [SignalMap EXCEPT ![s] = v]
BY DEF SignalMap

\* A step that inserts, disconnects and connects nothing does nothing to connections; ...
LEMMA LinksStay ==
  ASSUME TypeInv, NEW t \in Threads, Begin(t) \/ Continue(t),
         to' = to, connected' = connected, at[t] # "insert", at'[t] # "insert"
  PROVE  LinkMap' = LinkMap
<1>1. \A c \in Conns : (\E u \in Threads : at'[u] = "insert" /\ conn'[u] = c)
                         <=> (\E u \in Threads : at[u] = "insert" /\ conn[u] = c)
  BY OnlyMine
<1>2. \A c \in Conns : LinkOf(c)' = LinkOf(c)
  BY <1>1 DEF LinkOf, Made
<1>3. QED
  BY <1>2 DEF LinkMap

\* ... one that cuts a connection cuts no other; ...
LEMMA LinkCut ==
  ASSUME TypeInv, SignalUse, NEW t \in Threads, Begin(t) \/ Continue(t), NEW c \in Conns,
         to' = to, connected' = [connected EXCEPT ![c] = FALSE],
         at[t] # "insert", at'[t] # "insert"
  PROVE  LinkMap' = IF connected[c] THEN [LinkMap EXCEPT ![c] = "cut"] ELSE LinkMap
<1>1. \A d \in Conns : (\E u \in Threads : at'[u] = "insert" /\ conn'[u] = d)
                         <=> (\E u \in Threads : at[u] = "insert" /\ conn[u] = d)
  BY OnlyMine
<1>2. connected[c] => ~\E u \in Threads : at[u] = "insert" /\ conn[u] = c
  BY DEF SignalUse
<1>3. connected \in [Conns -> BOOLEAN] /\ (connected[c] => to[c] # Nobody)
  BY DEF TypeInv, TypeOK, Ends, Made
<1>4. \A d \in Conns : LinkOf(d)' = IF d = c /\ connected[c] THEN "cut" ELSE LinkOf(d)
  BY <1>1, <1>2, <1>3 DEF LinkOf, Made
<1>5. QED
  BY <1>4 DEF LinkMap

\* ... signals change only with ~Signal(), and what is reached and run is the thread's own.
LEMMA SignalsStay ==
  ASSUME TypeInv, NEW t \in Threads, Begin(t) \/ Continue(t), live' = live,
         call'[t] = "~Signal" <=> call[t] = "~Signal",
         call[t] = "~Signal" => subject'[t] = subject[t]
  PROVE  SignalMap' = SignalMap
<1>1. \A s \in Signals : (\E u \in Threads : call'[u] = "~Signal" /\ subject'[u] = s)
                           <=> (\E u \in Threads : call[u] = "~Signal" /\ subject[u] = s)
  BY OnlyMine
<1>2. \A s \in Signals : SignalOf(s)' = SignalOf(s)
  BY <1>1 DEF SignalOf
<1>3. QED
  BY <1>2 DEF SignalMap

LEMMA ReachedMoves ==
  ASSUME TypeInv, NEW t \in Threads, Begin(t) \/ Continue(t)
  PROVE  /\ ReachedMap' = [ReachedMap EXCEPT ![t] = ReachedBy(t)']
         /\ RunningMap' = IF at'[t] = "slot" THEN RunningMap \cup {t} ELSE RunningMap \ {t}
<1>1. \A u \in Threads \ {t} : ReachedBy(u)' = ReachedBy(u) /\ at'[u] = at[u]
  BY OnlyMine DEF ReachedBy
<1>2. QED
  BY <1>1 DEF ReachedMap, RunningMap

LEMMA MapIs ==
  /\ \A c \in Conns : LinkMap[c] = LinkOf(c)
  /\ \A s \in Signals : SignalMap[s] = SignalOf(s)
  /\ \A t \in Threads : ReachedMap[t] = ReachedBy(t)
  /\ \A t \in Threads : t \in RunningMap <=> at[t] = "slot"
BY DEF LinkMap, SignalMap, ReachedMap, RunningMap

\* A step that leaves its own emission where it is leaves them all.
LEMMA ReachedStays ==
  ASSUME TypeInv, NEW t \in Threads, Begin(t) \/ Continue(t), ReachedBy(t)' = ReachedBy(t)
  PROVE  ReachedMap' = ReachedMap
BY ReachedMoves, MapIs DEF ReachedMap

LEMMA RunningStays ==
  ASSUME TypeInv, NEW t \in Threads, Begin(t) \/ Continue(t), at'[t] = "slot" <=> at[t] = "slot"
  PROVE  RunningMap' = RunningMap
BY ReachedMoves, MapIs DEF RunningMap

\* Steps the abstract connections do not see.
LEMMA MapNothing ==
  ASSUME TypeInv, NEW t \in Threads, Begin(t) \/ Continue(t),
         LinkMap' = LinkMap, SignalMap' = SignalMap, UNCHANGED <<from, to, life>>,
         ReachedBy(t)' = ReachedBy(t), at'[t] = "slot" <=> at[t] = "slot"
  PROVE  UNCHANGED Abstract!vars
<1>1. mode' = mode /\ ReachedMap' = ReachedMap /\ RunningMap' = RunningMap
  BY OnlyMine, ReachedStays, RunningStays
<1>2. QED
  BY <1>1 DEF Abstract!vars, Abstract!ends, LinkMap, SignalMap, ReachedMap, RunningMap

LEMMA MapTrack ==
  ASSUME TypeInv, NEW t \in Threads,
         \/ Track(t) \/ Release(t) \/ LockIncoming(t) \/ SwapIncoming(t) \/ TestLife(t) \/ Prune(t)
         \/ \E c \in Conns : Disconnect(t, c)
         \/ \E s \in Signals : Emit(t, s)
  PROVE  UNCHANGED Abstract!vars
<1> USE DEF Start, Step, Resume, linkVars, deathVars, callVars
<1>1. Begin(t) \/ Continue(t)
  BY DEF Begin, Continue
<1>2. /\ UNCHANGED <<from, to, connected, life, live>>
      /\ at[t] \notin Inside \cup {"insert"} /\ at'[t] \notin Inside \cup {"insert"}
  BY DEF Track, Release, LockIncoming, SwapIncoming, TestLife, Prune, Disconnect, Emit, Inside, TypeInv, TypeOK
<1>3. /\ call'[t] = "~Signal" <=> call[t] = "~Signal"
      /\ call[t] = "~Signal" => subject'[t] = subject[t]
  BY DEF Track, Release, LockIncoming, SwapIncoming, TestLife, Prune, Disconnect, Emit, TypeInv, TypeOK, Hand
<1>4. LinkMap' = LinkMap /\ SignalMap' = SignalMap
  BY <1>1, <1>2, <1>3, LinksStay, SignalsStay DEF Inside
<1>5. ReachedBy(t)' = ReachedBy(t) /\ (at'[t] = "slot" <=> at[t] = "slot")
  BY <1>2 DEF ReachedBy, Inside
<1>6. QED
  BY <1>1, <1>2, <1>4, <1>5, MapNothing

LEMMA MapConnect ==
  ASSUME TypeInv, NEW t \in Threads, NEW c \in Conns, NEW s \in Signals, NEW o \in Objects, Connect(t, c, s, o)
  PROVE  Abstract!Make(c, s, o)
<1> USE NobodyAssumption DEF Connect, Start, Step, linkVars, deathVars, TypeInv, TypeOK
<1>1. Begin(t) \/ Continue(t)
  BY DEF Begin
<1>2. /\ at[t] = "idle" /\ at'[t] = "insert" /\ conn'[t] = c /\ to'[c] = o /\ o # Nobody
      /\ \A d \in Conns \ {c} : to'[d] = to[d]
      /\ connected' = connected /\ ~connected[c] /\ to[c] = Nobody
  BY DEF Ends, Made
<1>3. \A d \in Conns \ {c} : (\E u \in Threads : at'[u] = "insert" /\ conn'[u] = d)
                               <=> (\E u \in Threads : at[u] = "insert" /\ conn[u] = d)
  BY <1>1, <1>2, OnlyMine
<1>4. \A d \in Conns : LinkOf(d)' = IF d = c THEN "made" ELSE LinkOf(d)
  BY <1>2, <1>3 DEF LinkOf, Made
<1>5. LinkMap' = [LinkMap EXCEPT ![c] = "made"] /\ LinkMap[c] = "none"
  <2>1. LinkOf(c) = "none"
    BY <1>2 DEF LinkOf, Made
  <2>2. QED
    BY <1>4, <2>1, LinkBecomes, MapIs
<1>6. SignalMap' = SignalMap /\ SignalMap[s] = "alive"
  <2>1. live' = live /\ live[s] /\ call[t] = "none" /\ call'[t] = "connect"
    BY DEF Hand
  <2>2. QED
    BY <1>1, <2>1, SignalsStay, MapIs DEF SignalOf
<1>7. ReachedMap' = ReachedMap /\ RunningMap' = RunningMap
  BY <1>1, <1>2, ReachedMoves, MapIs DEF ReachedBy, Inside, ReachedMap, RunningMap
<1>8. QED
  BY <1>1, <1>5, <1>6, <1>7, OnlyMine DEF Abstract!Make, LinkMap, SignalMap, ReachedMap, RunningMap

LEMMA MapInsert ==
  ASSUME TypeInv, SignalUse, NEW t \in Threads, NEW c \in Conns, c = conn[t], Insert(t)
  PROVE  Abstract!Stand(c)
<1> USE DEF Insert, Step, linkVars, deathVars, callVars, TypeInv, TypeOK
<1>1. Begin(t) \/ Continue(t)
  BY DEF Continue
<1>2. /\ c \in Conns /\ to[c] \in Objects /\ from[c] \in Signals
      /\ live[from[c]] /\ life[to[c]] = "alive" /\ ~connected[c]
  BY DEF Hand, Plain, Ends, Made, SignalUse
<1>3. /\ at[t] = "insert" /\ at'[t] = "track" /\ conn' = conn
      /\ connected' = [connected EXCEPT ![c] = TRUE] /\ to' = to
  OBVIOUS
<1>4. \A d \in Conns \ {c} : (\E u \in Threads : at'[u] = "insert" /\ conn'[u] = d)
                               <=> (\E u \in Threads : at[u] = "insert" /\ conn[u] = d)
  BY <1>1, <1>3, OnlyMine
<1>5. \A d \in Conns : LinkOf(d)' = IF d = c THEN "standing" ELSE LinkOf(d)
  BY <1>2, <1>3, <1>4, NobodyAssumption DEF LinkOf, Made
<1>6. LinkMap' = [LinkMap EXCEPT ![c] = "standing"] /\ LinkMap[c] = "made"
  <2>1. LinkOf(c) = "made"
    BY <1>2, <1>3, NobodyAssumption DEF LinkOf, Made
  <2>2. LinkMap' = [LinkMap EXCEPT ![c] = "standing"]
    BY <1>5, LinkBecomes
  <2>3. QED
    BY <2>1, <2>2, MapIs
<1>7. SignalMap' = SignalMap /\ SignalMap[from[c]] = "alive"
  BY <1>1, <1>2, SignalsStay, MapIs DEF SignalOf
<1>8. ReachedMap' = ReachedMap /\ RunningMap' = RunningMap
  BY <1>1, <1>3, ReachedMoves, MapIs DEF ReachedBy, Inside, ReachedMap, RunningMap
<1>9. QED
  BY <1>1, <1>2, <1>6, <1>7, <1>8, OnlyMine DEF Abstract!Stand, Abstract!ends, LinkMap, SignalMap, ReachedMap, RunningMap

LEMMA MapDestroySignal ==
  ASSUME TypeInv, SignalUse, NEW t \in Threads, NEW s \in Signals, DestroySignal(t, s)
  PROVE  Abstract!DieSignal(s)
<1> USE DEF DestroySignal, Start, Step, linkVars, TypeInv, TypeOK
<1>1. Begin(t) \/ Continue(t)
  BY DEF Begin
<1>2. /\ at[t] = "idle" /\ at'[t] = "walk" /\ call[t] = "none" /\ call'[t] = "~Signal" /\ subject'[t] = s
      /\ live[s] /\ live' = [live EXCEPT ![s] = FALSE]
  BY DEF Hand
<1>3. LinkMap' = LinkMap
  BY <1>1, <1>2, LinksStay
<1>4. \A r \in Signals \ {s} : (\E u \in Threads : call'[u] = "~Signal" /\ subject'[u] = r)
                                 <=> (\E u \in Threads : call[u] = "~Signal" /\ subject[u] = r)
  BY <1>1, <1>2, OnlyMine
<1>5. \A r \in Signals : SignalOf(r)' = IF r = s THEN "dying" ELSE SignalOf(r)
  BY <1>2, <1>4 DEF SignalOf
<1>6. SignalMap' = [SignalMap EXCEPT ![s] = "dying"]
  BY <1>5 DEF SignalMap
<1>7. SignalMap[s] = "alive"
  BY <1>2, MapIs DEF SignalOf
<1>8. ReachedMap' = ReachedMap /\ RunningMap' = RunningMap
  BY <1>1, <1>2, ReachedMoves, MapIs DEF ReachedBy, Inside, ReachedMap, RunningMap
<1>9. \A u \in Threads : ReachedMap[u] # Nobody => from[ReachedMap[u]] # s
  <2>1. \A u \in Threads : at[u] \in Inside => call[u] = "emit" /\ from[conn[u]] = subject[u]
    BY DEF Hand, Inside, SignalUse
  <2>2. QED
    BY <2>1, MapIs DEF ReachedBy
<1>10. QED
  BY <1>1, <1>3, <1>6, <1>7, <1>8, <1>9, OnlyMine
  DEF Abstract!DieSignal, Abstract!ends, LinkMap, SignalMap, ReachedMap, RunningMap

LEMMA MapDestroyObject ==
  ASSUME TypeInv, NEW t \in Threads, NEW o \in Objects, DestroyObject(t, o)
  PROVE  Abstract!Die(o)
<1> USE DEF DestroyObject, Start, Step, linkVars, TypeInv, TypeOK
<1>1. Begin(t) \/ Continue(t)
  BY DEF Begin
<1>2. /\ at[t] = "idle" /\ at'[t] = "lock" /\ call[t] = "none" /\ call'[t] = "~Object"
  BY DEF Hand
<1>3. LinkMap' = LinkMap /\ SignalMap' = SignalMap
  BY <1>1, <1>2, LinksStay, SignalsStay
<1>4. ReachedMap' = ReachedMap /\ RunningMap' = RunningMap
  BY <1>1, <1>2, ReachedMoves, MapIs DEF ReachedBy, Inside, ReachedMap, RunningMap
<1>5. mode.careful => \A u \in RunningMap : to[ReachedMap[u]] # o
  BY MapIs DEF ReachedBy, Inside, InHand, RunningMap
<1>6. QED
  BY <1>1, <1>3, <1>4, <1>5, OnlyMine
  DEF Abstract!Die, Abstract!ends, LinkMap, SignalMap, ReachedMap, RunningMap

\* A connection is cut by whoever disconnects it first.
LEMMA MapCut ==
  ASSUME TypeInv, SignalUse, NEW t \in Threads, Begin(t) \/ Continue(t), NEW c \in Conns,
         UNCHANGED <<from, to, deathVars, callVars>>, connected' = [connected EXCEPT ![c] = FALSE],
         at[t] # "insert", at'[t] # "insert", ReachedBy(t)' = ReachedBy(t), at'[t] = "slot" <=> at[t] = "slot"
  PROVE  Abstract!Next \/ UNCHANGED Abstract!vars
<1>1. LinkMap' = IF connected[c] THEN [LinkMap EXCEPT ![c] = "cut"] ELSE LinkMap
  BY LinkCut
<1>2. SignalMap' = SignalMap /\ life' = life
  BY SignalsStay DEF deathVars, callVars
<1>3. mode' = mode /\ ReachedMap' = ReachedMap /\ RunningMap' = RunningMap
  BY OnlyMine, ReachedStays, RunningStays
<1>4. CASE connected[c]
  <2>1. LinkMap[c] = "standing"
    BY <1>4, MapIs DEF LinkOf, TypeInv, Ends, Made
  <2>2. Abstract!Cut(c)
    BY <1>1, <1>2, <1>3, <1>4, <2>1 DEF Abstract!Cut, Abstract!ends, LinkMap, SignalMap, ReachedMap, RunningMap
  <2>3. QED
    BY <2>2 DEF Abstract!Next
<1>5. CASE ~connected[c]
  BY <1>1, <1>2, <1>3, <1>5 DEF Abstract!vars, Abstract!ends, LinkMap, SignalMap, ReachedMap, RunningMap
<1>6. QED
  BY <1>4, <1>5

LEMMA MapTearDown ==
  ASSUME TypeInv, SignalUse, NEW t \in Threads,
         DisconnectOwn(t) \/ \E c \in Conns : TearDown(t, c)
  PROVE  Abstract!Next \/ UNCHANGED Abstract!vars
<1> USE DEF TypeInv, TypeOK, stepVars
<1>1. Begin(t) \/ Continue(t)
  BY DEF Continue
<1>2. CASE DisconnectOwn(t)
  <2>1. /\ conn[t] \in Conns /\ UNCHANGED <<from, to, deathVars, callVars, at, conn>> /\ at[t] = "slot"
        /\ connected' = [connected EXCEPT ![conn[t]] = FALSE]
    BY <1>2 DEF DisconnectOwn, Hand, Plain
  <2>2. ReachedBy(t)' = ReachedBy(t)
    BY <2>1 DEF ReachedBy
  <2>3. QED
    BY <1>1, <2>1, <2>2, MapCut
<1>3. ASSUME NEW c \in Conns, TearDown(t, c) PROVE Abstract!Next \/ UNCHANGED Abstract!vars
  <2>1. /\ UNCHANGED <<from, to, deathVars, callVars>>
        /\ connected' = [connected EXCEPT ![c] = FALSE]
        /\ at[t] = "walk" /\ at'[t] \in {"walk", "test"}
    BY <1>3 DEF TearDown, Step
  <2>2. ReachedBy(t)' = ReachedBy(t)
    BY <2>1 DEF ReachedBy, Inside
  <2>3. QED
    BY <1>1, <2>1, <2>2, MapCut
<1>4. QED
  BY <1>2, <1>3

LEMMA MapVisit ==
  ASSUME TypeInv, SignalUse, NEW t \in Threads, NEW c \in Conns, Visit(t, c)
  PROVE  Abstract!Next \/ UNCHANGED Abstract!vars
<1> USE DEF Visit, Step, TypeInv, TypeOK, linkVars, deathVars, callVars
<1>1. Begin(t) \/ Continue(t)
  BY DEF Continue
<1>2. at[t] = "walk" /\ at'[t] \in {"walk", "wrapper"}
  OBVIOUS
<1>3. LinkMap' = LinkMap /\ SignalMap' = SignalMap
  BY <1>1, <1>2, LinksStay, SignalsStay
<1>4. CASE connected[c]
  <2>1. at' = [at EXCEPT ![t] = "wrapper"] /\ conn' = [conn EXCEPT ![t] = c]
    BY <1>4
  <2>2. ReachedBy(t) = Nobody /\ ReachedBy(t)' = c /\ at'[t] # "slot"
    BY <1>2, <2>1 DEF ReachedBy, Inside
  <2>3. ReachedMap' = [ReachedMap EXCEPT ![t] = c] /\ ReachedMap[t] = Nobody /\ RunningMap' = RunningMap
    <3>1. RunningMap' = RunningMap
      BY <1>1, <1>2, <2>2, RunningStays
    <3>2. ReachedMap' = [ReachedMap EXCEPT ![t] = c]
      BY <1>1, <2>2, ReachedMoves
    <3>3. QED
      BY <2>2, <3>1, <3>2, MapIs
  <2>4. LinkMap[c] = "standing"
    BY <1>4, MapIs DEF LinkOf, Ends, Made
  <2>5. SignalMap[from[c]] = "alive"
    BY MapIs DEF SignalUse, SignalOf
  <2>6. Abstract!Reach(t, c)
    BY <1>1, <1>3, <2>3, <2>4, <2>5, OnlyMine
    DEF Abstract!Reach, Abstract!ends, LinkMap, SignalMap, ReachedMap, RunningMap
  <2>7. QED
    BY <2>6 DEF Abstract!Next
<1>5. CASE ~connected[c]
  <2>1. at' = at /\ conn' = conn
    BY <1>5
  <2>2. QED
    BY <1>1, <1>3, <2>1, MapNothing DEF ReachedBy
<1>6. QED
  BY <1>4, <1>5

\* A careful user's receiver is alive when its slot starts.
LEMMA LockFindsLive ==
  ASSUME TypeInv, SlotsOfLive, mode.careful, NEW t \in Threads, ~Expired(to[conn[t]])
  PROVE  life[to[conn[t]]] = "alive"
BY DEF Expired, SlotsOfLive

LEMMA MapSlot ==
  ASSUME TypeInv, SlotsOfLive, NEW t \in Threads, LockLife(t) \/ ReturnSlot(t) \/ Leave(t)
  PROVE  Abstract!Next \/ UNCHANGED Abstract!vars
<1> USE NobodyAssumption DEF Step, Resume, TypeInv, TypeOK, linkVars, deathVars, callVars
<1>1. Begin(t) \/ Continue(t)
  BY DEF Continue
<1>2. /\ UNCHANGED <<from, to, connected, life, live, callVars>>
      /\ at[t] \in Inside /\ at'[t] # "insert" /\ conn[t] \in Conns
  BY DEF LockLife, ReturnSlot, Leave, Inside, Hand, Plain
<1>3. LinkMap' = LinkMap /\ SignalMap' = SignalMap
  BY <1>1, <1>2, LinksStay, SignalsStay DEF Inside
<1>4. ReachedBy(t) = conn[t] /\ ReachedMap[t] = conn[t] /\ conn[t] # Nobody
  BY <1>2, MapIs DEF ReachedBy
<1>5. t \in RunningMap <=> at[t] = "slot"
  BY MapIs
<1>6. CASE LockLife(t)
  <2>1. conn' = conn /\ at[t] = "wrapper" /\ at'[t] = IF Expired(to[conn[t]]) THEN "leave" ELSE "slot"
    BY <1>6 DEF LockLife
  <2>2. ReachedBy(t)' = ReachedBy(t)
    BY <1>4, <2>1 DEF ReachedBy, Inside
  <2>3. CASE at'[t] = "slot"
    <3>1. ReachedMap' = ReachedMap /\ RunningMap' = RunningMap \cup {t}
      BY <1>1, <2>2, <2>3, ReachedMoves, ReachedStays
    <3>2. mode.careful => life[to[ReachedMap[t]]] = "alive"
      BY <1>4, <2>1, <2>3, LockFindsLive
    <3>3. Abstract!Enter(t)
      BY <1>1, <1>2, <1>3, <1>4, <1>5, <2>1, <3>1, <3>2, OnlyMine
      DEF Abstract!Enter, Abstract!ends, LinkMap, SignalMap, ReachedMap, RunningMap
    <3>4. QED
      BY <3>3 DEF Abstract!Next
  <2>4. CASE at'[t] # "slot"
    BY <1>1, <1>2, <1>3, <2>1, <2>2, <2>4, MapNothing
  <2>5. QED
    BY <2>3, <2>4
<1>7. CASE ReturnSlot(t)
  <2>1. conn' = conn /\ at[t] = "slot" /\ at'[t] = "leave"
    BY <1>7 DEF ReturnSlot
  <2>2. ReachedBy(t)' = ReachedBy(t)
    BY <1>4, <2>1 DEF ReachedBy, Inside
  <2>3. ReachedMap' = ReachedMap /\ RunningMap' = RunningMap \ {t}
    BY <1>1, <2>1, <2>2, ReachedMoves, ReachedStays
  <2>4. Abstract!Exit(t)
    BY <1>1, <1>2, <1>3, <1>5, <2>1, <2>3, OnlyMine
    DEF Abstract!Exit, Abstract!ends, LinkMap, SignalMap, ReachedMap, RunningMap
  <2>5. QED
    BY <2>4 DEF Abstract!Next
<1>8. CASE Leave(t)
  <2>1. at[t] = "leave" /\ at'[t] \in {"test", "walk"}
    BY <1>8 DEF Leave
  <2>2. ReachedBy(t)' = Nobody
    BY <2>1 DEF ReachedBy, Inside
  <2>3. ReachedMap' = [ReachedMap EXCEPT ![t] = Nobody] /\ RunningMap' = RunningMap
    <3>1. at'[t] = "slot" <=> at[t] = "slot"
      BY <2>1
    <3>2. QED
      BY <1>1, <2>2, <3>1, ReachedMoves, RunningStays
  <2>4. Abstract!Pass(t)
    BY <1>1, <1>2, <1>3, <1>4, <1>5, <2>1, <2>3, OnlyMine
    DEF Abstract!Pass, Abstract!ends, LinkMap, SignalMap, ReachedMap, RunningMap
  <2>5. QED
    BY <2>4 DEF Abstract!Next
<1>9. QED
  BY <1>6, <1>7, <1>8

\* Where both destructors end, everything has been cut.
LEMMA MapFinish ==
  ASSUME TypeInv, Book, SignalUse, NEW t \in Threads, Finish(t)
  PROVE  Abstract!Next \/ UNCHANGED Abstract!vars
<1> USE NobodyAssumption DEF Finish, Step, TypeInv, TypeOK, linkVars
<1>1. Begin(t) \/ Continue(t)
  BY DEF Continue
<1>2. /\ UNCHANGED <<from, to, connected, live, conn, mode>> /\ at[t] = "walk" /\ at'[t] = "idle"
      /\ todo[t] = {} /\ call'[t] = "none"
  OBVIOUS
<1>3. LinkMap' = LinkMap
  BY <1>1, <1>2, LinksStay
<1>4. ReachedBy(t)' = ReachedBy(t) /\ ReachedMap' = ReachedMap /\ RunningMap' = RunningMap
  <2>1. ReachedBy(t)' = ReachedBy(t)
    BY <1>2 DEF ReachedBy, Inside
  <2>2. at'[t] = "slot" <=> at[t] = "slot"
    BY <1>2
  <2>3. QED
    BY <1>1, <2>1, <2>2, ReachedStays, RunningStays
<1>5. CASE call[t] = "~Object"
  <2> DEFINE o == subject[t]
  <2>1. o \in Objects /\ life[o] = "dying" /\ life' = [life EXCEPT ![o] = "freed"]
    BY <1>5 DEF Hand
  <2>2. \A c \in Conns : to[c] = o => LinkMap[c] = "cut"
    <3>1. \A c \in Conns : to[c] = o => ~connected[c]
      BY <1>2, <1>5 DEF Book, Walked
    <3>2. \A u \in Threads : at[u] = "insert" => to[conn[u]] # o
      BY <2>1 DEF Hand, Plain
    <3>3. QED
      BY <2>1, <3>1, <3>2, MapIs DEF LinkOf, Made
  <2>3. SignalMap' = SignalMap
    BY <1>1, <1>2, <1>5, SignalsStay
  <2>4. Abstract!Free(o)
    BY <1>2, <1>3, <1>4, <2>1, <2>2, <2>3
    DEF Abstract!Free, Abstract!ends, LinkMap, SignalMap, ReachedMap, RunningMap
  <2>5. QED
    BY <2>1, <2>4 DEF Abstract!Next
<1>6. CASE call[t] = "~Signal"
  <2>1. PICK s \in Signals : s = subject[t]
    BY <1>6 DEF SignalUse
  <2>2. /\ life' = life /\ ~live[s]
        /\ \A u \in Threads : call[u] = "~Signal" /\ subject[u] = s => u = t
    BY <1>6, <2>1 DEF SignalUse
  <2>3. SignalOf(s) = "dying" /\ SignalOf(s)' = "freed"
    BY <1>1, <1>2, <1>6, <2>1, <2>2, OnlyMine DEF SignalOf
  <2>4. \A r \in Signals \ {s} : SignalOf(r)' = SignalOf(r)
    <3>1. \A r \in Signals \ {s} : (\E u \in Threads : call'[u] = "~Signal" /\ subject'[u] = r)
                                     <=> (\E u \in Threads : call[u] = "~Signal" /\ subject[u] = r)
      BY <1>1, <1>2, <2>1, OnlyMine
    <3>2. QED
      BY <1>2, <3>1 DEF SignalOf
  <2>5. SignalMap' = [SignalMap EXCEPT ![s] = "freed"] /\ SignalMap[s] = "dying"
    <3>1. \A r \in Signals : SignalOf(r)' = IF r = s THEN "freed" ELSE SignalOf(r)
      BY <2>3, <2>4
    <3>2. SignalMap' = [SignalMap EXCEPT ![s] = "freed"]
      BY <3>1, SignalBecomes
    <3>3. QED
      BY <2>3, <3>2, MapIs
  <2>6. \A c \in Conns : from[c] = s => LinkMap[c] = "cut"
    <3>1. \A c \in Conns : from[c] = s => ~connected[c] /\ Made(c)
      BY <1>2, <1>6, <2>1 DEF SignalUse, Ends
    <3>2. \A u \in Threads : at[u] = "insert" => from[conn[u]] # s
      BY <2>2 DEF SignalUse
    <3>3. QED
      BY <3>1, <3>2, MapIs DEF LinkOf
  <2>7. Abstract!FreeSignal(s)
    BY <1>2, <1>3, <1>4, <2>2, <2>5, <2>6
    DEF Abstract!FreeSignal, Abstract!ends, LinkMap, SignalMap, ReachedMap, RunningMap
  <2>8. QED
    BY <2>7 DEF Abstract!Next
<1>7. CASE call[t] \notin {"~Object", "~Signal"}
  <2>1. life' = life /\ SignalMap' = SignalMap
    BY <1>1, <1>2, <1>7, SignalsStay
  <2>2. QED
    BY <1>1, <1>2, <1>3, <1>4, <2>1, MapNothing
<1>8. QED
  BY <1>5, <1>6, <1>7

\* Connections implements Links: the bookkeeping of the two sides, in steps that each change one,
\* comes to connections that are made once and cut once.
THEOREM LinksAreKept == Spec => ImplementsLinks
<1>1. Init => SignalUse /\ SlotsOfLive
  BY DEF Init, SignalUse, SlotsOfLive
<1>2. Init => Abstract!Init
  <2> SUFFICES ASSUME Init PROVE Abstract!Init
    OBVIOUS
  <2>1. /\ LinkMap = [c \in Conns |-> "none"] /\ SignalMap = [s \in Signals |-> "alive"]
        /\ ReachedMap = [t \in Threads |-> Nobody] /\ RunningMap = {}
    BY DEF Init, LinkMap, LinkOf, Made, SignalMap, SignalOf, ReachedMap, ReachedBy, Inside, RunningMap
  <2>2. mode.careful \in BOOLEAN
    BY ModesAssumption DEF Init
  <2>3. QED
    BY <2>1, <2>2 DEF Init, Abstract!Init, LinkMap, SignalMap, ReachedMap, RunningMap
<1>3. TypeInv /\ SignalUse /\ SlotsOfLive /\ [Next]_vars => SignalUse' /\ SlotsOfLive'
  <2>1. CASE UNCHANGED vars
    BY <2>1 DEF vars, linkVars, deathVars, callVars, stepVars, SignalUse, SlotsOfLive, Inside
  <2>2. QED
    BY <2>1, SignalUseKept, SlotsOfLiveKept DEF Next
<1>4. TypeInv /\ Book /\ SignalUse /\ SlotsOfLive /\ [Next]_vars => [Abstract!Next]_(Abstract!vars)
  <2> SUFFICES ASSUME TypeInv, Book, SignalUse, SlotsOfLive, [Next]_vars
               PROVE  Abstract!Next \/ UNCHANGED Abstract!vars
    OBVIOUS
  <2>1. CASE UNCHANGED vars
    BY <2>1 DEF vars, linkVars, deathVars, callVars, stepVars, Abstract!vars, Abstract!ends,
       LinkOf, Made, SignalOf, ReachedBy
  <2>2. ASSUME NEW t \in Threads, Begin(t) PROVE Abstract!Next \/ UNCHANGED Abstract!vars
    <3>1. CASE \E c \in Conns, s \in Signals, o \in Objects : Connect(t, c, s, o)
      BY <3>1, MapConnect DEF Abstract!Next
    <3>2. CASE (\E c \in Conns : Disconnect(t, c)) \/ (\E s \in Signals : Emit(t, s))
      BY <3>2, MapTrack
    <3>3. CASE \E s \in Signals : DestroySignal(t, s)
      BY <3>3, MapDestroySignal DEF Abstract!Next
    <3>4. CASE \E o \in Objects : DestroyObject(t, o)
      BY <3>4, MapDestroyObject DEF Abstract!Next
    <3>5. QED
      BY <2>2, <3>1, <3>2, <3>3, <3>4 DEF Begin
  <2>3. ASSUME NEW t \in Threads, Continue(t) PROVE Abstract!Next \/ UNCHANGED Abstract!vars
    <3>1. CASE Insert(t)
      <4>1. conn[t] \in Conns
        BY <3>1 DEF Insert, TypeInv, Hand, Plain
      <4>2. QED
        BY <3>1, <4>1, MapInsert DEF Abstract!Next
    <3>2. CASE ~Insert(t)
      BY <2>3, <3>2, MapTrack, MapTearDown, MapVisit, MapSlot, MapFinish DEF Continue
    <3>3. QED
      BY <3>1, <3>2
  <2>4. QED
    BY <2>1, <2>2, <2>3 DEF Next
<1>5. QED
  BY <1>1, <1>2, <1>3, <1>4, TypeInvHolds, BookHolds, PTL DEF Spec, ImplementsLinks, Abstract!Safety
=============================================================================
