------------------------------- MODULE Links -------------------------------
(***************************************************************************)
(* What a connection promises, with no slot list, no mutex and no token in *)
(* sight: it is made once and cut once, and not made again; an emission    *)
(* reaches it only while it stands; a slot starts for a living receiver;   *)
(* and neither a signal nor a receiver goes before the last of its         *)
(* connections is cut.  Connections implements it.                         *)
(***************************************************************************)
CONSTANTS Threads, Signals, Objects, Conns, Nobody

VARIABLES strict,    \* whether users keep a receiver from dying under its slots
          from, to,  \* the ends of each connection
          link,      \* of each: "none", "made", "standing", "cut"
          life,      \* of each receiver: "alive", "dying", "freed"
          signal,    \* of each signal, likewise
          reached,   \* the connection each thread's emission is in
          running    \* the threads that run the slot of it

ends == <<from, to>>
vars == <<strict, ends, link, life, signal, reached, running>>

Init ==
  /\ strict \in BOOLEAN
  /\ from = [c \in Conns |-> Nobody] /\ to = [c \in Conns |-> Nobody]
  /\ link = [c \in Conns |-> "none"]
  /\ life = [o \in Objects |-> "alive"] /\ signal = [s \in Signals |-> "alive"]
  /\ reached = [t \in Threads |-> Nobody] /\ running = {}

Make(c, s, o) ==
  /\ link[c] = "none" /\ signal[s] = "alive" /\ life[o] = "alive"
  /\ link' = [link EXCEPT ![c] = "made"]
  /\ from' = [from EXCEPT ![c] = s] /\ to' = [to EXCEPT ![c] = o]
  /\ UNCHANGED <<strict, life, signal, reached, running>>

Stand(c) ==
  /\ link[c] = "made" /\ signal[from[c]] = "alive" /\ life[to[c]] = "alive"
  /\ link' = [link EXCEPT ![c] = "standing"]
  /\ UNCHANGED <<strict, ends, life, signal, reached, running>>

Cut(c) ==
  /\ link[c] = "standing"
  /\ link' = [link EXCEPT ![c] = "cut"]
  /\ UNCHANGED <<strict, ends, life, signal, reached, running>>

\* The emission of a signal comes to one of its connections, ...
Reach(t, c) ==
  /\ reached[t] = Nobody /\ link[c] = "standing" /\ signal[from[c]] = "alive"
  /\ reached' = [reached EXCEPT ![t] = c]
  /\ UNCHANGED <<strict, ends, link, life, signal, running>>

\* ... which may be cut by the time its slot starts; the receiver may not be dying.
Enter(t) ==
  /\ reached[t] # Nobody /\ t \notin running
  /\ strict => life[to[reached[t]]] = "alive"
  /\ running' = running \cup {t}
  /\ UNCHANGED <<strict, ends, link, life, signal, reached>>

Exit(t) ==
  /\ t \in running
  /\ running' = running \ {t}
  /\ UNCHANGED <<strict, ends, link, life, signal, reached>>

Pass(t) ==
  /\ reached[t] # Nobody /\ t \notin running
  /\ reached' = [reached EXCEPT ![t] = Nobody]
  /\ UNCHANGED <<strict, ends, link, life, signal, running>>

Die(o) ==
  /\ life[o] = "alive"
  /\ strict => \A t \in running : to[reached[t]] # o
  /\ life' = [life EXCEPT ![o] = "dying"]
  /\ UNCHANGED <<strict, ends, link, signal, reached, running>>

Free(o) ==
  /\ life[o] = "dying"
  /\ \A c \in Conns : to[c] = o => link[c] = "cut"
  /\ life' = [life EXCEPT ![o] = "freed"]
  /\ UNCHANGED <<strict, ends, link, signal, reached, running>>

\* No emission of the signal is under way any more.
DieSignal(s) ==
  /\ signal[s] = "alive"
  /\ \A t \in Threads : reached[t] # Nobody => from[reached[t]] # s
  /\ signal' = [signal EXCEPT ![s] = "dying"]
  /\ UNCHANGED <<strict, ends, link, life, reached, running>>

FreeSignal(s) ==
  /\ signal[s] = "dying"
  /\ \A c \in Conns : from[c] = s => link[c] = "cut"
  /\ signal' = [signal EXCEPT ![s] = "freed"]
  /\ UNCHANGED <<strict, ends, link, life, reached, running>>

Next ==
  \/ \E c \in Conns : \/ \E s \in Signals, o \in Objects : Make(c, s, o)
                      \/ Stand(c) \/ Cut(c)
                      \/ \E t \in Threads : Reach(t, c)
  \/ \E t \in Threads : Enter(t) \/ Exit(t) \/ Pass(t)
  \/ \E o \in Objects : Die(o) \/ Free(o)
  \/ \E s \in Signals : DieSignal(s) \/ FreeSignal(s)

Safety == Init /\ [][Next]_vars
=============================================================================
