----------------------------- MODULE SocketGroup ----------------------------
(* A group of client sockets (SocketGroup) with the thread that polls them *)
(* and the pool that handles their requests (SocketChecker, SocketReceiver).*)
(* The group keeps its sockets by the port of the client, so two clients   *)
(* with the same port number meet in one entry.                            *)
(*                                                                         *)
(* A poller is a thread that start() made; it is named after the socket    *)
(* whose addition started it.  Operations of the monitor of a group are    *)
(* one step, all the others are cut where another thread can come between. *)
EXTENDS Integers, FiniteSets

CONSTANTS
    Groups,   \* the group objects
    Sockets,  \* accepted connections
    None,
    Port,     \* Port[s] is the port number of the client
    Talkers,  \* bound: the sockets whose clients send requests
    mSize     \* sockets of a group, and threads of its pool (500)

ASSUME GroupAssumption ==
    /\ IsFiniteSet(Sockets)
    /\ None \notin Groups \cup Sockets
    /\ mSize \in Nat \ {0}
    /\ DOMAIN Port = Sockets
    /\ Talkers \subseteq Sockets

VARIABLES
    mMapSocket,   \* the sockets of a group
    mRuning,
    mThread,      \* thread of a group, or None
    group,        \* history: the group a socket was added to
    announced,    \* what the listener was told of a socket
    open,         \* sockets that are not closed on this side
    input,        \* open sockets with unread input
    mDataLength,  \* sockets whose mDataLength is not 0
    receivers,    \* SocketReceivers at work for a socket
    returning,    \* those that are done, whose threads the pool has not back yet
    poller,       \* where a poller is
    todo,         \* sockets it has yet to look at in this round
    at,           \* socket it looks at
    socketClosed  \* sockets it found closed

groupVars == <<mMapSocket, mRuning, mThread, group, announced>>
socketVars == <<open, input, mDataLength, receivers, returning>>
pollerVars == <<poller, todo, at, socketClosed>>

Polling == {"new", "round", "check", "empty", "clear"}

GroupTypeOK ==
    /\ mMapSocket \in [Groups -> SUBSET Sockets]
    /\ mRuning \in [Groups -> BOOLEAN]
    /\ mThread \in [Groups -> Sockets \cup {None}]
    /\ group \in [Sockets -> Groups \cup {None}]
    /\ announced \in [Sockets -> {"no", "refused", "created", "closed"}]
    /\ open \subseteq Sockets /\ input \subseteq Sockets /\ mDataLength \subseteq Sockets
    /\ receivers \in [Sockets -> 0 .. mSize]
    /\ returning \in [Sockets -> 0 .. mSize]
    /\ \A s \in Sockets : receivers[s] + returning[s] <= mSize
    /\ poller \in [Sockets -> Polling \cup {"none", "finish", "done"}]
    /\ todo \in [Sockets -> SUBSET Sockets]
    /\ at \in [Sockets -> Sockets \cup {None}]
    /\ socketClosed \in [Sockets -> SUBSET Sockets]

GroupInit ==
    /\ mMapSocket = [g \in Groups |-> {}]
    /\ mRuning = [g \in Groups |-> FALSE]
    /\ mThread = [g \in Groups |-> None]
    /\ group = [s \in Sockets |-> None]
    /\ announced = [s \in Sockets |-> "no"]
    /\ open = {} /\ input = {} /\ mDataLength = {}
    /\ receivers = [s \in Sockets |-> 0]
    /\ returning = [s \in Sockets |-> 0]
    /\ poller = [t \in Sockets |-> "none"]
    /\ todo = [t \in Sockets |-> {}]
    /\ at = [t \in Sockets |-> None]
    /\ socketClosed = [t \in Sockets |-> {}]

SamePort(g, s) == {t \in mMapSocket[g] : Port[t] = Port[s]}

(* Mutant: one socket too many. *)
isFull_OffByOne(g) == Cardinality(mMapSocket[g]) > mSize

isFull(g) == Cardinality(mMapSocket[g]) >= mSize
hasSocket(g, s) == SamePort(g, s) # {}
Pollers(g) == {t \in Sockets : group[t] = g /\ poller[t] \in Polling \cup {"finish"}}

Announce(sockets, what) == announced' = [s \in Sockets |-> IF s \in sockets THEN what ELSE announced[s]]
Closing(sockets) == open' = open \ sockets /\ input' = input \ sockets
Stopped(g) == mRuning' = [mRuning EXCEPT ![g] = FALSE] /\ mThread' = [mThread EXCEPT ![g] = None]

-----------------------------------------------------------------------------
(* start(): nothing if there is a thread or one runs.                      *)
Starts(g) == mThread[g] = None /\ ~mRuning[g]

(* addSocket(): the listener is told, the entry of the port is overwritten,*)
(* and the first socket starts the group.                                  *)
AddSocket(g, s) ==
    /\ open' = open \cup {s}
    /\ Announce({s}, "created")
    /\ group' = [group EXCEPT ![s] = g]
    /\ mMapSocket' = [mMapSocket EXCEPT ![g] = (@ \ SamePort(g, s)) \cup {s}]
    /\ IF Cardinality(mMapSocket'[g]) <= 1 /\ Starts(g)
       THEN /\ mThread' = [mThread EXCEPT ![g] = s]
            /\ mRuning' = [mRuning EXCEPT ![g] = TRUE]
            /\ poller' = [poller EXCEPT ![s] = "new"]
       ELSE UNCHANGED <<mThread, mRuning, poller>>
    /\ UNCHANGED <<input, mDataLength, receivers, returning, todo, at, socketClosed>>

(* Mutant: the sockets are forgotten without a word to the listener. *)
ClearSocket_Silent(g) ==
    /\ Closing(mMapSocket[g])
    /\ UNCHANGED announced
    /\ mMapSocket' = [mMapSocket EXCEPT ![g] = {}]

(* clearSocket(): each socket is closed and the listener told.             *)
ClearSocket(g) ==
    /\ Closing(mMapSocket[g])
    /\ Announce(mMapSocket[g], "closed")
    /\ mMapSocket' = [mMapSocket EXCEPT ![g] = {}]

(* close(). *)
Close(g) ==
    /\ ClearSocket(g)
    /\ Stopped(g)
    /\ UNCHANGED <<group, mDataLength, receivers, returning, pollerVars>>

-----------------------------------------------------------------------------
PollerGoes(t, from, to) == poller[t] = from /\ poller' = [poller EXCEPT ![t] = to]

Run(t) ==
    /\ PollerGoes(t, "new", "round")
    /\ mRuning' = [mRuning EXCEPT ![group[t]] = TRUE]
    /\ UNCHANGED <<mMapSocket, mThread, group, announced, socketVars, todo, at, socketClosed>>

(* Mutant: the sockets found closed are left as they are. *)
Round_Skips(t) ==
    /\ todo[t] = {}
    /\ \/ /\ PollerGoes(t, "round", "round")
          /\ mRuning[group[t]]
          /\ todo' = [todo EXCEPT ![t] = mMapSocket[group[t]]]
       \/ PollerGoes(t, "round", "clear") /\ ~mRuning[group[t]] /\ UNCHANGED todo
    /\ socketClosed' = [socketClosed EXCEPT ![t] = {}]
    /\ UNCHANGED <<groupVars, socketVars, at>>

(* while (mRuning): a round over the sockets there are, when the last one  *)
(* is over; those that are added meanwhile are seen in the next round.     *)
Round(t) ==
    /\ todo[t] = {} /\ socketClosed[t] = {}
    /\ \/ /\ PollerGoes(t, "round", "round")
          /\ mRuning[group[t]]
          /\ todo' = [todo EXCEPT ![t] = mMapSocket[group[t]]]
       \/ PollerGoes(t, "round", "clear") /\ ~mRuning[group[t]] /\ UNCHANGED todo
    /\ UNCHANGED <<groupVars, socketVars, at, socketClosed>>

(* Mutant: a socket whose request is handled is looked at as well. *)
Look_Again(t, s) ==
    /\ s \in todo[t]
    /\ todo' = [todo EXCEPT ![t] = @ \ {s}]
    /\ \/ s \notin open
          /\ PollerGoes(t, "round", "round")
          /\ socketClosed' = [socketClosed EXCEPT ![t] = @ \cup {s}] /\ UNCHANGED at
       \/ s \in open
          /\ PollerGoes(t, "round", "check")
          /\ at' = [at EXCEPT ![t] = s] /\ UNCHANGED socketClosed
       \/ s \notin mMapSocket[group[t]]
          /\ PollerGoes(t, "round", "round") /\ UNCHANGED <<at, socketClosed>>
    /\ UNCHANGED <<groupVars, socketVars>>

(* A socket is noted if it is closed, passed over if its request is being  *)
(* handled (or if it has just left the map), else its input is looked at.  *)
Look(t, s) ==
    /\ s \in todo[t]
    /\ todo' = [todo EXCEPT ![t] = @ \ {s}]
    /\ \/ /\ s \notin open
          /\ PollerGoes(t, "round", "round")
          /\ socketClosed' = [socketClosed EXCEPT ![t] = @ \cup {s}] /\ UNCHANGED at
       \/ /\ s \in open \ mDataLength
          /\ PollerGoes(t, "round", "check")
          /\ at' = [at EXCEPT ![t] = s] /\ UNCHANGED socketClosed
       \/ /\ s \in open \cap mDataLength \/ s \notin mMapSocket[group[t]]
          /\ PollerGoes(t, "round", "round") /\ UNCHANGED <<at, socketClosed>>
    /\ UNCHANGED <<groupVars, socketVars>>

(* Threads of the pool in use: the receivers of its sockets, counted.      *)
Busy(g) ==
    Cardinality({r \in Sockets \X (1 .. mSize) :
                    group[r[1]] = g /\ r[2] <= receivers[r[1]] + returning[r[1]]})

(* checkData(): the input there is, if the socket is still open, becomes   *)
(* mDataLength and is handed to the pool.  The pool has no queue: without  *)
(* an idle thread or room for a new one it throws, which ends the loop.    *)
Check(t) ==
    LET s == at[t] IN
    /\ poller[t] = "check"
    /\ at' = [at EXCEPT ![t] = None]
    /\ \/ /\ s \in input
          /\ mDataLength' = mDataLength \cup {s}
          /\ \/ /\ Busy(group[t]) < mSize
                /\ PollerGoes(t, "check", "round")
                /\ receivers' = [receivers EXCEPT ![s] = @ + 1]
             \/ /\ Busy(group[t]) >= mSize
                /\ PollerGoes(t, "check", "clear")
                /\ UNCHANGED receivers
       \/ /\ s \in open \ input
          /\ mDataLength' = mDataLength \ {s}
          /\ PollerGoes(t, "check", "round")
          /\ UNCHANGED receivers
       \/ /\ s \notin open
          /\ PollerGoes(t, "check", "round")
          /\ UNCHANGED <<mDataLength, receivers>>
    /\ UNCHANGED <<groupVars, open, input, returning, todo, socketClosed>>

(* After the round, closeSocket() of those found closed: whatever is in    *)
(* the entry of the port is removed and announced...                       *)
CloseSocket(t, s) ==
    LET g == group[t] IN
    /\ PollerGoes(t, "round", "empty")
    /\ todo[t] = {} /\ s \in socketClosed[t]
    /\ socketClosed' = [socketClosed EXCEPT ![t] = @ \ {s}]
    /\ mMapSocket' = [mMapSocket EXCEPT ![g] = @ \ SamePort(g, s)]
    /\ Announce(SamePort(g, s), "closed")
    /\ UNCHANGED <<mRuning, mThread, group, socketVars, todo, at>>

(* Mutant: the thread is not forgotten. *)
CloseIfEmpty_KeepsThread(t) ==
    LET g == group[t] IN
    /\ PollerGoes(t, "empty", "round")
    /\ mRuning' = [mRuning EXCEPT ![g] = @ /\ mMapSocket[g] # {}] /\ UNCHANGED mThread
    /\ UNCHANGED <<mMapSocket, group, announced, socketVars, todo, at, socketClosed>>

(* ... and an empty group is closed.                                       *)
CloseIfEmpty(t) ==
    LET g == group[t] IN
    /\ PollerGoes(t, "empty", "round")
    /\ IF mMapSocket[g] = {} THEN Stopped(g) ELSE UNCHANGED <<mRuning, mThread>>
    /\ UNCHANGED <<mMapSocket, group, announced, socketVars, todo, at, socketClosed>>

(* The finally block of run(): what is in the map by now is closed, and    *)
(* with the last socket the group.                                         *)
Clear(t) ==
    LET g == group[t] IN
    /\ PollerGoes(t, "clear", "finish")
    /\ ClearSocket(g)
    /\ IF mMapSocket[g] # {} THEN Stopped(g) ELSE UNCHANGED <<mRuning, mThread>>
    /\ todo' = [todo EXCEPT ![t] = {}]
    /\ socketClosed' = [socketClosed EXCEPT ![t] = {}]
    /\ UNCHANGED <<group, mDataLength, receivers, returning, at>>

Poll(t) ==
    \/ Run(t) \/ Round(t) \/ Check(t) \/ CloseIfEmpty(t) \/ Clear(t)
    \/ \E s \in Sockets : Look(t, s) \/ CloseSocket(t, s)

-----------------------------------------------------------------------------
(* The last step of a SocketReceiver: setDataLength(0), once the request   *)
(* was read (more may have come) or handling it has failed.                *)
Received(s) ==
    /\ receivers[s] > 0
    /\ receivers' = [receivers EXCEPT ![s] = @ - 1]
    /\ returning' = [returning EXCEPT ![s] = @ + 1]
    /\ mDataLength' = mDataLength \ {s}
    /\ input' \in {input, input \ {s}}
    /\ UNCHANGED <<groupVars, open, pollerVars>>

(* run() has returned, and the pool has its thread back. *)
Idle(s) ==
    /\ returning[s] > 0
    /\ returning' = [returning EXCEPT ![s] = @ - 1]
    /\ UNCHANGED <<groupVars, open, input, mDataLength, receivers, pollerVars>>

(* The client sends; the session closes its socket, or its receiver does,  *)
(* when handling a request fails.                                          *)
Send(s) ==
    /\ s \in (open \cap Talkers) \ input
    /\ input' = input \cup {s}
    /\ UNCHANGED <<groupVars, open, mDataLength, receivers, returning, pollerVars>>

Hangup(s) ==
    /\ s \in open
    /\ Closing({s})
    /\ UNCHANGED <<groupVars, mDataLength, receivers, returning, pollerVars>>
=============================================================================
