-------------------------- MODULE SocketGroupManager ------------------------
(* The accepting thread of the RTSP port (SocketGroupManager.run) and its  *)
(* list of groups, composed with the groups and their pollers.  A group    *)
(* that ends is kept for reuse.  Between choosing a group and adding the   *)
(* socket to it the group can end: this is where the sockets race.         *)
EXTENDS SocketGroup, Sequences

CONSTANT CacheSize \* of mCacheSocketGroup (10)

ASSUME ManagerAssumption == CacheSize \in Nat

VARIABLES
    mSocketGroups,     \* Vector of groups
    mCacheSocketGroup, \* queue of groups
    acceptor,          \* where run() is
    pending,           \* socket and group it is about to join
    walk,              \* groups the acceptor closed in its finally block
    raced              \* history: groups a socket was added to while they ended

managerVars == <<mSocketGroups, mCacheSocketGroup, acceptor, pending, walk, raced>>
vars == <<groupVars, socketVars, pollerVars, managerVars>>

Listed(g, seq) == {i \in DOMAIN seq : seq[i] = g}

TypeOK ==
    /\ GroupTypeOK
    /\ mSocketGroups \in Seq(Groups) /\ mCacheSocketGroup \in Seq(Groups)
    /\ Len(mCacheSocketGroup) <= CacheSize
    /\ acceptor \in {"accept", "add", "closing", "done"}
    /\ pending \in (Sockets \X Groups) \cup {None}
    /\ walk \in Nat
    /\ raced \subseteq Groups

Init ==
    /\ GroupInit
    /\ mSocketGroups = <<>> /\ mCacheSocketGroup = <<>>
    /\ acceptor = "accept" /\ pending = None
    /\ walk = 0
    /\ raced = {}

Roomy == {i \in DOMAIN mSocketGroups : ~isFull(mSocketGroups[i])}

Fresh == {g \in Groups : Listed(g, mSocketGroups) = {} /\ \A s \in Sockets : group[s] # g}

(* getSocketGroup(): the first group with room, else one of the cache, else *)
(* a new one.  Bound: there are as many new ones as the constant says.     *)
GetSocketGroup(g) ==
    \/ /\ \E i \in Roomy : g = mSocketGroups[i] /\ \A j \in Roomy : i <= j
       /\ UNCHANGED <<mSocketGroups, mCacheSocketGroup>>
    \/ /\ Roomy = {} /\ mCacheSocketGroup # <<>>
       /\ g = Head(mCacheSocketGroup)
       /\ mCacheSocketGroup' = Tail(mCacheSocketGroup)
       /\ mSocketGroups' = Append(mSocketGroups, g)
    \/ /\ Roomy = {} /\ mCacheSocketGroup = <<>> /\ g \in Fresh
       /\ mSocketGroups' = Append(mSocketGroups, g)
       /\ UNCHANGED mCacheSocketGroup

Waiting(s) == announced[s] = "no" /\ acceptor = "accept"

Accept(s, g) ==
    /\ Waiting(s)
    /\ \A i \in DOMAIN mSocketGroups : ~hasSocket(mSocketGroups[i], s)
    /\ GetSocketGroup(g)
    /\ acceptor' = "add" /\ pending' = <<s, g>>
    /\ UNCHANGED <<groupVars, socketVars, pollerVars, walk, raced>>

(* A connection whose port number is in use is dropped. *)
Refuse(s) ==
    /\ Waiting(s)
    /\ \E i \in DOMAIN mSocketGroups : hasSocket(mSocketGroups[i], s)
    /\ Announce({s}, "refused")
    /\ UNCHANGED <<mMapSocket, mRuning, mThread, group, socketVars, pollerVars, managerVars>>

(* addSocket() to the group that was chosen.  The history records a group  *)
(* that was taken off the list meanwhile, or that gets a second poller.    *)
Add ==
    LET s == pending[1]
        g == pending[2]
        late == Listed(g, mSocketGroups) = {}
        second == Starts(g) /\ Pollers(g) # {}
    IN  /\ acceptor = "add"
        /\ AddSocket(g, s)
        /\ raced' = IF late \/ second THEN raced \cup {g} ELSE raced
        /\ acceptor' = "accept" /\ pending' = None
        /\ UNCHANGED <<mSocketGroups, mCacheSocketGroup, walk>>

RemoveAt(seq, i) == SubSeq(seq, 1, i - 1) \o SubSeq(seq, i + 1, Len(seq))

(* Mutant: the group is cached and stays in the list. *)
Unlisted_Kept(g) == mSocketGroups

Unlisted(g) ==
    IF Listed(g, mSocketGroups) = {} THEN mSocketGroups
    ELSE RemoveAt(mSocketGroups, CHOOSE i \in Listed(g, mSocketGroups) :
                                     \A j \in Listed(g, mSocketGroups) : i <= j)

(* Mutant: the cache has no limit. *)
Cached_Unbounded(g) == Append(mCacheSocketGroup, g)

Cached(g) == IF Len(mCacheSocketGroup) < CacheSize THEN Append(mCacheSocketGroup, g) ELSE mCacheSocketGroup

(* onFinish, removeSocketGroup(): the group goes from the list to the cache,*)
(* if there is room.  A walk over the list ends with an exception.         *)
Finish(t) ==
    LET g == group[t] IN
    /\ PollerGoes(t, "finish", "done")
    /\ mSocketGroups' = Unlisted(g)
    /\ mCacheSocketGroup' = Cached(g)
    /\ acceptor' = IF acceptor = "closing" /\ Listed(g, mSocketGroups) # {} THEN "done" ELSE acceptor
    /\ UNCHANGED <<groupVars, socketVars, todo, at, socketClosed, pending, walk, raced>>

(* The server socket was closed or accepting failed: run() closes what is  *)
(* listed, group after group.                                              *)
Stop ==
    /\ acceptor = "accept"
    /\ acceptor' = "closing"
    /\ UNCHANGED <<groupVars, socketVars, pollerVars, mSocketGroups, mCacheSocketGroup, pending, walk, raced>>

CloseNext ==
    /\ acceptor = "closing" /\ walk < Len(mSocketGroups)
    /\ Close(mSocketGroups[walk + 1])
    /\ walk' = walk + 1
    /\ UNCHANGED <<mSocketGroups, mCacheSocketGroup, acceptor, pending, raced>>

Stopping ==
    /\ acceptor = "closing" /\ walk >= Len(mSocketGroups)
    /\ acceptor' = "done" /\ mCacheSocketGroup' = <<>>
    /\ UNCHANGED <<groupVars, socketVars, pollerVars, mSocketGroups, pending, walk, raced>>

-----------------------------------------------------------------------------
Acceptor ==
    \/ \E s \in Sockets : Refuse(s) \/ \E g \in Groups : Accept(s, g)
    \/ Add \/ Stop \/ CloseNext \/ Stopping

Poller(t) == Finish(t) \/ (Poll(t) /\ UNCHANGED managerVars)

Client(s) == (Send(s) \/ Hangup(s) \/ Received(s) \/ Idle(s)) /\ UNCHANGED managerVars

Next == Acceptor \/ \E s \in Sockets : Poller(s) \/ Client(s)

Spec == Init /\ [][Next]_vars

(* Threads that poll run.  Nothing is assumed of the receivers: they read  *)
(* from the client, who may be silent.                                     *)
FairSpec == Spec /\ \A t \in Sockets : WF_vars(Poller(t))

-----------------------------------------------------------------------------
(* A socket in a group has a thread that looks at it, or will close it     *)
(* (SocketGroup:35-57, 79-94): whatever the order in which the last socket *)
(* leaves, the group ends and the next socket comes.                       *)
Served == \A g \in Groups :
    mMapSocket[g] # {} => \E t \in Sockets : group[t] = g /\ poller[t] \in Polling

(* The properties below hold of a group that no socket joined while it was *)
(* ending; the one window for this is between getSocketGroup() and         *)
(* addSocket() (SocketGroupManager:36-37, SocketGroup:126).                *)
Quiet(g) == g \notin raced

(* A group with sockets is in the list, where hasSocket() and close() find *)
(* it, and no group is in the list or the cache twice.                     *)
ListedOnce == \A g \in Groups : Quiet(g) =>
    /\ Cardinality(Listed(g, mSocketGroups)) + Cardinality(Listed(g, mCacheSocketGroup)) <= 1
    /\ mMapSocket[g] # {} => Listed(g, mSocketGroups) # {}

(* The requests of a socket are handled one at a time: none is looked for *)
(* while a receiver works for the socket (SocketChecker:30-41).            *)
OneReceiver == \A t \in Sockets :
    poller[t] = "check" /\ Quiet(group[t]) => receivers[at[t]] = 0

(* A socket the listener was told about is in its group until the listener *)
(* is told that it is closed: no session is left behind by an overwritten  *)
(* entry.                                                                  *)
NoneLost == \A s \in Sockets :
    announced[s] = "created" => s \in mMapSocket[group[s]] \/ ~Quiet(group[s])

(* The pool has a thread for every socket of the group: it throws, and the *)
(* group drops all its clients, only while a receiver still works for a    *)
(* socket that has left, or has let its socket be polled again but not yet *)
(* returned its thread (SocketGroup:23-31, 101-117; SocketReceiver:30).    *)
PoolSuffices == \A t \in Sockets :
    LET g == group[t] IN
    poller[t] = "check" /\ Quiet(g) =>
        \/ Busy(g) < mSize
        \/ \E s \in Sockets : group[s] = g /\ s \notin mMapSocket[g] /\ receivers[s] > 0
        \/ \E s \in Sockets : group[s] = g /\ returning[s] > 0

(* A closed socket is announced, unless its group has raced: then it may   *)
(* have been overwritten, or be left without a poller at the end           *)
(* (SocketGroup:79-94, 105-127).                                           *)
ClosedIsAnnounced == \A s \in Sockets :
    announced[s] = "created" /\ s \notin open ~>
        announced[s] = "closed" \/ ~Quiet(group[s])

=============================================================================
