---------------------- MODULE SocketGroupManagerProofs ----------------------
(* Proofs about SocketGroup and SocketGroupManager, for any groups,        *)
(* sockets, ports and limits: every socket in a group is polled; and of a  *)
(* group that no socket joined while it ended, that it is listed once, has *)
(* one receiver per socket, loses no session, and refuses a request only   *)
(* over a thread that works for a socket which left or is on its way back. *)
EXTENDS SocketGroupManager, FiniteSetTheorems, SequenceTheorems,
        WellFoundedInduction, TLAPS

(* What a socket is to its group.  Only a socket that was added is in a    *)
(* map, has a poller or a receiver.                                        *)
Members ==
    /\ \A g \in Groups : \A s \in mMapSocket[g] : group[s] = g /\ announced[s] = "created"
    /\ \A s \in Sockets : announced[s] \in {"no", "refused"} <=> group[s] = None
    /\ \A s \in Sockets : group[s] = None => poller[s] = "none" /\ receivers[s] = 0

Joining ==
    acceptor = "add" => pending \in Sockets \X Groups /\ announced[pending[1]] = "no"

(* A poller looks at sockets of its own group, and at none before and      *)
(* after a round.                                                          *)
Looks ==
    \A t \in Sockets :
        /\ \A s \in todo[t] : group[s] = group[t]
        /\ poller[t] \in {"none", "new", "empty"} => todo[t] = {}
        /\ poller[t] = "check" => at[t] \in Sockets /\ group[at[t]] = group[t]

(* The fields of a group follow each other: a group that can be started is *)
(* empty, any other has a poller that will see its next socket.            *)
Tends(t) ==
    \/ poller[t] \in {"new", "empty"}
    \/ poller[t] = "round" /\ todo[t] = {}
    \/ poller[t] \in {"round", "check", "clear"} /\ mMapSocket[group[t]] # {}

TendedAt(g) ==
    /\ ~mRuning[g] => mThread[g] = None
    /\ Starts(g) => mMapSocket[g] = {}
    /\ ~Starts(g) => \E t \in Sockets : group[t] = g /\ Tends(t)

Tended == \A g \in Groups : TendedAt(g)

Once(g, seq) == \A i, j \in DOMAIN seq : seq[i] = g /\ seq[j] = g => i = j
In(g, seq) == \E i \in DOMAIN seq : seq[i] = g

(* A quiet group has one poller at most, and is in the list while it has   *)
(* one; it is in one place.                                                *)
PlacedAt(g) ==
    /\ \A t, u \in Pollers(g) : t = u
    /\ Pollers(g) # {} => In(g, mSocketGroups)
    /\ Once(g, mSocketGroups) /\ Once(g, mCacheSocketGroup)
    /\ ~(In(g, mSocketGroups) /\ In(g, mCacheSocketGroup))

Placed == \A g \in Groups : Quiet(g) => PlacedAt(g)

Used == \A g \in Groups : In(g, mCacheSocketGroup) => \E s \in Sockets : group[s] = g

(* There is room and a port for the socket that is about to join.          *)
Roomed ==
    /\ \A g \in Groups : Quiet(g) => Cardinality(mMapSocket[g]) <= mSize
    /\ acceptor = "add" /\ Quiet(pending[2]) =>
           /\ Cardinality(mMapSocket[pending[2]]) < mSize
           /\ SamePort(pending[2], pending[1]) = {}

(* An open socket that has a receiver has a length, so it is passed over.  *)
Received1 ==
    \A s \in Sockets : group[s] # None /\ Quiet(group[s]) =>
        /\ receivers[s] <= 1
        /\ receivers[s] = 1 /\ s \in open => s \in mDataLength

(* What a poller has yet to look at is in the map, until run() closes the  *)
(* group, which nobody joins any more.                                     *)
Ahead(t) == todo[t] \cup (IF poller[t] = "check" THEN {at[t]} ELSE {})

PresentAt(t) ==
    poller[t] \in {"round", "check"} /\ Quiet(group[t]) =>
        \/ Ahead(t) \subseteq mMapSocket[group[t]]
        \/ acceptor \in {"closing", "done"} /\ mMapSocket[group[t]] = {}

Present == \A t \in Sockets : PresentAt(t)

IInv ==
    /\ TypeOK /\ Members /\ Joining /\ Looks /\ Tended
    /\ Placed /\ Used /\ Roomed /\ NoneLost /\ Received1 /\ OneReceiver /\ Present

-----------------------------------------------------------------------------
(* Sequences: an element is taken out, and the others keep their order.    *)
LEMMA RemoveAtLeaves ==
    ASSUME NEW S, NEW seq \in Seq(S), NEW i \in DOMAIN seq
    PROVE  /\ RemoveAt(seq, i) \in Seq(S)
           /\ Len(RemoveAt(seq, i)) = Len(seq) - 1
           /\ \A j \in 1 .. Len(seq) - 1 :
                  RemoveAt(seq, i)[j] = IF j < i THEN seq[j] ELSE seq[j + 1]
<1> DEFINE a == SubSeq(seq, 1, i - 1)
           b == SubSeq(seq, i + 1, Len(seq))
<1>1. i \in 1 .. Len(seq) /\ Len(seq) \in Nat
  OBVIOUS
<1>2. a \in Seq(S) /\ Len(a) = i - 1 /\ \A j \in 1 .. i - 1 : a[j] = seq[j]
  BY <1>1
<1>3. b \in Seq(S) /\ Len(b) = Len(seq) - i /\ \A j \in 1 .. Len(seq) - i : b[j] = seq[j + i]
  BY <1>1
<1> HIDE DEF a, b
<1>4. a \o b \in Seq(S) /\ Len(a \o b) = Len(seq) - 1
  BY <1>1, <1>2, <1>3
<1>5. ASSUME NEW j \in 1 .. Len(seq) - 1
      PROVE  (a \o b)[j] = IF j < i THEN seq[j] ELSE seq[j + 1]
  <2>1. CASE j < i
    BY <1>1, <1>2, <1>3, <2>1
  <2>2. CASE j >= i
    <3>1. (a \o b)[j] = b[j - (i - 1)]
      BY <1>1, <1>2, <1>3, <2>2
    <3>2. j - (i - 1) \in 1 .. Len(seq) - i
      BY <1>1, <2>2
    <3> QED  BY <1>1, <1>3, <2>2, <3>1, <3>2
  <2>3. j < i \/ j >= i
    BY <1>1
  <2> QED  BY <2>1, <2>2, <2>3
<1>6. RemoveAt(seq, i) = a \o b
  BY DEF RemoveAt, a, b
<1> QED  BY <1>4, <1>5, <1>6

(* The first place of a group in a sequence. *)
LEMMA FirstListed ==
    ASSUME NEW g \in Groups, NEW seq \in Seq(Groups), Listed(g, seq) # {}
    PROVE  LET i == CHOOSE i \in Listed(g, seq) : \A j \in Listed(g, seq) : i <= j
           IN  i \in DOMAIN seq /\ seq[i] = g
<1> DEFINE S == Listed(g, seq)
<1>1. S \subseteq Nat
  BY DEF Listed
<1>2. \E i \in S : \A j \in S : i <= j
  <2> DEFINE R == {p \in Nat \X Nat : p[1] < p[2]}
  <2>1. IsWellFoundedOn(R, Nat)
    BY NatLessThanWellFounded DEF OpToRel
  <2>2. PICK x \in S : \A y \in S : <<y, x>> \notin R
    BY <1>1, <2>1, WFMin
  <2>3. \A y \in S : x <= y
    <3> SUFFICES ASSUME NEW y \in S PROVE ~(y < x)
      BY <1>1
    <3> QED  BY <1>1, <2>2
  <2> QED  BY <2>3
<1> QED  BY <1>2 DEF Listed

-----------------------------------------------------------------------------
(* The type of the state and the members of groups. *)
Base == TypeOK /\ Members /\ Joining /\ Looks

LEMMA BaseInit ==
    ASSUME Init
    PROVE  Base
<1>1. TypeOK
  BY GroupAssumption, ManagerAssumption DEF Init, GroupInit, TypeOK, GroupTypeOK, Polling
<1>2. Members /\ Joining /\ Looks
  BY DEF Init, GroupInit, Members, Joining, Looks
<1> QED  BY <1>1, <1>2 DEF Base

(* A lemma per action.  Only Add, Refuse, Close, CloseSocket and Clear     *)
(* change what the listener was told.                                      *)
LEMMA BaseAccept ==
    ASSUME Base, NEW s \in Sockets, NEW g \in Groups, Accept(s, g)
    PROVE  Base'
<1> USE DEF Base
<1>1. mSocketGroups' \in Seq(Groups) /\ mCacheSocketGroup' \in Seq(Groups)
      /\ Len(mCacheSocketGroup') <= CacheSize
  <2>1. CASE UNCHANGED <<mSocketGroups, mCacheSocketGroup>>
    BY <2>1 DEF TypeOK
  <2>2. CASE /\ mCacheSocketGroup # <<>>
             /\ mCacheSocketGroup' = Tail(mCacheSocketGroup)
             /\ mSocketGroups' = Append(mSocketGroups, g)
    <3>1. /\ Tail(mCacheSocketGroup) \in Seq(Groups)
          /\ Len(Tail(mCacheSocketGroup)) = Len(mCacheSocketGroup) - 1
      BY <2>2, HeadTailProperties DEF TypeOK
    <3> QED  BY <2>2, <3>1, ManagerAssumption DEF TypeOK
  <2>3. CASE mSocketGroups' = Append(mSocketGroups, g) /\ UNCHANGED mCacheSocketGroup
    BY <2>3 DEF TypeOK
  <2> QED  BY <2>1, <2>2, <2>3 DEF Accept, GetSocketGroup
<1>2. TypeOK'
  BY <1>1 DEF Accept, groupVars, socketVars, pollerVars, TypeOK, GroupTypeOK
<1>3. Members' /\ Looks'
  BY DEF Accept, groupVars, socketVars, pollerVars, Members, Looks
<1>4. Joining'
  BY DEF Accept, Waiting, groupVars, Joining
<1> QED  BY <1>2, <1>3, <1>4

LEMMA BaseRefuse ==
    ASSUME Base, NEW s \in Sockets, Refuse(s)
    PROVE  Base'
<1> USE DEF Base
<1>1. TypeOK'
  BY DEF Refuse, Announce, socketVars, pollerVars, managerVars, TypeOK, GroupTypeOK
<1>2. Members' /\ Looks' /\ Joining'
  BY DEF Refuse, Waiting, Announce, socketVars, pollerVars, managerVars, TypeOK, GroupTypeOK, Members, Looks, Joining
<1> QED  BY <1>1, <1>2

LEMMA BaseAdd ==
    ASSUME Base, Add
    PROVE  Base'
<1> USE DEF Base
<1> DEFINE s == pending[1]
           g == pending[2]
<1>1. s \in Sockets /\ g \in Groups /\ announced[s] = "no" /\ AddSocket(g, s)
      /\ acceptor' = "accept" /\ pending' = None
      /\ raced' \in {raced, raced \cup {g}}
      /\ UNCHANGED <<mSocketGroups, mCacheSocketGroup, walk>>
  BY DEF Add, Joining
<1> HIDE DEF s, g
<1>2. mMapSocket' \in [Groups -> SUBSET Sockets]
  BY <1>1 DEF AddSocket, TypeOK, GroupTypeOK
<1>3. /\ mThread' \in [Groups -> Sockets \cup {None}] /\ mRuning' \in [Groups -> BOOLEAN]
      /\ poller' \in [Sockets -> Polling \cup {"none", "finish", "done"}]
  BY <1>1 DEF AddSocket, TypeOK, GroupTypeOK, Polling
<1>4. TypeOK'
  BY <1>1, <1>2, <1>3 DEF AddSocket, Announce, TypeOK, GroupTypeOK
<1>5. group[s] = None /\ poller[s] = "none" /\ todo[s] = {}
  BY <1>1 DEF Members, Looks
<1>6. /\ group' = [group EXCEPT ![s] = g] /\ announced' = [announced EXCEPT ![s] = "created"]
      /\ mMapSocket' = [mMapSocket EXCEPT ![g] = (mMapSocket[g] \ SamePort(g, s)) \cup {s}]
      /\ poller' \in {poller, [poller EXCEPT ![s] = "new"]}
      /\ UNCHANGED <<receivers, returning, todo, at>>
  BY <1>1 DEF AddSocket, Announce, TypeOK, GroupTypeOK
<1>7. Members'
  BY <1>1, <1>5, <1>6, GroupAssumption DEF Members, TypeOK, GroupTypeOK
<1>8. Looks'
  BY <1>1, <1>5, <1>6, GroupAssumption DEF Members, Looks, TypeOK, GroupTypeOK
<1>9. Joining'
  BY <1>1 DEF Joining
<1> QED  BY <1>4, <1>7, <1>8, <1>9

LEMMA BaseStop ==
    ASSUME Base, Stop \/ Stopping
    PROVE  Base'
<1> USE DEF Base
<1>1. /\ UNCHANGED <<groupVars, socketVars, pollerVars, mSocketGroups, pending, walk, raced>>
      /\ acceptor' \in {"closing", "done"}
      /\ mCacheSocketGroup' = mCacheSocketGroup \/ mCacheSocketGroup' = <<>>
  BY DEF Stop, Stopping
<1>2. mCacheSocketGroup' \in Seq(Groups) /\ Len(mCacheSocketGroup') <= CacheSize
  <2>1. <<>> \in Seq(Groups) /\ Len(<<>>) = 0
    OBVIOUS
  <2>2. CASE mCacheSocketGroup' = mCacheSocketGroup
    BY <2>2 DEF TypeOK
  <2>3. CASE mCacheSocketGroup' = <<>>
    BY <2>1, <2>3, ManagerAssumption
  <2> QED  BY <1>1, <2>2, <2>3
<1>3. TypeOK'
  BY <1>1, <1>2 DEF groupVars, socketVars, pollerVars, TypeOK, GroupTypeOK
<1>4. Members' /\ Looks' /\ Joining'
  BY <1>1 DEF groupVars, socketVars, pollerVars, Members, Looks, Joining
<1> QED  BY <1>3, <1>4

LEMMA BaseCloseNext ==
    ASSUME Base, CloseNext
    PROVE  Base'
<1> USE DEF Base
<1> DEFINE g == mSocketGroups[walk + 1]
<1>1. g \in Groups /\ Close(g) /\ acceptor = "closing"
      /\ UNCHANGED <<mSocketGroups, mCacheSocketGroup, acceptor, pending, raced>>
      /\ walk' = walk + 1
  BY DEF CloseNext, TypeOK
<1> HIDE DEF g
<1>2. TypeOK'
  BY <1>1 DEF Close, ClearSocket, Stopped, Closing, Announce, pollerVars, TypeOK, GroupTypeOK
<1>3. Members'
  BY <1>1 DEF Close, ClearSocket, Announce, pollerVars, TypeOK, GroupTypeOK, Members
<1>4. Looks' /\ Joining'
  BY <1>1 DEF Close, pollerVars, Looks, Joining
<1> QED  BY <1>2, <1>3, <1>4

(* A poller.  It runs for a socket that was added. *)
LEMMA PollersGroup ==
    ASSUME Base, NEW t \in Sockets, poller[t] # "none"
    PROVE  group[t] \in Groups
BY DEF Base, TypeOK, GroupTypeOK, Members

LEMMA BaseFinish ==
    ASSUME Base, NEW t \in Sockets, Finish(t)
    PROVE  Base'
<1> USE DEF Base
<1> DEFINE g == group[t]
<1>1. g \in Groups
  BY PollersGroup DEF Finish, PollerGoes
<1>2. mSocketGroups' \in Seq(Groups)
  <2> DEFINE i == CHOOSE i \in Listed(g, mSocketGroups) : \A j \in Listed(g, mSocketGroups) : i <= j
  <2>1. CASE Listed(g, mSocketGroups) = {}
    BY <2>1 DEF Finish, Unlisted, TypeOK
  <2>2. CASE Listed(g, mSocketGroups) # {}
    BY <1>1, <2>2, RemoveAtLeaves, FirstListed DEF Finish, Unlisted, TypeOK
  <2> QED  BY <2>1, <2>2
<1>3. mCacheSocketGroup' \in Seq(Groups) /\ Len(mCacheSocketGroup') <= CacheSize
  BY <1>1, ManagerAssumption DEF Finish, Cached, TypeOK
<1>4. TypeOK'
  BY <1>2, <1>3 DEF Finish, PollerGoes, groupVars, socketVars, TypeOK, GroupTypeOK
<1>5. Members' /\ Looks'
  BY DEF Finish, PollerGoes, groupVars, socketVars, TypeOK, GroupTypeOK, Members, Looks
<1>6. Joining'
  BY DEF Finish, groupVars, Joining
<1> QED  BY <1>4, <1>5, <1>6

LEMMA BaseRun ==
    ASSUME Base, NEW t \in Sockets, Run(t), UNCHANGED managerVars
    PROVE  Base'
<1> USE DEF Base
<1>1. TypeOK'
  BY DEF Run, PollerGoes, socketVars, managerVars, Polling, TypeOK, GroupTypeOK
<1>2. Members' /\ Looks' /\ Joining'
  BY DEF Run, PollerGoes, socketVars, managerVars, TypeOK, GroupTypeOK, Members, Looks, Joining
<1> QED  BY <1>1, <1>2

LEMMA BaseRound ==
    ASSUME Base, NEW t \in Sockets, Round(t), UNCHANGED managerVars
    PROVE  Base'
<1> USE DEF Base
<1>1. group[t] \in Groups
  BY PollersGroup DEF Round, PollerGoes
<1>2. TypeOK'
  <2>1. todo' \in [Sockets -> SUBSET Sockets]
    BY <1>1 DEF Round, TypeOK, GroupTypeOK
  <2>2. poller' \in [Sockets -> Polling \cup {"none", "finish", "done"}]
    BY DEF Round, PollerGoes, Polling, TypeOK, GroupTypeOK
  <2> QED  BY <2>1, <2>2 DEF Round, groupVars, socketVars, managerVars, TypeOK, GroupTypeOK
<1>3. Members' /\ Joining'
  BY DEF Round, PollerGoes, groupVars, socketVars, managerVars, TypeOK, GroupTypeOK, Members, Joining
<1>4. Looks'
  BY <1>1 DEF Round, PollerGoes, groupVars, TypeOK, GroupTypeOK, Members, Looks
<1> QED  BY <1>2, <1>3, <1>4

LEMMA BaseLook ==
    ASSUME Base, NEW t \in Sockets, NEW s \in Sockets, Look(t, s), UNCHANGED managerVars
    PROVE  Base'
<1> USE DEF Base
<1>1. /\ s \in todo[t] /\ poller[t] = "round"
      /\ \/ poller' = poller /\ at' = at
         \/ poller' = [poller EXCEPT ![t] = "check"] /\ at' = [at EXCEPT ![t] = s]
      /\ todo' = [todo EXCEPT ![t] = todo[t] \ {s}]
      /\ \/ socketClosed' = socketClosed
         \/ socketClosed' = [socketClosed EXCEPT ![t] = socketClosed[t] \cup {s}]
      /\ UNCHANGED <<groupVars, socketVars, managerVars>>
  BY DEF Look, PollerGoes, TypeOK, GroupTypeOK
<1>2. TypeOK'
  <2>1. /\ todo' \in [Sockets -> SUBSET Sockets]
        /\ socketClosed' \in [Sockets -> SUBSET Sockets]
        /\ at' \in [Sockets -> Sockets \cup {None}]
    <3>1. todo' \in [Sockets -> SUBSET Sockets]
      BY <1>1 DEF TypeOK, GroupTypeOK
    <3>2. /\ socketClosed \in [Sockets -> SUBSET Sockets]
          /\ at \in [Sockets -> Sockets \cup {None}]
      BY DEF TypeOK, GroupTypeOK
    <3>3. socketClosed' \in [Sockets -> SUBSET Sockets]
      BY <1>1, <3>2
    <3>4. at' \in [Sockets -> Sockets \cup {None}]
      BY <1>1, <3>2
    <3> QED  BY <3>1, <3>3, <3>4
  <2>2. poller' \in [Sockets -> Polling \cup {"none", "finish", "done"}]
    <3>1. poller \in [Sockets -> Polling \cup {"none", "finish", "done"}]
      BY DEF TypeOK, GroupTypeOK
    <3> QED  BY <1>1, <3>1 DEF Polling
  <2> QED  BY <1>1, <2>1, <2>2 DEF groupVars, socketVars, managerVars, TypeOK, GroupTypeOK
<1>3. Members' /\ Joining'
  <2>1. \A u \in Sockets : poller[u] = "none" => poller'[u] = "none"
    BY <1>1 DEF TypeOK, GroupTypeOK
  <2> QED  BY <1>1, <2>1 DEF groupVars, socketVars, managerVars, Members, Joining
<1>4. Looks'
  BY <1>1 DEF groupVars, TypeOK, GroupTypeOK, Members, Looks
<1> QED  BY <1>2, <1>3, <1>4

(* A pool with a free thread has room for one more receiver of a socket.   *)
LEMMA BusyBounds ==
    ASSUME Base, NEW s \in Sockets, NEW g, group[s] = g, Busy(g) < mSize
    PROVE  receivers[s] + returning[s] < mSize
<1> DEFINE n == receivers[s] + returning[s]
           B == {r \in Sockets \X (1 .. mSize) : group[r[1]] = g /\ r[2] <= receivers[r[1]] + returning[r[1]]}
           f == [i \in 1 .. n |-> <<s, i>>]
<1>1. n \in Nat /\ n <= mSize
  BY GroupAssumption DEF Base, TypeOK, GroupTypeOK
<1>2. IsFiniteSet(B)
  <2>1. IsFiniteSet(1 .. mSize)
    BY FS_Interval, GroupAssumption
  <2>2. IsFiniteSet(Sockets \X (1 .. mSize))
    BY <2>1, FS_Product, GroupAssumption
  <2> QED  BY <2>2, FS_Subset
<1>3. f \in Injection(1 .. n, B)
  BY <1>1, GroupAssumption DEF Injection, IsInjective
<1>4. Cardinality(1 .. n) = n
  BY <1>1, FS_Interval
<1>5. n <= Cardinality(B)
  BY <1>2, <1>3, <1>4, FS_Injection
<1>6. Cardinality(B) \in Nat
  BY <1>2, FS_CardinalityType
<1> QED  BY <1>1, <1>5, <1>6, GroupAssumption DEF Busy

LEMMA BaseCheck ==
    ASSUME Base, NEW t \in Sockets, Check(t), UNCHANGED managerVars
    PROVE  Base'
<1> USE DEF Base
<1> DEFINE s == at[t]
<1>1. /\ s \in Sockets /\ group[s] = group[t] /\ group[t] \in Groups
      /\ poller[t] = "check"
      /\ at' = [at EXCEPT ![t] = None]
      /\ UNCHANGED <<groupVars, open, input, returning, todo, socketClosed>>
  BY PollersGroup DEF Check, Looks
<1> HIDE DEF s
<1>2. poller' \in {[poller EXCEPT ![t] = "round"], [poller EXCEPT ![t] = "clear"]}
  BY DEF Check, PollerGoes
<1>3. mDataLength' \in {mDataLength, mDataLength \cup {s}, mDataLength \ {s}}
  BY DEF Check, s
<1>4. /\ receivers' \in [Sockets -> 0 .. mSize]
      /\ \A r \in Sockets : r # s => receivers'[r] = receivers[r]
      /\ \A r \in Sockets : receivers'[r] + returning'[r] <= mSize
  <2>1. CASE UNCHANGED receivers
    BY <1>1, <2>1 DEF TypeOK, GroupTypeOK
  <2>2. CASE Busy(group[t]) < mSize /\ receivers' = [receivers EXCEPT ![s] = @ + 1]
    <3>1. receivers[s] + returning[s] < mSize
      BY <1>1, <2>2, BusyBounds
    <3> QED  BY <1>1, <2>2, <3>1, GroupAssumption DEF TypeOK, GroupTypeOK
  <2> QED  BY <2>1, <2>2 DEF Check, s
<1>5. TypeOK'
  <2>1. at' \in [Sockets -> Sockets \cup {None}] /\ mDataLength' \subseteq Sockets
    BY <1>1, <1>3 DEF TypeOK, GroupTypeOK
  <2>2. poller' \in [Sockets -> Polling \cup {"none", "finish", "done"}]
    BY <1>2 DEF Polling, TypeOK, GroupTypeOK
  <2>3. /\ returning' \in [Sockets -> 0 .. mSize]
        /\ open' \subseteq Sockets /\ input' \subseteq Sockets
        /\ todo' \in [Sockets -> SUBSET Sockets] /\ socketClosed' \in [Sockets -> SUBSET Sockets]
    BY <1>1 DEF TypeOK, GroupTypeOK
  <2>4. /\ mMapSocket' \in [Groups -> SUBSET Sockets] /\ mRuning' \in [Groups -> BOOLEAN]
        /\ mThread' \in [Groups -> Sockets \cup {None}]
        /\ group' \in [Sockets -> Groups \cup {None}]
        /\ announced' \in [Sockets -> {"no", "refused", "created", "closed"}]
    BY <1>1 DEF groupVars, TypeOK, GroupTypeOK
  <2>5. GroupTypeOK'
    BY <1>4, <2>1, <2>2, <2>3, <2>4 DEF GroupTypeOK
  <2>6. /\ mSocketGroups' = mSocketGroups /\ mCacheSocketGroup' = mCacheSocketGroup
        /\ acceptor' = acceptor /\ pending' = pending /\ walk' = walk /\ raced' = raced
    BY DEF managerVars
  <2>7. TypeOK
    OBVIOUS
  <2> QED  BY <2>5, <2>6, <2>7 DEF TypeOK
<1>6. Members'
  BY <1>1, <1>2, <1>4, GroupAssumption DEF groupVars, TypeOK, GroupTypeOK, Members
<1>7. Joining'
  BY <1>1 DEF groupVars, managerVars, Joining
<1>8. Looks'
  <2>1. poller'[t] \in {"round", "clear"}
    BY <1>2 DEF TypeOK, GroupTypeOK
  <2>2. \A r \in Sockets : r # t => poller'[r] = poller[r] /\ at'[r] = at[r]
    BY <1>1, <1>2 DEF TypeOK, GroupTypeOK
  <2>3. group' = group /\ todo' = todo
    BY <1>1 DEF groupVars
  <2> QED  BY <2>1, <2>2, <2>3 DEF Looks
<1> QED  BY <1>5, <1>6, <1>7, <1>8

LEMMA BaseCloseSocket ==
    ASSUME Base, NEW t \in Sockets, NEW s \in Sockets, CloseSocket(t, s), UNCHANGED managerVars
    PROVE  Base'
<1> USE DEF Base
<1> DEFINE g == group[t]
<1>1. /\ g \in Groups /\ poller[t] = "round" /\ todo[t] = {}
      /\ poller' = [poller EXCEPT ![t] = "empty"]
      /\ socketClosed' = [socketClosed EXCEPT ![t] = socketClosed[t] \ {s}]
      /\ mMapSocket' = [mMapSocket EXCEPT ![g] = mMapSocket[g] \ SamePort(g, s)]
      /\ announced' = [r \in Sockets |-> IF r \in SamePort(g, s) THEN "closed" ELSE announced[r]]
      /\ UNCHANGED <<mRuning, mThread, group, socketVars, todo, at>>
  BY PollersGroup DEF CloseSocket, PollerGoes, Announce
<1>2. SamePort(g, s) \subseteq mMapSocket[g]
  BY DEF SamePort
<1> HIDE DEF g
<1>3. TypeOK'
  <2>1. /\ socketClosed' \in [Sockets -> SUBSET Sockets]
        /\ mMapSocket' \in [Groups -> SUBSET Sockets]
        /\ announced' \in [Sockets -> {"no", "refused", "created", "closed"}]
    BY <1>1 DEF TypeOK, GroupTypeOK
  <2>2. poller' \in [Sockets -> Polling \cup {"none", "finish", "done"}]
    BY <1>1 DEF Polling, TypeOK, GroupTypeOK
  <2> QED  BY <1>1, <2>1, <2>2 DEF socketVars, managerVars, TypeOK, GroupTypeOK
<1>4. Members'
  <2>1. ASSUME NEW h \in Groups, NEW r \in mMapSocket'[h]
        PROVE  group'[r] = h /\ announced'[r] = "created"
    <3>1. r \in mMapSocket[h] /\ r \in Sockets /\ (h = g => r \notin SamePort(g, s))
      BY <1>1 DEF TypeOK, GroupTypeOK
    <3>2. group[r] = h /\ announced[r] = "created"
      BY <3>1 DEF Members
    <3>3. r \notin SamePort(g, s)
      BY <1>1, <1>2, <3>1, <3>2 DEF Members
    <3> QED  BY <1>1, <3>1, <3>2, <3>3
  <2>2. \A r \in Sockets : announced'[r] \in {"no", "refused"} <=> group'[r] = None
    BY <1>1, <1>2 DEF Members, TypeOK, GroupTypeOK
  <2>3. \A r \in Sockets : group'[r] = None => poller'[r] = "none" /\ receivers'[r] = 0
    BY <1>1, GroupAssumption DEF Members, socketVars, TypeOK, GroupTypeOK
  <2> QED  BY <2>1, <2>2, <2>3 DEF Members
<1>5. Looks'
  BY <1>1 DEF TypeOK, GroupTypeOK, Looks
<1>6. Joining'
  BY <1>1, <1>2 DEF Members, Joining, managerVars
<1> QED  BY <1>3, <1>4, <1>5, <1>6

LEMMA BaseCloseIfEmpty ==
    ASSUME Base, NEW t \in Sockets, CloseIfEmpty(t), UNCHANGED managerVars
    PROVE  Base'
<1> USE DEF Base
<1>1. TypeOK'
  <2>1. mRuning' \in [Groups -> BOOLEAN] /\ mThread' \in [Groups -> Sockets \cup {None}]
    BY DEF CloseIfEmpty, Stopped, TypeOK, GroupTypeOK
  <2>2. poller' \in [Sockets -> Polling \cup {"none", "finish", "done"}]
    BY DEF CloseIfEmpty, PollerGoes, Polling, TypeOK, GroupTypeOK
  <2> QED  BY <2>1, <2>2 DEF CloseIfEmpty, socketVars, managerVars, TypeOK, GroupTypeOK
<1>2. Members' /\ Looks' /\ Joining'
  BY DEF CloseIfEmpty, PollerGoes, socketVars, managerVars, TypeOK, GroupTypeOK, Members, Looks, Joining
<1> QED  BY <1>1, <1>2

LEMMA BaseClear ==
    ASSUME Base, NEW t \in Sockets, Clear(t), UNCHANGED managerVars
    PROVE  Base'
<1> USE DEF Base
<1> DEFINE g == group[t]
<1>1. /\ g \in Groups /\ poller[t] = "clear"
      /\ poller' = [poller EXCEPT ![t] = "finish"]
      /\ open' = open \ mMapSocket[g] /\ input' = input \ mMapSocket[g]
      /\ mMapSocket' = [mMapSocket EXCEPT ![g] = {}]
      /\ announced' = [r \in Sockets |-> IF r \in mMapSocket[g] THEN "closed" ELSE announced[r]]
      /\ todo' = [todo EXCEPT ![t] = {}] /\ socketClosed' = [socketClosed EXCEPT ![t] = {}]
      /\ UNCHANGED <<group, mDataLength, receivers, returning, at>>
  BY PollersGroup DEF Clear, ClearSocket, Closing, PollerGoes, Announce
<1>2. /\ mRuning' \in [Groups -> BOOLEAN] /\ mThread' \in [Groups -> Sockets \cup {None}]
  BY DEF Clear, Stopped, TypeOK, GroupTypeOK
<1> HIDE DEF g
<1>3. TypeOK'
  <2>1. todo' \in [Sockets -> SUBSET Sockets] /\ socketClosed' \in [Sockets -> SUBSET Sockets]
    BY <1>1 DEF TypeOK, GroupTypeOK
  <2>2. /\ mMapSocket' \in [Groups -> SUBSET Sockets]
        /\ announced' \in [Sockets -> {"no", "refused", "created", "closed"}]
    BY <1>1 DEF TypeOK, GroupTypeOK
  <2>3. poller' \in [Sockets -> Polling \cup {"none", "finish", "done"}]
    BY <1>1 DEF Polling, TypeOK, GroupTypeOK
  <2> QED  BY <1>1, <1>2, <2>1, <2>2, <2>3 DEF managerVars, TypeOK, GroupTypeOK
<1>4. Members'
  <2>1. ASSUME NEW h \in Groups, NEW r \in mMapSocket'[h]
        PROVE  group'[r] = h /\ announced'[r] = "created"
    <3>1. r \in mMapSocket[h] /\ r \in Sockets /\ h # g
      BY <1>1 DEF TypeOK, GroupTypeOK
    <3>2. r \notin mMapSocket[g] /\ group[r] = h /\ announced[r] = "created"
      BY <1>1, <3>1 DEF Members
    <3> QED  BY <1>1, <3>1, <3>2
  <2>2. \A r \in Sockets : announced'[r] \in {"no", "refused"} <=> group'[r] = None
    BY <1>1, <1>2 DEF Members, TypeOK, GroupTypeOK
  <2>3. \A r \in Sockets : group'[r] = None => poller'[r] = "none" /\ receivers'[r] = 0
    BY <1>1, GroupAssumption DEF Members, TypeOK, GroupTypeOK
  <2> QED  BY <2>1, <2>2, <2>3 DEF Members
<1>5. Looks'
  BY <1>1 DEF TypeOK, GroupTypeOK, Looks
<1>6. Joining'
  BY <1>1 DEF Members, Joining, managerVars
<1> QED  BY <1>3, <1>4, <1>5, <1>6

LEMMA BaseClient ==
    ASSUME Base, NEW s \in Sockets, Client(s)
    PROVE  Base'
<1> USE DEF Base
<1>1. /\ UNCHANGED <<groupVars, pollerVars, managerVars>>
      /\ open' \in {open, open \ {s}} /\ input' \in {input, input \ {s}, input \cup {s}}
      /\ mDataLength' \in {mDataLength, mDataLength \ {s}}
      /\ \/ UNCHANGED <<receivers, returning>>
         \/ /\ receivers[s] > 0 /\ receivers' = [receivers EXCEPT ![s] = receivers[s] - 1]
            /\ returning' = [returning EXCEPT ![s] = returning[s] + 1]
         \/ returning[s] > 0 /\ returning' = [returning EXCEPT ![s] = returning[s] - 1] /\ UNCHANGED receivers
  BY DEF Client, Received, Send, Hangup, Idle, Closing
<1>2. /\ receivers' \in [Sockets -> 0 .. mSize]
      /\ returning' \in [Sockets -> 0 .. mSize]
      /\ \A r \in Sockets : receivers'[r] + returning'[r] <= mSize
      /\ \A r \in Sockets : receivers[r] = 0 => receivers'[r] = 0
  <2>1. CASE UNCHANGED <<receivers, returning>>
    BY <2>1 DEF TypeOK, GroupTypeOK
  <2>2. CASE /\ receivers[s] > 0 /\ receivers' = [receivers EXCEPT ![s] = receivers[s] - 1]
             /\ returning' = [returning EXCEPT ![s] = returning[s] + 1]
    BY <2>2, GroupAssumption DEF TypeOK, GroupTypeOK
  <2>3. CASE returning[s] > 0 /\ returning' = [returning EXCEPT ![s] = returning[s] - 1] /\ UNCHANGED receivers
    BY <2>3, GroupAssumption DEF TypeOK, GroupTypeOK
  <2> QED  BY <1>1, <2>1, <2>2, <2>3
<1>3. TypeOK'
  BY <1>1, <1>2 DEF groupVars, pollerVars, managerVars, TypeOK, GroupTypeOK
<1>4. Members' /\ Looks' /\ Joining'
  BY <1>1, <1>2 DEF groupVars, pollerVars, managerVars, Members, Looks, Joining
<1> QED  BY <1>3, <1>4

(* One step, action by action: the cases of the proofs that follow. *)
LEMMA Steps ==
    ASSUME [Next]_vars
    PROVE  \/ UNCHANGED vars
           \/ \E s \in Sockets, g \in Groups : Accept(s, g)
           \/ \E s \in Sockets : Refuse(s)
           \/ Add
           \/ Stop \/ Stopping
           \/ CloseNext
           \/ \E t \in Sockets : Finish(t)
           \/ \E t \in Sockets : Run(t) /\ UNCHANGED managerVars
           \/ \E t \in Sockets : Round(t) /\ UNCHANGED managerVars
           \/ \E t, s \in Sockets : Look(t, s) /\ UNCHANGED managerVars
           \/ \E t \in Sockets : Check(t) /\ UNCHANGED managerVars
           \/ \E t, s \in Sockets : CloseSocket(t, s) /\ UNCHANGED managerVars
           \/ \E t \in Sockets : CloseIfEmpty(t) /\ UNCHANGED managerVars
           \/ \E t \in Sockets : Clear(t) /\ UNCHANGED managerVars
           \/ \E s \in Sockets : Client(s)
BY DEF Next, Acceptor, Poller, Poll

LEMMA BaseKept ==
    ASSUME Base, [Next]_vars
    PROVE  Base'
<1>1. CASE UNCHANGED vars
  BY <1>1 DEF vars, groupVars, socketVars, pollerVars, managerVars, Base, TypeOK, GroupTypeOK, Members, Looks, Joining
<1> QED  BY <1>1, Steps, BaseAccept, BaseRefuse, BaseAdd, BaseStop, BaseCloseNext, BaseFinish,
            BaseRun, BaseRound, BaseLook, BaseCheck, BaseCloseSocket, BaseCloseIfEmpty, BaseClear, BaseClient

-----------------------------------------------------------------------------
(* Every group is tended.  First a group whose fields stay and whose       *)
(* pollers that tend it stay where they are.                               *)
LEMMA TendedElsewhere ==
    ASSUME Tended, NEW h \in Groups,
           mRuning'[h] = mRuning[h], mThread'[h] = mThread[h], mMapSocket'[h] = mMapSocket[h],
           \A t \in Sockets : group[t] = h /\ Tends(t) =>
               group'[t] = h /\ poller'[t] = poller[t] /\ todo'[t] = todo[t]
    PROVE  TendedAt(h)'
BY DEF Tended, TendedAt, Starts, Tends

LEMMA TendedIdle ==
    ASSUME Base, Tended,
           \/ UNCHANGED vars
           \/ \E s \in Sockets, g \in Groups : Accept(s, g)
           \/ \E s \in Sockets : Refuse(s)
           \/ Stop \/ Stopping
           \/ \E t \in Sockets : Finish(t)
           \/ \E s \in Sockets : Client(s)
    PROVE  Tended'
<1>1. /\ UNCHANGED <<mMapSocket, mRuning, mThread, group, todo>>
      /\ \/ UNCHANGED poller
         \/ \E t \in Sockets : poller[t] = "finish" /\ poller' = [poller EXCEPT ![t] = "done"]
  BY DEF vars, groupVars, socketVars, pollerVars, Accept, Refuse, Stop, Stopping, Finish,
         PollerGoes, Client, Send, Hangup, Received, Idle
<1>2. \A t \in Sockets : Tends(t) => poller'[t] = poller[t]
  BY <1>1 DEF Tends, Base, TypeOK, GroupTypeOK
<1> QED  BY <1>1, <1>2, TendedElsewhere DEF Tended

LEMMA TendedAdd ==
    ASSUME Base, Tended, Add
    PROVE  Tended'
<1>1. PICK s \in Sockets, g \in Groups : announced[s] = "no" /\ AddSocket(g, s)
  BY DEF Add, Base, Joining
<1>2. group[s] = None
  BY <1>1 DEF Base, Members
<1>3. /\ group' = [group EXCEPT ![s] = g]
      /\ mMapSocket' = [mMapSocket EXCEPT ![g] = (mMapSocket[g] \ SamePort(g, s)) \cup {s}]
      /\ UNCHANGED todo
  BY <1>1 DEF AddSocket
<1>4. /\ mMapSocket \in [Groups -> SUBSET Sockets] /\ group \in [Sockets -> Groups \cup {None}]
      /\ poller \in [Sockets -> Polling \cup {"none", "finish", "done"}]
      /\ mThread \in [Groups -> Sockets \cup {None}] /\ mRuning \in [Groups -> BOOLEAN]
      /\ None \notin Groups \cup Sockets
  BY GroupAssumption DEF Base, TypeOK, GroupTypeOK
<1>5. CASE Starts(g)
  <2>1. mMapSocket[g] = {}
    BY <1>1, <1>5 DEF Tended, TendedAt
  <2>2. mMapSocket'[g] = {s}
    BY <1>1, <1>3, <1>4, <2>1 DEF SamePort
  <2>3. Cardinality(mMapSocket'[g]) <= 1
    <3>1. Cardinality({s}) = 1
      BY FS_Singleton, Zenon
    <3> QED  BY <2>2, <3>1
  <2>4. /\ mThread' = [mThread EXCEPT ![g] = s]
        /\ mRuning' = [mRuning EXCEPT ![g] = TRUE]
        /\ poller' = [poller EXCEPT ![s] = "new"]
    BY <1>1, <1>5, <2>3 DEF AddSocket
  <2>5. TendedAt(g)'
    BY <1>1, <1>3, <1>4, <2>4 DEF TendedAt, Starts, Tends
  <2>6. ASSUME NEW h \in Groups, h # g
        PROVE  TendedAt(h)'
    <3>1. mRuning'[h] = mRuning[h] /\ mThread'[h] = mThread[h] /\ mMapSocket'[h] = mMapSocket[h]
      BY <1>3, <1>4, <2>4, <2>6
    <3>2. \A t \in Sockets : group[t] = h =>
              group'[t] = h /\ poller'[t] = poller[t] /\ todo'[t] = todo[t]
      BY <1>1, <1>2, <1>3, <1>4, <2>4
    <3> QED  BY <3>1, <3>2, TendedElsewhere
  <2> QED  BY <2>5, <2>6 DEF Tended
<1>6. CASE ~Starts(g)
  <2>1. UNCHANGED <<mThread, mRuning, poller>>
    BY <1>1, <1>6 DEF AddSocket
  <2>2. \A t \in Sockets : group[t] # None => group'[t] = group[t]
    BY <1>1, <1>2, <1>3, <1>4
  <2>3. \A h \in Groups : mMapSocket[h] # {} => mMapSocket'[h] # {}
    BY <1>1, <1>3, <1>4
  <2>4. \A h \in Groups : h # g => mMapSocket'[h] = mMapSocket[h]
    BY <1>1, <1>3, <1>4
  <2>5. \A t \in Sockets : group[t] \in Groups /\ Tends(t) => Tends(t)'
    BY <1>3, <2>1, <2>2, <2>3, <1>4 DEF Tends
  <2> QED  BY <1>4, <1>6, <2>1, <2>2, <2>4, <2>5 DEF Tended, TendedAt, Starts
<1> QED  BY <1>5, <1>6

LEMMA TendedCloseNext ==
    ASSUME Base, Tended, CloseNext
    PROVE  Tended'
<1>1. PICK g \in Groups : Close(g)
  BY DEF CloseNext, Base, TypeOK
<1>2. /\ mMapSocket' = [mMapSocket EXCEPT ![g] = {}]
      /\ mRuning' = [mRuning EXCEPT ![g] = FALSE] /\ mThread' = [mThread EXCEPT ![g] = None]
      /\ UNCHANGED <<group, poller, todo>>
  BY <1>1 DEF Close, ClearSocket, Stopped, pollerVars
<1>3. /\ mMapSocket \in [Groups -> SUBSET Sockets]
      /\ mThread \in [Groups -> Sockets \cup {None}] /\ mRuning \in [Groups -> BOOLEAN]
  BY DEF Base, TypeOK, GroupTypeOK
<1>4. TendedAt(g)'
  BY <1>1, <1>2, <1>3 DEF TendedAt, Starts
<1>5. \A h \in Groups : h # g => TendedAt(h)'
  BY <1>1, <1>2, <1>3, TendedElsewhere
<1> QED  BY <1>4, <1>5 DEF Tended

(* A poller that goes on in a group whose fields stay.                     *)
LEMMA TendedGoesOn ==
    ASSUME Base, Tended, NEW t \in Sockets, NEW to, poller[t] # "none",
           poller' = [poller EXCEPT ![t] = to],
           UNCHANGED <<mMapSocket, mRuning, mThread, group>>,
           \A u \in Sockets : u # t => todo'[u] = todo[u],
           Tends(t) => Tends(t)' \/ Starts(group[t])
    PROVE  Tended'
<1>1. \A u \in Sockets : u # t /\ Tends(u) => Tends(u)'
  BY DEF Tends, Base, TypeOK, GroupTypeOK
<1>2. ASSUME NEW g \in Groups PROVE TendedAt(g)'
  BY <1>1 DEF Tended, TendedAt, Starts
<1> QED  BY <1>2 DEF Tended

LEMMA TendedRound ==
    ASSUME Base, Tended, NEW t \in Sockets, Round(t)
    PROVE  Tended'
<1>1. group[t] \in Groups /\ poller[t] = "round"
  BY PollersGroup DEF Round, PollerGoes
<1>2. /\ UNCHANGED <<mMapSocket, mRuning, mThread, group>>
      /\ \A u \in Sockets : u # t => todo'[u] = todo[u]
  BY DEF Round, groupVars, Base, TypeOK, GroupTypeOK
<1>3. CASE mRuning[group[t]] /\ poller' = [poller EXCEPT ![t] = "round"]
           /\ todo' = [todo EXCEPT ![t] = mMapSocket[group[t]]]
  <2>1. Tends(t)'
    BY <1>1, <1>2, <1>3 DEF Tends, Base, TypeOK, GroupTypeOK
  <2> QED  BY <1>1, <1>2, <1>3, <2>1, TendedGoesOn
<1>4. CASE ~mRuning[group[t]] /\ poller' = [poller EXCEPT ![t] = "clear"]
  <2>1. Starts(group[t])
    BY <1>1, <1>4 DEF Tended, TendedAt, Starts
  <2> QED  BY <1>1, <1>2, <1>4, <2>1, TendedGoesOn
<1> QED  BY <1>3, <1>4 DEF Round, PollerGoes

LEMMA TendedLook ==
    ASSUME Base, Tended, NEW t \in Sockets, NEW s \in Sockets, Look(t, s)
    PROVE  Tended'
<1>1. /\ poller[t] = "round" /\ todo[t] # {}
      /\ UNCHANGED <<mMapSocket, mRuning, mThread, group>>
      /\ \A u \in Sockets : u # t => todo'[u] = todo[u]
  BY DEF Look, PollerGoes, groupVars, Base, TypeOK, GroupTypeOK
<1>2. PICK to \in {"round", "check"} : poller' = [poller EXCEPT ![t] = to]
  BY DEF Look, PollerGoes
<1>3. Tends(t) => Tends(t)'
  BY <1>1, <1>2 DEF Tends, Base, TypeOK, GroupTypeOK
<1> QED  BY <1>1, <1>2, <1>3, TendedGoesOn

LEMMA TendedCheck ==
    ASSUME Base, Tended, NEW t \in Sockets, Check(t)
    PROVE  Tended'
<1>1. /\ poller[t] = "check"
      /\ UNCHANGED <<mMapSocket, mRuning, mThread, group, todo>>
  BY DEF Check, groupVars
<1>2. PICK to \in {"round", "clear"} : poller' = [poller EXCEPT ![t] = to]
  BY DEF Check, PollerGoes
<1>3. Tends(t) => Tends(t)'
  BY <1>1, <1>2 DEF Tends, Base, TypeOK, GroupTypeOK
<1> QED  BY <1>1, <1>2, <1>3, TendedGoesOn

LEMMA TendedRun ==
    ASSUME Base, Tended, NEW t \in Sockets, Run(t)
    PROVE  Tended'
<1>1. PICK g \in Groups : g = group[t]
  BY PollersGroup DEF Run, PollerGoes
<1>2. /\ poller[t] = "new" /\ poller' = [poller EXCEPT ![t] = "round"]
      /\ mRuning' = [mRuning EXCEPT ![g] = TRUE]
      /\ UNCHANGED <<mMapSocket, mThread, group, todo>>
  BY <1>1 DEF Run, PollerGoes
<1>3. todo[t] = {}
  BY <1>2 DEF Base, Looks
<1>4. /\ mRuning \in [Groups -> BOOLEAN]
      /\ poller \in [Sockets -> Polling \cup {"none", "finish", "done"}]
  BY DEF Base, TypeOK, GroupTypeOK
<1>5. TendedAt(g)'
  <2>1. Tends(t)' /\ mRuning'[g]
    BY <1>2, <1>3, <1>4 DEF Tends
  <2> QED  BY <1>1, <1>2, <2>1 DEF TendedAt, Starts
<1>6. ASSUME NEW h \in Groups, h # g PROVE TendedAt(h)'
  <2>1. \A u \in Sockets : group[u] = h => group'[u] = h /\ poller'[u] = poller[u] /\ todo'[u] = todo[u]
    BY <1>1, <1>2, <1>4, <1>6
  <2> QED  BY <1>2, <1>4, <1>6, <2>1, TendedElsewhere
<1> QED  BY <1>5, <1>6 DEF Tended

LEMMA TendedCloseSocket ==
    ASSUME Base, Tended, NEW t \in Sockets, NEW s \in Sockets, CloseSocket(t, s)
    PROVE  Tended'
<1>1. PICK g \in Groups : g = group[t]
  BY PollersGroup DEF CloseSocket, PollerGoes
<1>2. /\ poller' = [poller EXCEPT ![t] = "empty"]
      /\ mMapSocket' = [mMapSocket EXCEPT ![g] = mMapSocket[g] \ SamePort(g, s)]
      /\ UNCHANGED <<mRuning, mThread, group, todo>>
  BY <1>1 DEF CloseSocket, PollerGoes
<1>3. /\ mMapSocket \in [Groups -> SUBSET Sockets]
      /\ poller \in [Sockets -> Polling \cup {"none", "finish", "done"}]
  BY DEF Base, TypeOK, GroupTypeOK
<1>4. TendedAt(g)'
  <2>1. Tends(t)'
    BY <1>2, <1>3 DEF Tends
  <2>2. mMapSocket'[g] \subseteq mMapSocket[g]
    BY <1>2, <1>3
  <2> QED  BY <1>1, <1>2, <2>1, <2>2 DEF Tended, TendedAt, Starts
<1>5. ASSUME NEW h \in Groups, h # g PROVE TendedAt(h)'
  <2>1. \A u \in Sockets : group[u] = h => group'[u] = h /\ poller'[u] = poller[u] /\ todo'[u] = todo[u]
    BY <1>1, <1>2, <1>3, <1>5
  <2> QED  BY <1>2, <1>3, <1>5, <2>1, TendedElsewhere
<1> QED  BY <1>4, <1>5 DEF Tended

LEMMA TendedCloseIfEmpty ==
    ASSUME Base, Tended, NEW t \in Sockets, CloseIfEmpty(t)
    PROVE  Tended'
<1>1. PICK g \in Groups : g = group[t]
  BY PollersGroup DEF CloseIfEmpty, PollerGoes
<1>2. /\ poller[t] = "empty" /\ poller' = [poller EXCEPT ![t] = "round"]
      /\ UNCHANGED <<mMapSocket, group, todo>>
      /\ IF mMapSocket[g] = {} THEN Stopped(g) ELSE UNCHANGED <<mRuning, mThread>>
  BY <1>1 DEF CloseIfEmpty, PollerGoes
<1>3. /\ mThread \in [Groups -> Sockets \cup {None}] /\ mRuning \in [Groups -> BOOLEAN]
      /\ poller \in [Sockets -> Polling \cup {"none", "finish", "done"}]
  BY DEF Base, TypeOK, GroupTypeOK
<1>4. CASE mMapSocket[g] = {}
  <2>1. /\ mRuning' = [mRuning EXCEPT ![g] = FALSE] /\ mThread' = [mThread EXCEPT ![g] = None]
    BY <1>2, <1>4 DEF Stopped
  <2>2. TendedAt(g)'
    BY <1>2, <1>3, <1>4, <2>1 DEF TendedAt, Starts
  <2>3. ASSUME NEW h \in Groups, h # g PROVE TendedAt(h)'
    <3>1. \A u \in Sockets : group[u] = h => group'[u] = h /\ poller'[u] = poller[u] /\ todo'[u] = todo[u]
      BY <1>1, <1>2, <1>3, <2>3
    <3> QED  BY <1>2, <1>3, <2>1, <2>3, <3>1, TendedElsewhere
  <2> QED  BY <2>2, <2>3 DEF Tended
<1>5. CASE mMapSocket[g] # {}
  <2>1. Tends(t)'
    BY <1>1, <1>2, <1>3, <1>5 DEF Tends
  <2> QED  BY <1>2, <1>5, <2>1, TendedGoesOn
<1> QED  BY <1>4, <1>5

LEMMA TendedClear ==
    ASSUME Base, Tended, NEW t \in Sockets, Clear(t)
    PROVE  Tended'
<1>1. PICK g \in Groups : g = group[t]
  BY PollersGroup DEF Clear, PollerGoes
<1>2. /\ poller[t] = "clear" /\ poller' = [poller EXCEPT ![t] = "finish"]
      /\ mMapSocket' = [mMapSocket EXCEPT ![g] = {}]
      /\ todo' = [todo EXCEPT ![t] = {}]
      /\ UNCHANGED group
      /\ IF mMapSocket[g] # {} THEN Stopped(g) ELSE UNCHANGED <<mRuning, mThread>>
  BY <1>1 DEF Clear, ClearSocket, PollerGoes
<1>3. /\ mThread \in [Groups -> Sockets \cup {None}] /\ mRuning \in [Groups -> BOOLEAN]
      /\ mMapSocket \in [Groups -> SUBSET Sockets] /\ todo \in [Sockets -> SUBSET Sockets]
      /\ poller \in [Sockets -> Polling \cup {"none", "finish", "done"}]
  BY DEF Base, TypeOK, GroupTypeOK
<1>4. CASE mMapSocket[g] # {}
  <2>1. /\ mRuning' = [mRuning EXCEPT ![g] = FALSE] /\ mThread' = [mThread EXCEPT ![g] = None]
    BY <1>2, <1>4 DEF Stopped
  <2>2. TendedAt(g)'
    BY <1>2, <1>3, <2>1 DEF TendedAt, Starts
  <2>3. ASSUME NEW h \in Groups, h # g PROVE TendedAt(h)'
    <3>1. \A u \in Sockets : group[u] = h => group'[u] = h /\ poller'[u] = poller[u] /\ todo'[u] = todo[u]
      BY <1>1, <1>2, <1>3, <2>3
    <3> QED  BY <1>2, <1>3, <2>1, <2>3, <3>1, TendedElsewhere
  <2> QED  BY <2>2, <2>3 DEF Tended
<1>5. CASE mMapSocket[g] = {}
  <2>1. UNCHANGED <<mMapSocket, mRuning, mThread, group>>
    BY <1>2, <1>3, <1>5
  <2>2. \A u \in Sockets : u # t => todo'[u] = todo[u]
    BY <1>2, <1>3
  <2>3. ~Tends(t)
    BY <1>1, <1>2, <1>5 DEF Tends
  <2> QED  BY <1>2, <2>1, <2>2, <2>3, TendedGoesOn
<1> QED  BY <1>4, <1>5

LEMMA TendedKept ==
    ASSUME Base, Tended, [Next]_vars
    PROVE  Tended'
BY Steps, TendedIdle, TendedAdd, TendedCloseNext, TendedRound, TendedLook, TendedCheck,
   TendedRun, TendedCloseSocket, TendedCloseIfEmpty, TendedClear

(* What is in a map is polled. *)
LEMMA TendedServes ==
    ASSUME Tended
    PROVE  Served
BY DEF Served, Tended, TendedAt, Tends, Polling

-----------------------------------------------------------------------------
(* The list and the cache.  First sequences that lose or gain an element.  *)
LEMMA OnceRemoved ==
    ASSUME NEW g \in Groups, NEW seq \in Seq(Groups), NEW i \in DOMAIN seq
    PROVE  /\ Once(g, seq) => Once(g, RemoveAt(seq, i))
           /\ In(g, RemoveAt(seq, i)) => In(g, seq)
           /\ In(g, seq) /\ seq[i] # g => In(g, RemoveAt(seq, i))
           /\ Once(g, seq) /\ seq[i] = g => ~In(g, RemoveAt(seq, i))
<1> DEFINE r == RemoveAt(seq, i)
<1>1. /\ r \in Seq(Groups) /\ Len(r) = Len(seq) - 1
      /\ \A j \in 1 .. Len(seq) - 1 : r[j] = IF j < i THEN seq[j] ELSE seq[j + 1]
  BY RemoveAtLeaves
<1> HIDE DEF r
<1>2. DOMAIN r = 1 .. Len(seq) - 1 /\ DOMAIN seq = 1 .. Len(seq) /\ Len(seq) \in Nat
  BY <1>1
<1> DEFINE was(j) == IF j < i THEN j ELSE j + 1
<1>3. \A j \in DOMAIN r : was(j) \in DOMAIN seq /\ r[j] = seq[was(j)] /\ was(j) # i
  BY <1>1, <1>2
<1>4. \A j, k \in DOMAIN r : was(j) = was(k) => j = k
  BY <1>2
<1>5. ASSUME NEW k \in DOMAIN seq, k # i
      PROVE  \E j \in DOMAIN r : was(j) = k
  <2>1. CASE k < i
    BY <1>2, <2>1
  <2>2. CASE k > i
    <3>1. k - 1 \in DOMAIN r /\ was(k - 1) = k
      BY <1>2, <2>2
    <3> QED  BY <3>1
  <2> QED  BY <1>2, <1>5, <2>1, <2>2
<1> HIDE DEF was
<1>6. Once(g, seq) => Once(g, r)
  BY <1>3, <1>4 DEF Once
<1>7. In(g, r) => In(g, seq)
  BY <1>3 DEF In
<1>8. In(g, seq) /\ seq[i] # g => In(g, r)
  BY <1>3, <1>5 DEF In
<1>9. Once(g, seq) /\ seq[i] = g => ~In(g, r)
  BY <1>3 DEF Once, In
<1> QED  BY <1>6, <1>7, <1>8, <1>9 DEF r

LEMMA OnceAppended ==
    ASSUME NEW g \in Groups, NEW h \in Groups, NEW seq \in Seq(Groups)
    PROVE  LET r == Append(seq, h)
           IN  /\ In(g, r) <=> In(g, seq) \/ g = h
               /\ Once(g, seq) /\ (g = h => ~In(g, seq)) => Once(g, r)
<1> DEFINE r == Append(seq, h)
<1>1. /\ DOMAIN r = 1 .. Len(seq) + 1 /\ DOMAIN seq = 1 .. Len(seq) /\ Len(seq) \in Nat
      /\ \A j \in DOMAIN seq : r[j] = seq[j]
      /\ r[Len(seq) + 1] = h
  OBVIOUS
<1> HIDE DEF r
<1>2. \A j \in DOMAIN r : j \in DOMAIN seq \/ j = Len(seq) + 1
  BY <1>1
<1>3. \A j \in DOMAIN seq : j \in DOMAIN r
  BY <1>1
<1>4. Len(seq) + 1 \in DOMAIN r
  BY <1>1
<1>5. In(g, r) <=> In(g, seq) \/ g = h
  BY <1>1, <1>2, <1>3, <1>4 DEF In
<1>6. Once(g, seq) /\ (g = h => ~In(g, seq)) => Once(g, r)
  BY <1>1, <1>2 DEF Once, In
<1> QED  BY <1>5, <1>6 DEF r

LEMMA OnceTail ==
    ASSUME NEW g \in Groups, NEW seq \in Seq(Groups), seq # <<>>
    PROVE  /\ Once(g, seq) => Once(g, Tail(seq))
           /\ In(g, Tail(seq)) => In(g, seq)
           /\ Once(g, seq) /\ Head(seq) = g => ~In(g, Tail(seq))
           /\ In(Head(seq), seq)
<1> DEFINE r == Tail(seq)
<1>1. /\ r \in Seq(Groups) /\ Len(r) = Len(seq) - 1 /\ Len(seq) \in Nat \ {0}
      /\ \A j \in 1 .. Len(r) : r[j] = seq[j + 1]
      /\ Head(seq) = seq[1]
  BY HeadTailProperties, EmptySeq
<1> HIDE DEF r
<1>2. \A j \in DOMAIN r : j \in Nat \ {0} /\ j + 1 \in DOMAIN seq /\ r[j] = seq[j + 1]
  BY <1>1
<1>3. 1 \in DOMAIN seq
  BY <1>1
<1>4. Once(g, seq) => Once(g, r)
  BY <1>2 DEF Once
<1>5. In(g, r) => In(g, seq)
  BY <1>2 DEF In
<1>6. Once(g, seq) /\ Head(seq) = g => ~In(g, r)
  BY <1>1, <1>2, <1>3 DEF Once, In
<1>7. In(Head(seq), seq)
  BY <1>1, <1>3 DEF In
<1> QED  BY <1>4, <1>5, <1>6, <1>7 DEF r

(* A poller that goes on is a poller still.                                *)
LEMMA PollersGoOn ==
    ASSUME Base, NEW t \in Sockets, poller[t] \in Polling, NEW to \in Polling \cup {"finish"},
           poller' = [poller EXCEPT ![t] = to], UNCHANGED group
    PROVE  \A g \in Groups : Pollers(g)' = Pollers(g)
BY DEF Pollers, Base, TypeOK, GroupTypeOK

LEMMA PlacedSame ==
    ASSUME Placed, \A g \in Groups : Pollers(g)' = Pollers(g), UNCHANGED <<mSocketGroups, raced>>,
           UNCHANGED mCacheSocketGroup \/ mCacheSocketGroup' = <<>>
    PROVE  Placed'
<1> SUFFICES ASSUME NEW g \in Groups, Quiet(g)'
             PROVE  PlacedAt(g)'
  BY DEF Placed
<1>1. PlacedAt(g)
  BY DEF Placed, Quiet
<1>2. DOMAIN <<>> = {}
  OBVIOUS
<1>3. Once(g, mCacheSocketGroup)' /\ (In(g, mCacheSocketGroup)' => In(g, mCacheSocketGroup))
  BY <1>1, <1>2 DEF PlacedAt, Once, In
<1> QED  BY <1>1, <1>3 DEF PlacedAt, Once, In

LEMMA PlacedPolls ==
    ASSUME Base, Placed,
           \/ UNCHANGED vars
           \/ \E s \in Sockets : Refuse(s)
           \/ Stop \/ Stopping
           \/ CloseNext
           \/ \E t \in Sockets : Poll(t) /\ UNCHANGED managerVars
           \/ \E s \in Sockets : Client(s)
    PROVE  Placed'
<1>1. /\ UNCHANGED <<mSocketGroups, raced>>
      /\ UNCHANGED mCacheSocketGroup \/ mCacheSocketGroup' = <<>>
      /\ UNCHANGED group
  BY DEF vars, groupVars, socketVars, pollerVars, managerVars, Refuse, Stop, Stopping, CloseNext, Close,
         Client, Send, Hangup, Received, Idle, Poll, Run, Round, Look, Check, CloseSocket, CloseIfEmpty, Clear
<1>2. CASE UNCHANGED poller
  <2>1. \A g \in Groups : Pollers(g)' = Pollers(g)
    BY <1>1, <1>2 DEF Pollers
  <2> QED  BY <1>1, <2>1, PlacedSame
<1>3. CASE \E t \in Sockets : Poll(t)
  <2>1. PICK t \in Sockets, to \in Polling \cup {"finish"} :
            poller[t] \in Polling /\ poller' = [poller EXCEPT ![t] = to]
    BY <1>3 DEF Poll, Run, Round, Look, Check, CloseSocket, CloseIfEmpty, Clear, PollerGoes, Polling
  <2>2. \A g \in Groups : Pollers(g)' = Pollers(g)
    BY <1>1, <2>1, PollersGoOn
  <2> QED  BY <1>1, <2>2, PlacedSame
<1> QED  BY <1>2, <1>3 DEF vars, groupVars, socketVars, pollerVars, Refuse, Stop, Stopping, CloseNext, Close,
            Client, Send, Hangup, Received, Idle

LEMMA PlacedAccept ==
    ASSUME Base, Placed, Used, NEW s \in Sockets, NEW g \in Groups, Accept(s, g)
    PROVE  Placed'
<1> SUFFICES ASSUME NEW h \in Groups, Quiet(h)'
             PROVE  PlacedAt(h)'
  BY DEF Placed
<1>1. Quiet(h) /\ PlacedAt(h) /\ Pollers(h)' = Pollers(h)
  BY DEF Placed, Quiet, Accept, groupVars, pollerVars, Pollers
<1>2. mSocketGroups \in Seq(Groups) /\ mCacheSocketGroup \in Seq(Groups)
  BY DEF Base, TypeOK
<1>3. CASE UNCHANGED <<mSocketGroups, mCacheSocketGroup>>
  BY <1>1, <1>3 DEF PlacedAt, Once, In
<1>4. CASE /\ mCacheSocketGroup # <<>> /\ g = Head(mCacheSocketGroup)
           /\ mCacheSocketGroup' = Tail(mCacheSocketGroup)
           /\ mSocketGroups' = Append(mSocketGroups, g)
  <2>1. /\ Once(h, mCacheSocketGroup') /\ (In(h, mCacheSocketGroup') => In(h, mCacheSocketGroup))
        /\ h = g => ~In(h, mCacheSocketGroup') /\ In(h, mCacheSocketGroup)
    BY <1>1, <1>2, <1>4, OnceTail DEF PlacedAt
  <2>2. /\ In(h, mSocketGroups') <=> In(h, mSocketGroups) \/ h = g
        /\ Once(h, mSocketGroups')
    BY <1>1, <1>2, <1>4, <2>1, OnceAppended DEF PlacedAt
  <2>3. \A t, u \in Pollers(h)' : t = u
    BY <1>1 DEF PlacedAt
  <2>4. Pollers(h)' # {} => In(h, mSocketGroups')
    BY <1>1, <2>2 DEF PlacedAt
  <2>5. ~(In(h, mSocketGroups') /\ In(h, mCacheSocketGroup'))
    BY <1>1, <2>1, <2>2 DEF PlacedAt
  <2> QED  BY <2>1, <2>2, <2>3, <2>4, <2>5 DEF PlacedAt, In, Once
<1>5. CASE g \in Fresh /\ mSocketGroups' = Append(mSocketGroups, g) /\ UNCHANGED mCacheSocketGroup
  <2>1. ~In(g, mSocketGroups) /\ ~In(g, mCacheSocketGroup)
    BY <1>5 DEF Fresh, Listed, In, Used
  <2>2. /\ In(h, mSocketGroups') <=> In(h, mSocketGroups) \/ h = g
        /\ Once(h, mSocketGroups')
    BY <1>1, <1>2, <1>5, <2>1, OnceAppended DEF PlacedAt
  <2> QED  BY <1>1, <1>5, <2>1, <2>2 DEF PlacedAt, In, Once
<1> QED  BY <1>3, <1>4, <1>5 DEF Accept, GetSocketGroup

LEMMA PlacedAdd ==
    ASSUME Base, Placed, Add
    PROVE  Placed'
<1>1. PICK s \in Sockets, g \in Groups :
          /\ announced[s] = "no" /\ AddSocket(g, s)
          /\ raced' = IF Listed(g, mSocketGroups) = {} \/ (Starts(g) /\ Pollers(g) # {})
                      THEN raced \cup {g} ELSE raced
          /\ UNCHANGED <<mSocketGroups, mCacheSocketGroup>>
  BY DEF Add, Base, Joining
<1>2. group[s] = None /\ poller[s] = "none"
  BY <1>1 DEF Base, Members
<1>3. /\ group' = [group EXCEPT ![s] = g]
      /\ \/ poller' = poller
         \/ Starts(g) /\ poller' = [poller EXCEPT ![s] = "new"]
  BY <1>1 DEF AddSocket
<1>4. /\ group \in [Sockets -> Groups \cup {None}]
      /\ poller \in [Sockets -> Polling \cup {"none", "finish", "done"}]
      /\ None \notin Groups
  BY GroupAssumption DEF Base, TypeOK, GroupTypeOK
<1> SUFFICES ASSUME NEW h \in Groups, Quiet(h)'
             PROVE  PlacedAt(h)'
  BY DEF Placed
<1>5. Quiet(h) /\ PlacedAt(h)
  BY <1>1 DEF Placed, Quiet
<1>6. \/ Pollers(h)' = Pollers(h)
      \/ h = g /\ Starts(g) /\ Pollers(h)' = Pollers(h) \cup {s}
  BY <1>2, <1>3, <1>4 DEF Pollers, Polling
<1>7. h = g => In(g, mSocketGroups) /\ (Starts(g) => Pollers(g) = {})
  BY <1>1 DEF Quiet, In, Listed
<1> QED  BY <1>1, <1>5, <1>6, <1>7 DEF PlacedAt, In, Once

LEMMA PlacedFinish ==
    ASSUME Base, Placed, NEW t \in Sockets, Finish(t)
    PROVE  Placed'
<1>1. PICK g \in Groups : g = group[t]
  BY PollersGroup DEF Finish, PollerGoes
<1>2. /\ poller[t] = "finish" /\ poller' = [poller EXCEPT ![t] = "done"]
      /\ mSocketGroups' = Unlisted(g) /\ mCacheSocketGroup' = Cached(g)
      /\ UNCHANGED <<group, raced>>
  BY <1>1 DEF Finish, PollerGoes, groupVars
<1>3. \A h \in Groups : Pollers(h)' = Pollers(h) \ {t}
  BY <1>2 DEF Pollers, Polling, Base, TypeOK, GroupTypeOK
<1>4. t \in Pollers(g)
  BY <1>1, <1>2 DEF Pollers
<1>5. mSocketGroups \in Seq(Groups) /\ mCacheSocketGroup \in Seq(Groups)
  BY DEF Base, TypeOK
<1> SUFFICES ASSUME NEW h \in Groups, Quiet(h)'
             PROVE  PlacedAt(h)'
  BY DEF Placed
<1>6. Quiet(h) /\ PlacedAt(h)
  BY <1>2 DEF Placed, Quiet
<1>7. /\ Once(h, mSocketGroups')
      /\ In(h, mSocketGroups') => In(h, mSocketGroups)
      /\ h # g /\ In(h, mSocketGroups) => In(h, mSocketGroups')
      /\ h = g => ~In(h, mSocketGroups')
  <2>1. CASE Listed(g, mSocketGroups) = {}
    BY <1>2, <1>6, <2>1 DEF Unlisted, PlacedAt, Listed, In
  <2>2. CASE Listed(g, mSocketGroups) # {}
    <3> DEFINE i == CHOOSE i \in Listed(g, mSocketGroups) : \A j \in Listed(g, mSocketGroups) : i <= j
    <3>1. i \in DOMAIN mSocketGroups /\ mSocketGroups[i] = g
      BY <1>5, <2>2, FirstListed
    <3>2. mSocketGroups' = RemoveAt(mSocketGroups, i)
      BY <1>2, <2>2 DEF Unlisted
    <3> HIDE DEF i
    <3> QED  BY <1>5, <1>6, <3>1, <3>2, OnceRemoved DEF PlacedAt
  <2> QED  BY <2>1, <2>2
<1>8. /\ Once(h, mCacheSocketGroup')
      /\ In(h, mCacheSocketGroup') => In(h, mCacheSocketGroup) \/ h = g
  <2>1. CASE mCacheSocketGroup' = mCacheSocketGroup
    BY <1>6, <2>1 DEF PlacedAt
  <2>2. CASE mCacheSocketGroup' = Append(mCacheSocketGroup, g)
    <3>1. h = g => ~In(h, mCacheSocketGroup)
      BY <1>4, <1>6 DEF PlacedAt
    <3> QED  BY <1>5, <1>6, <2>2, <3>1, OnceAppended DEF PlacedAt
  <2> QED  BY <1>2, <2>1, <2>2 DEF Cached
<1>9. h = g => Pollers(h)' = {}
  BY <1>3, <1>4, <1>6 DEF PlacedAt
<1> QED  BY <1>3, <1>6, <1>7, <1>8, <1>9 DEF PlacedAt, In, Once

LEMMA PlacedKept ==
    ASSUME Base, Placed, Used, [Next]_vars
    PROVE  Placed'
<1>1. CASE \E t \in Sockets : Finish(t)
  BY <1>1, PlacedFinish
<1> QED  BY <1>1, PlacedPolls, PlacedAccept, PlacedAdd DEF Next, Acceptor, Poller

LEMMA UsedKept ==
    ASSUME Base, Used, [Next]_vars
    PROVE  Used'
<1>1. \A s \in Sockets : group[s] # None => group'[s] = group[s]
  <2>1. CASE Add
    <3>1. PICK s \in Sockets, g \in Groups : announced[s] = "no" /\ AddSocket(g, s)
      BY <2>1 DEF Add, Base, Joining
    <3> QED  BY <3>1 DEF AddSocket, Base, Members, TypeOK, GroupTypeOK
  <2>2. CASE ~Add
    BY <2>2 DEF Next, Acceptor, Poller, vars, groupVars, Accept, Refuse, Stop, Stopping, CloseNext, Close,
       Finish, Client, Send, Hangup, Received, Idle, Poll, Run, Round, Look, Check, CloseSocket, CloseIfEmpty, Clear
  <2> QED  BY <2>1, <2>2
<1>2. ASSUME NEW g \in Groups, In(g, mCacheSocketGroup)'
      PROVE  In(g, mCacheSocketGroup) \/ \E s \in Sockets : group[s] = g
  <2>1. CASE UNCHANGED mCacheSocketGroup
    BY <1>2, <2>1 DEF In
  <2>2. CASE mCacheSocketGroup' = <<>>
    BY <1>2, <2>2 DEF In
  <2>3. CASE \E s \in Sockets, h \in Groups : Accept(s, h)
    <3>1. CASE mCacheSocketGroup # <<>> /\ mCacheSocketGroup' = Tail(mCacheSocketGroup)
      <4>1. In(g, Tail(mCacheSocketGroup))
        BY <1>2, <3>1 DEF In
      <4> QED  BY <3>1, <4>1, OnceTail DEF Base, TypeOK
    <3> QED  BY <2>1, <2>3, <3>1 DEF Accept, GetSocketGroup
  <2>4. CASE \E t \in Sockets : Finish(t)
    <3>1. PICK t \in Sockets : Finish(t)
      BY <2>4
    <3>2. group[t] \in Groups
      BY <3>1, PollersGroup DEF Finish, PollerGoes
    <3>3. CASE mCacheSocketGroup' = Append(mCacheSocketGroup, group[t])
      <4>1. In(g, Append(mCacheSocketGroup, group[t]))
        BY <1>2, <3>3 DEF In
      <4> QED  BY <3>2, <4>1, OnceAppended DEF Base, TypeOK
    <3> QED  BY <2>1, <3>1, <3>3 DEF Finish, Cached
  <2> QED  BY <2>1, <2>2, <2>3, <2>4 DEF Next, Acceptor, Poller, Client, vars, managerVars, Refuse, Add, Stop, Stopping, CloseNext
<1> QED  BY <1>1, <1>2, GroupAssumption DEF Used

-----------------------------------------------------------------------------
(* The maps.  A quiet group with sockets is listed; what is listed is      *)
(* asked for its room and its ports before a socket joins it.              *)
LEMMA MappedIsListed ==
    ASSUME Tended, Placed, NEW g \in Groups, Quiet(g), mMapSocket[g] # {}
    PROVE  In(g, mSocketGroups)
<1>1. PICK t \in Sockets : group[t] = g /\ poller[t] \in Polling
  BY TendedServes DEF Served
<1>2. t \in Pollers(g)
  BY <1>1 DEF Pollers
<1> QED  BY <1>2 DEF Placed, PlacedAt

LEMMA MapsFinite ==
    ASSUME Base, NEW g \in Groups
    PROVE  /\ IsFiniteSet(mMapSocket[g]) /\ Cardinality(mMapSocket[g]) \in Nat
           /\ \A m \in SUBSET mMapSocket[g] :
                  IsFiniteSet(m) /\ Cardinality(m) \in Nat /\ Cardinality(m) <= Cardinality(mMapSocket[g])
<1>1. mMapSocket[g] \in SUBSET Sockets
  BY DEF Base, TypeOK, GroupTypeOK
<1>2. IsFiniteSet(mMapSocket[g])
  BY <1>1, FS_Subset, GroupAssumption
<1> QED  BY <1>2, FS_Subset, FS_CardinalityType

LEMMA RoomedShrinks ==
    ASSUME Base, Roomed, UNCHANGED raced,
           \A g \in Groups : mMapSocket'[g] \subseteq mMapSocket[g],
           acceptor' = "add" => acceptor = "add" /\ pending' = pending
    PROVE  Roomed'
<1>1. mSize \in Nat
  BY GroupAssumption
<1>2. \A g \in Groups : /\ Cardinality(mMapSocket'[g]) \in Nat /\ Cardinality(mMapSocket[g]) \in Nat
                         /\ Cardinality(mMapSocket'[g]) <= Cardinality(mMapSocket[g])
  BY MapsFinite
<1>3. ASSUME NEW g \in Groups, Quiet(g)'
      PROVE  Cardinality(mMapSocket'[g]) <= mSize
  <2>1. Cardinality(mMapSocket[g]) <= mSize
    BY <1>3 DEF Roomed, Quiet
  <2> QED  BY <1>1, <1>2, <2>1
<1>4. ASSUME acceptor' = "add", Quiet(pending[2])'
      PROVE  /\ Cardinality(mMapSocket'[pending'[2]]) < mSize
             /\ SamePort(pending[2], pending[1])' = {}
  <2>1. PICK s \in Sockets, g \in Groups : pending = <<s, g>> /\ pending' = <<s, g>>
    BY <1>4 DEF Base, Joining
  <2>2. Quiet(g) /\ acceptor = "add"
    BY <1>4, <2>1 DEF Quiet
  <2>3. Cardinality(mMapSocket[g]) < mSize /\ SamePort(g, s) = {}
    BY <2>1, <2>2 DEF Roomed
  <2>4. Cardinality(mMapSocket'[g]) < mSize
    BY <1>1, <1>2, <2>3
  <2>5. SamePort(g, s)' = {}
    BY <2>3 DEF SamePort
  <2> QED  BY <2>1, <2>4, <2>5 DEF SamePort
<1> QED  BY <1>3, <1>4 DEF Roomed

LEMMA RoomedAccept ==
    ASSUME Base, Tended, Placed, Used, Roomed, NEW s \in Sockets, NEW g \in Groups, Accept(s, g)
    PROVE  Roomed'
<1>1. /\ acceptor' = "add" /\ pending' = <<s, g>> /\ UNCHANGED <<mMapSocket, raced>>
      /\ \A i \in DOMAIN mSocketGroups : ~hasSocket(mSocketGroups[i], s)
  BY DEF Accept, groupVars
<1>2. ASSUME Quiet(g)
      PROVE  Cardinality(mMapSocket[g]) < mSize /\ SamePort(g, s) = {}
  <2>1. CASE \E i \in Roomy : g = mSocketGroups[i]
    <3>1. PICK i \in DOMAIN mSocketGroups : g = mSocketGroups[i] /\ ~isFull(g)
      BY <2>1 DEF Roomy
    <3>2. SamePort(g, s) = {}
      BY <1>1, <3>1 DEF hasSocket
    <3>3. Cardinality(mMapSocket[g]) < mSize
      BY <3>1, MapsFinite, GroupAssumption DEF isFull
    <3> QED  BY <3>2, <3>3
  <2>2. CASE ~In(g, mSocketGroups)
    <3>1. mMapSocket[g] = {}
      BY <1>2, <2>2, MappedIsListed
    <3>2. Cardinality(mMapSocket[g]) = 0
      BY <3>1, FS_EmptySet
    <3> QED  BY <3>1, <3>2, GroupAssumption DEF SamePort
  <2>3. CASE mCacheSocketGroup # <<>> /\ g = Head(mCacheSocketGroup)
    <3>1. In(g, mCacheSocketGroup)
      BY <2>3, OnceTail DEF Base, TypeOK
    <3>2. ~In(g, mSocketGroups)
      BY <1>2, <3>1 DEF Placed, PlacedAt
    <3> QED  BY <2>2, <3>2
  <2>4. CASE g \in Fresh
    BY <2>2, <2>4 DEF Fresh, Listed, In
  <2> QED  BY <2>1, <2>3, <2>4 DEF Accept, GetSocketGroup
<1>3. /\ SamePort(g, s)' = SamePort(g, s) /\ (Quiet(g)' <=> Quiet(g))
      /\ \A h \in Groups : Quiet(h)' <=> Quiet(h)
  BY <1>1 DEF SamePort, Quiet
<1>4. \A h \in Groups : Quiet(h)' => Cardinality(mMapSocket'[h]) <= mSize
  BY <1>1, <1>3 DEF Roomed
<1>5. pending'[1] = s /\ pending'[2] = g
  BY <1>1
<1> QED  BY <1>1, <1>2, <1>3, <1>4, <1>5 DEF Roomed, SamePort, Quiet

LEMMA RoomedAdd ==
    ASSUME Base, Roomed, NoneLost, Add
    PROVE  Roomed' /\ NoneLost'
<1>1. PICK s \in Sockets, g \in Groups :
          /\ pending = <<s, g>> /\ announced[s] = "no" /\ AddSocket(g, s)
          /\ acceptor = "add" /\ acceptor' = "accept" /\ raced \subseteq raced'
  BY DEF Add, Base, Joining
<1>2. /\ group' = [group EXCEPT ![s] = g] /\ announced' = [announced EXCEPT ![s] = "created"]
      /\ mMapSocket' = [mMapSocket EXCEPT ![g] = (mMapSocket[g] \ SamePort(g, s)) \cup {s}]
  BY <1>1 DEF AddSocket, Announce, Base, TypeOK, GroupTypeOK
<1>3. /\ mMapSocket \in [Groups -> SUBSET Sockets] /\ group \in [Sockets -> Groups \cup {None}]
      /\ announced \in [Sockets -> {"no", "refused", "created", "closed"}]
  BY DEF Base, TypeOK, GroupTypeOK
<1>4. \A h \in Groups : Quiet(h)' => Quiet(h)
  BY <1>1 DEF Quiet
<1>5. Quiet(g) => Cardinality(mMapSocket[g]) < mSize /\ SamePort(g, s) = {}
  BY <1>1 DEF Roomed
<1>6. Roomed'
  <2>1. ASSUME Quiet(g) PROVE Cardinality(mMapSocket'[g]) <= mSize
    <3>1. mMapSocket'[g] = mMapSocket[g] \cup {s}
      BY <1>2, <1>3, <1>5, <2>1
    <3>2. Cardinality(mMapSocket'[g]) <= Cardinality(mMapSocket[g]) + 1
      BY <3>1, MapsFinite, FS_AddElement
    <3>3. Cardinality(mMapSocket[g]) \in Nat /\ Cardinality(mMapSocket'[g]) \in Nat
      BY <3>1, MapsFinite, FS_AddElement, FS_CardinalityType
    <3> QED  BY <1>5, <2>1, <3>2, <3>3, GroupAssumption
  <2>2. \A h \in Groups : h # g => mMapSocket'[h] = mMapSocket[h]
    BY <1>2, <1>3
  <2> QED  BY <1>1, <1>4, <2>1, <2>2 DEF Roomed
<1>7. NoneLost'
  <2> SUFFICES ASSUME NEW r \in Sockets, announced'[r] = "created", Quiet(group[r])'
               PROVE  r \in mMapSocket'[group'[r]]
    BY DEF NoneLost
  <2>1. CASE r = s
    BY <1>2, <1>3, <2>1
  <2>2. CASE r # s
    <3>1. announced[r] = "created" /\ group'[r] = group[r] /\ group[r] \in Groups
      BY <1>2, <1>3, <2>2, GroupAssumption DEF Base, Members
    <3>2. Quiet(group[r]) /\ (group[r] = g => Quiet(g))
      BY <1>1, <3>1 DEF Quiet
    <3>3. r \in mMapSocket[group[r]]
      BY <3>1, <3>2 DEF NoneLost
    <3> QED  BY <1>2, <1>3, <1>5, <3>1, <3>2, <3>3
  <2> QED  BY <2>1, <2>2
<1> QED  BY <1>6, <1>7

(* Only Add lets a map or the open sockets grow, and who leaves a map is   *)
(* announced.                                                              *)
LEMMA Shrinks ==
    ASSUME Base, [Next]_vars, ~Add
    PROVE  /\ UNCHANGED <<group, raced>> /\ open' \subseteq open
           /\ \A g \in Groups : mMapSocket'[g] \subseteq mMapSocket[g]
           /\ \A g \in Groups : \A s \in mMapSocket[g] : s \in mMapSocket'[g] \/ announced'[s] = "closed"
           /\ \A s \in Sockets : announced'[s] = "created" => announced[s] = "created"
<1>1. CASE UNCHANGED <<group, raced, mMapSocket, announced>> /\ open' \subseteq open
  BY <1>1
<1>2. CASE \E s \in Sockets : Refuse(s)
  BY <1>2 DEF Refuse, Waiting, Announce, Base, Members, TypeOK, GroupTypeOK, socketVars, managerVars
<1>3. ASSUME NEW g \in Groups, NEW m \in SUBSET mMapSocket[g],
             UNCHANGED <<group, raced>>, open' \subseteq open,
             mMapSocket' = [mMapSocket EXCEPT ![g] = mMapSocket[g] \ m],
             announced' = [s \in Sockets |-> IF s \in m THEN "closed" ELSE announced[s]]
      PROVE  /\ \A h \in Groups : mMapSocket'[h] \subseteq mMapSocket[h]
             /\ \A h \in Groups : \A s \in mMapSocket[h] : s \in mMapSocket'[h] \/ announced'[s] = "closed"
             /\ \A s \in Sockets : announced'[s] = "created" => announced[s] = "created"
  BY <1>3 DEF Base, TypeOK, GroupTypeOK
<1>4. CASE CloseNext
  <2>1. PICK g \in Groups : Close(g)
    BY <1>4 DEF CloseNext, Base, TypeOK
  <2>2. /\ UNCHANGED <<group, raced>> /\ open' \subseteq open
        /\ mMapSocket' = [mMapSocket EXCEPT ![g] = mMapSocket[g] \ mMapSocket[g]]
        /\ announced' = [s \in Sockets |-> IF s \in mMapSocket[g] THEN "closed" ELSE announced[s]]
    BY <1>4, <2>1 DEF CloseNext, Close, ClearSocket, Closing, Announce
  <2> QED  BY <1>3, <2>2
<1>5. CASE \E t \in Sockets : Clear(t) /\ UNCHANGED managerVars
  <2>1. PICK t \in Sockets : Clear(t) /\ UNCHANGED managerVars
    BY <1>5
  <2>2. PICK g \in Groups : g = group[t]
    BY <2>1, PollersGroup DEF Clear, PollerGoes
  <2>3. /\ UNCHANGED <<group, raced>> /\ open' \subseteq open
        /\ mMapSocket' = [mMapSocket EXCEPT ![g] = mMapSocket[g] \ mMapSocket[g]]
        /\ announced' = [s \in Sockets |-> IF s \in mMapSocket[g] THEN "closed" ELSE announced[s]]
    BY <2>1, <2>2 DEF Clear, ClearSocket, Closing, Announce, managerVars
  <2> QED  BY <1>3, <2>3
<1>6. CASE \E t, s \in Sockets : CloseSocket(t, s) /\ UNCHANGED managerVars
  <2>1. PICK t \in Sockets, s \in Sockets : CloseSocket(t, s) /\ UNCHANGED managerVars
    BY <1>6
  <2>2. PICK g \in Groups : g = group[t]
    BY <2>1, PollersGroup DEF CloseSocket, PollerGoes
  <2>3. PICK m \in SUBSET mMapSocket[g] : m = SamePort(g, s)
    BY DEF SamePort
  <2>4. /\ UNCHANGED <<group, raced>> /\ open' \subseteq open
        /\ mMapSocket' = [mMapSocket EXCEPT ![g] = mMapSocket[g] \ m]
        /\ announced' = [r \in Sockets |-> IF r \in m THEN "closed" ELSE announced[r]]
    BY <2>1, <2>2, <2>3 DEF CloseSocket, Announce, managerVars, socketVars
  <2> QED  BY <1>3, <2>4
<1> QED  BY <1>1, <1>2, <1>4, <1>5, <1>6, Steps
         DEF vars, groupVars, socketVars, managerVars, Accept, Stop, Stopping, Finish, Run, Round, Look,
             Check, CloseIfEmpty, Client, Send, Hangup, Received, Idle, Closing

LEMMA RoomedKept ==
    ASSUME Base, Tended, Placed, Used, Roomed, NoneLost, [Next]_vars
    PROVE  Roomed' /\ NoneLost'
<1>1. CASE Add
  BY <1>1, RoomedAdd
<1>2. CASE ~Add
  <2>1. /\ UNCHANGED <<group, raced>>
        /\ \A g \in Groups : mMapSocket'[g] \subseteq mMapSocket[g]
        /\ \A g \in Groups : \A s \in mMapSocket[g] : s \in mMapSocket'[g] \/ announced'[s] = "closed"
        /\ \A s \in Sockets : announced'[s] = "created" => announced[s] = "created"
    BY <1>2, Shrinks
  <2>2. \A s \in Sockets : announced[s] = "created" => group[s] \in Groups
    <3>1. \A s \in Sockets : announced[s] = "created" => group[s] # None
      BY DEF Base, Members
    <3>2. group \in [Sockets -> Groups \cup {None}]
      BY DEF Base, TypeOK, GroupTypeOK
    <3> QED  BY <3>1, <3>2
  <2>3. NoneLost'
    <3> SUFFICES ASSUME NEW s \in Sockets, announced'[s] = "created", Quiet(group[s])'
                 PROVE  s \in mMapSocket'[group'[s]]
      BY DEF NoneLost
    <3>1. PICK g \in Groups : g = group[s] /\ g = group'[s]
      BY <2>1, <2>2
    <3>2. announced[s] = "created" /\ Quiet(g)
      BY <2>1, <3>1 DEF Quiet
    <3> QED  BY <2>1, <3>1, <3>2 DEF NoneLost
  <2>4. CASE \E s \in Sockets, g \in Groups : Accept(s, g)
    BY <2>3, <2>4, RoomedAccept
  <2>5. CASE acceptor' = "add" => acceptor = "add" /\ pending' = pending
    BY <2>1, <2>3, <2>5, RoomedShrinks
  <2> QED  BY <1>2, <2>4, <2>5, Steps
           DEF vars, managerVars, Refuse, Stop, Stopping, CloseNext, Finish, Client
<1> QED  BY <1>1, <1>2

-----------------------------------------------------------------------------
(* One receiver per socket.  First the steps that touch no receiver and    *)
(* open no socket.                                                         *)
LEMMA ReceivedElsewhere ==
    ASSUME Received1, OneReceiver, UNCHANGED <<receivers, mDataLength, group, raced, at>>, open' \subseteq open,
           \A t \in Sockets : poller'[t] = "check" => poller[t] = "check"
    PROVE  Received1' /\ OneReceiver'
BY DEF Received1, OneReceiver, Quiet

LEMMA ReceivedIdle ==
    ASSUME Base, Received1, OneReceiver, [Next]_vars, ~Add,
           UNCHANGED <<receivers, mDataLength, at>>,
           \/ UNCHANGED poller
           \/ \E t \in Sockets, to \in Polling \cup {"finish", "done"} :
                  to # "check" /\ poller' = [poller EXCEPT ![t] = to]
    PROVE  Received1' /\ OneReceiver'
<1>1. UNCHANGED <<group, raced>> /\ open' \subseteq open
  BY Shrinks
<1>2. poller \in [Sockets -> Polling \cup {"none", "finish", "done"}]
  BY DEF Base, TypeOK, GroupTypeOK
<1>3. \A t \in Sockets : poller'[t] = "check" => poller[t] = "check"
  BY <1>2
<1> QED  BY <1>1, <1>3, ReceivedElsewhere

LEMMA ReceivedAdd ==
    ASSUME Base, Received1, OneReceiver, Add
    PROVE  Received1' /\ OneReceiver'
<1>1. PICK s \in Sockets, g \in Groups : announced[s] = "no" /\ AddSocket(g, s) /\ raced \subseteq raced'
  BY DEF Add, Base, Joining
<1>2. group[s] = None /\ receivers[s] = 0 /\ poller[s] = "none"
  BY <1>1 DEF Base, Members
<1>3. /\ group' = [group EXCEPT ![s] = g] /\ open' = open \cup {s}
      /\ poller' = poller \/ poller' = [poller EXCEPT ![s] = "new"]
      /\ UNCHANGED <<mDataLength, receivers, at>>
  BY <1>1 DEF AddSocket
<1>4. /\ group \in [Sockets -> Groups \cup {None}]
      /\ poller \in [Sockets -> Polling \cup {"none", "finish", "done"}]
  BY DEF Base, TypeOK, GroupTypeOK
<1>5. \A r \in Sockets : r # s => group'[r] = group[r]
  BY <1>3, <1>4
<1>6. \A t \in Sockets : poller'[t] = "check" => poller[t] = "check" /\ t # s
  BY <1>2, <1>3, <1>4
<1>7. Received1'
  BY <1>1, <1>2, <1>3, <1>5 DEF Received1, Quiet
<1>8. OneReceiver'
  BY <1>1, <1>3, <1>5, <1>6 DEF OneReceiver, Quiet
<1> QED  BY <1>7, <1>8

LEMMA ReceivedLook ==
    ASSUME Base, Received1, OneReceiver, NEW t \in Sockets, NEW s \in Sockets,
           Look(t, s), UNCHANGED managerVars
    PROVE  Received1' /\ OneReceiver'
<1>1. /\ s \in todo[t] /\ poller[t] = "round"
      /\ \/ poller' = poller /\ at' = at
         \/ s \in open \ mDataLength /\ poller' = [poller EXCEPT ![t] = "check"] /\ at' = [at EXCEPT ![t] = s]
      /\ UNCHANGED <<receivers, mDataLength, group, raced, open>>
  BY DEF Look, PollerGoes, groupVars, socketVars, managerVars, Base, TypeOK, GroupTypeOK
<1>2. PICK g \in Groups : g = group[t] /\ g = group[s]
  BY <1>1, PollersGroup DEF Base, Looks
<1>3. CASE poller' = poller /\ at' = at
  BY <1>1, <1>3, ReceivedElsewhere
<1>4. CASE s \in open \ mDataLength /\ poller' = [poller EXCEPT ![t] = "check"] /\ at' = [at EXCEPT ![t] = s]
  <2>1. Received1'
    BY <1>1 DEF Received1, Quiet
  <2>2. ASSUME Quiet(g) PROVE receivers[s] = 0
    <3>1. receivers[s] <= 1 /\ receivers[s] # 1
      BY <1>2, <1>4, <2>2, GroupAssumption DEF Received1
    <3>2. receivers[s] \in 0 .. mSize /\ mSize \in Nat
      BY GroupAssumption DEF Base, TypeOK, GroupTypeOK
    <3> QED  BY <3>1, <3>2
  <2>3. /\ poller \in [Sockets -> Polling \cup {"none", "finish", "done"}]
        /\ at \in [Sockets -> Sockets \cup {None}]
    BY DEF Base, TypeOK, GroupTypeOK
  <2>4. /\ at'[t] = s
        /\ \A u \in Sockets : u # t => poller'[u] = poller[u] /\ at'[u] = at[u]
    BY <1>4, <2>3
  <2>5. OneReceiver'
    BY <1>1, <1>2, <2>2, <2>4 DEF OneReceiver, Quiet
  <2> QED  BY <2>1, <2>5
<1> QED  BY <1>1, <1>3, <1>4

(* Another poller that looks at the same socket would be of the same group.*)
LEMMA ReceivedCheck ==
    ASSUME Base, Placed, Received1, OneReceiver, NEW t \in Sockets, Check(t), UNCHANGED managerVars
    PROVE  Received1' /\ OneReceiver'
<1>1. PICK s \in Sockets, g \in Groups :
          s = at[t] /\ g = group[t] /\ g = group[s] /\ poller[t] = "check"
  BY PollersGroup DEF Check, Base, Looks
<1>2. /\ UNCHANGED <<group, raced, open>> /\ at' = [at EXCEPT ![t] = None]
      /\ \/ poller' = [poller EXCEPT ![t] = "round"]
         \/ poller' = [poller EXCEPT ![t] = "clear"]
      /\ \/ mDataLength' = mDataLength \cup {s} /\ receivers' = [receivers EXCEPT ![s] = receivers[s] + 1]
         \/ mDataLength' = mDataLength \cup {s} /\ receivers' = receivers
         \/ mDataLength' = mDataLength \ {s} /\ receivers' = receivers
         \/ mDataLength' = mDataLength /\ receivers' = receivers
  BY <1>1 DEF Check, PollerGoes, groupVars, managerVars
<1>3. /\ poller \in [Sockets -> Polling \cup {"none", "finish", "done"}]
      /\ at \in [Sockets -> Sockets \cup {None}] /\ receivers \in [Sockets -> 0 .. mSize]
  BY DEF Base, TypeOK, GroupTypeOK
<1>4. \A r \in Sockets : r # s => receivers'[r] = receivers[r] /\ (r \in mDataLength' <=> r \in mDataLength)
  BY <1>2, <1>3
<1>5. ASSUME Quiet(g)
      PROVE  receivers'[s] \in {0, 1} /\ (receivers'[s] = 1 => s \in mDataLength')
  <2>1. receivers[s] = 0
    BY <1>1, <1>5 DEF OneReceiver
  <2> QED  BY <1>2, <1>3, <2>1
<1>6. Received1'
  BY <1>1, <1>2, <1>4, <1>5 DEF Received1, Quiet
<1>7. ASSUME NEW u \in Sockets, poller'[u] = "check", Quiet(group[u])'
      PROVE  receivers'[at'[u]] = 0
  <2>1. /\ u # t /\ poller[u] = "check" /\ at'[u] = at[u] /\ Quiet(group[u])
        /\ at[u] \in Sockets /\ group[at[u]] = group[u]
    BY <1>2, <1>3, <1>7 DEF Quiet, Base, Looks
  <2>2. at[u] # s
    <3> SUFFICES ASSUME at[u] = s PROVE FALSE
      OBVIOUS
    <3>1. t \in Pollers(g) /\ u \in Pollers(g) /\ Quiet(g)
      BY <1>1, <2>1 DEF Pollers, Polling
    <3> QED  BY <2>1, <3>1 DEF Placed, PlacedAt
  <2> QED  BY <1>4, <2>1, <2>2 DEF OneReceiver
<1> QED  BY <1>6, <1>7 DEF OneReceiver

LEMMA ReceivedClient ==
    ASSUME Base, Received1, OneReceiver, NEW s \in Sockets, Client(s)
    PROVE  Received1' /\ OneReceiver'
<1>1. /\ UNCHANGED <<group, raced, poller, at>> /\ open' \subseteq open
      /\ \/ UNCHANGED <<receivers, mDataLength>>
         \/ /\ receivers[s] > 0 /\ receivers' = [receivers EXCEPT ![s] = receivers[s] - 1]
            /\ mDataLength' = mDataLength \ {s}
  BY DEF Client, Received, Send, Hangup, Idle, Closing, groupVars, pollerVars, managerVars
<1>2. CASE UNCHANGED <<receivers, mDataLength>>
  BY <1>1, <1>2, ReceivedElsewhere
<1>3. CASE /\ receivers[s] > 0 /\ receivers' = [receivers EXCEPT ![s] = receivers[s] - 1]
           /\ mDataLength' = mDataLength \ {s}
  <2>1. receivers \in [Sockets -> 0 .. mSize] /\ mSize \in Nat
    BY GroupAssumption DEF Base, TypeOK, GroupTypeOK
  <2>2. /\ receivers'[s] = receivers[s] - 1
        /\ \A r \in Sockets : r # s => receivers'[r] = receivers[r] /\ (r \in mDataLength' <=> r \in mDataLength)
    BY <1>3, <2>1
  <2>3. group[s] # None /\ Quiet(group[s]) => receivers'[s] = 0
    BY <1>3, <2>1, <2>2 DEF Received1
  <2>4. Received1'
    BY <1>1, <2>2, <2>3 DEF Received1, Quiet
  <2>5. \A t \in Sockets : poller[t] = "check" /\ Quiet(group[t]) => at[t] # s
    BY <1>3 DEF OneReceiver
  <2>6. \A t \in Sockets : poller[t] = "check" => at[t] \in Sockets
    BY DEF Base, Looks
  <2>7. OneReceiver'
    BY <1>1, <2>2, <2>5, <2>6 DEF OneReceiver, Quiet
  <2> QED  BY <2>4, <2>7
<1> QED  BY <1>1, <1>2, <1>3

LEMMA ReceivedKept ==
    ASSUME Base, Placed, Received1, OneReceiver, [Next]_vars
    PROVE  Received1' /\ OneReceiver'
<1>1. CASE Add
  BY <1>1, ReceivedAdd
<1>2. CASE \E t, s \in Sockets : Look(t, s) /\ UNCHANGED managerVars
  BY <1>2, ReceivedLook
<1>3. CASE \E t \in Sockets : Check(t) /\ UNCHANGED managerVars
  BY <1>3, ReceivedCheck
<1>4. CASE \E s \in Sockets : Client(s)
  BY <1>4, ReceivedClient
<1>5. CASE /\ UNCHANGED <<receivers, mDataLength, at>> /\ ~Add
           /\ \/ UNCHANGED poller
              \/ \E t \in Sockets, to \in Polling \cup {"finish", "done"} :
                     to # "check" /\ poller' = [poller EXCEPT ![t] = to]
  BY <1>5, ReceivedIdle
<1>6. ASSUME ~Add, ~\E t, s \in Sockets : Look(t, s) /\ UNCHANGED managerVars,
             ~\E t \in Sockets : Check(t) /\ UNCHANGED managerVars, ~\E s \in Sockets : Client(s)
      PROVE  /\ UNCHANGED <<receivers, mDataLength, at>>
             /\ \/ UNCHANGED poller
                \/ \E t \in Sockets : PollerGoes(t, poller[t], "round") \/ PollerGoes(t, poller[t], "clear")
                       \/ PollerGoes(t, poller[t], "empty") \/ PollerGoes(t, poller[t], "finish")
                       \/ PollerGoes(t, poller[t], "done")
  BY <1>6, Steps DEF vars, groupVars, socketVars, pollerVars, Accept, Refuse, Stop, Stopping, CloseNext, Close,
     Finish, Run, Round, CloseSocket, CloseIfEmpty, Clear, PollerGoes
<1> QED  BY <1>1, <1>2, <1>3, <1>4, <1>5, <1>6 DEF PollerGoes, Polling

-----------------------------------------------------------------------------
(* What a poller has yet to look at.  A map loses sockets by the hand of   *)
(* its own poller, after the round, or of run(), which never adds again.   *)
LEMMA PresentGoesOn ==
    ASSUME NEW t \in Sockets, PresentAt(t), UNCHANGED group, raced \subseteq raced',
           mMapSocket'[group[t]] = mMapSocket[group[t]],
           acceptor \in {"closing", "done"} => acceptor' \in {"closing", "done"},
           poller'[t] \in {"round", "check"} =>
               \/ poller[t] \in {"round", "check"} /\ Ahead(t)' \subseteq Ahead(t)
               \/ Ahead(t)' \subseteq mMapSocket[group[t]]
    PROVE  PresentAt(t)'
BY DEF PresentAt, Quiet

LEMMA PresentOthers ==
    ASSUME Base, Present, NEW t \in Sockets, NEW to, UNCHANGED <<mMapSocket, group, raced, acceptor>>,
           poller' = [poller EXCEPT ![t] = to],
           \A u \in Sockets : u # t => todo'[u] = todo[u] /\ at'[u] = at[u],
           PresentAt(t)'
    PROVE  Present'
<1> SUFFICES ASSUME NEW u \in Sockets, u # t
             PROVE  PresentAt(u)'
  BY DEF Present
<1>1. poller'[u] = poller[u] /\ todo'[u] = todo[u] /\ at'[u] = at[u]
  BY DEF Base, TypeOK, GroupTypeOK
<1> QED  BY <1>1 DEF Present, PresentAt, Ahead, Quiet

LEMMA PresentIdle ==
    ASSUME Base, Present,
           \/ UNCHANGED vars
           \/ \E s \in Sockets, g \in Groups : Accept(s, g)
           \/ \E s \in Sockets : Refuse(s)
           \/ Stop \/ Stopping
           \/ \E t \in Sockets : Finish(t)
           \/ \E s \in Sockets : Client(s)
    PROVE  Present'
<1>1. /\ UNCHANGED <<mMapSocket, group, todo, at, raced>>
      /\ acceptor \in {"closing", "done"} => acceptor' \in {"closing", "done"}
  BY DEF vars, groupVars, socketVars, pollerVars, managerVars, Accept, Waiting, Refuse, Stop, Stopping, Finish,
         PollerGoes, Client, Send, Hangup, Received, Idle
<1>2. \A t \in Sockets : poller'[t] \in {"round", "check"} => poller'[t] = poller[t]
  BY DEF vars, pollerVars, managerVars, Accept, Refuse, Stop, Stopping, Finish, PollerGoes,
         Client, Send, Hangup, Received, Idle, Base, TypeOK, GroupTypeOK
<1> QED  BY <1>1, <1>2 DEF Present, PresentAt, Ahead, Quiet

LEMMA PresentAdd ==
    ASSUME Base, Roomed, Present, Add
    PROVE  Present'
<1>1. PICK s \in Sockets, g \in Groups :
          /\ pending = <<s, g>> /\ announced[s] = "no" /\ AddSocket(g, s)
          /\ acceptor = "add" /\ raced \subseteq raced'
  BY DEF Add, Base, Joining
<1>2. group[s] = None /\ poller[s] = "none"
  BY <1>1 DEF Base, Members
<1>3. /\ group' = [group EXCEPT ![s] = g]
      /\ mMapSocket' = [mMapSocket EXCEPT ![g] = (mMapSocket[g] \ SamePort(g, s)) \cup {s}]
      /\ poller' = poller \/ poller' = [poller EXCEPT ![s] = "new"]
      /\ UNCHANGED <<todo, at>>
  BY <1>1 DEF AddSocket
<1>4. /\ group \in [Sockets -> Groups \cup {None}] /\ mMapSocket \in [Groups -> SUBSET Sockets]
      /\ poller \in [Sockets -> Polling \cup {"none", "finish", "done"}]
  BY DEF Base, TypeOK, GroupTypeOK
<1> SUFFICES ASSUME NEW t \in Sockets, poller'[t] \in {"round", "check"}, Quiet(group[t])'
             PROVE  Ahead(t)' \subseteq mMapSocket'[group'[t]]
  BY DEF Present, PresentAt
<1>5. t # s /\ poller'[t] = poller[t] /\ group'[t] = group[t]
  BY <1>2, <1>3, <1>4
<1>6. PICK h \in Groups : h = group[t] /\ h = group'[t] /\ Quiet(h)
  BY <1>1, <1>5, PollersGroup DEF Quiet
<1>7. Ahead(t) \subseteq mMapSocket[h]
  BY <1>1, <1>5, <1>6 DEF Present, PresentAt
<1>8. Ahead(t)' = Ahead(t)
  BY <1>3, <1>5 DEF Ahead
<1>9. h = g => SamePort(g, s) = {}
  BY <1>1, <1>6 DEF Roomed
<1> QED  BY <1>3, <1>4, <1>6, <1>7, <1>8, <1>9

LEMMA PresentCloseNext ==
    ASSUME Base, Present, CloseNext
    PROVE  Present'
<1>1. PICK g \in Groups : Close(g)
  BY DEF CloseNext, Base, TypeOK
<1>2. /\ mMapSocket' = [mMapSocket EXCEPT ![g] = {}]
      /\ acceptor = "closing" /\ UNCHANGED <<acceptor, group, poller, todo, at, raced>>
  BY <1>1 DEF CloseNext, Close, ClearSocket, pollerVars
<1>3. mMapSocket \in [Groups -> SUBSET Sockets]
  BY DEF Base, TypeOK, GroupTypeOK
<1> SUFFICES ASSUME NEW t \in Sockets
             PROVE  PresentAt(t)'
  BY DEF Present
<1>4. poller[t] \in {"round", "check"} => group[t] \in Groups
  BY PollersGroup
<1> QED  BY <1>2, <1>3, <1>4 DEF Present, PresentAt, Ahead, Quiet

LEMMA PresentRound ==
    ASSUME Base, Present, NEW t \in Sockets, Round(t), UNCHANGED managerVars
    PROVE  Present'
<1>1. poller[t] = "round" /\ group[t] \in Groups
  BY PollersGroup DEF Round, PollerGoes
<1>2. /\ UNCHANGED <<mMapSocket, group, raced, acceptor, at>>
      /\ \/ poller' = [poller EXCEPT ![t] = "round"] /\ todo' = [todo EXCEPT ![t] = mMapSocket[group[t]]]
         \/ poller' = [poller EXCEPT ![t] = "clear"] /\ todo' = todo
  BY DEF Round, PollerGoes, groupVars, managerVars
<1>3. /\ poller \in [Sockets -> Polling \cup {"none", "finish", "done"}]
      /\ todo \in [Sockets -> SUBSET Sockets]
  BY DEF Base, TypeOK, GroupTypeOK
<1>4. poller'[t] \in {"round", "check"} => Ahead(t)' \subseteq mMapSocket[group[t]]
  BY <1>2, <1>3 DEF Ahead
<1>5. PresentAt(t)'
  BY <1>2, <1>4 DEF PresentAt
<1> QED  BY <1>2, <1>3, <1>5, PresentOthers

LEMMA PresentLook ==
    ASSUME Base, Present, NEW t \in Sockets, NEW s \in Sockets, Look(t, s), UNCHANGED managerVars
    PROVE  Present'
<1>1. /\ s \in todo[t] /\ poller[t] = "round"
      /\ todo' = [todo EXCEPT ![t] = todo[t] \ {s}]
      /\ \/ poller' = [poller EXCEPT ![t] = "round"] /\ at' = at
         \/ poller' = [poller EXCEPT ![t] = "check"] /\ at' = [at EXCEPT ![t] = s]
      /\ UNCHANGED <<mMapSocket, group, raced, acceptor>>
  BY DEF Look, PollerGoes, groupVars, managerVars
<1>2. /\ poller \in [Sockets -> Polling \cup {"none", "finish", "done"}]
      /\ todo \in [Sockets -> SUBSET Sockets] /\ at \in [Sockets -> Sockets \cup {None}]
  BY DEF Base, TypeOK, GroupTypeOK
<1>3. Ahead(t)' \subseteq Ahead(t)
  BY <1>1, <1>2 DEF Ahead
<1>4. PresentAt(t)'
  BY <1>1, <1>3 DEF Present, PresentAt, Quiet
<1> QED  BY <1>1, <1>2, <1>4, PresentOthers

LEMMA PresentCheck ==
    ASSUME Base, Present, NEW t \in Sockets, Check(t), UNCHANGED managerVars
    PROVE  Present'
<1>1. /\ poller[t] = "check" /\ at' = [at EXCEPT ![t] = None]
      /\ \/ poller' = [poller EXCEPT ![t] = "round"]
         \/ poller' = [poller EXCEPT ![t] = "clear"]
      /\ UNCHANGED <<mMapSocket, group, raced, acceptor, todo>>
  BY DEF Check, PollerGoes, groupVars, managerVars
<1>2. /\ poller \in [Sockets -> Polling \cup {"none", "finish", "done"}]
      /\ at \in [Sockets -> Sockets \cup {None}]
  BY DEF Base, TypeOK, GroupTypeOK
<1>3. Ahead(t)' \subseteq Ahead(t)
  BY <1>1, <1>2 DEF Ahead
<1>4. PresentAt(t)'
  BY <1>1, <1>3 DEF Present, PresentAt, Quiet
<1> QED  BY <1>1, <1>2, <1>4, PresentOthers

(* The steps of a poller that has looked at everything. *)
LEMMA PresentRest ==
    ASSUME Base, Present, NEW t \in Sockets, Run(t) \/ CloseIfEmpty(t), UNCHANGED managerVars
    PROVE  Present'
<1>1. /\ todo[t] = {} /\ poller' = [poller EXCEPT ![t] = "round"]
      /\ UNCHANGED <<mMapSocket, group, raced, acceptor, todo, at>>
  BY DEF Run, CloseIfEmpty, PollerGoes, managerVars, Base, Looks
<1>2. poller \in [Sockets -> Polling \cup {"none", "finish", "done"}]
  BY DEF Base, TypeOK, GroupTypeOK
<1>3. Ahead(t)' = {}
  BY <1>1, <1>2 DEF Ahead
<1>4. PresentAt(t)'
  BY <1>3 DEF PresentAt
<1> QED  BY <1>1, <1>4, PresentOthers

(* A quiet group has no other poller that this would surprise. *)
LEMMA PresentLeaves ==
    ASSUME Base, Placed, Present, NEW t \in Sockets, UNCHANGED managerVars,
           Clear(t) \/ \E s \in Sockets : CloseSocket(t, s)
    PROVE  Present'
<1>1. PICK g \in Groups : g = group[t]
  BY PollersGroup DEF Clear, CloseSocket, PollerGoes
<1>2. /\ poller[t] \in {"round", "clear"} /\ UNCHANGED <<group, raced, acceptor, at>>
      /\ \/ poller' = [poller EXCEPT ![t] = "finish"]
         \/ poller' = [poller EXCEPT ![t] = "empty"]
      /\ todo' = todo \/ todo' = [todo EXCEPT ![t] = {}]
      /\ \A h \in Groups : h # g => mMapSocket'[h] = mMapSocket[h]
  BY <1>1 DEF Clear, ClearSocket, CloseSocket, PollerGoes, managerVars, Base, TypeOK, GroupTypeOK
<1>3. /\ poller \in [Sockets -> Polling \cup {"none", "finish", "done"}]
      /\ todo \in [Sockets -> SUBSET Sockets]
  BY DEF Base, TypeOK, GroupTypeOK
<1>4. poller'[t] \notin {"round", "check"}
  BY <1>2, <1>3
<1> SUFFICES ASSUME NEW u \in Sockets, poller'[u] \in {"round", "check"}, Quiet(group[u])'
             PROVE  PresentAt(u)'
  BY DEF Present, PresentAt
<1>5. u # t /\ poller'[u] = poller[u] /\ todo'[u] = todo[u] /\ Quiet(group[u])
  BY <1>2, <1>3, <1>4 DEF Quiet
<1>6. PICK h \in Groups : h = group[u]
  BY <1>5, PollersGroup
<1>7. h # g
  <2> SUFFICES ASSUME h = g PROVE FALSE
    OBVIOUS
  <2>1. t \in Pollers(g) /\ u \in Pollers(g) /\ Quiet(g)
    BY <1>1, <1>2, <1>5, <1>6 DEF Pollers, Polling
  <2> QED  BY <1>5, <2>1 DEF Placed, PlacedAt
<1>8. Ahead(u)' = Ahead(u)
  BY <1>2, <1>5 DEF Ahead
<1> QED  BY <1>2, <1>5, <1>6, <1>7, <1>8 DEF Present, PresentAt, Quiet

LEMMA PresentKept ==
    ASSUME Base, Placed, Roomed, Present, [Next]_vars
    PROVE  Present'
BY Steps, PresentIdle, PresentAdd, PresentCloseNext, PresentRound, PresentLook, PresentCheck,
   PresentRest, PresentLeaves

-----------------------------------------------------------------------------
(* What the invariant says of numbers.  A group that is in a sequence once *)
(* is listed once.                                                         *)
LEMMA OnceCounts ==
    ASSUME NEW g \in Groups, NEW seq, Once(g, seq)
    PROVE  Cardinality(Listed(g, seq)) = IF In(g, seq) THEN 1 ELSE 0
<1>1. CASE In(g, seq)
  <2>1. PICK i \in DOMAIN seq : seq[i] = g
    BY <1>1 DEF In
  <2>2. Listed(g, seq) = {i}
    BY <2>1 DEF Once, Listed
  <2>3. Cardinality({i}) = 1
    BY FS_Singleton, Zenon
  <2> QED  BY <1>1, <2>2, <2>3
<1>2. CASE ~In(g, seq)
  <2>1. Listed(g, seq) = {}
    BY <1>2 DEF In, Listed
  <2> QED  BY <1>2, <2>1, FS_EmptySet
<1> QED  BY <1>1, <1>2

LEMMA PlacedLists ==
    ASSUME Tended, Placed
    PROVE  ListedOnce
<1> SUFFICES ASSUME NEW g \in Groups, Quiet(g)
             PROVE  /\ Cardinality(Listed(g, mSocketGroups)) + Cardinality(Listed(g, mCacheSocketGroup)) <= 1
                    /\ mMapSocket[g] # {} => Listed(g, mSocketGroups) # {}
  BY DEF ListedOnce
<1>1. PlacedAt(g)
  BY DEF Placed
<1>2. Cardinality(Listed(g, mSocketGroups)) + Cardinality(Listed(g, mCacheSocketGroup)) <= 1
  BY <1>1, OnceCounts DEF PlacedAt
<1>3. mMapSocket[g] # {} => Listed(g, mSocketGroups) # {}
  BY MappedIsListed DEF In, Listed
<1> QED  BY <1>2, <1>3

(* The receivers of a quiet group are of different sockets.  If all of them*)
(* are in the map, so is the socket that is looked at, which has none: they*)
(* are fewer than the sockets, which are no more than the threads.         *)
LEMMA FewerReceivers ==
    ASSUME Base, Roomed, Received1, OneReceiver, Present,
           NEW t \in Sockets, NEW g \in Groups, g = group[t], poller[t] = "check", Quiet(g),
           \A s \in Sockets : group[s] = g /\ receivers[s] > 0 => s \in mMapSocket[g],
           \A s \in Sockets : group[s] = g => ~(returning[s] > 0)
    PROVE  Busy(g) < mSize
<1> DEFINE B == {r \in Sockets \X (1 .. mSize) : group[r[1]] = g /\ r[2] <= receivers[r[1]] + returning[r[1]]}
           m == mMapSocket[g] \ {at[t]}
           f == [r \in B |-> r[1]]
<1>1. mSize \in Nat \ {0} /\ receivers \in [Sockets -> 0 .. mSize] /\ None \notin Groups
      /\ returning \in [Sockets -> 0 .. mSize]
  BY GroupAssumption DEF Base, TypeOK, GroupTypeOK
<1>2. at[t] \in Sockets /\ receivers[at[t]] = 0
  BY DEF Base, Looks, OneReceiver
<1>3. ASSUME NEW r \in B
      PROVE  r[1] \in m /\ r[2] = 1 /\ r = <<r[1], r[2]>>
  <2>1. r[1] \in Sockets /\ r[2] \in 1 .. mSize /\ r = <<r[1], r[2]>> /\ group[r[1]] = g
        /\ r[2] <= receivers[r[1]] + returning[r[1]]
    OBVIOUS
  <2>2. receivers[r[1]] <= 1
    BY <1>1, <2>1 DEF Received1
  <2>3. receivers[r[1]] \in 0 .. mSize /\ returning[r[1]] = 0
    BY <1>1, <2>1
  <2>4. r[2] = 1 /\ receivers[r[1]] > 0
    BY <1>1, <2>1, <2>2, <2>3
  <2> QED  BY <1>2, <2>1, <2>4
<1>4. IsFiniteSet(m) /\ IsFiniteSet(mMapSocket[g]) /\ Cardinality(mMapSocket[g]) \in Nat
      /\ Cardinality(mMapSocket[g]) <= mSize
  BY MapsFinite, FS_RemoveElement DEF Roomed
<1>5. f \in Injection(B, m)
  BY <1>3 DEF Injection, IsInjective
<1>6. Cardinality(B) <= Cardinality(m) /\ IsFiniteSet(B)
  BY <1>4, <1>5, FS_Injection
<1>7. Cardinality(B) \in Nat /\ Cardinality(m) \in Nat
  BY <1>4, <1>6, FS_CardinalityType
<1>8. Busy(g) = Cardinality(B)
  BY DEF Busy
<1> HIDE DEF f
<1>9. CASE mMapSocket[g] = {}
  <2>1. B = {}
    BY <1>3, <1>9
  <2>2. Cardinality(B) = 0
    BY <2>1, FS_EmptySet
  <2> QED  BY <1>1, <1>8, <2>2
<1>10. CASE mMapSocket[g] # {}
  <2>1. at[t] \in mMapSocket[g]
    BY <1>10 DEF Present, PresentAt, Ahead
  <2>2. Cardinality(m) = Cardinality(mMapSocket[g]) - 1
    BY <1>4, <2>1, FS_RemoveElement
  <2> HIDE DEF B, m
  <2> QED  BY <1>1, <1>4, <1>6, <1>7, <1>8, <2>2
<1> QED  BY <1>9, <1>10

LEMMA PoolHasRoom ==
    ASSUME IInv
    PROVE  PoolSuffices
<1> SUFFICES ASSUME NEW t \in Sockets, poller[t] = "check", Quiet(group[t]),
                    ~\E s \in Sockets : group[s] = group[t] /\ s \notin mMapSocket[group[t]] /\ receivers[s] > 0,
                    ~\E s \in Sockets : group[s] = group[t] /\ returning[s] > 0
             PROVE  Busy(group[t]) < mSize
  BY DEF PoolSuffices
<1>1. Base
  BY DEF IInv, Base
<1>2. group[t] \in Groups
  BY <1>1, PollersGroup
<1> QED  BY <1>1, <1>2, FewerReceivers DEF IInv

-----------------------------------------------------------------------------
LEMMA InitInv ==
    ASSUME Init
    PROVE  IInv
<1>1. Base
  BY BaseInit
<1>2. Tended
  BY DEF Init, GroupInit, Tended, TendedAt, Starts
<1>3. \A g \in Groups : Pollers(g) = {}
  BY DEF Init, GroupInit, Pollers, Polling
<1>4. DOMAIN <<>> = {}
  OBVIOUS
<1>5. Placed /\ Used
  BY <1>3, <1>4 DEF Init, Placed, PlacedAt, Used, Once, In
<1>6. Cardinality({}) = 0 /\ mSize \in Nat \ {0}
  BY FS_EmptySet, GroupAssumption
<1>7. Roomed
  BY <1>6 DEF Init, GroupInit, Roomed
<1>8. NoneLost /\ Received1 /\ OneReceiver /\ Present
  BY DEF Init, GroupInit, NoneLost, Received1, OneReceiver, Present, PresentAt
<1> QED  BY <1>1, <1>2, <1>5, <1>7, <1>8 DEF IInv, Base

LEMMA StepInv ==
    ASSUME IInv, [Next]_vars
    PROVE  IInv'
<1>1. Base /\ Tended /\ Placed /\ Used /\ Roomed /\ NoneLost /\ Received1 /\ OneReceiver /\ Present
  BY DEF IInv, Base
<1>2. Base' /\ Tended' /\ Placed' /\ Used'
  BY <1>1, BaseKept, TendedKept, PlacedKept, UsedKept
<1>3. Roomed' /\ NoneLost'
  BY <1>1, RoomedKept
<1>4. Received1' /\ OneReceiver' /\ Present'
  BY <1>1, ReceivedKept, PresentKept
<1> QED  BY <1>2, <1>3, <1>4 DEF IInv, Base

LEMMA Invariance == Spec => []IInv
<1> QED  BY InitInv, StepInv, PTL DEF Spec

-----------------------------------------------------------------------------
(* The state keeps its type: no sequence of additions, reuses and closings *)
(* leaves the cache above its limit or a socket with more receivers than   *)
(* the pool has threads.                                                   *)
THEOREM Typing == Spec => []TypeOK
<1>1. IInv => TypeOK
  BY DEF IInv
<1> QED  BY <1>1, Invariance, PTL

(* Every group with sockets has a poller that looks at them or closes them,*)
(* the groups that were joined while they ended included.                  *)
THEOREM AllServed == Spec => []Served
<1>1. IInv => Served
  BY TendedServes DEF IInv
<1> QED  BY <1>1, Invariance, PTL

(* A quiet group is at one place of the list and the cache, and in the list*)
(* while it has sockets.                                                   *)
THEOREM InOnePlace == Spec => []ListedOnce
<1>1. IInv => ListedOnce
  BY PlacedLists DEF IInv
<1> QED  BY <1>1, Invariance, PTL

(* No request of a socket of a quiet group is looked for while one is      *)
(* handled.                                                                *)
THEOREM OneAtATime == Spec => []OneReceiver
<1>1. IInv => OneReceiver
  BY DEF IInv
<1> QED  BY <1>1, Invariance, PTL

(* A quiet group forgets no socket without telling the listener.           *)
THEOREM NoSessionLost == Spec => []NoneLost
<1>1. IInv => NoneLost
  BY DEF IInv
<1> QED  BY <1>1, Invariance, PTL

(* The pool of a quiet group has a thread for each request, but for those  *)
(* that sockets which have left still use, and those of receivers that     *)
(* have reset the data length and are not back in the pool.                *)
THEOREM PoolIsEnough == Spec => []PoolSuffices
<1>1. IInv => PoolSuffices
  BY PoolHasRoom
<1> QED  BY <1>1, Invariance, PTL
-----------------------------------------------------------------------------
(* A client is known to its group by the number of its port.               *)
OnePerPort == \A g \in Groups : \A s, t \in mMapSocket[g] : Port[s] = Port[t] => s = t

(* Whoever leaves a map, leaves the ports of the others distinct. *)
LEMMA FewerPorts ==
    ASSUME OnePerPort, \A g \in Groups : mMapSocket'[g] \subseteq mMapSocket[g]
    PROVE  OnePerPort'
BY DEF OnePerPort

LEMMA PortsStep ==
    ASSUME TypeOK, Joining, OnePerPort, [Next]_vars
    PROVE  OnePerPort'
<1> USE DEF TypeOK, GroupTypeOK
<1>1. ASSUME UNCHANGED mMapSocket PROVE OnePerPort'
  BY <1>1, FewerPorts
<1>2. ASSUME NEW g \in Groups, ClearSocket(g) PROVE OnePerPort'
  BY <1>2, FewerPorts DEF ClearSocket
<1>3. CASE Add
  <2> DEFINE s == pending[1]
             g == pending[2]
  <2>1. g \in Groups /\ s \in Sockets
    BY <1>3 DEF Add, Joining
  <2>2. mMapSocket' = [mMapSocket EXCEPT ![g] = (@ \ SamePort(g, s)) \cup {s}]
    BY <1>3 DEF Add, AddSocket
  <2>3. \A t \in mMapSocket[g] \ SamePort(g, s) : Port[t] # Port[s]
    BY DEF SamePort
  <2> HIDE DEF s, g
  <2> QED  BY <2>1, <2>2, <2>3 DEF OnePerPort
<1>4. CASE Acceptor
  <2>1. CASE \E s \in Sockets : Refuse(s) \/ \E g \in Groups : Accept(s, g)
    BY <1>1, <2>1 DEF Refuse, Accept, groupVars
  <2>2. CASE Stop \/ Stopping
    BY <1>1, <2>2 DEF Stop, Stopping, groupVars
  <2>3. CASE CloseNext
    <3>1. mSocketGroups[walk + 1] \in Groups
      BY <2>3 DEF CloseNext
    <3> QED  BY <1>2, <2>3, <3>1 DEF CloseNext, Close
  <2> QED  BY <1>3, <1>4, <2>1, <2>2, <2>3 DEF Acceptor
<1>5. ASSUME NEW t \in Sockets, Poller(t) PROVE OnePerPort'
  <2>1. CASE Finish(t)
    BY <1>1, <2>1 DEF Finish, groupVars
  <2>2. CASE Run(t) \/ Round(t) \/ Check(t) \/ CloseIfEmpty(t)
    BY <1>1, <2>2 DEF Run, Round, Check, CloseIfEmpty, groupVars
  <2>3. ASSUME NEW s \in Sockets, Look(t, s) PROVE OnePerPort'
    BY <1>1, <2>3 DEF Look, groupVars
  <2>4. ASSUME NEW s \in Sockets, CloseSocket(t, s) PROVE OnePerPort'
    BY <2>4, FewerPorts DEF CloseSocket
  <2>5. CASE Clear(t)
    BY <2>5, FewerPorts DEF Clear, ClearSocket
  <2> QED  BY <1>5, <2>1, <2>2, <2>3, <2>4, <2>5 DEF Poller, Poll
<1>6. ASSUME NEW s \in Sockets, Client(s) PROVE OnePerPort'
  BY <1>1, <1>6 DEF Client, Send, Hangup, Received, Idle, groupVars
<1>7. CASE UNCHANGED vars
  BY <1>1, <1>7 DEF vars, groupVars
<1> QED  BY <1>4, <1>5, <1>6, <1>7 DEF Next

(* No two sockets of a group have one port, raced or not; and a quiet group*)
(* never holds more sockets than it has threads, though the accepting      *)
(* thread asks for room and for the port before it adds                    *)
(* (SocketGroupManager:35-37, SocketGroup:51-63, 96-98).                   *)
THEOREM GroupsKeepTheirLimits ==
    Spec => [](OnePerPort /\ \A g \in Groups : Quiet(g) => Cardinality(mMapSocket[g]) <= mSize)
<1>1. Init => OnePerPort
  BY DEF Init, GroupInit, OnePerPort
<1>2. IInv /\ OnePerPort /\ [Next]_vars => OnePerPort'
  BY PortsStep DEF IInv
<1>3. IInv => \A g \in Groups : Quiet(g) => Cardinality(mMapSocket[g]) <= mSize
  BY DEF IInv, Roomed
<1> QED  BY <1>1, <1>2, <1>3, Invariance, PTL DEF Spec
=============================================================================
