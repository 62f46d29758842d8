----------------------------- MODULE MapKeyLock -----------------------------
(* Pulls of remote sources that share a MapKeyLock.  A pull first asks the *)
(* lock of its token (ifWait), then looks the source up or connects to the *)
(* remote server, and in a finally block removes the entry of the token    *)
(* and wakes the pulls on its list (removeNotify).  ifWait changes the map *)
(* and the list inside synchronized(this); removeNotify takes no monitor.  *)
(* A list is named by the call that created it: a call creates at most one.*)
EXTENDS Integers, Sequences

CONSTANTS
    Calls,     \* calls of getRtspSourceByPull
    Tokens,    \* keys of the lock and of the source table
    Token,     \* the token of a call, [Calls -> Tokens]
    None

ASSUME CallAssumption == Token \in [Calls -> Tokens] /\ None \notin Calls

VARIABLES
    mMapLock,    \* the list under a token
    locks,       \* the calls whose lock object is on a list
    holder,      \* the call inside synchronized(this) of ifWait
    pc,          \* where a call is
    taken,       \* the list a call got: in ifWait to add to, in removeNotify to wake
    cursor,      \* of the iterator of removeNotify
    expected,    \* size of the list when the iterator was made
    source,      \* the tokens under which a source is listed
    raced        \* history: calls whose wake-up is lost to a race

vars == <<mMapLock, locks, holder, pc, taken, cursor, expected, source, raced>>
iterator == <<cursor, expected>>

Holding == {"add", "enlisted", "sleeping", "work", "connecting", "leave"}
Steps == Holding \cup {"new", "join", "own", "notify", "returned", "thrown"}

TypeOK ==
    /\ mMapLock \in [Tokens -> Calls \cup {None}]
    /\ locks \in [Calls -> Seq(Calls)]
    /\ holder \in Calls \cup {None}
    /\ pc \in [Calls -> Steps]
    /\ taken \in [Calls -> Calls \cup {None}]
    /\ \A c \in Calls : pc[c] \in {"add", "notify"} => taken[c] \in Calls
    /\ cursor \in [Calls -> Nat] /\ expected \in [Calls -> Nat]
    /\ source \subseteq Tokens
    /\ raced \subseteq Calls

Init ==
    /\ mMapLock = [k \in Tokens |-> None]
    /\ locks = [c \in Calls |-> <<>>]
    /\ holder = None
    /\ pc = [c \in Calls |-> "new"]
    /\ taken = [c \in Calls |-> None]
    /\ cursor = [c \in Calls |-> 0] /\ expected = [c \in Calls |-> 0]
    /\ source = {}
    /\ raced = {}

Goes(c, from, to) == pc[c] = from /\ pc' = [pc EXCEPT ![c] = to]
Entry(c) == mMapLock[Token[c]]

-----------------------------------------------------------------------------
(* ifWait: containsKey, outside of the monitor. *)
Ask(c) ==
    /\ Goes(c, "new", IF Entry(c) = None THEN "own" ELSE "join")
    /\ UNCHANGED <<mMapLock, locks, holder, taken, iterator, source, raced>>

(* Nobody had the token: an empty list is put, unless there is one now.    *)
(* The call goes on in either case.                                        *)
Own(c) ==
    /\ holder = None
    /\ Goes(c, "own", "work")
    /\ mMapLock' = [mMapLock EXCEPT ![Token[c]] = IF @ = None THEN c ELSE @]
    /\ UNCHANGED <<locks, holder, taken, iterator, source, raced>>

(* Mutant: a new list replaces the one that is there. *)
Fetch_Replaces(c) ==
    /\ holder = None
    /\ holder' = c
    /\ Goes(c, "join", "add")
    /\ mMapLock' = [mMapLock EXCEPT ![Token[c]] = c]
    /\ taken' = [taken EXCEPT ![c] = c]
    /\ UNCHANGED <<locks, iterator, source, raced>>

(* Somebody had the token: its list is fetched, or created if it is gone...*)
Fetch(c) ==
    /\ holder = None
    /\ holder' = c
    /\ Goes(c, "join", "add")
    /\ LET list == IF Entry(c) = None THEN c ELSE Entry(c)
       IN  /\ mMapLock' = [mMapLock EXCEPT ![Token[c]] = list]
           /\ taken' = [taken EXCEPT ![c] = list]
    /\ UNCHANGED <<locks, iterator, source, raced>>

(* ... and the lock object is added, also if removeNotify took the list    *)
(* away in between.                                                        *)
Add(c) ==
    /\ Goes(c, "add", "enlisted")
    /\ holder' = None
    /\ locks' = [locks EXCEPT ![taken[c]] = Append(@, c)]
    /\ raced' = IF Entry(c) = taken[c] THEN raced ELSE raced \cup {c}
    /\ UNCHANGED <<mMapLock, taken, iterator, source>>

(* lock.wait(20000), outside of the monitor. *)
Sleep(c) ==
    /\ Goes(c, "enlisted", "sleeping")
    /\ UNCHANGED <<mMapLock, locks, holder, taken, iterator, source, raced>>

(* Mutant: wait() without a limit. *)
Timeout_Never(c) == FALSE /\ UNCHANGED vars

Timeout(c) ==
    /\ Goes(c, "sleeping", "work")
    /\ UNCHANGED <<mMapLock, locks, holder, taken, iterator, source, raced>>

(* The source is listed already, or the call connects to the remote server.*)
LookUp(c) ==
    /\ Goes(c, "work", IF Token[c] \in source THEN "leave" ELSE "connecting")
    /\ UNCHANGED <<mMapLock, locks, holder, taken, iterator, source, raced>>

(* The remote server refuses, or the source is pulled and listed (refused  *)
(* if another call has listed one).                                        *)
Connect(c) ==
    /\ Goes(c, "connecting", "leave")
    /\ source' \in {source, source \cup {Token[c]}}
    /\ UNCHANGED <<mMapLock, locks, holder, taken, iterator, raced>>

(* Mutants: the entry is read and not removed; a missing entry is walked. *)
Leave_Keeps(c) ==
    /\ Goes(c, "leave", IF Entry(c) = None THEN "returned" ELSE "notify")
    /\ taken' = [taken EXCEPT ![c] = Entry(c)]
    /\ cursor' = [cursor EXCEPT ![c] = 0]
    /\ expected' = [expected EXCEPT ![c] = IF Entry(c) = None THEN 0 ELSE Len(locks[Entry(c)])]
    /\ UNCHANGED <<mMapLock, locks, holder, source, raced>>

Leave_NullUnchecked(c) ==
    /\ Goes(c, "leave", "notify")
    /\ taken' = [taken EXCEPT ![c] = Entry(c)]
    /\ mMapLock' = [mMapLock EXCEPT ![Token[c]] = None]
    /\ UNCHANGED <<locks, holder, iterator, source, raced>>

(* removeNotify, whoever put the entry: it is removed, then walked.        *)
Leave(c) ==
    /\ Goes(c, "leave", IF Entry(c) = None THEN "returned" ELSE "notify")
    /\ taken' = [taken EXCEPT ![c] = Entry(c)]
    /\ mMapLock' = [mMapLock EXCEPT ![Token[c]] = None]
    /\ cursor' = [cursor EXCEPT ![c] = 0]
    /\ expected' = [expected EXCEPT ![c] = IF Entry(c) = None THEN 0 ELSE Len(locks[Entry(c)])]
    /\ UNCHANGED <<locks, holder, source, raced>>

Walked(c) == locks[taken[c]]
Waiter(c) == Walked(c)[cursor[c] + 1]

(* The next lock is notified; its call may not be waiting on it yet.       *)
Notify(c) ==
    /\ pc[c] = "notify"
    /\ cursor[c] # Len(Walked(c)) /\ expected[c] = Len(Walked(c))
    /\ cursor' = [cursor EXCEPT ![c] = @ + 1]
    /\ IF pc[Waiter(c)] = "sleeping"
       THEN pc' = [pc EXCEPT ![Waiter(c)] = "work"] /\ UNCHANGED raced
       ELSE raced' = raced \cup {Waiter(c)} /\ UNCHANGED pc
    /\ UNCHANGED <<mMapLock, locks, holder, taken, expected, source>>

(* A lock was added meanwhile: the iterator throws, out of the finally     *)
(* block, and the rest of the list is not woken.                           *)
Throw(c) ==
    /\ cursor[c] # Len(Walked(c)) /\ expected[c] # Len(Walked(c))
    /\ Goes(c, "notify", "thrown")
    /\ raced' = raced \cup {Walked(c)[i] : i \in cursor[c] + 1 .. Len(Walked(c))}
    /\ UNCHANGED <<mMapLock, locks, holder, taken, iterator, source>>

Return(c) ==
    /\ cursor[c] = Len(Walked(c))
    /\ Goes(c, "notify", "returned")
    /\ locks' = [locks EXCEPT ![taken[c]] = <<>>]
    /\ UNCHANGED <<mMapLock, holder, taken, iterator, source, raced>>

(* A source ends. *)
SourceEnds(k) ==
    /\ k \in source
    /\ source' = source \ {k}
    /\ UNCHANGED <<mMapLock, locks, holder, pc, taken, iterator, raced>>

-----------------------------------------------------------------------------
Wait(c) == Own(c) \/ Fetch(c) \/ Add(c) \/ Sleep(c) \/ Timeout(c)
Pull(c) == LookUp(c) \/ Connect(c)
RemoveNotify(c) == Leave(c) \/ (pc[c] = "notify" /\ (Notify(c) \/ Throw(c) \/ Return(c)))

Next ==
    \/ \E c \in Calls : Ask(c) \/ Wait(c) \/ Pull(c) \/ RemoveNotify(c)
    \/ \E k \in Tokens : SourceEnds(k)

Spec == Init /\ [][Next]_vars

(* A call that asked goes on; the monitor is held for two steps only, by   *)
(* each call once.  Nothing is assumed of Connect: the socket is opened    *)
(* and read without a time limit (RtspConnection:93, 590-613), so that a   *)
(* remote server that stays silent keeps its call for ever.                *)
FairSpec ==
    Spec /\ \A c \in Calls : WF_vars(Wait(c)) /\ WF_vars(LookUp(c)) /\ WF_vars(RemoveNotify(c))

-----------------------------------------------------------------------------
(* No entry outlives the call that put it: its finally block is still to   *)
(* come.  A stale entry would hold up every later pull of the token for    *)
(* twenty seconds (RtspMediaServerManager:289-290).                        *)
EntryHasRemover ==
    \A k \in Tokens : mMapLock[k] # None => Token[mMapLock[k]] = k /\ pc[mMapLock[k]] \in Holding

(* A list is walked by one call only and is not in the map meanwhile, so   *)
(* that clear() never hits a list somebody else walks (MapKeyLock:65).     *)
OneRemover ==
    \A c \in Calls : pc[c] = "notify" =>
        /\ \A k \in Tokens : mMapLock[k] # taken[c]
        /\ \A d \in Calls \ {c} : pc[d] = "notify" => taken[d] # taken[c]

(* A pull that was not overtaken is remembered: its lock is on the list in *)
(* the map, or still before the cursor of the call that wakes the list.    *)
Remembered ==
    \A c \in Calls : pc[c] \in {"enlisted", "sleeping"} /\ c \notin raced =>
        \/ Entry(c) # None /\ \E i \in DOMAIN locks[Entry(c)] : locks[Entry(c)][i] = c
        \/ \E d \in Calls : /\ pc[d] = "notify"
                            /\ \E i \in cursor[d] + 1 .. Len(Walked(d)) : Walked(d)[i] = c

(* A pull comes back, unless its own remote server keeps it for ever: also *)
(* when the call it waits for never returns, or a wake-up is lost, because *)
(* the wait is limited to twenty seconds (MapKeyLock:23).                  *)
EveryPullGoesOn ==
    \A c \in Calls :
        (pc[c] # "new") ~> (pc[c] \in {"returned", "thrown"} \/ [](pc[c] = "connecting"))
=============================================================================
