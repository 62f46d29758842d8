----------------------------- MODULE OutputList -----------------------------
(* The outputs of one live source: RtspMediaServer.mOutputStreamRunnables,  *)
(* a MediaOutputStreamRunnableList with one cached list per packet type     *)
(* behind a WeakReference.  The threads are the outputs (each adds itself,  *)
(* runs until it is closed and removes itself), the feeder that puts        *)
(* packets to all outputs of a type, and whoever finishes the source.  They *)
(* meet at the monitor of the list; finish() sets the state outside of it.  *)
EXTENDS Integers, FiniteSets

CONSTANTS
    Outputs,       \* MediaOutputStreamRunnable instances
    Types,         \* packet types
    Type,          \* getPacketType, [Outputs -> Types]
    Reviving,      \* outputs of class MediaOutputStreamRunnable1: start() reopens
    Websocket,     \* outputs of a WebSocketServer, the others are RTSP players
    mOutputEmptyAutoFinish

ASSUME OutputAssumption ==
    /\ Type \in [Outputs -> Types]
    /\ Reviving \subseteq Outputs /\ Websocket \subseteq Outputs
    /\ mOutputEmptyAutoFinish \in BOOLEAN

VARIABLES
    state,       \* of the server; "stopped": the input is stopped, the list not yet cleared
    all,         \* mOutputStreamRunnables.mOutputStreamRunnables
    ref,         \* the WeakReference of a type
    typed,       \* the cached list of a type: how often each output is in it
    closed,      \* mColsed of the outputs
    thread,      \* where the thread of each output is
    watchers,    \* MediaSourceInfo.mediaOutputInfos (watchNum is its size)
    collected,   \* history: the collector has cleared a reference
    revived      \* history: outputs that start() reopened after a close()

vars == <<state, all, ref, typed, closed, thread, watchers, collected, revived>>
list == <<all, ref, typed>>

Steps == {"new", "added", "running", "leaving", "done", "aborted"}

TypeOK ==
    /\ state \in {"created", "stopped", "destroyed"}
    /\ all \subseteq Outputs
    /\ ref \in [Types -> {"absent", "live", "cleared"}]
    /\ typed \in [Types -> [Outputs -> 0..2]]
    /\ closed \in [Outputs -> BOOLEAN]
    /\ thread \in [Outputs -> Steps]
    /\ watchers \subseteq Outputs
    /\ collected \in BOOLEAN
    /\ revived \subseteq Reviving

Init ==
    /\ state = "created"
    /\ all = {}
    /\ ref = [t \in Types |-> "absent"]
    /\ typed = [t \in Types |-> [o \in Outputs |-> 0]]
    /\ closed = [o \in Outputs |-> FALSE]
    /\ thread = [o \in Outputs |-> "new"]
    /\ watchers = {}
    /\ collected = FALSE
    /\ revived = {}

isFinishing == state # "created"
NoOutputs == [o \in Outputs |-> 0]

(* Mutant: a cleared reference is replaced by an empty list. *)
Cached_NotRefilled(t, outputs) == IF ref[t] = "live" THEN typed[t] ELSE NoOutputs

(* getOutputStreamRunnables: a cleared reference is filled from the main    *)
(* list as it is now.                                                       *)
Cached(t, outputs) ==
    CASE ref[t] = "live" -> typed[t]
      [] ref[t] = "cleared" -> [o \in Outputs |-> IF o \in outputs /\ Type[o] = t THEN 1 ELSE 0]
      [] OTHER -> NoOutputs

(* Mutant: an output that is not in the list is counted down. *)
Less_Unguarded(bag, o) == [bag EXCEPT ![o] = @ - 1]

Less(bag, o) == [bag EXCEPT ![o] = IF @ > 0 THEN @ - 1 ELSE 0]

(* The main list is changed before the cached one is looked up. *)
ListAdd(o) ==
    /\ all' = all \cup {o}
    /\ ref' = [ref EXCEPT ![Type[o]] = "live"]
    /\ typed' = [typed EXCEPT ![Type[o]] = [Cached(Type[o], all') EXCEPT ![o] = @ + 1]]

ListRemove(outputs, t) ==
    /\ all' = all \ outputs
    /\ ref' = [ref EXCEPT ![t] = IF @ = "absent" THEN @ ELSE "live"]
    /\ typed' = [typed EXCEPT ![t] =
                    [o \in Outputs |-> IF o \in outputs THEN Less(Cached(t, all'), o)[o]
                                       ELSE Cached(t, all')[o]]]

ListClear ==
    /\ all' = {}
    /\ ref' = [t \in Types |-> "absent"]
    /\ typed' = [t \in Types |-> NoOutputs]

Goes(o, from, to) == thread[o] = from /\ thread' = [thread EXCEPT ![o] = to]

-----------------------------------------------------------------------------
(* Mutant: isFinishing is not asked under the monitor. *)
Add_Unchecked(o) ==
    /\ Goes(o, "new", "added")
    /\ ListAdd(o)
    /\ watchers' = watchers \cup {o}
    /\ UNCHANGED <<state, closed, collected, revived>>

(* addMediaOutputStreamRunnable, under the monitor: a finishing server     *)
(* throws.                                                                 *)
Add(o) ==
    /\ ~isFinishing
    /\ Goes(o, "new", "added")
    /\ ListAdd(o)
    /\ watchers' = watchers \cup {o}
    /\ UNCHANGED <<state, closed, collected, revived>>

AddRefused(o) ==
    /\ isFinishing
    /\ Goes(o, "new", "leaving")
    /\ UNCHANGED <<state, list, closed, watchers, collected, revived>>

(* stopOutputStream of the websocket session, at any time. *)
Stop(o) ==
    /\ o \in Websocket /\ thread[o] \in {"new", "added", "running"}
    /\ closed' = [closed EXCEPT ![o] = TRUE]
    /\ UNCHANGED <<state, list, thread, watchers, collected, revived>>

(* A websocket output that was stopped before it was created adds nothing, *)
(* and removing null tells the source nothing.                             *)
Abort(o) ==
    /\ o \in Websocket
    /\ Goes(o, "new", "aborted")
    /\ UNCHANGED <<state, list, closed, watchers, collected, revived>>

(* start() of a Frame output returns at once if it is closed; that of a    *)
(* MediaOutputStreamRunnable1 sets mColsed to false.                       *)
Start(o) ==
    /\ IF closed[o] /\ o \notin Reviving THEN Goes(o, "added", "leaving")
                                         ELSE Goes(o, "added", "running")
    /\ closed' = [closed EXCEPT ![o] = IF o \in Reviving THEN FALSE ELSE @]
    /\ revived' = IF closed[o] /\ o \in Reviving THEN revived \cup {o} ELSE revived
    /\ UNCHANGED <<state, list, watchers, collected>>

(* The loop of run() ends when it sees mColsed. *)
SeeClosed(o) ==
    /\ closed[o]
    /\ Goes(o, "running", "leaving")
    /\ UNCHANGED <<state, list, closed, watchers, collected, revived>>

(* A write fails. *)
WriteFails(o) ==
    /\ Goes(o, "running", "leaving")
    /\ closed' = [closed EXCEPT ![o] = TRUE]
    /\ UNCHANGED <<state, list, watchers, collected, revived>>

(* Mutants: the source is told only about outputs that were still listed. *)
Remove_IfListed(o) ==
    /\ Goes(o, "leaving", "done")
    /\ closed' = [closed EXCEPT ![o] = TRUE]
    /\ watchers' = watchers \ {o}
    /\ IF mOutputEmptyAutoFinish /\ all = {o}
       THEN ListClear /\ state' = "destroyed"
       ELSE ListRemove({o}, Type[o]) /\ UNCHANGED state
    /\ UNCHANGED <<collected, revived>>

(* The finally block: close, then removeMediaOutputStreamRunnable.  An     *)
(* empty list finishes an auto-finish server inside the monitor.           *)
Remove(o) ==
    /\ Goes(o, "leaving", "done")
    /\ closed' = [closed EXCEPT ![o] = TRUE]
    /\ watchers' = watchers \ {o}
    /\ IF mOutputEmptyAutoFinish /\ all \subseteq {o}
       THEN ListClear /\ state' = "destroyed"
       ELSE ListRemove({o}, Type[o]) /\ UNCHANGED state
    /\ UNCHANGED <<collected, revived>>

(* outputPacketStream, under the monitor: every entry of the type gets the *)
(* packet; an output whose putPacket throws is closed and removed.         *)
OutputPacket(t) ==
    /\ ref[t] # "absent"
    /\ \E errors \in SUBSET {o \in Outputs : Cached(t, all)[o] > 0 /\ ~closed[o]} :
         /\ ListRemove(errors, t)
         /\ closed' = [o \in Outputs |-> closed[o] \/ o \in errors]
    /\ UNCHANGED <<state, thread, watchers, collected, revived>>

(* finish() by another thread: the state and the input first, then, under  *)
(* the monitor, all outputs are closed and the list is cleared.            *)
FinishBegin ==
    /\ state = "created"
    /\ state' = "stopped"
    /\ UNCHANGED <<list, closed, thread, watchers, collected, revived>>

(* Mutant: the list is cleared, the outputs are left open. *)
FinishEnd_LeavesOpen ==
    /\ state = "stopped"
    /\ state' = "destroyed"
    /\ ListClear
    /\ UNCHANGED <<closed, thread, watchers, collected, revived>>

FinishEnd ==
    /\ state = "stopped"
    /\ state' = "destroyed"
    /\ closed' = [o \in Outputs |-> closed[o] \/ o \in all]
    /\ ListClear
    /\ UNCHANGED <<thread, watchers, collected, revived>>

(* The collector clears a weakly reachable list (ServerManager asks for a  *)
(* collection three seconds after each finish).                            *)
Collect(t) ==
    /\ ref[t] = "live"
    /\ ref' = [ref EXCEPT ![t] = "cleared"]
    /\ typed' = [typed EXCEPT ![t] = NoOutputs]
    /\ collected' = TRUE
    /\ UNCHANGED <<state, all, closed, thread, watchers, revived>>

-----------------------------------------------------------------------------
Run(o) == Start(o) \/ SeeClosed(o) \/ Remove(o)

Next ==
    \/ \E o \in Outputs : Add(o) \/ AddRefused(o) \/ Stop(o) \/ Abort(o) \/ Run(o) \/ WriteFails(o)
    \/ \E t \in Types : OutputPacket(t) \/ Collect(t)
    \/ FinishBegin \/ FinishEnd

Spec == Init /\ [][Next]_vars

(* Threads that run go on; nothing else is promised. *)
FairSpec == Spec /\ WF_vars(FinishEnd) /\ \A o \in Outputs : WF_vars(Run(o))

-----------------------------------------------------------------------------
(* After finish() the list stays empty: no output slips in between the     *)
(* state and the clearing, or after it (RtspMediaServer:676-680, 121-130). *)
EmptyAfterFinish == state = "destroyed" => all = {} /\ \A t \in Types : ref[t] = "absent"

(* Who is in the list has not been given up: its thread is before its      *)
(* removal, and it counts as a watcher.                                    *)
ListedIsActive == \A o \in all : thread[o] \in {"added", "running", "leaving"} /\ o \in watchers

(* As long as the collector has cleared nothing, the list of a type is the *)
(* main list restricted to the type, and each packet reaches an output     *)
(* once (MediaOutputStreamRunnableList:86-90 fills it that way).           *)
TypedIsRestriction ==
    ~collected => \A t \in Types, o \in Outputs :
        typed[t][o] = IF o \in all /\ Type[o] = t THEN 1 ELSE 0

(* Whatever the collector does, nobody in the main list misses packets,    *)
(* and an entry left over in a typed list is closed or was reopened.       *)
NobodyMissed ==
    /\ \A o \in all : Cached(Type[o], all)[o] > 0
    /\ \A t \in Types, o \in Outputs :
         typed[t][o] > 0 /\ o \notin all => closed[o] \/ o \in revived

(* An auto-finish server whose outputs have all left is finished, also if  *)
(* the feeder removed one of them first.                                   *)
AutoFinished ==
    /\ mOutputEmptyAutoFinish
    /\ \E o \in Outputs : thread[o] = "done"
    /\ \A o \in Outputs : thread[o] \in {"new", "done", "aborted"}
    => isFinishing

(* A finished source lets go of every output that start() did not reopen.  *)
OutputsEnd ==
    \A o \in Outputs : (isFinishing /\ thread[o] # "new") ~>
        (thread[o] \in {"done", "aborted"} \/ o \in revived)

=============================================================================
