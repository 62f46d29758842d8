-------------------------- MODULE OutputListProofs --------------------------
(* Proofs about the outputs of one source, for every set of outputs and    *)
(* packet types.                                                           *)
EXTENDS OutputList, TLAPS

(* Only a live list holds entries. *)
CachedWhenLive == \A t \in Types : ref[t] # "live" => typed[t] = NoOutputs

(* A cached list holds outputs of its type only. *)
TypedHasType == \A t \in Types, o \in Outputs : typed[t][o] > 0 => Type[o] = t

(* An output whose thread has not added it is in no list. *)
NotYetListed == \A o \in Outputs : thread[o] = "new" => \A t \in Types : typed[t][o] = 0

NothingCleared == ~collected => \A t \in Types : ref[t] # "cleared"

(* The count watchNum comes back to the outputs that are still there: once all       *)
(* threads are done nobody watches.                                        *)
WatchersLeave == \A o \in watchers : thread[o] \in {"added", "running", "leaving"}

IInv ==
    /\ TypeOK
    /\ EmptyAfterFinish
    /\ ListedIsActive
    /\ WatchersLeave
    /\ CachedWhenLive
    /\ TypedHasType
    /\ NotYetListed
    /\ NothingCleared
    /\ TypedIsRestriction
    /\ NobodyMissed
    /\ AutoFinished

-----------------------------------------------------------------------------
(* A looked-up list counts an output once if it was just filled.           *)
LEMMA CachedType ==
    ASSUME IInv, NEW t \in Types, NEW outputs \in SUBSET Outputs
    PROVE  /\ Cached(t, outputs) \in [Outputs -> 0..2]
           /\ \A o \in Outputs : thread[o] = "new" /\ o \notin outputs => Cached(t, outputs)[o] = 0
           /\ \A o \in Outputs : thread[o] = "new" => Cached(t, outputs)[o] \in 0..1
           /\ \A o \in Outputs : Cached(t, outputs)[o] > 0 => Type[o] = t
BY DEF IInv, TypeOK, Cached, NoOutputs, NotYetListed, TypedHasType

(* What remove() and removeAll() leave in the lists.                       *)
LEMMA RemoveEffect ==
    ASSUME IInv, NEW t \in Types, NEW outputs \in SUBSET Outputs, ListRemove(outputs, t)
    PROVE  /\ all' = all \ outputs
           /\ ref' \in [Types -> {"absent", "live", "cleared"}]
           /\ typed' \in [Types -> [Outputs -> 0..2]]
           /\ \A u \in Types \ {t} : ref'[u] = ref[u] /\ typed'[u] = typed[u]
           /\ ref[t] = "absent" => ref'[t] = "absent" /\ typed'[t] = NoOutputs
           /\ ref[t] # "absent" => ref'[t] = "live"
           /\ \A o \in Outputs \ outputs : typed'[t][o] = Cached(t, all')[o]
           /\ \A o \in outputs : typed'[t][o] \leq Cached(t, all')[o]
           /\ \A o \in outputs : typed'[t][o] \leq 1
<1>1. all' = all \ outputs /\ all' \in SUBSET Outputs
    BY DEF ListRemove, IInv, TypeOK
<1>2. Cached(t, all') \in [Outputs -> 0..2]
    BY <1>1, CachedType
<1>3. ref' = [ref EXCEPT ![t] = IF @ = "absent" THEN @ ELSE "live"]
    BY DEF ListRemove
<1>4. typed' = [typed EXCEPT ![t] = [o \in Outputs |-> IF o \in outputs
                  THEN Less(Cached(t, all'), o)[o] ELSE Cached(t, all')[o]]]
    BY DEF ListRemove
<1>5. \A o \in Outputs : /\ Less(Cached(t, all'), o)[o] \in 0..1
                         /\ Less(Cached(t, all'), o)[o] \leq Cached(t, all')[o]
    BY <1>2 DEF Less
<1>6. \A o \in Outputs : typed'[t][o] = IF o \in outputs
                  THEN Less(Cached(t, all'), o)[o] ELSE Cached(t, all')[o]
    BY <1>4 DEF IInv, TypeOK
<1>7. typed' \in [Types -> [Outputs -> 0..2]]
  <2>1. [o \in Outputs |-> IF o \in outputs THEN Less(Cached(t, all'), o)[o]
                           ELSE Cached(t, all')[o]] \in [Outputs -> 0..2]
      BY <1>2, <1>5
  <2> QED BY <1>4, <2>1 DEF IInv, TypeOK
<1>8. ref[t] = "absent" => typed'[t] = NoOutputs
  <2> SUFFICES ASSUME ref[t] = "absent" PROVE typed'[t] = NoOutputs
      OBVIOUS
  <2>1. Cached(t, all') = NoOutputs
      BY DEF Cached
  <2>2. \A o \in Outputs : Less(Cached(t, all'), o)[o] = 0
      BY <2>1 DEF Less, NoOutputs
  <2> QED BY <1>4, <2>1, <2>2 DEF IInv, TypeOK, NoOutputs
<1>9. \A u \in Types \ {t} : ref'[u] = ref[u] /\ typed'[u] = typed[u]
    BY <1>3, <1>4 DEF IInv, TypeOK
<1>10. /\ ref' \in [Types -> {"absent", "live", "cleared"}]
       /\ ref[t] = "absent" => ref'[t] = "absent"
       /\ ref[t] # "absent" => ref'[t] = "live"
    BY <1>3 DEF IInv, TypeOK
<1>11. \A o \in Outputs \ outputs : typed'[t][o] = Cached(t, all')[o]
    BY <1>6
<1>12. \A o \in outputs : typed'[t][o] \leq Cached(t, all')[o] /\ typed'[t][o] \leq 1
    BY <1>5, <1>6
<1> QED BY <1>1, <1>7, <1>8, <1>9, <1>10, <1>11, <1>12

-----------------------------------------------------------------------------
Active == {"added", "running", "leaving"}
Inactive == {"new", "done", "aborted"}

(* What a step that touches no list may do. *)
Quiet ==
    /\ UNCHANGED <<list, watchers, collected>>
    /\ state' \in {"created", "stopped", "destroyed"}
    /\ state' = state \/ (state = "created" /\ state' = "stopped")
    /\ closed' \in [Outputs -> BOOLEAN]
    /\ thread' \in [Outputs -> Steps]
    /\ revived' \subseteq Reviving /\ revived \subseteq revived'
    /\ \A o \in Outputs :
         /\ thread'[o] \in {"new", "done"} => thread[o] = thread'[o]
         /\ thread'[o] = "aborted" => thread[o] \in {"new", "aborted"}
         /\ thread[o] \in Active => thread'[o] \in Active
         /\ closed[o] => closed'[o] \/ o \in revived'

(* A step that only moves threads and closes outputs keeps the invariant.  *)
LEMMA QuietPreserves == ASSUME IInv, Quiet PROVE IInv'
<1>1. /\ all' = all /\ ref' = ref /\ typed' = typed
      /\ watchers' = watchers /\ collected' = collected
    BY DEF Quiet, list
<1>2. \A t \in Types : Cached(t, all)' = Cached(t, all)
    BY <1>1 DEF Cached, NoOutputs
<1>3. TypeOK' BY <1>1 DEF IInv, TypeOK, Quiet
<1>4. EmptyAfterFinish' BY <1>1 DEF IInv, EmptyAfterFinish, Quiet
<1>5. ListedIsActive' BY <1>1 DEF IInv, TypeOK, ListedIsActive, Quiet, Active
<1>6. WatchersLeave' BY <1>1 DEF IInv, TypeOK, WatchersLeave, Quiet, Active
<1>7. CachedWhenLive' /\ TypedHasType'
    BY <1>1 DEF IInv, CachedWhenLive, NoOutputs, TypedHasType
<1>8. NotYetListed' BY <1>1 DEF IInv, NotYetListed, Quiet
<1>9. NothingCleared' /\ TypedIsRestriction'
    BY <1>1 DEF IInv, NothingCleared, TypedIsRestriction
<1>10. NobodyMissed'
  <2>1. \A o \in all' : Cached(Type[o], all)'[o] > 0
      BY <1>1, <1>2, OutputAssumption DEF IInv, TypeOK, NobodyMissed
  <2>2. \A t \in Types, o \in Outputs :
          typed'[t][o] > 0 /\ o \notin all' => closed'[o] \/ o \in revived'
      BY <1>1 DEF IInv, NobodyMissed, Quiet
  <2> QED BY <1>1, <2>1, <2>2 DEF NobodyMissed, Cached, NoOutputs
<1>11. AutoFinished' BY DEF IInv, AutoFinished, Quiet, isFinishing
<1> QED BY <1>3, <1>4, <1>5, <1>6, <1>7, <1>8, <1>9, <1>10, <1>11 DEF IInv

(* The steps that touch no list. *)
LEMMA QuietSteps ==
    ASSUME IInv, NEW o \in Outputs,
           \/ AddRefused(o) \/ Stop(o) \/ Abort(o) \/ Start(o) \/ SeeClosed(o) \/ WriteFails(o)
    PROVE  IInv'
<1> SUFFICES Quiet
    BY QuietPreserves
<1> USE OutputAssumption DEF TypeOK, Quiet, Active, Goes, list, Steps
<1>0. TypeOK BY DEF IInv
<1>1. CASE AddRefused(o) BY <1>0, <1>1 DEF AddRefused
<1>2. CASE Stop(o) BY <1>0, <1>2 DEF Stop
<1>3. CASE Abort(o) BY <1>0, <1>3 DEF Abort
<1>4. CASE Start(o)
  <2>1. CASE closed[o] /\ o \notin Reviving BY <1>0, <1>4, <2>1 DEF Start
  <2>2. CASE closed[o] /\ o \in Reviving BY <1>0, <1>4, <2>2 DEF Start
  <2>3. CASE ~closed[o] BY <1>0, <1>4, <2>3 DEF Start
  <2> QED BY <2>1, <2>2, <2>3
<1>5. CASE SeeClosed(o) BY <1>0, <1>5 DEF SeeClosed
<1>6. CASE WriteFails(o) BY <1>0, <1>6 DEF WriteFails
<1> QED BY <1>1, <1>2, <1>3, <1>4, <1>5, <1>6

-----------------------------------------------------------------------------
(* An output joins a source that is not finishing. *)
LEMMA AddStep == ASSUME IInv, NEW o \in Outputs, Add(o) PROVE IInv'
<1> DEFINE t == Type[o]
<1>1. /\ state = "created" /\ state' = state
      /\ thread[o] = "new" /\ thread' = [thread EXCEPT ![o] = "added"]
      /\ all' = all \cup {o} /\ watchers' = watchers \cup {o}
      /\ UNCHANGED <<closed, collected, revived>>
      /\ ref' = [ref EXCEPT ![t] = "live"]
      /\ typed' = [typed EXCEPT ![t] = [Cached(t, all') EXCEPT ![o] = @ + 1]]
    BY DEF Add, Goes, ListAdd, isFinishing, IInv, TypeOK
<1>2. t \in Types /\ all' \in SUBSET Outputs
    BY <1>1, OutputAssumption DEF IInv, TypeOK
<1>3. /\ Cached(t, all') \in [Outputs -> 0..2]
      /\ Cached(t, all')[o] \in 0..1
      /\ \A p \in Outputs : thread[p] = "new" /\ p # o => p \notin all'
    BY <1>1, <1>2, CachedType DEF IInv, ListedIsActive
<1>4. /\ \A u \in Types \ {t} : ref'[u] = ref[u] /\ typed'[u] = typed[u]
      /\ ref'[t] = "live"
      /\ typed'[t] \in [Outputs -> 0..2]
      /\ typed'[t][o] = Cached(t, all')[o] + 1
      /\ \A p \in Outputs \ {o} : typed'[t][p] = Cached(t, all')[p]
  <2>1. typed'[t] = [Cached(t, all') EXCEPT ![o] = @ + 1]
      BY <1>1, <1>2 DEF IInv, TypeOK
  <2>2. \A u \in Types \ {t} : ref'[u] = ref[u] /\ typed'[u] = typed[u]
      BY <1>1, <1>2 DEF IInv, TypeOK
  <2>3. ref'[t] = "live"
      BY <1>1, <1>2 DEF IInv, TypeOK
  <2> QED BY <2>1, <2>2, <2>3, <1>3
<1>5. TypeOK'
  <2>1. [Cached(t, all') EXCEPT ![o] = @ + 1] \in [Outputs -> 0..2]
      BY <1>3
  <2> QED BY <1>1, <1>2, <2>1 DEF IInv, TypeOK, Steps
<1>6. EmptyAfterFinish' BY <1>1 DEF EmptyAfterFinish
<1>7. ListedIsActive' BY <1>1 DEF IInv, TypeOK, ListedIsActive
<1>8. WatchersLeave' BY <1>1 DEF IInv, TypeOK, WatchersLeave
<1>9. CachedWhenLive' BY <1>2, <1>4 DEF IInv, CachedWhenLive, NoOutputs
<1>15. TypedHasType'
  <2> SUFFICES ASSUME NEW u \in Types, NEW p \in Outputs, typed'[u][p] > 0
               PROVE  Type[p] = u
      BY DEF TypedHasType
  <2>1. CASE u # t BY <2>1, <1>4 DEF IInv, TypedHasType
  <2>2. CASE u = t /\ p = o BY <2>2
  <2>3. CASE u = t /\ p # o
    <3>1. Cached(t, all')[p] > 0 BY <2>3, <1>4
    <3>2. \A q \in Outputs : Cached(t, all')[q] > 0 => Type[q] = t
        BY <1>2, CachedType
    <3> QED BY <2>3, <3>1, <3>2
  <2> QED BY <2>1, <2>2, <2>3
<1>10. NotYetListed'
  <2> SUFFICES ASSUME NEW p \in Outputs, thread'[p] = "new", NEW u \in Types
               PROVE  typed'[u][p] = 0
      BY DEF NotYetListed
  <2>1. p # o /\ thread[p] = "new"
      BY <1>1 DEF IInv, TypeOK
  <2>2. CASE u = t BY <2>1, <2>2, <1>2, <1>3, <1>4, CachedType
  <2>3. CASE u # t BY <2>1, <2>3, <1>4 DEF IInv, NotYetListed
  <2> QED BY <2>2, <2>3
<1>11. NothingCleared' BY <1>1, <1>2, <1>4 DEF IInv, NothingCleared
<1>12. TypedIsRestriction'
  <2> SUFFICES ASSUME ~collected, NEW u \in Types, NEW p \in Outputs
               PROVE  typed'[u][p] = IF p \in all' /\ Type[p] = u THEN 1 ELSE 0
      BY <1>1 DEF TypedIsRestriction
  <2>1. \A q \in Outputs : typed[u][q] = IF q \in all /\ Type[q] = u THEN 1 ELSE 0
      BY DEF IInv, TypedIsRestriction
  <2>2. CASE u = t
    <3>1. Cached(t, all') = typed[t]
        BY <1>2 DEF IInv, NothingCleared, CachedWhenLive, TypeOK, Cached
    <3>2. o \notin all BY <1>1 DEF IInv, ListedIsActive
    <3> QED BY <2>1, <2>2, <3>1, <3>2, <1>1, <1>4
  <2>3. CASE u # t BY <2>1, <2>3, <1>1, <1>4
  <2> QED BY <2>2, <2>3
<1>13. NobodyMissed'
  <2>1. ASSUME NEW p \in all' PROVE typed'[Type[p]][p] > 0 \/ ref'[Type[p]] = "cleared"
    <3>1. p \in Outputs /\ Type[p] \in Types BY <1>2, OutputAssumption
    <3>2. CASE p = o BY <3>2, <1>3, <1>4
    <3>3. CASE p # o
      <4>1. p \in all /\ Cached(Type[p], all)[p] > 0
          BY <1>1, <3>3 DEF IInv, NobodyMissed
      <4>2. CASE Type[p] = t
        <5>1. Cached(t, all')[p] > 0
            BY <4>1, <4>2, <2>1, <3>1 DEF Cached
        <5> QED BY <5>1, <4>2, <3>1, <3>3, <1>4
      <4>3. CASE Type[p] # t BY <4>1, <4>3, <3>1, <1>4 DEF Cached, NoOutputs
      <4> QED BY <4>2, <4>3
    <3> QED BY <3>2, <3>3
  <2>2. \A p \in all' : Cached(Type[p], all)'[p] > 0
      BY <2>1, <1>2, <1>5, <1>9, OutputAssumption DEF Cached, TypeOK, CachedWhenLive, NoOutputs
  <2>3. ASSUME NEW u \in Types, NEW p \in Outputs, typed'[u][p] > 0, p \notin all'
        PROVE  closed'[p] \/ p \in revived'
    <3>1. p # o /\ p \notin all BY <2>3, <1>1
    <3>2. typed[u][p] > 0
      <4>1. CASE u = t
        <5>1. Cached(t, all')[p] > 0 BY <2>3, <3>1, <4>1, <1>4
        <5> QED BY <5>1, <4>1, <2>3 DEF Cached, NoOutputs
      <4>2. CASE u # t BY <2>3, <4>2, <1>4
      <4> QED BY <4>1, <4>2
    <3> QED BY <3>1, <3>2, <1>1 DEF IInv, NobodyMissed
  <2> QED BY <2>2, <2>3 DEF NobodyMissed
<1>14. AutoFinished' BY <1>1 DEF IInv, TypeOK, AutoFinished
<1> QED BY <1>5, <1>6, <1>7, <1>8, <1>9, <1>10, <1>11, <1>12, <1>13, <1>14, <1>15 DEF IInv
-----------------------------------------------------------------------------
(* What an output that is removed from the list of its type leaves behind: *)
(* used by the end of a thread and by the feeder that removes failed ones. *)
Shrinks(gone, t) ==
    /\ ListRemove(gone, t)
    /\ \A o \in gone : Type[o] = t
    /\ closed' = [o \in Outputs |-> closed[o] \/ o \in gone]
    /\ UNCHANGED <<collected, revived>>

(* Taking outputs off the main list and their typed list keeps the         *)
(* invariant (MediaOutputStreamRunnableList.remove).                       *)
LEMMA ShrinkPreserves ==
    ASSUME IInv, NEW t \in Types, NEW gone \in SUBSET Outputs, Shrinks(gone, t)
    PROVE  /\ EmptyAfterFinish' \/ state' # state
           /\ CachedWhenLive'
           /\ TypedHasType'
           /\ NothingCleared'
           /\ TypedIsRestriction'
           /\ NobodyMissed'
           /\ \A o \in Outputs : thread[o] = "new" => \A u \in Types : typed'[u][o] = 0
           /\ closed' \in [Outputs -> BOOLEAN]
<1>1. /\ all' = all \ gone
      /\ ref' \in [Types -> {"absent", "live", "cleared"}]
      /\ typed' \in [Types -> [Outputs -> 0..2]]
      /\ \A u \in Types \ {t} : ref'[u] = ref[u] /\ typed'[u] = typed[u]
      /\ ref[t] = "absent" => ref'[t] = "absent" /\ typed'[t] = NoOutputs
      /\ ref[t] # "absent" => ref'[t] = "live"
      /\ \A o \in Outputs \ gone : typed'[t][o] = Cached(t, all')[o]
      /\ \A o \in gone : typed'[t][o] \leq Cached(t, all')[o]
      /\ \A o \in gone : typed'[t][o] \leq 1
    BY RemoveEffect DEF Shrinks
<1>2. all' \in SUBSET Outputs /\ Cached(t, all') \in [Outputs -> 0..2]
    BY <1>1, CachedType DEF IInv, TypeOK
<1>3. EmptyAfterFinish' \/ state' # state
    BY <1>1 DEF IInv, EmptyAfterFinish
<1>4. CachedWhenLive'
    BY <1>1 DEF IInv, CachedWhenLive, NoOutputs
<1>10. TypedHasType'
  <2> SUFFICES ASSUME NEW u \in Types, NEW p \in Outputs, typed'[u][p] > 0 PROVE Type[p] = u
      BY DEF TypedHasType
  <2>1. CASE u = t /\ p \notin gone BY <2>1, <1>1, <1>2, CachedType
  <2>2. CASE u = t /\ p \in gone BY <2>2 DEF Shrinks
  <2>3. CASE u # t BY <2>3, <1>1 DEF IInv, TypedHasType
  <2> QED BY <2>1, <2>2, <2>3
<1>5. NothingCleared'
    BY <1>1 DEF Shrinks, IInv, NothingCleared
<1>6. TypedIsRestriction'
  <2> SUFFICES ASSUME ~collected, NEW u \in Types, NEW p \in Outputs
               PROVE  typed'[u][p] = IF p \in all' /\ Type[p] = u THEN 1 ELSE 0
      BY DEF TypedIsRestriction, Shrinks
  <2>1. \A q \in Outputs : typed[u][q] = IF q \in all /\ Type[q] = u THEN 1 ELSE 0
      BY DEF IInv, TypedIsRestriction
  <2>2. CASE u = t
    <3>1. Cached(t, all') = typed[t]
        BY DEF IInv, NothingCleared, CachedWhenLive, TypeOK, Cached
    <3>2. CASE p \notin gone BY <2>1, <2>2, <3>1, <3>2, <1>1
    <3>3. CASE p \in gone
      <4>1. ref[t] # "absent" => typed'[t][p] = Less(Cached(t, all'), p)[p]
          BY <3>3 DEF Shrinks, ListRemove, IInv, TypeOK
      <4>2. ref[t] # "absent" => typed'[t][p] = 0
          BY <4>1, <3>1, <2>1, <2>2, <1>2 DEF Less
      <4> QED BY <4>2, <3>3, <2>2, <1>1 DEF NoOutputs
    <3> QED BY <3>2, <3>3
  <2>3. CASE u # t
    <3>1. p \in gone => Type[p] # u BY <2>3 DEF Shrinks
    <3> QED BY <2>1, <2>3, <3>1, <1>1
  <2> QED BY <2>2, <2>3
<1>7. NobodyMissed'
  <2>1. ASSUME NEW p \in all' PROVE Cached(Type[p], all)'[p] > 0
    <3>1. p \in Outputs /\ Type[p] \in Types /\ p \in all /\ p \notin gone
        BY <1>1, <1>2, OutputAssumption
    <3>2. Cached(Type[p], all)[p] > 0
        BY <3>1 DEF IInv, NobodyMissed
    <3>3. CASE Type[p] = t
      <4>1. Cached(t, all')[p] > 0
          BY <3>2, <3>1, <3>3, <2>1 DEF Cached
      <4>2. typed'[t][p] > 0 /\ ref[t] # "absent"
          BY <4>1, <3>1, <1>1 DEF Cached, NoOutputs
      <4> QED BY <4>2, <3>3, <1>1 DEF Cached
    <3>4. CASE Type[p] # t
      <4>1. ref'[Type[p]] = ref[Type[p]] /\ typed'[Type[p]] = typed[Type[p]]
          BY <3>1, <3>4, <1>1
      <4> QED BY <4>1, <3>2, <3>1, <2>1 DEF Cached, NoOutputs
    <3> QED BY <3>3, <3>4
  <2>2. ASSUME NEW u \in Types, NEW p \in Outputs, typed'[u][p] > 0, p \notin all'
        PROVE  closed'[p] \/ p \in revived'
    <3>1. CASE p \in gone BY <3>1 DEF Shrinks
    <3>2. CASE p \notin gone
      <4>1. p \notin all BY <3>2, <2>2, <1>1
      <4>2. typed[u][p] > 0
        <5>1. CASE u = t
          <6>1. Cached(t, all')[p] > 0 BY <2>2, <3>2, <5>1, <1>1
          <6> QED BY <6>1, <5>1, <2>2 DEF Cached, NoOutputs
        <5>2. CASE u # t BY <2>2, <5>2, <1>1
        <5> QED BY <5>1, <5>2
      <4>3. closed[p] \/ p \in revived BY <4>1, <4>2 DEF IInv, NobodyMissed
      <4> QED BY <4>3 DEF Shrinks
    <3> QED BY <3>1, <3>2
  <2> QED BY <2>1, <2>2 DEF NobodyMissed
<1>8. ASSUME NEW o \in Outputs, thread[o] = "new", NEW u \in Types PROVE typed'[u][o] = 0
  <2>1. o \notin all' BY <1>8, <1>1 DEF IInv, ListedIsActive
  <2>2. CASE u = t
    <3>1. Cached(t, all')[o] = 0 BY <1>8, <1>2, <2>1, CachedType
    <3>2. typed'[t][o] \in 0..2 BY <1>1
    <3>3. typed'[t][o] = 0
      <4>1. CASE o \in gone
        <5>1. typed'[t][o] \leq 0 BY <3>1, <4>1, <1>1
        <5> QED BY <5>1, <3>2
      <4>2. CASE o \notin gone BY <3>1, <4>2, <1>1
      <4> QED BY <4>1, <4>2
    <3> QED BY <3>3, <2>2
  <2>3. CASE u # t BY <1>8, <2>3, <1>1 DEF IInv, NotYetListed
  <2> QED BY <2>2, <2>3
<1>9. closed' \in [Outputs -> BOOLEAN] BY DEF Shrinks
<1> QED BY <1>3, <1>4, <1>5, <1>6, <1>7, <1>8, <1>9, <1>10

(* The end of a thread: it leaves the list, or as the last one clears it.  *)
LEMMA RemoveStep == ASSUME IInv, NEW o \in Outputs, Remove(o) PROVE IInv'
<1>1. /\ thread[o] = "leaving" /\ thread' = [thread EXCEPT ![o] = "done"]
      /\ closed' = [closed EXCEPT ![o] = TRUE]
      /\ watchers' = watchers \ {o}
      /\ UNCHANGED <<collected, revived>>
      /\ thread' \in [Outputs -> Steps] /\ Type[o] \in Types
    BY OutputAssumption DEF Remove, Goes, IInv, TypeOK, Steps
<1>2. NotYetListed' /\ closed' \in [Outputs -> BOOLEAN] /\ CachedWhenLive' /\ TypedHasType'
      /\ NothingCleared'
      /\ EmptyAfterFinish' /\ TypedIsRestriction' /\ NobodyMissed' /\ AutoFinished'
      /\ ref' \in [Types -> {"absent", "live", "cleared"}]
      /\ typed' \in [Types -> [Outputs -> 0..2]]
      /\ all' \subseteq all \ {o} /\ state' \in {"created", "stopped", "destroyed"}
  <2>1. CASE mOutputEmptyAutoFinish /\ all \subseteq {o}
    <3>1. /\ state' = "destroyed" /\ all' = {} /\ ref' = [t \in Types |-> "absent"]
          /\ typed' = [t \in Types |-> NoOutputs]
        BY <2>1 DEF Remove, ListClear
    <3>2. \A p \in Outputs : p # o => p \notin all BY <2>1
    <3>3. \A t \in Types, p \in Outputs : typed'[t][p] = 0
        BY <3>1 DEF NoOutputs
    <3>4. NotYetListed' BY <3>3 DEF NotYetListed
    <3>5. CachedWhenLive' /\ NothingCleared' BY <3>1 DEF CachedWhenLive, NothingCleared, NoOutputs
    <3>6. EmptyAfterFinish' /\ AutoFinished' BY <3>1 DEF EmptyAfterFinish, AutoFinished, isFinishing
    <3>7. TypedIsRestriction' BY <3>1, <3>3 DEF TypedIsRestriction
    <3>8. NobodyMissed' BY <3>1, <3>3 DEF NobodyMissed
    <3>9. typed' \in [Types -> [Outputs -> 0..2]] BY <3>1 DEF NoOutputs
    <3>10. ref' \in [Types -> {"absent", "live", "cleared"}] BY <3>1
    <3>11. closed' \in [Outputs -> BOOLEAN] BY <1>1 DEF IInv, TypeOK
    <3>12. TypedHasType' BY <3>3 DEF TypedHasType
    <3> QED BY <3>12, <3>1, <3>4, <3>5, <3>6, <3>7, <3>8, <3>9, <3>10, <3>11
  <2>2. CASE ~(mOutputEmptyAutoFinish /\ all \subseteq {o})
    <3>1. ListRemove({o}, Type[o]) /\ state' = state
        BY <2>2 DEF Remove
    <3>2. closed' = [p \in Outputs |-> closed[p] \/ p \in {o}]
        BY <1>1 DEF IInv, TypeOK
    <3>3. Shrinks({o}, Type[o])
        BY <3>1, <3>2, <1>1 DEF Shrinks
    <3>4. /\ EmptyAfterFinish' /\ CachedWhenLive' /\ TypedHasType' /\ NothingCleared'
          /\ TypedIsRestriction' /\ NobodyMissed' /\ closed' \in [Outputs -> BOOLEAN]
          /\ \A p \in Outputs : thread[p] = "new" => \A u \in Types : typed'[u][p] = 0
        BY <3>1, <3>3, <1>1, ShrinkPreserves
    <3>5. /\ all' = all \ {o} /\ ref' \in [Types -> {"absent", "live", "cleared"}]
          /\ typed' \in [Types -> [Outputs -> 0..2]]
        BY <3>1, <1>1, RemoveEffect
    <3>6. NotYetListed' BY <3>4, <1>1 DEF NotYetListed, IInv, TypeOK
    <3>7. AutoFinished'
      <4> SUFFICES ASSUME mOutputEmptyAutoFinish,
                          \A p \in Outputs : thread'[p] \in {"new", "done", "aborted"}
                   PROVE  FALSE
          BY DEF AutoFinished
      <4>1. PICK p \in all : p # o BY <2>2
      <4>2. p \in Outputs /\ thread[p] \in Active /\ thread'[p] = thread[p]
          BY <4>1, <1>1 DEF IInv, TypeOK, ListedIsActive, Active
      <4> QED BY <4>2 DEF Active
    <3> QED BY <3>1, <3>4, <3>5, <3>6, <3>7 DEF IInv, TypeOK
  <2> QED BY <2>1, <2>2
<1>3. TypeOK' BY <1>1, <1>2 DEF IInv, TypeOK
<1>4. ListedIsActive' BY <1>1, <1>2 DEF IInv, TypeOK, ListedIsActive
<1>5. WatchersLeave' BY <1>1 DEF IInv, TypeOK, WatchersLeave
<1> QED BY <1>2, <1>3, <1>4, <1>5 DEF IInv

(* A packet: the outputs of its type that fail are closed and removed. *)
LEMMA PacketStep == ASSUME IInv, NEW t \in Types, OutputPacket(t) PROVE IInv'
<1>1. PICK errors \in SUBSET {o \in Outputs : Cached(t, all)[o] > 0 /\ ~closed[o]} :
         /\ ListRemove(errors, t)
         /\ closed' = [o \in Outputs |-> closed[o] \/ o \in errors]
    BY DEF OutputPacket
<1>2. ref[t] # "absent" /\ UNCHANGED <<state, thread, watchers, collected, revived>>
    BY DEF OutputPacket
<1>3. errors \in SUBSET Outputs /\ \A o \in errors : Type[o] = t
  <2>1. \A o \in errors : o \in Outputs /\ Cached(t, all)[o] > 0
      OBVIOUS
  <2>2. all \in SUBSET Outputs
      BY DEF IInv, TypeOK
  <2> QED BY <2>1, <2>2, CachedType
<1>4. Shrinks(errors, t) /\ state' = state
    BY <1>1, <1>2, <1>3 DEF Shrinks
<1>5. /\ EmptyAfterFinish' /\ CachedWhenLive' /\ TypedHasType' /\ NothingCleared'
      /\ TypedIsRestriction' /\ NobodyMissed' /\ closed' \in [Outputs -> BOOLEAN]
      /\ \A p \in Outputs : thread[p] = "new" => \A u \in Types : typed'[u][p] = 0
    BY <1>3, <1>4, ShrinkPreserves
<1>6. /\ all' = all \ errors
      /\ ref' \in [Types -> {"absent", "live", "cleared"}]
      /\ typed' \in [Types -> [Outputs -> 0..2]]
    BY <1>1, <1>3, RemoveEffect
<1>7. TypeOK' BY <1>2, <1>5, <1>6 DEF IInv, TypeOK
<1>8. ListedIsActive' /\ WatchersLeave' BY <1>2, <1>6 DEF IInv, ListedIsActive, WatchersLeave
<1>9. NotYetListed' BY <1>2, <1>5 DEF NotYetListed
<1>10. AutoFinished' BY <1>2 DEF IInv, AutoFinished, isFinishing
<1> QED BY <1>5, <1>7, <1>8, <1>9, <1>10 DEF IInv

(* The steps of a finish() by another thread. *)
LEMMA FinishSteps == ASSUME IInv, FinishBegin \/ FinishEnd PROVE IInv'
<1>1. CASE FinishBegin
  <2>1. TypeOK BY DEF IInv
  <2>2. Quiet BY <1>1, <2>1 DEF FinishBegin, Quiet, TypeOK, list, Active
  <2> QED BY <2>2, QuietPreserves
<1>2. CASE FinishEnd
  <2>1. /\ state' = "destroyed" /\ all' = {} /\ ref' = [t \in Types |-> "absent"]
        /\ typed' = [t \in Types |-> NoOutputs]
        /\ closed' = [o \in Outputs |-> closed[o] \/ o \in all]
        /\ UNCHANGED <<thread, watchers, collected, revived>>
      BY <1>2 DEF FinishEnd, ListClear
  <2>2. \A t \in Types, p \in Outputs : typed'[t][p] = 0
      BY <2>1 DEF NoOutputs
  <2>3. TypeOK'
    <3>1. typed' \in [Types -> [Outputs -> 0..2]] BY <2>1 DEF NoOutputs
    <3>2. closed' \in [Outputs -> BOOLEAN] BY <2>1
    <3> QED BY <2>1, <3>1, <3>2 DEF IInv, TypeOK
  <2>4. NotYetListed' /\ TypedHasType' BY <2>2 DEF NotYetListed, TypedHasType
  <2>5. CachedWhenLive' /\ NothingCleared' BY <2>1 DEF CachedWhenLive, NothingCleared, NoOutputs
  <2>6. EmptyAfterFinish' /\ AutoFinished' BY <2>1 DEF EmptyAfterFinish, AutoFinished, isFinishing
  <2>7. TypedIsRestriction' /\ NobodyMissed' BY <2>1, <2>2 DEF TypedIsRestriction, NobodyMissed
  <2>8. ListedIsActive' /\ WatchersLeave' BY <2>1 DEF IInv, ListedIsActive, WatchersLeave
  <2> QED BY <2>3, <2>4, <2>5, <2>6, <2>7, <2>8 DEF IInv
<1> QED BY <1>1, <1>2

(* The collector clears the list of a type. *)
LEMMA CollectStep == ASSUME IInv, NEW t \in Types, Collect(t) PROVE IInv'
<1>1. /\ ref' = [ref EXCEPT ![t] = "cleared"] /\ typed' = [typed EXCEPT ![t] = NoOutputs]
      /\ collected' = TRUE /\ ref[t] = "live"
      /\ UNCHANGED <<state, all, closed, thread, watchers, revived>>
    BY DEF Collect
<1>2. /\ \A u \in Types \ {t} : ref'[u] = ref[u] /\ typed'[u] = typed[u]
      /\ ref'[t] = "cleared" /\ typed'[t] = NoOutputs
    BY <1>1 DEF IInv, TypeOK
<1>3. \A u \in Types, p \in Outputs : typed'[u][p] = 0 \/ (u # t /\ typed'[u][p] = typed[u][p])
    BY <1>2 DEF NoOutputs
<1>4. TypeOK'
  <2>1. NoOutputs \in [Outputs -> 0..2] BY DEF NoOutputs
  <2> QED BY <1>1, <2>1 DEF IInv, TypeOK
<1>5. EmptyAfterFinish' BY <1>1, <1>2 DEF IInv, EmptyAfterFinish
<1>6. ListedIsActive' /\ WatchersLeave' BY <1>1 DEF IInv, ListedIsActive, WatchersLeave
<1>7. CachedWhenLive' BY <1>2 DEF IInv, CachedWhenLive, NoOutputs
<1>8. TypedHasType' /\ NotYetListed' BY <1>1, <1>3 DEF IInv, TypedHasType, NotYetListed
<1>9. NothingCleared' /\ TypedIsRestriction' BY <1>1 DEF NothingCleared, TypedIsRestriction
<1>10. NobodyMissed'
  <2>1. ASSUME NEW p \in all' PROVE Cached(Type[p], all)'[p] > 0
    <3>1. p \in all /\ p \in Outputs /\ Type[p] \in Types
        BY <1>1, OutputAssumption DEF IInv, TypeOK
    <3>2. CASE Type[p] = t BY <3>1, <3>2, <1>1, <1>2 DEF Cached
    <3>3. CASE Type[p] # t
      <4>1. Cached(Type[p], all)[p] > 0 BY <3>1 DEF IInv, NobodyMissed
      <4> QED BY <4>1, <3>1, <3>3, <1>1, <1>2 DEF Cached, NoOutputs
    <3> QED BY <3>2, <3>3
  <2>2. \A u \in Types, p \in Outputs :
          typed'[u][p] > 0 /\ p \notin all' => closed'[p] \/ p \in revived'
      BY <1>1, <1>3 DEF IInv, NobodyMissed
  <2> QED BY <2>1, <2>2 DEF NobodyMissed
<1>11. AutoFinished' BY <1>1 DEF IInv, AutoFinished, isFinishing
<1> QED BY <1>4, <1>5, <1>6, <1>7, <1>8, <1>9, <1>10, <1>11 DEF IInv

-----------------------------------------------------------------------------
(* The inductive invariant holds of every behaviour of the list.           *)
LEMMA Invariance == Spec => []IInv
<1>1. ASSUME Init PROVE IInv
  <2>1. \A t \in Types, p \in Outputs : typed[t][p] = 0
      BY <1>1 DEF Init
  <2>2. TypeOK
    <3>1. typed \in [Types -> [Outputs -> 0..2]] BY <1>1 DEF Init
    <3>2. \A o \in Outputs : thread[o] \in Steps BY <1>1 DEF Init, Steps
    <3>3. thread \in [Outputs -> Steps] BY <1>1, <3>2 DEF Init
    <3> QED BY <1>1, <3>1, <3>3 DEF Init, TypeOK
  <2>3. CachedWhenLive /\ TypedHasType /\ NotYetListed
      BY <1>1, <2>1 DEF Init, CachedWhenLive, NoOutputs, TypedHasType, NotYetListed
  <2>4. EmptyAfterFinish /\ ListedIsActive /\ WatchersLeave /\ NothingCleared
      BY <1>1 DEF Init, EmptyAfterFinish, ListedIsActive, WatchersLeave, NothingCleared
  <2>5. TypedIsRestriction /\ NobodyMissed
      BY <1>1, <2>1 DEF Init, TypedIsRestriction, NobodyMissed
  <2>6. AutoFinished
      BY <1>1 DEF Init, AutoFinished
  <2> QED BY <2>2, <2>3, <2>4, <2>5, <2>6 DEF IInv
<1>2. IInv /\ [Next]_vars => IInv'
  <2> SUFFICES ASSUME IInv, [Next]_vars PROVE IInv'
      OBVIOUS
  <2>1. ASSUME NEW o \in Outputs,
               Add(o) \/ AddRefused(o) \/ Stop(o) \/ Abort(o) \/ Run(o) \/ WriteFails(o)
        PROVE  IInv'
      BY <2>1, AddStep, QuietSteps, RemoveStep DEF Run
  <2>2. ASSUME NEW t \in Types, OutputPacket(t) \/ Collect(t) PROVE IInv'
      BY <2>2, PacketStep, CollectStep
  <2>3. CASE FinishBegin \/ FinishEnd BY <2>3, FinishSteps
  <2>4. CASE UNCHANGED vars
    <3>1. TypeOK BY DEF IInv
    <3>2. Quiet BY <2>4, <3>1 DEF vars, Quiet, list, TypeOK, Active
    <3> QED BY <3>2, QuietPreserves
  <2> QED BY <2>1, <2>2, <2>3, <2>4 DEF Next
<1> QED BY <1>1, <1>2, PTL DEF Spec

(* Every variable keeps its type; no output is in a typed list more than    *)
(* twice (MediaOutputStreamRunnableList:23-30).                            *)
THEOREM Typing == Spec => []TypeOK
BY Invariance, PTL DEF IInv

(* addMediaOutputStreamRunnable asks isFinishing under the monitor in       *)
(* which finish() clears the list (RtspMediaServer:676-680, 121-130).      *)
THEOREM NothingAfterFinish == Spec => []EmptyAfterFinish
BY Invariance, PTL DEF IInv

(* The list holds only outputs whose thread will still remove them, and     *)
(* they are the watchers.                                                  *)
THEOREM Listing == Spec => [](ListedIsActive /\ WatchersLeave)
BY Invariance, PTL DEF IInv

(* The typed lists follow the main list: exactly as long as the collector   *)
(* clears nothing, and up to duplicates and closed left-overs always.      *)
THEOREM TypedFollows == Spec => [](TypedIsRestriction /\ NobodyMissed)
BY Invariance, PTL DEF IInv

(* The last output of an auto-finish source finishes it.                   *)
THEOREM LastOneFinishes == Spec => []AutoFinished
BY Invariance, PTL DEF IInv
-----------------------------------------------------------------------------
(* An output that is about to run, or runs, and is listed no more.         *)
DroppedIsClosed ==
    \A o \in Outputs : thread[o] \in {"added", "running"} => o \in all \/ closed[o] \/ o \in revived

LEMMA DroppedStep ==
    ASSUME IInv, DroppedIsClosed, [Next]_vars
    PROVE  DroppedIsClosed'
<1> USE DEF IInv, TypeOK, DroppedIsClosed, Goes, list
<1>1. ASSUME NEW o \in Outputs, Add(o) PROVE DroppedIsClosed'
    BY <1>1 DEF Add, ListAdd
<1>2. ASSUME NEW o \in Outputs, AddRefused(o) \/ Abort(o) PROVE DroppedIsClosed'
    BY <1>2 DEF AddRefused, Abort
<1>3. ASSUME NEW o \in Outputs, Stop(o) PROVE DroppedIsClosed'
    BY <1>3 DEF Stop
<1>4. ASSUME NEW o \in Outputs, Start(o) PROVE DroppedIsClosed'
  <2>1. /\ all' = all /\ revived \subseteq revived'
        /\ \A q \in Outputs \ {o} : thread'[q] = thread[q] /\ closed'[q] = closed[q]
      BY <1>4 DEF Start
  <2>2. thread[o] = "added" /\ (closed[o] => closed'[o] \/ o \in revived')
      BY <1>4 DEF Start
  <2> QED BY <2>1, <2>2
<1>5. ASSUME NEW o \in Outputs, SeeClosed(o) \/ WriteFails(o) PROVE DroppedIsClosed'
    BY <1>5 DEF SeeClosed, WriteFails
<1>6. ASSUME NEW o \in Outputs, Remove(o) PROVE DroppedIsClosed'
  <2>1. \A q \in Outputs \ {o} : q \in all => q \in all'
      BY <1>6 DEF Remove, ListRemove
  <2>2. /\ thread'[o] = "done" /\ revived' = revived
        /\ \A q \in Outputs \ {o} : thread'[q] = thread[q] /\ closed'[q] = closed[q]
      BY <1>6 DEF Remove
  <2> QED BY <2>1, <2>2
<1>7. ASSUME NEW t \in Types, OutputPacket(t) PROVE DroppedIsClosed'
  <2>1. PICK errors \in SUBSET Outputs :
              /\ all' = all \ errors
              /\ closed' = [o \in Outputs |-> closed[o] \/ o \in errors]
      BY <1>7 DEF OutputPacket, ListRemove
  <2> QED BY <1>7, <2>1 DEF OutputPacket
<1>8. ASSUME NEW t \in Types, Collect(t) PROVE DroppedIsClosed'
    BY <1>8 DEF Collect
<1>9. CASE FinishBegin
    BY <1>9 DEF FinishBegin
<1>10. CASE FinishEnd
    BY <1>10 DEF FinishEnd, ListClear
<1>11. CASE UNCHANGED vars
    BY <1>11 DEF vars
<1> QED BY <1>1, <1>2, <1>3, <1>4, <1>5, <1>6, <1>7, <1>8, <1>9, <1>10, <1>11 DEF Next, Run

(* Nobody is dropped from the list of a source and left to run: an output  *)
(* that gets no packets any more has been closed, so its thread ends, but  *)
(* for one that start() reopened after it was closed                       *)
(* (RtspMediaServer:121-130, 676-680; MediaOutputStreamRunnableList).      *)
THEOREM WhoIsDroppedEnds == Spec => []DroppedIsClosed
<1>1. Init => DroppedIsClosed
    BY DEF Init, DroppedIsClosed
<1> QED BY <1>1, DroppedStep, Invariance, PTL DEF Spec
=============================================================================
