-------------------------- MODULE MapKeyLockProofs --------------------------
(* Proofs about the lock of the pulls, for every set of calls and tokens.  *)
EXTENDS MapKeyLock, TLAPS

(* A list that is walked was put by a call that will put no other.         *)
WalkedIsOld == \A c \in Calls : pc[c] = "notify" => pc[taken[c]] \notin {"new", "own", "join"}

(* The iterator never is behind the end of its list. *)
CursorsInList == \A c \in Calls : pc[c] = "notify" => cursor[c] \leq Len(Walked(c))

IInv ==
    /\ TypeOK
    /\ EntryHasRemover
    /\ WalkedIsOld
    /\ OneRemover
    /\ CursorsInList
    /\ Remembered

(* A call is on a list, at or after a place. *)
OnList(c, list, from) == \E i \in from .. Len(list) : list[i] = c

(* Remembered for one call: its lock is on the list in the map or ahead of *)
(* a cursor.                                                               *)
LEMMA RememberedIs ==
    ASSUME TypeOK
    PROVE  Remembered <=>
        \A c \in Calls : pc[c] \in {"enlisted", "sleeping"} /\ c \notin raced =>
            \/ Entry(c) # None /\ OnList(c, locks[Entry(c)], 1)
            \/ \E d \in Calls : pc[d] = "notify" /\ OnList(c, Walked(d), cursor[d] + 1)
<1>1. \A c \in Calls : Entry(c) # None => Entry(c) \in Calls
    BY CallAssumption DEF TypeOK, Entry
<1>2. \A d \in Calls : DOMAIN locks[d] = 1 .. Len(locks[d])
    BY DEF TypeOK
<1>3. \A c \in Calls : Entry(c) # None => DOMAIN locks[Entry(c)] = 1 .. Len(locks[Entry(c)])
    BY <1>1, <1>2
<1> QED BY <1>3 DEF Remembered, OnList

(* The same in the next state. *)
LEMMA RememberedPrime ==
    ASSUME TypeOK'
    PROVE  Remembered' <=>
        \A c \in Calls : pc'[c] \in {"enlisted", "sleeping"} /\ c \notin raced' =>
            \/ Entry(c)' # None /\ OnList(c, locks'[Entry(c)'], 1)
            \/ \E d \in Calls : pc'[d] = "notify" /\ OnList(c, Walked(d)', cursor'[d] + 1)
<1>1. \A c \in Calls : Entry(c)' # None => Entry(c)' \in Calls
    BY CallAssumption DEF TypeOK, Entry
<1>2. \A d \in Calls : DOMAIN locks'[d] = 1 .. Len(locks'[d])
    BY DEF TypeOK
<1>3. \A c \in Calls : Entry(c)' # None => DOMAIN locks'[Entry(c)'] = 1 .. Len(locks'[Entry(c)'])
    BY <1>1, <1>2
<1> QED BY <1>3 DEF Remembered, OnList

-----------------------------------------------------------------------------
(* Steps that change neither the map nor a list nor a cursor, and move one  *)
(* call between places of the same kind.                                   *)
LEMMA QuietSteps ==
    ASSUME IInv, NEW c \in Calls,
           Ask(c) \/ Sleep(c) \/ Timeout(c) \/ LookUp(c) \/ Connect(c)
    PROVE  IInv'
<1>1. /\ UNCHANGED <<mMapLock, locks, holder, taken, cursor, expected, raced>>
      /\ source' \subseteq Tokens
    BY CallAssumption DEF Ask, Sleep, Timeout, LookUp, Connect, IInv, TypeOK, iterator
<1>2. PICK to : pc' = [pc EXCEPT ![c] = to] /\
        \/ pc[c] = "new" /\ to \in {"own", "join"}
        \/ pc[c] = "enlisted" /\ to = "sleeping"
        \/ pc[c] = "sleeping" /\ to = "work"
        \/ pc[c] = "work" /\ to \in {"leave", "connecting"}
        \/ pc[c] = "connecting" /\ to = "leave"
    BY DEF Ask, Sleep, Timeout, LookUp, Connect, Goes
<1>3. TypeOK' BY <1>1, <1>2 DEF IInv, TypeOK, Steps, Holding
<1>4. EntryHasRemover'
    BY <1>1, <1>2, CallAssumption DEF IInv, TypeOK, EntryHasRemover, Holding
<1>5. WalkedIsOld' /\ OneRemover' BY <1>1, <1>2 DEF IInv, TypeOK, WalkedIsOld, OneRemover
<1>6. Remembered'
  <2>1. \A e \in Calls : pc'[e] \in {"enlisted", "sleeping"} => pc[e] \in {"enlisted", "sleeping"}
      BY <1>2 DEF IInv, TypeOK
  <2>2. \A d \in Calls : pc[d] = "notify" => pc'[d] = "notify"
      BY <1>2 DEF IInv, TypeOK
  <2>3. \A d \in Calls : Walked(d)' = Walked(d) /\ Entry(d)' = Entry(d)
      BY <1>1 DEF Walked, Entry
  <2> QED BY <1>1, <2>1, <2>2, <2>3 DEF IInv, Remembered
<1>7. CursorsInList' BY <1>1, <1>2 DEF IInv, TypeOK, CursorsInList, Walked
<1> QED BY <1>3, <1>4, <1>5, <1>6, <1>7 DEF IInv

(* The entry of a token is created, by a call that had none before. *)
LEMMA EnterSteps == ASSUME IInv, NEW c \in Calls, Own(c) \/ Fetch(c) PROVE IInv'
<1>1. /\ UNCHANGED <<locks, cursor, expected, source, raced>>
      /\ mMapLock' = [mMapLock EXCEPT ![Token[c]] = IF @ = None THEN c ELSE @]
    BY CallAssumption DEF Own, Fetch, Entry, iterator, IInv, TypeOK
<1>2. \/ /\ pc[c] = "own" /\ pc' = [pc EXCEPT ![c] = "work"] /\ UNCHANGED <<holder, taken>>
      \/ /\ pc[c] = "join" /\ pc' = [pc EXCEPT ![c] = "add"] /\ holder' = c
         /\ taken' = [taken EXCEPT ![c] = IF Entry(c) = None THEN c ELSE Entry(c)]
    BY DEF Own, Fetch, Goes
<1>3. Token[c] \in Tokens /\ (Entry(c) = None \/ Entry(c) \in Calls)
    BY CallAssumption DEF IInv, TypeOK, Entry
<1>4. TypeOK'
  <2>1. mMapLock' \in [Tokens -> Calls \cup {None}] /\ source' \subseteq Tokens /\ raced' \subseteq Calls
      BY <1>1 DEF IInv, TypeOK
  <2>2. pc' \in [Calls -> Steps] /\ holder' \in Calls \cup {None}
      BY <1>2 DEF IInv, TypeOK, Steps, Holding
  <2>3. CASE pc[c] = "own"
    <3>1. taken' = taken /\ \A e \in Calls : pc'[e] \in {"add", "notify"} => pc[e] = pc'[e]
        BY <1>2, <2>3 DEF IInv, TypeOK
    <3> QED BY <1>1, <2>1, <2>2, <3>1 DEF IInv, TypeOK
  <2>4. CASE pc[c] = "join"
    <3>1. /\ taken' = [taken EXCEPT ![c] = IF Entry(c) = None THEN c ELSE Entry(c)]
          /\ \A e \in Calls : pc'[e] \in {"add", "notify"} => e = c \/ pc[e] = pc'[e]
        BY <1>2, <2>4 DEF IInv, TypeOK
    <3>2. taken' \in [Calls -> Calls \cup {None}] /\ taken'[c] \in Calls
        BY <1>3, <3>1 DEF IInv, TypeOK
    <3>3. \A e \in Calls \ {c} : taken'[e] = taken[e]
        BY <3>1 DEF IInv, TypeOK
    <3> QED BY <1>1, <2>1, <2>2, <3>1, <3>2, <3>3 DEF IInv, TypeOK
  <2> QED BY <1>2, <2>3, <2>4
<1>5. \A k \in Tokens : mMapLock'[k] = IF k = Token[c] /\ mMapLock[k] = None THEN c ELSE mMapLock[k]
    BY <1>1, <1>3 DEF IInv, TypeOK
<1>6. EntryHasRemover'
  <2>1. pc'[c] \in Holding /\ \A e \in Calls \ {c} : pc'[e] = pc[e]
      BY <1>2 DEF IInv, TypeOK, Holding
  <2>2. pc[c] \notin Holding
      BY <1>2 DEF Holding
  <2> SUFFICES ASSUME NEW k \in Tokens, mMapLock'[k] # None
               PROVE  Token[mMapLock'[k]] = k /\ pc'[mMapLock'[k]] \in Holding
      BY DEF EntryHasRemover
  <2>3. CASE mMapLock'[k] = mMapLock[k]
    <3>1. mMapLock[k] \in Calls /\ pc[mMapLock[k]] \in Holding /\ Token[mMapLock[k]] = k
        BY <2>3 DEF IInv, TypeOK, EntryHasRemover
    <3> QED BY <2>1, <2>2, <2>3, <3>1
  <2>4. CASE mMapLock'[k] # mMapLock[k] BY <2>1, <2>4, <1>5
  <2> QED BY <2>3, <2>4
<1>7. WalkedIsOld' BY <1>2 DEF IInv, TypeOK, WalkedIsOld
<1>8. \A d \in Calls : pc'[d] = "notify" <=> pc[d] = "notify"
    BY <1>2 DEF IInv, TypeOK
<1>9. \A d \in Calls : pc[d] = "notify" => taken'[d] = taken[d] /\ taken[d] # c /\ d # c
    BY <1>2 DEF IInv, TypeOK, WalkedIsOld
<1>10. OneRemover' BY <1>5, <1>8, <1>9 DEF IInv, OneRemover
<1>11. Remembered'
  <2>1. \A e \in Calls : Entry(e) # None => Entry(e)' = Entry(e)
      BY <1>5, CallAssumption DEF Entry
  <2>2. \A e \in Calls : pc'[e] \in {"enlisted", "sleeping"} => pc[e] = pc'[e]
      BY <1>2 DEF IInv, TypeOK
  <2>3. \A d \in Calls : pc[d] = "notify" => Walked(d)' = Walked(d)
      BY <1>1, <1>9 DEF Walked
  <2> QED BY <1>1, <1>8, <2>1, <2>2, <2>3 DEF IInv, Remembered
<1>12. CursorsInList' BY <1>1, <1>8, <1>9 DEF IInv, CursorsInList, Walked
<1> QED BY <1>4, <1>6, <1>7, <1>10, <1>11, <1>12 DEF IInv

(* A lock is appended to the list the call holds. *)
LEMMA AddStep == ASSUME IInv, NEW c \in Calls, Add(c) PROVE IInv'
<1>1. /\ UNCHANGED <<mMapLock, taken, cursor, expected, source>>
      /\ pc[c] = "add" /\ pc' = [pc EXCEPT ![c] = "enlisted"] /\ holder' = None
      /\ locks' = [locks EXCEPT ![taken[c]] = Append(@, c)]
      /\ raced' = IF Entry(c) = taken[c] THEN raced ELSE raced \cup {c}
    BY DEF Add, Goes, iterator
<1>2. taken[c] \in Calls /\ locks[taken[c]] \in Seq(Calls)
    BY <1>1 DEF IInv, TypeOK
<1>3. TypeOK' BY <1>1, <1>2 DEF IInv, TypeOK, Steps, Holding
<1>4. EntryHasRemover'
    BY <1>1, CallAssumption DEF IInv, TypeOK, EntryHasRemover, Holding
<1>5. WalkedIsOld' /\ OneRemover' BY <1>1 DEF IInv, TypeOK, WalkedIsOld, OneRemover
<1>6. ASSUME NEW e \in Calls, NEW l \in Calls, NEW n \in Nat \ {0}, OnList(e, locks[l], n)
      PROVE  OnList(e, locks'[l], n)
  <2>1. PICK i \in n .. Len(locks[l]) : locks[l][i] = e
      BY <1>6 DEF OnList
  <2>2. CASE l # taken[c]
      BY <1>1, <1>6, <2>2 DEF IInv, TypeOK
  <2>3. CASE l = taken[c]
    <3>1. locks'[l] = Append(locks[l], c)
        BY <1>1, <2>3 DEF IInv, TypeOK
    <3>2. locks[l] \in Seq(Calls) /\ i \in 1 .. Len(locks[l])
        BY <1>2, <2>1, <2>3
    <3>3. Len(locks'[l]) = Len(locks[l]) + 1 /\ locks'[l][i] = e
        BY <2>1, <3>1, <3>2
    <3> QED BY <2>1, <3>2, <3>3 DEF OnList
  <2> QED BY <2>2, <2>3
<1>7. c \notin raced' => Entry(c) # None /\ OnList(c, locks'[Entry(c)], 1)
  <2> SUFFICES ASSUME c \notin raced' PROVE Entry(c) # None /\ OnList(c, locks'[Entry(c)], 1)
      OBVIOUS
  <2>1. Entry(c) = taken[c] /\ Entry(c) # None
      BY <1>1, <1>2, CallAssumption
  <2>2. locks'[taken[c]] = Append(locks[taken[c]], c)
      BY <1>1, <1>2 DEF IInv, TypeOK
  <2>3. /\ Len(locks'[taken[c]]) = Len(locks[taken[c]]) + 1
        /\ locks'[taken[c]][Len(locks[taken[c]]) + 1] = c
      BY <1>2, <2>2
  <2>4. Len(locks[taken[c]]) \in Nat BY <1>2
  <2> QED BY <2>1, <2>3, <2>4 DEF OnList
<1>8. Remembered'
  <2> SUFFICES ASSUME NEW e \in Calls, pc'[e] \in {"enlisted", "sleeping"}, e \notin raced'
               PROVE  \/ Entry(e) # None /\ OnList(e, locks'[Entry(e)], 1)
                      \/ \E d \in Calls : pc'[d] = "notify" /\ OnList(e, Walked(d)', cursor[d] + 1)
      BY <1>1, <1>3, RememberedPrime DEF Entry
  <2>1. CASE e = c BY <1>7, <2>1
  <2>2. CASE e # c
    <3>1. pc[e] \in {"enlisted", "sleeping"} /\ e \notin raced
        BY <1>1, <2>2 DEF IInv, TypeOK
    <3>2. CASE Entry(e) # None /\ OnList(e, locks[Entry(e)], 1)
        BY <1>6, <3>2, CallAssumption DEF IInv, TypeOK, Entry
    <3>3. CASE \E d \in Calls : pc[d] = "notify" /\ OnList(e, Walked(d), cursor[d] + 1)
      <4>1. PICK d \in Calls : pc[d] = "notify" /\ OnList(e, Walked(d), cursor[d] + 1)
          BY <3>3
      <4>2. taken[d] \in Calls /\ cursor[d] + 1 \in Nat \ {0} /\ pc'[d] = "notify"
        <5>1. d # c BY <4>1, <1>1
        <5>2. pc'[d] = pc[d] BY <5>1, <1>1 DEF IInv, TypeOK
        <5>3. taken[d] \in Calls /\ cursor[d] \in Nat BY <4>1 DEF IInv, TypeOK
        <5> QED BY <4>1, <5>2, <5>3
      <4> QED BY <4>1, <4>2, <1>1, <1>6 DEF Walked
    <3> QED BY <3>1, <3>2, <3>3, RememberedIs DEF IInv
  <2> QED BY <2>1, <2>2
<1>9. CursorsInList'
  <2> SUFFICES ASSUME NEW d \in Calls, pc'[d] = "notify" PROVE cursor[d] \leq Len(locks'[taken[d]])
      BY <1>1 DEF CursorsInList, Walked
  <2>1. pc[d] = "notify" /\ taken[d] \in Calls /\ cursor[d] \in Nat
      BY <1>1 DEF IInv, TypeOK
  <2>2. cursor[d] \leq Len(locks[taken[d]]) /\ Len(locks[taken[d]]) \in Nat
      BY <2>1 DEF IInv, TypeOK, CursorsInList, Walked
  <2>3. CASE taken[d] = taken[c]
    <3>1. locks'[taken[d]] = Append(locks[taken[c]], c) BY <1>1, <1>2, <2>3 DEF IInv, TypeOK
    <3>2. Len(locks'[taken[d]]) = Len(locks[taken[d]]) + 1 BY <1>2, <2>3, <3>1
    <3> QED BY <2>1, <2>2, <3>2
  <2>4. CASE taken[d] # taken[c]
    <3>1. locks'[taken[d]] = locks[taken[d]] BY <1>1, <2>1, <2>4 DEF IInv, TypeOK
    <3> QED BY <2>2, <3>1
  <2> QED BY <2>3, <2>4
<1> QED BY <1>3, <1>4, <1>5, <1>8, <1>9 DEF IInv

-----------------------------------------------------------------------------
(* The entry of the call's token is removed, by one call. *)
LEMMA LeaveStep == ASSUME IInv, NEW c \in Calls, Leave(c) PROVE IInv'
<1>1. /\ UNCHANGED <<locks, holder, source, raced>>
      /\ pc[c] = "leave"
      /\ pc' = [pc EXCEPT ![c] = IF Entry(c) = None THEN "returned" ELSE "notify"]
      /\ taken' = [taken EXCEPT ![c] = Entry(c)]
      /\ mMapLock' = [mMapLock EXCEPT ![Token[c]] = None]
      /\ cursor' = [cursor EXCEPT ![c] = 0]
      /\ expected' = [expected EXCEPT ![c] = IF Entry(c) = None THEN 0 ELSE Len(locks[Entry(c)])]
    BY DEF Leave, Goes
<1>2. Token[c] \in Tokens /\ Entry(c) \in Calls \cup {None} /\ None \notin Calls
    BY CallAssumption DEF IInv, TypeOK, Entry
<1>3. /\ \A d \in Calls \ {c} : pc'[d] = pc[d] /\ taken'[d] = taken[d] /\ cursor'[d] = cursor[d]
      /\ pc'[c] = IF Entry(c) = None THEN "returned" ELSE "notify"
      /\ taken'[c] = Entry(c) /\ cursor'[c] = 0
      /\ \A k \in Tokens : mMapLock'[k] = IF k = Token[c] THEN None ELSE mMapLock[k]
    BY <1>1 DEF IInv, TypeOK
<1>4. TypeOK'
  <2>1. pc' \in [Calls -> Steps]
      BY <1>1 DEF IInv, TypeOK, Steps
  <2>2. taken' \in [Calls -> Calls \cup {None}] /\ cursor' \in [Calls -> Nat]
        /\ mMapLock' \in [Tokens -> Calls \cup {None}]
      BY <1>1, <1>2 DEF IInv, TypeOK
  <2>3. (IF Entry(c) = None THEN 0 ELSE Len(locks[Entry(c)])) \in Nat
      BY <1>2 DEF IInv, TypeOK
  <2>4. expected' \in [Calls -> Nat]
      BY <1>1, <2>3 DEF IInv, TypeOK
  <2>5. \A d \in Calls : pc'[d] \in {"add", "notify"} => taken'[d] \in Calls
      BY <1>2, <1>3 DEF IInv, TypeOK
  <2> QED BY <1>1, <2>1, <2>2, <2>4, <2>5 DEF IInv, TypeOK
<1>5. EntryHasRemover'
  <2> SUFFICES ASSUME NEW k \in Tokens, mMapLock'[k] # None
               PROVE  Token[mMapLock'[k]] = k /\ pc'[mMapLock'[k]] \in Holding
      BY DEF EntryHasRemover
  <2>1. k # Token[c] /\ mMapLock'[k] = mMapLock[k]
      BY <1>3
  <2>2. mMapLock[k] \in Calls /\ Token[mMapLock[k]] = k /\ pc[mMapLock[k]] \in Holding
      BY <2>1 DEF IInv, TypeOK, EntryHasRemover
  <2> QED BY <2>1, <2>2, <1>3
<1>6. Entry(c) # None => Token[Entry(c)] = Token[c] /\ pc[Entry(c)] \in Holding
    BY <1>2 DEF IInv, EntryHasRemover, Entry
<1>7. WalkedIsOld'
  <2> SUFFICES ASSUME NEW d \in Calls, pc'[d] = "notify"
               PROVE  pc'[taken'[d]] \notin {"new", "own", "join"}
      BY DEF WalkedIsOld
  <2>1. CASE d = c
    <3>1. taken'[d] \in Calls /\ pc[taken'[d]] \in Holding BY <2>1, <1>2, <1>3, <1>6
    <3> QED BY <3>1, <1>3 DEF Holding
  <2>2. CASE d # c
    <3>1. pc[d] = "notify" /\ taken'[d] = taken[d] BY <2>2, <1>3
    <3>2. taken[d] \in Calls /\ pc[taken[d]] \notin {"new", "own", "join"}
        BY <3>1 DEF IInv, TypeOK, WalkedIsOld
    <3> QED BY <3>1, <3>2, <1>3
  <2> QED BY <2>1, <2>2
<1>8. OneRemover'
  <2>1. \A k \in Tokens : mMapLock[k] # None => Token[mMapLock[k]] = k
      BY DEF IInv, EntryHasRemover
  <2>2. \A d \in Calls : pc[d] = "notify" =>
            /\ \A k \in Tokens : mMapLock[k] # taken[d]
            /\ \A e \in Calls \ {d} : pc[e] = "notify" => taken[e] # taken[d]
      BY DEF IInv, OneRemover
  <2>3. Entry(c) # None => \A k \in Tokens \ {Token[c]} : mMapLock[k] # Entry(c)
      BY <2>1, <1>6
  <2>4. pc'[c] = "notify" => Entry(c) # None /\ \A d \in Calls \ {c} : pc[d] = "notify" => taken[d] # Entry(c)
      BY <2>2, <1>2, <1>3 DEF Entry
  <2>5. \A d \in Calls : pc'[d] = "notify" => taken'[d] \in Calls
      BY <1>4 DEF TypeOK
  <2>6. \A d \in Calls : pc'[d] = "notify" => \A k \in Tokens : mMapLock'[k] # taken'[d]
      BY <2>2, <2>3, <2>4, <2>5, <1>2, <1>3
  <2>7. \A d, e \in Calls : d # e /\ pc'[d] = "notify" /\ pc'[e] = "notify" => taken'[d] # taken'[e]
      BY <2>2, <2>4, <1>3
  <2> QED BY <2>6, <2>7 DEF OneRemover
<1>9. Remembered'
  <2> SUFFICES ASSUME NEW e \in Calls, pc'[e] \in {"enlisted", "sleeping"}, e \notin raced'
               PROVE  \/ Entry(e)' # None /\ OnList(e, locks'[Entry(e)'], 1)
                      \/ \E d \in Calls : pc'[d] = "notify" /\ OnList(e, Walked(d)', cursor'[d] + 1)
      BY <1>4, RememberedPrime
  <2>1. e # c /\ pc[e] \in {"enlisted", "sleeping"} /\ e \notin raced
      BY <1>1, <1>3
  <2>2. CASE Entry(e) # None /\ OnList(e, locks[Entry(e)], 1)
    <3>1. CASE Token[e] = Token[c]
      <4>1. Entry(e) = Entry(c) BY <3>1 DEF Entry
      <4>2. pc'[c] = "notify" /\ Walked(c)' = locks[Entry(e)] /\ cursor'[c] + 1 = 1
          BY <4>1, <2>2, <1>1, <1>3 DEF Walked
      <4> QED BY <2>2, <4>2
    <3>2. CASE Token[e] # Token[c]
      <4>1. Entry(e)' = Entry(e) BY <3>2, <1>3, CallAssumption DEF Entry
      <4> QED BY <4>1, <2>2, <1>1
    <3> QED BY <3>1, <3>2
  <2>3. CASE \E d \in Calls : pc[d] = "notify" /\ OnList(e, Walked(d), cursor[d] + 1)
    <3>1. PICK d \in Calls : pc[d] = "notify" /\ OnList(e, Walked(d), cursor[d] + 1)
        BY <2>3
    <3>2. d # c BY <3>1, <1>1
    <3>3. pc'[d] = "notify" /\ Walked(d)' = Walked(d) /\ cursor'[d] = cursor[d]
        BY <3>1, <3>2, <1>1, <1>3 DEF Walked
    <3> QED BY <3>1, <3>3
  <2> QED BY <2>1, <2>2, <2>3, RememberedIs DEF IInv
<1>10. CursorsInList'
  <2> SUFFICES ASSUME NEW d \in Calls, pc'[d] = "notify" PROVE cursor'[d] \leq Len(locks[taken'[d]])
      BY <1>1 DEF CursorsInList, Walked
  <2>1. CASE d = c
    <3>1. taken'[d] \in Calls BY <1>4 DEF TypeOK
    <3>2. Len(locks[taken'[d]]) \in Nat BY <3>1 DEF IInv, TypeOK
    <3> QED BY <2>1, <3>2, <1>3
  <2>2. CASE d # c BY <2>2, <1>3 DEF IInv, CursorsInList, Walked
  <2> QED BY <2>1, <2>2
<1> QED BY <1>4, <1>5, <1>7, <1>8, <1>9, <1>10 DEF IInv

(* The walk over a removed list. *)
LEMMA WalkedIsList ==
    ASSUME IInv, NEW c \in Calls, pc[c] = "notify"
    PROVE  /\ taken[c] \in Calls /\ Walked(c) \in Seq(Calls) /\ cursor[c] \in Nat
           /\ \A k \in Tokens : mMapLock[k] # taken[c]
           /\ \A e \in Calls \ {c} : pc[e] = "notify" => taken[e] # taken[c]
BY DEF IInv, TypeOK, Walked, OneRemover

(* A call that is remembered stays so if its place is kept. *)
LEMMA KeptRemembered ==
    ASSUME IInv, TypeOK', UNCHANGED mMapLock,
           \A e \in Calls : pc'[e] \in {"enlisted", "sleeping"} /\ e \notin raced' =>
               /\ pc[e] \in {"enlisted", "sleeping"} /\ e \notin raced
               /\ Entry(e) # None => locks'[Entry(e)] = locks[Entry(e)]
               /\ \A d \in Calls : pc[d] = "notify" /\ OnList(e, Walked(d), cursor[d] + 1) =>
                      pc'[d] = "notify" /\ OnList(e, Walked(d)', cursor'[d] + 1)
    PROVE  Remembered'
<1> SUFFICES ASSUME NEW e \in Calls, pc'[e] \in {"enlisted", "sleeping"}, e \notin raced'
             PROVE  \/ Entry(e)' # None /\ OnList(e, locks'[Entry(e)'], 1)
                    \/ \E d \in Calls : pc'[d] = "notify" /\ OnList(e, Walked(d)', cursor'[d] + 1)
    BY RememberedPrime
<1>1. Entry(e)' = Entry(e)
    BY DEF Entry
<1>2. \/ Entry(e) # None /\ OnList(e, locks[Entry(e)], 1)
      \/ \E d \in Calls : pc[d] = "notify" /\ OnList(e, Walked(d), cursor[d] + 1)
    BY RememberedIs DEF IInv
<1> QED BY <1>1, <1>2

(* Waking the next lock of a list (MapKeyLock:68-72) keeps the invariant.  *)
LEMMA NotifyStep == ASSUME IInv, NEW c \in Calls, pc[c] = "notify", Notify(c) PROVE IInv'
<1> DEFINE w == Waiter(c)
<1>1. /\ UNCHANGED <<mMapLock, locks, holder, taken, expected, source>>
      /\ cursor[c] # Len(Walked(c)) /\ expected[c] = Len(Walked(c))
      /\ cursor' = [cursor EXCEPT ![c] = @ + 1]
      /\ \/ pc[w] = "sleeping" /\ pc' = [pc EXCEPT ![w] = "work"] /\ raced' = raced
         \/ pc[w] # "sleeping" /\ raced' = raced \cup {w} /\ pc' = pc
    BY DEF Notify
<1>2. /\ taken[c] \in Calls /\ Walked(c) \in Seq(Calls) /\ cursor[c] \in Nat
      /\ cursor[c] \in 0 .. Len(Walked(c)) - 1
    BY <1>1, WalkedIsList DEF IInv, CursorsInList
<1>3. w \in Calls
    BY <1>2 DEF Waiter
<1>4. TypeOK'
  <2>1. cursor' \in [Calls -> Nat] /\ raced' \subseteq Calls
    <3>1. cursor[c] + 1 \in Nat BY <1>2
    <3>2. cursor \in [Calls -> Nat] /\ raced \subseteq Calls BY DEF IInv, TypeOK
    <3> QED BY <3>1, <3>2, <1>1, <1>3
  <2>2. pc' \in [Calls -> Steps] /\ \A e \in Calls : pc'[e] \in {"add", "notify"} => pc[e] = pc'[e]
      BY <1>1, <1>3 DEF IInv, TypeOK, Steps, Holding
  <2> QED BY <1>1, <2>1, <2>2 DEF IInv, TypeOK
<1>5. \A d \in Calls : pc'[d] = pc[d] \/ (d = w /\ pc[w] = "sleeping" /\ pc'[d] = "work")
    BY <1>1, <1>3 DEF IInv, TypeOK
<1>6. EntryHasRemover' BY <1>1, <1>5, SMTT(30) DEF IInv, TypeOK, EntryHasRemover, Holding
<1>7. WalkedIsOld' /\ OneRemover'
    BY <1>1, <1>5, SMTT(30) DEF IInv, TypeOK, WalkedIsOld, OneRemover
<1>8. Remembered'
  <2> SUFFICES ASSUME NEW e \in Calls, pc'[e] \in {"enlisted", "sleeping"}, e \notin raced'
               PROVE  /\ pc[e] \in {"enlisted", "sleeping"} /\ e \notin raced
                      /\ Entry(e) # None => locks'[Entry(e)] = locks[Entry(e)]
                      /\ \A d \in Calls : pc[d] = "notify" /\ OnList(e, Walked(d), cursor[d] + 1) =>
                             pc'[d] = "notify" /\ OnList(e, Walked(d)', cursor'[d] + 1)
      BY <1>1, <1>4, KeptRemembered
  <2>1. pc[e] \in {"enlisted", "sleeping"} /\ e \notin raced /\ e # w
    <3>1. pc[w] = "sleeping" => pc'[w] = "work"
        BY <1>1, <1>3 DEF IInv, TypeOK
    <3> QED BY <1>1, <1>3, <1>5, <3>1
  <2>2. ASSUME NEW d \in Calls, pc[d] = "notify", OnList(e, Walked(d), cursor[d] + 1)
        PROVE  pc'[d] = "notify" /\ OnList(e, Walked(d)', cursor'[d] + 1)
    <3>1. pc'[d] = "notify" /\ Walked(d)' = Walked(d)
        BY <2>2, <1>1, <1>5 DEF Walked
    <3>2. CASE d = c
      <4>1. PICK i \in cursor[c] + 1 .. Len(Walked(c)) : Walked(c)[i] = e
          BY <2>2, <3>2 DEF OnList
      <4>2. i # cursor[c] + 1
          BY <4>1, <2>1 DEF Waiter
      <4>3. cursor'[c] = cursor[c] + 1 /\ i \in (cursor[c] + 1) + 1 .. Len(Walked(c))
          BY <4>1, <4>2, <1>1, <1>2 DEF IInv, TypeOK
      <4> QED BY <4>1, <4>3, <3>1, <3>2 DEF OnList
    <3>3. CASE d # c
      <4>1. cursor'[d] = cursor[d] BY <3>3, <1>1 DEF IInv, TypeOK
      <4> QED BY <2>2, <3>1, <4>1
    <3> QED BY <3>2, <3>3
  <2> QED BY <1>1, <2>1, <2>2
<1>9. CursorsInList'
  <2> SUFFICES ASSUME NEW d \in Calls, pc'[d] = "notify" PROVE cursor'[d] \leq Len(Walked(d)')
      BY DEF CursorsInList
  <2>1. pc[d] = "notify" /\ Walked(d)' = Walked(d) BY <1>1, <1>5 DEF Walked
  <2>2. CASE d = c
    <3>1. cursor'[c] = cursor[c] + 1 BY <1>1 DEF IInv, TypeOK
    <3> QED BY <2>1, <2>2, <3>1, <1>2
  <2>3. CASE d # c
    <3>1. cursor'[d] = cursor[d] BY <2>3, <1>1 DEF IInv, TypeOK
    <3> QED BY <2>1, <3>1 DEF IInv, CursorsInList
  <2> QED BY <2>2, <2>3
<1> QED BY <1>4, <1>6, <1>7, <1>8, <1>9 DEF IInv

(* So does the iterator that throws: who is left on the list has raced.    *)
LEMMA ThrowStep == ASSUME IInv, NEW c \in Calls, Throw(c) PROVE IInv'
<1>1. /\ UNCHANGED <<mMapLock, locks, holder, taken, cursor, expected, source>>
      /\ pc[c] = "notify" /\ pc' = [pc EXCEPT ![c] = "thrown"]
      /\ raced' = raced \cup {Walked(c)[i] : i \in cursor[c] + 1 .. Len(Walked(c))}
    BY DEF Throw, Goes, iterator
<1>2. /\ taken[c] \in Calls /\ Walked(c) \in Seq(Calls) /\ cursor[c] \in Nat
    BY <1>1, WalkedIsList
<1>3. TypeOK'
  <2>1. \A i \in cursor[c] + 1 .. Len(Walked(c)) : Walked(c)[i] \in Calls
      BY <1>2
  <2>2. raced' \subseteq Calls BY <1>1, <2>1 DEF IInv, TypeOK
  <2> QED BY <1>1, <2>2 DEF IInv, TypeOK, Steps
<1>4. EntryHasRemover' BY <1>1 DEF IInv, TypeOK, EntryHasRemover, Holding
<1>5. WalkedIsOld' /\ OneRemover' BY <1>1 DEF IInv, TypeOK, WalkedIsOld, OneRemover
<1>6. Remembered'
  <2> SUFFICES ASSUME NEW e \in Calls, pc'[e] \in {"enlisted", "sleeping"}, e \notin raced'
               PROVE  /\ pc[e] \in {"enlisted", "sleeping"} /\ e \notin raced
                      /\ Entry(e) # None => locks'[Entry(e)] = locks[Entry(e)]
                      /\ \A d \in Calls : pc[d] = "notify" /\ OnList(e, Walked(d), cursor[d] + 1) =>
                             pc'[d] = "notify" /\ OnList(e, Walked(d)', cursor'[d] + 1)
      BY <1>1, <1>3, KeptRemembered
  <2>1. pc[e] \in {"enlisted", "sleeping"} /\ e \notin raced
      BY <1>1 DEF IInv, TypeOK
  <2>2. ~OnList(e, Walked(c), cursor[c] + 1)
      BY <1>1 DEF OnList
  <2>3. \A d \in Calls : pc[d] = "notify" /\ d # c => pc'[d] = "notify"
      BY <1>1 DEF IInv, TypeOK
  <2> QED BY <1>1, <2>1, <2>2, <2>3 DEF Walked
<1>7. CursorsInList' BY <1>1 DEF IInv, TypeOK, CursorsInList, Walked
<1> QED BY <1>3, <1>4, <1>5, <1>6, <1>7 DEF IInv

(* And the clearing of the walked list (MapKeyLock:73).                    *)
LEMMA ReturnStep == ASSUME IInv, NEW c \in Calls, Return(c) PROVE IInv'
<1>1. /\ UNCHANGED <<mMapLock, holder, taken, cursor, expected, source, raced>>
      /\ pc[c] = "notify" /\ pc' = [pc EXCEPT ![c] = "returned"]
      /\ cursor[c] = Len(Walked(c))
      /\ locks' = [locks EXCEPT ![taken[c]] = <<>>]
    BY DEF Return, Goes, iterator
<1>2. /\ taken[c] \in Calls /\ Walked(c) \in Seq(Calls) /\ cursor[c] \in Nat
      /\ \A k \in Tokens : mMapLock[k] # taken[c]
      /\ \A e \in Calls \ {c} : pc[e] = "notify" => taken[e] # taken[c]
    BY <1>1, WalkedIsList
<1>3. TypeOK' BY <1>1, <1>2 DEF IInv, TypeOK, Steps
<1>4. EntryHasRemover' BY <1>1 DEF IInv, TypeOK, EntryHasRemover, Holding
<1>5. WalkedIsOld' /\ OneRemover' BY <1>1 DEF IInv, TypeOK, WalkedIsOld, OneRemover
<1>6. \A l \in Calls : l # taken[c] => locks'[l] = locks[l]
    BY <1>1 DEF IInv, TypeOK
<1>7. Remembered'
  <2> SUFFICES ASSUME NEW e \in Calls, pc'[e] \in {"enlisted", "sleeping"}, e \notin raced'
               PROVE  /\ pc[e] \in {"enlisted", "sleeping"} /\ e \notin raced
                      /\ Entry(e) # None => locks'[Entry(e)] = locks[Entry(e)]
                      /\ \A d \in Calls : pc[d] = "notify" /\ OnList(e, Walked(d), cursor[d] + 1) =>
                             pc'[d] = "notify" /\ OnList(e, Walked(d)', cursor'[d] + 1)
      BY <1>1, <1>3, KeptRemembered
  <2>1. pc[e] \in {"enlisted", "sleeping"} /\ e \notin raced
      BY <1>1 DEF IInv, TypeOK
  <2>2. ~OnList(e, Walked(c), cursor[c] + 1)
      BY <1>1, <1>2 DEF OnList
  <2>3. \A d \in Calls : pc[d] = "notify" /\ d # c => pc'[d] = "notify" /\ Walked(d)' = Walked(d)
    <3> SUFFICES ASSUME NEW d \in Calls, pc[d] = "notify", d # c
                 PROVE  pc'[d] = "notify" /\ Walked(d)' = Walked(d)
        OBVIOUS
    <3>1. pc'[d] = "notify" BY <1>1 DEF IInv, TypeOK
    <3>2. taken[d] \in Calls /\ taken[d] # taken[c] BY <1>2 DEF IInv, TypeOK
    <3> QED BY <3>1, <3>2, <1>1, <1>6 DEF Walked
  <2>4. Entry(e) # None => locks'[Entry(e)] = locks[Entry(e)]
    <3>1. Entry(e) # None => Entry(e) \in Calls /\ Entry(e) # taken[c]
        BY <1>2, CallAssumption DEF IInv, TypeOK, Entry
    <3> QED BY <3>1, <1>6
  <2> QED BY <1>1, <2>1, <2>2, <2>3, <2>4
<1>8. CursorsInList'
  <2> SUFFICES ASSUME NEW d \in Calls, pc'[d] = "notify" PROVE cursor[d] \leq Len(locks'[taken[d]])
      BY <1>1 DEF CursorsInList, Walked
  <2>1. pc[d] = "notify" /\ d # c BY <1>1 DEF IInv, TypeOK
  <2>2. taken[d] \in Calls /\ taken[d] # taken[c] BY <2>1, <1>2 DEF IInv, TypeOK
  <2> QED BY <2>1, <2>2, <1>6 DEF IInv, CursorsInList, Walked
<1> QED BY <1>3, <1>4, <1>5, <1>7, <1>8 DEF IInv

-----------------------------------------------------------------------------
(* The inductive invariant holds of every behaviour of the lock.           *)
LEMMA Invariance == Spec => []IInv
<1>1. Init => IInv
    BY CallAssumption DEF Init, IInv, TypeOK, Steps, EntryHasRemover, WalkedIsOld, OneRemover,
       CursorsInList, Remembered
<1>2. IInv /\ [Next]_vars => IInv'
  <2> SUFFICES ASSUME IInv, [Next]_vars PROVE IInv'
      OBVIOUS
  <2>1. ASSUME NEW c \in Calls, Ask(c) \/ Wait(c) \/ Pull(c) \/ RemoveNotify(c) PROVE IInv'
      BY <2>1, QuietSteps, EnterSteps, AddStep, LeaveStep, NotifyStep, ThrowStep, ReturnStep
      DEF Wait, Pull, RemoveNotify
  <2>2. ASSUME NEW k \in Tokens, SourceEnds(k) PROVE IInv'
    <3>1. /\ UNCHANGED <<mMapLock, locks, holder, pc, taken, cursor, expected, raced>>
          /\ source' \subseteq source
        BY <2>2 DEF SourceEnds, iterator
    <3> QED BY <3>1 DEF IInv, TypeOK, EntryHasRemover, WalkedIsOld, OneRemover, CursorsInList,
              Remembered, Entry, Walked
  <2>3. CASE UNCHANGED vars
      BY <2>3 DEF vars, IInv, TypeOK, EntryHasRemover, WalkedIsOld, OneRemover, CursorsInList,
         Remembered, Entry, Walked
  <2> QED BY <2>1, <2>2, <2>3 DEF Next
<1> QED BY <1>1, <1>2, PTL DEF Spec

(* Every variable keeps its type; a call that adds or walks has a list.    *)
THEOREM Typing == Spec => []TypeOK
BY Invariance, PTL DEF IInv

(* No entry of the lock map outlives the finally block of the call that    *)
(* put it (MapKeyLock:15-44, 64-75).                                       *)
THEOREM EntriesLeave == Spec => []EntryHasRemover
BY Invariance, PTL DEF IInv

(* removeNotify needs no monitor to walk and clear a list alone: removing   *)
(* the entry is atomic (MapKeyLock:65).                                    *)
THEOREM ListsHaveOneRemover == Spec => []OneRemover
BY Invariance, PTL DEF IInv

(* Only the three races recorded in `raced' lose a wake-up.                *)
THEOREM WaitersRemembered == Spec => []Remembered
BY Invariance, PTL DEF IInv
-----------------------------------------------------------------------------
(* Who is on a list has been added to it, once, and came for its token.    *)
SameToken ==
    /\ \A c \in Calls : \A i \in 1 .. Len(locks[c]) : Token[locks[c][i]] = Token[c]
    /\ \A c \in Calls : pc[c] \in {"add", "notify"} => Token[taken[c]] = Token[c]

OnOneList ==
    /\ \A c, d \in Calls : \A i \in 1 .. Len(locks[c]), j \in 1 .. Len(locks[d]) :
           locks[c][i] = locks[d][j] => c = d /\ i = j
    /\ \A c \in Calls : \A i \in 1 .. Len(locks[c]) :
           pc[locks[c][i]] \notin {"new", "own", "join", "add"}

LEMMA ListsKeepCalls ==
    ASSUME TypeOK, SameToken, OnOneList, UNCHANGED locks,
           \A c \in Calls : pc'[c] \in {"new", "own", "join", "add"}
                               => pc[c] \in {"new", "own", "join", "add"},
           \A c \in Calls : pc'[c] \in {"add", "notify"} => Token[taken'[c]] = Token[c]
    PROVE  SameToken' /\ OnOneList'
BY DEF TypeOK, SameToken, OnOneList

LEMMA ListsStep ==
    ASSUME IInv, SameToken, OnOneList, [Next]_vars
    PROVE  SameToken' /\ OnOneList'
<1> DEFINE Early == {"new", "own", "join", "add"}
<1>1. ASSUME NEW c \in Calls,
             Ask(c) \/ Own(c) \/ Sleep(c) \/ Timeout(c) \/ LookUp(c) \/ Connect(c) \/ Throw(c)
      PROVE  SameToken' /\ OnOneList'
  <2>1. UNCHANGED <<locks, taken>>
      BY <1>1 DEF Ask, Own, Sleep, Timeout, LookUp, Connect, Throw, iterator
  <2>2. \A d \in Calls : /\ pc'[d] \in Early => pc[d] \in Early
                         /\ pc'[d] \in {"add", "notify"} => pc[d] = pc'[d]
      BY <1>1 DEF Ask, Own, Sleep, Timeout, LookUp, Connect, Throw, Goes, IInv, TypeOK
  <2> QED BY <2>1, <2>2, ListsKeepCalls DEF SameToken, IInv
<1>2. ASSUME NEW c \in Calls, Fetch(c) \/ Leave(c)
      PROVE  SameToken' /\ OnOneList'
  <2>1. UNCHANGED locks /\ \A d \in Calls \ {c} : pc'[d] = pc[d] /\ taken'[d] = taken[d]
      BY <1>2 DEF Fetch, Leave, Goes, IInv, TypeOK, iterator
  <2>2. pc'[c] \in Early => pc[c] \in Early
      BY <1>2 DEF Fetch, Leave, Goes, IInv, TypeOK
  <2>3. pc'[c] \in {"add", "notify"} => taken'[c] = c \/ (Entry(c) # None /\ taken'[c] = Entry(c))
      BY <1>2 DEF Fetch, Leave, Goes, IInv, TypeOK
  <2>4. Entry(c) # None => Token[Entry(c)] = Token[c]
      BY CallAssumption DEF IInv, EntryHasRemover, Entry
  <2> QED BY <2>1, <2>2, <2>3, <2>4, ListsKeepCalls DEF SameToken, IInv
<1>3. ASSUME NEW c \in Calls, pc[c] = "notify", Notify(c)
      PROVE  SameToken' /\ OnOneList'
  <2>1. UNCHANGED <<locks, taken>>
      BY <1>3 DEF Notify
  <2>2. \A d \in Calls : pc'[d] = pc[d] \/ pc'[d] = "work"
      BY <1>3 DEF Notify, IInv, TypeOK
  <2> QED BY <2>1, <2>2, ListsKeepCalls DEF SameToken, IInv
<1>4. ASSUME NEW c \in Calls, Return(c)
      PROVE  SameToken' /\ OnOneList'
  <2>1. taken[c] \in Calls /\ locks' = [locks EXCEPT ![taken[c]] = <<>>]
      BY <1>4 DEF Return, Goes, IInv, TypeOK
  <2>2. /\ \A d \in Calls : /\ locks'[d] = <<>> \/ locks'[d] = locks[d]
                            /\ pc'[d] \in Early \cup {"notify"} => pc'[d] = pc[d]
                            /\ pc[d] \notin Early => pc'[d] \notin Early
        /\ UNCHANGED taken
      BY <1>4, <2>1 DEF Return, Goes, IInv, TypeOK
  <2>3. \A d \in Calls : \A i \in 1 .. Len(locks'[d]) : locks'[d] = locks[d] /\ locks[d][i] \in Calls
      BY <2>2 DEF IInv, TypeOK
  <2> QED BY <2>2, <2>3 DEF SameToken, OnOneList
<1>5. ASSUME NEW c \in Calls, Add(c)
      PROVE  SameToken' /\ OnOneList'
  <2> DEFINE l == taken[c]
  <2>1. /\ pc[c] = "add" /\ pc' = [pc EXCEPT ![c] = "enlisted"] /\ UNCHANGED taken
        /\ l \in Calls /\ locks' = [locks EXCEPT ![l] = Append(@, c)] /\ Token[l] = Token[c]
      BY <1>5 DEF Add, Goes, IInv, TypeOK, SameToken
  <2>2. locks[l] \in Seq(Calls) /\ locks'[l] = Append(locks[l], c)
      BY <2>1 DEF IInv, TypeOK
  <2>3. /\ Len(locks'[l]) = Len(locks[l]) + 1 /\ Len(locks[l]) \in Nat
        /\ \A i \in 1 .. Len(locks[l]) : locks'[l][i] = locks[l][i]
        /\ locks'[l][Len(locks[l]) + 1] = c
      BY <2>2
  <2>4. \A d \in Calls : d # l => locks'[d] = locks[d]
      BY <2>1 DEF IInv, TypeOK
  <2>5. \A d \in Calls : \A i \in 1 .. Len(locks'[d]) :
            \/ i \in 1 .. Len(locks[d]) /\ locks'[d][i] = locks[d][i] /\ locks[d][i] # c
                                        /\ locks[d][i] \in Calls
            \/ d = l /\ i = Len(locks[l]) + 1 /\ locks'[d][i] = c
    <3> SUFFICES ASSUME NEW d \in Calls, NEW i \in 1 .. Len(locks'[d])
                 PROVE  \/ /\ i \in 1 .. Len(locks[d]) /\ locks'[d][i] = locks[d][i]
                           /\ locks[d][i] # c /\ locks[d][i] \in Calls
                        \/ d = l /\ i = Len(locks[l]) + 1 /\ locks'[d][i] = c
        OBVIOUS
    <3>1. CASE d = l /\ i = Len(locks[l]) + 1
        BY <2>3, <3>1
    <3>2. CASE ~(d = l /\ i = Len(locks[l]) + 1)
      <4>1. i \in 1 .. Len(locks[d]) /\ locks'[d][i] = locks[d][i]
          BY <2>3, <2>4, <3>2
      <4>2. locks[d][i] \in Calls
          BY <4>1 DEF IInv, TypeOK
      <4> QED BY <2>1, <4>1, <4>2 DEF OnOneList
    <3> QED BY <3>1, <3>2
  <2>6. \A d \in Calls : d # c => pc'[d] = pc[d]
      BY <2>1 DEF IInv, TypeOK
  <2>7. pc'[c] = "enlisted"
      BY <2>1 DEF IInv, TypeOK
  <2>8. SameToken'
      BY <2>1, <2>5, <2>6, <2>7 DEF SameToken
  <2>9. OnOneList'
      BY <2>5, <2>6, <2>7 DEF OnOneList
  <2> QED BY <2>8, <2>9
<1>6. ASSUME NEW k \in Tokens, SourceEnds(k)
      PROVE  SameToken' /\ OnOneList'
    BY <1>6, ListsKeepCalls DEF SourceEnds, SameToken, IInv, iterator
<1>7. CASE UNCHANGED vars
    BY <1>7, ListsKeepCalls DEF vars, SameToken, IInv
<1> QED BY <1>1, <1>2, <1>3, <1>4, <1>5, <1>6, <1>7 DEF Next, Wait, Pull, RemoveNotify

(* A wake-up is never given to a pull of another token, and never twice:   *)
(* though a list may be refilled after it was taken away, each waiting     *)
(* pull has one place on one list, that of a call with its token           *)
(* (MapKeyLock:15-44, 64-75).                                              *)
THEOREM WakeUpsFindTheirPulls == Spec => [](SameToken /\ OnOneList)
<1>1. Init => SameToken /\ OnOneList
    BY DEF Init, SameToken, OnOneList
<1> QED BY <1>1, ListsStep, Invariance, PTL DEF Spec
=============================================================================
