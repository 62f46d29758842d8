------------------------ MODULE SourceRegistryProofs ------------------------
(* Proofs about the publication of live sources, for every set of servers, *)
(* keys and URLs.                                                          *)
EXTENDS SourceRegistry, TLAPS

(* mRtspUrl is set before the feeder leaves "new", and a server is listed  *)
(* only under its token and only after it has claimed it.                  *)
UrlKnown == \A s \in Servers :
    /\ feeder[s] # "new" => mRtspUrl[s] \in Urls
    /\ feeder[s] = "new" => ~mMediaSource[s]

Before == {"new", "announced", "starting", "registering"}

ListedClaims == \A k \in Keys, s \in Servers :
    mMapRtspSource[k] = s =>
        /\ mMediaSource[s] /\ k = Token[mRtspUrl[s]]
        /\ feeder[s] \notin Before

(* The threads that are inside destory() have set the state. *)
DestroyingIsFinishing == \A s \in Servers :
    killer[s] = "stop" \/ feeder[s] \in {"stop", "refuseStop"} => isFinishing(s)

(* The last stopInputStream of a destory() is over. *)
Stopped(s) == s \in finished \/ killer[s] = "end" \/ feeder[s] \in {"end", "refuseEnd"}

StoppedForGood == \A s \in Servers : Stopped(s) =>
    /\ isFinishing(s)
    /\ ~Registered(s)
    /\ feeder[s] \notin {"registering", "registered"}

IInv ==
    /\ TypeOK
    /\ ManagersAgree
    /\ UrlKnown
    /\ ListedClaims
    /\ DestroyingIsFinishing
    /\ StoppedForGood

-----------------------------------------------------------------------------
(* What Removed does to a table whose keys are tokens: it empties exactly   *)
(* the entry of the URL's token (removeRtspSource, removeMediaSource).      *)
LEMMA RemovedIsExcept ==
    ASSUME NEW map \in [Keys -> Servers \cup {None}], NEW url \in Urls,
           \A k \in Keys : map[k] # None => Token[k] = k
    PROVE  Removed(map, url) = [map EXCEPT ![Token[url]] = None]
BY TokenAssumption DEF Removed

(* The keys in use are tokens. *)
LEMMA KeysAreTokens ==
    ASSUME IInv
    PROVE  \A k \in Keys : mMapRtspSource[k] # None => Token[k] = k
<1> SUFFICES ASSUME NEW k \in Keys, mMapRtspSource[k] # None
             PROVE  Token[k] = k
    OBVIOUS
<1>1. PICK s \in Servers : mMapRtspSource[k] = s
    BY DEF IInv, TypeOK
<1>2. k = Token[mRtspUrl[s]] /\ mRtspUrl[s] \in Urls
    BY <1>1 DEF IInv, ListedClaims, UrlKnown, Before
<1> QED BY <1>2, TokenAssumption

(* What stopInputStream does to the tables: nothing, or it empties the      *)
(* entry of the server's token; either way the server is listed no more.    *)
LEMMA StopEffect ==
    ASSUME IInv, NEW s \in Servers, stopInputStream(s)
    PROVE  /\ \/ UNCHANGED managers
              \/ /\ mMediaSource[s] /\ mRtspUrl[s] \in Urls /\ Token[mRtspUrl[s]] \in Keys
                 /\ mMapRtspSource' = [mMapRtspSource EXCEPT ![Token[mRtspUrl[s]]] = None]
                 /\ mMapMediaSource' = mMapRtspSource'
           /\ \A k \in Keys : mMapRtspSource'[k] # s
           /\ \A k \in Keys : mMapRtspSource'[k] \in {mMapRtspSource[k], None}
<1>1. CASE mMediaSource[s] /\ mRtspUrl[s] # None
  <2>1. mRtspUrl[s] \in Urls /\ Token[mRtspUrl[s]] \in Keys
      BY <1>1, TokenAssumption DEF IInv, UrlKnown, TypeOK
  <2>2. removeRtspSource(mRtspUrl[s])
      BY <1>1 DEF stopInputStream
  <2>3. Removed(mMapRtspSource, mRtspUrl[s]) = [mMapRtspSource EXCEPT ![Token[mRtspUrl[s]]] = None]
      BY <2>1, KeysAreTokens, RemovedIsExcept DEF IInv, TypeOK
  <2>4. mMapMediaSource' = mMapRtspSource'
      BY <2>2 DEF removeRtspSource, IInv, ManagersAgree
  <2>5. \A k \in Keys : mMapRtspSource[k] = s => k = Token[mRtspUrl[s]]
      BY DEF IInv, ListedClaims
  <2> QED BY <1>1, <2>1, <2>2, <2>3, <2>4, <2>5, TokenAssumption DEF removeRtspSource, IInv, TypeOK
<1>2. CASE ~(mMediaSource[s] /\ mRtspUrl[s] # None)
  <2>1. UNCHANGED managers
      BY <1>2 DEF stopInputStream
  <2>2. ~mMediaSource[s]
      BY <1>2, TokenAssumption DEF IInv, UrlKnown
  <2> QED BY <2>1, <2>2 DEF IInv, ListedClaims, managers
<1> QED BY <1>1, <1>2

-----------------------------------------------------------------------------
(* The invariant, one lemma per kind of step.  A step that moves a thread   *)
(* without touching the tables: *)
LEMMA StartSteps ==
    ASSUME IInv, NEW s \in Servers,
           \/ \E url \in Urls : Announce(s, url) \/ Pull(s, url)
           \/ Record(s) \/ StartInput(s) \/ Started(s) \/ RefuseBegin(s)
           \/ InputStream(s) \/ Packet(s) \/ EndOfStream(s)
           \/ FeederBegin(s) \/ Finish(s) \/ TimeOut(s) \/ KillerBegin(s)
    PROVE  IInv'
<1> USE TokenAssumption
    DEF IInv, TypeOK, ManagersAgree, UrlKnown, ListedClaims, DestroyingIsFinishing,
        StoppedForGood, Stopped, Registered, isFinishing, Before, managers, server, threads,
        FeederGoes, KillerGoes, destoryBegin, DestroySteps, RefuseSteps, FeederSteps, States
<1>1. ASSUME NEW url \in Urls, Announce(s, url) PROVE IInv'
    BY <1>1 DEF Announce
<1>2. ASSUME NEW url \in Urls, Pull(s, url) PROVE IInv'
    BY <1>2 DEF Pull
<1>3. CASE Record(s) BY <1>3 DEF Record
<1>4. CASE StartInput(s) BY <1>4 DEF StartInput
<1>5. CASE Started(s) BY <1>5 DEF Started
<1>6. CASE RefuseBegin(s) BY <1>6 DEF RefuseBegin
<1>7. CASE InputStream(s)
  <2>1. CASE FeederGoes(s, "input", "unwind") /\ UNCHANGED rtpTimer
      BY <1>7, <2>1 DEF InputStream
  <2>2. CASE FeederGoes(s, "input", "reading") /\ rtpTimer' = [rtpTimer EXCEPT ![s] = TRUE]
      BY <1>7, <2>2 DEF InputStream
  <2> QED BY <1>7, <2>1, <2>2 DEF InputStream
<1>8. CASE Packet(s) BY <1>8 DEF Packet
<1>9. CASE EndOfStream(s) BY <1>9 DEF EndOfStream
<1>10. CASE FeederBegin(s) BY <1>10 DEF FeederBegin
<1>11. CASE Finish(s) BY <1>11 DEF Finish
<1>12. CASE TimeOut(s) BY <1>12 DEF TimeOut
<1>13. CASE KillerBegin(s) BY <1>13 DEF KillerBegin
<1> QED BY <1>1, <1>2, <1>3, <1>4, <1>5, <1>6, <1>7, <1>8, <1>9, <1>10, <1>11, <1>12, <1>13

(* A publication, granted or refused. *)
LEMMA RegisterStep == ASSUME IInv, NEW s \in Servers, Register(s) PROVE IInv'
<1> USE TokenAssumption
    DEF IInv, TypeOK, ManagersAgree, UrlKnown, ListedClaims, DestroyingIsFinishing,
        StoppedForGood, Stopped, Registered, isFinishing, Before, managers,
        FeederGoes, managerRtspSource, DestroySteps, RefuseSteps, FeederSteps, States
<1>1. Token[mRtspUrl[s]] \in Keys
    BY DEF Register
<1>2. TypeOK' BY <1>1 DEF Register
<1>3. ManagersAgree' BY DEF Register
<1>4. UrlKnown' BY DEF Register
<1>5. ListedClaims' BY <1>1 DEF Register
<1>6. DestroyingIsFinishing' BY DEF Register
<1>7. StoppedForGood' BY <1>1 DEF Register
<1> QED BY <1>2, <1>3, <1>4, <1>5, <1>6, <1>7

(* The four places where stopInputStream runs. *)
LEMMA StopSteps ==
    ASSUME IInv, NEW s \in Servers,
           RefuseStop(s) \/ Unwind(s) \/ FeederStop(s) \/ KillerStop(s)
    PROVE  IInv'
<1>1. stopInputStream(s) /\ UNCHANGED <<state, mRtspUrl, mMediaSource, finished, pulled>>
    BY DEF RefuseStop, Unwind, FeederStop, KillerStop, stopInputStream, FeederGoes, KillerGoes
<1>2. TypeOK'
  <2>1. /\ mMapRtspSource' \in [Keys -> Servers \cup {None}]
        /\ mMapMediaSource' \in [Keys -> Servers \cup {None}]
    <3>1. CASE UNCHANGED managers
        BY <3>1 DEF managers, IInv, TypeOK
    <3>2. CASE ~UNCHANGED managers
        BY <1>1, <3>2, StopEffect DEF IInv, TypeOK
    <3> QED BY <3>1, <3>2
  <2>2. /\ mInputStreaming' \in [Servers -> BOOLEAN] /\ rtpTimer' \in [Servers -> BOOLEAN]
        /\ UNCHANGED <<state, mRtspUrl, mMediaSource, finished>>
      BY <1>1 DEF stopInputStream, IInv, TypeOK
  <2>3. /\ feeder' \in [Servers -> FeederSteps] /\ killer' \in [Servers -> DestroySteps \cup {"idle"}]
        /\ UNCHANGED <<pulled, kills>>
      BY DEF RefuseStop, Unwind, FeederStop, KillerStop, FeederGoes, KillerGoes, IInv, TypeOK,
         FeederSteps, DestroySteps, RefuseSteps
  <2> QED BY <2>1, <2>2, <2>3 DEF IInv, TypeOK
<1>3. ManagersAgree'
    BY <1>1, StopEffect DEF IInv, ManagersAgree, managers
<1> DEFINE FeederMoves ==
              /\ UNCHANGED killer
              /\ \/ feeder[s] = "refuseStop" /\ feeder' = [feeder EXCEPT ![s] = "refuseEnd"]
                 \/ feeder[s] = "unwind" /\ feeder' = [feeder EXCEPT ![s] = "finish"]
                 \/ feeder[s] = "stop" /\ feeder' = [feeder EXCEPT ![s] = "end"]
           KillerMoves ==
              /\ UNCHANGED feeder /\ MonitorFree(s)
              /\ killer[s] = "stop" /\ killer' = [killer EXCEPT ![s] = "end"]
<1>4. FeederMoves \/ KillerMoves
    BY DEF RefuseStop, Unwind, FeederStop, KillerStop, FeederGoes, KillerGoes
<1>5. UrlKnown'
    BY <1>1, <1>4 DEF IInv, UrlKnown, TypeOK
<1>6. ListedClaims'
    BY <1>1, <1>4, StopEffect, TokenAssumption DEF IInv, ListedClaims, TypeOK, Before
<1>7. DestroyingIsFinishing'
    BY <1>1, <1>4 DEF IInv, DestroyingIsFinishing, TypeOK, isFinishing
<1>8. StoppedForGood'
  <2> SUFFICES ASSUME NEW r \in Servers, Stopped(r)'
               PROVE  isFinishing(r)' /\ ~Registered(r)' /\ feeder'[r] \notin {"registering", "registered"}
      BY DEF StoppedForGood
  <2>1. CASE r = s
    <3>1. isFinishing(s)
        BY <1>1, <1>4, <2>1 DEF IInv, TypeOK, Stopped, StoppedForGood, DestroyingIsFinishing
    <3>2. feeder'[s] \notin {"registering", "registered"}
        BY <1>4 DEF IInv, TypeOK, MonitorFree
    <3> QED BY <1>1, <2>1, <3>1, <3>2, StopEffect DEF isFinishing, Registered
  <2>2. CASE r # s
    <3>1. Stopped(r) /\ feeder'[r] = feeder[r]
        BY <1>1, <1>4, <2>2 DEF IInv, TypeOK, Stopped
    <3> QED BY <1>1, <3>1, StopEffect, TokenAssumption DEF IInv, StoppedForGood, isFinishing, Registered
  <2> QED BY <2>1, <2>2
<1> QED BY <1>2, <1>3, <1>5, <1>6, <1>7, <1>8 DEF IInv

(* The three places where a finish() returns. *)
LEMMA EndSteps ==
    ASSUME IInv, NEW s \in Servers, RefuseEnd(s) \/ FeederEnd(s) \/ KillerEnd(s)
    PROVE  IInv'
<1> USE TokenAssumption
    DEF IInv, TypeOK, ManagersAgree, UrlKnown, ListedClaims, DestroyingIsFinishing,
        StoppedForGood, Stopped, Registered, isFinishing, Before, managers,
        FeederGoes, KillerGoes, destoryEnd, DestroySteps, RefuseSteps, FeederSteps, States
<1>1. CASE RefuseEnd(s) BY <1>1 DEF RefuseEnd
<1>2. CASE FeederEnd(s) BY <1>2 DEF FeederEnd
<1>3. CASE KillerEnd(s) BY <1>3 DEF KillerEnd
<1> QED BY <1>1, <1>2, <1>3

(* The inductive invariant holds of every behaviour of the registry.       *)
LEMMA Invariance == Spec => []IInv
<1>1. Init => IInv
    BY TokenAssumption DEF Init, IInv, TypeOK, ManagersAgree, UrlKnown, ListedClaims, DestroyingIsFinishing,
       StoppedForGood, Stopped, Registered, FeederSteps, DestroySteps, States
<1>2. IInv /\ [Next]_vars => IInv'
  <2> SUFFICES ASSUME IInv, [Next]_vars PROVE IInv'
      OBVIOUS
  <2>1. ASSUME NEW s \in Servers, Start(s) \/ Stream(s) \/ Leave(s) \/ Kill(s) \/ Killing(s)
        PROVE  IInv'
      BY <2>1, StartSteps, RegisterStep, StopSteps, EndSteps DEF Start, Stream, Leave, Kill, Killing
  <2>2. CASE UNCHANGED vars
      BY <2>2 DEF vars, IInv, TypeOK, ManagersAgree, UrlKnown, ListedClaims, DestroyingIsFinishing,
         StoppedForGood, Stopped, Registered, isFinishing
  <2> QED BY <2>1, <2>2 DEF Next
<1> QED BY <1>1, <1>2, PTL DEF Spec

-----------------------------------------------------------------------------
(* Every variable of the registry keeps its type; in particular a server   *)
(* is only published or withdrawn under a URL it was given                 *)
(* (RtspMediaServerManager:153-184).                                       *)
THEOREM Typing == Spec => []TypeOK
BY Invariance, PTL DEF IInv

(* The two managers always name the same source under a key, for every     *)
(* choice of URLs and tokens in which parsing a token gives the token.     *)
THEOREM ManagersAlwaysAgree == Spec => []ManagersAgree
BY Invariance, PTL DEF IInv

(* A server whose finish() has returned is not listed, however its start   *)
(* and its finishes interleave.                                            *)
THEOREM FinishedStaysUnlisted == Spec => []FinishedIsUnlisted
<1>1. IInv => FinishedIsUnlisted
    BY DEF IInv, TypeOK, StoppedForGood, Stopped, FinishedIsUnlisted
<1> QED BY <1>1, Invariance, PTL

(* What a step of the registry is, seen from the tables: one publication   *)
(* under a free key by a server that has not finished, one withdrawal, one *)
(* return of finish(), or nothing.                                         *)
LEMMA TableStep ==
    ASSUME IInv, [Next]_vars
    PROVE  [Directory!Next]_<<mMapRtspSource, finished>>
<1> USE DEF Directory!Next, Directory!List, Directory!Unlist, Directory!Go, Directory!IsListed
<1>1. ASSUME NEW s \in Servers, Start(s) \/ Stream(s) \/ Leave(s) \/ Kill(s) \/ Killing(s)
      PROVE  [Directory!Next]_<<mMapRtspSource, finished>>
  <2>1. CASE Register(s)
    <3>1. CASE mMapRtspSource[Token[mRtspUrl[s]]] # None
        BY <2>1, <3>1 DEF Register, managers
    <3>2. CASE mMapRtspSource[Token[mRtspUrl[s]]] = None
      <4>1. Token[mRtspUrl[s]] \in Keys /\ feeder[s] = "registering"
          BY <2>1, TokenAssumption DEF Register, FeederGoes, IInv, UrlKnown
      <4>2. s \notin finished /\ ~Registered(s)
          BY <4>1 DEF IInv, StoppedForGood, Stopped, ListedClaims, Registered, Before
      <4>3. /\ mMapRtspSource' = [mMapRtspSource EXCEPT ![Token[mRtspUrl[s]]] = s]
            /\ UNCHANGED finished
          BY <2>1, <3>2 DEF Register, managerRtspSource
      <4> QED BY <3>2, <4>1, <4>2, <4>3 DEF Registered
    <3> QED BY <3>1, <3>2
  <2>2. CASE RefuseStop(s) \/ Unwind(s) \/ FeederStop(s) \/ KillerStop(s)
    <3>1. stopInputStream(s) /\ UNCHANGED finished
        BY <2>2 DEF RefuseStop, Unwind, FeederStop, KillerStop, stopInputStream
    <3> QED BY <3>1, StopEffect DEF managers
  <2>3. CASE RefuseEnd(s) \/ FeederEnd(s) \/ KillerEnd(s)
    <3>1. finished' = finished \cup {s} /\ UNCHANGED mMapRtspSource /\ Stopped(s)
        BY <2>3 DEF RefuseEnd, FeederEnd, KillerEnd, destoryEnd, managers, FeederGoes, KillerGoes, Stopped
    <3>2. ~Registered(s)
        BY <3>1 DEF IInv, StoppedForGood
    <3> QED BY <3>1, <3>2 DEF Registered
  <2>4. CASE \/ \E url \in Urls : Announce(s, url) \/ Pull(s, url)
             \/ Record(s) \/ StartInput(s) \/ Started(s) \/ RefuseBegin(s)
             \/ InputStream(s) \/ Packet(s) \/ EndOfStream(s)
             \/ FeederBegin(s) \/ Finish(s) \/ TimeOut(s) \/ KillerBegin(s)
      BY <2>4 DEF Announce, Pull, Record, StartInput, Started, RefuseBegin, InputStream, Packet,
         EndOfStream, FeederBegin, Finish, TimeOut, KillerBegin, destoryBegin, managers, server
  <2> QED BY <1>1, <2>1, <2>2, <2>3, <2>4 DEF Start, Stream, Leave, Kill, Killing
<1>2. CASE UNCHANGED vars
    BY <1>2 DEF vars
<1> QED BY <1>1, <1>2 DEF Next

(* The registry implements the directory: nothing is overwritten and a     *)
(* finished server never comes back.                                       *)
THEOREM Refinement == Spec => ImplementsDirectory
<1>1. Init => Directory!Init
    BY DEF Init, Directory!Init
<1> QED BY <1>1, Invariance, TableStep, PTL DEF Spec, ImplementsDirectory, Directory!Spec

(* A published source is never displaced. *)
THEOREM Undisplaced == Spec => NeverDisplaced
<1>1. ASSUME IInv, [Next]_vars
      PROVE  [\A k \in Keys : mMapRtspSource[k] # None =>
                  mMapRtspSource'[k] \in {mMapRtspSource[k], None}]_vars
  <2>1. [Directory!Next]_<<mMapRtspSource, finished>>
      BY <1>1, TableStep
  <2> QED BY <1>1, <2>1 DEF Directory!Next, Directory!List, Directory!Unlist, Directory!Go, IInv, TypeOK
<1> QED BY <1>1, Invariance, PTL DEF Spec, NeverDisplaced

-----------------------------------------------------------------------------
(* What a server shares with others (its entry, its flag and its timer) is *)
(* there only while its feeder has a stopInputStream() to come; and a      *)
(* server has one entry.                                                   *)
Feeding == {"registered", "input", "reading", "unwind"}

Attended ==
    /\ \A s \in Servers : Registered(s) \/ rtpTimer[s] \/ mInputStreaming[s] => feeder[s] \in Feeding
    /\ \A k, l \in Keys : mMapRtspSource[k] # None /\ mMapRtspSource[k] = mMapRtspSource[l] => k = l

(* Steps that leave the tables alone. *)
LEMMA FeedersAttend ==
    ASSUME IInv, Attended, NEW s \in Servers,
           \/ \E url \in Urls : Announce(s, url) \/ Pull(s, url)
           \/ Record(s) \/ StartInput(s) \/ Started(s) \/ RefuseBegin(s) \/ RefuseEnd(s)
           \/ InputStream(s) \/ Packet(s) \/ EndOfStream(s)
           \/ FeederBegin(s) \/ FeederEnd(s)
    PROVE  Attended'
<1> USE DEF IInv, TypeOK, Attended, Feeding, Registered, managers, server, FeederGoes,
            destoryBegin, destoryEnd
<1>1. ASSUME NEW url \in Urls, Announce(s, url) \/ Pull(s, url) PROVE Attended'
    BY <1>1 DEF Announce, Pull
<1>2. CASE Record(s) \/ StartInput(s)
    BY <1>2 DEF Record, StartInput
<1>3. CASE Started(s)
    BY <1>3 DEF Started
<1>4. CASE RefuseBegin(s) \/ RefuseEnd(s)
    BY <1>4 DEF RefuseBegin, RefuseEnd
<1>5. CASE InputStream(s)
  <2>1. CASE FeederGoes(s, "input", "unwind") /\ UNCHANGED rtpTimer
      BY <1>5, <2>1 DEF InputStream
  <2>2. CASE FeederGoes(s, "input", "reading") /\ rtpTimer' = [rtpTimer EXCEPT ![s] = TRUE]
      BY <1>5, <2>2 DEF InputStream
  <2> QED BY <1>5, <2>1, <2>2 DEF InputStream
<1>6. CASE Packet(s) \/ EndOfStream(s)
    BY <1>6 DEF Packet, EndOfStream, threads
<1>7. CASE FeederBegin(s) \/ FeederEnd(s)
    BY <1>7 DEF FeederBegin, FeederEnd
<1> QED BY <1>1, <1>2, <1>3, <1>4, <1>5, <1>6, <1>7

LEMMA KillersAttend ==
    ASSUME IInv, Attended, NEW s \in Servers,
           Finish(s) \/ TimeOut(s) \/ KillerBegin(s) \/ KillerEnd(s)
    PROVE  Attended'
<1> USE DEF IInv, TypeOK, Attended, Feeding, Registered, managers, server, KillerGoes,
            destoryBegin, destoryEnd
<1>1. CASE Finish(s) \/ TimeOut(s)
    BY <1>1 DEF Finish, TimeOut
<1>2. CASE KillerBegin(s) \/ KillerEnd(s)
    BY <1>2 DEF KillerBegin, KillerEnd
<1> QED BY <1>1, <1>2

(* Steps that fill or empty an entry. *)
LEMMA TablesAttend ==
    ASSUME IInv, Attended, NEW s \in Servers,
           Register(s) \/ RefuseStop(s) \/ Unwind(s) \/ FeederStop(s) \/ KillerStop(s)
    PROVE  Attended'
<1>1. CASE Register(s)
  <2>1. ~Registered(s) /\ feeder[s] = "registering" /\ Token[mRtspUrl[s]] \in Keys
      BY <1>1, TokenAssumption
         DEF Register, FeederGoes, Attended, Feeding, IInv, UrlKnown
  <2>2. CASE mMapRtspSource[Token[mRtspUrl[s]]] # None
      BY <1>1, <2>1, <2>2 DEF Register, FeederGoes, managers, Attended, Feeding, Registered, IInv, TypeOK
  <2>3. CASE mMapRtspSource[Token[mRtspUrl[s]]] = None
    <3>1. /\ mMapRtspSource' = [mMapRtspSource EXCEPT ![Token[mRtspUrl[s]]] = s]
          /\ feeder' = [feeder EXCEPT ![s] = "registered"]
          /\ UNCHANGED <<rtpTimer, mInputStreaming>>
        BY <1>1, <2>3 DEF Register, FeederGoes, managerRtspSource
    <3>2. \A r \in Servers : Registered(r)' => r = s \/ Registered(r)
        BY <2>1, <3>1 DEF Registered, IInv, TypeOK
    <3>3. /\ feeder'[s] = "registered"
          /\ \A r \in Servers \ {s} : feeder'[r] = feeder[r]
        BY <3>1 DEF IInv, TypeOK
    <3>4. \A r \in Servers : Registered(r)' \/ rtpTimer'[r] \/ mInputStreaming'[r]
                                 => feeder'[r] \in Feeding
        BY <3>1, <3>2, <3>3 DEF Attended, Feeding
    <3>5. \A k, l \in Keys : mMapRtspSource'[k] # None /\ mMapRtspSource'[k] = mMapRtspSource'[l]
                                 => k = l
        BY <2>1, <3>1 DEF Attended, Registered, IInv, TypeOK
    <3> QED BY <3>4, <3>5 DEF Attended
  <2> QED BY <2>2, <2>3
<1>2. CASE RefuseStop(s) \/ Unwind(s) \/ FeederStop(s) \/ KillerStop(s)
  <2>1. /\ stopInputStream(s)
        /\ \A r \in Servers \ {s} : feeder'[r] = feeder[r]
      BY <1>2 DEF RefuseStop, Unwind, FeederStop, KillerStop, FeederGoes, KillerGoes, IInv, TypeOK
  <2>2. /\ \A k \in Keys : mMapRtspSource'[k] # s
        /\ \A k \in Keys : mMapRtspSource'[k] \in {mMapRtspSource[k], None}
      BY <2>1, StopEffect
  <2>3. /\ ~rtpTimer'[s] /\ ~mInputStreaming'[s]
        /\ \A r \in Servers \ {s} :
               rtpTimer'[r] = rtpTimer[r] /\ mInputStreaming'[r] = mInputStreaming[r]
      BY <2>1 DEF stopInputStream, IInv, TypeOK
  <2>4. \A r \in Servers : Registered(r)' => r # s /\ Registered(r)
      BY <2>2, TokenAssumption DEF Registered
  <2> QED BY <2>1, <2>2, <2>3, <2>4 DEF Attended
<1> QED BY <1>1, <1>2

(* Nothing of a server outlives its feeder: when the thread that reads its *)
(* stream has left, whoever finished it how often meanwhile, the URL is    *)
(* free, no timer of it is posted and it does not take itself for a stream *)
(* (RtspMediaServer:413-416, 552-572, 777).                                *)
THEOREM NothingOutlivesTheFeeder == Spec => []Attended
<1>1. Init => Attended
    BY TokenAssumption DEF Init, Attended, Registered
<1>2. IInv /\ Attended /\ [Next]_vars => Attended'
  <2> SUFFICES ASSUME IInv, Attended, [Next]_vars PROVE Attended'
      OBVIOUS
  <2>1. ASSUME NEW s \in Servers, Start(s) \/ Stream(s) \/ Leave(s) \/ Kill(s) \/ Killing(s)
        PROVE  Attended'
      BY <2>1, FeedersAttend, KillersAttend, TablesAttend DEF Start, Stream, Leave, Kill, Killing
  <2>2. CASE UNCHANGED vars
      BY <2>2 DEF vars, Attended, Registered
  <2> QED BY <2>1, <2>2 DEF Next
<1> QED BY <1>1, <1>2, Invariance, PTL DEF Spec

=============================================================================
