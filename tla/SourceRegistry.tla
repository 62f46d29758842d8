--------------------------- MODULE SourceRegistry ---------------------------
(* Publication of live sources.                                            *)
(*                                                                         *)
(* An RtspMediaServer publishes itself under the token of its URL in       *)
(* RtspMediaServerManager.mMapRtspSource (and MediaServerManager's         *)
(* mMapMediaSource) when its input stream starts, and withdraws the token  *)
(* each time stopInputStream runs: when the stream ends and once more on   *)
(* every finish().  Two threads work on one server: its feeder (the socket *)
(* receiver or the pull thread that reads the stream) and a killer (the    *)
(* main looper's timers, the last output leaving, removeSession).          *)
EXTENDS Integers

CONSTANTS
    Servers,    \* RtspMediaServer instances
    Keys,       \* strings that name sources: URLs, tokens and bare names
    Urls,       \* the URLs that clients publish or pull
    Token,      \* MediaUtils.parseToken: the gToken parameter, or the URL
    Name,       \* MediaUtils.parseName: the URL without scheme and host
    None,       \* null
    MaxKills    \* bound: finish() calls by a killer, per server

(* parseToken splits at "=", so a token holds none and parses to itself. *)
ASSUME TokenAssumption ==
    /\ Urls \subseteq Keys
    /\ Token \in [Keys -> Keys]
    /\ Name \in [Keys -> Keys]
    /\ \A k \in Keys : Token[Token[k]] = Token[k]
    /\ None \notin Servers /\ None \notin Keys
    /\ MaxKills \in Nat

VARIABLES
    mMapRtspSource, mMapMediaSource,                  \* the two managers
    state, mRtspUrl, mMediaSource, mInputStreaming,   \* fields of a server
    rtpTimer,       \* mRtpSessionTimeOut is in the main looper's queue
    feeder, killer, \* where each of the server's two threads is
    pulled,         \* the feeder came through getRtspSourceByPull
    kills,
    finished        \* history: servers with a finish() that has returned

vars == <<mMapRtspSource, mMapMediaSource, state, mRtspUrl,
          mMediaSource, mInputStreaming, rtpTimer, feeder, killer, pulled, kills,
          finished>>
managers == <<mMapRtspSource, mMapMediaSource>>
server == <<state, mRtspUrl, mMediaSource, mInputStreaming, rtpTimer, finished>>
threads == <<feeder, killer, pulled, kills>>

DestroySteps == {"finish", "stop", "end"}
RefuseSteps == {"refuse", "refuseStop", "refuseEnd"}
FeederSteps == {"new", "announced", "starting", "registering", "registered", "input",
                "reading", "unwind", "done"} \cup DestroySteps \cup RefuseSteps
States == {"created", "finishing", "destroyed"}

TypeOK ==
    /\ mMapRtspSource \in [Keys -> Servers \cup {None}]
    /\ mMapMediaSource \in [Keys -> Servers \cup {None}]
    /\ state \in [Servers -> States]
    /\ mRtspUrl \in [Servers -> Urls \cup {None}]
    /\ mMediaSource \in [Servers -> BOOLEAN]
    /\ mInputStreaming \in [Servers -> BOOLEAN]
    /\ rtpTimer \in [Servers -> BOOLEAN]
    /\ feeder \in [Servers -> FeederSteps]
    /\ killer \in [Servers -> DestroySteps \cup {"idle"}]
    /\ pulled \in [Servers -> BOOLEAN]
    /\ kills \in [Servers -> 0..MaxKills]
    /\ finished \subseteq Servers

Init ==
    /\ mMapRtspSource = [k \in Keys |-> None]
    /\ mMapMediaSource = [k \in Keys |-> None]
    /\ state = [s \in Servers |-> "created"]
    /\ mRtspUrl = [s \in Servers |-> None]
    /\ mMediaSource = [s \in Servers |-> FALSE]
    /\ mInputStreaming = [s \in Servers |-> FALSE]
    /\ rtpTimer = [s \in Servers |-> FALSE]
    /\ feeder = [s \in Servers |-> "new"]
    /\ killer = [s \in Servers |-> "idle"]
    /\ pulled = [s \in Servers |-> FALSE]
    /\ kills = [s \in Servers |-> 0]
    /\ finished = {}

isFinishing(s) == state[s] \in {"finishing", "destroyed"}

(* getRtspSource: by key, else by name. *)
getRtspSource(key) ==
    \E k \in Keys : /\ mMapRtspSource[k] # None
                    /\ k = key \/ Name[k] = key \/ k = Name[key]

(* Mutant: stopInputStream does not wait for startInputStream. *)
MonitorFree_Unsynchronized(s) == TRUE

(* startInputStream(rtsp,sdp) and stopInputStream are synchronized on the   *)
(* server; only the first lets other threads run while it holds the monitor.*)
MonitorFree(s) == feeder[s] \notin {"registering", "registered"} \cup RefuseSteps

(* Mutant: the token is not resolved on removal. *)
Removed_NoToken(map, url) == [map EXCEPT ![url] = None]

Removed(map, url) ==
    IF map[url] # None THEN [map EXCEPT ![url] = None]
                       ELSE [map EXCEPT ![Token[url]] = None]

(* Mutant: the media manager is asked with the URL only. *)
removeRtspSource_OneTable(url) ==
    /\ mMapRtspSource' = Removed(mMapRtspSource, url)
    /\ mMapMediaSource' = Removed_NoToken(mMapMediaSource, url)

(* Removes whatever the URL or its token names, whoever published it.      *)
removeRtspSource(url) ==
    /\ mMapRtspSource' = Removed(mMapRtspSource, url)
    /\ mMapMediaSource' = Removed(mMapMediaSource, url)

stopInputStream(s) ==
    /\ mInputStreaming' = [mInputStreaming EXCEPT ![s] = FALSE]
    /\ rtpTimer' = [rtpTimer EXCEPT ![s] = FALSE]
    /\ IF mMediaSource[s] /\ mRtspUrl[s] # None
       THEN removeRtspSource(mRtspUrl[s])
       ELSE UNCHANGED managers
    /\ UNCHANGED <<state, mRtspUrl, mMediaSource, finished>>

(* BaseServer.destory around RtspMediaServer.onDestory, in three steps:    *)
(* the state says finishing, the input is stopped, the rest is released.   *)
destoryBegin(s) ==
    /\ state' = [state EXCEPT ![s] = "finishing"]
    /\ UNCHANGED <<managers, mRtspUrl, mMediaSource, mInputStreaming, rtpTimer, finished>>

destoryEnd(s) ==
    /\ state' = [state EXCEPT ![s] = "destroyed"]
    /\ rtpTimer' = [rtpTimer EXCEPT ![s] = FALSE]
    /\ finished' = finished \cup {s}
    /\ UNCHANGED <<managers, mRtspUrl, mMediaSource, mInputStreaming>>

FeederGoes(s, from, to) ==
    /\ feeder[s] = from
    /\ feeder' = [feeder EXCEPT ![s] = to]
    /\ UNCHANGED <<killer, pulled, kills>>

-----------------------------------------------------------------------------
(* The feeder of a pushed source. *)

Announce(s, url) ==
    /\ FeederGoes(s, "new", IF mMapRtspSource[url] # None THEN "finish" ELSE "announced")
    /\ mRtspUrl' = [mRtspUrl EXCEPT ![s] = url]
    /\ UNCHANGED <<managers, state, mMediaSource, mInputStreaming, rtpTimer, finished>>

(* RECORD or PLAY: startInputStream(rtsp, sdp, is) looks before it starts. *)
Record(s) ==
    /\ FeederGoes(s, "announced", IF getRtspSource(mRtspUrl[s]) THEN "finish" ELSE "starting")
    /\ UNCHANGED <<managers, server>>

(* Mutant: the pulled server keeps the token in place of the URL. *)
Pull_Token(s, url) ==
    /\ feeder[s] = "new"
    /\ ~getRtspSource(Token[url])
    /\ feeder' = [feeder EXCEPT ![s] = "starting"]
    /\ pulled' = [pulled EXCEPT ![s] = TRUE]
    /\ mRtspUrl' = [mRtspUrl EXCEPT ![s] = Token[url]]
    /\ UNCHANGED <<managers, state, mMediaSource, mInputStreaming, rtpTimer, killer, kills, finished>>

(* The feeder of a pulled source: the look-up of getRtspSourceByPull missed. *)
Pull(s, url) ==
    /\ feeder[s] = "new"
    /\ ~getRtspSource(Token[url])
    /\ feeder' = [feeder EXCEPT ![s] = "starting"]
    /\ pulled' = [pulled EXCEPT ![s] = TRUE]
    /\ mRtspUrl' = [mRtspUrl EXCEPT ![s] = url]
    /\ UNCHANGED <<managers, state, mMediaSource, mInputStreaming, rtpTimer, killer, kills, finished>>

(* Mutant: isFinishing is not asked. *)
StartInput_Unchecked(s) ==
    /\ FeederGoes(s, "starting", "registering")
    /\ UNCHANGED <<managers, server>>

(* Takes the monitor; a finishing server throws, which ends a push in its  *)
(* finally block and a pull in the caller's catch.                         *)
StartInput(s) ==
    /\ FeederGoes(s, "starting", IF ~isFinishing(s) THEN "registering"
                                 ELSE IF pulled[s] THEN "done" ELSE "unwind")
    /\ UNCHANGED <<managers, server>>

(* managerRtspSource, under sourceLock: refuses a token that is taken. *)
managerRtspSource(s, key) ==
    /\ mMapRtspSource' = [mMapRtspSource EXCEPT ![key] = s]
    /\ mMapMediaSource' = [mMapMediaSource EXCEPT ![key] = s]

Register(s) ==
    LET key == Token[mRtspUrl[s]]
        taken == mMapRtspSource[key] # None
    IN  /\ FeederGoes(s, "registering", IF taken THEN "refuse" ELSE "registered")
        /\ mMediaSource' = [mMediaSource EXCEPT ![s] = TRUE]
        /\ IF taken THEN UNCHANGED managers ELSE managerRtspSource(s, key)
        /\ UNCHANGED <<state, mRtspUrl, mInputStreaming, rtpTimer, finished>>

(* The refused server finishes itself inside startInputStream. *)
RefuseBegin(s) == FeederGoes(s, "refuse", "refuseStop") /\ destoryBegin(s)
RefuseStop(s) == FeederGoes(s, "refuseStop", "refuseEnd") /\ stopInputStream(s)
RefuseEnd(s) == FeederGoes(s, "refuseEnd", IF pulled[s] THEN "input" ELSE "unwind") /\ destoryEnd(s)

(* Sixty seconds for the first data, then the monitor is released. *)
Started(s) ==
    /\ FeederGoes(s, "registered", "input")
    /\ mInputStreaming' = [mInputStreaming EXCEPT ![s] = TRUE]
    /\ rtpTimer' = [rtpTimer EXCEPT ![s] = TRUE]
    /\ UNCHANGED <<managers, state, mRtspUrl, mMediaSource, finished>>

(* inputStream: a push also looks at mInputStreaming, a pull does not. *)
InputStream(s) ==
    /\ IF isFinishing(s) \/ (~pulled[s] /\ ~mInputStreaming[s])
       THEN FeederGoes(s, "input", "unwind") /\ UNCHANGED rtpTimer
       ELSE FeederGoes(s, "input", "reading") /\ rtpTimer' = [rtpTimer EXCEPT ![s] = TRUE]
    /\ UNCHANGED <<managers, state, mRtspUrl, mMediaSource, mInputStreaming, finished>>

(* onTcpPacket: each packet posts the timeout anew, after a stop as well. *)
Packet(s) ==
    /\ feeder[s] = "reading"
    /\ rtpTimer' = [rtpTimer EXCEPT ![s] = TRUE]
    /\ UNCHANGED <<managers, state, mRtspUrl, mMediaSource, mInputStreaming, threads, finished>>

(* End of file, a read error, or the parser was stopped. *)
EndOfStream(s) == FeederGoes(s, "reading", "unwind") /\ UNCHANGED <<managers, server>>

(* finally { stopInputStream(); finish(); } *)
Unwind(s) == FeederGoes(s, "unwind", "finish") /\ stopInputStream(s)
FeederBegin(s) == FeederGoes(s, "finish", "stop") /\ destoryBegin(s)
FeederStop(s) == FeederGoes(s, "stop", "end") /\ stopInputStream(s)
FeederEnd(s) == FeederGoes(s, "end", "done") /\ destoryEnd(s)

-----------------------------------------------------------------------------
(* The killer: any other thread that calls finish(). *)

KillerGoes(s, from, to) ==
    /\ killer[s] = from
    /\ killer' = [killer EXCEPT ![s] = to]
    /\ UNCHANGED <<feeder, pulled>>

(* The last output left (outputs auto finish), or removeSession. *)
Finish(s) ==
    /\ kills[s] < MaxKills
    /\ kills' = [kills EXCEPT ![s] = @ + 1]
    /\ KillerGoes(s, "idle", "finish")
    /\ UNCHANGED <<managers, server>>

(* mRtpSessionTimeOut runs on the main looper. *)
TimeOut(s) ==
    /\ rtpTimer[s]
    /\ rtpTimer' = [rtpTimer EXCEPT ![s] = FALSE]
    /\ kills[s] < MaxKills
    /\ kills' = [kills EXCEPT ![s] = @ + 1]
    /\ KillerGoes(s, "idle", "finish")
    /\ UNCHANGED <<managers, state, mRtspUrl, mMediaSource, mInputStreaming, finished>>

KillerBegin(s) == KillerGoes(s, "finish", "stop") /\ destoryBegin(s) /\ UNCHANGED kills
KillerStop(s) ==
    /\ MonitorFree(s)
    /\ KillerGoes(s, "stop", "end")
    /\ stopInputStream(s)
    /\ UNCHANGED kills
KillerEnd(s) == KillerGoes(s, "end", "idle") /\ destoryEnd(s) /\ UNCHANGED kills

-----------------------------------------------------------------------------
Start(s) ==
    \/ \E url \in Urls : Announce(s, url) \/ Pull(s, url)
    \/ Record(s) \/ StartInput(s) \/ Register(s) \/ Started(s)
    \/ RefuseBegin(s) \/ RefuseStop(s) \/ RefuseEnd(s)

Stream(s) == InputStream(s) \/ Packet(s) \/ EndOfStream(s)

Leave(s) == Unwind(s) \/ FeederBegin(s) \/ FeederStop(s) \/ FeederEnd(s)

Kill(s) == Finish(s) \/ TimeOut(s)

Killing(s) == KillerBegin(s) \/ KillerStop(s) \/ KillerEnd(s)

Next == \E s \in Servers : Start(s) \/ Stream(s) \/ Leave(s) \/ Kill(s) \/ Killing(s)

Spec == Init /\ [][Next]_vars

(* A thread that runs goes on; a stream need not end and a killer need not *)
(* come.                                                                   *)
Fairness == \A s \in Servers :
    /\ WF_vars(Record(s) \/ StartInput(s) \/ Register(s) \/ Started(s)
               \/ RefuseBegin(s) \/ RefuseStop(s) \/ RefuseEnd(s) \/ InputStream(s))
    /\ WF_vars(Leave(s))
    /\ WF_vars(Killing(s))

FairSpec == Spec /\ Fairness

-----------------------------------------------------------------------------
Registered(s) == \E k \in Keys : mMapRtspSource[k] = s

(* Both managers name the same source under every key, although each       *)
(* resolves a URL to its token on its own (RtspMediaServerManager:176-181, *)
(* MediaServerManager:47-53).                                              *)
ManagersAgree == mMapRtspSource = mMapMediaSource

(* Once a finish() has returned the server cannot be looked up any more,  *)
(* whatever its startInputStream was doing meanwhile: BaseServer.destory   *)
(* sets the state without a lock while the feeder may be past the          *)
(* isFinishing test of RtspMediaServer:450.                                *)
FinishedIsUnlisted == \A s \in finished : ~Registered(s)

(* A published source is never displaced by another one: its entry must be *)
(* removed first.                                                          *)
NeverDisplaced ==
    [][\A k \in Keys : mMapRtspSource[k] # None => mMapRtspSource'[k] \in {mMapRtspSource[k], None}]_vars

(* What managerRtspSource's refusal is for ("source has in manager",       *)
(* RtspMediaServerManager:160-163): the first publisher of a token keeps it*)
(* until its own server stops.  The code does not provide it.              *)
FirstPublisherKeeps ==
    [][\A k \in Keys :
         LET s == mMapRtspSource[k]
         IN  s # None /\ mMapRtspSource'[k] # s =>
                 feeder'[s] # feeder[s] \/ killer'[s] # killer[s]]_vars

(* A finish that has begun returns, with the server off the table: the     *)
(* monitor of startInputStream and the re-entrant finish of a refused      *)
(* server block nobody for ever.                                           *)
FinishReturns == \A s \in Servers : isFinishing(s) ~> (s \in finished /\ ~Registered(s))

(* Registry steps as a directory of live servers.                          *)
Directory == INSTANCE SourceDirectory WITH listed <- mMapRtspSource, gone <- finished
ImplementsDirectory == Directory!Spec

=============================================================================
