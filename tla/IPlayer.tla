------------------------------- MODULE IPlayer ------------------------------
(* The player of a web page: IPlayer of xplayer.js, which plays what a     *)
(* websocket of the server sends, through a MediaSource (H.264) or a       *)
(* worker (H.265).  A page runs one task at a time, so an action is one    *)
(* call of the page, one event of the browser, or one tick of an interval, *)
(* with everything it calls.                                               *)
(*                                                                         *)
(* A method is an operator from a player to the player it leaves; one that *)
(* throws leaves what was assigned before.  The only exception that        *)
(* leaves a method is that of WebSocket.send while the socket connects.    *)
(*                                                                         *)
(* Two releases are modelled: "player" (public/main/player, the newest)    *)
(* and "server" (the one the server's archive holds), where they differ.   *)
EXTENDS Integers, Sequences

CONSTANTS
    Urls,
    Releases,     \* the releases considered
    Listening,    \* the page has set onVideoPlay, as XPlayer does
    MaxCalls,     \* bound: calls of the page that may open a socket
    MaxFaults,    \* bound: failures of the network, the server and the browser
    MaxChunks     \* bound: binary messages

ASSUME PlayerAssumption ==
    /\ Releases \subseteq {"player", "server"} /\ Releases # {}
    /\ Listening \in BOOLEAN
    /\ MaxCalls \in Nat /\ MaxFaults \in Nat /\ MaxChunks \in Nat

None == 0
Sockets == 1 .. MaxCalls + MaxFaults
Types == {0, 2}          \* mediaType: a live stream, a file
GiveUp == 10             \* the limit runReconnect compares with

VARIABLES
    release,
    player,      \* the fields of the IPlayer and of the objects it has made
    wanted,      \* history: the arguments of the last call of play
    hidden,      \* the page is in the background
    calls, faults, chunks

vars == <<release, player, wanted, hidden, calls, faults, chunks>>
bounds == <<calls, faults, chunks>>

Requests == [url : Urls, mediaType : Types]
NoRequest == [url |-> None, mediaType |-> 0]

(* What a player is made of: its own fields, then the socket it has made,  *)
(* the source buffer and the worker, as far as it can see them.            *)
Players ==
    [status : {0, 1}, playing : BOOLEAN, meidaInited : BOOLEAN,
     buffer : Seq(Sockets),                      \* a chunk is the socket it came by
     request : Requests \cup {NoRequest},        \* url and mediaType
     reconnectCount : {0, 1},     \* stop() sets it to 0 before each retry
     IntervalReconect : BOOLEAN, IntervalCheckBuffer : BOOLEAN,   \* armed
     websocket : Sockets \cup {None},
     mediaSource : Sockets \cup {None},          \* one per first message, named by its socket
     sourceBuffer : Sockets \cup {None},
     decoder : Sockets \cup {None},
     video : BOOLEAN,                            \* there is a video element
     made : Sockets \cup {None},                 \* the last socket
     ready : {"none", "connecting", "open", "closed"},              \* of websocket
     handled : SUBSET Sockets,                   \* sockets whose handlers are set
     opening : SUBSET Sockets,                   \* media sources that listen to sourceopen
     loading : SUBSET Sockets,                   \* workers that have not created a decoder
     asked : Requests \cup {NoRequest},          \* what onOpen has sent
     told : {0, 1},                              \* the last status sent
     error : {0, 1, 2, 3, 4, 5, 10},             \* the last error of this connection
     updating : BOOLEAN, fed : BOOLEAN,          \* the source buffer: busy; has taken a chunk
     refused : BOOLEAN]                          \* it has refused one

TypeOK ==
    /\ release \in Releases
    /\ player \in Players
    /\ wanted \in Requests \cup {NoRequest}
    /\ hidden \in BOOLEAN
    /\ calls \in 0 .. MaxCalls /\ faults \in 0 .. MaxFaults /\ chunks \in 0 .. MaxChunks

NewPlayer ==
    [status |-> 0, playing |-> FALSE, meidaInited |-> FALSE, buffer |-> <<>>,
     request |-> NoRequest, reconnectCount |-> 0,
     IntervalReconect |-> FALSE, IntervalCheckBuffer |-> FALSE,
     websocket |-> None, mediaSource |-> None, sourceBuffer |-> None,
     decoder |-> None, video |-> FALSE,
     made |-> None, ready |-> "none", handled |-> {}, opening |-> {}, loading |-> {},
     asked |-> NoRequest, told |-> 0, error |-> 0,
     updating |-> FALSE, fed |-> FALSE, refused |-> FALSE]

Init ==
    /\ release \in Releases
    /\ player = NewPlayer
    /\ wanted = NoRequest
    /\ hidden = FALSE
    /\ calls = 0 /\ faults = 0 /\ chunks = 0

-----------------------------------------------------------------------------
(* Methods.  p is the player before the call. *)

SendThrows(p) == p.websocket # None /\ p.ready = "connecting"

(* notifyStatusBuffer: the release "server" takes only a status that is    *)
(* not 0; what is sent on a socket that closes is dropped.                 *)
SetStatus(p, s) ==
    [p EXCEPT !.status = IF release = "server" /\ s = 0 THEN @ ELSE s]

NotifyStatus(p, s) ==
    LET q == SetStatus(p, s)
    IN  IF q.websocket # None /\ q.ready = "open" THEN [q EXCEPT !.told = q.status] ELSE q

FreeMediaSource(p) ==
    [p EXCEPT !.sourceBuffer = None, !.mediaSource = None, !.video = FALSE,
              !.updating = FALSE, !.fed = FALSE,
              !.meidaInited = IF release = "server" THEN @ ELSE FALSE]

FreeDecoder(p) ==
    [p EXCEPT !.decoder = None, !.video = FALSE, !.meidaInited = IF release = "server" THEN @ ELSE FALSE]

(* The count of the retries is not set back. *)
Reset_KeepsCount(p) ==
    FreeDecoder(FreeMediaSource(
        [p EXCEPT !.status = 0, !.buffer = <<>>, !.IntervalReconect = FALSE]))

Reset(p) ==
    FreeDecoder(FreeMediaSource(
        [p EXCEPT !.status = 0, !.reconnectCount = 0, !.buffer = <<>>,
                  !.IntervalReconect = FALSE]))

(* The handlers of the old socket are left set. *)
CloseWebSocket_Deaf(p) ==
    IF p.websocket = None THEN p ELSE [p EXCEPT !.websocket = None, !.ready = "none"]

CloseWebSocket(p) ==
    IF p.websocket = None THEN p
    ELSE [p EXCEPT !.handled = @ \ {p.websocket}, !.websocket = None, !.ready = "none"]

InitWebSocket(p) ==
    LET s == p.made + 1
    IN  [p EXCEPT !.meidaInited = FALSE, !.playing = TRUE,
                  !.websocket = s, !.made = s, !.ready = "connecting",
                  !.handled = @ \cup {s},
                  !.asked = NoRequest, !.told = 0, !.error = 0, !.refused = FALSE]

(* The retry is not cancelled. *)
Pause_Retries(p) ==
    LET q == [p EXCEPT !.IntervalCheckBuffer = FALSE, !.status = 1]
    IN  IF SendThrows(p) THEN q ELSE [NotifyStatus(q, 1) EXCEPT !.playing = FALSE]

Pause(p) ==
    LET q == [p EXCEPT !.IntervalCheckBuffer = FALSE, !.IntervalReconect = FALSE, !.status = 1]
    IN  IF SendThrows(p) THEN q ELSE [NotifyStatus(q, 1) EXCEPT !.playing = FALSE]

Stop(p) ==
    IF SendThrows(p) THEN Pause(p) ELSE CloseWebSocket(Reset(Pause(p)))

(* The request is stored once the player is stopped. *)
Play_StoresLate(p, r) ==
    IF SendThrows(p) THEN Stop(p) ELSE InitWebSocket([Stop(p) EXCEPT !.request = r])

Play(p, r) ==
    LET q == Stop([p EXCEPT !.request = r])
    IN  IF SendThrows(p) THEN q ELSE InitWebSocket(q)

Replay(p) ==
    IF SendThrows(p) THEN Stop(p) ELSE Play(Stop(p), p.request)

RunCheckBuffer(p) ==
    [p EXCEPT !.IntervalCheckBuffer = IF p.video THEN TRUE ELSE @]   \* intervalCheckBuffer

Resume(p) ==
    LET q == NotifyStatus([p EXCEPT !.status = 0], 0)
        c == RunCheckBuffer(q)
    IN  IF SendThrows(p) THEN q
        ELSE IF c.meidaInited THEN [c EXCEPT !.playing = TRUE]
        ELSE Replay(c)

(* The release "server" looks at the video first and returns before it     *)
(* starts the interval, which without a video it does not start either.    *)
ResumeServer(p) ==
    LET q == NotifyStatus([p EXCEPT !.status = 0], 0)
    IN  IF SendThrows(p) \/ ~q.video THEN q
        ELSE IF q.meidaInited THEN [q EXCEPT !.playing = TRUE]
        ELSE Replay(q)

(* The retry counts what stop() has not set back, and gives up at once. *)
RunReconnect_Once(p) ==
    [p EXCEPT !.IntervalReconect = IF p.playing /\ p.reconnectCount < 1 THEN TRUE ELSE FALSE]

RunReconnect(p) ==
    [p EXCEPT !.IntervalReconect = IF p.playing /\ p.reconnectCount <= GiveUp THEN TRUE ELSE FALSE]

(* onVideoEvent(1, code) *)
OnVideoError(p, code) ==
    [(IF p.playing THEN RunReconnect(p) ELSE p) EXCEPT !.error = code]

(* onVideoEvent(0) *)
OnVideoPlay(p) == IF Listening THEN RunCheckBuffer(p) ELSE p

InitMediaSource(p, supported) ==
    LET q == [p EXCEPT !.video = TRUE]
    IN  IF supported
        THEN OnVideoPlay([q EXCEPT !.mediaSource = q.websocket, !.playing = TRUE,
                                   !.opening = @ \cup {q.websocket}])
        ELSE OnVideoError(q, 3)

InitH265Decoder(p) ==
    OnVideoPlay([p EXCEPT !.video = FALSE, !.decoder = p.websocket,
                          !.loading = @ \cup {p.websocket}])

OnSourceopen(p) ==
    IF p.mediaSource = None THEN p
    ELSE [p EXCEPT !.sourceBuffer = p.mediaSource, !.updating = FALSE, !.fed = FALSE]

(* taken: the source buffer takes the chunk, or appendBuffer throws. *)
Mp4AppendBuffer(p, taken) ==
    IF p.sourceBuffer = None \/ p.buffer = <<>> \/ p.updating THEN p
    ELSE LET q == [p EXCEPT !.buffer = Tail(@)]
         IN  IF taken THEN [q EXCEPT !.updating = TRUE, !.fed = TRUE]
             ELSE CloseWebSocket([q EXCEPT !.refused = TRUE])

OnOpen(p) == [p EXCEPT !.asked = p.request]

(* The retry is started before reset() cancels it. *)
OnClose_Early(p) ==
    Reset(IF p.playing THEN RunReconnect(p) ELSE p)

OnClose(p) ==
    LET q == Reset(p)
    IN  IF q.playing THEN RunReconnect(q) ELSE q

(* onMessage: the first message names the codec, the others are data. *)
OnFirst(p, answer) ==
    CASE answer = "h264" -> InitMediaSource([p EXCEPT !.meidaInited = TRUE], TRUE)
      [] answer = "unsupported" -> InitMediaSource([p EXCEPT !.meidaInited = TRUE], FALSE)
      [] answer = "h265" -> [InitH265Decoder(p) EXCEPT !.meidaInited = TRUE]
      [] answer = "no" -> CloseWebSocket(OnVideoError(p, 1))
      [] answer = "garbled" -> OnVideoError(CloseWebSocket(p), 2)

OnData(p, taken) ==
    IF p.decoder # None THEN p
    ELSE Mp4AppendBuffer([p EXCEPT !.buffer = Append(@, p.websocket)], taken)

(* What the interval of runReconnect does: the release "server" calls play *)
(* with the url alone.                                                     *)
Reconnect(p) ==
    LET q == IF release = "player" THEN Replay(p)
             ELSE Play(p, [p.request EXCEPT !.mediaType = 0])
    IN  IF SendThrows(p) THEN q ELSE [q EXCEPT !.reconnectCount = @ + 1]

-----------------------------------------------------------------------------
(* Calls of the page.  Those that may open a socket are bounded. *)
Call == calls < MaxCalls /\ calls' = calls + 1

PlayCall(r) ==
    /\ Call
    /\ player' = Play(player, r)
    /\ wanted' = r
    /\ UNCHANGED <<release, hidden, faults, chunks>>

ResumeCall ==
    /\ Call
    /\ player' = IF release = "player" THEN Resume(player) ELSE ResumeServer(player)
    /\ UNCHANGED <<release, wanted, hidden, faults, chunks>>

PauseCall ==
    /\ player' = Pause(player)
    /\ UNCHANGED <<release, wanted, hidden, bounds>>

StopCall ==
    /\ player' = Stop(player)
    /\ UNCHANGED <<release, wanted, hidden, bounds>>

(* onVisibilityChange.  A page that comes back plays again if more than 60 *)
(* seconds wait in the source buffer.                                      *)
Hide ==
    /\ ~hidden /\ hidden' = TRUE
    /\ player' = NotifyStatus(player, 1)
    /\ UNCHANGED <<release, wanted, bounds>>

Show ==
    /\ hidden /\ hidden' = FALSE
    /\ \/ player' = NotifyStatus(player, 0) /\ UNCHANGED calls
       \/ /\ player.sourceBuffer # None /\ ~SendThrows(player)
          /\ Call
          /\ player' = Replay(NotifyStatus(player, 0))
    /\ UNCHANGED <<release, wanted, faults, chunks>>

(* The intervals. *)
Reconnecting ==
    /\ player.IntervalReconect
    /\ player' = Reconnect(player)
    /\ UNCHANGED <<release, wanted, hidden, bounds>>

CheckBuffer ==
    /\ player.IntervalCheckBuffer
    /\ player.video /\ player.sourceBuffer # None
    /\ player' = NotifyStatus(player, player.status)
    /\ UNCHANGED <<release, wanted, hidden, bounds>>

(* Events of a socket whose handlers are set. *)
Fault == faults < MaxFaults /\ faults' = faults + 1

Opened ==
    /\ player.websocket \in player.handled /\ player.ready = "connecting"
    /\ player' = OnOpen([player EXCEPT !.ready = "open"])
    /\ UNCHANGED <<release, wanted, hidden, bounds>>

(* A connection that fails, or is lost with or without an error: the error *)
(* and the close are one task of the browser.                              *)
Lost(s, failed) ==
    /\ s \in player.handled
    /\ s = player.websocket /\ player.ready = "connecting" => failed
    /\ Fault
    /\ LET q == [player EXCEPT !.handled = @ \ {s},
                               !.ready = IF s = player.websocket THEN "closed" ELSE @]
       IN  player' = OnClose(IF failed THEN OnVideoError(q, 5) ELSE q)
    /\ UNCHANGED <<release, wanted, hidden, calls, chunks>>

Receiving == player.websocket \in player.handled /\ player.ready = "open"

First(answer) ==
    /\ Receiving /\ ~player.meidaInited
    /\ IF answer \in {"h264", "h265"} THEN UNCHANGED faults ELSE Fault
    /\ player' = OnFirst(player, answer)
    /\ UNCHANGED <<release, wanted, hidden, calls, chunks>>

Data ==
    /\ Receiving /\ player.meidaInited
    /\ chunks < MaxChunks /\ chunks' = chunks + 1
    /\ \/ player' = OnData(player, TRUE) /\ UNCHANGED faults
       \/ player' = OnData(player, FALSE) /\ player'.refused /\ Fault
    /\ UNCHANGED <<release, wanted, hidden, calls>>

(* Events of a media source, its buffer and a worker.  Media sources open  *)
(* in the order of their creation; the listener of one that was freed      *)
(* before it opened is still there, and finds no media source, or one that *)
(* is not open and throws.                                                 *)
SourceOpen(m) ==
    /\ m \in player.opening /\ \A n \in player.opening : m <= n
    /\ LET q == [player EXCEPT !.opening = @ \ {m}]
       IN  player' = IF m = player.mediaSource THEN OnSourceopen(q) ELSE q
    /\ UNCHANGED <<release, wanted, hidden, bounds>>

(* updateend does not pass on the next chunk. *)
UpdateEnd_Idle ==
    /\ player.updating
    /\ player' = [player EXCEPT !.updating = FALSE]
    /\ UNCHANGED <<release, wanted, hidden, bounds>>

UpdateEnd ==
    /\ player.updating
    /\ LET q == [player EXCEPT !.updating = FALSE]
       IN  \/ player' = Mp4AppendBuffer(q, TRUE) /\ UNCHANGED faults
           \/ player' = Mp4AppendBuffer(q, FALSE) /\ player'.refused /\ Fault
    /\ UNCHANGED <<release, wanted, hidden, calls, chunks>>

(* Nothing ends a worker: one of an earlier connection tells its failure   *)
(* to the player all the same.                                             *)
WorkerReady(w) ==
    /\ w \in player.loading
    /\ player' = [player EXCEPT !.loading = @ \ {w}]
    /\ UNCHANGED <<release, wanted, hidden, bounds>>

WorkerFails(w) ==
    /\ w \in player.loading
    /\ Fault
    /\ player' = OnVideoError([player EXCEPT !.loading = @ \ {w}], 10)
    /\ UNCHANGED <<release, wanted, hidden, calls, chunks>>

Answers == {"h264", "h265", "unsupported", "no", "garbled"}

Next ==
    \/ \E r \in Requests : PlayCall(r)
    \/ ResumeCall \/ PauseCall \/ StopCall
    \/ Hide \/ Show
    \/ Reconnecting \/ CheckBuffer
    \/ Opened
    \/ \E s \in Sockets, failed \in BOOLEAN : Lost(s, failed)
    \/ \E answer \in Answers : First(answer)
    \/ Data
    \/ \E m \in Sockets : SourceOpen(m)
    \/ UpdateEnd
    \/ \E w \in Sockets : WorkerReady(w) \/ WorkerFails(w)

Spec == Init /\ [][Next]_vars

(* Intervals tick, and the browser ends each attempt to connect.  Nothing  *)
(* is assumed of the server's first message, which it sends once it has    *)
(* the source: the pull that may take has no time limit, and the player    *)
(* has none either (WebSocketServer:126).                                  *)
Connected == Opened \/ \E s \in Sockets, failed \in BOOLEAN : Lost(s, failed)
FairSpec ==
    /\ Spec
    /\ WF_vars(Reconnecting)
    /\ WF_vars(player.ready = "connecting" /\ Connected)

-----------------------------------------------------------------------------
(* Properties *)

(* Safety: a player that is to play has a socket whose events reach it, or *)
(* an interval that will replay, unless its source buffer has refused a    *)
(* chunk: mp4appendBuffer closes the socket and tells nobody.              *)
NeverStalls ==
    player.playing =>
        \/ player.websocket \in player.handled
        \/ player.IntervalReconect
        \/ player.refused

(* Safety: only the socket of the player can still call it, and what waits *)
(* for the source buffer came by the socket the media source was made for. *)
OneStream ==
    /\ player.handled \subseteq {player.websocket}
    /\ player.sourceBuffer \in {None, player.mediaSource}
    /\ player.mediaSource # None /\ player.websocket # None
           => player.mediaSource = player.websocket
    /\ \A i \in 1 .. Len(player.buffer) :
           player.mediaSource # None => player.buffer[i] = player.mediaSource

(* Safety: whatever calls came while a socket connected, the server was    *)
(* asked for what the page asked for last.  The release "server" forgets   *)
(* the type when it reconnects.                                            *)
RightStream ==
    Receiving /\ release = "player" => player.asked = wanted

(* Safety: once the source buffer has taken a chunk, no chunk waits while  *)
(* it is idle: updateend or the next message passes it on.                 *)
NoIdleBacklog ==
    player.fed /\ ~player.updating /\ ~player.refused => player.buffer = <<>>

(* Refinement: a page may take the player for a Playback.  Nothing but a   *)
(* call of the page starts a player that was stopped, and every end of a   *)
(* stream but a refused chunk is followed by a retry.                      *)
Phase ==
    IF player.playing
    THEN IF player.IntervalReconect THEN "waiting"
         ELSE IF player.websocket \notin player.handled THEN "lost"
         ELSE IF player.ready = "connecting" THEN "connecting"
         ELSE "streaming"
    ELSE IF player.websocket \in player.handled THEN "paused" ELSE "stopped"

Promise == INSTANCE Playback WITH phase <- Phase
ImplementsPlayback == Promise!Spec

(* Liveness: a player that is to play comes to receive a stream, is        *)
(* stopped or paused, has lost its source buffer, or waits at an open      *)
(* socket for a server that never sends its first message: whatever else   *)
(* fails is tried again.                                                   *)
Silent == Receiving /\ ~player.meidaInited
Recovers ==
    player.playing ~> \/ Receiving /\ player.meidaInited
                      \/ ~player.playing
                      \/ player.refused
                      \/ []Silent

(* The header of xplayer.js lists the errors a page is told of, among them *)
(* 4, "video data append error".                                           *)
AppendErrorIsTold == player.refused => player.error = 4

(* "status 0:online,1:offline" (onVisibilityChange): the server is told    *)
(* that a page which comes back is online.                                 *)
ShownIsOnline == [][hidden /\ ~hidden' /\ Receiving => player'.told = 0]_vars
=============================================================================
