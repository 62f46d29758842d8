---------------------------- MODULE IPlayerProofs ---------------------------
(* Proofs about IPlayer: its state keeps its type, a player that is to     *)
(* play has a live socket or a retry, it plays one stream, it asks for     *)
(* what the page asked for, and each of its steps is a step of Playback or *)
(* none.                                                                   *)
(*                                                                         *)
(* A player is a record of many fields and a method assigns several of     *)
(* them, so a lemma per method first says, field by field, what it leaves; *)
(* the lemmas about the actions use nothing else of the methods.           *)
EXTENDS IPlayer, TLAPS

Fields ==
    {"status", "playing", "meidaInited", "buffer", "request", "reconnectCount",
     "IntervalReconect", "IntervalCheckBuffer", "websocket", "mediaSource",
     "sourceBuffer", "decoder", "video", "made", "ready", "handled", "opening",
     "loading", "asked", "told", "error", "updating", "fed", "refused"}

Typed(p) ==
    /\ p.status \in {0, 1} /\ p.playing \in BOOLEAN /\ p.meidaInited \in BOOLEAN
    /\ p.buffer \in Seq(Sockets) /\ p.request \in Requests \cup {NoRequest}
    /\ p.reconnectCount \in {0, 1}
    /\ p.IntervalReconect \in BOOLEAN /\ p.IntervalCheckBuffer \in BOOLEAN
    /\ p.websocket \in Sockets \cup {None} /\ p.mediaSource \in Sockets \cup {None}
    /\ p.sourceBuffer \in Sockets \cup {None} /\ p.decoder \in Sockets \cup {None}
    /\ p.video \in BOOLEAN /\ p.made \in Sockets \cup {None}
    /\ p.ready \in {"none", "connecting", "open", "closed"}
    /\ p.handled \subseteq Sockets /\ p.opening \subseteq Sockets /\ p.loading \subseteq Sockets
    /\ p.asked \in Requests \cup {NoRequest} /\ p.told \in {0, 1}
    /\ p.error \in {0, 1, 2, 3, 4, 5, 10}
    /\ p.updating \in BOOLEAN /\ p.fed \in BOOLEAN /\ p.refused \in BOOLEAN

Rec(p) == p = [x \in Fields |-> p[x]]

Good(p) == Rec(p) /\ DOMAIN p = Fields /\ Typed(p)

(* What a method that assigns the fields S leaves alone. *)
Keeps(p, q, S) == \A f \in Fields \ S : q[f] = p[f]

(* A record is a player if each of its fields has its type. *)
LEMMA GoodIsPlayer ==
    ASSUME NEW p, Good(p)
    PROVE  p \in Players
BY DEF Good, Rec, Typed, Fields, Players

LEMMA PlayerIsGood ==
    ASSUME NEW p \in Players
    PROVE  Good(p)
<1>1. DOMAIN p = Fields
  BY DEF Players, Fields
<1>2. Typed(p)
  BY DEF Players, Typed
<1>3. Rec(p)
  BY <1>1 DEF Players, Rec
<1> QED  BY <1>1, <1>2, <1>3 DEF Good

-----------------------------------------------------------------------------
(* What each method leaves. *)

(* No media source is left, nor in the newest release an initialised       *)
(* player.                                                                 *)
LEMMA FreeMediaSourceLeaves ==
    ASSUME NEW p, Good(p)
    PROVE  LET q == FreeMediaSource(p)
           IN  /\ Good(q)
               /\ Keeps(p, q, {"sourceBuffer", "mediaSource", "video", "updating",
                                "fed", "meidaInited"})
               /\ q.sourceBuffer = None /\ q.mediaSource = None /\ ~q.video
               /\ ~q.fed /\ ~q.updating
               /\ release = "player" => ~q.meidaInited
<1> DEFINE q == FreeMediaSource(p)
<1>1. DOMAIN q = Fields /\ Rec(q)
  BY Zenon DEF Good, Rec, FreeMediaSource
<1>2. Typed(q)
  BY ZenonT(30) DEF Good, Typed, Fields, Sockets, None, FreeMediaSource
<1>3. Keeps(p, q, {"sourceBuffer", "mediaSource", "video", "updating", "fed",
                      "meidaInited"})
  BY DEF Good, Keeps, FreeMediaSource
<1>4. /\ q.sourceBuffer = None /\ q.mediaSource = None /\ ~q.video
      /\ ~q.fed /\ ~q.updating
      /\ release = "player" => ~q.meidaInited
  BY ZenonT(30) DEF Good, Typed, Fields, Sockets, None, FreeMediaSource
<1> QED  BY <1>1, <1>2, <1>3, <1>4 DEF Good

(* No decoder is left.                                                     *)
LEMMA FreeDecoderLeaves ==
    ASSUME NEW p, Good(p)
    PROVE  LET q == FreeDecoder(p)
           IN  /\ Good(q)
               /\ Keeps(p, q, {"decoder", "video", "meidaInited"})
               /\ ~q.video
               /\ release = "player" => ~q.meidaInited
<1> DEFINE q == FreeDecoder(p)
<1>1. DOMAIN q = Fields /\ Rec(q)
  BY Zenon DEF Good, Rec, FreeDecoder
<1>2. Typed(q)
  BY ZenonT(30) DEF Good, Typed, Fields, Sockets, None, FreeDecoder
<1>3. Keeps(p, q, {"decoder", "video", "meidaInited"})
  BY DEF Good, Keeps, FreeDecoder
<1>4. /\ ~q.video
      /\ release = "player" => ~q.meidaInited
  BY ZenonT(30) DEF Good, Typed, Fields, Sockets, None, FreeDecoder
<1> QED  BY <1>1, <1>2, <1>3, <1>4 DEF Good

(* Nothing waits, nothing is armed and nothing is initialised. *)
LEMMA ResetLeaves ==
    ASSUME NEW p, Good(p)
    PROVE  LET q == Reset(p)
           IN  /\ Good(q)
               /\ Keeps(p, q, {"status", "reconnectCount", "buffer", "IntervalReconect",
                               "sourceBuffer", "mediaSource", "video", "updating", "fed",
                               "meidaInited", "decoder"})
               /\ q.buffer = <<>> /\ ~q.IntervalReconect /\ q.reconnectCount = 0
               /\ q.sourceBuffer = None /\ q.mediaSource = None /\ ~q.video
               /\ ~q.fed /\ ~q.updating
               /\ release = "player" => ~q.meidaInited
<1> DEFINE a == [p EXCEPT !.status = 0, !.reconnectCount = 0, !.buffer = <<>>,
                          !.IntervalReconect = FALSE]
           b == FreeMediaSource(a)
           q == FreeDecoder(b)
<1>1. Good(a)
  <2>1. DOMAIN a = Fields /\ Rec(a)
    BY Zenon DEF Good, Rec
  <2>2. Typed(a)
    BY DEF Good, Typed, Fields
  <2> QED  BY <2>1, <2>2 DEF Good
<1>2. /\ Keeps(p, a, {"status", "reconnectCount", "buffer", "IntervalReconect"})
      /\ a.buffer = <<>> /\ ~a.IntervalReconect /\ a.reconnectCount = 0
  BY DEF Good, Keeps, Fields
<1> HIDE DEF a
<1>3. /\ Good(b)
      /\ Keeps(a, b, {"sourceBuffer", "mediaSource", "video", "updating", "fed", "meidaInited"})
      /\ b.sourceBuffer = None /\ b.mediaSource = None /\ ~b.fed /\ ~b.updating
  BY <1>1, FreeMediaSourceLeaves
<1> HIDE DEF b
<1>4. /\ Good(q)
      /\ Keeps(b, q, {"decoder", "video", "meidaInited"})
      /\ ~q.video
      /\ release = "player" => ~q.meidaInited
  BY <1>3, FreeDecoderLeaves
<1> HIDE DEF q
<1>5. Reset(p) = q
  BY DEF Reset, q, b, a
<1>6. /\ q.buffer = <<>> /\ ~q.IntervalReconect /\ q.reconnectCount = 0
      /\ q.sourceBuffer = None /\ q.mediaSource = None /\ ~q.fed /\ ~q.updating
  BY <1>2, <1>3, <1>4 DEF Keeps, Fields
<1>7. Keeps(p, q, {"status", "reconnectCount", "buffer", "IntervalReconect",
                   "sourceBuffer", "mediaSource", "video", "updating", "fed",
                   "meidaInited", "decoder"})
  BY <1>2, <1>3, <1>4 DEF Keeps, Fields
<1> QED  BY <1>4, <1>5, <1>6, <1>7

(* A status that is set changes nothing else.                              *)
LEMMA SetStatusLeaves ==
    ASSUME NEW p, NEW s \in {0, 1}, Good(p)
    PROVE  LET q == SetStatus(p, s)
           IN  /\ Good(q)
               /\ Keeps(p, q, {"status"})
<1> DEFINE q == SetStatus(p, s)
<1>1. DOMAIN q = Fields /\ Rec(q)
  BY Zenon DEF Good, Rec, SetStatus
<1>2. Typed(q)
  BY ZenonT(30) DEF Good, Typed, Fields, Sockets, None, SetStatus
<1>3. Keeps(p, q, {"status"})
  BY DEF Good, Keeps, SetStatus
<1> QED  BY <1>1, <1>2, <1>3 DEF Good

(* A status changes nothing else. *)
LEMMA NotifyStatusLeaves ==
    ASSUME NEW p, NEW s \in {0, 1}, Good(p)
    PROVE  /\ Good(NotifyStatus(p, s))
           /\ Keeps(p, NotifyStatus(p, s), {"status", "told"})
<1> DEFINE a == SetStatus(p, s)
           b == [a EXCEPT !.told = a.status]
<1>1. Good(a) /\ Keeps(p, a, {"status"})
  BY SetStatusLeaves
<1>2. NotifyStatus(p, s) = a \/ NotifyStatus(p, s) = b
  BY DEF NotifyStatus
<1> HIDE DEF a
<1>3. DOMAIN b = Fields /\ Rec(b)
  BY <1>1, Zenon DEF Good, Rec
<1>4. Typed(b)
  BY <1>1 DEF Good, Typed, Fields
<1>5. Keeps(p, b, {"status", "told"}) /\ Keeps(p, a, {"status", "told"})
  BY <1>1 DEF Good, Keeps
<1> QED  BY <1>1, <1>2, <1>3, <1>4, <1>5 DEF Good

(* The socket that is closed has lost its handlers.                        *)
LEMMA CloseWebSocketLeaves ==
    ASSUME NEW p, Good(p)
    PROVE  LET q == CloseWebSocket(p)
           IN  /\ Good(q)
               /\ Keeps(p, q, {"handled", "websocket", "ready"})
               /\ q.websocket = None
               /\ q.handled = p.handled \ {p.websocket}
<1> DEFINE q == CloseWebSocket(p)
<1>1. CASE p.websocket = None
  <2>1. DOMAIN q = Fields /\ Rec(q)
    BY <1>1, Zenon DEF Good, Rec, CloseWebSocket
  <2>2. Typed(q)
    BY <1>1 DEF Good, Typed, Fields, Sockets, None, CloseWebSocket
  <2>3. Keeps(p, q, {"handled", "websocket", "ready"})
    BY <1>1 DEF Good, Keeps, CloseWebSocket
  <2>4. /\ q.websocket = None
        /\ q.handled = p.handled \ {p.websocket}
    BY <1>1 DEF Good, Typed, Fields, Sockets, None, CloseWebSocket
  <2> QED  BY <2>1, <2>2, <2>3, <2>4 DEF Good
<1>2. CASE p.websocket # None
  <2>1. DOMAIN q = Fields /\ Rec(q)
    BY <1>2, Zenon DEF Good, Rec, CloseWebSocket
  <2>2. Typed(q)
    BY <1>2 DEF Good, Typed, Fields, Sockets, None, CloseWebSocket
  <2>3. Keeps(p, q, {"handled", "websocket", "ready"})
    BY <1>2 DEF Good, Keeps, CloseWebSocket
  <2>4. /\ q.websocket = None
        /\ q.handled = p.handled \ {p.websocket}
    BY <1>2 DEF Good, Typed, Fields, Sockets, None, CloseWebSocket
  <2> QED  BY <2>1, <2>2, <2>3, <2>4 DEF Good
<1> QED  BY <1>1, <1>2

(* A player that connects, by a socket of its own. *)
LEMMA InitWebSocketLeaves ==
    ASSUME NEW p, Good(p), p.made < MaxCalls + MaxFaults
    PROVE  LET q == InitWebSocket(p)
           IN  /\ Good(q)
               /\ Keeps(p, q, {"meidaInited", "playing", "websocket", "made", "ready", "handled",
                                "asked", "told", "error", "refused"})
               /\ q.playing /\ ~q.meidaInited /\ ~q.refused
               /\ q.made = p.made + 1 /\ q.websocket = p.made + 1
               /\ q.ready = "connecting" /\ q.handled = p.handled \cup {p.made + 1}
<1> DEFINE s == p.made + 1
           q == [p EXCEPT !.meidaInited = FALSE, !.playing = TRUE,
                          !.websocket = s, !.made = s, !.ready = "connecting",
                          !.handled = @ \cup {s},
                          !.asked = NoRequest, !.told = 0, !.error = 0, !.refused = FALSE]
<1>1. s \in Sockets
  BY PlayerAssumption DEF Good, Typed, Sockets, None
<1>2. InitWebSocket(p) = q
  BY Zenon DEF InitWebSocket
<1> HIDE DEF s
<1>3. DOMAIN q = Fields /\ Rec(q)
  BY Zenon DEF Good, Rec
<1>4. Typed(q)
  BY <1>1 DEF Good, Typed, Fields
<1>5. Keeps(p, q, {"meidaInited", "playing", "websocket", "made", "ready", "handled",
                   "asked", "told", "error", "refused"})
  BY DEF Good, Keeps
<1>6. /\ q.playing /\ ~q.meidaInited /\ ~q.refused
      /\ q.made = s /\ q.websocket = s
      /\ q.ready = "connecting" /\ q.handled = p.handled \cup {s}
  BY DEF Good, Fields
<1> HIDE DEF q
<1> QED  BY <1>2, <1>3, <1>4, <1>5, <1>6 DEF Good, s

(* The interval that checks the buffer changes nothing else.               *)
LEMMA RunCheckBufferLeaves ==
    ASSUME NEW p, Good(p)
    PROVE  LET q == RunCheckBuffer(p)
           IN  /\ Good(q)
               /\ Keeps(p, q, {"IntervalCheckBuffer"})
<1> DEFINE q == RunCheckBuffer(p)
<1>1. DOMAIN q = Fields /\ Rec(q)
  BY Zenon DEF Good, Rec, RunCheckBuffer
<1>2. Typed(q)
  BY ZenonT(30) DEF Good, Typed, Fields, Sockets, None, RunCheckBuffer
<1>3. Keeps(p, q, {"IntervalCheckBuffer"})
  BY DEF Good, Keeps, RunCheckBuffer
<1> QED  BY <1>1, <1>2, <1>3 DEF Good

(* A player that is to play will retry: the count never reaches the limit. *)
LEMMA RunReconnectLeaves ==
    ASSUME NEW p, Good(p)
    PROVE  LET q == RunReconnect(p)
           IN  /\ Good(q)
               /\ Keeps(p, q, {"IntervalReconect"})
               /\ q.IntervalReconect <=> p.playing
<1> DEFINE q == RunReconnect(p)
<1>1. DOMAIN q = Fields /\ Rec(q)
  BY Zenon DEF Good, Rec, RunReconnect, GiveUp
<1>2. Typed(q)
  BY ZenonT(30) DEF Good, Typed, Fields, Sockets, None, RunReconnect, GiveUp
<1>3. Keeps(p, q, {"IntervalReconect"})
  BY DEF Good, Keeps, RunReconnect, GiveUp
<1>4. q.IntervalReconect <=> p.playing
  BY SMTT(30) DEF Good, Typed, Fields, Sockets, None, RunReconnect, GiveUp
<1> QED  BY <1>1, <1>2, <1>3, <1>4 DEF Good

-----------------------------------------------------------------------------
(* The invariant.  A player has at most one socket that can call it, and   *)
(* has made it last.                                                       *)
Handled(p) == p.websocket \in p.handled

OneSocket(p) ==
    /\ p.handled \subseteq {p.websocket}
    /\ p.websocket # None => p.websocket = p.made
    /\ p.websocket # None /\ p.ready = "connecting" => Handled(p)
    /\ Handled(p) => p.ready \in {"connecting", "open"}

(* Its media source is that of this socket, and chunks wait only once the  *)
(* first message has come, which comes only once the socket is open.       *)
OneSource(p) ==
    /\ p.sourceBuffer \in {None, p.mediaSource}
    /\ p.mediaSource # None /\ p.websocket # None => p.mediaSource = p.websocket
    /\ ~p.meidaInited => p.buffer = <<>>
    /\ p.mediaSource # None => \A i \in 1 .. Len(p.buffer) : p.buffer[i] = p.mediaSource
    /\ p.meidaInited /\ p.websocket # None => p.ready # "connecting"

(* It can be resumed only while it is supplied, and retries only while it  *)
(* is to play.                                                             *)
Supplied(p) == Handled(p) \/ p.refused

Kept(p) ==
    /\ p.playing => Supplied(p) \/ p.IntervalReconect
    /\ p.meidaInited /\ (release = "player" \/ p.video) => Supplied(p)
    /\ p.IntervalReconect => p.playing

Sound(p) == OneSocket(p) /\ OneSource(p) /\ Kept(p)

(* A source buffer that has taken a chunk is there, and none waits while   *)
(* it is idle.                                                             *)
Backed(p) == p.fed \/ p.updating => p.sourceBuffer # None

Passed(p) == Backed(p) /\ (p.fed /\ ~p.updating /\ ~p.refused => p.buffer = <<>>)

Passes(p, q) == Passed(p) => Passed(q)

(* The phase of a Playback that a player is in, and what it may do to it   *)
(* when the page asks for nothing.                                         *)
PhaseOf(p) ==
    IF p.playing
    THEN IF p.IntervalReconect THEN "waiting"
         ELSE IF ~Handled(p) THEN "lost"
         ELSE IF p.ready = "connecting" THEN "connecting"
         ELSE "streaming"
    ELSE IF Handled(p) THEN "paused" ELSE "stopped"

Turns(p, q) ==
    \/ PhaseOf(q) = PhaseOf(p)
    \/ <<PhaseOf(p), PhaseOf(q)>> \in Promise!Own \cup Promise!Ended

LEMMA KeepsPasses ==
    ASSUME NEW p, NEW q, NEW S, Keeps(p, q, S),
           {"fed", "updating", "sourceBuffer", "refused", "buffer"} \cap S = {}
    PROVE  Passes(p, q)
<1>1. /\ q.fed = p.fed /\ q.updating = p.updating /\ q.sourceBuffer = p.sourceBuffer
      /\ q.refused = p.refused /\ q.buffer = p.buffer
  BY DEF Keeps, Fields
<1> QED  BY <1>1 DEF Passes, Passed, Backed

(* Other fields do not change the phase. *)
LEMMA KeepsPhase ==
    ASSUME NEW p, NEW q, NEW S, Keeps(p, q, S),
           {"playing", "IntervalReconect", "websocket", "handled", "ready"} \cap S = {}
    PROVE  PhaseOf(q) = PhaseOf(p)
<1>1. /\ q.playing = p.playing /\ q.IntervalReconect = p.IntervalReconect
      /\ q.websocket = p.websocket /\ q.handled = p.handled /\ q.ready = p.ready
  BY DEF Keeps, Fields
<1> QED  BY <1>1 DEF PhaseOf, Handled

(* The newest release asks each socket for what the page asked for last.   *)
Asks(p) ==
    release = "player" =>
        /\ p.request = wanted
        /\ Handled(p) /\ p.ready = "open" => p.asked = p.request

(* Every socket was made by a call or by the retry that follows a failure. *)
Armed(p) == IF p.IntervalReconect THEN 1 ELSE 0
Counted == player.made + Armed(player) <= calls + faults

IInv == TypeOK /\ Sound(player) /\ Passed(player) /\ Asks(player) /\ Counted

-----------------------------------------------------------------------------
(* Methods of the page. *)

(* A method that throws has only taken down the intervals. *)
LEMMA PauseLeaves ==
    ASSUME NEW p, Good(p)
    PROVE  LET q == Pause(p)
           IN  /\ Good(q) /\ ~q.IntervalReconect
               /\ SendThrows(p) =>
                      Keeps(p, q, {"IntervalCheckBuffer", "IntervalReconect", "status"})
               /\ ~SendThrows(p) =>
                      /\ Keeps(p, q, {"IntervalCheckBuffer", "IntervalReconect", "status", "told",
                                      "playing"})
                      /\ ~q.playing
<1> DEFINE a == [p EXCEPT !.IntervalCheckBuffer = FALSE, !.IntervalReconect = FALSE, !.status = 1]
           b == NotifyStatus(a, 1)
           c == [b EXCEPT !.playing = FALSE]
<1>1. Good(a)
  <2>1. DOMAIN a = Fields /\ Rec(a)
    BY Zenon DEF Good, Rec
  <2>2. Typed(a)
    BY DEF Good, Typed, Fields
  <2> QED  BY <2>1, <2>2 DEF Good
<1>2. /\ Keeps(p, a, {"IntervalCheckBuffer", "IntervalReconect", "status"})
      /\ ~a.IntervalReconect
  BY DEF Good, Keeps, Fields
<1>3. Pause(p) = IF SendThrows(p) THEN a ELSE c
  BY Zenon DEF Pause
<1> HIDE DEF a
<1>4. Good(b) /\ Keeps(a, b, {"status", "told"})
  BY <1>1, NotifyStatusLeaves
<1> HIDE DEF b
<1>5. Good(c)
  <2>1. DOMAIN c = Fields /\ Rec(c)
    BY <1>4, Zenon DEF Good, Rec
  <2>2. Typed(c)
    BY <1>4 DEF Good, Typed, Fields
  <2> QED  BY <2>1, <2>2 DEF Good
<1>6. Keeps(b, c, {"playing"}) /\ ~c.playing
  BY <1>4 DEF Good, Keeps, Fields
<1> HIDE DEF c
<1>7. /\ Keeps(p, c, {"IntervalCheckBuffer", "IntervalReconect", "status", "told", "playing"})
      /\ ~c.IntervalReconect
  BY <1>2, <1>4, <1>6 DEF Keeps, Fields
<1>8. CASE SendThrows(p)
  BY <1>1, <1>2, <1>3, <1>8
<1>9. CASE ~SendThrows(p)
  BY <1>3, <1>5, <1>6, <1>7, <1>9
<1> QED  BY <1>8, <1>9

(* A socket that connects goes on connecting. *)
LEMMA ThrownSound ==
    ASSUME NEW p, NEW q, Good(p), Good(q), Sound(p), SendThrows(p), ~q.IntervalReconect,
           Keeps(p, q, {"IntervalCheckBuffer", "IntervalReconect", "status", "request"})
    PROVE  Sound(q)
BY DEF Sound, OneSocket, OneSource, Kept, Supplied, Handled, SendThrows, Keeps, Fields

Stopped(p, q) ==
    /\ q.websocket = None /\ ~q.playing /\ ~q.IntervalReconect
    /\ q.handled = {} /\ q.buffer = <<>> /\ q.mediaSource = None /\ q.sourceBuffer = None
    /\ ~q.fed /\ ~q.updating
    /\ q.request = p.request /\ q.made = p.made /\ q.reconnectCount = 0

LEMMA StopLeaves ==
    ASSUME NEW p, Good(p), Sound(p)
    PROVE  LET q == Stop(p)
           IN  /\ Good(q) /\ Sound(q)
               /\ SendThrows(p) =>
                      /\ Keeps(p, q, {"IntervalCheckBuffer", "IntervalReconect", "status"})
                      /\ ~q.IntervalReconect
               /\ ~SendThrows(p) => Stopped(p, q)
<1> DEFINE a == Pause(p)
           b == Reset(a)
           c == CloseWebSocket(b)
<1>1. Stop(p) = IF SendThrows(p) THEN a ELSE c
  BY Zenon DEF Stop
<1>2. /\ Good(a) /\ ~a.IntervalReconect
      /\ SendThrows(p) => Keeps(p, a, {"IntervalCheckBuffer", "IntervalReconect", "status"})
      /\ ~SendThrows(p) =>
             /\ Keeps(p, a, {"IntervalCheckBuffer", "IntervalReconect", "status", "told",
                             "playing"})
             /\ ~a.playing
  BY PauseLeaves
<1> HIDE DEF a
<1>3. CASE SendThrows(p)
  <2>1. Keeps(p, a, {"IntervalCheckBuffer", "IntervalReconect", "status", "request"})
    BY <1>2, <1>3 DEF Keeps
  <2>2. Sound(a)
    BY <1>2, <1>3, <2>1, ThrownSound
  <2> QED  BY <1>1, <1>2, <1>3, <2>2
<1>4. CASE ~SendThrows(p)
  <2>1. /\ Good(b)
        /\ Keeps(a, b, {"status", "reconnectCount", "buffer", "IntervalReconect",
                        "sourceBuffer", "mediaSource", "video", "updating", "fed",
                        "meidaInited", "decoder"})
        /\ b.buffer = <<>> /\ ~b.IntervalReconect /\ b.reconnectCount = 0
        /\ b.sourceBuffer = None /\ b.mediaSource = None /\ ~b.video
        /\ ~b.fed /\ ~b.updating
        /\ release = "player" => ~b.meidaInited
    BY <1>2, ResetLeaves
  <2> HIDE DEF b
  <2>2. /\ Good(c)
        /\ Keeps(b, c, {"handled", "websocket", "ready"})
        /\ c.websocket = None /\ c.handled = b.handled \ {b.websocket}
    BY <2>1, CloseWebSocketLeaves
  <2> HIDE DEF c
  <2>3. /\ b.handled = p.handled /\ b.websocket = p.websocket
        /\ b.request = p.request /\ b.made = p.made /\ ~b.playing
    BY <1>2, <1>4, <2>1 DEF Keeps, Fields
  <2>4. c.handled = {}
    BY <2>2, <2>3 DEF Sound, OneSocket
  <2>5. /\ c.buffer = <<>> /\ ~c.IntervalReconect /\ c.sourceBuffer = None
        /\ c.mediaSource = None /\ ~c.video /\ ~c.playing /\ ~c.fed /\ ~c.updating
        /\ c.request = p.request /\ c.made = p.made /\ c.reconnectCount = 0
        /\ release = "player" => ~c.meidaInited
    BY <2>1, <2>2, <2>3 DEF Keeps, Fields
  <2>6. Sound(c)
    BY <2>2, <2>4, <2>5 DEF Sound, OneSocket, OneSource, Kept, Handled, Supplied
  <2> QED  BY <1>1, <1>4, <2>2, <2>4, <2>5, <2>6 DEF Stopped
<1> QED  BY <1>3, <1>4

(* Sound(p) says nothing of these fields. *)
Others ==
    {"status", "told", "request", "asked", "error", "IntervalCheckBuffer", "opening",
     "loading", "reconnectCount", "updating", "fed", "decoder"}

LEMMA OthersSound ==
    ASSUME NEW p, NEW q, Good(p), Good(q), Sound(p), Keeps(p, q, Others)
    PROVE  Sound(q)
BY DEF Sound, OneSocket, OneSource, Kept, Supplied, Handled, Keeps, Fields, Others

(* A call of play() leaves a socket that connects: a new one, or the one   *)
(* that made it throw.                                                     *)
Started(p, q, r) ==
    /\ Good(q) /\ Sound(q) /\ Passes(p, q)
    /\ q.websocket # None /\ q.ready = "connecting" /\ ~q.IntervalReconect
    /\ q.request = r
    /\ q.made = (IF SendThrows(p) THEN p.made ELSE p.made + 1)
    /\ ~SendThrows(p) => q.reconnectCount = 0
    /\ q.playing = (SendThrows(p) => p.playing)

LEMMA PlayLeaves ==
    ASSUME NEW p, NEW r \in Requests \cup {NoRequest}, Good(p), Sound(p),
           p.made < MaxCalls + MaxFaults \/ SendThrows(p)
    PROVE  Started(p, Play(p, r), r)
<1> DEFINE a == [p EXCEPT !.request = r]
           b == Stop(a)
           c == InitWebSocket(b)
<1>1. Good(a)
  <2>1. DOMAIN a = Fields /\ Rec(a)
    BY Zenon DEF Good, Rec
  <2>2. Typed(a)
    BY DEF Good, Typed, Fields
  <2> QED  BY <2>1, <2>2 DEF Good
<1>2. Keeps(p, a, {"request"}) /\ a.request = r
  BY DEF Good, Keeps, Fields
<1>3. Play(p, r) = IF SendThrows(p) THEN b ELSE c
  BY Zenon DEF Play
<1> HIDE DEF a
<1>4. Sound(a)
  BY <1>1, <1>2, OthersSound DEF Keeps, Others
<1>5. /\ a.websocket = p.websocket /\ a.ready = p.ready /\ a.made = p.made
      /\ SendThrows(a) <=> SendThrows(p)
  BY <1>2 DEF Keeps, Fields, SendThrows
<1>6. /\ Good(b) /\ Sound(b)
      /\ SendThrows(a) =>
             /\ Keeps(a, b, {"IntervalCheckBuffer", "IntervalReconect", "status"})
             /\ ~b.IntervalReconect
      /\ ~SendThrows(a) => Stopped(a, b)
  BY <1>1, <1>4, StopLeaves
<1> HIDE DEF b
<1>7. CASE SendThrows(p)
  <2>1. /\ b.websocket = p.websocket /\ b.ready = p.ready /\ b.request = r
        /\ b.made = p.made /\ b.playing = p.playing /\ p.playing \in BOOLEAN
    BY <1>2, <1>5, <1>6, <1>7 DEF Keeps, Fields, Good, Typed
  <2>2. Passes(p, a) /\ Passes(a, b)
    BY <1>2, <1>5, <1>6, <1>7, KeepsPasses
  <2> QED  BY <1>3, <1>5, <1>6, <1>7, <2>1, <2>2 DEF SendThrows, Started, Passes
<1>8. CASE ~SendThrows(p)
  <2>1. b.made = p.made /\ b.request = r /\ Stopped(a, b)
    BY <1>2, <1>5, <1>6, <1>8 DEF Stopped
  <2>2. /\ Good(c)
        /\ Keeps(b, c, {"meidaInited", "playing", "websocket", "made", "ready", "handled",
                        "asked", "told", "error", "refused"})
        /\ c.playing /\ ~c.meidaInited /\ ~c.refused
        /\ c.made = b.made + 1 /\ c.websocket = b.made + 1
        /\ c.ready = "connecting" /\ c.handled = b.handled \cup {b.made + 1}
    BY <1>6, <1>8, <2>1, InitWebSocketLeaves
  <2> HIDE DEF c
  <2>3. /\ ~c.IntervalReconect /\ c.reconnectCount = 0 /\ c.buffer = <<>>
        /\ c.mediaSource = None /\ c.sourceBuffer = None /\ c.request = r
        /\ c.handled = {c.websocket} /\ c.made = p.made + 1 /\ c.websocket = p.made + 1
        /\ ~c.fed /\ ~c.updating /\ c.playing = TRUE
    BY <2>1, <2>2 DEF Keeps, Fields, Stopped, Good, Typed
  <2>4. c.websocket # None
    BY <2>3 DEF Good, Typed, Sockets, None
  <2>5. Sound(c)
    BY <2>2, <2>3 DEF Sound, OneSocket, OneSource, Kept, Supplied, Handled
  <2>6. Passes(p, c)
    BY <2>3 DEF Passes, Passed, Backed
  <2> QED  BY <1>3, <1>8, <2>2, <2>3, <2>4, <2>5, <2>6 DEF Started
<1> QED  BY <1>7, <1>8

LEMMA ReplayLeaves ==
    ASSUME NEW p, Good(p), Sound(p), p.made < MaxCalls + MaxFaults \/ SendThrows(p)
    PROVE  Started(p, Replay(p), p.request)
<1> DEFINE a == Stop(p)
<1>1. /\ Good(a) /\ Sound(a)
      /\ SendThrows(p) =>
             /\ Keeps(p, a, {"IntervalCheckBuffer", "IntervalReconect", "status"})
             /\ ~a.IntervalReconect
      /\ ~SendThrows(p) => Stopped(p, a)
  BY StopLeaves
<1>2. Replay(p) = IF SendThrows(p) THEN a ELSE Play(a, p.request)
  BY Zenon DEF Replay
<1> HIDE DEF a
<1>3. CASE SendThrows(p)
  <2>1. /\ a.websocket = p.websocket /\ a.ready = p.ready /\ a.request = p.request
        /\ a.made = p.made /\ a.playing = p.playing /\ p.playing \in BOOLEAN
    BY <1>1, <1>3 DEF Keeps, Fields, Good, Typed
  <2>2. Passes(p, a)
    BY <1>1, <1>3, KeepsPasses
  <2> QED  BY <1>1, <1>2, <1>3, <2>1, <2>2 DEF SendThrows, Started
<1>4. CASE ~SendThrows(p)
  <2>1. ~SendThrows(a) /\ a.made = p.made /\ Passes(p, a)
    BY <1>1, <1>4 DEF Stopped, SendThrows, Passes, Passed, Backed
  <2>2. p.request \in Requests \cup {NoRequest}
    BY DEF Good, Typed
  <2>3. Started(a, Play(a, p.request), p.request)
    BY <1>1, <1>4, <2>1, <2>2, PlayLeaves
  <2> QED  BY <1>2, <1>4, <2>1, <2>3 DEF Started, Passes
<1> QED  BY <1>3, <1>4

(* What does not open a socket follows the call or the retry that did. *)
Goes(p, q) ==
    /\ Good(q) /\ Sound(q)
    /\ q.made = p.made /\ q.request = p.request
    /\ Handled(q) /\ q.ready = "open"
           => Handled(p) /\ p.ready = "open" /\ q.asked = p.asked

Follows(p, q) == Goes(p, q) /\ Passes(p, q)

(* The socket and the retry are what they were. *)
Stays(p, q) ==
    /\ q.websocket = p.websocket /\ q.handled = p.handled /\ q.ready = p.ready
    /\ q.IntervalReconect = p.IntervalReconect

LEMMA ResumeLeaves ==
    ASSUME NEW p, Good(p), Sound(p), p.made < MaxCalls + MaxFaults,
           NEW q, q = (IF release = "player" THEN Resume(p) ELSE ResumeServer(p))
    PROVE  \/ Started(p, q, p.request)
           \/ Follows(p, q) /\ Stays(p, q) /\ (p.playing => q.playing)
<1> DEFINE a == [p EXCEPT !.status = 0]
           b == NotifyStatus(a, 0)
           c == RunCheckBuffer(b)
           d(x) == [x EXCEPT !.playing = TRUE]
           Quiet == {"status", "told", "IntervalCheckBuffer"}
<1>1. Good(a) /\ Keeps(p, a, {"status"})
  <2>1. DOMAIN a = Fields /\ Rec(a)
    BY Zenon DEF Good, Rec
  <2>2. Typed(a)
    BY DEF Good, Typed, Fields
  <2>3. Keeps(p, a, {"status"})
    BY DEF Good, Keeps
  <2> QED  BY <2>1, <2>2, <2>3 DEF Good
<1>2. Resume(p) = IF SendThrows(p) THEN b
                  ELSE IF c.meidaInited THEN d(c) ELSE Replay(c)
  BY Zenon DEF Resume
<1>3. ResumeServer(p) = IF SendThrows(p) \/ ~b.video THEN b
                        ELSE IF b.meidaInited THEN d(b) ELSE Replay(b)
  BY Zenon DEF ResumeServer
<1> HIDE DEF a
<1>4. Good(b) /\ Keeps(a, b, {"status", "told"})
  BY <1>1, NotifyStatusLeaves
<1> HIDE DEF b
<1>5. Good(c) /\ Keeps(b, c, {"IntervalCheckBuffer"})
  BY <1>4, RunCheckBufferLeaves
<1> HIDE DEF c
<1>6. Keeps(p, b, Quiet) /\ Keeps(p, c, Quiet)
  BY <1>1, <1>4, <1>5 DEF Keeps
<1>7. ASSUME NEW x, Good(x), Keeps(p, x, Quiet)
      PROVE  /\ Sound(x) /\ Follows(p, x) /\ Stays(p, x) /\ x.playing = p.playing
             /\ SendThrows(x) <=> SendThrows(p)
             /\ x.made = p.made /\ x.request = p.request
  <2>1. Keeps(p, x, Others)
    BY <1>7 DEF Keeps, Others
  <2>2. Sound(x)
    BY <1>7, <2>1, OthersSound
  <2>3. /\ x.IntervalReconect = p.IntervalReconect /\ x.made = p.made
        /\ x.request = p.request /\ x.websocket = p.websocket /\ x.ready = p.ready
        /\ x.handled = p.handled /\ x.asked = p.asked /\ x.playing = p.playing
    BY <1>7 DEF Keeps, Fields
  <2>4. Passes(p, x)
    BY <1>7, KeepsPasses
  <2> QED  BY <1>7, <2>2, <2>3, <2>4 DEF Follows, Goes, Handled, SendThrows, Stays
<1>8. ASSUME NEW x, Good(x), Keeps(p, x, Quiet), x.meidaInited,
             release = "player" \/ x.video
      PROVE  Follows(p, d(x)) /\ Stays(p, d(x)) /\ d(x).playing
  <2>1. DOMAIN d(x) = Fields /\ Rec(d(x))
    BY <1>8, Zenon DEF Good, Rec
  <2>2. Keeps(x, d(x), {"playing"}) /\ d(x).playing
    BY <1>8 DEF Good, Keeps, Fields
  <2>3. Typed(d(x))
    BY <1>8, <2>2, SMTT(60) DEF Good, Typed, Keeps, Fields
  <2>4. Good(d(x))
    BY <2>1, <2>3 DEF Good
  <2>5. Sound(x) /\ Supplied(x)
    BY <1>7, <1>8 DEF Sound, Kept
  <2> HIDE DEF d
  <2>6. Sound(d(x))
    BY <2>2, <2>4, <2>5, <1>8
       DEF Sound, OneSocket, OneSource, Kept, Supplied, Handled, Keeps, Fields, Good, Typed
  <2>7. /\ d(x).IntervalReconect = x.IntervalReconect /\ d(x).made = x.made
        /\ d(x).request = x.request /\ d(x).websocket = x.websocket /\ d(x).ready = x.ready
        /\ d(x).handled = x.handled /\ d(x).asked = x.asked
    BY <2>2 DEF Keeps, Fields
  <2>8. Follows(p, x) /\ Stays(p, x)
    BY <1>7, <1>8
  <2>9. Passes(x, d(x))
    BY <2>2, KeepsPasses
  <2> QED  BY <2>2, <2>4, <2>6, <2>7, <2>8, <2>9 DEF Follows, Goes, Passes, Handled, Stays
<1>9. ASSUME NEW x, Good(x), Keeps(p, x, Quiet), ~SendThrows(p)
      PROVE  Started(p, Replay(x), p.request)
  <2>1. Started(x, Replay(x), x.request)
    BY <1>7, <1>9, ReplayLeaves
  <2> QED  BY <1>7, <1>9, <2>1 DEF Started, Follows, Passes
<1>10. CASE release = "player"
  BY <1>2, <1>4, <1>5, <1>6, <1>7, <1>8, <1>9, <1>10
<1>11. CASE release # "player"
  BY <1>3, <1>4, <1>6, <1>7, <1>8, <1>9, <1>11
<1> QED  BY <1>10, <1>11

-----------------------------------------------------------------------------
(* Methods of the events. *)

LEMMA OnVideoErrorLeaves ==
    ASSUME NEW p, Good(p), NEW code \in {1, 2, 3, 5, 10}
    PROVE  LET q == OnVideoError(p, code)
           IN  /\ Good(q) /\ Keeps(p, q, {"IntervalReconect", "error"})
               /\ q.IntervalReconect <=> p.playing \/ p.IntervalReconect
<1> DEFINE a == IF p.playing THEN RunReconnect(p) ELSE p
           q == [a EXCEPT !.error = code]
<1>1. /\ Good(a) /\ Keeps(p, a, {"IntervalReconect"})
      /\ a.IntervalReconect <=> p.playing \/ p.IntervalReconect
  <2>1. CASE p.playing
    BY <2>1, RunReconnectLeaves
  <2>2. CASE ~p.playing
    BY <2>2 DEF Keeps
  <2> QED  BY <2>1, <2>2
<1>2. OnVideoError(p, code) = q
  BY Zenon DEF OnVideoError
<1> HIDE DEF a
<1>3. DOMAIN q = Fields /\ Rec(q)
  BY <1>1, Zenon DEF Good, Rec
<1>4. Typed(q)
  BY <1>1 DEF Good, Typed, Fields
<1>5. Keeps(a, q, {"error"})
  BY <1>1 DEF Good, Keeps, Fields
<1> HIDE DEF q
<1>6. Keeps(p, q, {"IntervalReconect", "error"}) /\ q.IntervalReconect = a.IntervalReconect
  BY <1>1, <1>5 DEF Keeps, Fields
<1> QED  BY <1>1, <1>2, <1>3, <1>4, <1>6 DEF Good

LEMMA OnVideoPlayLeaves ==
    ASSUME NEW p, Good(p)
    PROVE  Good(OnVideoPlay(p)) /\ Keeps(p, OnVideoPlay(p), {"IntervalCheckBuffer"})
<1>1. OnVideoPlay(p) = p \/ OnVideoPlay(p) = RunCheckBuffer(p)
  BY DEF OnVideoPlay
<1> QED  BY <1>1, RunCheckBufferLeaves DEF Keeps

LEMMA InitMediaSourceLeaves ==
    ASSUME NEW p, Good(p), Handled(p), NEW supported \in BOOLEAN
    PROVE  LET q == InitMediaSource(p, supported)
           IN  /\ Good(q)
               /\ supported =>
                      /\ Keeps(p, q, {"video", "mediaSource", "playing", "opening",
                                      "IntervalCheckBuffer"})
                      /\ q.mediaSource = p.websocket /\ q.playing
               /\ ~supported =>
                      /\ Keeps(p, q, {"video", "IntervalReconect", "error"})
                      /\ q.IntervalReconect <=> p.playing \/ p.IntervalReconect
<1> DEFINE a == [p EXCEPT !.video = TRUE]
           b == [a EXCEPT !.mediaSource = a.websocket, !.playing = TRUE,
                          !.opening = @ \cup {a.websocket}]
<1>1. InitMediaSource(p, supported) = IF supported THEN OnVideoPlay(b) ELSE OnVideoError(a, 3)
  BY Zenon DEF InitMediaSource
<1>2. Good(a)
  <2>1. DOMAIN a = Fields /\ Rec(a)
    BY Zenon DEF Good, Rec
  <2>2. Typed(a)
    BY DEF Good, Typed, Fields
  <2> QED  BY <2>1, <2>2 DEF Good
<1>3. Keeps(p, a, {"video"})
  BY DEF Good, Keeps
<1> HIDE DEF a
<1>4. a.websocket = p.websocket /\ a.playing = p.playing
      /\ a.IntervalReconect = p.IntervalReconect /\ p.websocket \in Sockets
  BY <1>3 DEF Keeps, Fields, Handled, Good, Typed
<1>5. Good(b)
  <2>1. DOMAIN b = Fields /\ Rec(b)
    BY <1>2, Zenon DEF Good, Rec
  <2>2. Typed(b)
    BY <1>2, <1>4 DEF Good, Typed, Fields
  <2> QED  BY <2>1, <2>2 DEF Good
<1>6. /\ Keeps(a, b, {"mediaSource", "playing", "opening"})
      /\ b.mediaSource = p.websocket /\ b.playing
  BY <1>2, <1>4 DEF Good, Keeps, Fields
<1> HIDE DEF b
<1>7. CASE supported
  <2> DEFINE q == OnVideoPlay(b)
  <2>1. Good(q) /\ Keeps(b, q, {"IntervalCheckBuffer"})
    BY <1>5, OnVideoPlayLeaves
  <2> HIDE DEF q
  <2>2. /\ Keeps(p, q, {"video", "mediaSource", "playing", "opening", "IntervalCheckBuffer"})
        /\ q.mediaSource = p.websocket /\ q.playing
    BY <1>3, <1>6, <2>1 DEF Keeps, Fields
  <2> QED  BY <1>1, <1>7, <2>1, <2>2 DEF q
<1>8. CASE ~supported
  <2> DEFINE q == OnVideoError(a, 3)
  <2>1. /\ Good(q) /\ Keeps(a, q, {"IntervalReconect", "error"})
        /\ q.IntervalReconect <=> a.playing \/ a.IntervalReconect
    BY <1>2, OnVideoErrorLeaves
  <2> HIDE DEF q
  <2>2. /\ Keeps(p, q, {"video", "IntervalReconect", "error"})
        /\ q.IntervalReconect <=> p.playing \/ p.IntervalReconect
    BY <1>3, <1>4, <2>1 DEF Keeps, Fields
  <2> QED  BY <1>1, <1>8, <2>1, <2>2 DEF q
<1> QED  BY <1>7, <1>8

LEMMA InitH265DecoderLeaves ==
    ASSUME NEW p, Good(p), Handled(p)
    PROVE  LET q == InitH265Decoder(p)
           IN  /\ Good(q) /\ ~q.video
               /\ Keeps(p, q, {"video", "decoder", "loading", "IntervalCheckBuffer"})
<1> DEFINE a == [p EXCEPT !.video = FALSE, !.decoder = p.websocket,
                          !.loading = @ \cup {p.websocket}]
           q == OnVideoPlay(a)
<1>1. InitH265Decoder(p) = q
  BY Zenon DEF InitH265Decoder
<1>2. Good(a)
  <2>1. DOMAIN a = Fields /\ Rec(a)
    BY Zenon DEF Good, Rec
  <2>2. Typed(a)
    BY DEF Good, Typed, Fields, Handled
  <2> QED  BY <2>1, <2>2 DEF Good
<1>3. Keeps(p, a, {"video", "decoder", "loading"}) /\ ~a.video
  BY DEF Good, Keeps, Fields
<1> HIDE DEF a
<1>4. Good(q) /\ Keeps(a, q, {"IntervalCheckBuffer"})
  BY <1>2, OnVideoPlayLeaves
<1> HIDE DEF q
<1>5. Keeps(p, q, {"video", "decoder", "loading", "IntervalCheckBuffer"}) /\ ~q.video
  BY <1>3, <1>4 DEF Keeps, Fields
<1> QED  BY <1>1, <1>4, <1>5

(* A chunk is passed on, or the socket is closed. *)
LEMMA Mp4AppendBufferLeaves ==
    ASSUME NEW p, Good(p), Sound(p), NEW taken \in BOOLEAN
    PROVE  LET q == Mp4AppendBuffer(p, taken)
           IN  /\ Goes(p, q) /\ q.IntervalReconect = p.IntervalReconect
               /\ Backed(p) => Passed(q)
               /\ Turns(p, q)
<1> DEFINE a == [p EXCEPT !.buffer = Tail(@)]
           b == [a EXCEPT !.updating = TRUE, !.fed = TRUE]
           c == [a EXCEPT !.refused = TRUE]
           d == CloseWebSocket(c)
           Idle == p.sourceBuffer = None \/ p.buffer = <<>> \/ p.updating
<1>1. Mp4AppendBuffer(p, taken) = IF Idle THEN p ELSE IF taken THEN b ELSE d
  BY Zenon DEF Mp4AppendBuffer
<1>2. CASE Idle
  BY <1>1, <1>2 DEF Goes, Backed, Passed, Turns
<1>3. CASE ~Idle
  <2>1. /\ p.buffer \in Seq(Sockets) /\ p.buffer # <<>> /\ Tail(p.buffer) \in Seq(Sockets)
        /\ Len(Tail(p.buffer)) = Len(p.buffer) - 1
        /\ \A i \in 1 .. Len(Tail(p.buffer)) : Tail(p.buffer)[i] = p.buffer[i + 1]
    BY <1>3 DEF Good, Typed
  <2>2. Good(a)
    <3>1. DOMAIN a = Fields /\ Rec(a)
      BY Zenon DEF Good, Rec
    <3>2. Typed(a)
      BY <2>1 DEF Good, Typed, Fields
    <3> QED  BY <3>1, <3>2 DEF Good
  <2>3. Keeps(p, a, {"buffer"}) /\ a.buffer = Tail(p.buffer)
    BY DEF Good, Keeps, Fields
  <2> HIDE DEF a
  <2>4. /\ a.mediaSource = p.mediaSource /\ a.websocket = p.websocket /\ a.handled = p.handled
        /\ a.ready = p.ready /\ a.made = p.made /\ a.sourceBuffer = p.sourceBuffer
        /\ a.meidaInited = p.meidaInited /\ a.playing = p.playing /\ a.video = p.video
        /\ a.IntervalReconect = p.IntervalReconect /\ a.refused = p.refused
        /\ a.request = p.request /\ a.asked = p.asked
    BY <2>3 DEF Keeps, Fields
  <2>5. OneSource(a)
    <3>1. p.meidaInited
      BY <1>3 DEF Sound, OneSource
    <3>2. a.mediaSource # None => \A i \in 1 .. Len(a.buffer) : a.buffer[i] = a.mediaSource
      <4> SUFFICES ASSUME p.mediaSource # None, NEW i \in 1 .. Len(Tail(p.buffer))
                   PROVE  Tail(p.buffer)[i] = p.mediaSource
        BY <2>3, <2>4
      <4>1. i + 1 \in 1 .. Len(p.buffer)
        BY <2>1
      <4> QED  BY <2>1, <4>1 DEF Sound, OneSource
    <3> QED  BY <2>4, <3>1, <3>2 DEF Sound, OneSource
  <2>6. OneSocket(a) /\ Kept(a)
    BY <2>4 DEF Sound, OneSocket, Kept, Supplied, Handled
  <2>7. CASE taken
    <3>1. Good(b)
      <4>1. DOMAIN b = Fields /\ Rec(b)
        BY <2>2, Zenon DEF Good, Rec
      <4>2. Typed(b)
        BY <2>2 DEF Good, Typed, Fields
      <4> QED  BY <4>1, <4>2 DEF Good
    <3>2. Keeps(a, b, {"updating", "fed"}) /\ b.updating
      BY <2>2 DEF Good, Keeps, Fields
    <3> HIDE DEF b
    <3>3. Sound(b)
      BY <2>2, <2>5, <2>6, <3>1, <3>2, OthersSound DEF Sound, Keeps, Others
    <3>4. /\ b.made = a.made /\ b.request = a.request /\ b.asked = a.asked
          /\ b.websocket = a.websocket /\ b.handled = a.handled /\ b.ready = a.ready
          /\ b.IntervalReconect = a.IntervalReconect
      BY <3>2 DEF Keeps, Fields
    <3>5. Passed(b)
      <4>1. b.updating /\ b.sourceBuffer # None
        BY <1>3, <2>4, <3>2 DEF Keeps, Fields
      <4> QED  BY <4>1 DEF Passed, Backed
    <3>6. PhaseOf(b) = PhaseOf(p)
      <4>1. PhaseOf(b) = PhaseOf(a) /\ PhaseOf(a) = PhaseOf(p)
        BY <2>3, <3>2, KeepsPhase
      <4> QED  BY <4>1
    <3> QED  BY <1>1, <1>3, <2>4, <2>7, <3>1, <3>3, <3>4, <3>5, <3>6 DEF Goes, Handled, Turns
  <2>8. CASE ~taken
    <3>1. Good(c)
      <4>1. DOMAIN c = Fields /\ Rec(c)
        BY <2>2, Zenon DEF Good, Rec
      <4>2. Typed(c)
        BY <2>2 DEF Good, Typed, Fields
      <4> QED  BY <4>1, <4>2 DEF Good
    <3>2. Keeps(a, c, {"refused"}) /\ c.refused
      BY <2>2 DEF Good, Keeps, Fields
    <3> HIDE DEF c
    <3>3. /\ Good(d) /\ Keeps(c, d, {"handled", "websocket", "ready"})
          /\ d.websocket = None /\ d.handled = c.handled \ {c.websocket}
      BY <3>1, CloseWebSocketLeaves
    <3> HIDE DEF d
    <3>4. /\ d.made = a.made /\ d.request = a.request /\ d.handled = a.handled \ {a.websocket}
          /\ d.refused /\ d.IntervalReconect = a.IntervalReconect /\ d.playing = a.playing
          /\ d.buffer = a.buffer /\ d.meidaInited = a.meidaInited
          /\ d.mediaSource = a.mediaSource /\ d.sourceBuffer = a.sourceBuffer
      BY <3>2, <3>3 DEF Keeps, Fields
    <3>5. d.handled = {}
      BY <2>6, <3>4 DEF OneSocket
    <3>6. Sound(d)
      BY <2>5, <2>6, <3>3, <3>4, <3>5 DEF Sound, OneSocket, OneSource, Kept, Supplied, Handled
    <3>7. Passed(d)
      BY <1>3, <2>4, <3>4 DEF Passed, Backed
    <3>8. Turns(p, d)
      <4>1. ~Handled(d) /\ d.playing = p.playing /\ d.IntervalReconect = p.IntervalReconect
        BY <2>4, <3>4, <3>5 DEF Handled
      <4>2. Handled(p) => p.ready # "connecting"
        BY <1>3 DEF Sound, OneSource, Handled, Good, Typed, Sockets, None
      <4> QED  BY <4>1, <4>2 DEF Turns, PhaseOf, Promise!Own, Promise!Ended
    <3> QED  BY <1>1, <1>3, <2>4, <2>8, <3>3, <3>4, <3>5, <3>6, <3>7, <3>8 DEF Goes, Handled
  <2> QED  BY <2>7, <2>8
<1> QED  BY <1>2, <1>3

LEMMA OnDataLeaves ==
    ASSUME NEW p, Good(p), Sound(p), Handled(p), p.meidaInited, NEW taken \in BOOLEAN
    PROVE  LET q == OnData(p, taken)
           IN  Follows(p, q) /\ q.IntervalReconect = p.IntervalReconect /\ Turns(p, q)
<1> DEFINE t == Append(p.buffer, p.websocket)
           a == [p EXCEPT !.buffer = t]
<1>1. OnData(p, taken) = IF p.decoder # None THEN p ELSE Mp4AppendBuffer(a, taken)
  BY Zenon DEF OnData
<1>2. p.websocket \in Sockets /\ p.websocket # None
  BY DEF Handled, Good, Typed, Sockets, None
<1>3. /\ t \in Seq(Sockets) /\ Len(t) = Len(p.buffer) + 1
       /\ \A i \in 1 .. Len(t) : t[i] = IF i <= Len(p.buffer) THEN p.buffer[i] ELSE p.websocket
  BY <1>2 DEF Good, Typed
<1> HIDE DEF t
<1>4. Good(a)
  <2>1. DOMAIN a = Fields /\ Rec(a)
    BY Zenon DEF Good, Rec
  <2>2. Typed(a)
    BY <1>3 DEF Good, Typed, Fields
  <2> QED  BY <2>1, <2>2 DEF Good
<1>5. Keeps(p, a, {"buffer"}) /\ a.buffer = t
  BY DEF Good, Keeps, Fields
<1> HIDE DEF a
<1>6. /\ a.mediaSource = p.mediaSource /\ a.websocket = p.websocket /\ a.handled = p.handled
      /\ a.ready = p.ready /\ a.made = p.made /\ a.sourceBuffer = p.sourceBuffer
      /\ a.meidaInited = p.meidaInited /\ a.playing = p.playing /\ a.video = p.video
      /\ a.IntervalReconect = p.IntervalReconect /\ a.refused = p.refused
      /\ a.request = p.request /\ a.asked = p.asked
  BY <1>5 DEF Keeps, Fields
<1>7. p.mediaSource # None => \A i \in 1 .. Len(a.buffer) : a.buffer[i] = p.mediaSource
  BY <1>2, <1>5, <1>3 DEF Sound, OneSource, Good, Typed
<1>8. Sound(a) /\ PhaseOf(a) = PhaseOf(p)
  <2>1. PhaseOf(a) = PhaseOf(p)
    BY <1>5, KeepsPhase
  <2> QED  BY <1>6, <1>7, <2>1 DEF Sound, OneSocket, OneSource, Kept, Supplied, Handled
<1>9. Follows(p, p) /\ Turns(p, p)
  BY DEF Follows, Goes, Passes, Turns
<1>10. /\ Goes(a, Mp4AppendBuffer(a, taken)) /\ Turns(a, Mp4AppendBuffer(a, taken))
       /\ Mp4AppendBuffer(a, taken).IntervalReconect = a.IntervalReconect
       /\ Backed(a) => Passed(Mp4AppendBuffer(a, taken))
  BY <1>4, <1>8, Mp4AppendBufferLeaves
<1>11. Passed(p) => Backed(a)
  BY <1>5 DEF Passed, Backed, Keeps, Fields
<1>12. Follows(p, Mp4AppendBuffer(a, taken))
  <2>1. Goes(p, Mp4AppendBuffer(a, taken))
    BY <1>6, <1>10 DEF Goes, Handled
  <2>2. Passes(p, Mp4AppendBuffer(a, taken))
    BY <1>10, <1>11 DEF Passes
  <2> QED  BY <2>1, <2>2 DEF Follows
<1>13. CASE p.decoder # None
  BY <1>1, <1>9, <1>13
<1>14. CASE p.decoder = None
  BY <1>1, <1>6, <1>8, <1>10, <1>12, <1>14 DEF Turns
<1> QED  BY <1>13, <1>14

LEMMA OnFirstLeaves ==
    ASSUME NEW p, Good(p), Sound(p), Handled(p), p.ready = "open", ~p.meidaInited,
           NEW answer \in Answers
    PROVE  LET q == OnFirst(p, answer)
           IN  /\ Follows(p, q)
               /\ answer \in {"h264", "h265"} => q.IntervalReconect = p.IntervalReconect
               /\ Turns(p, q)
<1> DEFINE a == [p EXCEPT !.meidaInited = TRUE]
<1>1. p.websocket \in Sockets /\ p.websocket # None /\ p.buffer = <<>>
  BY DEF Handled, Good, Typed, Sockets, None, Sound, OneSource
<1>2. Good(a)
  <2>1. DOMAIN a = Fields /\ Rec(a)
    BY Zenon DEF Good, Rec
  <2>2. Typed(a)
    BY DEF Good, Typed, Fields
  <2> QED  BY <2>1, <2>2 DEF Good
<1>3. Keeps(p, a, {"meidaInited"}) /\ a.meidaInited
  BY DEF Good, Keeps, Fields
<1>4. /\ OnFirst(p, "h264") = InitMediaSource(a, TRUE)
      /\ OnFirst(p, "unsupported") = InitMediaSource(a, FALSE)
  BY DEF OnFirst
<1> HIDE DEF a
<1>5. Handled(a)
  BY <1>3 DEF Handled, Keeps, Fields
<1>6. CASE answer = "h264"
  <2> DEFINE q == InitMediaSource(a, TRUE)
  <2>1. /\ Good(q) /\ q.mediaSource = a.websocket /\ q.playing
        /\ Keeps(a, q, {"video", "mediaSource", "playing", "opening", "IntervalCheckBuffer"})
    BY <1>2, <1>5, InitMediaSourceLeaves
  <2> HIDE DEF q
  <2>2. /\ q.mediaSource = p.websocket /\ q.websocket = p.websocket /\ q.handled = p.handled
        /\ q.ready = p.ready /\ q.made = p.made /\ q.sourceBuffer = p.sourceBuffer
        /\ q.IntervalReconect = p.IntervalReconect
        /\ q.request = p.request /\ q.asked = p.asked /\ q.buffer = p.buffer
    BY <1>3, <2>1 DEF Keeps, Fields
  <2>3. p.sourceBuffer \in {None, p.websocket}
    BY <1>1 DEF Sound, OneSource
  <2>4. Sound(q)
    BY <1>1, <2>1, <2>2, <2>3 DEF Sound, OneSocket, OneSource, Kept, Supplied, Handled
  <2>5. Passes(p, a) /\ Passes(a, q)
    BY <1>3, <2>1, KeepsPasses
  <2>6. Turns(p, q)
    BY <2>1, <2>2 DEF Turns, PhaseOf, Handled, Promise!Own, Promise!Ended, Sound, Kept
  <2> QED  BY <1>4, <1>6, <2>1, <2>2, <2>4, <2>5, <2>6 DEF Follows, Goes, Passes, Handled, q
<1>7. CASE answer = "unsupported"
  <2> DEFINE q == InitMediaSource(a, FALSE)
  <2>1. /\ Good(q) /\ Keeps(a, q, {"video", "IntervalReconect", "error"})
        /\ q.IntervalReconect <=> a.playing \/ a.IntervalReconect
    BY <1>2, <1>5, InitMediaSourceLeaves
  <2> HIDE DEF q
  <2>2. /\ q.websocket = p.websocket /\ q.handled = p.handled /\ q.mediaSource = p.mediaSource
        /\ q.ready = p.ready /\ q.made = p.made /\ q.sourceBuffer = p.sourceBuffer
        /\ q.playing = p.playing /\ (q.IntervalReconect <=> p.playing \/ p.IntervalReconect)
        /\ q.request = p.request /\ q.asked = p.asked /\ q.buffer = p.buffer
    BY <1>3, <2>1 DEF Keeps, Fields
  <2>3. Sound(q)
    BY <1>1, <2>1, <2>2 DEF Sound, OneSocket, OneSource, Kept, Supplied, Handled
  <2>4. Passes(p, a) /\ Passes(a, q)
    BY <1>3, <2>1, KeepsPasses
  <2>5. Turns(p, q)
    BY <2>2 DEF Turns, PhaseOf, Handled, Promise!Own, Promise!Ended, Sound, Kept
  <2> QED  BY <1>4, <1>7, <2>1, <2>2, <2>3, <2>4, <2>5 DEF Follows, Goes, Passes, Handled, q
<1>8. CASE answer = "h265"
  <2> DEFINE b == InitH265Decoder(p)
             q == [b EXCEPT !.meidaInited = TRUE]
  <2>1. OnFirst(p, answer) = q
    BY <1>8 DEF OnFirst
  <2>2. Good(b) /\ ~b.video
        /\ Keeps(p, b, {"video", "decoder", "loading", "IntervalCheckBuffer"})
    BY InitH265DecoderLeaves
  <2> HIDE DEF b
  <2>3. Good(q)
    <3>1. DOMAIN q = Fields /\ Rec(q)
      BY <2>2, Zenon DEF Good, Rec
    <3>2. Typed(q)
      BY <2>2 DEF Good, Typed, Fields
    <3> QED  BY <3>1, <3>2 DEF Good
  <2>4. Keeps(b, q, {"meidaInited"})
    BY <2>2 DEF Good, Keeps
  <2> HIDE DEF q
  <2>5. /\ q.websocket = p.websocket /\ q.handled = p.handled /\ q.mediaSource = p.mediaSource
        /\ q.ready = p.ready /\ q.made = p.made /\ q.sourceBuffer = p.sourceBuffer
        /\ q.playing = p.playing /\ q.IntervalReconect = p.IntervalReconect
        /\ q.request = p.request /\ q.asked = p.asked /\ q.buffer = p.buffer
    BY <2>2, <2>4 DEF Keeps, Fields
  <2>6. Sound(q)
    BY <1>1, <2>5 DEF Sound, OneSocket, OneSource, Kept, Supplied, Handled
  <2>7. Passes(p, b) /\ Passes(b, q)
    BY <2>2, <2>4, KeepsPasses
  <2>8. Turns(p, q)
    BY <2>5 DEF Turns, PhaseOf, Handled
  <2> QED  BY <2>1, <2>3, <2>5, <2>6, <2>7, <2>8 DEF Follows, Goes, Passes, Handled
<1>9. CASE answer = "no"
  <2> DEFINE b == OnVideoError(p, 1)
             q == CloseWebSocket(b)
  <2>1. OnFirst(p, answer) = q
    BY <1>9 DEF OnFirst
  <2>2. /\ Good(b) /\ Keeps(p, b, {"IntervalReconect", "error"})
        /\ b.IntervalReconect <=> p.playing \/ p.IntervalReconect
    BY OnVideoErrorLeaves
  <2> HIDE DEF b
  <2>3. /\ Good(q) /\ Keeps(b, q, {"handled", "websocket", "ready"})
        /\ q.websocket = None /\ q.handled = b.handled \ {b.websocket}
    BY <2>2, CloseWebSocketLeaves
  <2> HIDE DEF q
  <2>4. /\ q.handled = p.handled \ {p.websocket} /\ q.mediaSource = p.mediaSource
        /\ q.made = p.made /\ q.sourceBuffer = p.sourceBuffer /\ q.buffer = p.buffer
        /\ q.playing = p.playing /\ (q.IntervalReconect <=> p.playing \/ p.IntervalReconect)
        /\ q.request = p.request /\ q.meidaInited = p.meidaInited
    BY <2>2, <2>3 DEF Keeps, Fields
  <2>5. q.handled = {}
    BY <2>4 DEF Sound, OneSocket
  <2>6. Sound(q)
    BY <1>1, <2>3, <2>4, <2>5 DEF Sound, OneSocket, OneSource, Kept, Supplied, Handled
  <2>7. Passes(p, b) /\ Passes(b, q)
    BY <2>2, <2>3, KeepsPasses
  <2>8. Turns(p, q)
    <3>1. ~Handled(q)
      BY <2>5 DEF Handled
    <3> QED  BY <2>4, <3>1 DEF Turns, PhaseOf, Promise!Own, Promise!Ended, Sound, Kept
  <2> QED  BY <1>9, <2>1, <2>3, <2>4, <2>5, <2>6, <2>7, <2>8 DEF Follows, Goes, Passes, Handled
<1>10. CASE answer = "garbled"
  <2> DEFINE b == CloseWebSocket(p)
             q == OnVideoError(b, 2)
  <2>1. OnFirst(p, answer) = q
    BY <1>10 DEF OnFirst
  <2>2. /\ Good(b) /\ Keeps(p, b, {"handled", "websocket", "ready"})
        /\ b.websocket = None /\ b.handled = p.handled \ {p.websocket}
    BY CloseWebSocketLeaves
  <2> HIDE DEF b
  <2>3. /\ Good(q) /\ Keeps(b, q, {"IntervalReconect", "error"})
        /\ q.IntervalReconect <=> b.playing \/ b.IntervalReconect
    BY <2>2, OnVideoErrorLeaves
  <2> HIDE DEF q
  <2>4. /\ q.handled = p.handled \ {p.websocket} /\ q.mediaSource = p.mediaSource
        /\ q.made = p.made /\ q.sourceBuffer = p.sourceBuffer /\ q.buffer = p.buffer
        /\ q.playing = p.playing /\ (q.IntervalReconect <=> p.playing \/ p.IntervalReconect)
        /\ q.request = p.request /\ q.meidaInited = p.meidaInited /\ q.websocket = None
    BY <2>2, <2>3 DEF Keeps, Fields
  <2>5. q.handled = {}
    BY <2>4 DEF Sound, OneSocket
  <2>6. Sound(q)
    BY <1>1, <2>3, <2>4, <2>5 DEF Sound, OneSocket, OneSource, Kept, Supplied, Handled
  <2>7. Passes(p, b) /\ Passes(b, q)
    BY <2>2, <2>3, KeepsPasses
  <2>8. Turns(p, q)
    <3>1. ~Handled(q)
      BY <2>5 DEF Handled
    <3> QED  BY <2>4, <3>1 DEF Turns, PhaseOf, Promise!Own, Promise!Ended, Sound, Kept
  <2> QED  BY <1>10, <2>1, <2>3, <2>4, <2>5, <2>6, <2>7, <2>8 DEF Follows, Goes, Passes, Handled
<1> QED  BY <1>6, <1>7, <1>8, <1>9, <1>10 DEF Answers

(* After its close event a player retries exactly if it is to play. *)
LEMMA OnCloseLeaves ==
    ASSUME NEW p, Good(p), p.handled = {}, p.websocket # None => p.websocket = p.made,
           p.ready = "closed"
    PROVE  LET q == OnClose(p)
           IN  /\ Good(q) /\ Sound(q) /\ ~Handled(q) /\ Passed(q)
               /\ q.made = p.made /\ q.request = p.request
               /\ q.playing = p.playing /\ (q.IntervalReconect <=> q.playing)
<1> DEFINE a == Reset(p)
           q == IF a.playing THEN RunReconnect(a) ELSE a
<1>1. OnClose(p) = q
  BY Zenon DEF OnClose
<1>2. /\ Good(a)
      /\ Keeps(p, a, {"status", "reconnectCount", "buffer", "IntervalReconect",
                      "sourceBuffer", "mediaSource", "video", "updating", "fed",
                      "meidaInited", "decoder"})
      /\ a.buffer = <<>> /\ ~a.IntervalReconect
      /\ a.sourceBuffer = None /\ a.mediaSource = None /\ ~a.video
      /\ ~a.fed /\ ~a.updating
      /\ release = "player" => ~a.meidaInited
  BY ResetLeaves
<1> HIDE DEF a
<1>3. /\ Good(q) /\ Keeps(a, q, {"IntervalReconect"})
      /\ q.IntervalReconect <=> a.playing
  <2>1. CASE a.playing
    BY <1>2, <2>1, RunReconnectLeaves
  <2>2. CASE ~a.playing
    BY <1>2, <2>2 DEF Keeps
  <2> QED  BY <2>1, <2>2
<1> HIDE DEF q
<1>4. /\ q.buffer = <<>> /\ q.sourceBuffer = None /\ q.mediaSource = None /\ ~q.video
      /\ (release = "player" => ~q.meidaInited) /\ q.playing = a.playing /\ a.playing = p.playing
      /\ q.handled = {} /\ q.made = p.made /\ q.request = p.request /\ q.ready = "closed"
      /\ q.websocket = p.websocket /\ ~q.fed /\ ~q.updating
  BY <1>2, <1>3 DEF Keeps, Fields
<1>5. ~Handled(q) /\ Passed(q)
  BY <1>4 DEF Handled, Passed, Backed
<1>6. Sound(q)
  BY <1>3, <1>4, <1>5 DEF Sound, OneSocket, OneSource, Kept, Supplied
<1> QED  BY <1>1, <1>3, <1>4, <1>5, <1>6

-----------------------------------------------------------------------------
(* Actions.  What is left to show of a step is where its player is, and    *)
(* that what it may arm or make is paid for by a call or a failure.        *)
Counters ==
    /\ hidden' \in BOOLEAN /\ release' = release
    /\ calls' \in 0 .. MaxCalls /\ faults' \in 0 .. MaxFaults /\ chunks' \in 0 .. MaxChunks
    /\ calls' >= calls /\ faults' >= faults

LEMMA FollowStep ==
    ASSUME IInv, Counters, wanted' = wanted, Follows(player, player'),
           \/ player'.IntervalReconect => player.IntervalReconect
           \/ faults' = faults + 1
    PROVE  IInv'
<1>1. player' \in Players
  BY GoodIsPlayer DEF Follows, Goes
<1>2. TypeOK'
  BY <1>1 DEF IInv, TypeOK, Counters
<1>3. Sound(player)' /\ Passed(player)'
  BY DEF IInv, Follows, Goes, Passes, Passed, Backed, Counters,
         Sound, OneSocket, OneSource, Kept, Supplied, Handled
<1>4. Asks(player)'
  BY DEF IInv, Follows, Goes, Counters, Asks, Handled
<1>5. player.made \in Nat /\ player'.made = player.made /\ calls \in Nat /\ faults \in Nat
      /\ calls' \in Nat /\ faults' \in Nat
  BY PlayerIsGood DEF IInv, TypeOK, Good, Typed, Follows, Goes, Sockets, None, Counters
<1>6. Counted'
  BY <1>5 DEF IInv, Counted, Armed, Counters
<1> QED  BY <1>2, <1>3, <1>4, <1>6 DEF IInv

(* A step that opens a socket for the request r, by a call or a retry. *)
LEMMA StartStep ==
    ASSUME IInv, Counters, NEW p, Started(p, player', player'.request),
           p.made = player.made, Passed(p),
           wanted' \in Requests \cup {NoRequest},
           release = "player" => player'.request = wanted',
           player.IntervalReconect \/ calls' = calls + 1
    PROVE  IInv'
<1>1. player' \in Players
  BY GoodIsPlayer DEF Started
<1>2. TypeOK'
  BY <1>1 DEF IInv, TypeOK, Counters
<1>3. Sound(player)' /\ Passed(player)'
  BY DEF Started, Passes, Passed, Backed, Counters,
         Sound, OneSocket, OneSource, Kept, Supplied, Handled
<1>4. Asks(player)'
  BY DEF Started, Counters, Asks, Handled
<1>5. player.made \in Nat /\ player'.made <= player.made + 1 /\ calls \in Nat /\ faults \in Nat
      /\ calls' \in Nat /\ faults' \in Nat /\ player'.made \in Nat
      /\ ~player'.IntervalReconect
  BY <1>1, PlayerIsGood, SMTT(30)
     DEF IInv, TypeOK, Good, Typed, Started, Sockets, None, Counters
<1>6. Counted'
  BY <1>5 DEF IInv, Counted, Armed, Counters
<1> QED  BY <1>2, <1>3, <1>4, <1>6 DEF IInv

(* There is a number left for the next socket. *)
LEMMA Room ==
    ASSUME IInv, player.IntervalReconect \/ calls < MaxCalls
    PROVE  player.made < MaxCalls + MaxFaults
<1>1. player.made \in Nat /\ calls \in 0 .. MaxCalls /\ faults \in 0 .. MaxFaults
  BY PlayerIsGood DEF IInv, TypeOK, Good, Typed, Sockets, None
<1> QED  BY <1>1, PlayerAssumption DEF IInv, Counted, Armed

(* Changes to the other fields follow. *)
LEMMA OthersGo ==
    ASSUME NEW p, NEW q, Good(p), Sound(p), Good(q), Keeps(p, q, Others \ {"request", "asked"})
    PROVE  Goes(p, q) /\ q.IntervalReconect = p.IntervalReconect /\ PhaseOf(q) = PhaseOf(p)
<1>1. Keeps(p, q, Others)
  BY DEF Keeps
<1>2. Sound(q)
  BY <1>1, OthersSound
<1>3. /\ q.made = p.made /\ q.request = p.request /\ q.asked = p.asked
      /\ q.websocket = p.websocket /\ q.handled = p.handled /\ q.ready = p.ready
      /\ q.IntervalReconect = p.IntervalReconect
  BY DEF Keeps, Fields, Others
<1>4. PhaseOf(q) = PhaseOf(p)
  BY KeepsPhase DEF Others
<1> QED  BY <1>2, <1>3, <1>4 DEF Goes, Handled

LEMMA OthersFollow ==
    ASSUME NEW p, NEW q, Good(p), Sound(p), Good(q),
           Keeps(p, q, Others \ {"request", "asked", "updating", "fed"})
    PROVE  Follows(p, q) /\ q.IntervalReconect = p.IntervalReconect /\ PhaseOf(q) = PhaseOf(p)
<1>1. Keeps(p, q, Others \ {"request", "asked"})
  BY DEF Keeps
<1>2. Passes(p, q)
  BY KeepsPasses DEF Others
<1> QED  BY <1>1, <1>2, OthersGo DEF Follows

LEMMA NotifyFollows ==
    ASSUME NEW p, Good(p), Sound(p), NEW s \in {0, 1}
    PROVE  LET q == NotifyStatus(p, s)
           IN  /\ Follows(p, q) /\ q.IntervalReconect = p.IntervalReconect
               /\ PhaseOf(q) = PhaseOf(p)
<1>1. Good(NotifyStatus(p, s)) /\ Keeps(p, NotifyStatus(p, s), {"status", "told"})
  BY NotifyStatusLeaves
<1>2. Keeps(p, NotifyStatus(p, s), Others \ {"request", "asked", "updating", "fed"})
  BY <1>1 DEF Keeps, Others
<1> QED  BY <1>1, <1>2, OthersFollow

LEMMA GoodNow == ASSUME IInv PROVE Good(player) /\ Sound(player) /\ Passed(player)
BY PlayerIsGood DEF IInv, TypeOK

LEMMA PlayCallStep ==
    ASSUME IInv, NEW r \in Requests, PlayCall(r)
    PROVE  IInv'
<1>1. Started(player, player', r)
  BY GoodNow, Room, PlayLeaves DEF PlayCall, Call
<1>2. Counters
  BY PlayerAssumption DEF IInv, TypeOK, PlayCall, Call, Counters
<1> QED  BY <1>1, <1>2, GoodNow, StartStep DEF PlayCall, Call, Started, Good, Typed

LEMMA ResumeCallStep ==
    ASSUME IInv, ResumeCall
    PROVE  IInv'
<1>1. \/ Started(player, player', player.request)
      \/ Follows(player, player') /\ player'.IntervalReconect = player.IntervalReconect
  BY GoodNow, Room, ResumeLeaves DEF ResumeCall, Call, Stays
<1>2. Counters /\ wanted' = wanted /\ calls' = calls + 1
  BY PlayerAssumption DEF IInv, TypeOK, ResumeCall, Call, Counters
<1>3. CASE Started(player, player', player.request)
  BY <1>2, <1>3, GoodNow, StartStep DEF IInv, TypeOK, Asks, Started, Good, Typed
<1>4. CASE Follows(player, player') /\ player'.IntervalReconect = player.IntervalReconect
  BY <1>2, <1>4, FollowStep
<1> QED  BY <1>1, <1>3, <1>4

LEMMA PauseCallStep ==
    ASSUME IInv, PauseCall
    PROVE  IInv'
<1>1. /\ Good(player') /\ ~player'.IntervalReconect
      /\ SendThrows(player) =>
             Keeps(player, player', {"IntervalCheckBuffer", "IntervalReconect", "status"})
      /\ ~SendThrows(player) =>
             /\ Keeps(player, player', {"IntervalCheckBuffer", "IntervalReconect", "status",
                                        "told", "playing"})
             /\ ~player'.playing
  BY GoodNow, PauseLeaves DEF PauseCall
<1>2. Counters /\ wanted' = wanted
  BY DEF IInv, TypeOK, PauseCall, bounds, Counters
<1>3. /\ player'.websocket = player.websocket /\ player'.handled = player.handled
      /\ player'.ready = player.ready /\ player'.made = player.made
      /\ player'.request = player.request /\ player'.asked = player.asked
      /\ player'.mediaSource = player.mediaSource /\ player'.buffer = player.buffer
      /\ player'.sourceBuffer = player.sourceBuffer /\ player'.refused = player.refused
      /\ player'.meidaInited = player.meidaInited /\ player'.video = player.video
      /\ player'.playing => SendThrows(player)
  BY <1>1 DEF Keeps, Fields
<1>4. Sound(player')
  BY <1>1, <1>3, GoodNow
     DEF Sound, OneSocket, OneSource, Kept, Supplied, Handled, SendThrows
<1>5. Passes(player, player')
  BY <1>1, KeepsPasses
<1> QED  BY <1>1, <1>2, <1>3, <1>4, <1>5, FollowStep DEF Follows, Goes, Handled

LEMMA StopCallStep ==
    ASSUME IInv, StopCall
    PROVE  IInv'
<1>1. /\ Good(player') /\ Sound(player')
      /\ SendThrows(player) =>
             /\ Keeps(player, player', {"IntervalCheckBuffer", "IntervalReconect", "status"})
             /\ ~player'.IntervalReconect
      /\ ~SendThrows(player) => Stopped(player, player')
  BY GoodNow, StopLeaves DEF StopCall
<1>2. Counters /\ wanted' = wanted
  BY DEF IInv, TypeOK, StopCall, bounds, Counters
<1>3. /\ player'.made = player.made /\ player'.request = player.request
      /\ ~player'.IntervalReconect
      /\ Handled(player') => Handled(player) /\ player'.ready = player.ready
                                /\ player'.asked = player.asked
  BY <1>1 DEF Keeps, Fields, Stopped, Handled
<1>4. Passes(player, player')
  <2>1. CASE SendThrows(player)
    BY <1>1, <2>1, KeepsPasses
  <2>2. CASE ~SendThrows(player)
    BY <1>1, <2>2 DEF Stopped, Passes, Passed, Backed
  <2> QED  BY <2>1, <2>2
<1> QED  BY <1>1, <1>2, <1>3, <1>4, FollowStep DEF Follows, Goes

LEMMA HideStep ==
    ASSUME IInv, Hide
    PROVE  IInv'
<1>1. Follows(player, player') /\ player'.IntervalReconect = player.IntervalReconect
  BY GoodNow, NotifyFollows DEF Hide
<1>2. Counters /\ wanted' = wanted
  BY DEF IInv, TypeOK, Hide, bounds, Counters
<1> QED  BY <1>1, <1>2, FollowStep

LEMMA ShowStep ==
    ASSUME IInv, Show
    PROVE  IInv'
<1> DEFINE a == NotifyStatus(player, 0)
<1>1. /\ Follows(player, a) /\ a.IntervalReconect = player.IntervalReconect
  BY GoodNow, NotifyFollows
<1>2. Counters /\ wanted' = wanted
  <2> HIDE DEF a
  <2>1. /\ hidden' = FALSE /\ UNCHANGED <<release, wanted, faults, chunks>>
        /\ UNCHANGED calls \/ (calls < MaxCalls /\ calls' = calls + 1)
    BY Zenon DEF Show, Call
  <2>2. calls \in 0 .. MaxCalls /\ faults \in 0 .. MaxFaults
    BY DEF IInv, TypeOK
  <2>3. calls' \in 0 .. MaxCalls /\ calls' >= calls /\ faults' >= faults
    BY <2>1, <2>2, PlayerAssumption
  <2> QED  BY <2>1, <2>3 DEF IInv, TypeOK, Counters
<1>3. CASE player' = a
  BY <1>1, <1>2, <1>3, FollowStep
<1>4. CASE player' = Replay(a) /\ Call
  <2>1. player.made < MaxCalls + MaxFaults
    BY <1>4, Room DEF Call
  <2> HIDE DEF a
  <2>2. Started(a, player', a.request)
    BY <1>1, <1>4, <2>1, ReplayLeaves DEF Follows, Goes
  <2>3. release = "player" => player'.request = wanted'
    BY <1>1, <1>2, <2>2 DEF IInv, Asks, Follows, Goes, Started
  <2>4. Passed(a)
    BY <1>1, GoodNow DEF Follows, Passes
  <2> QED  BY <1>1, <1>2, <1>4, <2>2, <2>3, <2>4, StartStep
              DEF IInv, TypeOK, Started, Call, Follows, Goes, Good, Typed
<1> QED  BY <1>3, <1>4 DEF Show

LEMMA CheckBufferStep ==
    ASSUME IInv, CheckBuffer
    PROVE  IInv'
<1>1. player.status \in {0, 1}
  BY GoodNow DEF Good, Typed
<1>2. Follows(player, player') /\ player'.IntervalReconect = player.IntervalReconect
  BY <1>1, GoodNow, NotifyFollows DEF CheckBuffer
<1>3. Counters /\ wanted' = wanted
  BY DEF IInv, TypeOK, CheckBuffer, bounds, Counters
<1> QED  BY <1>2, <1>3, FollowStep

LEMMA ReconnectingStep ==
    ASSUME IInv, Reconnecting
    PROVE  IInv'
<1> DEFINE p == player
           r == IF release = "player" THEN p.request ELSE [p.request EXCEPT !.mediaType = 0]
           a == IF release = "player" THEN Replay(p) ELSE Play(p, r)
           b == [a EXCEPT !.reconnectCount = @ + 1]
<1>1. Good(p) /\ Sound(p) /\ p.IntervalReconect /\ p.made < MaxCalls + MaxFaults
  BY GoodNow, Room DEF Reconnecting
<1>2. Counters /\ wanted' = wanted
  BY DEF IInv, TypeOK, Reconnecting, bounds, Counters
<1>3. r \in Requests \cup {NoRequest}
  BY <1>1 DEF Good, Typed, Requests, NoRequest, Types
<1>4. player' = IF SendThrows(p) THEN a ELSE b
  <2>1. a = IF release = "player" THEN Replay(p) ELSE Play(p, [p.request EXCEPT !.mediaType = 0])
    BY Zenon
  <2> HIDE DEF a
  <2> QED  BY <2>1, Zenon DEF Reconnecting, Reconnect
<1>5. Started(p, a, r)
  BY <1>1, <1>3, ReplayLeaves, PlayLeaves
<1> HIDE DEF a, r
<1>6. CASE SendThrows(p)
  <2>1. player' = a /\ Started(player, player', player'.request) /\ player'.request = r
    BY <1>4, <1>5, <1>6 DEF Started
  <2>2. release = "player" => r = wanted
    BY DEF r, IInv, Asks
  <2> QED  BY <1>1, <1>2, <2>1, <2>2, GoodNow, StartStep DEF IInv, TypeOK
<1>7. CASE ~SendThrows(p)
  <2>1. Good(b)
    <3>1. Good(a) /\ a.reconnectCount = 0
      BY <1>5, <1>7 DEF Started
    <3>2. DOMAIN b = Fields /\ Rec(b)
      BY <3>1, Zenon DEF Good, Rec
    <3>3. Typed(b)
      BY <3>1 DEF Good, Typed, Fields
    <3> QED  BY <3>2, <3>3 DEF Good
  <2>2. Keeps(a, b, {"reconnectCount"})
    BY <1>5 DEF Good, Keeps, Started
  <2> HIDE DEF b
  <2>3. Sound(b)
    BY <1>5, <2>1, <2>2, OthersSound DEF Started, Keeps, Others
  <2>4. /\ b.websocket = a.websocket /\ b.ready = a.ready /\ b.request = a.request
        /\ b.made = a.made /\ b.IntervalReconect = a.IntervalReconect
    BY <2>2 DEF Keeps, Fields
  <2>5. /\ b.websocket # None /\ b.ready = "connecting" /\ ~b.IntervalReconect
        /\ b.request = r /\ b.made = p.made + 1
    BY <1>5, <1>7, <2>4 DEF Started
  <2>6. b.IntervalReconect = FALSE /\ b.made \in Nat /\ p.made \in Nat
    BY <1>1, <2>1, <2>5 DEF Good, Typed, Sockets, None
  <2>7. b \in Players
    BY <2>1, GoodIsPlayer
  <2>8. player' = b
    BY <1>4, <1>7
  <2>9. TypeOK'
    BY <1>2, <2>7, <2>8 DEF IInv, TypeOK, Counters
  <2>10. Sound(player)' /\ Passed(player)'
    <3>1. Passed(b)
      BY <1>5, <2>2, GoodNow, KeepsPasses DEF Started, Passes
    <3> QED  BY <1>2, <2>3, <2>8, <3>1
                DEF Counters, Sound, OneSocket, OneSource, Kept, Supplied, Handled, Passed, Backed
  <2>11. Asks(player)'
    BY <1>2, <2>5, <2>8 DEF IInv, Counters, Asks, Handled, r
  <2>12. Counted'
    BY <1>1, <1>2, <2>5, <2>6, <2>8 DEF IInv, Counted, Armed, Reconnecting, bounds
  <2> QED  BY <2>9, <2>10, <2>11, <2>12 DEF IInv
<1> QED  BY <1>6, <1>7

LEMMA OpenedStep ==
    ASSUME IInv, Opened
    PROVE  IInv'
<1> DEFINE a == [player EXCEPT !.ready = "open"]
           q == [a EXCEPT !.asked = a.request]
<1>1. player' = q
  BY Zenon DEF Opened, OnOpen
<1>2. Good(a)
  <2>1. DOMAIN a = Fields /\ Rec(a)
    BY GoodNow, Zenon DEF Good, Rec
  <2>2. Typed(a)
    BY GoodNow DEF Good, Typed, Fields
  <2> QED  BY <2>1, <2>2 DEF Good
<1>3. Keeps(player, a, {"ready"}) /\ a.ready = "open"
  BY GoodNow DEF Good, Keeps, Fields
<1> HIDE DEF a
<1>4. Good(q)
  <2>1. DOMAIN q = Fields /\ Rec(q)
    BY <1>2, Zenon DEF Good, Rec
  <2>2. Typed(q)
    BY <1>2 DEF Good, Typed, Fields
  <2> QED  BY <2>1, <2>2 DEF Good
<1>5. Keeps(a, q, {"asked"}) /\ q.asked = a.request
  BY <1>2 DEF Good, Keeps, Fields
<1> HIDE DEF q
<1>6. /\ q.websocket = player.websocket /\ q.handled = player.handled /\ q.ready = "open"
      /\ q.made = player.made /\ q.request = player.request /\ q.asked = player.request
      /\ q.mediaSource = player.mediaSource /\ q.buffer = player.buffer
      /\ q.sourceBuffer = player.sourceBuffer /\ q.refused = player.refused
      /\ q.meidaInited = player.meidaInited /\ q.video = player.video
      /\ q.playing = player.playing /\ q.IntervalReconect = player.IntervalReconect
  BY <1>3, <1>5 DEF Keeps, Fields
<1>7. Sound(q)
  BY <1>6, GoodNow DEF Sound, OneSocket, OneSource, Kept, Supplied, Handled, Opened
<1>8. release' = release /\ wanted' = wanted /\ bounds' = bounds /\ hidden' = hidden
  BY DEF Opened, bounds
<1>9. q \in Players
  BY <1>4, GoodIsPlayer
<1>10. TypeOK'
  BY <1>1, <1>8, <1>9 DEF IInv, TypeOK, bounds
<1>11. Sound(player)' /\ Passed(player)'
  <2>1. Passed(q)
    BY <1>3, <1>5, GoodNow, KeepsPasses DEF Passes
  <2> QED  BY <1>1, <1>7, <1>8, <2>1
              DEF Sound, OneSocket, OneSource, Kept, Supplied, Handled, Passed, Backed
<1>12. Asks(player)'
  BY <1>1, <1>6, <1>8 DEF IInv, Asks, Handled
<1>13. Counted'
  BY <1>1, <1>6, <1>8 DEF IInv, Counted, Armed, bounds
<1> QED  BY <1>10, <1>11, <1>12, <1>13 DEF IInv

LEMMA LostStep ==
    ASSUME IInv, NEW s \in Sockets, NEW failed \in BOOLEAN, Lost(s, failed)
    PROVE  IInv'
<1> DEFINE p == player
           a == [p EXCEPT !.handled = @ \ {s},
                          !.ready = IF s = p.websocket THEN "closed" ELSE @]
           b == IF failed THEN OnVideoError(a, 5) ELSE a
<1>1. s = p.websocket /\ p.handled = {s}
  BY GoodNow DEF Lost, Sound, OneSocket
<1>2. player' = OnClose(b)
  BY Zenon DEF Lost
<1>3. Good(a)
  <2>1. DOMAIN a = Fields /\ Rec(a)
    BY GoodNow, Zenon DEF Good, Rec
  <2>2. Typed(a)
    BY GoodNow DEF Good, Typed, Fields
  <2> QED  BY <2>1, <2>2 DEF Good
<1>4. Keeps(p, a, {"handled", "ready"}) /\ a.handled = {} /\ a.ready = "closed"
  BY <1>1, GoodNow DEF Good, Keeps, Fields
<1> HIDE DEF a
<1>5. Good(b) /\ Keeps(a, b, {"IntervalReconect", "error"})
  <2>1. Good(OnVideoError(a, 5)) /\ Keeps(a, OnVideoError(a, 5), {"IntervalReconect", "error"})
    BY <1>3, OnVideoErrorLeaves
  <2> QED  BY <1>3, <2>1 DEF Keeps
<1> HIDE DEF b
<1>6. /\ b.handled = {} /\ b.ready = "closed" /\ b.websocket = p.websocket
      /\ b.made = p.made /\ b.request = p.request
  BY <1>4, <1>5 DEF Keeps, Fields
<1>7. /\ Good(player') /\ Sound(player') /\ ~Handled(player') /\ Passed(player')
      /\ player'.made = p.made /\ player'.request = p.request
  BY <1>2, <1>5, <1>6, OnCloseLeaves, GoodNow DEF Sound, OneSocket
<1>8. Counters /\ wanted' = wanted /\ faults' = faults + 1
  BY PlayerAssumption DEF IInv, TypeOK, Lost, Fault, Counters
<1> QED  BY <1>7, <1>8, FollowStep DEF Follows, Goes, Passes

LEMMA FirstStep ==
    ASSUME IInv, NEW answer \in Answers, First(answer)
    PROVE  IInv'
<1>1. /\ Follows(player, player')
      /\ answer \in {"h264", "h265"} => player'.IntervalReconect = player.IntervalReconect
  BY GoodNow, OnFirstLeaves DEF First, Receiving, Handled
<1>2. /\ Counters /\ wanted' = wanted
      /\ answer \in {"h264", "h265"} \/ faults' = faults + 1
  <2>1. /\ UNCHANGED <<release, wanted, hidden, calls, chunks>>
        /\ \/ answer \in {"h264", "h265"} /\ faults' = faults
           \/ faults < MaxFaults /\ faults' = faults + 1
    BY DEF First, Fault
  <2>2. faults \in 0 .. MaxFaults /\ calls \in 0 .. MaxCalls
    BY DEF IInv, TypeOK
  <2>3. faults' \in 0 .. MaxFaults /\ faults' >= faults /\ calls' >= calls
    BY <2>1, <2>2, PlayerAssumption
  <2> QED  BY <2>1, <2>3 DEF IInv, TypeOK, Counters
<1> QED  BY <1>1, <1>2, FollowStep

LEMMA DataStep ==
    ASSUME IInv, Data
    PROVE  IInv'
<1>1. \/ player' = OnData(player, TRUE) \/ player' = OnData(player, FALSE)
  BY DEF Data
<1>2. Follows(player, player') /\ player'.IntervalReconect = player.IntervalReconect
  BY <1>1, GoodNow, OnDataLeaves DEF Data, Receiving, Handled
<1>3. Counters /\ wanted' = wanted
  <2>1. /\ UNCHANGED <<release, wanted, hidden, calls>>
        /\ chunks < MaxChunks /\ chunks' = chunks + 1
        /\ faults' = faults \/ (faults < MaxFaults /\ faults' = faults + 1)
    BY DEF Data, Fault
  <2>2. faults \in 0 .. MaxFaults /\ calls \in 0 .. MaxCalls /\ chunks \in 0 .. MaxChunks
    BY DEF IInv, TypeOK
  <2>3. /\ faults' \in 0 .. MaxFaults /\ faults' >= faults /\ calls' >= calls
        /\ chunks' \in 0 .. MaxChunks
    BY <2>1, <2>2, PlayerAssumption
  <2> QED  BY <2>1, <2>3 DEF IInv, TypeOK, Counters
<1> QED  BY <1>2, <1>3, FollowStep

LEMMA SourceOpenStep ==
    ASSUME IInv, NEW m \in Sockets, SourceOpen(m)
    PROVE  IInv'
<1> DEFINE a == [player EXCEPT !.opening = @ \ {m}]
           b == [a EXCEPT !.sourceBuffer = a.mediaSource, !.updating = FALSE, !.fed = FALSE]
<1>1. player' = a \/ player' = b
  <2>1. player' = IF m = player.mediaSource THEN OnSourceopen(a) ELSE a
    BY Zenon DEF SourceOpen
  <2>2. OnSourceopen(a) = IF a.mediaSource = None THEN a ELSE b
    BY Zenon DEF OnSourceopen
  <2> HIDE DEF a, b
  <2> QED  BY <2>1, <2>2
<1>2. Good(a)
  <2>1. DOMAIN a = Fields /\ Rec(a)
    BY GoodNow, Zenon DEF Good, Rec
  <2>2. Typed(a)
    BY GoodNow DEF Good, Typed, Fields
  <2> QED  BY <2>1, <2>2 DEF Good
<1>3. Keeps(player, a, {"opening"})
  BY GoodNow DEF Good, Keeps
<1> HIDE DEF a
<1>4. Follows(player, a) /\ a.IntervalReconect = player.IntervalReconect
  BY <1>2, <1>3, GoodNow, OthersFollow DEF Keeps, Others
<1>5. Good(b)
  <2>1. DOMAIN b = Fields /\ Rec(b)
    BY <1>2, Zenon DEF Good, Rec
  <2>2. Typed(b)
    BY <1>2 DEF Good, Typed, Fields
  <2> QED  BY <2>1, <2>2 DEF Good
<1>6. /\ Keeps(a, b, {"sourceBuffer", "updating", "fed"}) /\ b.sourceBuffer = a.mediaSource
      /\ ~b.updating /\ ~b.fed
  BY <1>2 DEF Good, Keeps, Fields
<1> HIDE DEF b
<1>7. /\ b.websocket = a.websocket /\ b.handled = a.handled /\ b.ready = a.ready
      /\ b.made = a.made /\ b.request = a.request /\ b.asked = a.asked
      /\ b.mediaSource = a.mediaSource /\ b.buffer = a.buffer /\ b.refused = a.refused
      /\ b.meidaInited = a.meidaInited /\ b.video = a.video
      /\ b.playing = a.playing /\ b.IntervalReconect = a.IntervalReconect
  BY <1>6 DEF Keeps, Fields
<1>8. Sound(b)
  BY <1>4, <1>6, <1>7
     DEF Follows, Goes, Sound, OneSocket, OneSource, Kept, Supplied, Handled
<1>9. Follows(player, b) /\ b.IntervalReconect = player.IntervalReconect
  BY <1>4, <1>5, <1>6, <1>7, <1>8 DEF Follows, Goes, Passes, Passed, Backed, Handled
<1>10. Counters /\ wanted' = wanted
  BY DEF IInv, TypeOK, SourceOpen, bounds, Counters
<1> QED  BY <1>1, <1>4, <1>9, <1>10, FollowStep

LEMMA UpdateEndStep ==
    ASSUME IInv, UpdateEnd
    PROVE  IInv'
<1> DEFINE a == [player EXCEPT !.updating = FALSE]
<1>1. player' = Mp4AppendBuffer(a, TRUE) \/ player' = Mp4AppendBuffer(a, FALSE)
  BY Zenon DEF UpdateEnd
<1>2. Good(a)
  <2>1. DOMAIN a = Fields /\ Rec(a)
    BY GoodNow, Zenon DEF Good, Rec
  <2>2. Typed(a)
    BY GoodNow DEF Good, Typed, Fields
  <2> QED  BY <2>1, <2>2 DEF Good
<1>3. Keeps(player, a, {"updating"}) /\ ~a.updating
  BY GoodNow DEF Good, Keeps, Fields
<1> HIDE DEF a
<1>4. Goes(player, a) /\ a.IntervalReconect = player.IntervalReconect
  BY <1>2, <1>3, GoodNow, OthersGo DEF Keeps, Others
<1>a. Backed(a)
  <2>1. a.fed = player.fed /\ a.sourceBuffer = player.sourceBuffer
    BY <1>3 DEF Keeps, Fields
  <2> QED  BY <1>3, <2>1, GoodNow DEF Passed, Backed
<1>5. Goes(a, player') /\ player'.IntervalReconect = a.IntervalReconect /\ Passed(player')
  BY <1>1, <1>2, <1>4, <1>a, Mp4AppendBufferLeaves DEF Goes
<1>6. Follows(player, player') /\ player'.IntervalReconect = player.IntervalReconect
  BY <1>4, <1>5 DEF Follows, Goes, Passes, Handled
<1>7. Counters /\ wanted' = wanted
  <2>1. /\ UNCHANGED <<release, wanted, hidden, calls, chunks>>
        /\ faults' = faults \/ (faults < MaxFaults /\ faults' = faults + 1)
    BY DEF UpdateEnd, Fault
  <2>2. faults \in 0 .. MaxFaults /\ calls \in 0 .. MaxCalls
    BY DEF IInv, TypeOK
  <2>3. faults' \in 0 .. MaxFaults /\ faults' >= faults /\ calls' >= calls
    BY <2>1, <2>2, PlayerAssumption
  <2> QED  BY <2>1, <2>3 DEF IInv, TypeOK, Counters
<1> QED  BY <1>6, <1>7, FollowStep

(* A worker leaves the set of those that load. *)
LEMMA LoadedFollows ==
    ASSUME NEW p, Good(p), Sound(p), NEW w
    PROVE  LET a == [p EXCEPT !.loading = @ \ {w}]
           IN  /\ Follows(p, a) /\ a.IntervalReconect = p.IntervalReconect
               /\ PhaseOf(a) = PhaseOf(p)
<1> DEFINE a == [p EXCEPT !.loading = @ \ {w}]
<1>1. Good(a)
  <2>1. DOMAIN a = Fields /\ Rec(a)
    BY Zenon DEF Good, Rec
  <2>2. Typed(a)
    BY DEF Good, Typed, Fields
  <2> QED  BY <2>1, <2>2 DEF Good
<1>2. Keeps(p, a, {"loading"})
  BY DEF Good, Keeps
<1> HIDE DEF a
<1>3. Keeps(p, a, Others \ {"request", "asked", "updating", "fed"})
  BY <1>2 DEF Keeps, Others
<1>4. Follows(p, a) /\ a.IntervalReconect = p.IntervalReconect /\ PhaseOf(a) = PhaseOf(p)
  BY <1>1, <1>3, OthersFollow
<1> QED  BY <1>4 DEF a

LEMMA WorkerReadyStep ==
    ASSUME IInv, NEW w \in Sockets, WorkerReady(w)
    PROVE  IInv'
<1>1. Follows(player, player') /\ player'.IntervalReconect = player.IntervalReconect
  BY GoodNow, LoadedFollows DEF WorkerReady
<1>2. Counters /\ wanted' = wanted
  BY DEF IInv, TypeOK, WorkerReady, bounds, Counters
<1> QED  BY <1>1, <1>2, FollowStep

LEMMA WorkerFailsStep ==
    ASSUME IInv, NEW w \in Sockets, WorkerFails(w)
    PROVE  IInv'
<1> DEFINE a == [player EXCEPT !.loading = @ \ {w}]
           b == OnVideoError(a, 10)
<1>1. player' = b
  BY Zenon DEF WorkerFails
<1>2. Follows(player, a) /\ a.IntervalReconect = player.IntervalReconect
  BY GoodNow, LoadedFollows
<1> HIDE DEF a
<1>3. /\ Good(b) /\ Keeps(a, b, {"IntervalReconect", "error"})
      /\ b.IntervalReconect <=> a.playing \/ a.IntervalReconect
  BY <1>2, OnVideoErrorLeaves DEF Follows, Goes
<1> HIDE DEF b
<1>4. /\ b.websocket = a.websocket /\ b.handled = a.handled /\ b.ready = a.ready
      /\ b.made = a.made /\ b.request = a.request /\ b.asked = a.asked
      /\ b.mediaSource = a.mediaSource /\ b.buffer = a.buffer /\ b.refused = a.refused
      /\ b.sourceBuffer = a.sourceBuffer /\ b.meidaInited = a.meidaInited
      /\ b.video = a.video /\ b.playing = a.playing
  BY <1>3 DEF Keeps, Fields
<1>5. Sound(b)
  BY <1>2, <1>3, <1>4
     DEF Follows, Goes, Sound, OneSocket, OneSource, Kept, Supplied, Handled
<1>6. Follows(player, player')
  <2>1. Passes(a, b)
    BY <1>3, KeepsPasses
  <2> QED  BY <1>1, <1>2, <1>3, <1>4, <1>5, <2>1 DEF Follows, Goes, Passes, Handled
<1>7. Counters /\ wanted' = wanted /\ faults' = faults + 1
  BY PlayerAssumption DEF IInv, TypeOK, WorkerFails, Fault, Counters
<1> QED  BY <1>6, <1>7, FollowStep

-----------------------------------------------------------------------------
LEMMA InitInv == Init => IInv
<1> SUFFICES ASSUME Init PROVE IInv
  OBVIOUS
<1>1. NewPlayer \in Players
  BY DEF NewPlayer, Players, NoRequest, Sockets, None
<1>2. TypeOK
  <2>1. calls \in 0 .. MaxCalls /\ faults \in 0 .. MaxFaults /\ chunks \in 0 .. MaxChunks
    BY PlayerAssumption DEF Init
  <2>2. player \in Players
    BY <1>1 DEF Init
  <2> QED  BY <2>1, <2>2 DEF Init, TypeOK
<1>3. Sound(player)
  BY DEF Init, NewPlayer, Sound, OneSocket, OneSource, Kept, Supplied, Handled, None
<1>4. Asks(player) /\ Counted /\ Passed(player)
  BY DEF Init, NewPlayer, Asks, Handled, Counted, Armed, None, Passed, Backed
<1> QED  BY <1>2, <1>3, <1>4 DEF IInv

LEMMA StepInv == IInv /\ [Next]_vars => IInv'
<1> SUFFICES ASSUME IInv, [Next]_vars PROVE IInv'
  OBVIOUS
<1>1. ASSUME NEW r \in Requests, PlayCall(r) PROVE IInv'
  BY <1>1, PlayCallStep
<1>2. CASE ResumeCall \/ PauseCall \/ StopCall
  BY <1>2, ResumeCallStep, PauseCallStep, StopCallStep
<1>3. CASE Hide \/ Show
  BY <1>3, HideStep, ShowStep
<1>4. CASE Reconnecting \/ CheckBuffer
  BY <1>4, ReconnectingStep, CheckBufferStep
<1>5. CASE Opened
  BY <1>5, OpenedStep
<1>6. ASSUME NEW s \in Sockets, NEW failed \in BOOLEAN, Lost(s, failed) PROVE IInv'
  BY <1>6, LostStep
<1>7. ASSUME NEW answer \in Answers, First(answer) PROVE IInv'
  BY <1>7, FirstStep
<1>8. CASE Data
  BY <1>8, DataStep
<1>9. ASSUME NEW m \in Sockets, SourceOpen(m) PROVE IInv'
  BY <1>9, SourceOpenStep
<1>10. CASE UpdateEnd
  BY <1>10, UpdateEndStep
<1>11. ASSUME NEW w \in Sockets, WorkerReady(w) \/ WorkerFails(w) PROVE IInv'
  BY <1>11, WorkerReadyStep, WorkerFailsStep
<1>12. CASE UNCHANGED vars
  BY <1>12 DEF vars, IInv, TypeOK, Sound, OneSocket, OneSource, Kept, Supplied, Handled, Asks,
               Counted, Armed, Passed, Backed
<1> QED  BY <1>1, <1>2, <1>3, <1>4, <1>5, <1>6, <1>7, <1>8, <1>9, <1>10, <1>11, <1>12 DEF Next

LEMMA Invariant == Spec => []IInv
BY InitInv, StepInv, PTL DEF Spec

(* The fields of a player keep their types: no retry counts, no socket is  *)
(* made that no call or failure paid for.                                  *)
THEOREM Typing == Spec => []TypeOK
<1>1. IInv => TypeOK
  BY DEF IInv
<1> QED  BY <1>1, Invariant, PTL

(* A player that is to play has a socket that can call it or a retry,      *)
(* unless its source buffer has refused a chunk.                           *)
THEOREM NeverStalled == Spec => []NeverStalls
<1>1. IInv => NeverStalls
  BY DEF IInv, Sound, Kept, Supplied, Handled, NeverStalls
<1> QED  BY <1>1, Invariant, PTL

(* No other socket than that of the player can call it, and nothing of     *)
(* another connection waits for its media source.                          *)
THEOREM PlaysOneStream == Spec => []OneStream
<1>1. IInv => OneStream
  BY DEF IInv, Sound, OneSocket, OneSource, OneStream
<1> QED  BY <1>1, Invariant, PTL

(* Once the source buffer has taken a chunk, none waits while it is idle.  *)
THEOREM NothingWaits == Spec => []NoIdleBacklog
<1>1. IInv => NoIdleBacklog
  BY DEF IInv, Passed, NoIdleBacklog
<1> QED  BY <1>1, Invariant, PTL

(* The newest release asks the server for what the page asked for last.    *)
THEOREM AsksForTheRightStream == Spec => []RightStream
<1>1. IInv => RightStream
  BY DEF IInv, Asks, Receiving, Handled, RightStream
<1> QED  BY <1>1, Invariant, PTL

-----------------------------------------------------------------------------
(* Refinement: a player is a Playback.  A lemma per action says to which   *)
(* phase it goes; the invariant is what rules the other phases out.        *)

(* A call of the page starts the player, or changes nothing of its phase.  *)
Starts(p, q) ==
    \/ PhaseOf(q) = PhaseOf(p)
    \/ <<PhaseOf(p), PhaseOf(q)>> \in Promise!Started

LEMMA PhaseIs == Phase = PhaseOf(player)
BY DEF Phase, PhaseOf, Handled

LEMMA PhaseIsNext == Phase' = PhaseOf(player')
BY DEF Phase, PhaseOf, Handled

LEMMA InPhases == \A p : PhaseOf(p) \in Promise!Phases
BY DEF PhaseOf, Promise!Phases

(* A started player connects; one that threw while paused stays so.        *)
LEMMA StartedConnects ==
    ASSUME NEW p, NEW q, NEW r, Good(p), Sound(p), Started(p, q, r)
    PROVE  PhaseOf(q) = "connecting" \/ (~p.playing /\ PhaseOf(q) = PhaseOf(p))
<1>1. /\ Handled(q) /\ q.ready = "connecting" /\ ~q.IntervalReconect
      /\ q.playing = (SendThrows(p) => p.playing)
  BY DEF Started, Sound, OneSocket
<1>2. CASE q.playing
  BY <1>1, <1>2 DEF PhaseOf
<1>3. CASE ~q.playing
  <2>1. SendThrows(p) /\ ~p.playing
    BY <1>1, <1>3
  <2>2. Handled(p)
    BY <2>1 DEF SendThrows, Sound, OneSocket
  <2> QED  BY <1>1, <1>3, <2>1, <2>2 DEF PhaseOf
<1> QED  BY <1>2, <1>3

LEMMA StartedStarts ==
    ASSUME NEW p, NEW q, NEW r, Good(p), Sound(p), Started(p, q, r)
    PROVE  Starts(p, q)
<1>1. CASE PhaseOf(q) = "connecting"
  <2>1. <<PhaseOf(p), PhaseOf(q)>> \in Promise!Phases \X {"connecting"}
    BY <1>1, InPhases
  <2> QED  BY <2>1 DEF Starts, Promise!Started
<1>2. CASE PhaseOf(q) = PhaseOf(p)
  BY <1>2 DEF Starts
<1> QED  BY <1>1, <1>2, StartedConnects

LEMMA PlayCallPhase ==
    ASSUME IInv, NEW r \in Requests, PlayCall(r)
    PROVE  Starts(player, player') /\ calls' = calls + 1
<1>1. Started(player, player', r)
  BY GoodNow, Room, PlayLeaves DEF PlayCall, Call
<1> QED  BY <1>1, GoodNow, StartedStarts DEF PlayCall, Call

(* A player that is resumed without a new connection is paused and goes on *)
(* with its socket, or is stopped after a refused chunk and is lost.       *)
LEMMA ResumeCallPhase ==
    ASSUME IInv, ResumeCall
    PROVE  Starts(player, player') /\ calls' = calls + 1
<1>1. \/ Started(player, player', player.request)
      \/ Follows(player, player') /\ Stays(player, player') /\ (player.playing => player'.playing)
  BY GoodNow, Room, ResumeLeaves DEF ResumeCall, Call
<1>2. CASE Started(player, player', player.request)
  BY <1>2, GoodNow, StartedStarts DEF ResumeCall, Call
<1>3. CASE Stays(player, player') /\ (player.playing => player'.playing)
  <2>1. CASE player'.playing = player.playing
    <3>1. PhaseOf(player') = PhaseOf(player)
      BY <1>3, <2>1 DEF Stays, PhaseOf, Handled
    <3> QED  BY <3>1 DEF Starts, ResumeCall, Call
  <2>2. CASE player'.playing /\ ~player.playing
    <3>1. ~player.IntervalReconect /\ ~player'.IntervalReconect
      BY <1>3, <2>2, GoodNow DEF Sound, Kept, Stays
    <3>2. \/ PhaseOf(player') = "connecting"
          \/ PhaseOf(player) = "paused" /\ PhaseOf(player') = "streaming"
          \/ PhaseOf(player) = "stopped" /\ PhaseOf(player') = "lost"
      BY <1>3, <2>2, <3>1 DEF Stays, PhaseOf, Handled
    <3>3. <<PhaseOf(player), PhaseOf(player')>> \in Promise!Started
      BY <3>2, InPhases DEF Promise!Started
    <3> QED  BY <3>3 DEF Starts, ResumeCall, Call
  <2>3. player.playing \in BOOLEAN /\ player'.playing \in BOOLEAN
    BY <1>1, GoodNow DEF Good, Typed, Started, Follows, Goes
  <2> QED  BY <1>3, <2>1, <2>2, <2>3
<1> QED  BY <1>1, <1>2, <1>3

(* Pausing and stopping do nothing to a player that connects but to cancel *)
(* its retry.                                                              *)
LEMMA ThrownPhase ==
    ASSUME NEW p, NEW q, Good(p), Sound(p), SendThrows(p), ~q.IntervalReconect,
           Keeps(p, q, {"IntervalCheckBuffer", "IntervalReconect", "status"})
    PROVE  Turns(p, q)
<1>1. /\ q.playing = p.playing /\ q.websocket = p.websocket /\ q.handled = p.handled
      /\ q.ready = p.ready
  BY DEF Keeps, Fields
<1>2. Handled(p) /\ Handled(q) /\ p.ready = "connecting"
  BY <1>1 DEF SendThrows, Sound, OneSocket, Handled
<1> QED  BY <1>1, <1>2 DEF Turns, PhaseOf, Promise!Own, Promise!Ended

LEMMA NotConnecting ==
    ASSUME NEW p, Good(p), ~SendThrows(p)
    PROVE  ~(Handled(p) /\ p.ready = "connecting")
BY DEF Good, Typed, Handled, SendThrows, Sockets, None

LEMMA PauseCallPhase ==
    ASSUME IInv, PauseCall
    PROVE  Turns(player, player') /\ calls' = calls
<1>1. /\ Good(player') /\ ~player'.IntervalReconect
      /\ SendThrows(player) =>
             Keeps(player, player', {"IntervalCheckBuffer", "IntervalReconect", "status"})
      /\ ~SendThrows(player) =>
             /\ Keeps(player, player', {"IntervalCheckBuffer", "IntervalReconect", "status",
                                        "told", "playing"})
             /\ ~player'.playing
  BY GoodNow, PauseLeaves DEF PauseCall
<1>2. CASE SendThrows(player)
  BY <1>1, <1>2, GoodNow, ThrownPhase DEF PauseCall, bounds
<1>3. CASE ~SendThrows(player)
  <2>1. Handled(player') <=> Handled(player)
    BY <1>1, <1>3 DEF Keeps, Fields, Handled
  <2>2. Turns(player, player')
    BY <1>1, <1>3, <2>1, GoodNow, NotConnecting
       DEF Turns, PhaseOf, Promise!Own, Promise!Ended
  <2> QED  BY <2>2 DEF PauseCall, bounds
<1> QED  BY <1>2, <1>3

LEMMA StopCallPhase ==
    ASSUME IInv, StopCall
    PROVE  Turns(player, player') /\ calls' = calls
<1>1. /\ Good(player')
      /\ SendThrows(player) =>
             /\ Keeps(player, player', {"IntervalCheckBuffer", "IntervalReconect", "status"})
             /\ ~player'.IntervalReconect
      /\ ~SendThrows(player) => Stopped(player, player')
  BY GoodNow, StopLeaves DEF StopCall
<1>2. CASE SendThrows(player)
  BY <1>1, <1>2, GoodNow, ThrownPhase DEF StopCall, bounds
<1>3. CASE ~SendThrows(player)
  <2>1. ~player'.playing /\ ~Handled(player')
    BY <1>1, <1>3 DEF Stopped, Handled
  <2>2. Turns(player, player')
    BY <1>3, <2>1, GoodNow, NotConnecting DEF Turns, PhaseOf, Promise!Own, Promise!Ended
  <2> QED  BY <2>2 DEF StopCall, bounds
<1> QED  BY <1>2, <1>3

LEMMA HideCheckBufferPhase ==
    ASSUME IInv, Hide \/ CheckBuffer
    PROVE  Turns(player, player') /\ calls' = calls
<1>1. player.status \in {0, 1}
  BY GoodNow DEF Good, Typed
<1>2. PhaseOf(player') = PhaseOf(player)
  BY <1>1, GoodNow, NotifyFollows DEF Hide, CheckBuffer
<1> QED  BY <1>2 DEF Turns, Hide, CheckBuffer, bounds

(* A page that comes back leaves the phase, or replays. *)
LEMMA ShowPhase ==
    ASSUME IInv, Show
    PROVE  \/ Turns(player, player') /\ calls' = calls
           \/ Starts(player, player') /\ calls' = calls + 1
<1> DEFINE a == NotifyStatus(player, 0)
<1>1. Follows(player, a) /\ PhaseOf(a) = PhaseOf(player)
  BY GoodNow, NotifyFollows
<1>2. CASE player' = a /\ UNCHANGED calls
  BY <1>1, <1>2 DEF Turns
<1>3. CASE player' = Replay(a) /\ Call
  <2>1. player.made < MaxCalls + MaxFaults
    BY <1>3, Room DEF Call
  <2> HIDE DEF a
  <2>2. Started(a, player', a.request)
    BY <1>1, <1>3, <2>1, ReplayLeaves DEF Follows, Goes
  <2>3. Starts(a, player')
    BY <1>1, <2>2, StartedStarts DEF Follows, Goes
  <2> QED  BY <1>1, <1>3, <2>3 DEF Starts, Call
<1> QED  BY <1>2, <1>3 DEF Show

(* The retry connects: the player is to play, so not even a socket that    *)
(* connects and makes stop() throw leaves it paused.                       *)
LEMMA ReconnectingPhase ==
    ASSUME IInv, Reconnecting
    PROVE  Turns(player, player') /\ calls' = calls
<1> DEFINE p == player
           r == IF release = "player" THEN p.request ELSE [p.request EXCEPT !.mediaType = 0]
           a == IF release = "player" THEN Replay(p) ELSE Play(p, r)
           b == [a EXCEPT !.reconnectCount = @ + 1]
<1>1. Good(p) /\ Sound(p) /\ p.IntervalReconect /\ p.made < MaxCalls + MaxFaults
  BY GoodNow, Room DEF Reconnecting
<1>2. p.playing /\ PhaseOf(p) = "waiting"
  BY <1>1 DEF Sound, Kept, PhaseOf
<1>3. r \in Requests \cup {NoRequest}
  BY <1>1 DEF Good, Typed, Requests, NoRequest, Types
<1>4. player' = a \/ player' = b
  <2>1. a = IF release = "player" THEN Replay(p) ELSE Play(p, [p.request EXCEPT !.mediaType = 0])
    BY Zenon
  <2> HIDE DEF a
  <2> QED  BY <2>1, Zenon DEF Reconnecting, Reconnect
<1>5. Started(p, a, r)
  BY <1>1, <1>3, ReplayLeaves, PlayLeaves
<1> HIDE DEF a, r
<1>6. PhaseOf(a) = "connecting"
  BY <1>1, <1>2, <1>5, StartedConnects
<1>7. Keeps(a, b, {"reconnectCount"})
  BY <1>5 DEF Started, Good, Keeps
<1>8. PhaseOf(b) = PhaseOf(a)
  BY <1>7, KeepsPhase
<1> QED  BY <1>2, <1>4, <1>6, <1>8 DEF Turns, Promise!Own, Reconnecting, bounds

LEMMA OpenedPhase ==
    ASSUME IInv, Opened
    PROVE  Turns(player, player') /\ calls' = calls
<1> DEFINE a == [player EXCEPT !.ready = "open"]
           q == [a EXCEPT !.asked = a.request]
<1>1. player' = q /\ calls' = calls
  BY Zenon DEF Opened, OnOpen, bounds
<1>2. DOMAIN a = Fields
  BY GoodNow, Zenon DEF Good, Rec
<1>3. Keeps(player, a, {"ready"}) /\ a.ready = "open"
  BY GoodNow DEF Good, Keeps, Fields
<1> HIDE DEF a
<1>4. Keeps(a, q, {"asked"})
  BY <1>2 DEF Keeps, Fields
<1> HIDE DEF q
<1>5. /\ q.websocket = player.websocket /\ q.handled = player.handled /\ q.ready = "open"
      /\ q.playing = player.playing /\ q.IntervalReconect = player.IntervalReconect
  BY <1>3, <1>4 DEF Keeps, Fields
<1>6. Handled(player) /\ Handled(q) /\ player.ready = "connecting"
  BY <1>5 DEF Opened, Handled
<1>7. Turns(player, q)
  BY <1>5, <1>6 DEF Turns, PhaseOf, Promise!Own, Promise!Ended
<1> QED  BY <1>1, <1>7

(* A connection that is lost is followed by a retry if the player is to    *)
(* play.                                                                   *)
LEMMA LostPhase ==
    ASSUME IInv, NEW s \in Sockets, NEW failed \in BOOLEAN, Lost(s, failed)
    PROVE  Turns(player, player') /\ calls' = calls
<1> DEFINE p == player
           a == [p EXCEPT !.handled = @ \ {s},
                          !.ready = IF s = p.websocket THEN "closed" ELSE @]
           b == IF failed THEN OnVideoError(a, 5) ELSE a
<1>1. s = p.websocket /\ p.handled = {s}
  BY GoodNow DEF Lost, Sound, OneSocket
<1>2. player' = OnClose(b)
  BY Zenon DEF Lost
<1>3. Good(a)
  <2>1. DOMAIN a = Fields /\ Rec(a)
    BY GoodNow, Zenon DEF Good, Rec
  <2>2. Typed(a)
    BY GoodNow DEF Good, Typed, Fields
  <2> QED  BY <2>1, <2>2 DEF Good
<1>4. Keeps(p, a, {"handled", "ready"}) /\ a.handled = {} /\ a.ready = "closed"
  BY <1>1, GoodNow DEF Good, Keeps, Fields
<1> HIDE DEF a
<1>5. Good(b) /\ Keeps(a, b, {"IntervalReconect", "error"})
  <2>1. Good(OnVideoError(a, 5)) /\ Keeps(a, OnVideoError(a, 5), {"IntervalReconect", "error"})
    BY <1>3, OnVideoErrorLeaves
  <2> QED  BY <1>3, <2>1 DEF Keeps
<1> HIDE DEF b
<1>6. /\ b.handled = {} /\ b.ready = "closed" /\ b.websocket = p.websocket
      /\ b.made = p.made /\ b.playing = p.playing
  BY <1>4, <1>5 DEF Keeps, Fields
<1>7. /\ ~Handled(player') /\ player'.playing = p.playing
      /\ player'.IntervalReconect <=> player'.playing
  BY <1>2, <1>5, <1>6, OnCloseLeaves, GoodNow DEF Sound, OneSocket
<1>8. Handled(p)
  BY <1>1 DEF Handled
<1>9. Turns(player, player')
  BY <1>7, <1>8 DEF Turns, PhaseOf, Promise!Own, Promise!Ended
<1> QED  BY <1>9 DEF Lost

LEMMA FirstPhase ==
    ASSUME IInv, NEW answer \in Answers, First(answer)
    PROVE  Turns(player, player') /\ calls' = calls
BY GoodNow, OnFirstLeaves DEF First, Receiving, Handled

LEMMA DataPhase ==
    ASSUME IInv, Data
    PROVE  Turns(player, player') /\ calls' = calls
<1>1. \/ player' = OnData(player, TRUE) \/ player' = OnData(player, FALSE)
  BY DEF Data
<1>2. Turns(player, player')
  BY <1>1, GoodNow, OnDataLeaves DEF Data, Receiving, Handled
<1> QED  BY <1>2 DEF Data

LEMMA SourceOpenPhase ==
    ASSUME IInv, NEW m \in Sockets, SourceOpen(m)
    PROVE  Turns(player, player') /\ calls' = calls
<1> DEFINE a == [player EXCEPT !.opening = @ \ {m}]
           b == [a EXCEPT !.sourceBuffer = a.mediaSource, !.updating = FALSE, !.fed = FALSE]
<1>1. player' = a \/ player' = b
  <2>1. player' = IF m = player.mediaSource THEN OnSourceopen(a) ELSE a
    BY Zenon DEF SourceOpen
  <2>2. OnSourceopen(a) = IF a.mediaSource = None THEN a ELSE b
    BY Zenon DEF OnSourceopen
  <2> HIDE DEF a, b
  <2> QED  BY <2>1, <2>2
<1>2. DOMAIN a = Fields /\ Keeps(player, a, {"opening"})
  BY GoodNow DEF Good, Keeps
<1> HIDE DEF a
<1>3. Keeps(a, b, {"sourceBuffer", "updating", "fed"})
  BY <1>2 DEF Keeps
<1> HIDE DEF b
<1>4. PhaseOf(a) = PhaseOf(player) /\ PhaseOf(b) = PhaseOf(a)
  BY <1>2, <1>3, KeepsPhase
<1> QED  BY <1>1, <1>4 DEF Turns, SourceOpen, bounds

LEMMA UpdateEndPhase ==
    ASSUME IInv, UpdateEnd
    PROVE  Turns(player, player') /\ calls' = calls
<1> DEFINE a == [player EXCEPT !.updating = FALSE]
<1>1. player' = Mp4AppendBuffer(a, TRUE) \/ player' = Mp4AppendBuffer(a, FALSE)
  BY Zenon DEF UpdateEnd
<1>2. Good(a)
  <2>1. DOMAIN a = Fields /\ Rec(a)
    BY GoodNow, Zenon DEF Good, Rec
  <2>2. Typed(a)
    BY GoodNow DEF Good, Typed, Fields
  <2> QED  BY <2>1, <2>2 DEF Good
<1>3. Keeps(player, a, {"updating"})
  BY GoodNow DEF Good, Keeps, Fields
<1> HIDE DEF a
<1>4. Goes(player, a) /\ PhaseOf(a) = PhaseOf(player)
  BY <1>2, <1>3, GoodNow, OthersGo DEF Keeps, Others
<1>5. Turns(a, player')
  BY <1>1, <1>2, <1>4, Mp4AppendBufferLeaves DEF Goes
<1> QED  BY <1>4, <1>5 DEF Turns, UpdateEnd

(* The failure of a worker makes a player that is to play retry. *)
LEMMA WorkerPhase ==
    ASSUME IInv, NEW w \in Sockets, WorkerReady(w) \/ WorkerFails(w)
    PROVE  Turns(player, player') /\ calls' = calls
<1> DEFINE a == [player EXCEPT !.loading = @ \ {w}]
           b == OnVideoError(a, 10)
<1>1. player' = a \/ player' = b
  BY Zenon DEF WorkerReady, WorkerFails
<1>2. Follows(player, a) /\ PhaseOf(a) = PhaseOf(player)
  BY GoodNow, LoadedFollows
<1> HIDE DEF a
<1>3. /\ Keeps(a, b, {"IntervalReconect", "error"})
      /\ b.IntervalReconect <=> a.playing \/ a.IntervalReconect
  BY <1>2, OnVideoErrorLeaves DEF Follows, Goes
<1> HIDE DEF b
<1>4. /\ b.playing = a.playing /\ b.websocket = a.websocket /\ b.handled = a.handled
      /\ b.ready = a.ready
  BY <1>3 DEF Keeps, Fields
<1>5. Turns(a, b)
  BY <1>3, <1>4 DEF Turns, PhaseOf, Handled, Promise!Own, Promise!Ended
<1>6. Turns(player, player')
  BY <1>1, <1>2, <1>5 DEF Turns
<1> QED  BY <1>6 DEF WorkerReady, WorkerFails, bounds

-----------------------------------------------------------------------------
(* A step whose phases fit is a step of the Playback. *)
LEMMA TurnIsStep ==
    ASSUME Turns(player, player'), calls' = calls
    PROVE  [Promise!Next]_<<Phase, calls>>
BY PhaseIs, PhaseIsNext DEF Turns, Promise!Next

LEMMA StartIsStep ==
    ASSUME Starts(player, player'), calls' = calls + 1
    PROVE  [Promise!Next]_<<Phase, calls>>
BY PhaseIs, PhaseIsNext, InPhases DEF Starts, Promise!Next

LEMMA PlaybackStep ==
    ASSUME IInv, [Next]_vars
    PROVE  [Promise!Next]_<<Phase, calls>>
<1>1. ASSUME NEW r \in Requests, PlayCall(r) PROVE [Promise!Next]_<<Phase, calls>>
  BY <1>1, PlayCallPhase, StartIsStep
<1>2. CASE ResumeCall
  BY <1>2, ResumeCallPhase, StartIsStep
<1>3. CASE PauseCall \/ StopCall
  BY <1>3, PauseCallPhase, StopCallPhase, TurnIsStep
<1>4. CASE Show
  BY <1>4, ShowPhase, TurnIsStep, StartIsStep
<1>5. CASE Hide \/ CheckBuffer
  BY <1>5, HideCheckBufferPhase, TurnIsStep
<1>6. CASE Reconnecting \/ Opened
  BY <1>6, ReconnectingPhase, OpenedPhase, TurnIsStep
<1>7. ASSUME NEW s \in Sockets, NEW failed \in BOOLEAN, Lost(s, failed)
      PROVE  [Promise!Next]_<<Phase, calls>>
  BY <1>7, LostPhase, TurnIsStep
<1>8. ASSUME NEW answer \in Answers, First(answer) PROVE [Promise!Next]_<<Phase, calls>>
  BY <1>8, FirstPhase, TurnIsStep
<1>9. CASE Data \/ UpdateEnd
  BY <1>9, DataPhase, UpdateEndPhase, TurnIsStep
<1>10. ASSUME NEW m \in Sockets, SourceOpen(m) PROVE [Promise!Next]_<<Phase, calls>>
  BY <1>10, SourceOpenPhase, TurnIsStep
<1>11. ASSUME NEW w \in Sockets, WorkerReady(w) \/ WorkerFails(w)
       PROVE  [Promise!Next]_<<Phase, calls>>
  BY <1>11, WorkerPhase, TurnIsStep
<1>12. CASE UNCHANGED vars
  BY <1>12, PhaseIs, PhaseIsNext DEF vars
<1> QED  BY <1>1, <1>2, <1>3, <1>4, <1>5, <1>6, <1>7, <1>8, <1>9, <1>10, <1>11, <1>12 DEF Next

(* Whatever becomes of its sockets, media sources, workers and intervals, a *)
(* player keeps to the phases of a Playback: only a call of the page starts *)
(* it, and whatever ends a stream is followed by a retry, but for a refused *)
(* chunk.                                                                  *)
THEOREM IsPlayback == Spec => ImplementsPlayback
<1>1. Init => Promise!Init
  BY DEF Init, NewPlayer, Promise!Init, Phase, None
<1> QED  BY <1>1, Invariant, PlaybackStep, PTL DEF Spec, ImplementsPlayback, Promise!Spec

(* A player that was stopped starts by a call of the page. *)
OnlyCallsStart == [][Phase = "stopped" /\ Phase' # "stopped" => calls' = calls + 1]_vars

(* Nothing but a call of the page starts a player that was stopped: no late*)
(* event of a socket, a media source or a worker does, nor an interval     *)
(* (public/main/player/xplayer.js:405-427).                                *)
THEOREM StoppedStays == Spec => OnlyCallsStart
<1>1. IInv /\ [Next]_vars =>
          [Phase = "stopped" /\ Phase' # "stopped" => calls' = calls + 1]_vars
  <2> SUFFICES ASSUME IInv, [Next]_vars, Phase = "stopped", Phase' # "stopped"
               PROVE  calls' = calls + 1
    OBVIOUS
  <2>1. [Promise!Next]_<<Phase, calls>>
    BY PlaybackStep
  <2> QED  BY <2>1 DEF Promise!Next, Promise!Own, Promise!Ended
<1> QED  BY <1>1, Invariant, PTL DEF Spec, OnlyCallsStart

(* A player does not make sockets of its own accord: each was made for a   *)
(* call of the page or for a failure, and the retry that is armed is paid  *)
(* for too, so an interval never makes two of them for one failure         *)
(* (public/main/player/xplayer.js:415-427).                                *)
THEOREM RetriesArePaidFor == Spec => [](player.made + Armed(player) <= calls + faults)
<1>1. IInv => player.made + Armed(player) <= calls + faults
  BY DEF IInv, Counted
<1> QED  BY <1>1, Invariant, PTL
=============================================================================
