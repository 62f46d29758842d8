# Verification of the gan live-streaming server and its web player

gan is an RTSP/websocket live-streaming server in Java with a player for web
pages in JavaScript. Cameras and encoders push a stream (ANNOUNCE, SETUP,
RECORD) or are pulled by the server (DESCRIBE, SETUP, PLAY); each live stream is
published under its URL or the token in it, and any number of outputs (RTSP
players, websocket players, muxers, a decoder) are fed from it. A page plays a
stream through a websocket, a MediaSource or a decoding worker.

This directory holds TLA+ models of the parts of both in which the order
of steps matters, TLC configurations that check them on small instances, and
TLAPS proofs that hold for every instance. `PROJECT.json` lists the components,
the runs, the lines every definition stands for, the hazards and the theorems.

Paths below are relative to `src/`; `core`, `media`, `server` and `decoder`
abbreviate `src/<name>/src/main/java`.

    tlc -workers 2 -config <run>.cfg MC<Module>     # a run
    tlapm <Module>Proofs.tla                        # the proofs of a module

## 1. Inventory

Threads of the server: the acceptor of the RTSP port, one polling thread and one
pool of receivers per group of 500 sockets, one thread per pull, one thread per
output, the main looper (timers), the threads of the web container, and event
threads. A page has one thread: it runs one call, event or tick of an interval at
a time, and what is hard there is their order. A *session* is an `RtspMediaServer` object; it is publisher or player
depending on the requests it gets.

| component | state | operations | what makes it hard | what must hold | status |
|---|---|---|---|---|---|
| **Source registry**: `RtspMediaServerManager`, `MediaServerManager`, life cycle of `RtspMediaServer`/`BaseServer` | token → source in two managers, server state, session timer | ANNOUNCE/RECORD/pull publish, `stopInputStream` withdraws, `finish()` | the feeder and any other thread finish one server; withdrawal is by URL, not by owner; a refused server finishes itself | both tables agree; a finished server is listed nowhere; nobody is displaced; a finish returns | SourceRegistry, SourceDirectory |
| **Outputs of a source**: `RtspMediaServer`, `MediaOutputStreamRunnableList` | list of outputs, cached list per packet type (weak reference), watchers | add, remove, put a packet to all of a type, clear | outputs join while the source finishes, leave while it walks; the collector drops cached lists | nobody joins a finished source; typed lists follow the main one; the last output finishes the source; outputs end | OutputList |
| **Pull lock**: `MapKeyLock` | token → list of waiting pulls | `ifWait`, `removeNotify` | half of it is outside the monitor; wake-ups can be lost; the iterator can throw | no entry outlives its pull; every pull comes back | MapKeyLock |
| **Packet queue**: `MediaOutputStreamRunnable1`, `RtspOutputStreamRunnable`, `RecycleObjectPool` | Vector of packet objects, pool | `putPacket` by the feeder, `run` by the writer, `close` | combinations of atomic operations are not atomic; packets are dropped when a client is slow | bounded; an object has one owner; written in order; packets are taken | PacketQueue |
| **Socket polling**: `SocketGroupManager`, `SocketGroup`, `SocketChecker`, `SocketReceiver` | list and cache of groups, sockets per group, polling thread, pool | accept, add, poll, receive, close, end of a group | a group ends while a socket joins; a pool without a queue; sockets known by the remote port | every socket is looked at; one receiver per socket; closing is announced | SocketGroup, SocketGroupManager |
| **RTSP session**: `RtspMediaServer.onSocketStream` and its handlers | role, URL, streaming flags, two timers | eight requests, interleaved packets, timers, `finish()` | requests in any order or ahead of the answers; a flag shared with `finish()`; timers re-armed after a finish | always watched by a timer; requests are answered; requests are not read as packets; comes to rest | RtspSession |
| **Web player**: `IPlayer` of `public/main/player/xplayer.js` and of the server's copy of it, with `decoder.js` | socket, media source, source buffer, worker, queue of chunks, two intervals, request, status | play, pause, resume, stop, page hidden and shown, events of the socket, the buffer and the worker, retry | `send` throws while the socket connects and leaves a call half done; freed objects may still tell something; two intervals, and a retry that stops the player first | a player that is to play has a socket or a retry; it hears its own socket only and asks for what the page asked for last; no chunk is forgotten; it comes back | IPlayer, Playback |
| **Tabs of the web page**: `hometab.js`, `page.js`, `demo.js`, `online/index.js` under `public/main/home` | current tab, page on show, bodies kept, requests under way, the object and player of each script | click a tab, a page arrives, buttons | pages come out of order; leaving a page throws while its player connects; scripts set their object to null | nothing plays on the pages that were left; tabs answer; the tab that was clicked is shown | Tabs |
| Frame queue: `MediaOutputStreamRunnableFrame` | frames, sample times, interception flag | `putPacket`, thinning, `run` | frames that depend on a dropped one; sample times that hide the gap | a decodable sequence, times that do not run back | planned: FrameQueue |
| Pull client: `RtspConnection`, `RtspPullServer` | connection, heartbeat message, retry message | connect, authenticate, PLAY, heartbeat, retry | heartbeat posted again while it is removed; retry posted after destruction | a destroyed puller stops; a lost one retries | planned: PullClient |
| Choice of a source: `MediaServerManager`, `MediaSourceAdapter`, session tables of `RtspMediaServerManager` | adapters, tables of sessions | look up, adapt, open file, pull | a pull answers with a source that may have been refused | the answer is a live source, or none | planned: SourceChoice |
| Files as sources: `MediaSourceAbstract`, `MediaSourceFile` | its own list of outputs | add, remove, finish | checks `isFinishing` outside the lock of its list | as OutputList | planned: FileSource |
| Events: `AndroidEventManager` | running events, listeners per code | push, run once per code, cancel, notify | listeners change while they are called; a listener joins an event that has been notified | every listener is told once | planned: EventManager |
| Looper: `android.os` port of `MessageQueue`, `Handler`, `Looper` | message list by time, barriers, quit flags | enqueue, next, remove, quit | messages posted while the loop sleeps | messages in time order, none after quit | planned: MessageQueue |
| Stream parsers: RTP over TCP, PS, H.264/H.265/AAC depacketisers | partial packet or unit | feed bytes | a packet cut anywhere; lost fragments | the same packets however the bytes are cut | planned: pure operators |
| Websocket outputs: `WebSocketServer`, `MediaSessionWebSocket` | start flag, output runnable | start, control, close | close between check and start | no output is left running | planned: WebSocketOutput |
| Other copies of the player, WebGL and PCM, helpers of the pages (`http.js`, `user.js`, `file.js`, `view.js`, `base.js`), third-party scripts | see section 7 | | identical code, drawing, calls without state | | not modelled |
| Plugins, muxers, codecs, SDP, JSON, utilities, framework, logging, web and decoder applications | see `PROJECT.json` | | formatting, native code, or calls into the parts above | | not modelled |

How they interact: the acceptor hands sockets to *socket polling*, which calls
`onSocketStream` of the *RTSP session* from a receiver thread; the session
publishes itself in the *source registry*, or looks a source up and adds an
output to the *outputs of a source*; a pull goes through the *pull lock* and then
publishes a session of its own; the reader of a published session puts each
packet to the *outputs*, each of which has a *packet queue* and a thread; timers
of the main looper, the last output that leaves, and the web controllers call
`finish()` from outside. A page of the *tabs* makes a *web player*, whose websocket
is an output of a source: the first message names the codec, the others are the
packets of that output; what the player sends (`asked`, `told`) chooses the stream
and tells the server that the page is hidden.

### Hard behaviour

* **Several threads end one object.** The reader of a session, the main looper,
  the last output and a controller may all run `finish()`; `BaseServer.destory`
  sets the state without a lock, while `startInputStream` and `stopInputStream`
  are synchronized.
* **Check, then act.** `getSocketGroup()`/`addSocket()`,
  `MapKeyLock.ifWait`/`removeNotify`, ANNOUNCE/RECORD, and `putPacket`/`run`
  look at shared state and use it later.
* **Time.** A session timer, a packet timer, the twenty seconds of a pull; each
  may fire while what it watches is just done.
* **Limits.** Twenty free packet objects, a queue of a thousand packets, five
  before ignorable ones are dropped, five hundred sockets and receivers.
* **Calls that end in the middle.** `WebSocket.send` throws while the socket
  connects, so play, pause, resume, stop, a retry and a click on a tab may leave
  some of their assignments done and others not.
* **The environment.** Clients disappear without a close, send requests ahead of
  the answers, and share port numbers; the garbage collector clears caches; a
  network fails at any moment, a browser refuses a chunk or a codec.

## 2. Modules

| module | models | composed with |
|---|---|---|
| `SourceRegistry` | `media/gan/media/rtsp/RtspMediaServerManager`, `media/gan/media/MediaServerManager` (tables), `RtspMediaServer` and `core/gan/core/system/server/BaseServer` (life cycle) | implements `SourceDirectory` |
| `SourceDirectory` | what publication promises: nothing is overwritten, what is gone stays away | |
| `OutputList` | `RtspMediaServer` lines 107–130, 666–769, 829–859, `MediaOutputStreamRunnableList` | |
| `MapKeyLock` | `core/gan/core/MapKeyLock`, called by `getRtspSourceByPull` | |
| `PacketQueue` | `MediaOutputStreamRunnable1`, `RtspOutputStreamRunnable`, `PacketInfoRecyclePool`, `RecycleObjectPool` | |
| `SocketGroup` | `core/gan/network/SocketGroup`, `SocketChecker`, `SocketReceiver` | extended by `SocketGroupManager` |
| `SocketGroupManager` | `core/gan/network/SocketGroupManager` with all its groups | |
| `RtspSession` | `RtspMediaServer.onSocketStream`, its handlers, `startInputStream`, `startOutputStream`, the timers | |
| `Playback` | what a page may count on of a player: its phases and who takes it from one to the next | used by `Tabs` for each player |
| `IPlayer` | `IPlayer` of `public/main/player/xplayer.js` (release "player") and of `server/src/main/resources/static/js/player/xplayer.js` (release "server") | implements `Playback` |
| `Tabs` | `hometab.js`, `core/page.js`, `demo/demo.js`, `online/index.js` under `public/main/home` | instantiates `Playback` |
| `MC…` | the small instances | |
| `…Proofs` | the theorems of a module | |

Definitions keep the names of the code (`managerRtspSource`, `mMapSocket`,
`isFull`); a definition `X_Something` is `X` with a plausible bug, said in its comment, used to confirm that a property notices it, and is part of no
specification.

### SourceRegistry

A server has two threads: its *feeder* (a receiver thread, or the thread of a
pull) and a *killer* (any thread that calls `finish()`). `feeder` and `killer`
say where each is. `startInputStream(rtsp,sdp)` is cut into `StartInput`,
`Register` and `Started`, because only `stopInputStream` shares its monitor:
`finish()` sets the state in between. `destory` is three steps: state,
`stopInputStream`, end. A refused publication (`RefuseBegin` … `RefuseEnd`) is
the re-entrant `finish()` of the catch block. Withdrawal (`Removed`) is by URL,
then by its token, whoever published it. `Token` and `Name` stand for
`parseToken` and `parseName`; the one thing assumed of them is that the token of
a token is the token, which holds because a token is what follows `gToken=` and
`parseToken` splits at it. The statistics (`mSourceCount`) and the observers are
left out.

### OutputList

`all` is the list of outputs, `ref`/`typed` the list cached per packet type
behind a `WeakReference`, which `Collect` clears at any time. A typed list counts
how often an output is in it, because a rebuilt list can take an output in twice
(`getMediaOutputStreamRunnables` fills it from the main list, to which `add` has
already added). Each output runs a thread: add, run, be closed or fail, remove.
`start()` of `MediaOutputStreamRunnable1` reopens an output that was closed
before it ran; the history `revived` records these.

### MapKeyLock

One action per step of `ifWait` between which another thread can come; a call is
named after what it waits for and a list after the call that created it.
`removeNotify` removes the entry, then walks the list with an iterator that
throws if the list has grown (`expected`). Three races lose a wake-up: a lock
added after the walk, a lock notified before its call waits, and the rest of a
list whose iterator throws. `raced` records who is hit; the twenty seconds are
the fair action `Timeout`. `mMapLock` does not exclude two pulls of one token,
and nothing here claims it.

### PacketQueue

`feeder` walks through `putPacket` and `intercept`, `writer` through `run`; each
single `Vector` or pool call is atomic, their combinations are not. A packet is
stored in four steps: an object is had (`Store`), the packet is copied into it
(`Copy`, which throws for a packet that does not fit), gets its length (`Length`)
and is queued (`Add`). Packet
objects are numbered, so that two places may hold the same object. In
`RtspOutputStreamRunnable` the feeder looks at the first packet, removes by
index and recycles, while the writer removes: when the queue is large it can
recycle what the writer holds, and fill it again while the writer sends and clears
it. `overloaded` records that the queue was found
large; the test for twenty packets behind the one for five is never reached.
The lengths of packets are left out but for the reset of a recycled one.
`discards` says which of the two outputs it is, and `Discards` which of them an
instance considers.

### SocketGroup and SocketGroupManager

A polling thread is named after the socket whose addition started it. It takes a
round over the sockets (`Round`, `Check`), closes those that ended, and ends
the group when it is empty. `SocketGroupManager` is the accepting thread:
`Accept` chooses a group under the lock, `Add` joins it without. A group that
ended in between, or that gets a second poller, is recorded in `raced`. A pool
without a free thread throws, which ends the poller and closes the group.
A receiver resets `mDataLength` at the end of its `run()` (`Received`), and only
later has the pool its thread back (`Idle`); in between the socket is polled again,
and its next request, or another's, may find the pool without a thread.
`Talkers` are the sockets whose clients send requests.

### RtspSession

One connection. `handler` says where `onSocketStream` is; each call reads with a
reader of its own, and `Returned` drops what that reader has read ahead. The
request after a SETUP is read in the same call and handled only if it is a SETUP
or a PLAY. What a handler throws (`Threw`) closes the socket without an answer, as
ANNOUNCE without a length does; DESCRIBE first looks for its source, which may be a
pull (`Describe`), and then answers or, when the source is not one it can describe,
finishes silently (`Described`). A request without an answer goes into the history
`silent`. Whether a URL is taken, a source is found, or an SDP is accepted is a
free choice, which SourceRegistry and OutputList refine. `rtpTimer` holds the
delay the timer was posted with.

### IPlayer and Playback

The player is one record, and each method of the class an operator from a player
to the player it leaves: methods call each other as in the code, so an action is
one task of the browser with everything it calls. A method that meets
`SendThrows` returns what it had assigned by then, and its callers do the same.
`handled` is the set of sockets whose handlers are set; closing takes them off,
losing a socket does so after the events of the loss. `opening` and `loading` are
media sources and workers that were freed but may still tell something: nothing
ends a worker. A chunk in `buffer` is named after the socket it came by. `wanted`
is the history of the last call of `play`. The two releases differ in `reset`
(`meidaInited`), `notifyStatusBuffer` (status 0), `resume` and the arguments of
the retry, and nowhere else in what is modelled.

`Playback` is what the rest of a page sees of it: the phases, the changes a player
makes of its own accord (`Own`), those that end it (`Ended`) and those that only a
call of the page makes (`Started`). `ImplementsPlayback` maps a player to its
phase (`Phase`).

### Tabs

`TabClick` is `onTabClick`: it destroys the page that is left, which may throw and
end the click, then shows a body that was kept or asks for it. `Arrive` is the
answer of one request, in any order, or its failure. `Render` runs the script of a
page: `handlers` is set on the page of `Tab.current`, not of the tab the body is
for. The script of "home" is part of its page; those of the other two, and
`xplayer.js`, are files that are asked for at each show, and the page goes on without
those that do not come. `scriptless` records that the page on show came without its
own. `world` holds the objects of the scripts and all players ever made, each of
which moves as `Playback` allows (`PlayerMoves`). `astray` records that a body was
used for a tab that was no longer current, or came twice; what the properties say
then is nothing.

## 3. Runs

| run | instance | states | shows |
|---|---|---|---|
| `SourceRegistry` | two servers, two URLs of which one carries a token, two outside `finish()` per server; fair | 369 k | both tables agree, a finished server is listed nowhere, the directory is implemented (nothing is overwritten, what is gone stays away), a finish returns |
| `SourceRegistryKeeps` | the same with one outside `finish()` | violation | the refused server takes the first publisher off (section 6) |
| `OutputList` | three outputs of two types: an RTSP player that is reopened by `start()`, two websockets; fair | 47 k | nobody joins a finished source, no output misses a packet of its type, the last output finishes the source, outputs end |
| `MapKeyLock` | three pulls of one source; fair | 46 k | lists are walked by one call, who was not overtaken is remembered, every pull comes back unless its own remote server keeps it |
| `PacketQueue` | six packets, the plain and the discarding output; large at 1, limit 3, pool of 2; fair | 557 k | one owner, in order, each queued packet is taken |
| `SocketGroupManager` | three sockets, two with the same port, two that talk; one group with room for one, a cache of one; fair | 396 k | every socket is polled, lists have no doubles, one receiver per socket, no session is left behind, the pool suffices but for threads that are late, closing is announced |
| `RtspSession` | four requests of any kind; fair | 449 k | watched by a timer; a vanished client is noticed and a finished session comes to rest, but for a pull that does not return |
| `RtspSessionPublic` | the same | violation | a request is dropped (section 6) |
| `IPlayer` | one player of either release, two calls that open sockets, any number of pauses and stops, two faults, two chunks; fair | 238 k | the player is a `Playback`, has a socket or a retry, hears its own socket, asks for the right stream, forgets no chunk, recovers unless the server it reached stays silent |
| `IPlayerAppend`, `IPlayerOnline` | one call, one fault, one chunk | violation | see section 6 |
| `Tabs` | three tabs, four clicks; fair | 172 k | nothing plays on a page that was left, tabs answer but for a demo page without its script, the tab clicked last is shown |

Deadlock is not checked: in each instance the system may stop (all pulls have
returned, all packets are put, the client sends nothing more, the user clicks no
more), but in `IPlayer`, where a page may always pause.

### Why the bounds are enough

* Two servers are the smallest number that can collide, and a third would only
  repeat what one of them does; three pulls are one that connects, one that
  waits, and one that comes while the list is walked.
* `MaxKills` = 2 lets an outside `finish()` follow another one on the same server.
* Six packets fill the queue past its limit and the pool, and come after one that was
  recycled; the limits 1, 3 and 2 keep
  the order of the code's 5, 1000 and 20 (large < limit), which is all the
  guards compare. With the code's own numbers no run of feasible length would
  reach them.
* Three sockets are one that fills the group, one that finds it full or ending, and
  one that meets it again from the cache; two with the same port meet in one
  entry. `mSize` is the size of a group and of its pool, as in the code. Two
  talkers are the fewest that can ask for one thread of the pool too many.
* Four requests reach every role: ANNOUNCE, SETUP, RECORD and one more.
* Two calls of `play`, two faults and two chunks: a call while the socket of
  another connects, a retry that fails again, a worker or media source of an earlier
  socket that tells something in a later one, a chunk that waits for another. Pauses
  and stops are not bounded. A URL is told from another by the type of the request
  alone, which the code treats alike.
* Four clicks: to a page, to another before the first has come, back, and a
  button. One player per request that is answered is the most the scripts can make,
  but for the buttons, which are clicks.
* The proofs of section 5 cover all values of the constants for the safety
  properties they name; liveness and what section 5 lists rest on the bounds.

### Fairness

Weak fairness only, of threads that can always take their next step.

* SourceRegistry: the steps of a feeder that has published and of `finish()`.
  No stream has to end and no timer has to fire.
* OutputList: the thread of each output and the end of a `finish()` that began.
* MapKeyLock: the steps of a call but one; `Timeout` is part of them since
  `wait(20000)` returns. `Connect` is not: a pull opens its socket and reads it
  without a time limit (`RtspConnection.java:93`, `590`), so `EveryPullGoesOn` lets a
  pull stay in `connecting` for ever, and asserts that those who wait for it do not.
* PacketQueue: the writer, whose writes return. The feeder need not put anything.
* SocketGroupManager: the polling threads. Nothing is assumed of receivers, which
  read from clients.
* RtspSession: the receiver thread except where it waits for the client (`Read`,
  packets, and the handling of a request, whose content may be missing) or for another
  server, the two timers, and the end of a stream whose socket is closed. The
  search for a source may be a pull and need not end (`Described`, `Found`):
  `VanishedIsNoticed` and `ComesToRest` say what a thread may then be left in.
* IPlayer: an armed interval ticks; the browser ends each attempt to connect, with
  an open or a failure. A server that was reached need not send anything: its first
  message comes after a pull without a time limit (`WebSocketServer.java:126`), and the
  player has no timer for it. `Recovers` therefore admits a player that stays silent
  at an open socket (`Silent`), and nothing else.
  The page need not do anything, and faults are bounded.
* Tabs: the browser ends every request. Nothing is assumed of players.

## 4. What the properties are for

`PROJECT.json` names the line of each hazard and the properties that would catch
it going wrong. Two kinds of premise keep the properties to what the code
provides, and name what it does not:

* histories of a race: `raced` (MapKeyLock, SocketGroupManager), `overloaded`
  (PacketQueue), `collected` and `revived` (OutputList), `refused` (a chunk the
  source buffer did not take, IPlayer), `astray` and `failed` (Tabs). A property "unless
  raced" holds of everything the race did not touch, and shows that this race is
  the only one. `Served`, `OneStream` and `ImplementsDirectory` need no such premise.
* states in which nothing is promised: a session is unwatched before its first
  request, while it is published, and from the start of an output on
  (`Unwatched`); a player whose client vanished while nothing is written stays. A
  remote server without an answer keeps a pull, and with it the receiver thread of a
  session, for ever; a player at such a server waits for ever; and a demo page that is
  shown again without its script cannot be left (`TabsAnswer`).

## 5. Proofs

`tlapm` checks every theorem below for all values of the constants, from the
assumptions named in the modules (`TokenAssumption`, `OutputAssumption`,
`CallAssumption`, `QueueAssumption`, `SessionAssumption`, `PlayerAssumption`,
`TabsAssumption`, `GroupAssumption`, `ManagerAssumption`), which only say what the constants are; the one with content is
`Token[Token[k]] = Token[k]`.

Each proof module has one inductive invariant `IInv`, a lemma per action or group
of actions that it is preserved, a theorem or lemma `Invariance`, and the theorems that
follow from it.

| module | theorems | what the invariant adds, and why |
|---|---|---|
| `SourceRegistryProofs` | `Typing`, `ManagersAlwaysAgree`, `FinishedStaysUnlisted`, `Undisplaced`, `Refinement`, `NothingOutlivesTheFeeder` | `UrlKnown`, `ListedClaims`: a server is listed under its token only, and after it claimed it; `DestroyingIsFinishing`, `StoppedForGood`: after the last `stopInputStream` of a `destory()` the feeder is past the point where it could publish. Without them a finished server could be published by a feeder that had passed its test. `Attended`: entry, timer and flag of a server are there only while its feeder has a `stopInputStream()` to come |
| `OutputListProofs` | `Typing`, `NothingAfterFinish`, `Listing`, `TypedFollows`, `LastOneFinishes`, `WhoIsDroppedEnds` | `CachedWhenLive`, `TypedHasType`, `NotYetListed`, `NothingCleared`: what a cached list can hold in each state of its reference; `WatchersLeave`: who watches has not left; `DroppedIsClosed`: who runs unlisted was closed |
| `MapKeyLockProofs` | `Typing`, `EntriesLeave`, `ListsHaveOneRemover`, `WaitersRemembered`, `WakeUpsFindTheirPulls` | `WalkedIsOld`: a walked list belongs to a call that puts no other, so it cannot come back into the map; `CursorsInList`; `SameToken`, `OnOneList`: what is on a list was added once, and never moves |
| `PacketQueueProofs` | `Typing`, `Bounded`, `Ownership`, `Order`, `Unbroken` | `Allocation`, `Exist`: objects are numbered as they are made, so a new one is nowhere yet; `Hands`: the feeder holds an object only in the subclass, when the queue was large, and has an object of its own while it fills it; `Ready`: what it has copied there stays until it is queued; `Numbered`, `Begun`: packets are accepted in the order of their numbers, and what was written is a beginning of what was accepted |
| `SocketGroupManagerProofs` | `Typing`, `AllServed`, `InOnePlace`, `OneAtATime`, `NoSessionLost`, `PoolIsEnough`, `GroupsKeepTheirLimits` | `Tended`: a group that can be started is empty, any other has a poller that will see its next socket (this one holds of raced groups too); `Placed`: a quiet group has one poller, and is in the list while it has it; `Roomed`: the socket about to join still has its room and its port; `Received1`: an open socket with a receiver has a length, so it is passed over; `Present`: what a poller has yet to look at is in the map, so the socket it looks at is one without a receiver, and a thread is free for it unless one is late |
| `RtspSessionProofs` | `Typing`, `Watching`, `Answering`, `Reads`, `TimersTakeTurns`, `RestIsFinal` | `Requested`: a request is handled when there is one, and a source is looked for on behalf of a DESCRIBE; the four properties are inductive together; `OneTimer` is so on its own, and says of a finished session too whose timer is left |
| `IPlayerProofs` | `Typing`, `NeverStalled`, `PlaysOneStream`, `NothingWaits`, `AsksForTheRightStream`, `IsPlayback`, `StoppedStays`, `RetriesArePaidFor` | `Kept`: a player can be resumed only while it is supplied, and retries only while it is to play; `OneSocket`, `OneSource`: what is set belongs to the socket; `Passed`: a buffer that has taken a chunk is there; `Counted`: each socket is paid for by a call or by the failure before a retry, so there is always a name for the next one |
| `TabsProofs` | `Typing`, `NothingPlaysOn`, `TabsStayUsable` | `Left`: between two pages all players are stopped; `Came`, `Handled`: the page on show came, and its own script destroys it, now or from an earlier show; `Room`: a player is paid for by a click |

`Refinement` is the proof that the two tables of the code implement
`SourceDirectory`: `listed` is `mMapRtspSource`, `gone` is the set of servers whose
`finish()` returned; every step of the registry is `List`, `Unlist`, `Go` or a
stutter.

A player is a record of 24 fields, and its methods call each other. The proofs of
IPlayer therefore have a lemma per method that says which fields it may change
(`Keeps`) and what it leaves in them, and the lemmas about the actions use these
and not the methods.

`Order` and `Unbroken` of PacketQueue speak of three sequences at once. The packet
an object carries is looked up in `content`, so the proof first shows that a step
leaves the contents of all objects that are queued, in hand or being written as they
are: the feeder fills an object it took from the pool or made, which `OneOwner` keeps out
of the other places until it is queued. With that the line `written \o InHand \o Queued` changes in one of
four ways (`LineStep`): it grows at its end together with `accepted`, an object moves
from the queue to the hand of the writer, from there to the stream, or nothing
happens. `Unbroken` follows by what happens at the end of an output, when the queue
and the hand are emptied: what was written by then stays a beginning of what was
accepted, and as the numbers of packets only grow, none is written twice. Both hold
while the subclass has discarded nothing (`Undisturbed`), that is always in
`MediaOutputStreamRunnable1`; without this they are false, since a discarded object is
recycled while it is written, and filled again between the write and its end. Then a
packet can be lost, changed or written twice, and nothing is claimed.

`IsPlayback` is the refinement of `Playback`: `phase` is a function of five fields of
the player, `calls` is itself. Each method has a fact on the phase beside those on
its fields (`Stays`, `Started`, `Follows`), an action is shown to stutter, to move along
`Own` or `Ended` (`Turns`), or to start the player with a call (`Starts`). It needs one
more conjunct in the invariant than the safety properties do: a player that knows the
type of its stream (`meidaInited`) is not connecting, else the first message could come
while a page still waits for the connection. `StoppedStays` is read off the
refinement.

`NothingOutlivesTheFeeder`, `WhoIsDroppedEnds`, `TimersTakeTurns` and `RestIsFinal` are
the safety halves of the liveness properties `FinishReturns`, `OutputsEnd`,
`VanishedIsNoticed` and `ComesToRest`: whatever has to end has somebody who ends it, and
does not begin again. They, and `Unbroken`, `WakeUpsFindTheirPulls`,
`GroupsKeepTheirLimits`, `StoppedStays` and `RetriesArePaidFor`, state formulas of the
proof modules that no run lists; TLC found no state against any of them on the
instances of section 3 before they were proved.

Every safety invariant, action property and refinement of the passing runs is stated
by a theorem. Only model-checked are the liveness properties, since the prover handles
neither fairness nor `ENABLED`: `FinishReturns`, `OutputsEnd`, `EveryPullGoesOn`,
`EachIsTaken`, `ClosedIsAnnounced`, `VanishedIsNoticed`, `ComesToRest`, `Recovers` and
`TabIsShown`; and, being false, the four of section 6. Nothing is proved about groups
that were joined while they ended, beyond `Served`, the distinct ports and the types:
their number of sockets, for one, can exceed `mSize`.

## 6. Where the code differs from what it says

* **A refused server unlists the first publisher** (`FirstPublisherKeeps`, run
  `SourceRegistryKeeps`). Two clients pass ANNOUNCE for one URL; the second
  RECORD is refused by `managerRtspSource` ("source has in manager",
  `RtspMediaServerManager.java:162`). `mMediaSource` is already set, so the
  `finish()` of the catch block withdraws the URL (`RtspMediaServer.java:567`),
  which is the entry of the first. `NeverDisplaced` still holds: the entry is
  emptied, not overwritten.
* **A request after a SETUP is dropped** (`PublicIsAnswered`, run
  `RtspSessionPublic`). The answer to OPTIONS lists eight methods
  (`RtspMediaServer.java:305`); after a SETUP `onSocketStream` reads one more
  request with the same reader and handles it only if it is a SETUP or a PLAY.
  A publisher of a single track that sends RECORD next gets no answer, and its session
  goes on. (A session that ends without an answer is no part of this; `Answering` says
  which requests may be left without one, and how.)
* **A chunk that is refused is not told** (`AppendErrorIsTold`, run
  `IPlayerAppend`). The header of the player lists error 4, "视频数据append出错"
  (`public/main/player/xplayer.js:31`). `mp4appendBuffer` catches what `appendBuffer`
  throws and closes the socket with its handlers taken off (line 501): the page is
  told nothing, and no close event starts a retry. It is the one way in which a
  player that is to play has neither socket nor interval (`NeverStalls`).
* **A page that is shown again stays offline** (`ShownIsOnline`, run
  `IPlayerOnline`). "status 0:online,1:offline"
  (`server/src/main/resources/static/js/player/xplayer.js:556`), but
  `notifyStatusBuffer` stores a status only if it is truthy (line 540). The release
  in `public/main/player` is corrected.

Met while modelling, and recorded as histories rather than properties: OPTIONS
between ANNOUNCE and RECORD turns a publisher into a player; `removeNotify` can
throw a `ConcurrentModificationException` out of a `finally` block; a socket can
join a group that is ending; a discarded packet can be recycled while it is
written, and filled again before the writer clears it; a packet that does not fit
throws, and its object is lost to the pool; no pull and no
DESCRIBE has a time limit; a demo page whose script fails on a later show keeps
throwing when a tab is clicked; `isBufferLarge(20)` is never evaluated to true; the timer of which the
comment at `RtspMediaServer.java:486` says that it waits a minute for data is
replaced by one of half a minute before a packet is read (line 777); a page that
comes after a click on another tab is put in the place of the current one, and
its script destroys what it finds there (`astray`).

## 7. Not modelled

Text, wording and layout (SDP, HTTP, JSON, boxes of MP4), native code (codecs,
muxers), I/O helpers and the start-up of the web container have no order of
steps worth checking. UDP transport, the statistics (`mSourceCount`, traffic) and
observers are left out of the modules above. A `Vector` and an
`ArrayBlockingQueue` are taken to be atomic per call, as their documentation
promises; fields without `volatile` are read as if they were, that is, delays in
visibility are not modelled beyond the interleavings of the steps.

**The scripts.** Of some 23 000 lines of JavaScript in the repository, 14 000 are
Bootstrap, in two versions and a bundle, beside jQuery, Zepto and a compiled
decoder. Most of the rest is the same again: five copies of `xplayer.js`, of which
three differ from the newest, five of `webgl.js`, `decoder.js` and `pcm-player.js`
each, three of `page.js`, `http.js` and `base.js`. A definition is mapped to the
one copy it was translated from, so the share of all lines that the map covers
stays small whatever is modelled; of the 460 lines of the newest `IPlayer` that act
on its state nearly all are. What is left of the scripts of this
repository draws (`webgl.js`), is loaded by no page (`pcm-player.js`, the two
`ganplayer.js`), or keeps no state beyond a call (`http.js`, `user.js`, `file.js`,
`view.js`, `base.js`); of the player, full screen, mute, screen shots, sizes, the
look of `XPlayer`, and `seek`, which nobody calls.

**Known hazards in what is not modelled**, for who goes on:

* server: `addSession` stores two entries one after the other and
  `removeSession` takes them in the other order (`RtspMediaServerManager.java:125`);
  a file source tests `isFinishing` outside the lock of its list
  (`MediaSourceAbstract.java:92`); no timer runs before the first request
  (`RtspMediaServer.java:142`); a key frame that is dropped leaves frames that need
  it in the queue, and the audio time may be negative
  (`MediaOutputStreamRunnableFrame.java:98`, `162`); the heartbeat posts itself again
  while `close()` removes it (`RtspConnection.java:275`); `AndroidEventManager` adds
  listeners to events that were told already; lengths and fragments of RTP packets
  are trusted.
* player: the last chunk before `sourceopen` waits for the next message; an
  error followed by a pause and a resume is not retried; `webgl.js` is waited for by
  one event only; a worker drops what comes before its module is loaded;
  listeners for the visibility of the page are never removed; `XPlayer` toggles its
  button though `pause` threw; `public/main/js/player/xplayer.js` takes the
  arguments of `play` in another order than `replay` passes them.
* pages: the pool of requests of `http.js` looks at `mObjPool.readyState`, not at
  that of a request; two quick clicks on a button, or a page that went astray, leave
  players nobody can reach, which is what `astray` stands for.

## 8. Plan

Done in this order: SourceRegistry, OutputList, MapKeyLock, PacketQueue,
SocketGroup with SocketGroupManager, RtspSession, IPlayer with Playback, Tabs, and
their proofs. Next, by the weight of what can go wrong:

1. **PullClient** (`RtspPullServer` 16–72, `RtspConnection` 104–126, 268–291):
   connect, play, heartbeat and the retry on the main looper. A puller that is
   destroyed stops; one that loses its source tries again. Composed with the
   timers of RtspSession's looper.
2. **FrameQueue** (`MediaOutputStreamRunnableFrame` 86–204, 259–294): frames by
   kind (key, dependent, audio), the thinning and the sample times. Properties:
   what is written is decodable; sample times do not run back. Times and the
   thinning are functions on sequences, to be compared with a reference
   definition over bounded inputs.
3. **SourceChoice** (`MediaServerManager` 57–141, `RtspMediaServerManager`
   103–151, 213–296): adapters, files, published and pulled sources and the two
   tables of sessions, as a client of SourceRegistry and MapKeyLock. The
   documented meaning of `type` at `MediaServerManager.java:57` is to be
   compared with what line 116 does.
4. **WebSocketOutput** (`WebSocketServer` 183–224): the server's end of the web
   player, composed with IPlayer by what it is asked and told.
5. **FileSource**: `MediaSourceAbstract` 91–110 as a second OutputList whose
   test is outside the monitor; `EmptyAfterFinish` is expected to fail where
   OutputList's holds.
6. **EventManager** (`AndroidEventManager` 126–221, 478–511): an event runs once
   per code, every listener is told once, whenever it was added.
7. **Parsers** as pure operators: RTP over TCP and PS framing give the same
   packets however the bytes are cut; depacketising a fragmented unit with a
   loss gives no unit. Reference definitions over bounded inputs.
8. **MessageQueue** (`MessageQueue` 121–180, 302–354) and **FileLogger**.
9. Proofs: what holds of the RTSP subclass after it has discarded packets, and
   of a page that went astray (`Tabs`); an abstract queue with a bound, implemented by
   PacketQueue, of which `Order` and `Unbroken` are the lemmas.
