----------------------------- MODULE RtspSession ----------------------------
(* One RTSP connection to the server: RtspMediaServer.onSocketStream and   *)
(* the handlers of the requests, with the two timers of the main looper    *)
(* that end a session.  The receiver thread of the socket calls            *)
(* onSocketStream when there is input, one call at a time; a call reads    *)
(* with a reader of its own, which is dropped with what it has read ahead. *)
(*                                                                         *)
(* What other sessions do (which URLs are published or taken, when the     *)
(* source of an output ends) is a free choice here; SourceRegistry and     *)
(* OutputList model it.  So is a pull from a remote server, which DESCRIBE *)
(* and the start of an output may wait for and which need never return.    *)
EXTENDS Integers, Sequences

CONSTANTS
    MaxRequests,  \* bound: requests the client sends
    mStartTimeOut, mRtpTimeOut \* milliseconds, 60000 and 30000

ASSUME SessionAssumption ==
    /\ MaxRequests \in Nat
    /\ mStartTimeOut \in Nat \ {0} /\ mRtpTimeOut \in Nat \ {0}

Methods == {"ANNOUNCE", "SETUP", "PLAY", "OPTIONS", "DESCRIBE", "TEARDOWN", "PAUSE", "RECORD", "OTHER"}

VARIABLES
    pipe,        \* requests on their way to the server
    ahead,       \* requests the reader of this call has read ahead
    sent,
    vanished,    \* the client is gone, which no close tells
    handler,     \* where onSocketStream is
    request,     \* the request that is handled
    second,      \* the request came in the same call, after a SETUP
    open,        \* the socket, which finish() closes
    mIsSource,
    mRtspUrl,    \* there is a URL
    mInputStreaming, mOutputStreaming,
    rtspTimer,   \* mRtspSessionTimeOut is posted
    rtpTimer,    \* mRtpSessionTimeOut: delay it is posted with, or 0
    begun,       \* history: onSocketStream was called
    silent       \* history: requests left without an answer, whether after a
                 \* SETUP, and whether the session goes on

vars == <<pipe, ahead, sent, vanished, handler, request, second, open, mIsSource, mRtspUrl,
          mInputStreaming, mOutputStreaming, rtspTimer, rtpTimer, begun, silent>>
client == <<sent, vanished>>
stream == <<pipe, ahead>>
fields == <<mIsSource, mRtspUrl>>
streaming == <<mInputStreaming, mOutputStreaming>>
timers == <<rtspTimer, rtpTimer>>
history == <<begun, silent>>

Reading == {"started", "second"}
Inputting == {"starting", "checked", "input"}
Unwatched == {"managing", "looking", "output"}
Handlers == {"idle", "called", "handling", "describing", "startInput", "startOutput"} \cup Reading \cup Inputting \cup Unwatched

TypeOK ==
    /\ pipe \in Seq(Methods) /\ ahead \in Seq(Methods)
    /\ sent \in 0 .. MaxRequests
    /\ handler \in Handlers
    /\ request \in Methods \cup {"none"}
    /\ vanished \in BOOLEAN /\ second \in BOOLEAN /\ open \in BOOLEAN
    /\ mIsSource \in BOOLEAN /\ mRtspUrl \in BOOLEAN
    /\ mInputStreaming \in BOOLEAN /\ mOutputStreaming \in BOOLEAN
    /\ rtspTimer \in BOOLEAN /\ begun \in BOOLEAN
    /\ rtpTimer \in {0, mStartTimeOut, mRtpTimeOut}
    /\ silent \subseteq Methods \X BOOLEAN \X BOOLEAN

Init ==
    /\ pipe = <<>> /\ ahead = <<>>
    /\ sent = 0 /\ vanished = FALSE
    /\ handler = "idle" /\ request = "none" /\ second = FALSE
    /\ open = TRUE
    /\ mIsSource = FALSE /\ mRtspUrl = FALSE
    /\ mInputStreaming = FALSE /\ mOutputStreaming = FALSE
    /\ rtspTimer = FALSE /\ rtpTimer = 0
    /\ begun = FALSE
    /\ silent = {}

-----------------------------------------------------------------------------
(* The client sends a request, or disappears. *)
Send(m) ==
    /\ ~vanished /\ open /\ sent < MaxRequests
    /\ pipe' = Append(pipe, m)
    /\ sent' = sent + 1
    /\ UNCHANGED <<ahead, vanished, handler, request, second, open, fields, streaming, timers, history>>

Vanish ==
    /\ ~vanished /\ vanished' = TRUE
    /\ UNCHANGED <<stream, sent, handler, request, second, open, fields, streaming, timers, history>>

-----------------------------------------------------------------------------
HandlerGoes(from, to) == handler = from /\ handler' = to

(* finish(): the socket is closed, the input stopped, both timers are      *)
(* removed.                                                                *)
Finished ==
    /\ open' = FALSE
    /\ mInputStreaming' = FALSE
    /\ rtspTimer' = FALSE /\ rtpTimer' = 0

Going == UNCHANGED <<open, mInputStreaming, timers>>

(* What onSocketStream throws closes the socket, and nothing else: the     *)
(* group, or a timer, finishes the session later.                          *)
Threw == open' = FALSE /\ UNCHANGED <<mInputStreaming, timers>>

(* The call returns; what its reader has read ahead is gone. *)
Returned ==
    /\ handler' = "idle" /\ request' = "none" /\ second' = FALSE
    /\ ahead' = <<>>

(* The poller sees input of an open socket; the receiver calls             *)
(* onSocketStream, when the socket need not be open any more.              *)
Call ==
    /\ HandlerGoes("idle", "called")
    /\ open /\ pipe # <<>>
    /\ UNCHANGED <<client, stream, request, second, open, fields, streaming, timers, history>>

(* Mutant: each request removes the timer and the first alone posts it.    *)
Begin_Once ==
    /\ HandlerGoes("called", "started")
    /\ rtspTimer' = ~begun /\ begun' = TRUE
    /\ UNCHANGED <<client, stream, request, second, open, fields, streaming, rtpTimer, silent>>

(* rtspSession(): the session timer starts anew.  The branch of a session  *)
(* that streams its input is never taken, see RequestsAreRead.             *)
Begin ==
    /\ HandlerGoes("called", "started")
    /\ rtspTimer' = TRUE /\ begun' = TRUE
    /\ UNCHANGED <<client, stream, request, second, open, fields, streaming, rtpTimer, silent>>

(* parseRequest(): the next request the reader has, else what the socket   *)
(* has, of which the reader may take more than the request.                *)
Read ==
    /\ open /\ handler \in Reading
    /\ \/ /\ ahead # <<>>
          /\ request' = Head(ahead) /\ ahead' = Tail(ahead)
          /\ UNCHANGED pipe
       \/ /\ ahead = <<>> /\ pipe # <<>>
          /\ request' = Head(pipe)
          /\ \E n \in 1 .. Len(pipe) :
                ahead' = SubSeq(pipe, 2, n) /\ pipe' = SubSeq(pipe, n + 1, Len(pipe))
    /\ second' = (handler = "second")
    /\ handler' = "handling"
    /\ UNCHANGED <<client, open, fields, streaming, timers, history>>

(* Mutant: a read is not woken by the close of the socket on this side.   *)
Broken_Vanished ==
    /\ handler \in Reading \cup {"handling"}
    /\ vanished /\ handler \in Reading /\ pipe = <<>> /\ ahead = <<>>
    /\ open' \in {open, FALSE} /\ Returned
    /\ UNCHANGED <<client, pipe, fields, streaming, timers, begun, silent>>

(* The socket is closed on this side, which throws wherever the handler    *)
(* reads or answers, or the client has closed it, which ends the stream,   *)
(* or broken it off, which throws.                                         *)
Broken ==
    /\ handler \in Reading \cup {"handling"}
    /\ \/ ~open
       \/ vanished /\ handler \in Reading /\ pipe = <<>> /\ ahead = <<>>
    /\ open' \in {open, FALSE} /\ Returned
    /\ UNCHANGED <<client, pipe, fields, streaming, timers, begun, silent>>

-----------------------------------------------------------------------------
(* A handled request. *)
Handles(m) == handler = "handling" /\ open /\ request = m
HandlerOnly == UNCHANGED <<client, pipe, mOutputStreaming, begun>>
Answered == UNCHANGED silent
Unanswered == silent' = silent \cup {<<request, second, open'>>}

(* onHanldeRequestANNOUNCE: the URL is kept; a URL that does not parse     *)
(* keeps the one before; a URL that is published already ends the session. *)
(* A missing Content-Length, or content that is none, throws.              *)
Announce ==
    /\ Handles("ANNOUNCE") /\ ~second
    /\ mIsSource' = TRUE
    /\ mRtspUrl' \in {mRtspUrl, TRUE}
    /\ \/ mRtspUrl' /\ Going /\ Answered
       \/ Finished /\ Answered
       \/ Threw /\ Unanswered
    /\ Returned /\ HandlerOnly

(* onHanldeRequestSETUP; after the first of a call the next request is read*)
(* with the same reader.                                                   *)
Setup ==
    /\ Handles("SETUP")
    /\ \/ ~mRtspUrl /\ Finished /\ Returned
       \/ mRtspUrl /\ second /\ Going /\ Returned
       \/ mRtspUrl /\ ~second /\ Going /\ handler' = "second" /\ UNCHANGED <<ahead, request, second>>
    /\ Answered /\ HandlerOnly /\ UNCHANGED fields

(* onHanldeRequestPLAY, RECORD: one of them after the other means nothing; *)
(* the role of the session decides.                                        *)
Play ==
    /\ Handles("PLAY") \/ (Handles("RECORD") /\ ~second)
    /\ \/ ~mRtspUrl /\ Finished /\ Returned
       \/ mRtspUrl /\ Going /\ handler' = (IF mIsSource THEN "startInput" ELSE "startOutput")
          /\ UNCHANGED <<ahead, request, second>>
    /\ Answered /\ HandlerOnly /\ UNCHANGED fields

Options ==
    /\ Handles("OPTIONS") /\ ~second
    /\ mIsSource' = FALSE
    /\ Going /\ Answered /\ Returned /\ HandlerOnly /\ UNCHANGED mRtspUrl

(* onHanldeRequestDESCRIBE: the URL is kept and its source looked for,     *)
(* which may pull it from another server.                                  *)
Describe ==
    /\ Handles("DESCRIBE") /\ ~second
    /\ mRtspUrl' \in {mRtspUrl, TRUE}
    /\ \/ ~mRtspUrl' /\ Finished /\ Returned
       \/ mRtspUrl' /\ Going /\ handler' = "describing" /\ UNCHANGED <<ahead, request, second>>
    /\ Answered /\ HandlerOnly /\ UNCHANGED mIsSource

(* The source is answered with.  None is found, which is answered and ends *)
(* the session; one that is no RTSP source ends it without an answer; and  *)
(* one without a description, or a socket closed meanwhile, throws.        *)
Described ==
    /\ handler = "describing"
    /\ \/ open /\ Going /\ Answered
       \/ open /\ Finished /\ Answered
       \/ Finished /\ Unanswered
       \/ Threw /\ Unanswered
    /\ Returned /\ HandlerOnly /\ UNCHANGED fields

Teardown ==
    /\ Handles("TEARDOWN") /\ ~second
    /\ Finished /\ Answered /\ Returned /\ HandlerOnly /\ UNCHANGED fields

(* PAUSE does nothing, nor does a method that is none of these, nor what   *)
(* follows a SETUP in its call and is neither SETUP nor PLAY.              *)
Ignored ==
    \/ Handles("PAUSE") \/ Handles("OTHER")
    \/ second /\ handler = "handling" /\ open /\ request \notin {"SETUP", "PLAY"}

Ignore ==
    /\ Ignored
    /\ Going /\ Unanswered /\ Returned /\ HandlerOnly /\ UNCHANGED fields

-----------------------------------------------------------------------------
(* startInputStream(rtsp,sdp,is): a URL that is published ends the session,*)
(* as does a finish() or another publisher that comes before.              *)
Refuse ==
    /\ handler \in {"startInput", "managing"}
    /\ Finished /\ Returned
    /\ HandlerOnly /\ UNCHANGED <<fields, silent>>

StartInput ==
    /\ HandlerGoes("startInput", "managing")
    /\ open
    /\ rtspTimer' = FALSE
    /\ HandlerOnly /\ UNCHANGED <<ahead, request, second, open, mInputStreaming, rtpTimer, fields, silent>>

(* Mutant: the wait for the first packet is not timed. *)
Managed_Untimed ==
    /\ HandlerGoes("managing", "starting")
    /\ mInputStreaming' = TRUE
    /\ HandlerOnly /\ UNCHANGED <<ahead, request, second, open, timers, fields, silent>>

(* The session is published and the first packet timed, even when a        *)
(* finish() came meanwhile.                                                *)
Managed ==
    /\ HandlerGoes("managing", "starting")
    /\ mInputStreaming' = TRUE
    /\ rtpTimer' = mStartTimeOut
    /\ HandlerOnly /\ UNCHANGED <<ahead, request, second, open, rtspTimer, fields, silent>>

(* inputStream(is), which does nothing for a session that is finishing. *)
InputStream ==
    /\ HandlerGoes("starting", "checked")
    /\ open
    /\ HandlerOnly /\ UNCHANGED <<ahead, request, second, open, mInputStreaming, timers, fields, silent>>

(* Mutant: a delay in seconds. *)
RtpSession_Seconds ==
    /\ HandlerGoes("checked", "input")
    /\ rtpTimer' = mRtpTimeOut \div 1000
    /\ HandlerOnly /\ UNCHANGED <<ahead, request, second, open, mInputStreaming, rtspTimer, fields, silent>>

(* rtpSessionTimeOut(): the timer is posted anew, before any packet and    *)
(* also when a finish() came between.                                      *)
RtpSession ==
    /\ HandlerGoes("checked", "input")
    /\ rtpTimer' = mRtpTimeOut
    /\ HandlerOnly /\ UNCHANGED <<ahead, request, second, open, mInputStreaming, rtspTimer, fields, silent>>

(* onTcpPacket, or onFrame of a program stream: a packet of the client,    *)
(* perhaps the last before a finish() is noticed.                          *)
Packet ==
    /\ handler = "input" /\ ~vanished
    /\ rtpTimer' = mRtpTimeOut
    /\ UNCHANGED <<client, stream, handler, request, second, open, fields, streaming, rtspTimer, begun, silent>>

(* The stream ends or was closed: stopInputStream() and finish().          *)
InputEnds ==
    /\ handler \in {"starting", "input"}
    /\ Finished /\ Returned
    /\ HandlerOnly /\ UNCHANGED <<fields, silent>>

(* startOutputStream: nothing times an output, nor the search for its      *)
(* source, which may pull it from another server.                          *)
StartOutput ==
    /\ HandlerGoes("startOutput", "looking")
    /\ rtspTimer' = FALSE
    /\ UNCHANGED <<client, stream, request, second, open, streaming, rtpTimer, fields, history>>

(* None is found, or the search throws. *)
NoSource ==
    /\ handler = "looking"
    /\ Finished \/ Threw
    /\ Returned
    /\ HandlerOnly /\ UNCHANGED <<fields, silent>>

Output ==
    /\ HandlerGoes("looking", "output")
    /\ mOutputStreaming' = TRUE
    /\ UNCHANGED <<client, stream, request, second, open, mInputStreaming, timers, fields, history>>

(* The source ended or writing failed. *)
OutputEnds ==
    /\ handler = "output"
    /\ mOutputStreaming' = FALSE
    /\ Finished /\ Returned
    /\ UNCHANGED <<client, pipe, fields, begun, silent>>

-----------------------------------------------------------------------------
Elsewhere == UNCHANGED <<client, stream, handler, request, second, fields, mOutputStreaming, history>>

(* The timers of the main looper; they fire also for a finished session.   *)
RtspTimeOut == rtspTimer /\ Finished /\ Elsewhere
RtpTimeOut == rtpTimer # 0 /\ Finished /\ Elsewhere

(* finish() by the socket group, for a socket that is closed too, or by    *)
(* the last output.                                                        *)
Finish == Finished /\ Elsewhere

Handle == Announce \/ Setup \/ Play \/ Options \/ Describe \/ Teardown \/ Ignore
Starts == Refuse \/ StartInput \/ Managed \/ InputStream \/ RtpSession \/ StartOutput
Found == NoSource \/ Output
Stream == Starts \/ Found \/ InputEnds

Receiver == Call \/ Begin \/ Read \/ Broken \/ Handle \/ Described \/ Stream
Client == Vanish \/ Packet \/ \E m \in Methods : Send(m)

Next == Receiver \/ OutputEnds \/ Client \/ RtspTimeOut \/ RtpTimeOut \/ Finish

Spec == Init /\ [][Next]_vars

(* The receiver runs unless it waits for the client, timers fire, and an   *)
(* output of a closed socket fails.  Nothing is assumed of a request that  *)
(* is handled, whose content may be missing, nor of a search for a source: *)
(* a pull has no time limit (RtspConnection:93, 590-613).                  *)
FairSpec ==
    /\ Spec
    /\ WF_vars(Call) /\ WF_vars(Begin) /\ WF_vars(Broken) /\ WF_vars(Starts)
    /\ WF_vars(~open /\ InputEnds) /\ WF_vars(~open /\ OutputEnds)
    /\ WF_vars(RtspTimeOut) /\ WF_vars(RtpTimeOut)

-----------------------------------------------------------------------------
(* A session that has begun is watched by a timer until it finishes,       *)
(* whatever it was asked in which order, except while it is published and  *)
(* from the start of an output on (RtspMediaServer:74-98, 448-486, 583).   *)
Watched ==
    begun /\ open => rtspTimer \/ rtpTimer # 0 \/ handler \in Unwatched

(* A request that a session goes on after without an answer is a PAUSE, a *)
(* method that is none of the server's, or follows a SETUP in its call;    *)
(* and a session that ends without an answer was asked to ANNOUNCE or to   *)
(* DESCRIBE (RtspMediaServer:138-201, 372-374).                            *)
OnlyTheseSilent ==
    \A r \in silent : IF r[3] THEN r[1] \in {"PAUSE", "OTHER"} \/ r[2]
                               ELSE r[1] \in {"ANNOUNCE", "DESCRIBE"} /\ ~r[2]

(* The flag that makes onSocketStream read packets instead of requests is  *)
(* set only while the receiver thread is in the stream, however a finish() *)
(* by another thread and its own ending meet (RtspMediaServer:139, 413,    *)
(* 487, 555).                                                              *)
RequestsAreRead == mInputStreaming => handler \in Inputting

(* A client that vanishes is noticed, unless it was watching a stream or   *)
(* its stream is looked for without an end, which no timer watches.        *)
VanishedIsNoticed ==
    vanished /\ begun ~> ~open \/ handler = "output" \/ [](handler = "looking")

(* A finished session comes to rest: no timer is left and its thread has   *)
(* returned, unless another server keeps it in a pull for ever.            *)
ComesToRest ==
    ~open ~> /\ ~rtspTimer /\ rtpTimer = 0
             /\ handler = "idle" \/ [](handler = "describing") \/ [](handler = "looking")

(* What the answer to OPTIONS lists as Public (RtspMediaServer:305): the   *)
(* requests the server takes, each of which a session that goes on has     *)
(* answered; PAUSE aside, whose handler is empty.                          *)
PublicIsAnswered == \A r \in silent : r[3] => r[1] \in {"PAUSE", "OTHER"}

=============================================================================
