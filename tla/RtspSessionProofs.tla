------------------------- MODULE RtspSessionProofs --------------------------
(* Proofs about one session, for any number of requests and any delays of  *)
(* the timers.                                                             *)
EXTENDS RtspSession, TLAPS

(* A request is handled when there is one, and a source looked for only    *)
(* for a DESCRIBE that came first in its call.                             *)
Requested ==
    /\ handler = "handling" => request # "none"
    /\ handler = "describing" => request = "DESCRIBE" /\ ~second

IInv ==
    /\ TypeOK
    /\ Requested
    /\ Watched
    /\ OnlyTheseSilent
    /\ RequestsAreRead

-----------------------------------------------------------------------------
(* An empty stream of requests has the type of a stream. *)
LEMMA Empty == <<>> \in Seq(Methods)
OBVIOUS

(* Only Read sets out to handle a request, and Describe to look for a      *)
(* source.                                                                 *)
LEMMA RequestedKept ==
    ASSUME IInv, handler' \notin {"handling", "describing"} \/ UNCHANGED <<handler, request, second>>
    PROVE  Requested'
BY DEF IInv, Requested

(* A finished session meets the invariant whatever its thread does, as     *)
(* long as the requests without an answer are the ones before.             *)
LEMMA FinishedKeeps ==
    ASSUME IInv, Finished, UNCHANGED silent
    PROVE  Watched' /\ OnlyTheseSilent' /\ RequestsAreRead'
BY DEF IInv, Finished, Watched, OnlyTheseSilent, RequestsAreRead

(* A request that is handled without an end of the session: its call goes  *)
(* on, returns or starts a stream, and the timers stay; also when the      *)
(* socket is closed.                                                       *)
LEMMA GoingKeeps ==
    ASSUME IInv, Going \/ Threw, UNCHANGED begun, handler \in {"handling", "describing"}
    PROVE  Watched' /\ RequestsAreRead'
BY DEF IInv, Going, Threw, Watched, RequestsAreRead, Unwatched, Inputting, timers

-----------------------------------------------------------------------------
(* The client and the timers. *)
LEMMA ClientKeeps ==
    ASSUME SessionAssumption, IInv, Client
    PROVE  IInv'
<1> USE DEF IInv, Client, client, stream, fields, streaming, timers, history
<1>1. ASSUME NEW m \in Methods, Send(m) PROVE IInv'
  <2>1. TypeOK'
    <3>1. pipe' \in Seq(Methods) /\ sent' \in 0 .. MaxRequests
        BY <1>1, SessionAssumption DEF Send, TypeOK, SessionAssumption
    <3> QED BY <1>1, <3>1 DEF Send, TypeOK
  <2> QED BY <1>1, <2>1 DEF Send, Watched, OnlyTheseSilent, RequestsAreRead, Requested
<1>2. CASE Vanish
    BY <1>2 DEF Vanish, TypeOK, Watched, OnlyTheseSilent, RequestsAreRead, Requested
<1>3. CASE Packet
  <2>1. rtpTimer' # 0
      BY <1>3, SessionAssumption DEF Packet, SessionAssumption
  <2> QED BY <1>3, <2>1 DEF Packet, TypeOK, Watched, OnlyTheseSilent, RequestsAreRead, Requested
<1> QED BY <1>1, <1>2, <1>3

(* The end of a stream, the timers and a finish() from outside keep the     *)
(* invariant.                                                              *)
LEMMA EndsKeep ==
    ASSUME SessionAssumption, IInv, OutputEnds \/ RtspTimeOut \/ RtpTimeOut \/ Finish
    PROVE  IInv'
<1> USE DEF OutputEnds, RtspTimeOut, RtpTimeOut, Finish, Elsewhere, client, stream, fields, history
<1>1. Finished /\ UNCHANGED silent
    OBVIOUS
<1>2. Watched' /\ OnlyTheseSilent' /\ RequestsAreRead'
    BY <1>1, FinishedKeeps
<1>3. TypeOK'
  <2> USE DEF IInv, TypeOK, Finished
  <2>1. CASE OutputEnds
      BY <2>1, Empty DEF Returned, Handlers
  <2>2. CASE UNCHANGED <<client, stream, handler, request, second, fields, mOutputStreaming, history>>
      BY <2>2, <1>1
  <2> QED BY <2>1, <2>2
<1>4. Requested'
    BY RequestedKept DEF Returned
<1> QED BY <1>2, <1>3, <1>4 DEF IInv

-----------------------------------------------------------------------------
(* The receiver thread up to a handled request. *)
LEMMA ReadingKeeps ==
    ASSUME SessionAssumption, IInv, Call \/ Begin \/ Read \/ Broken
    PROVE  IInv'
<1> USE DEF IInv, HandlerGoes, client, stream, fields, streaming, timers, history
<1>1. CASE Call
    BY <1>1 DEF Call, TypeOK, Handlers, Watched, OnlyTheseSilent, RequestsAreRead, Inputting, Unwatched, Requested
<1>2. CASE Begin
    BY <1>2 DEF Begin, TypeOK, Handlers, Reading, Watched, OnlyTheseSilent, RequestsAreRead, Inputting, Requested
<1>3. CASE Read
  <2>1. /\ request' \in Methods
        /\ pipe' \in Seq(Methods) /\ ahead' \in Seq(Methods)
    <3>1. CASE ahead # <<>>
      <4>1. ahead \in Seq(Methods) /\ request' = Head(ahead) /\ ahead' = Tail(ahead) /\ pipe' = pipe
          BY <1>3, <3>1 DEF Read, TypeOK
      <4> QED BY <3>1, <4>1 DEF TypeOK
    <3>2. CASE ahead = <<>>
      <4>1. PICK n \in 1 .. Len(pipe) : ahead' = SubSeq(pipe, 2, n) /\ pipe' = SubSeq(pipe, n + 1, Len(pipe))
          BY <1>3, <3>2 DEF Read
      <4>2. pipe \in Seq(Methods) /\ pipe # <<>> /\ request' = Head(pipe)
          BY <1>3, <3>2 DEF Read, TypeOK
      <4>3. request' \in Methods
          BY <4>2
      <4>4. \A i \in 1 .. Len(pipe) : pipe[i] \in Methods
          BY <4>2
      <4>5. SubSeq(pipe, 2, n) \in Seq(Methods)
          BY <4>2, <4>4
      <4>6. SubSeq(pipe, n + 1, Len(pipe)) \in Seq(Methods)
          BY <4>2, <4>4
      <4> QED BY <4>1, <4>3, <4>5, <4>6
    <3> QED BY <3>1, <3>2
  <2>2. TypeOK'
      BY <1>3, <2>1 DEF Read, TypeOK, Handlers
  <2>3. Requested'
      BY <1>3, <2>1 DEF Read, Methods, Requested
  <2> QED BY <1>3, <2>2, <2>3 DEF Read, Reading, Watched, OnlyTheseSilent, RequestsAreRead, Inputting, Unwatched
<1>4. CASE Broken
  <2>1. TypeOK'
      BY <1>4, Empty DEF Broken, Returned, TypeOK, Handlers
  <2>2. open' => open
      BY <1>4 DEF Broken, TypeOK
  <2>3. handler \notin Unwatched \cup Inputting
      BY <1>4 DEF Broken, Reading, Unwatched, Inputting
  <2>4. OnlyTheseSilent' /\ Watched' /\ RequestsAreRead' /\ Requested'
      BY <1>4, <2>2, <2>3 DEF Broken, Returned, Watched, OnlyTheseSilent, RequestsAreRead, Requested
  <2> QED BY <2>1, <2>4
<1> QED BY <1>1, <1>2, <1>3, <1>4

(* What OnlyTheseSilent says of one request. *)
Allowed(q) ==
    IF q[3] THEN q[1] \in {"PAUSE", "OTHER"} \/ q[2]
            ELSE q[1] \in {"ANNOUNCE", "DESCRIBE"} /\ ~q[2]

(* A request goes without an answer in a session that goes on if it is     *)
(* ignored; an ANNOUNCE that throws and a DESCRIBE end the session.        *)
LEMMA SilentKept ==
    ASSUME IInv,
           \/ UNCHANGED silent
           \/ Unanswered /\ Ignored
           \/ Unanswered /\ ~second /\ request \in {"ANNOUNCE", "DESCRIBE"} /\ open' = FALSE,
           Ignored => open' = TRUE
    PROVE  OnlyTheseSilent'
<1>1. CASE UNCHANGED silent
    BY <1>1 DEF IInv, OnlyTheseSilent
<1>2. CASE Unanswered /\ Ignored
  <2>1. request \in {"PAUSE", "OTHER"} \/ second
      BY <1>2 DEF Ignored, Handles
  <2>2. silent' = silent \cup {<<request, second, TRUE>>}
      BY <1>2 DEF Unanswered
  <2>3. \A q \in silent : Allowed(q)
      BY DEF IInv, OnlyTheseSilent, Allowed
  <2>4. Allowed(<<request, second, TRUE>>)
      BY <2>1 DEF Allowed
  <2>5. \A q \in silent' : Allowed(q)
      BY <2>2, <2>3, <2>4, Zenon
  <2> QED BY <2>5 DEF OnlyTheseSilent, Allowed
<1>3. CASE Unanswered /\ ~second /\ request \in {"ANNOUNCE", "DESCRIBE"} /\ open' = FALSE
  <2>1. silent' = silent \cup {<<request, second, FALSE>>}
      BY <1>3 DEF Unanswered
  <2>3. \A q \in silent : Allowed(q)
      BY DEF IInv, OnlyTheseSilent, Allowed
  <2>4. Allowed(<<request, second, FALSE>>)
      BY <1>3 DEF Allowed
  <2>5. \A q \in silent' : Allowed(q)
      BY <2>1, <2>3, <2>4, Zenon
  <2> QED BY <2>5 DEF OnlyTheseSilent, Allowed
<1> QED BY <1>1, <1>2, <1>3

(* A handled request ends the session, or leaves its timers alone. *)
LEMMA HandleKeeps ==
    ASSUME SessionAssumption, IInv, Handle \/ Described
    PROVE  IInv'
<1> USE DEF Handle
<1>1. TypeOK'
  <2> USE Empty DEF IInv, TypeOK, Handlers, Handles, HandlerOnly, Answered, Returned, Going, Threw, Finished,
                    client, fields, timers
  <2>1. CASE Announce
    <3>1. mRtspUrl' \in BOOLEAN /\ mIsSource' \in BOOLEAN /\ open' \in BOOLEAN /\ request = "ANNOUNCE"
        BY <2>1 DEF Announce
    <3>2. silent' \subseteq Methods \X BOOLEAN \X BOOLEAN
      <4>1. <<request, second, open'>> \in Methods \X BOOLEAN \X BOOLEAN
          BY <3>1 DEF Methods
      <4>2. UNCHANGED silent \/ Unanswered
          BY <2>1 DEF Announce
      <4> QED BY <4>1, <4>2 DEF Unanswered
    <3> QED BY <2>1, <3>1, <3>2 DEF Announce
  <2>2. CASE Setup
      BY <2>2 DEF Setup, Reading
  <2>3. CASE Play
      BY <2>3 DEF Play
  <2>4. CASE Options
      BY <2>4 DEF Options
  <2>5. CASE Describe
    <3>1. mRtspUrl' \in BOOLEAN
        BY <2>5 DEF Describe
    <3> QED BY <2>5, <3>1 DEF Describe
  <2>6. CASE Teardown
      BY <2>6 DEF Teardown
  <2>7. CASE Ignore
    <3>1. request \in Methods
        BY <2>7 DEF Ignore, Ignored, Requested
    <3>2. silent' \subseteq Methods \X BOOLEAN \X BOOLEAN
        BY <2>7, <3>1 DEF Ignore, Unanswered
    <3> QED BY <2>7, <3>2 DEF Ignore
  <2>8. CASE Described
    <3>1. request = "DESCRIBE" /\ open' \in BOOLEAN
        BY <2>8 DEF Described, Requested
    <3>2. silent' \subseteq Methods \X BOOLEAN \X BOOLEAN
        BY <2>8, <3>1 DEF Described, Unanswered, Methods
    <3> QED BY <2>8, <3>1, <3>2 DEF Described
  <2> QED BY <2>1, <2>2, <2>3, <2>4, <2>5, <2>6, <2>7, <2>8
<1>2. Requested'
  <2>1. CASE Describe
      BY <2>1 DEF Describe, Handles, Requested, Returned
  <2>2. CASE ~Describe
      BY <2>2, RequestedKept DEF Announce, Setup, Play, Options, Described, Teardown, Ignore, Returned
  <2> QED BY <2>1, <2>2
<1>3. /\ handler \in {"handling", "describing"}
      /\ UNCHANGED begun
      /\ Finished \/ Going \/ Threw
    BY DEF Announce, Setup, Play, Options, Describe, Described, Teardown, Ignore, Ignored, Handles, HandlerOnly
<1>4. Watched' /\ RequestsAreRead'
  <2>1. CASE Finished
      BY <2>1 DEF Finished, Watched, RequestsAreRead
  <2> QED BY <1>3, <2>1, GoingKeeps
<1>5. OnlyTheseSilent'
  <2>1. CASE Ignore
      BY <2>1, SilentKept DEF Ignore, Ignored, Handles, Going, IInv, TypeOK
  <2>2. CASE Announce
      BY <2>2, SilentKept DEF Announce, Handles, Answered, Threw, Ignored
  <2>3. CASE Described
    <3>1. request = "DESCRIBE" /\ ~second /\ ~Ignored
        BY <2>3 DEF Described, IInv, Requested, Ignored, Handles
    <3> QED BY <2>3, <3>1, SilentKept DEF Described, Answered, Threw, Finished
  <2>4. CASE Setup \/ Play \/ Options \/ Describe \/ Teardown
      BY <2>4 DEF Setup, Play, Options, Describe, Teardown, Answered, IInv, OnlyTheseSilent
  <2> QED BY <2>1, <2>2, <2>3, <2>4
<1> QED BY <1>1, <1>2, <1>4, <1>5 DEF IInv

(* The receiver thread in a stream: a timer is posted before the session   *)
(* leaves the steps that nothing watches.                                  *)
LEMMA StreamKeeps ==
    ASSUME SessionAssumption, IInv, Stream
    PROVE  IInv'
<1>1. TypeOK'
  <2> USE DEF IInv, TypeOK, Handlers, Inputting, Unwatched, HandlerGoes, HandlerOnly, Returned, Finished,
              client, stream, fields, streaming, timers, history
  <2>1. CASE Refuse \/ NoSource \/ InputEnds
      BY <2>1, Empty DEF Refuse, NoSource, InputEnds, Threw
  <2>2. CASE StartInput
      BY <2>2 DEF StartInput
  <2>5. CASE Managed
      BY <2>5 DEF Managed
  <2>3. CASE InputStream \/ RtpSession
      BY <2>3 DEF InputStream, RtpSession
  <2>4. CASE StartOutput
      BY <2>4 DEF StartOutput
  <2>6. CASE Output
      BY <2>6 DEF Output
  <2> QED BY <2>1, <2>2, <2>3, <2>4, <2>5, <2>6 DEF Stream, Starts, Found
<1>2. Watched' /\ OnlyTheseSilent' /\ RequestsAreRead'
  <2>1. CASE Refuse \/ InputEnds
    <3>1. Finished /\ UNCHANGED silent
        BY <2>1 DEF Refuse, InputEnds
    <3> QED BY <3>1, FinishedKeeps
  <2>5. CASE NoSource
    <3>1. UNCHANGED silent /\ (Finished \/ (open' = FALSE /\ UNCHANGED mInputStreaming /\ handler = "looking"))
        BY <2>5 DEF NoSource, Threw
    <3> QED BY <3>1, FinishedKeeps DEF IInv, Watched, OnlyTheseSilent, RequestsAreRead, Inputting
  <2>2. CASE Managed \/ RtpSession
    <3>1. rtpTimer' # 0 /\ handler' \in Inputting /\ UNCHANGED silent
        BY <2>2, SessionAssumption DEF Managed, RtpSession, HandlerGoes, Inputting, SessionAssumption
    <3> QED BY <3>1 DEF IInv, Watched, OnlyTheseSilent, RequestsAreRead
  <2>3. CASE StartInput \/ StartOutput \/ Output
    <3>1. /\ handler \notin Inputting /\ handler' \in Unwatched
          /\ UNCHANGED <<silent, mInputStreaming>>
        BY <2>3 DEF StartInput, StartOutput, Output, HandlerGoes, Inputting, Unwatched, streaming, history
    <3> QED BY <3>1 DEF IInv, Watched, OnlyTheseSilent, RequestsAreRead
  <2>4. CASE InputStream
    <3>1. /\ handler = "starting" /\ handler' = "checked"
          /\ UNCHANGED <<silent, open, begun, rtspTimer, rtpTimer>>
        BY <2>4 DEF InputStream, HandlerGoes, HandlerOnly, timers
    <3> QED BY <3>1 DEF IInv, Watched, OnlyTheseSilent, RequestsAreRead, Unwatched, Inputting
  <2> QED BY <2>1, <2>2, <2>3, <2>4, <2>5 DEF Stream, Starts, Found
<1>3. Requested'
    BY RequestedKept DEF Stream, Starts, Found, Refuse, NoSource, InputEnds, StartInput, Managed, InputStream, RtpSession,
                         StartOutput, Output, Returned, HandlerGoes
<1> QED BY <1>1, <1>2, <1>3 DEF IInv

-----------------------------------------------------------------------------
(* The invariant holds in every state of every session. *)
LEMMA Initially ==
    ASSUME SessionAssumption, Init
    PROVE  IInv
<1>1. TypeOK
  <2>1. sent \in 0 .. MaxRequests
      BY DEF Init, SessionAssumption
  <2>2. pipe \in Seq(Methods) /\ ahead \in Seq(Methods)
      BY Empty DEF Init
  <2>3. silent \subseteq Methods \X BOOLEAN \X BOOLEAN
      BY DEF Init
  <2> QED BY <2>1, <2>2, <2>3 DEF Init, TypeOK, Handlers
<1>2. OnlyTheseSilent
    BY DEF Init, OnlyTheseSilent
<1> QED BY <1>1, <1>2 DEF Init, IInv, Watched, RequestsAreRead, Requested

(* So does a step of another session. *)
LEMMA Stuttering ==
    ASSUME IInv, UNCHANGED vars
    PROVE  IInv'
BY DEF IInv, vars, TypeOK, Watched, OnlyTheseSilent, RequestsAreRead, Requested

(* The inductive invariant holds of every session: no order of requests,   *)
(* timers and finishes breaks its types, its timer or its flag             *)
(* (RtspMediaServer:28-93, 138-201).                                       *)
THEOREM Invariance == SessionAssumption => (Spec => []IInv)
<1> SUFFICES ASSUME SessionAssumption PROVE Spec => []IInv
    OBVIOUS
<1>1. Init => IInv
    BY Initially
<1>2. IInv /\ [Next]_vars => IInv'
    BY ClientKeeps, EndsKeep, ReadingKeeps, HandleKeeps, StreamKeeps, Stuttering DEF Next, Receiver
<1> QED BY <1>1, <1>2, PTL DEF Spec

(* The state of a session keeps its type (RtspMediaServer:28-61). *)
THEOREM Typing == Spec => []TypeOK
<1>1. IInv => TypeOK
    BY DEF IInv
<1> QED BY <1>1, Invariance, SessionAssumption, PTL

(* A session that has begun is watched by a timer until it finishes, except*)
(* where the code leaves it alone (RtspMediaServer:74-98, 448-486, 583).   *)
THEOREM Watching == Spec => []Watched
<1>1. IInv => Watched
    BY DEF IInv
<1> QED BY <1>1, Invariance, SessionAssumption, PTL

(* A session that goes on has answered every request but PAUSE, a method   *)
(* it does not know and what follows a SETUP in its call; what ends one    *)
(* without an answer is an ANNOUNCE or a DESCRIBE (RtspMediaServer:138-201,*)
(* 372-374).                                                               *)
THEOREM Answering == Spec => []OnlyTheseSilent
<1>1. IInv => OnlyTheseSilent
    BY DEF IInv
<1> QED BY <1>1, Invariance, SessionAssumption, PTL

(* A call of onSocketStream never takes requests for packets               *)
(* (RtspMediaServer:139).                                                  *)
THEOREM Reads == Spec => []RequestsAreRead
<1>1. IInv => RequestsAreRead
    BY DEF IInv
<1> QED BY <1>1, Invariance, SessionAssumption, PTL
-----------------------------------------------------------------------------
(* The timer of the packets is that of a thread that reads a stream, and   *)
(* the timer of the requests is gone by then.                              *)
OneTimer ==
    /\ rtpTimer # 0 => handler \in Inputting
    /\ handler \in {"managing"} \cup Inputting => ~rtspTimer

LEMMA OneTimerStep ==
    ASSUME OneTimer, [Next]_vars
    PROVE  OneTimer'
<1> USE DEF OneTimer, Inputting, HandlerGoes, client, stream, fields, streaming, timers, history
<1>1. ASSUME Finished, handler' \in {handler, "idle"}
      PROVE  OneTimer'
    BY <1>1 DEF Finished
<1>2. CASE Client
    BY <1>2 DEF Client, Vanish, Packet, Send
<1>3. CASE Call \/ Begin \/ Read \/ Broken
    BY <1>3 DEF Call, Begin, Read, Broken, Returned, Reading
<1>4. CASE Handle \/ Described
  <2>1. handler \in {"handling", "describing"} /\ UNCHANGED mOutputStreaming
      BY <1>4 DEF Handle, Announce, Setup, Play, Options, Describe, Described, Teardown, Ignore, Ignored,
         Handles, HandlerOnly
  <2>2. \/ Finished /\ Returned
        \/ /\ Going \/ Threw
           /\ handler' \in {"idle", "second", "describing", "startInput", "startOutput"}
      BY <1>4 DEF Handle, Announce, Setup, Play, Options, Describe, Described, Teardown, Ignore, Returned
  <2> QED BY <1>1, <2>1, <2>2 DEF Returned, Going, Threw
<1>5. CASE StartInput \/ Managed \/ InputStream \/ RtpSession \/ StartOutput \/ Output
    BY <1>5 DEF StartInput, Managed, InputStream, RtpSession, StartOutput, Output
<1>6. CASE Refuse \/ NoSource \/ InputEnds \/ OutputEnds
    BY <1>1, <1>6 DEF Refuse, NoSource, InputEnds, OutputEnds, Returned, Threw
<1>7. CASE RtspTimeOut \/ RtpTimeOut \/ Finish
    BY <1>1, <1>7 DEF RtspTimeOut, RtpTimeOut, Finish, Elsewhere
<1>8. CASE UNCHANGED vars
    BY <1>8 DEF vars
<1> QED BY <1>2, <1>3, <1>4, <1>5, <1>6, <1>7, <1>8 DEF Next, Receiver, Stream, Starts, Found

(* A session is watched by one of its timers at a time, and the timer of   *)
(* the packets never outlives the reading thread: no order of requests,    *)
(* finishes and packets leaves it posted when the call has returned        *)
(* (RtspMediaServer:74-98, 413-416, 448-486).                             *)
THEOREM TimersTakeTurns == Spec => []OneTimer
<1>1. Init => OneTimer
    BY DEF Init, OneTimer, Inputting
<1> QED BY <1>1, OneTimerStep, PTL DEF Spec

AtRest == ~open /\ handler = "idle" /\ ~rtspTimer /\ rtpTimer = 0

(* A finished session that has come to rest stays so: what the client has  *)
(* sent before starts no thread and no timer again (RtspMediaServer:65-98).*)
THEOREM RestIsFinal == Spec => [][AtRest => AtRest']_vars
<1>1. [Next]_vars => [AtRest => AtRest']_vars
  <2> SUFFICES ASSUME Next, AtRest PROVE AtRest'
      OBVIOUS
  <2>1. CASE Client
      BY <2>1 DEF Client, Vanish, Packet, Send, AtRest, streaming, timers
  <2>2. ~Receiver /\ ~OutputEnds
      BY DEF AtRest, Receiver, Call, Begin, Read, Broken, Handle, Announce, Setup, Play, Options,
         Describe, Described, Teardown, Ignore, Ignored, Handles, Stream, Starts, Found, Refuse, StartInput, Managed,
         InputStream, RtpSession, StartOutput, NoSource, Output, InputEnds, OutputEnds,
         HandlerGoes, Reading
  <2>3. ~RtspTimeOut /\ ~RtpTimeOut
      BY DEF AtRest, RtspTimeOut, RtpTimeOut
  <2>4. CASE Finish
      BY <2>4 DEF Finish, Finished, Elsewhere, AtRest
  <2> QED BY <2>1, <2>2, <2>3, <2>4 DEF Next
<1> QED BY <1>1, PTL DEF Spec

=============================================================================
