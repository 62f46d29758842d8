----------------------------- MODULE PacketQueue ----------------------------
(* The packet queue of one output: MediaOutputStreamRunnable1, and its     *)
(* subclass RtspOutputStreamRunnable that throws away packets when the     *)
(* client is slow.  The feeder of the source puts packets; the writer, the *)
(* thread of the output, takes them to the stream.  They share the Vector  *)
(* mRtspPacketInfos and the pool of PacketInfo objects, whose single       *)
(* operations are atomic and whose combinations are not.                   *)
(*                                                                         *)
(* A packet is its place in the stream that is fed.  Objects of the pool   *)
(* are numbered as they are allocated.                                     *)
EXTENDS Integers, Sequences, FiniteSets

CONSTANTS
    Discards,              \* whether it is an RtspOutputStreamRunnable: the cases considered
    mPacketBufferMaxCount, \* 5 for RTSP, 20 else
    Limit,                 \* 1000
    PoolSize,              \* of the ArrayBlockingQueue, 20
    Packets,               \* bound: packets put
    Ignorable              \* the packets with NRI <= 1 on the video channel

ASSUME QueueAssumption ==
    /\ Discards \subseteq BOOLEAN /\ Discards # {}
    /\ mPacketBufferMaxCount \in Nat \ {0} /\ Limit \in Nat /\ PoolSize \in Nat \ {0}
    /\ mPacketBufferMaxCount < Limit
    /\ Packets \in Nat
    /\ Ignorable \subseteq 1 .. Packets

VARIABLES
    discards,         \* the class is RtspOutputStreamRunnable
    mRtspPacketInfos, \* queue of objects
    mRecycle,         \* pool of objects
    content,          \* the packet that was copied into an object last
    cleared,          \* the objects whose length is reset: nothing is written
    mColsed,
    feeder,           \* where putPacket is
    packet,           \* number of the packet that is put
    info,             \* object the feeder looks at
    rtspPacketInfo,   \* object the feeder fills
    writer,           \* where run() is
    out,              \* object the writer took
    allocated,        \* objects made so far
    accepted,         \* history: the packets that were queued
    written,          \* history: what was written
    overloaded        \* history: the queue was found larger than its maximum

vars == <<discards, mRtspPacketInfos, mRecycle, content, cleared, mColsed, feeder, packet, info,
          rtspPacketInfo, writer, out, allocated, accepted, written, overloaded>>
objects == <<content, cleared>>
feed == <<feeder, packet, info, rtspPacketInfo>>
filled == <<rtspPacketInfo, allocated>>
write == <<writer, out>>
history == <<accepted, written, overloaded>>

Objects == 1 .. Packets

TypeOK ==
    /\ discards \in Discards
    /\ mRtspPacketInfos \in Seq(Objects)
    /\ mRecycle \in Seq(Objects) /\ Len(mRecycle) <= PoolSize
    /\ content \in [Objects -> 0 .. Packets]
    /\ cleared \subseteq Objects
    /\ mColsed \in BOOLEAN /\ overloaded \in BOOLEAN
    /\ feeder \in {"idle", "get", "remove", "recycle", "intercept", "store",
                  "copy", "length", "add", "removed"}
    /\ packet \in 0 .. Packets
    /\ info \in Objects \cup {0} /\ rtspPacketInfo \in Objects \cup {0} /\ out \in Objects \cup {0}
    /\ writer \in {"loop", "remove", "write", "recycle", "finally", "done"}
    /\ allocated \in 0 .. Packets
    /\ accepted \in Seq(1 .. Packets) /\ written \in Seq(0 .. Packets)

Init ==
    /\ discards \in Discards
    /\ mRtspPacketInfos = <<>> /\ mRecycle = <<>>
    /\ content = [o \in Objects |-> 0] /\ cleared = {}
    /\ mColsed = FALSE
    /\ feeder = "idle" /\ packet = 0 /\ info = 0 /\ rtspPacketInfo = 0
    /\ writer = "loop" /\ out = 0
    /\ allocated = 0
    /\ accepted = <<>> /\ written = <<>>
    /\ overloaded = FALSE

isBufferLarge == Len(mRtspPacketInfos) > mPacketBufferMaxCount

FeederGoes(from, to) == feeder = from /\ feeder' = to
WriterGoes(from, to) == writer = from /\ writer' = to

(* Mutant: the pool has no limit. *)
Recycled_Unbounded(o) == Append(mRecycle, o)

(* RecycleObjectPool.recycle: the queue of the pool takes the object if it *)
(* has room, also one that it holds already.                               *)
Recycled(o) == IF Len(mRecycle) < PoolSize THEN Append(mRecycle, o) ELSE mRecycle

-----------------------------------------------------------------------------
(* putPacket: nothing if closed; a large queue is thinned out first.       *)
Put ==
    /\ packet < Packets
    /\ packet' = packet + 1
    /\ FeederGoes("idle", IF mColsed THEN "idle" ELSE IF isBufferLarge /\ discards THEN "get" ELSE "intercept")
    /\ overloaded' = (overloaded \/ (~mColsed /\ isBufferLarge))
    /\ UNCHANGED <<mRtspPacketInfos, mRecycle, objects, mColsed, info, write, filled, accepted, written>>

(* putPacket threw: the source closes the output and removes it.           *)
Removed ==
    /\ feeder' = "removed"
    /\ mColsed' = TRUE
    /\ UNCHANGED <<mRtspPacketInfos, mRecycle, objects, packet, info, write, filled, history>>

(* discardPacketInCache looks at the oldest packet; only this thread writes *)
(* into the arrays.                                                        *)
Get ==
    /\ mRtspPacketInfos # <<>>
    /\ info' = Head(mRtspPacketInfos)
    /\ FeederGoes("get", IF content[info'] \in Ignorable THEN "remove" ELSE "intercept")
    /\ UNCHANGED <<mRtspPacketInfos, mRecycle, objects, mColsed, packet, write, filled, history>>

GetFails == feeder = "get" /\ mRtspPacketInfos = <<>> /\ Removed

(* What is the oldest one by now is removed...                             *)
Remove ==
    /\ mRtspPacketInfos # <<>>
    /\ FeederGoes("remove", "recycle")
    /\ mRtspPacketInfos' = Tail(mRtspPacketInfos)
    /\ UNCHANGED <<mRecycle, objects, mColsed, packet, info, write, filled, history>>

RemoveFails == feeder = "remove" /\ mRtspPacketInfos = <<>> /\ Removed

(* ... and clears and recycles the one it looked at.                       *)
Recycle ==
    /\ FeederGoes("recycle", "intercept")
    /\ cleared' = cleared \cup {info}
    /\ mRecycle' = Recycled(info)
    /\ UNCHANGED <<mRtspPacketInfos, content, mColsed, packet, info, write, filled, history>>

(* onInterceptPacket: with a large queue an ignorable packet is not queued.*)
(* The second test of the method, for 20 packets, is never reached with a  *)
(* larger queue than the first.                                            *)
Intercept ==
    /\ FeederGoes("intercept", IF discards /\ isBufferLarge /\ packet \in Ignorable THEN "idle" ELSE "store")
    /\ UNCHANGED <<mRtspPacketInfos, mRecycle, objects, mColsed, packet, info, write, filled, history>>

(* Mutant: the object stays in the pool. *)
Store_Peeks ==
    /\ feeder = "store"
    /\ \/ /\ Len(mRtspPacketInfos) > Limit
          /\ feeder' = "idle" /\ UNCHANGED filled
       \/ /\ Len(mRtspPacketInfos) <= Limit
          /\ feeder' = "copy"
          /\ IF mRecycle # <<>>
             THEN rtspPacketInfo' = Head(mRecycle) /\ UNCHANGED allocated
             ELSE rtspPacketInfo' = allocated + 1 /\ allocated' = allocated + 1
    /\ UNCHANGED <<mRtspPacketInfos, mRecycle, objects, mColsed, packet, info, write, history>>

(* The packet is dropped if the queue is at its limit, else it gets an     *)
(* object of the pool or a new one.                                        *)
Store ==
    /\ feeder = "store"
    /\ \/ /\ Len(mRtspPacketInfos) > Limit
          /\ feeder' = "idle" /\ UNCHANGED <<filled, mRecycle>>
       \/ /\ Len(mRtspPacketInfos) <= Limit
          /\ feeder' = "copy"
          /\ IF mRecycle # <<>>
             THEN /\ rtspPacketInfo' = Head(mRecycle) /\ mRecycle' = Tail(mRecycle)
                  /\ UNCHANGED allocated
             ELSE /\ rtspPacketInfo' = allocated + 1 /\ allocated' = allocated + 1
                  /\ UNCHANGED mRecycle
    /\ UNCHANGED <<mRtspPacketInfos, objects, mColsed, packet, info, write, history>>

(* It is copied; one that does not fit throws, and its object is lost...   *)
Copy ==
    /\ feeder = "copy"
    /\ \/ /\ feeder' = "length"
          /\ content' = [content EXCEPT ![rtspPacketInfo] = packet]
          /\ UNCHANGED rtspPacketInfo
       \/ feeder' = "idle" /\ rtspPacketInfo' = 0 /\ UNCHANGED content
    /\ UNCHANGED <<mRtspPacketInfos, mRecycle, cleared, mColsed, packet, info, write, allocated,
                   history>>

(* ... the object gets its length...                                       *)
Length ==
    /\ FeederGoes("length", "add")
    /\ cleared' = cleared \ {rtspPacketInfo}
    /\ UNCHANGED <<mRtspPacketInfos, mRecycle, content, mColsed, packet, info, write, filled, history>>

(* Mutant: the newest packet is queued first. *)
Add_Front ==
    /\ FeederGoes("add", "idle")
    /\ mRtspPacketInfos' = <<rtspPacketInfo>> \o mRtspPacketInfos
    /\ accepted' = Append(accepted, packet)
    /\ rtspPacketInfo' = 0
    /\ UNCHANGED <<mRecycle, objects, mColsed, packet, info, write, allocated, written, overloaded>>

(* ... and is queued.                                                      *)
Add ==
    /\ FeederGoes("add", "idle")
    /\ mRtspPacketInfos' = Append(mRtspPacketInfos, rtspPacketInfo)
    /\ accepted' = Append(accepted, packet)
    /\ rtspPacketInfo' = 0
    /\ UNCHANGED <<mRecycle, objects, mColsed, packet, info, write, allocated, written, overloaded>>

-----------------------------------------------------------------------------
(* What the stream gets of an object: nothing if its length is reset.      *)
Sent(o) == IF o \in cleared THEN 0 ELSE content[o]

(* Mutant: the writer waits for a large queue. *)
Loop_Lazy ==
    /\ writer = "loop"
    /\ \/ mColsed /\ writer' = "finally"
       \/ ~mColsed /\ isBufferLarge /\ writer' = "remove"
    /\ UNCHANGED <<mRtspPacketInfos, mRecycle, objects, mColsed, feed, out, allocated, history>>

(* run(): as long as it is not closed, the writer looks for packets.       *)
Loop ==
    /\ writer = "loop"
    /\ \/ mColsed /\ writer' = "finally"
       \/ ~mColsed /\ mRtspPacketInfos # <<>> /\ writer' = "remove"
    /\ UNCHANGED <<mRtspPacketInfos, mRecycle, objects, mColsed, feed, out, allocated, history>>

(* The feeder may have taken the only packet: remove(0) throws.            *)
Take ==
    /\ writer = "remove"
    /\ IF mRtspPacketInfos = <<>>
       THEN writer' = "finally" /\ UNCHANGED <<out, mRtspPacketInfos>>
       ELSE /\ writer' = "write"
            /\ out' = Head(mRtspPacketInfos)
            /\ mRtspPacketInfos' = Tail(mRtspPacketInfos)
    /\ UNCHANGED <<mRecycle, objects, mColsed, feed, allocated, history>>

Write ==
    /\ WriterGoes("write", "recycle")
    /\ written' = Append(written, Sent(out))
    /\ UNCHANGED <<mRtspPacketInfos, mRecycle, objects, mColsed, feed, out, allocated, accepted, overloaded>>

WriteFails ==
    /\ WriterGoes("write", "finally")
    /\ UNCHANGED <<mRtspPacketInfos, mRecycle, objects, mColsed, feed, out, allocated, history>>

GiveBack ==
    /\ WriterGoes("recycle", "loop")
    /\ cleared' = cleared \cup {out}
    /\ mRecycle' = Recycled(out)
    /\ out' = 0
    /\ UNCHANGED <<mRtspPacketInfos, content, mColsed, feed, allocated, history>>

(* The finally block: closed, the queued packets are cleared (not removed),*)
(* the pool is emptied.  A packet that is queued or thrown away meanwhile  *)
(* makes the loop over the queue throw.                                    *)
Finally ==
    /\ WriterGoes("finally", "done")
    /\ mColsed' = TRUE
    /\ \E n \in 0 .. Len(mRtspPacketInfos) :
         /\ cleared' = cleared \cup {mRtspPacketInfos[i] : i \in 1 .. n}
         /\ \/ n = Len(mRtspPacketInfos) /\ mRecycle' = <<>>
            \/ feeder \in {"remove", "add"} /\ UNCHANGED mRecycle
    /\ UNCHANGED <<mRtspPacketInfos, content, feed, out, allocated, history>>

(* close() by the session or the source. *)
Close ==
    /\ ~mColsed
    /\ mColsed' = TRUE
    /\ UNCHANGED <<mRtspPacketInfos, mRecycle, objects, feed, write, allocated, history>>

-----------------------------------------------------------------------------
Feeder ==
    /\ Put \/ Get \/ GetFails \/ Remove \/ RemoveFails \/ Recycle \/ Intercept
       \/ Store \/ Copy \/ Length \/ Add
    /\ UNCHANGED discards
Writer ==
    /\ Loop \/ Take \/ Write \/ WriteFails \/ GiveBack \/ Finally
    /\ UNCHANGED discards

Next == Feeder \/ Writer \/ (Close /\ UNCHANGED discards)

Spec == Init /\ [][Next]_vars

(* The writer is a thread that runs and whose writes return.               *)
FairSpec == Spec /\ WF_vars(Writer)

-----------------------------------------------------------------------------
Queued == [i \in DOMAIN mRtspPacketInfos |-> Sent(mRtspPacketInfos[i])]
InHand == IF writer = "write" THEN <<Sent(out)>> ELSE <<>>
IsQueued(p) == \E i \in DOMAIN mRtspPacketInfos : content[mRtspPacketInfos[i]] = p

(* The queue is bounded however slow the client is                         *)
(* (MediaOutputStreamRunnable1:76-80).                                     *)
QueueBounded == Len(mRtspPacketInfos) <= Limit + 1

(* The discarding of the RTSP subclass can recycle what the writer holds,  *)
(* so the two properties below are promised only while its queue was never *)
(* found large; without the subclass they hold always.                     *)
Undisturbed == ~(discards /\ overloaded)

(* An object is in one place only: in the pool, in the queue, with the     *)
(* feeder or with the writer.  Else two packets share an array (MediaOutputStreamRunnable1:   *)
(* 82-87, 142-147).                                                        *)
Holds(seq, o) == \E i \in DOMAIN seq : seq[i] = o
Once(seq) == \A i, j \in DOMAIN seq : seq[i] = seq[j] => i = j

OneOwner ==
    Undisturbed =>
        /\ Once(mRecycle) /\ Once(mRtspPacketInfos)
        /\ \A o \in Objects : ~(Holds(mRecycle, o) /\ Holds(mRtspPacketInfos, o))
        /\ \A o \in {out, rtspPacketInfo} :
               ~Holds(mRecycle, o) /\ ~Holds(mRtspPacketInfos, o)
        /\ out = rtspPacketInfo => out = 0

(* What was accepted is written in order and unchanged, and what is not    *)
(* yet written is in hand or queued.                                       *)
InOrder ==
    Undisturbed /\ writer \notin {"finally", "done"} => accepted = written \o InHand \o Queued

(* A queued packet leaves the queue, or the output ends.                   *)
EachIsTaken == \A p \in 1 .. Packets : IsQueued(p) ~> (~IsQueued(p) \/ writer = "done")
=============================================================================
