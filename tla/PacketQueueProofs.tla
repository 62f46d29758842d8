------------------------- MODULE PacketQueueProofs --------------------------
(* Proofs about the packet queue, for every length of the queue, size of   *)
(* the pool and number of packets: it is bounded, its objects have one     *)
(* owner, and because of that what is written is what was accepted.        *)
EXTENDS PacketQueue, SequenceTheorems, TLAPS

(* A packet that is put has used up none of the objects until it gets one. *)
Putting == feeder \notin {"idle", "removed"}
Filling == feeder \in {"copy", "length", "add"}
Allocation == allocated <= packet /\ (Putting /\ ~Filling => allocated < packet)

(* Objects exist before they are anywhere. *)
Exist ==
    /\ \A o \in Objects : Holds(mRecycle, o) \/ Holds(mRtspPacketInfos, o) => o <= allocated
    /\ out <= allocated /\ info <= allocated /\ rtspPacketInfo <= allocated

(* The writer holds an object while it writes; the feeder looks at objects *)
(* only in the subclass, when the queue was large.                         *)
Hands ==
    /\ writer \in {"write", "recycle"} => out # 0
    /\ feeder \in {"remove", "recycle"} => info # 0
    /\ feeder \in {"get", "remove", "recycle"} => discards /\ overloaded
    /\ Filling => rtspPacketInfo # 0 /\ Len(mRtspPacketInfos) <= Limit

(* What the feeder has copied stays until it is queued. *)
Ready ==
    Undisturbed =>
        /\ feeder \in {"length", "add"} => content[rtspPacketInfo] = packet
        /\ feeder = "add" => rtspPacketInfo \notin cleared

IInv ==
    /\ TypeOK
    /\ QueueBounded
    /\ Allocation
    /\ Exist
    /\ Hands
    /\ Ready
    /\ OneOwner

-----------------------------------------------------------------------------
(* Sequences of objects: what the head, the tail and an appended object     *)
(* mean for who holds what.                                                *)
LEMMA TailHolds ==
    ASSUME NEW S, NEW seq \in Seq(S), seq # <<>>
    PROVE  /\ Head(seq) \in S /\ Tail(seq) \in Seq(S) /\ Len(Tail(seq)) = Len(seq) - 1
           /\ Holds(seq, Head(seq))
           /\ \A o : Holds(Tail(seq), o) => Holds(seq, o)
           /\ Once(seq) => Once(Tail(seq)) /\ ~Holds(Tail(seq), Head(seq))
<1>1. /\ Head(seq) = seq[1] /\ Len(seq) \in Nat \ {0} /\ DOMAIN seq = 1 .. Len(seq)
      /\ Tail(seq) \in Seq(S) /\ Len(Tail(seq)) = Len(seq) - 1
      /\ DOMAIN Tail(seq) = 1 .. Len(seq) - 1
      /\ \A i \in 1 .. Len(seq) - 1 : Tail(seq)[i] = seq[i + 1]
    OBVIOUS
<1>2. Head(seq) \in S /\ Holds(seq, Head(seq))
    BY <1>1 DEF Holds
<1>3. \A o : Holds(Tail(seq), o) => Holds(seq, o)
    BY <1>1 DEF Holds
<1>4. ASSUME Once(seq) PROVE Once(Tail(seq)) /\ ~Holds(Tail(seq), Head(seq))
    BY <1>1, <1>4 DEF Once, Holds
<1> QED BY <1>1, <1>2, <1>3, <1>4

(* An appended sequence holds one object more. *)
LEMMA AppendHolds ==
    ASSUME NEW S, NEW seq \in Seq(S), NEW e \in S
    PROVE  /\ Append(seq, e) \in Seq(S) /\ Len(Append(seq, e)) = Len(seq) + 1
           /\ \A o : Holds(Append(seq, e), o) <=> Holds(seq, o) \/ o = e
           /\ Once(seq) /\ ~Holds(seq, e) => Once(Append(seq, e))
<1>1. /\ Append(seq, e) \in Seq(S) /\ Len(seq) \in Nat /\ DOMAIN seq = 1 .. Len(seq)
      /\ Len(Append(seq, e)) = Len(seq) + 1
      /\ DOMAIN Append(seq, e) = 1 .. Len(seq) + 1
      /\ \A i \in 1 .. Len(seq) : Append(seq, e)[i] = seq[i]
      /\ Append(seq, e)[Len(seq) + 1] = e
    OBVIOUS
<1>2. \A o : Holds(Append(seq, e), o) <=> Holds(seq, o) \/ o = e
  <2>1. ASSUME NEW o, Holds(seq, o) PROVE Holds(Append(seq, e), o)
      BY <1>1, <2>1 DEF Holds
  <2>2. Holds(Append(seq, e), e)
      BY <1>1 DEF Holds
  <2>3. ASSUME NEW o, Holds(Append(seq, e), o), o # e PROVE Holds(seq, o)
      BY <1>1, <2>3 DEF Holds
  <2> QED BY <2>1, <2>2, <2>3
<1>3. ASSUME Once(seq), ~Holds(seq, e) PROVE Once(Append(seq, e))
    BY <1>1, <1>3 DEF Once, Holds
<1> QED BY <1>1, <1>2, <1>3

(* The pool holds at most one object more after a recycling.              *)
LEMMA RecycledHolds ==
    ASSUME QueueAssumption, TypeOK, NEW o \in Objects
    PROVE  /\ Recycled(o) \in Seq(Objects) /\ Len(Recycled(o)) <= PoolSize
           /\ \A p : Holds(Recycled(o), p) => Holds(mRecycle, p) \/ p = o
           /\ Once(mRecycle) /\ ~Holds(mRecycle, o) => Once(Recycled(o))
<1>1. CASE Len(mRecycle) < PoolSize
    BY <1>1, AppendHolds DEF Recycled, TypeOK, QueueAssumption
<1>2. CASE ~(Len(mRecycle) < PoolSize)
    BY <1>2 DEF Recycled, TypeOK
<1> QED BY <1>1, <1>2

(* 0 is no object. *)
LEMMA NobodyHoldsZero ==
    ASSUME TypeOK
    PROVE  ~Holds(mRecycle, 0) /\ ~Holds(mRtspPacketInfos, 0)
<1>1. \A seq \in Seq(Objects) : \A i \in DOMAIN seq : seq[i] \in Objects
    OBVIOUS
<1>2. mRecycle \in Seq(Objects) /\ mRtspPacketInfos \in Seq(Objects)
    BY DEF TypeOK
<1>3. 0 \notin Objects BY QueueAssumption DEF Objects
<1> QED BY <1>1, <1>2, <1>3 DEF Holds

-----------------------------------------------------------------------------
(* Steps that leave the objects where they are. *)
LEMMA QuietSteps ==
    ASSUME IInv, UNCHANGED discards,
                 \/ Put \/ Get \/ GetFails \/ RemoveFails \/ Intercept
                 \/ Loop \/ Write \/ WriteFails \/ Close
    PROVE  IInv'
<1>1. UNCHANGED <<mRtspPacketInfos, mRecycle, content, cleared, allocated, rtspPacketInfo, out>>
    BY DEF Put, Get, GetFails, RemoveFails, Removed, Intercept, Loop, Write, WriteFails, Close,
           objects, write, feed, filled
<1>2. /\ mColsed' \in BOOLEAN /\ overloaded' \in BOOLEAN
      /\ packet' \in 0 .. Packets /\ info' \in Objects \cup {0} /\ info' <= allocated
      /\ feeder' \in {"idle", "get", "remove", "recycle", "intercept", "store",
                     "copy", "length", "add", "removed"}
      /\ writer' \in {"loop", "remove", "write", "recycle", "finally", "done"}
      /\ accepted' \in Seq(1 .. Packets) /\ written' \in Seq(0 .. Packets)
      /\ overloaded => overloaded'
      /\ writer' \in {"write", "recycle"} => writer \in {"write", "recycle"}
      /\ allocated' <= packet' /\ (Putting' /\ ~Filling' => allocated' < packet')
      /\ Filling' => feeder' = feeder /\ packet' = packet
      /\ Hands'
  <2> USE DEF IInv, TypeOK, Hands, Allocation, Putting, Filling, FeederGoes, WriterGoes, feed, write,
              history, filled
  <2>1. CASE Put
    <3>1. packet' = packet + 1 /\ packet' \in 0 .. Packets
        BY <2>1, QueueAssumption DEF Put
    <3>2. feeder' = "get" => discards /\ overloaded'
        BY <2>1 DEF Put
    <3>3. feeder = "idle" /\ feeder' \in {"idle", "get", "intercept"} /\ (overloaded => overloaded')
        BY <2>1 DEF Put
    <3>4. overloaded' \in BOOLEAN /\ UNCHANGED <<mColsed, info, writer, allocated, accepted, written>>
        BY <2>1 DEF Put
    <3>5. allocated < packet'
        BY <3>1
    <3>6. Hands'
        BY <2>1, <3>2, <3>3, <3>4 DEF Put
    <3>7. info' \in Objects \cup {0} /\ info' <= allocated /\ allocated' <= packet'
          /\ (Putting' /\ ~Filling' => allocated' < packet')
        BY <3>1, <3>4, <3>5, QueueAssumption DEF Exist
    <3> HIDE DEF Hands
    <3> QED BY <2>1, <3>1, <3>3, <3>4, <3>6, <3>7 DEF Put
  <2>2. CASE Get
    <3>1. Head(mRtspPacketInfos) \in Objects /\ Holds(mRtspPacketInfos, Head(mRtspPacketInfos))
        BY <2>2, TailHolds DEF Get
    <3>2. info' \in Objects /\ info' <= allocated /\ info' # 0
        BY <2>2, <3>1, QueueAssumption DEF Get, Exist, Objects
    <3>3. feeder = "get" /\ feeder' \in {"remove", "intercept"}
        BY <2>2 DEF Get
    <3> HIDE DEF Objects
    <3> QED BY <2>2, <3>2, <3>3 DEF Get
  <2>3. CASE GetFails \/ RemoveFails BY <2>3 DEF GetFails, RemoveFails, Removed, Exist
  <2>4. CASE Intercept BY <2>4 DEF Intercept, Exist
  <2>5. CASE Loop BY <2>5 DEF Loop, Exist
  <2>6. CASE Write
    <3>1. Sent(out) \in 0 .. Packets
        BY <2>6, QueueAssumption DEF Write, Sent
    <3>2. written' \in Seq(0 .. Packets)
        BY <2>6, <3>1 DEF Write
    <3> QED BY <2>6, <3>2 DEF Write, Exist
  <2>7. CASE WriteFails BY <2>7 DEF WriteFails, Exist
  <2>8. CASE Close BY <2>8 DEF Close, Exist
  <2> QED BY <2>1, <2>2, <2>3, <2>4, <2>5, <2>6, <2>7, <2>8
<1>3. TypeOK' BY <1>1, <1>2 DEF IInv, TypeOK
<1>4. QueueBounded' /\ Allocation' /\ Exist'
    BY <1>1, <1>2 DEF IInv, QueueBounded, Allocation, Exist, Holds
<1>5. OneOwner' BY <1>1, <1>2 DEF IInv, OneOwner, Undisturbed, Once, Holds
<1>6. Ready' BY <1>1, <1>2 DEF IInv, Ready, Undisturbed, Filling
<1> QED BY <1>2, <1>3, <1>4, <1>5, <1>6 DEF IInv

(* The discarding of the subclass, after a large queue. *)
LEMMA DiscardSteps == ASSUME IInv, UNCHANGED discards, Remove \/ Recycle PROVE IInv'
<1>1. discards /\ overloaded /\ info \in Objects
    BY DEF Remove, Recycle, FeederGoes, IInv, Hands, TypeOK
<1>2. UNCHANGED <<mColsed, packet, info, writer, out, allocated, rtspPacketInfo, accepted, written,
                  overloaded>>
    BY DEF Remove, Recycle, write, history, filled
<1>3. OneOwner' /\ Ready' BY <1>1, <1>2 DEF OneOwner, Ready, Undisturbed
<1>4. CASE Remove
  <2>1. /\ mRtspPacketInfos # <<>> /\ mRtspPacketInfos' = Tail(mRtspPacketInfos)
        /\ UNCHANGED <<mRecycle, content, cleared>> /\ feeder = "remove" /\ feeder' = "recycle"
      BY <1>4 DEF Remove, objects, FeederGoes
  <2>2. /\ mRtspPacketInfos' \in Seq(Objects) /\ Len(mRtspPacketInfos') <= Limit + 1
        /\ \A o : Holds(mRtspPacketInfos', o) => Holds(mRtspPacketInfos, o)
      BY <2>1, TailHolds, QueueAssumption DEF IInv, TypeOK, QueueBounded
  <2>3. TypeOK' BY <1>2, <2>1, <2>2 DEF IInv, TypeOK
  <2>4. QueueBounded' /\ Allocation' BY <1>2, <2>1, <2>2 DEF IInv, QueueBounded, Allocation, Putting,
                                                            Filling
  <2>5. Exist' BY <1>2, <2>1, <2>2 DEF IInv, Exist, Holds
  <2>6. Hands' BY <1>1, <1>2, <2>1 DEF IInv, Hands, Objects, Filling
  <2> QED BY <1>3, <2>3, <2>4, <2>5, <2>6 DEF IInv
<1>5. CASE Recycle
  <2>1. /\ mRecycle' = Recycled(info) /\ cleared' = cleared \cup {info}
        /\ UNCHANGED <<mRtspPacketInfos, content>> /\ feeder = "recycle" /\ feeder' = "intercept"
      BY <1>5 DEF Recycle, FeederGoes
  <2>2. /\ mRecycle' \in Seq(Objects) /\ Len(mRecycle') <= PoolSize
        /\ \A o : Holds(mRecycle', o) => Holds(mRecycle, o) \/ o = info
      BY <1>1, <2>1, RecycledHolds, QueueAssumption DEF IInv
  <2>3. TypeOK' BY <1>1, <1>2, <2>1, <2>2 DEF IInv, TypeOK
  <2>4. QueueBounded' /\ Allocation'
      BY <1>2, <2>1 DEF IInv, QueueBounded, Allocation, Putting, Filling
  <2>5. Exist' BY <1>2, <2>1, <2>2 DEF IInv, Exist, Holds
  <2>6. Hands' BY <1>2, <2>1 DEF IInv, Hands, Filling
  <2> QED BY <1>3, <2>3, <2>4, <2>5, <2>6 DEF IInv
<1> QED BY <1>4, <1>5

(* The writer takes the oldest packet. *)
LEMMA TakeStep == ASSUME IInv, UNCHANGED discards, Take PROVE IInv'
<1>1. /\ UNCHANGED <<mRecycle, content, cleared, mColsed, feeder, packet, info, allocated, rtspPacketInfo,
                     accepted, written, overloaded>>
      /\ writer = "remove"
    BY DEF Take, objects, feed, history, filled
<1>2. CASE mRtspPacketInfos = <<>>
  <2>1. writer' = "finally" /\ UNCHANGED <<out, mRtspPacketInfos>>
      BY <1>2 DEF Take
  <2> QED BY <1>1, <2>1 DEF IInv, TypeOK, QueueBounded, Allocation, Putting, Filling, Exist, Hands, Ready,
                            OneOwner, Undisturbed, Once, Holds
<1>3. CASE mRtspPacketInfos # <<>>
  <2>1. /\ writer' = "write" /\ out' = Head(mRtspPacketInfos)
        /\ mRtspPacketInfos' = Tail(mRtspPacketInfos)
      BY <1>3 DEF Take
  <2>2. /\ out' \in Objects /\ Holds(mRtspPacketInfos, out')
        /\ mRtspPacketInfos' \in Seq(Objects) /\ Len(mRtspPacketInfos') <= Limit + 1
        /\ Len(mRtspPacketInfos) <= Limit => Len(mRtspPacketInfos') <= Limit
        /\ \A o : Holds(mRtspPacketInfos', o) => Holds(mRtspPacketInfos, o)
        /\ Once(mRtspPacketInfos) => Once(mRtspPacketInfos') /\ ~Holds(mRtspPacketInfos', out')
      BY <1>3, <2>1, TailHolds, QueueAssumption DEF IInv, TypeOK, QueueBounded
  <2>3. TypeOK' BY <1>1, <2>1, <2>2 DEF IInv, TypeOK
  <2>4. QueueBounded' /\ Allocation' BY <1>1, <2>2 DEF IInv, QueueBounded, Allocation, Putting, Filling
  <2>5. Exist' BY <1>1, <2>1, <2>2 DEF IInv, Exist, Holds
  <2>6. Hands' BY <1>1, <2>2 DEF IInv, Hands, Objects, Filling
  <2>7. OneOwner'
    <3> SUFFICES ASSUME Undisturbed
                 PROVE  /\ Once(mRecycle) /\ Once(mRtspPacketInfos')
                        /\ \A o \in Objects : ~(Holds(mRecycle, o) /\ Holds(mRtspPacketInfos', o))
                        /\ ~Holds(mRecycle, out') /\ ~Holds(mRtspPacketInfos', out')
                        /\ ~Holds(mRecycle, rtspPacketInfo)
                        /\ ~Holds(mRtspPacketInfos', rtspPacketInfo)
                        /\ out' # rtspPacketInfo
        BY <1>1 DEF OneOwner, Undisturbed
    <3> QED BY <2>2 DEF IInv, OneOwner
  <2>8. Ready' BY <1>1 DEF IInv, Ready, Undisturbed
  <2> QED BY <2>3, <2>4, <2>5, <2>6, <2>7, <2>8 DEF IInv
<1> QED BY <1>2, <1>3

(* The writer gives its object back to the pool. *)
LEMMA GiveBackStep == ASSUME IInv, UNCHANGED discards, GiveBack PROVE IInv'
<1>1. /\ UNCHANGED <<mRtspPacketInfos, content, mColsed, feeder, packet, info, allocated, rtspPacketInfo,
                     accepted, written, overloaded>>
      /\ writer = "recycle" /\ writer' = "loop" /\ out' = 0
      /\ mRecycle' = Recycled(out) /\ cleared' = cleared \cup {out}
    BY DEF GiveBack, WriterGoes, feed, history, filled
<1>2. out \in Objects
    BY <1>1 DEF IInv, TypeOK, Hands
<1>3. /\ mRecycle' \in Seq(Objects) /\ Len(mRecycle') <= PoolSize
      /\ \A o : Holds(mRecycle', o) => Holds(mRecycle, o) \/ o = out
      /\ Once(mRecycle) /\ ~Holds(mRecycle, out) => Once(mRecycle')
    BY <1>1, <1>2, RecycledHolds, QueueAssumption DEF IInv
<1>4. TypeOK' BY <1>1, <1>2, <1>3 DEF IInv, TypeOK
<1>5. QueueBounded' /\ Allocation' BY <1>1 DEF IInv, QueueBounded, Allocation, Putting, Filling
<1>6. Exist'
  <2>1. out' <= allocated' /\ info' <= allocated' /\ rtspPacketInfo' <= allocated'
      BY <1>1, QueueAssumption DEF IInv, Exist, TypeOK
  <2>2. \A o \in Objects : Holds(mRecycle', o) \/ Holds(mRtspPacketInfos', o) => o <= allocated'
      BY <1>1, <1>3 DEF IInv, Exist
  <2> QED BY <2>1, <2>2 DEF Exist, Holds
<1>7. Hands' BY <1>1 DEF IInv, Hands, Filling
<1>8. OneOwner'
  <2> SUFFICES ASSUME Undisturbed
               PROVE  /\ Once(mRecycle') /\ Once(mRtspPacketInfos)
                      /\ \A o \in Objects : ~(Holds(mRecycle', o) /\ Holds(mRtspPacketInfos, o))
                      /\ ~Holds(mRecycle', 0) /\ ~Holds(mRtspPacketInfos, 0)
                      /\ ~Holds(mRecycle', rtspPacketInfo)
                      /\ ~Holds(mRtspPacketInfos, rtspPacketInfo)
      BY <1>1 DEF OneOwner, Undisturbed, Holds
  <2>1. ~Holds(mRecycle', 0) /\ ~Holds(mRtspPacketInfos, 0)
    <3>1. 0 # out BY <1>2, QueueAssumption DEF Objects
    <3> QED BY <1>3, <3>1, NobodyHoldsZero DEF IInv
  <2>2. out # rtspPacketInfo
      BY <1>2, QueueAssumption DEF IInv, OneOwner, Objects
  <2> QED BY <1>3, <2>1, <2>2 DEF IInv, OneOwner
<1>9. Ready'
  <2>1. Undisturbed => out # rtspPacketInfo
      BY <1>2, QueueAssumption DEF IInv, OneOwner, Objects
  <2> QED BY <1>1, <2>1 DEF IInv, Ready, Undisturbed
<1> QED BY <1>4, <1>5, <1>6, <1>7, <1>8, <1>9 DEF IInv

(* The finally block of the writer keeps the invariant.                    *)
LEMMA FinallyStep == ASSUME IInv, UNCHANGED discards, Finally PROVE IInv'
<1>1. /\ UNCHANGED <<mRtspPacketInfos, content, feeder, packet, info, out, allocated, rtspPacketInfo,
                     accepted, written, overloaded>>
      /\ writer' = "done" /\ mColsed' = TRUE
      /\ mRecycle' \in {<<>>, mRecycle}
    BY DEF Finally, WriterGoes, feed, history, filled
<1>2. /\ cleared' \subseteq Objects
      /\ \A o \in cleared' : o \in cleared \/ Holds(mRtspPacketInfos, o)
  <2>1. PICK n \in 0 .. Len(mRtspPacketInfos) :
            cleared' = cleared \cup {mRtspPacketInfos[i] : i \in 1 .. n}
      BY DEF Finally
  <2>2. \A i \in 1 .. n : mRtspPacketInfos[i] \in Objects /\ i \in DOMAIN mRtspPacketInfos
      BY DEF IInv, TypeOK
  <2> QED BY <2>1, <2>2 DEF IInv, TypeOK, Holds
<1>3. mRecycle' \in Seq(Objects) /\ Len(mRecycle') <= PoolSize
  <2>1. CASE mRecycle' = <<>>
    <3>1. mRecycle' \in Seq(Objects) /\ Len(mRecycle') = 0
        BY <2>1
    <3> QED BY <3>1, QueueAssumption
  <2>2. CASE mRecycle' = mRecycle BY <2>2 DEF IInv, TypeOK
  <2> QED BY <1>1, <2>1, <2>2
<1>4. /\ \A o : Holds(mRecycle', o) => Holds(mRecycle, o)
      /\ Once(mRecycle) => Once(mRecycle')
    BY <1>1 DEF Holds, Once
<1>5. TypeOK' BY <1>1, <1>2, <1>3 DEF IInv, TypeOK
<1>6. QueueBounded' /\ Allocation' BY <1>1 DEF IInv, QueueBounded, Allocation, Putting, Filling
<1>7. Exist' BY <1>1, <1>4 DEF IInv, Exist, Holds
<1>8. Hands' BY <1>1 DEF IInv, Hands, Filling
<1>a. Ready' BY <1>1, <1>2 DEF IInv, Ready, OneOwner, Undisturbed
<1>9. OneOwner' BY <1>1, <1>4 DEF IInv, OneOwner, Undisturbed, Holds, Once
<1> QED BY <1>5, <1>6, <1>7, <1>8, <1>9, <1>a DEF IInv

(* The packet gets an object that nobody holds. *)
LEMMA StoreStep == ASSUME IInv, UNCHANGED discards, Store PROVE IInv'
<1>1. /\ UNCHANGED <<mRtspPacketInfos, content, cleared, mColsed, packet, info, writer, out,
                     accepted, written, overloaded>>
      /\ feeder = "store"
    BY DEF Store, write, objects, history
<1>2. allocated < packet /\ packet \in 1 .. Packets /\ allocated + 1 \in Objects
    BY <1>1, QueueAssumption DEF IInv, TypeOK, Allocation, Putting, Filling, Objects
<1>3. CASE feeder' = "idle" /\ UNCHANGED <<filled, mRecycle>>
    BY <1>1, <1>3 DEF IInv, TypeOK, QueueBounded, Allocation, Putting, Filling, Exist, Hands, Ready,
                      OneOwner, Undisturbed, Once, Holds, filled
<1>4. CASE /\ Len(mRtspPacketInfos) <= Limit
           /\ feeder' = "copy"
           /\ IF mRecycle # <<>>
              THEN /\ rtspPacketInfo' = Head(mRecycle) /\ mRecycle' = Tail(mRecycle)
                   /\ UNCHANGED allocated
              ELSE /\ rtspPacketInfo' = allocated + 1 /\ allocated' = allocated + 1
                   /\ UNCHANGED mRecycle
  <2> DEFINE o == rtspPacketInfo'
  <2>1. /\ o \in Objects /\ o # 0
        /\ mRecycle' \in Seq(Objects) /\ Len(mRecycle') <= PoolSize
        /\ allocated' \in {allocated, allocated + 1} /\ o <= allocated'
        /\ \A p : Holds(mRecycle', p) => Holds(mRecycle, p)
        /\ Once(mRecycle) => Once(mRecycle')
        /\ Undisturbed => ~Holds(mRecycle', o) /\ ~Holds(mRtspPacketInfos, o) /\ o # out
    <3>0. 0 \notin Objects
        BY QueueAssumption DEF Objects
    <3>1. CASE mRecycle # <<>>
      <4>0. /\ rtspPacketInfo' = Head(mRecycle) /\ mRecycle' = Tail(mRecycle)
            /\ allocated' = allocated
          BY <1>4, <3>1
      <4>1. /\ o \in Objects
            /\ mRecycle' \in Seq(Objects) /\ Len(mRecycle') = Len(mRecycle) - 1
            /\ Holds(mRecycle, o) /\ \A p : Holds(mRecycle', p) => Holds(mRecycle, p)
            /\ Once(mRecycle) => Once(mRecycle') /\ ~Holds(mRecycle', o)
          BY <3>1, <4>0, TailHolds DEF IInv, TypeOK
      <4>2. o <= allocated' BY <4>0, <4>1 DEF IInv, Exist
      <4>3. Len(mRecycle') <= PoolSize BY <4>1, QueueAssumption DEF IInv, TypeOK
      <4>4. Undisturbed => ~Holds(mRecycle', o) /\ ~Holds(mRtspPacketInfos, o) /\ o # out
          BY <4>1 DEF IInv, OneOwner
      <4> HIDE DEF o
      <4> QED BY <3>0, <4>0, <4>1, <4>2, <4>3, <4>4
    <3>2. CASE mRecycle = <<>>
      <4>0. o = allocated + 1 /\ allocated' = allocated + 1 /\ mRecycle' = mRecycle
          BY <1>4, <3>2
      <4> HIDE DEF o
      <4>1. \A p \in Objects : Holds(mRecycle, p) \/ Holds(mRtspPacketInfos, p) => p <= allocated
          BY DEF IInv, Exist
      <4>2. out <= allocated /\ ~(o <= allocated) /\ o <= allocated' /\ o \in Objects
          BY <1>2, <4>0, QueueAssumption DEF IInv, Exist, TypeOK
      <4>3. ~Holds(mRecycle', o) /\ ~Holds(mRtspPacketInfos, o) /\ o # out
          BY <4>0, <4>1, <4>2
      <4>4. mRecycle' \in Seq(Objects) /\ Len(mRecycle') <= PoolSize
          BY <4>0 DEF IInv, TypeOK
      <4> QED BY <3>0, <4>0, <4>2, <4>3, <4>4
    <3> QED BY <3>1, <3>2
  <2>2. allocated' \in 0 .. Packets /\ allocated' <= packet
      BY <1>2, <2>1, QueueAssumption DEF IInv, TypeOK
  <2>3. TypeOK' BY <1>1, <1>4, <2>1, <2>2 DEF IInv, TypeOK
  <2>4. QueueBounded' BY <1>1 DEF IInv, QueueBounded
  <2>5. Allocation' BY <1>1, <1>4, <2>2 DEF Allocation, Putting, Filling
  <2>6. Exist'
    <3>1. out \in Int /\ info \in Int /\ allocated \in Int
        BY <1>2, QueueAssumption DEF IInv, TypeOK, Objects
    <3>2. out <= allocated' /\ info <= allocated'
        BY <2>1, <3>1 DEF IInv, Exist
    <3>3. \A p \in Objects : p <= allocated => p <= allocated'
        BY <2>1, QueueAssumption DEF IInv, TypeOK, Objects
    <3>4. \A p \in Objects : Holds(mRecycle', p) \/ Holds(mRtspPacketInfos, p) => p <= allocated'
        BY <2>1, <3>3 DEF IInv, Exist
    <3> QED BY <1>1, <2>1, <3>2, <3>4 DEF Exist, Holds
  <2>7. Hands' BY <1>1, <1>4, <2>1 DEF IInv, Hands, Filling
  <2>8. Ready' BY <1>4 DEF Ready
  <2>9. OneOwner'
    <3> SUFFICES ASSUME Undisturbed
                 PROVE  /\ Once(mRecycle') /\ Once(mRtspPacketInfos)
                        /\ \A p \in Objects : ~(Holds(mRecycle', p) /\ Holds(mRtspPacketInfos, p))
                        /\ ~Holds(mRecycle', out) /\ ~Holds(mRtspPacketInfos, out)
                        /\ ~Holds(mRecycle', o) /\ ~Holds(mRtspPacketInfos, o)
                        /\ out # o
        BY <1>1 DEF OneOwner, Undisturbed, Once, Holds
    <3> HIDE DEF o
    <3> QED BY <2>1 DEF IInv, OneOwner
  <2> QED BY <2>3, <2>4, <2>5, <2>6, <2>7, <2>8, <2>9 DEF IInv
<1> QED BY <1>3, <1>4 DEF Store

(* The feeder's object is filled. *)
LEMMA FillSteps == ASSUME IInv, UNCHANGED discards, Copy \/ Length PROVE IInv'
<1>1. /\ UNCHANGED <<mRtspPacketInfos, mRecycle, mColsed, packet, info, writer, out, allocated,
                     accepted, written, overloaded>>
      /\ rtspPacketInfo \in Objects
  <2>1. Filling
      BY DEF Copy, Length, FeederGoes, Filling
  <2> QED BY <2>1 DEF Copy, Length, write, filled, history, IInv, TypeOK, Hands
<1>2. packet \in 0 .. Packets /\ allocated \in Nat /\ 0 <= allocated
    BY QueueAssumption DEF IInv, TypeOK
<1>3. CASE Copy
  <2>1. UNCHANGED cleared /\ feeder = "copy"
      BY <1>3 DEF Copy
  <2>2. CASE /\ feeder' = "length"
             /\ content' = [content EXCEPT ![rtspPacketInfo] = packet]
             /\ UNCHANGED rtspPacketInfo
    <3>1. content' \in [Objects -> 0 .. Packets] /\ content'[rtspPacketInfo] = packet
        BY <1>1, <1>2, <2>2 DEF IInv, TypeOK
    <3>2. TypeOK' BY <1>1, <2>1, <2>2, <3>1 DEF IInv, TypeOK
    <3>3. QueueBounded' /\ Allocation' /\ Exist' /\ Hands'
        BY <1>1, <2>1, <2>2 DEF IInv, QueueBounded, Allocation, Putting, Filling, Exist, Hands, Holds
    <3>4. Ready' BY <1>1, <2>2, <3>1 DEF Ready
    <3>5. OneOwner' BY <1>1, <2>2 DEF IInv, OneOwner, Undisturbed, Once, Holds
    <3> QED BY <3>2, <3>3, <3>4, <3>5 DEF IInv
  <2>3. CASE feeder' = "idle" /\ rtspPacketInfo' = 0 /\ UNCHANGED content
    <3>1. TypeOK' BY <1>1, <2>1, <2>3 DEF IInv, TypeOK
    <3>2. QueueBounded' /\ Allocation' /\ Exist' /\ Hands'
        BY <1>1, <1>2, <2>1, <2>3
           DEF IInv, QueueBounded, Allocation, Putting, Filling, Exist, Hands, Holds
    <3>3. Ready' BY <2>3 DEF Ready
    <3>4. OneOwner'
        BY <1>1, <2>3, NobodyHoldsZero DEF IInv, OneOwner, Undisturbed, Once, Holds
    <3> QED BY <3>1, <3>2, <3>3, <3>4 DEF IInv
  <2> QED BY <1>3, <2>2, <2>3 DEF Copy
<1>4. CASE Length
  <2>1. /\ feeder = "length" /\ feeder' = "add" /\ cleared' = cleared \ {rtspPacketInfo}
        /\ UNCHANGED <<content, rtspPacketInfo>>
      BY <1>4 DEF Length, FeederGoes, filled
  <2>2. TypeOK' BY <1>1, <2>1 DEF IInv, TypeOK
  <2>3. QueueBounded' /\ Allocation' /\ Exist' /\ Hands'
      BY <1>1, <2>1 DEF IInv, QueueBounded, Allocation, Putting, Filling, Exist, Hands, Holds
  <2>4. Ready' BY <1>1, <2>1 DEF IInv, Ready, Undisturbed
  <2>5. OneOwner' BY <1>1, <2>1 DEF IInv, OneOwner, Undisturbed, Once, Holds
  <2> QED BY <2>2, <2>3, <2>4, <2>5 DEF IInv
<1> QED BY <1>3, <1>4

(* And queued. *)
LEMMA AddStep == ASSUME IInv, UNCHANGED discards, Add PROVE IInv'
<1>1. /\ UNCHANGED <<mRecycle, content, cleared, mColsed, packet, info, writer, out, allocated,
                     written, overloaded>>
      /\ feeder = "add" /\ feeder' = "idle" /\ rtspPacketInfo' = 0
      /\ mRtspPacketInfos' = Append(mRtspPacketInfos, rtspPacketInfo)
      /\ accepted' = Append(accepted, packet)
    BY DEF Add, FeederGoes, write, objects
<1>2. rtspPacketInfo \in Objects /\ Len(mRtspPacketInfos) <= Limit /\ rtspPacketInfo <= allocated
    BY <1>1 DEF IInv, TypeOK, Hands, Filling, Exist
<1>3. /\ mRtspPacketInfos' \in Seq(Objects) /\ Len(mRtspPacketInfos') = Len(mRtspPacketInfos) + 1
      /\ \A p : Holds(mRtspPacketInfos', p) <=> Holds(mRtspPacketInfos, p) \/ p = rtspPacketInfo
      /\ Once(mRtspPacketInfos) /\ ~Holds(mRtspPacketInfos, rtspPacketInfo) =>
             Once(mRtspPacketInfos')
    BY <1>1, <1>2, AppendHolds DEF IInv, TypeOK
<1>4. allocated \in Nat /\ packet \in 1 .. Packets
  <2>1. 1 <= rtspPacketInfo /\ rtspPacketInfo \in Int
      BY <1>2 DEF Objects
  <2> QED BY <1>2, <2>1, QueueAssumption DEF IInv, TypeOK, Allocation
<1>5. TypeOK'
  <2>1. accepted' \in Seq(1 .. Packets)
      BY <1>1, <1>4 DEF IInv, TypeOK
  <2> QED BY <1>1, <1>3, <2>1 DEF IInv, TypeOK
<1>6. QueueBounded'
    BY <1>2, <1>3, QueueAssumption DEF QueueBounded, IInv, TypeOK
<1>7. Allocation'
    BY <1>1 DEF IInv, Allocation, Putting, Filling
<1>8. Exist'
  <2>1. \A p \in Objects : Holds(mRecycle', p) \/ Holds(mRtspPacketInfos', p) => p <= allocated'
      BY <1>1, <1>2, <1>3 DEF IInv, Exist, Holds
  <2> QED BY <1>1, <1>4, <2>1 DEF IInv, Exist
<1>9. Hands' /\ Ready'
    BY <1>1 DEF IInv, Hands, Filling, Ready
<1>10. OneOwner'
  <2> SUFFICES ASSUME Undisturbed
               PROVE  /\ Once(mRecycle) /\ Once(mRtspPacketInfos')
                      /\ \A p \in Objects : ~(Holds(mRecycle, p) /\ Holds(mRtspPacketInfos', p))
                      /\ ~Holds(mRecycle, out) /\ ~Holds(mRtspPacketInfos', out)
                      /\ ~Holds(mRecycle, 0) /\ ~Holds(mRtspPacketInfos', 0)
      BY <1>1 DEF OneOwner, Undisturbed, Once, Holds
  <2>1. 0 # rtspPacketInfo
      BY <1>2, QueueAssumption DEF Objects
  <2>2. out # rtspPacketInfo
      BY <2>1 DEF IInv, OneOwner
  <2> QED BY <1>3, <2>1, <2>2, NobodyHoldsZero DEF IInv, OneOwner
<1> QED BY <1>5, <1>6, <1>7, <1>8, <1>9, <1>10 DEF IInv

-----------------------------------------------------------------------------
(* The inductive invariant holds of every behaviour of the queue.          *)
LEMMA Invariance == Spec => []IInv
<1>1. ASSUME Init PROVE IInv
  <2>1. \A o : ~Holds(mRecycle, o) /\ ~Holds(mRtspPacketInfos, o)
      BY <1>1 DEF Init, Holds
  <2>2. TypeOK
    <3>1. mRecycle \in Seq(Objects) /\ mRtspPacketInfos \in Seq(Objects) /\ Len(mRecycle) = 0
        BY <1>1 DEF Init
    <3>2. 0 \in 0 .. Packets /\ 0 <= PoolSize
        BY QueueAssumption
    <3>3. accepted \in Seq(1 .. Packets) /\ written \in Seq(0 .. Packets)
        BY <1>1 DEF Init
    <3> QED BY <1>1, <3>1, <3>2, <3>3 DEF Init, TypeOK
  <2>3. QueueBounded /\ Allocation
      BY <1>1, QueueAssumption DEF Init, QueueBounded, Allocation, Putting, Filling
  <2>4. Exist /\ Hands /\ Ready BY <1>1, <2>1 DEF Init, Exist, Hands, Filling, Ready
  <2>5. OneOwner BY <1>1, <2>1 DEF Init, OneOwner, Once
  <2> QED BY <2>2, <2>3, <2>4, <2>5 DEF IInv
<1>2. IInv /\ [Next]_vars => IInv'
  <2> SUFFICES ASSUME IInv, [Next]_vars PROVE IInv'
      OBVIOUS
  <2>1. CASE UNCHANGED vars
    <3>1. TypeOK' BY <2>1 DEF vars, IInv, TypeOK
    <3>2. QueueBounded' /\ Allocation' /\ Exist'
        BY <2>1 DEF vars, IInv, QueueBounded, Allocation, Putting, Filling, Exist, Holds
    <3>3. Hands' /\ Ready' BY <2>1 DEF vars, IInv, Hands, Ready, Filling, Undisturbed
    <3>4. OneOwner' BY <2>1 DEF vars, IInv, OneOwner, Undisturbed, Once, Holds
    <3> QED BY <3>1, <3>2, <3>3, <3>4 DEF IInv
  <2> QED BY <2>1, QuietSteps, DiscardSteps, TakeStep, GiveBackStep, FinallyStep, StoreStep,
            FillSteps, AddStep
          DEF Next, Feeder, Writer
<1> QED BY <1>1, <1>2, PTL DEF Spec

(* Every variable keeps its type; the pool never holds more than its size   *)
(* and never more objects exist than packets were put (RecycleObjectPool:  *)
(* 13-18).                                                                 *)
THEOREM Typing == Spec => []TypeOK
BY Invariance, PTL DEF IInv

(* The queue of an output is bounded, in both classes                       *)
(* (MediaOutputStreamRunnable1:76-80).                                     *)
THEOREM Bounded == Spec => []QueueBounded
BY Invariance, PTL DEF IInv

(* No two of pool, queue, feeder and writer share an object, as long as the *)
(* discarding of the RTSP subclass has found no large queue.               *)
THEOREM Ownership == Spec => []OneOwner
BY Invariance, PTL DEF IInv

-----------------------------------------------------------------------------
(* What the stream would get of a sequence of objects, f telling what it   *)
(* gets of one.                                                            *)
Through(f, seq) == [i \in DOMAIN seq |-> f[seq[i]]]

Sendings == 0 .. Packets
Gets == [o \in Objects |-> Sent(o)]

LEMMA ThroughType ==
    ASSUME NEW f \in [Objects -> Sendings], NEW seq \in Seq(Objects)
    PROVE  /\ Through(f, seq) \in Seq(Sendings)
           /\ Len(Through(f, seq)) = Len(seq)
           /\ \A i \in 1 .. Len(seq) : Through(f, seq)[i] = f[seq[i]]
<1>1. /\ Len(seq) \in Nat /\ DOMAIN seq = 1 .. Len(seq)
      /\ \A i \in 1 .. Len(seq) : seq[i] \in Objects
    BY LenProperties
<1>2. Through(f, seq) \in [1 .. Len(seq) -> Sendings]
    BY <1>1 DEF Through
<1>3. Through(f, seq) \in Seq(Sendings)
    BY <1>1, <1>2, SeqDef
<1>4. Len(Through(f, seq)) = Len(seq)
    BY <1>1, <1>2, <1>3, LenProperties
<1> QED BY <1>1, <1>3, <1>4 DEF Through

(* An object that is appended is sent last. *)
LEMMA ThroughAppend ==
    ASSUME NEW f \in [Objects -> Sendings], NEW seq \in Seq(Objects), NEW e \in Objects
    PROVE  Through(f, Append(seq, e)) = Append(Through(f, seq), f[e])
<1> DEFINE a == Append(seq, e)
           l == Through(f, a)
           r == Append(Through(f, seq), f[e])
<1>1. /\ a \in Seq(Objects) /\ Len(a) = Len(seq) + 1 /\ Len(seq) \in Nat
      /\ \A i \in 1 .. Len(seq) : a[i] = seq[i]
      /\ a[Len(seq) + 1] = e
    OBVIOUS
<1> HIDE DEF a
<1>2. /\ l \in Seq(Sendings) /\ Len(l) = Len(seq) + 1
      /\ \A i \in 1 .. Len(seq) + 1 : l[i] = f[a[i]]
    BY <1>1, ThroughType
<1>3. /\ Through(f, seq) \in Seq(Sendings) /\ Len(Through(f, seq)) = Len(seq)
      /\ \A i \in 1 .. Len(seq) : Through(f, seq)[i] = f[seq[i]]
    BY ThroughType
<1>4. /\ r \in Seq(Sendings) /\ Len(r) = Len(seq) + 1
      /\ \A i \in 1 .. Len(seq) : r[i] = f[seq[i]]
      /\ r[Len(seq) + 1] = f[e]
    BY <1>3
<1> HIDE DEF l, r
<1>5. \A i \in 1 .. Len(l) : l[i] = r[i]
    BY <1>1, <1>2, <1>4
<1>6. l = r
    BY <1>2, <1>4, <1>5, SeqEqual
<1> QED BY <1>6 DEF l, r, a

(* The oldest object is sent first. *)
LEMMA ThroughHead ==
    ASSUME NEW f \in [Objects -> Sendings], NEW seq \in Seq(Objects), seq # <<>>
    PROVE  Through(f, seq) = <<f[Head(seq)]>> \o Through(f, Tail(seq))
<1> DEFINE t == Tail(seq)
           l == Through(f, seq)
           r == <<f[Head(seq)]>> \o Through(f, t)
<1>1. /\ t \in Seq(Objects) /\ Len(seq) \in Nat \ {0} /\ Len(t) = Len(seq) - 1
      /\ \A i \in 1 .. Len(t) : t[i] = seq[i + 1]
      /\ Head(seq) = seq[1] /\ Head(seq) \in Objects
    OBVIOUS
<1> HIDE DEF t
<1>2. /\ l \in Seq(Sendings) /\ Len(l) = Len(seq)
      /\ \A i \in 1 .. Len(seq) : l[i] = f[seq[i]]
    BY ThroughType
<1>3. /\ Through(f, t) \in Seq(Sendings) /\ Len(Through(f, t)) = Len(t)
      /\ \A i \in 1 .. Len(t) : Through(f, t)[i] = f[t[i]]
    BY <1>1, ThroughType
<1>4. <<f[Head(seq)]>> \in Seq(Sendings) /\ Len(<<f[Head(seq)]>>) = 1 /\ f[Head(seq)] \in Sendings
    BY <1>1
<1>5. /\ r \in Seq(Sendings) /\ Len(r) = 1 + Len(t)
      /\ \A i \in 1 .. 1 + Len(t) :
             r[i] = IF i <= 1 THEN <<f[Head(seq)]>>[i] ELSE Through(f, t)[i - 1]
    BY <1>3, <1>4, ConcatProperties
<1> HIDE DEF l, r
<1>6. \A i \in 1 .. Len(l) : l[i] = r[i]
  <2> SUFFICES ASSUME NEW i \in 1 .. Len(l) PROVE l[i] = r[i]
      OBVIOUS
  <2>1. CASE i = 1 BY <1>1, <1>2, <1>5, <2>1
  <2>2. CASE i # 1
    <3>1. i \in 1 .. 1 + Len(t) /\ ~(i <= 1) /\ i - 1 \in 1 .. Len(t) /\ (i - 1) + 1 = i
        BY <1>1, <1>2, <2>2
    <3>2. r[i] = Through(f, t)[i - 1] /\ t[i - 1] = seq[i]
        BY <1>1, <1>5, <3>1
    <3> QED BY <1>2, <1>3, <3>1, <3>2
  <2> QED BY <2>1, <2>2
<1>7. Len(l) = Len(r)
    BY <1>1, <1>2, <1>5
<1>8. l = r
    BY <1>2, <1>5, <1>6, <1>7, SeqEqual
<1> QED BY <1>8 DEF l, r, t

(* What happens to objects that are not in a sequence does not change what *)
(* is sent of it.                                                          *)
LEMMA ThroughSame ==
    ASSUME NEW f \in [Objects -> Sendings], NEW g \in [Objects -> Sendings], NEW seq \in Seq(Objects),
           \A o \in Objects : Holds(seq, o) => f[o] = g[o]
    PROVE  Through(f, seq) = Through(g, seq)
<1>1. \A i \in DOMAIN seq : seq[i] \in Objects /\ f[seq[i]] = g[seq[i]]
    BY LenProperties DEF Holds
<1> QED BY <1>1 DEF Through

-----------------------------------------------------------------------------
(* What is queued is what the stream would get of the queued objects.      *)
QueueSends ==
    /\ Gets \in [Objects -> Sendings]
    /\ Queued = Through(Gets, mRtspPacketInfos)
    /\ Queued \in Seq(Sendings)

LEMMA QueuedThrough == TypeOK => QueueSends
<1> SUFFICES ASSUME TypeOK PROVE QueueSends
    OBVIOUS
<1>1. Gets \in [Objects -> Sendings]
  <2>1. \A o \in Objects : Sent(o) \in Sendings
      BY QueueAssumption DEF TypeOK, Sent, Sendings
  <2> QED BY <2>1 DEF Gets
<1>2. mRtspPacketInfos \in Seq(Objects)
    BY DEF TypeOK
<1>3. \A i \in DOMAIN mRtspPacketInfos : mRtspPacketInfos[i] \in Objects
    BY <1>2, LenProperties
<1>4. Queued = Through(Gets, mRtspPacketInfos)
    BY <1>3 DEF Queued, Through, Gets
<1> QED BY <1>1, <1>2, <1>4, ThroughType DEF QueueSends

LEMMA QueuedThroughNext == TypeOK' => QueueSends'
BY QueuedThrough, PTL

(* What is appended to the end of a line of packets goes to its last part. *)
LEMMA LineAppend ==
    ASSUME NEW w \in Seq(Sendings), NEW q \in Seq(Sendings), NEW e \in Sendings
    PROVE  Append(w \o q, e) = w \o Append(q, e)
<1>1. <<e>> \in Seq(Sendings) /\ w \o q \in Seq(Sendings)
    OBVIOUS
<1>2. Append(w \o q, e) = (w \o q) \o <<e>>
    BY <1>1, AppendIsConcat
<1>3. Append(q, e) = q \o <<e>>
    BY AppendIsConcat
<1>4. (w \o q) \o <<e>> = w \o (q \o <<e>>)
    BY <1>1, ConcatAssociative
<1> QED BY <1>2, <1>3, <1>4

(* A writer that is at work has been at work, and a queue once found large *)
(* stays found.                                                            *)
AtWork == Undisturbed /\ writer \notin {"finally", "done"}

LEMMA StaysLarge ==
    ASSUME [Next]_vars
    PROVE  discards' = discards /\ (overloaded => overloaded')
<1>1. discards' = discards
    BY DEF Next, Feeder, Writer, vars
<1>2. overloaded => overloaded'
    BY DEF Next, Feeder, Writer, vars, Put, Get, GetFails, Remove, RemoveFails, Removed, Recycle,
           Intercept, Store, Copy, Length, Add, Loop, Take, Write, WriteFails, GiveBack,
           Finally, Close, history
<1> QED BY <1>1, <1>2

LEMMA WasAtWork ==
    ASSUME [Next]_vars, AtWork'
    PROVE  AtWork
<1>1. writer \in {"finally", "done"} => writer' \in {"finally", "done"}
    BY DEF Next, Feeder, Writer, vars, Put, Get, GetFails, Remove, RemoveFails, Removed, Recycle,
           Intercept, Store, Copy, Length, Add, Loop, Take, Write, WriteFails, GiveBack,
           Finally, Close,
           WriterGoes, write
<1> QED BY <1>1, StaysLarge DEF AtWork, Undisturbed

(* The line of the packets that were accepted: those written, the one in   *)
(* hand, those queued.                                                     *)
Line == written \o InHand \o Queued

LineKind ==
    /\ written \in Seq(Sendings) /\ InHand \in Seq(Sendings) /\ Queued \in Seq(Sendings)
    /\ written \o InHand \in Seq(Sendings)

LEMMA LineType == IInv => LineKind
<1> SUFFICES ASSUME IInv PROVE LineKind
    OBVIOUS
<1>1. written \in Seq(Sendings)
    BY DEF IInv, TypeOK, Sendings
<1>2. Queued \in Seq(Sendings)
    BY QueuedThrough DEF IInv, QueueSends
<1>3. InHand \in Seq(Sendings)
  <2>1. CASE writer = "write"
    <3>1. out \in Objects
        BY <2>1 DEF IInv, TypeOK, Hands
    <3>2. Sent(out) \in Sendings
        BY <3>1, QueueAssumption DEF IInv, TypeOK, Sent, Sendings
    <3> QED BY <2>1, <3>2 DEF InHand
  <2>2. CASE writer # "write" BY <2>2 DEF InHand
  <2> QED BY <2>1, <2>2
<1> QED BY <1>1, <1>2, <1>3, ConcatProperties DEF LineKind

LEMMA LineKindNext == IInv' => LineKind'
BY LineType, PTL

(* Steps that move no packet. *)
LEMMA LineKept ==
    ASSUME IInv, \/ Put \/ Get \/ GetFails \/ RemoveFails \/ Intercept \/ Store \/ Loop
                 \/ Close \/ UNCHANGED vars
    PROVE  Line' = Line /\ accepted' = accepted
<1>1. UNCHANGED <<mRtspPacketInfos, content, cleared, out, accepted, written>>
    BY DEF Put, Get, GetFails, RemoveFails, Removed, Intercept, Store, Loop, Close, objects, write,
           history, vars
<1>2. writer' = writer \/ (writer = "loop" /\ writer' # "write")
    BY DEF Put, Get, GetFails, RemoveFails, Removed, Intercept, Store, Loop, Close, write, vars
<1>3. InHand' = InHand BY <1>1, <1>2 DEF InHand, Sent
<1>4. Queued' = Queued BY <1>1 DEF Queued, Sent
<1> QED BY <1>1, <1>3, <1>4 DEF Line

(* The packet in hand is written. *)
LEMMA LineWrite == ASSUME IInv, Write PROVE Line' = Line /\ accepted' = accepted
<1>1. /\ UNCHANGED <<mRtspPacketInfos, content, cleared, out, accepted>>
      /\ writer = "write" /\ writer' = "recycle"
      /\ written' = Append(written, Sent(out))
    BY DEF Write, WriterGoes, objects
<1>2. Queued' = Queued BY <1>1 DEF Queued, Sent
<1>3. InHand = <<Sent(out)>> /\ InHand' = <<>>
    BY <1>1 DEF InHand
<1>4. Sent(out) \in Sendings
  <2>1. out \in Objects
      BY <1>1 DEF IInv, TypeOK, Hands
  <2> QED BY <2>1, QueueAssumption DEF IInv, TypeOK, Sent, Sendings
<1>5. written' = written \o InHand
    BY <1>1, <1>3, <1>4, LineType, AppendIsConcat DEF LineKind
<1>6. written' \o <<>> = written'
    BY <1>5, LineType, ConcatEmptySeq DEF LineKind
<1> QED BY <1>1, <1>2, <1>3, <1>5, <1>6 DEF Line

(* The oldest packet comes into the hand of the writer. *)
LEMMA LineTake ==
    ASSUME IInv, IInv', Take, mRtspPacketInfos # <<>>
    PROVE  Line' = Line /\ accepted' = accepted
<1>1. /\ UNCHANGED <<content, cleared, written, accepted>>
      /\ writer = "remove" /\ writer' = "write"
      /\ out' = Head(mRtspPacketInfos) /\ mRtspPacketInfos' = Tail(mRtspPacketInfos)
    BY DEF Take, objects, history
<1>2. QueueSends /\ QueueSends'
    BY QueuedThrough, QueuedThroughNext DEF IInv
<1>3. Gets' = Gets BY <1>1 DEF Gets, Sent
<1>4. /\ Head(mRtspPacketInfos) \in Objects /\ Tail(mRtspPacketInfos) \in Seq(Objects)
      /\ mRtspPacketInfos \in Seq(Objects)
    BY TailHolds DEF IInv, TypeOK
<1>5. InHand = <<>> /\ InHand' = <<Gets[Head(mRtspPacketInfos)]>>
    BY <1>1, <1>4 DEF InHand, Gets, Sent
<1>6. Queued = InHand' \o Queued'
    BY <1>1, <1>2, <1>3, <1>4, <1>5, ThroughHead DEF QueueSends
<1>7. InHand' \in Seq(Sendings) /\ Queued' \in Seq(Sendings) /\ written \in Seq(Sendings)
    BY <1>2, <1>4, <1>5, LineType DEF QueueSends, LineKind
<1>8. (written \o InHand') \o Queued' = written \o (InHand' \o Queued')
    BY <1>7, ConcatAssociative
<1>9. written \o InHand = written
    BY <1>5, <1>7, ConcatEmptySeq
<1> QED BY <1>1, <1>6, <1>8, <1>9 DEF Line

(* The object that is given back is not in the queue. *)
LEMMA LineGiveBack ==
    ASSUME IInv, IInv', GiveBack, Undisturbed
    PROVE  Line' = Line /\ accepted' = accepted
<1>1. /\ UNCHANGED <<mRtspPacketInfos, content, written, accepted>>
      /\ writer = "recycle" /\ writer' = "loop" /\ cleared' = cleared \cup {out}
    BY DEF GiveBack, WriterGoes, history
<1>2. QueueSends /\ QueueSends'
    BY QueuedThrough, QueuedThroughNext DEF IInv
<1>3. ASSUME NEW o \in Objects, Holds(mRtspPacketInfos, o) PROVE Gets[o] = Gets'[o]
  <2>1. o # out
      BY <1>3 DEF IInv, OneOwner
  <2>2. Sent(o) = Sent(o)'
      BY <1>1, <2>1 DEF Sent
  <2> QED BY <2>2 DEF Gets
<1>4. mRtspPacketInfos \in Seq(Objects)
    BY DEF IInv, TypeOK
<1>5. Queued' = Queued
    BY <1>1, <1>2, <1>3, <1>4, ThroughSame DEF QueueSends
<1>6. InHand = <<>> /\ InHand' = <<>>
    BY <1>1 DEF InHand
<1> QED BY <1>1, <1>5, <1>6 DEF Line

(* The object that is filled is neither queued nor in hand. *)
LEMMA LineFill ==
    ASSUME IInv, IInv', Copy \/ Length, Undisturbed
    PROVE  Line' = Line /\ accepted' = accepted
<1>1. UNCHANGED <<mRtspPacketInfos, writer, out, written, accepted>>
    BY DEF Copy, Length, write, history
<1>2. \A o \in Objects : o # rtspPacketInfo => Sent(o)' = Sent(o)
    BY DEF Copy, Length, IInv, TypeOK, Sent
<1>3. ~Holds(mRtspPacketInfos, rtspPacketInfo) /\ (out = rtspPacketInfo => out = 0)
    BY DEF IInv, OneOwner
<1>4. QueueSends /\ QueueSends'
    BY QueuedThrough, QueuedThroughNext DEF IInv
<1>5. \A o \in Objects : Holds(mRtspPacketInfos, o) => Gets[o] = Gets'[o]
    BY <1>2, <1>3 DEF Gets
<1>6. mRtspPacketInfos \in Seq(Objects)
    BY DEF IInv, TypeOK
<1>7. Queued' = Queued
    BY <1>1, <1>4, <1>5, <1>6, ThroughSame DEF QueueSends
<1>8. InHand' = InHand
  <2>1. CASE writer = "write"
    <3>1. out \in Objects /\ out # 0
        BY <2>1 DEF IInv, TypeOK, Hands
    <3>2. Sent(out)' = Sent(out)
        BY <1>1, <1>2, <1>3, <3>1
    <3> QED BY <1>1, <2>1, <3>2 DEF InHand
  <2>2. CASE writer # "write" BY <1>1, <2>2 DEF InHand
  <2> QED BY <2>1, <2>2
<1> QED BY <1>1, <1>7, <1>8 DEF Line

(* An accepted packet comes last. *)
LEMMA LineAdd ==
    ASSUME IInv, IInv', Add, Undisturbed
    PROVE  Line' = Append(Line, packet) /\ accepted' = Append(accepted, packet)
<1>1. /\ UNCHANGED <<content, cleared, packet, writer, out, written>> /\ feeder = "add"
      /\ mRtspPacketInfos' = Append(mRtspPacketInfos, rtspPacketInfo)
      /\ accepted' = Append(accepted, packet)
    BY DEF Add, FeederGoes, write, objects
<1>2. rtspPacketInfo \in Objects
    BY <1>1 DEF IInv, TypeOK, Hands, Filling
<1>3. Gets' = Gets /\ Gets[rtspPacketInfo] = packet
  <2>1. Gets' = Gets BY <1>1 DEF Gets, Sent
  <2>2. Sent(rtspPacketInfo) = packet
      BY <1>1 DEF IInv, Ready, Sent
  <2> QED BY <1>2, <2>1, <2>2 DEF Gets
<1>4. QueueSends /\ QueueSends'
    BY QueuedThrough, QueuedThroughNext DEF IInv
<1>5. mRtspPacketInfos \in Seq(Objects) /\ packet \in Sendings
    BY DEF IInv, TypeOK, Sendings
<1>6. Queued' = Append(Queued, packet)
  <2>1. Queued' = Append(Through(Gets, mRtspPacketInfos), Gets[rtspPacketInfo])
      BY <1>1, <1>2, <1>3, <1>4, <1>5, ThroughAppend DEF QueueSends
  <2> QED BY <1>3, <1>4, <2>1 DEF QueueSends
<1>7. InHand' = InHand BY <1>1 DEF InHand, Sent
<1> QED BY <1>1, <1>5, <1>6, <1>7, LineType, LineAppend DEF Line, LineKind

(* A step of a writer at work changes the line as it changes what was      *)
(* accepted.                                                               *)
LEMMA LineStep ==
    ASSUME IInv, IInv', [Next]_vars, AtWork'
    PROVE  \/ Line' = Line /\ accepted' = accepted
           \/ Line' = Append(Line, packet) /\ accepted' = Append(accepted, packet)
<1>1. AtWork
    BY WasAtWork
<1>2. CASE \/ Put \/ Get \/ GetFails \/ RemoveFails \/ Intercept \/ Store \/ Loop
           \/ Close \/ UNCHANGED vars
    BY <1>2, LineKept
<1>3. CASE Remove \/ Recycle
    BY <1>1, <1>3 DEF AtWork, Undisturbed, Remove, Recycle, FeederGoes, IInv, Hands
<1>4. CASE Write BY <1>4, LineWrite
<1>5. CASE WriteFails \/ Finally
    BY <1>5 DEF AtWork, WriteFails, Finally, WriterGoes
<1>6. CASE Take
  <2>1. mRtspPacketInfos # <<>>
      BY <1>6 DEF Take, AtWork
  <2> QED BY <1>6, <2>1, LineTake
<1>7. CASE GiveBack BY <1>1, <1>7, LineGiveBack DEF AtWork
<1>8. CASE Copy \/ Length BY <1>1, <1>8, LineFill DEF AtWork
<1>9. CASE Add BY <1>1, <1>9, LineAdd DEF AtWork
<1> QED BY <1>2, <1>3, <1>4, <1>5, <1>6, <1>7, <1>8, <1>9 DEF Next, Feeder, Writer

(* What was accepted is written in order and unchanged, and what is not    *)
(* yet written is in hand or queued, as long as the discarding has found   *)
(* no large queue and the writer is at work.                               *)
THEOREM Order == Spec => []InOrder
<1>1. Init => InOrder
  <2> SUFFICES ASSUME Init PROVE InOrder
      OBVIOUS
  <2>1. accepted = <<>> /\ written = <<>> /\ InHand = <<>>
      BY DEF Init, InHand
  <2>2. Queued = <<>>
      BY DEF Init, Queued
  <2> QED BY <2>1, <2>2 DEF InOrder
<1>2. IInv /\ IInv' /\ InOrder /\ [Next]_vars => InOrder'
  <2> SUFFICES ASSUME IInv, IInv', InOrder, [Next]_vars, AtWork'
               PROVE  accepted' = Line'
      BY DEF InOrder, AtWork, Line
  <2>1. accepted = Line
      BY WasAtWork DEF InOrder, AtWork, Line
  <2> QED BY <2>1, LineStep
<1> QED BY <1>1, <1>2, Invariance, PTL DEF Spec

-----------------------------------------------------------------------------
(* Packets are accepted in the order in which they are put, each once.     *)
Numbered ==
    /\ \A i, j \in 1 .. Len(accepted) : i < j => accepted[i] < accepted[j]
    /\ \A i \in 1 .. Len(accepted) : accepted[i] <= packet /\ (Putting => accepted[i] < packet)

(* What was written is the beginning of what was accepted.                 *)
Begun == Undisturbed => \E rest \in Seq(Sendings) : accepted = written \o rest

(* What a step does to the two histories and to the number of the packet.  *)
LEMMA Histories ==
    ASSUME IInv, [Next]_vars
    PROVE  /\ \/ accepted' = accepted
              \/ Add /\ accepted' = Append(accepted, packet)
           /\ writer' \in {"finally", "done"} => written' = written
           /\ \/ packet' = packet /\ (Putting' => Putting)
              \/ packet' = packet + 1 /\ ~Putting
<1> USE DEF Removed, history, feed, FeederGoes, WriterGoes, Putting
<1>1. CASE Put \/ Get \/ GetFails \/ Remove \/ RemoveFails \/ Recycle \/ Intercept
    BY <1>1 DEF Put, Get, GetFails, Remove, RemoveFails, Recycle, Intercept
<1>2. CASE Store \/ Copy \/ Length \/ Add
    BY <1>2 DEF Store, Copy, Length, Add
<1>3. CASE Loop \/ Take \/ Write \/ WriteFails \/ GiveBack \/ Finally \/ Close
    BY <1>3 DEF Loop, Take, Write, WriteFails, GiveBack, Finally, Close
<1>4. CASE UNCHANGED vars BY <1>4 DEF vars
<1> QED BY <1>1, <1>2, <1>3, <1>4 DEF Next, Feeder, Writer

LEMMA NumberedStep == IInv /\ Numbered /\ [Next]_vars => Numbered'
<1> SUFFICES ASSUME IInv, Numbered, [Next]_vars PROVE Numbered'
    OBVIOUS
<1>1. accepted \in Seq(1 .. Packets) /\ packet \in Nat
    BY QueueAssumption DEF IInv, TypeOK
<1>2. \A i \in 1 .. Len(accepted) : accepted[i] \in Nat
  <2>1. \A i \in 1 .. Len(accepted) : accepted[i] \in 1 .. Packets
      BY <1>1, ElementOfSeq
  <2> QED BY <2>1, QueueAssumption
<1>3. CASE accepted' = accepted
  <2>1. \A i \in 1 .. Len(accepted') :
            accepted'[i] <= packet' /\ (Putting' => accepted'[i] < packet')
    <3>1. CASE packet' = packet /\ (Putting' => Putting)
        BY <1>3, <3>1 DEF Numbered
    <3>2. CASE packet' = packet + 1 /\ ~Putting
      <4>1. \A i \in 1 .. Len(accepted) : accepted[i] < packet + 1
          BY <1>1, <1>2 DEF Numbered
      <4> QED BY <1>1, <1>2, <1>3, <3>2, <4>1
    <3> QED BY <3>1, <3>2, Histories
  <2>2. \A i, j \in 1 .. Len(accepted') : i < j => accepted'[i] < accepted'[j]
      BY <1>3 DEF Numbered
  <2> QED BY <2>1, <2>2 DEF Numbered
<1>4. CASE Add /\ accepted' = Append(accepted, packet)
  <2>1. packet' = packet /\ Putting /\ ~Putting'
      BY <1>4 DEF Add, FeederGoes, Putting
  <2>2. /\ Len(accepted') = Len(accepted) + 1 /\ Len(accepted) \in Nat
        /\ \A i \in 1 .. Len(accepted) : accepted'[i] = accepted[i]
        /\ accepted'[Len(accepted) + 1] = packet
      BY <1>1, <1>4
  <2>3. \A i \in 1 .. Len(accepted) : accepted[i] < packet
      BY <2>1 DEF Numbered
  <2>4. \A i \in 1 .. Len(accepted') : accepted'[i] <= packet
      BY <1>1, <1>2, <2>2, <2>3
  <2>5. ASSUME NEW i \in 1 .. Len(accepted'), NEW j \in 1 .. Len(accepted'), i < j
        PROVE  accepted'[i] < accepted'[j]
    <3>1. i \in 1 .. Len(accepted) BY <2>2, <2>5
    <3>2. CASE j = Len(accepted) + 1 BY <2>2, <2>3, <3>1, <3>2
    <3>3. CASE j # Len(accepted) + 1
      <4>1. j \in 1 .. Len(accepted) BY <2>2, <3>3
      <4> QED BY <2>2, <2>5, <3>1, <4>1 DEF Numbered
    <3> QED BY <3>2, <3>3
  <2> QED BY <2>1, <2>4, <2>5 DEF Numbered
<1> QED BY <1>3, <1>4, Histories

LEMMA BegunStep == IInv /\ IInv' /\ InOrder' /\ Begun /\ [Next]_vars => Begun'
<1> SUFFICES ASSUME IInv, IInv', InOrder', Begun, [Next]_vars, Undisturbed'
             PROVE  \E rest \in Seq(Sendings) : accepted' = written' \o rest
    BY DEF Begun
<1>1. CASE writer' \notin {"finally", "done"}
  <2>1. accepted' = (written' \o InHand') \o Queued'
      BY <1>1 DEF InOrder
  <2>2. LineKind' BY LineKindNext
  <2>3. /\ written' \in Seq(Sendings) /\ InHand' \in Seq(Sendings) /\ Queued' \in Seq(Sendings)
      BY <2>2 DEF LineKind
  <2>4. accepted' = written' \o (InHand' \o Queued') /\ InHand' \o Queued' \in Seq(Sendings)
      BY <2>1, <2>3, ConcatAssociative, ConcatProperties
  <2> QED BY <2>4
<1>2. CASE writer' \in {"finally", "done"}
  <2>1. Undisturbed /\ written' = written
      BY <1>2, StaysLarge, Histories DEF Undisturbed
  <2>2. PICK rest \in Seq(Sendings) : accepted = written \o rest
      BY <2>1 DEF Begun
  <2>3. CASE accepted' = accepted BY <2>1, <2>2, <2>3
  <2>4. CASE Add /\ accepted' = Append(accepted, packet)
    <3>1. packet \in Sendings
        BY DEF IInv, TypeOK, Sendings
    <3>2. accepted' = written \o Append(rest, packet) /\ Append(rest, packet) \in Seq(Sendings)
      <4>1. written \in Seq(Sendings)
          BY LineType DEF LineKind
      <4>2. Append(rest, packet) \in Seq(Sendings)
          BY <3>1, AppendProperties
      <4>3. Append(written \o rest, packet) = written \o Append(rest, packet)
          BY <3>1, <4>1, LineAppend
      <4> QED BY <2>2, <2>4, <4>2, <4>3
    <3> QED BY <2>1, <3>2
  <2> QED BY <2>3, <2>4, Histories
<1> QED BY <1>1, <1>2

(* Whatever the writer has written, also when the output has ended: it is   *)
(* the beginning of what was accepted, so no packet is left out, repeated,  *)
(* overtaken or blank (MediaOutputStreamRunnable1:72-98, 126-150).         *)
WrittenAsPut ==
    Undisturbed =>
        /\ Len(written) <= Len(accepted)
        /\ \A i \in 1 .. Len(written) : written[i] = accepted[i] /\ written[i] # 0
        /\ \A i, j \in 1 .. Len(written) : i < j => written[i] < written[j]

(* As long as the discarding has found no large queue, the stream of every  *)
(* output is a beginning of what was accepted, each packet once.           *)
THEOREM Unbroken == Spec => []WrittenAsPut
<1>1. Init => Numbered /\ Begun
  <2> SUFFICES ASSUME Init PROVE Numbered /\ Begun
      OBVIOUS
  <2>1. accepted = <<>> /\ written = <<>>
      BY DEF Init
  <2>2. accepted = written \o <<>> /\ <<>> \in Seq(Sendings)
      BY <2>1
  <2>3. Numbered BY <2>1 DEF Numbered
  <2> QED BY <2>2, <2>3 DEF Begun
<1>2. IInv /\ IInv' /\ InOrder' /\ (Numbered /\ Begun) /\ [Next]_vars => (Numbered /\ Begun)'
    BY NumberedStep, BegunStep
<1>3. IInv /\ Numbered /\ Begun => WrittenAsPut
  <2> SUFFICES ASSUME IInv, Numbered, Begun, Undisturbed
               PROVE  /\ Len(written) <= Len(accepted)
                      /\ \A i \in 1 .. Len(written) : written[i] = accepted[i] /\ written[i] # 0
                      /\ \A i, j \in 1 .. Len(written) : i < j => written[i] < written[j]
      BY DEF WrittenAsPut
  <2>1. PICK rest \in Seq(Sendings) : accepted = written \o rest
      BY DEF Begun
  <2>2. written \in Seq(Sendings) /\ accepted \in Seq(1 .. Packets)
      BY LineType DEF IInv, TypeOK, LineKind
  <2>3. /\ Len(accepted) = Len(written) + Len(rest) /\ Len(written) \in Nat /\ Len(rest) \in Nat
        /\ \A i \in 1 .. Len(written) : accepted[i] = written[i]
      BY <2>1, <2>2, ConcatProperties
  <2>4. 1 .. Len(written) \subseteq 1 .. Len(accepted) /\ Len(written) <= Len(accepted)
      BY <2>3
  <2>5. \A i \in 1 .. Len(written) : written[i] = accepted[i] /\ written[i] # 0
    <3>1. \A i \in 1 .. Len(accepted) : accepted[i] \in 1 .. Packets
        BY <2>2, ElementOfSeq
    <3> QED BY <2>3, <2>4, <3>1
  <2>6. \A i, j \in 1 .. Len(written) : i < j => written[i] < written[j]
      BY <2>3, <2>4 DEF Numbered
  <2> QED BY <2>4, <2>5, <2>6
<1> QED BY <1>1, <1>2, <1>3, Invariance, Order, PTL DEF Spec

=============================================================================
