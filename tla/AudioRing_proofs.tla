-------------------------- MODULE AudioRing_proofs --------------------------
(***************************************************************************)
(* Proofs about AudioRing, for every capacity, latency, length of buffers  *)
(* and precision of the position, and every number of streams: what is     *)
(* rendered was captured as what it is rendered as, in the stream it is    *)
(* rendered for, and a stalled tail is not played twice.                   *)
(***************************************************************************)
EXTENDS AudioRing, TLAPS

USE RingAssumption

(* Steps of the driver, between those that change streamEpoch and the last *)
(* that clears a tag; steps that store a frame.                            *)
Wiping == {"resetWrite", "resetStart", "clear"}
Storing == {"check", "zeroTag", "store", "setTag"}

(* Steps of a read that has decided to render. *)
Rendering == Loading \union {"checkEpoch", "checkActive"}

(* What is captured lies past writeFrame and below [end]; IO that is not   *)
(* running is inactive.                                                    *)
DriverShape ==
    /\ wpc \in Resetting \union {"stopped"} => ~ active
    /\ wpc = "resetEpoch" => streamEpoch < MaxStreams
    /\ wpc = "clear" => frame \in Slots
    /\ wpc \in Storing => frame < end
    /\ wpc = "advance" => end = frame + 1
    /\ wpc \in Storing \union {"advance"} => writeFrame <= frame

(* A tag tells what its slot holds: a frame of the present stream. *)
TagsAreGenuine ==
    /\ wpc \notin Wiping =>
          \A s \in Slots : tag[s] # 0 =>
              stereo[s] = [stream |-> streamEpoch, frame |-> tag[s] - 1]
    /\ wpc = "clear" => \A s \in Slots : s < frame => tag[s] = 0
    /\ wpc \in {"store", "setTag"} => tag[Slot(frame)] = 0
    /\ wpc = "setTag" => stereo[Slot(frame)] = [stream |-> streamEpoch, frame |-> frame]

(* What the local variables of a read are, by how far it is. *)
ReaderShape ==
    /\ rpc \notin Rendering => rendered = 0 /\ ~ second /\ loaded = {}
    /\ rpc \in Loading => rendered < FrameCount
    /\ rpc \in {"checkEpoch", "checkActive"} => rendered = FrameCount
    /\ rpc \notin {"idle", "epoch"} => epoch <= streamEpoch
    /\ rpc \in Rendering => synchronized /\ epochSeen = epoch

(* Where the position was when the read began. *)
Begun == readFrame - rendered * ratio

(* Where it will be at the end of the buffer: with a frame to spare.       *)
WithinWritten ==
    rpc \in Rendering =>
        /\ Begun >= 0
        /\ readFrame + (FrameCount - rendered) * ratio < (written - 1) * Scale

(* A read whose epoch is still the stream's has found the ring wiped, and  *)
(* has rendered what its tags say: the frame that it waits for cannot be   *)
(* captured again.                                                         *)
Genuine == \A l \in loaded : l.sample = [stream |-> epoch, frame |-> l.frame]

Undisturbed ==
    ~ disturbed =>
        /\ rpc = "epoch" => wpc \notin Resetting
        /\ rpc \notin {"idle", "epoch"} /\ streamEpoch = epoch =>
              /\ wpc \notin Wiping
              /\ rpc # "write" => written <= writeFrame
              /\ rpc = "secondTag" /\ tag[Slot(Source)] = Source + 1 =>
                    bits = [stream |-> epoch, frame |-> Source]
              /\ Genuine
        /\ rpc = "checkActive" => Genuine

(* While the driver does nothing, a reader that has kept its position has  *)
(* passed what was played, and one that has lost it will find the latency  *)
(* past that; unless there is a gap in the tail.                           *)
Stalled ==
    played > 0 =>
        /\ active /\ epochSeen = streamEpoch
        /\ rpc \notin {"idle", "epoch"} => epoch = streamEpoch
        /\ rpc \notin {"idle", "epoch", "write"} => written = writeFrame
        /\ rpc \in Rendering => writeFrame - streamStart >= Latency
        /\ synchronized => readFrame < writeFrame * Scale
        /\ synchronized /\ TailIsWhole => played <= Begun
        /\ ~ synchronized /\ TailIsWhole => played <= (writeFrame - Latency) * Scale

IInv ==
    /\ TypeOK /\ DriverShape /\ TagsAreGenuine
    /\ ReaderShape /\ WithinWritten /\ Undisturbed /\ Stalled

-----------------------------------------------------------------------------
(* Arithmetic *)

(* A frame has its slot in the ring. *)
LEMMA SlotInRing == ASSUME NEW f \in Nat PROVE Slot(f) \in Slots
<1>1. Capacity > 0
    OBVIOUS
<1>2. f % Capacity \in 0..(Capacity - 1)
    BY <1>1
<1> QED
    BY <1>2 DEF Slot, Slots

(* Units of the position grow with its frames. *)
LEMMA ScaleMonotone ==
    ASSUME NEW m \in Int, NEW n \in Int, m <= n
    PROVE  m * Scale <= n * Scale
<1>1. (n - m) * Scale >= 0
    OBVIOUS
<1>2. (n - m) * Scale = n * Scale - m * Scale
    OBVIOUS
<1> QED
    BY <1>1, <1>2

(* The frame of a position is below n exactly if the position is below the *)
(* first unit of n.                                                        *)
LEMMA FrameOfPosition ==
    ASSUME NEW x \in Nat, NEW n \in Int
    PROVE  /\ x \div Scale \in Nat
           /\ (x \div Scale) * Scale <= x
           /\ x \div Scale < n <=> x < n * Scale
<1> DEFINE q == x \div Scale
<1>1. q \in Nat /\ x % Scale \in Nat /\ x % Scale < Scale
    OBVIOUS
<1>2. x = Scale * q + (x % Scale)
    OBVIOUS
<1>3. Scale * q = q * Scale
    BY <1>1
<1>4. (q + 1) * Scale = q * Scale + Scale
    BY <1>1
<1>5. q * Scale <= x /\ x < (q + 1) * Scale
    <2> HIDE DEF q
    <2>1. q * Scale \in Nat
        BY <1>1
    <2> QED
        BY <1>1, <1>2, <1>3, <1>4, <2>1
<1>6. q < n => x < n * Scale
    <2> HIDE DEF q
    <2>1. q < n => (q + 1) * Scale <= n * Scale
        BY <1>1, ScaleMonotone
    <2>2. n * Scale \in Int /\ (q + 1) * Scale \in Int
        BY <1>1
    <2> QED
        BY <1>5, <2>1, <2>2
<1>7. q >= n => x >= n * Scale
    <2> HIDE DEF q
    <2>1. q >= n => n * Scale <= q * Scale
        BY <1>1, ScaleMonotone
    <2>2. n * Scale \in Int /\ q * Scale \in Int
        BY <1>1
    <2> QED
        BY <1>5, <2>1, <2>2
<1>8. n * Scale \in Int
    OBVIOUS
<1> QED
    BY <1>1, <1>5, <1>6, <1>7, <1>8

(* The frames required hold a buffer, with two to spare. *)
LEMMA RequiredSuffices ==
    ASSUME NEW r \in (Scale - 1)..(Scale + 1)
    PROVE  /\ Required(r) \in Nat
           /\ FrameCount * r \in Nat
           /\ FrameCount * r <= (Required(r) - 2) * Scale
<1> DEFINE x == FrameCount * r + Scale - 1
<1>1. r \in Nat /\ FrameCount * r \in Nat
    OBVIOUS
<1>2. x \in Nat
    BY <1>1
<1>3. x \div Scale \in Nat
    BY <1>2
<1>4. x \div Scale < (x \div Scale) + 1
    BY <1>3
<1>5. x < ((x \div Scale) + 1) * Scale
    <2> HIDE DEF x
    <2> QED
        BY <1>2, <1>3, <1>4, FrameOfPosition
<1>6. ((x \div Scale) + 1) * Scale = (x \div Scale) * Scale + Scale
    <2> HIDE DEF x
    <2> QED
        BY <1>3
<1>7. (x \div Scale) * Scale \in Int
    BY <1>3
<1>8. FrameCount * r <= (x \div Scale) * Scale
    BY <1>1, <1>5, <1>6, <1>7
<1>9. Required(r) = (x \div Scale) + 2
    BY DEF Required
<1>10. Required(r) - 2 = x \div Scale
    BY <1>3, <1>9
<1> QED
    BY <1>1, <1>3, <1>8, <1>9, <1>10

(* One frame more of a buffer is one frame less to come. *)
LEMMA OneFrame ==
    ASSUME NEW r \in (Scale - 1)..(Scale + 1), NEW k \in 0..FrameCount
    PROVE  /\ r \in Nat /\ k * r \in Nat /\ (FrameCount - k) * r \in Nat
           /\ (k + 1) * r = k * r + r
           /\ (FrameCount - (k + 1)) * r = (FrameCount - k) * r - r
           /\ k < FrameCount => r <= (FrameCount - k) * r
           /\ (FrameCount - FrameCount) * r = 0 /\ 0 * r = 0
<1>1. r \in Nat /\ k \in Nat /\ FrameCount - k \in Nat
    OBVIOUS
<1>2. k * r \in Nat /\ (FrameCount - k) * r \in Nat
    BY <1>1
<1>3. (k + 1) * r = k * r + r
    BY <1>1
<1>4. (FrameCount - (k + 1)) * r = (FrameCount - k) * r - r
    BY <1>1
<1>5. k < FrameCount => r <= (FrameCount - k) * r
    <2>1. k < FrameCount => (FrameCount - (k + 1)) * r \in Nat
        BY <1>1
    <2> QED
        BY <1>1, <1>2, <1>4, <2>1
<1>6. (FrameCount - FrameCount) * r = 0 /\ 0 * r = 0
    BY <1>1
<1> QED
    BY <1>1, <1>2, <1>3, <1>4, <1>5, <1>6

(* The frame that a read waits for is one that was written.                *)
LEMMA WaitsForWritten ==
    ASSUME IInv, rpc \in Loading
    PROVE  /\ Source \in Nat /\ Source < written
           /\ readFrame \div Scale \in Nat
<1> DEFINE rest == (FrameCount - rendered) * ratio
<1>1. /\ readFrame \in Nat /\ written \in Nat /\ rendered \in 0..FrameCount
      /\ ratio \in (Scale - 1)..(Scale + 1) /\ second \in BOOLEAN
    BY DEF IInv, TypeOK, Frames
<1>2. readFrame + rest < (written - 1) * Scale
    BY DEF IInv, WithinWritten, Rendering
<1>3. rest \in Nat
    BY <1>1, OneFrame
<1>4. (written - 1) * Scale \in Int
    BY <1>1
<1>5. readFrame < (written - 1) * Scale
    <2> HIDE DEF rest
    <2> QED
        BY <1>1, <1>2, <1>3, <1>4
<1>6. readFrame \div Scale \in Nat /\ readFrame \div Scale < written - 1
    BY <1>1, <1>5, FrameOfPosition
<1>7. CASE second
    BY <1>1, <1>6, <1>7 DEF Source
<1>8. CASE ~ second
    BY <1>1, <1>6, <1>8 DEF Source
<1> QED
    BY <1>1, <1>7, <1>8

-----------------------------------------------------------------------------
(* Steps of the driver *)

(* What a step of the driver leaves alone suffices for most of what is     *)
(* known of the reader.                                                    *)
LEMMA DriverKeepsReader ==
    ASSUME IInv, DriverOnly, streamEpoch' \in Nat, streamEpoch' >= streamEpoch
    PROVE  ReaderShape' /\ WithinWritten' /\ Stalled'
<1>1. /\ UNCHANGED <<synchronized, readFrame, epochSeen, rpc, epoch, written, ratio,
                     rendered, second, bits, loaded>>
      /\ played' = 0
    BY DEF DriverOnly, readerVars, localVars
<1>2. /\ epoch \in Nat /\ streamEpoch \in Nat
    BY DEF IInv, TypeOK, Streams
<1>3. ReaderShape'
    BY <1>1, <1>2 DEF IInv, ReaderShape, Rendering, Loading
<1>4. WithinWritten'
    <2>1. Begun' = Begun
        BY <1>1 DEF Begun
    <2> QED
        BY <1>1, <2>1 DEF IInv, WithinWritten, Rendering, Loading
<1>5. Stalled'
    BY <1>1 DEF Stalled
<1> QED
    BY <1>3, <1>4, <1>5

(* An undisturbed read is not disturbed by a step that neither starts IO   *)
(* nor wipes, and that puts on no slot the tag of a frame already written. *)
LEMMA DriverKeepsRead ==
    ASSUME IInv, DriverOnly,
           streamEpoch' = streamEpoch,
           wpc' \in Wiping => wpc \in Wiping,
           wpc \in Wiping \/ writeFrame <= writeFrame',
           wpc \in Wiping \/
              \A s \in Slots : tag'[s] = tag[s] \/ tag'[s] = 0 \/ tag'[s] > writeFrame,
           writeFrame' \in Frames
    PROVE  Undisturbed'
<1> DEFINE S == Source
<1>1. /\ UNCHANGED <<synchronized, readFrame, epochSeen, rpc, epoch, written, ratio,
                     rendered, second, bits, loaded>>
      /\ disturbed' = (disturbed \/ (rpc = "epoch" /\ wpc' \in Resetting))
    BY DEF DriverOnly, readerVars, localVars
<1>2. disturbed \in BOOLEAN
    BY DEF IInv, TypeOK
<1>3. /\ written \in Nat /\ writeFrame \in Nat /\ writeFrame' \in Nat
    BY DEF IInv, TypeOK, Frames
<1>4. SUFFICES ASSUME ~ disturbed' PROVE Undisturbed'
    BY DEF Undisturbed
<1>5. ~ disturbed /\ (rpc = "epoch" => wpc' \notin Resetting)
    BY <1>1, <1>2, <1>4
<1>6. Genuine' <=> Genuine
    BY <1>1 DEF Genuine
<1>7. rpc = "checkActive" => Genuine'
    BY <1>5, <1>6 DEF IInv, Undisturbed
<1>8. ASSUME rpc \notin {"idle", "epoch"}, streamEpoch = epoch
      PROVE  /\ wpc' \notin Wiping
             /\ rpc # "write" => written <= writeFrame'
             /\ Genuine'
    <2>1. /\ wpc \notin Wiping /\ Genuine
          /\ rpc # "write" => written <= writeFrame
        BY <1>5, <1>8 DEF IInv, Undisturbed
    <2> QED
        BY <2>1, <1>3, <1>6
<1>9. ASSUME rpc = "secondTag", streamEpoch = epoch, tag'[Slot(S)] = S + 1
      PROVE  bits = [stream |-> epoch, frame |-> S]
    <2>1. /\ wpc \notin Wiping /\ written <= writeFrame
          /\ tag[Slot(S)] = S + 1 => bits = [stream |-> epoch, frame |-> S]
        BY <1>5, <1>9 DEF IInv, Undisturbed
    <2>2. S \in Nat /\ S < written
        BY <1>9, WaitsForWritten DEF Loading
    <2>3. Slot(S) \in Slots
        BY <2>2, SlotInRing
    <2>4. tag'[Slot(S)] = tag[Slot(S)] \/ tag'[Slot(S)] = 0 \/ tag'[Slot(S)] > writeFrame
        BY <2>1, <2>3
    <2>5. tag'[Slot(S)] # 0 /\ ~ tag'[Slot(S)] > writeFrame
        BY <1>9, <2>1, <2>2, <1>3
    <2> QED
        BY <1>9, <2>1, <2>4, <2>5
<1>10. Source' = Source
    BY <1>1 DEF Source
<1>11. Slot(Source)' = Slot(Source)
    BY <1>10 DEF Slot
<1> QED
    BY <1>1, <1>5, <1>7, <1>8, <1>9, <1>10, <1>11 DEF Undisturbed

(* The driver leaves the types of what the reader has alone.               *)
LEMMA DriverTypes ==
    ASSUME IInv, DriverOnly,
           tag' \in [Slots -> 0..(MaxFrame + 1)],
           stereo' \in [Slots -> [stream : Streams, frame : Frames]],
           writeFrame' \in Frames, streamStart' \in Frames, end' \in Frames,
           frame' \in Frames \union Slots,
           streamEpoch' \in Streams, active' \in BOOLEAN,
           wpc' \in {"stopped", "running"} \union Resetting \union Capturing
    PROVE  TypeOK'
<1>1. /\ UNCHANGED <<synchronized, readFrame, epochSeen, rpc, epoch, written, ratio,
                     rendered, second, bits, loaded>>
      /\ disturbed' = (disturbed \/ (rpc = "epoch" /\ wpc' \in Resetting))
      /\ played' = 0
    BY DEF DriverOnly, readerVars, localVars
<1>2. (MaxFrame + 1) * Scale \in Nat
    OBVIOUS
<1>3. 0 \in 0..((MaxFrame + 1) * Scale)
    <2> DEFINE top == (MaxFrame + 1) * Scale
    <2> HIDE DEF top
    <2>1. top \in Nat
        BY <1>2 DEF top
    <2>2. 0 \in 0..top
        BY <2>1
    <2> QED
        BY <2>2 DEF top
<1>4. disturbed' \in BOOLEAN
    BY <1>1
<1>5. TypeOK
    BY DEF IInv
<1>6. /\ epochSeen \in Streams /\ epoch \in Streams /\ written \in Frames
      /\ synchronized \in BOOLEAN /\ second \in BOOLEAN
      /\ readFrame \in 0..((MaxFrame + 1) * Scale)
    BY <1>5 DEF TypeOK
<1>7. /\ {writeFrame, streamStart, end, written}' \subseteq Frames
      /\ {streamEpoch, epochSeen, epoch}' \subseteq Streams
      /\ {active, synchronized, second, disturbed}' \subseteq BOOLEAN
      /\ {readFrame, played}' \subseteq 0..((MaxFrame + 1) * Scale)
    BY <1>1, <1>3, <1>4, <1>6
<1>8. /\ rpc' \in {"idle", "epoch", "write", "start", "checkEpoch", "checkActive"}
                 \union Loading
      /\ ratio' \in (Scale - 1)..(Scale + 1)
      /\ rendered' \in 0..FrameCount
      /\ bits' \in [stream : Streams, frame : Frames]
      /\ \A l \in loaded' : l.frame \in Frames
    BY <1>1, <1>5 DEF TypeOK
<1>9. /\ Slots' = Slots /\ Streams' = Streams /\ Frames' = Frames
    BY DEF Slots, Streams, Frames
<1> QED
    BY <1>7, <1>8, <1>9 DEF TypeOK

(* IO stops: the ring is as it was, but inactive.                          *)
LEMMA StopIOKeeps == ASSUME IInv, StopIO PROVE IInv'
<1>1. TypeOK
    BY DEF IInv
<1>2. /\ DriverOnly /\ wpc = "running" /\ wpc' = "stopped" /\ active' = FALSE
      /\ UNCHANGED <<tag, stereo, writeFrame, streamStart, streamEpoch, frame, end>>
    BY DEF StopIO, Becomes
<1>3. writeFrame \in Nat /\ streamEpoch \in Nat
    BY <1>1 DEF TypeOK, Frames, Streams
<1>4. TypeOK'
    BY <1>1, <1>2, DriverTypes DEF TypeOK
<1>5. DriverShape'
    BY <1>2 DEF DriverShape, Resetting, Storing
<1>6. TagsAreGenuine'
    BY <1>2 DEF IInv, TagsAreGenuine, Wiping
<1>7. ReaderShape' /\ WithinWritten' /\ Stalled'
    BY <1>2, <1>3, DriverKeepsReader
<1>8. Undisturbed'
    BY <1>1, <1>2, <1>3, DriverKeepsRead DEF Wiping, TypeOK
<1> QED
    BY <1>4, <1>5, <1>6, <1>7, <1>8 DEF IInv

(* IO starts: the reset is about to begin.                                 *)
LEMMA StartIOKeeps == ASSUME IInv, StartIO PROVE IInv'
<1>1. TypeOK
    BY DEF IInv
<1>2. /\ DriverOnly /\ wpc = "stopped" /\ wpc' = "resetEpoch" /\ active' = FALSE
      /\ streamEpoch < MaxStreams
      /\ UNCHANGED <<tag, stereo, writeFrame, streamStart, streamEpoch, frame, end>>
    BY DEF StartIO, Becomes
<1>3. writeFrame \in Nat /\ streamEpoch \in Nat
    BY <1>1 DEF TypeOK, Frames, Streams
<1>4. TypeOK'
    BY <1>1, <1>2, DriverTypes DEF TypeOK, Resetting
<1>5. DriverShape'
    BY <1>2 DEF DriverShape, Resetting, Storing
<1>6. TagsAreGenuine'
    BY <1>2 DEF IInv, TagsAreGenuine, Wiping
<1>7. ReaderShape' /\ WithinWritten' /\ Stalled'
    BY <1>2, <1>3, DriverKeepsReader
<1>8. Undisturbed'
    BY <1>1, <1>2, <1>3, DriverKeepsRead DEF Wiping, TypeOK
<1> QED
    BY <1>4, <1>5, <1>6, <1>7, <1>8 DEF IInv

(* A new epoch: no read has loaded it yet.                                 *)
LEMMA ResetEpochKeeps == ASSUME IInv, ResetEpoch PROVE IInv'
<1>1. TypeOK /\ DriverShape
    BY DEF IInv
<1>2. /\ DriverOnly /\ wpc = "resetEpoch" /\ wpc' = "resetWrite"
      /\ streamEpoch' = streamEpoch + 1
      /\ UNCHANGED <<tag, stereo, writeFrame, streamStart, active, frame, end>>
    BY DEF ResetEpoch, Becomes
<1>3. /\ streamEpoch \in Nat /\ streamEpoch < MaxStreams /\ streamEpoch' \in Streams
    BY <1>1, <1>2 DEF TypeOK, Streams, DriverShape
<1>4. TypeOK'
    BY <1>1, <1>2, <1>3, DriverTypes DEF TypeOK, Resetting
<1>5. DriverShape'
    BY <1>1, <1>2 DEF DriverShape, Resetting, Storing
<1>6. TagsAreGenuine'
    BY <1>2 DEF TagsAreGenuine, Wiping
<1>7. ReaderShape' /\ WithinWritten' /\ Stalled'
    BY <1>2, <1>3, DriverKeepsReader
<1>8. /\ UNCHANGED <<rpc, epoch, loaded>>
      /\ disturbed' = (disturbed \/ (rpc = "epoch" /\ wpc' \in Resetting))
    BY <1>2 DEF DriverOnly, readerVars, localVars
<1>9. rpc \notin {"idle", "epoch"} => epoch # streamEpoch'
    <2>1. rpc \notin {"idle", "epoch"} => epoch <= streamEpoch
        BY DEF IInv, ReaderShape
    <2>2. epoch \in Nat
        BY <1>1 DEF TypeOK, Streams
    <2> QED
        BY <1>2, <1>3, <2>1, <2>2
<1>10. Undisturbed'
    <2>1. SUFFICES ASSUME ~ disturbed' PROVE Undisturbed'
        BY DEF Undisturbed
    <2>2. ~ disturbed /\ (rpc = "epoch" => wpc' \notin Resetting)
        BY <1>8, <2>1
    <2>3. Genuine' <=> Genuine
        BY <1>8 DEF Genuine
    <2>4. rpc = "checkActive" => Genuine'
        BY <2>2, <2>3 DEF IInv, Undisturbed
    <2> QED
        BY <1>8, <1>9, <2>2, <2>4 DEF Undisturbed
<1> QED
    BY <1>4, <1>5, <1>6, <1>7, <1>10 DEF IInv

(* The bounds of the stream are set back.                                  *)
LEMMA ResetBoundsKeep == ASSUME IInv, ResetWriteFrame \/ ResetStart PROVE IInv'
<1>1. TypeOK /\ DriverShape
    BY DEF IInv
<1>2. /\ DriverOnly
      /\ \/ wpc = "resetWrite" /\ wpc' = "resetStart" /\ writeFrame' = 0
            /\ UNCHANGED <<streamStart, frame>>
         \/ wpc = "resetStart" /\ wpc' = "clear" /\ streamStart' = 0 /\ frame' = 0
            /\ UNCHANGED writeFrame
      /\ UNCHANGED <<tag, stereo, streamEpoch, active, end>>
    BY DEF ResetWriteFrame, ResetStart, Becomes
<1>3. /\ writeFrame \in Nat /\ streamEpoch \in Nat /\ 0 \in Frames /\ 0 \in Slots
    BY <1>1 DEF TypeOK, Frames, Streams, Slots
<1>4. TypeOK'
    <2>1. /\ writeFrame' \in Frames /\ streamStart' \in Frames
          /\ frame' \in Frames \union Slots
          /\ wpc' \in {"stopped", "running"} \union Resetting \union Capturing
        BY <1>1, <1>2, <1>3 DEF TypeOK, Resetting
    <2> QED
        BY <1>1, <1>2, <2>1, DriverTypes DEF TypeOK
<1>5. DriverShape'
    BY <1>1, <1>2, <1>3 DEF DriverShape, Resetting, Storing, Slots
<1>6. TagsAreGenuine'
    BY <1>2 DEF TagsAreGenuine, Wiping, Slots
<1>7. ReaderShape' /\ WithinWritten' /\ Stalled'
    BY <1>2, <1>3, DriverKeepsReader
<1>8. Undisturbed'
    <2>1. wpc \in Wiping /\ writeFrame' \in Frames
        BY <1>1, <1>2, <1>3 DEF Wiping, TypeOK
    <2> QED
        BY <1>2, <2>1, DriverKeepsRead
<1> QED
    BY <1>4, <1>5, <1>6, <1>7, <1>8 DEF IInv

(* Tags are cleared in order; then none is left.                           *)
LEMMA ClearTagKeeps == ASSUME IInv, ClearTag PROVE IInv'
<1>1. TypeOK /\ DriverShape /\ TagsAreGenuine
    BY DEF IInv
<1>2. /\ DriverOnly /\ wpc = "clear"
      /\ tag' = [tag EXCEPT ![frame] = 0]
      /\ \/ frame = Capacity - 1 /\ wpc' = "running" /\ frame' = 0
         \/ frame # Capacity - 1 /\ wpc' = wpc /\ frame' = frame + 1
      /\ UNCHANGED <<stereo, writeFrame, streamStart, streamEpoch, active, end>>
    BY DEF ClearTag, Becomes
<1>3. /\ writeFrame \in Nat /\ streamEpoch \in Nat /\ frame \in Slots /\ 0 \in Frames
    BY <1>1, <1>2 DEF TypeOK, Frames, Streams, DriverShape
<1>4. frame' \in Slots
    BY <1>2, <1>3 DEF Slots
<1>5. /\ tag \in [Slots -> 0..(MaxFrame + 1)] /\ 0 \in 0..(MaxFrame + 1)
    BY <1>1 DEF TypeOK
<1>6. /\ tag' \in [Slots -> 0..(MaxFrame + 1)]
      /\ tag'[frame] = 0
      /\ \A s \in Slots : s # frame => tag'[s] = tag[s]
    BY <1>2, <1>3, <1>5
<1>7. TypeOK'
    <2>1. wpc' \in {"stopped", "running"} \union Resetting \union Capturing
        BY <1>2 DEF Resetting
    <2> QED
        BY <1>1, <1>2, <1>4, <1>6, <2>1, DriverTypes DEF TypeOK
<1>8. DriverShape'
    BY <1>1, <1>2, <1>4 DEF DriverShape, Resetting, Storing
<1>9. \A s \in Slots : s <= frame => tag'[s] = 0
    <2>1. \A s \in Slots : s < frame => tag[s] = 0
        BY <1>1, <1>2 DEF TagsAreGenuine
    <2>2. \A s \in Slots : s <= frame => s < frame \/ s = frame
        BY <1>3 DEF Slots
    <2> QED
        BY <1>6, <2>1, <2>2, <1>3 DEF Slots
<1>10. TagsAreGenuine'
    <2>1. CASE wpc' = "running"
        <3>1. \A s \in Slots : tag'[s] = 0
            BY <1>2, <1>3, <1>9, <2>1 DEF Slots
        <3> QED
            BY <2>1, <3>1 DEF TagsAreGenuine, Slots
    <2>2. CASE wpc' = "clear" /\ frame' = frame + 1
        <3>1. \A s \in Slots : s < frame' => tag'[s] = 0
            BY <1>3, <1>9, <2>2 DEF Slots
        <3> QED
            BY <2>2, <3>1 DEF TagsAreGenuine, Wiping, Slots
    <2> QED
        BY <1>2, <2>1, <2>2
<1>11. ReaderShape' /\ WithinWritten' /\ Stalled'
    BY <1>2, <1>3, DriverKeepsReader
<1>12. Undisturbed'
    BY <1>1, <1>2, <1>3, DriverKeepsRead DEF Wiping, TypeOK
<1> QED
    BY <1>7, <1>8, <1>10, <1>11, <1>12 DEF IInv

(* What is captured lies past writeFrame, and of a long write only what    *)
(* the ring can hold.                                                      *)
LEMMA CaptureKeeps ==
    ASSUME IInv, NEW gap \in Gaps, NEW count \in Chunks, Capture(gap, count)
    PROVE  IInv'
<1> DEFINE skipped == IF count > Capacity THEN count - Capacity ELSE 0
<1>1. TypeOK /\ DriverShape /\ TagsAreGenuine
    BY DEF IInv
<1>2. /\ DriverOnly /\ wpc = "running" /\ wpc' = "check"
      /\ frame' = writeFrame + gap + skipped /\ end' = writeFrame + gap + count
      /\ writeFrame + gap + count <= MaxFrame
      /\ UNCHANGED <<tag, stereo, writeFrame, streamStart, streamEpoch, active>>
    BY DEF Capture, Becomes, ringVars
<1>3. /\ writeFrame \in Nat /\ streamEpoch \in Nat
      /\ gap \in Nat /\ count \in Nat /\ count > 0
    BY <1>1 DEF TypeOK, Frames, Streams
<1>4. skipped \in Nat /\ skipped < count
    BY <1>3
<1>5. frame' \in Nat /\ end' \in Frames /\ frame' < end' /\ writeFrame <= frame'
    <2> HIDE DEF skipped
    <2> QED
        BY <1>2, <1>3, <1>4 DEF Frames
<1>6. frame' \in Frames
    BY <1>5 DEF Frames
<1>7. TypeOK'
    BY <1>1, <1>2, <1>5, <1>6, DriverTypes DEF TypeOK, Capturing
<1>8. DriverShape'
    BY <1>2, <1>5 DEF DriverShape, Resetting, Storing
<1>9. TagsAreGenuine'
    BY <1>1, <1>2 DEF TagsAreGenuine, Wiping
<1>10. ReaderShape' /\ WithinWritten' /\ Stalled'
    BY <1>2, <1>3, DriverKeepsReader
<1>11. Undisturbed'
    BY <1>1, <1>2, <1>3, DriverKeepsRead DEF Wiping, TypeOK
<1> QED
    BY <1>7, <1>8, <1>9, <1>10, <1>11 DEF IInv

(* The first capture of a stream moves writeFrame forward to it.           *)
LEMMA CheckActiveKeeps == ASSUME IInv, CheckActive PROVE IInv'
<1>1. TypeOK /\ DriverShape /\ TagsAreGenuine
    BY DEF IInv
<1>2. /\ DriverOnly /\ wpc = "check" /\ wpc' = "zeroTag"
      /\ \/ UNCHANGED <<streamStart, writeFrame>>
         \/ streamStart' = frame /\ writeFrame' = frame
      /\ UNCHANGED <<tag, stereo, streamEpoch, active, frame, end>>
    BY DEF CheckActive, Becomes
<1>3. /\ writeFrame \in Nat /\ streamEpoch \in Nat /\ end \in Frames
      /\ frame < end /\ writeFrame <= frame /\ frame \in Frames \union Slots
    BY <1>1, <1>2 DEF TypeOK, Frames, Streams, DriverShape, Storing
<1>4. frame \in Frames
    BY <1>3 DEF Frames, Slots
<1>5. writeFrame' \in Frames /\ streamStart' \in Frames
    BY <1>1, <1>2, <1>4 DEF TypeOK
<1>6. writeFrame <= writeFrame' /\ writeFrame' <= frame
    BY <1>2, <1>3, <1>4 DEF Frames
<1>7. TypeOK'
    BY <1>1, <1>2, <1>5, DriverTypes DEF TypeOK, Capturing
<1>8. DriverShape'
    BY <1>2, <1>3, <1>6 DEF DriverShape, Resetting, Storing
<1>9. TagsAreGenuine'
    BY <1>1, <1>2 DEF TagsAreGenuine, Wiping
<1>10. ReaderShape' /\ WithinWritten' /\ Stalled'
    BY <1>2, <1>3, DriverKeepsReader
<1>11. Undisturbed'
    BY <1>2, <1>5, <1>6, DriverKeepsRead DEF Wiping
<1> QED
    BY <1>7, <1>8, <1>9, <1>10, <1>11 DEF IInv

(* What a step of a store finds. *)
LEMMA StoreFacts ==
    ASSUME IInv, wpc \in {"zeroTag", "store", "setTag"}
    PROVE  /\ frame \in Frames /\ frame \in Nat /\ frame + 1 <= end /\ end \in Nat
           /\ Slot(frame) \in Slots
           /\ writeFrame \in Nat /\ writeFrame <= frame
           /\ streamEpoch \in Nat /\ streamEpoch \in Streams
<1>1. /\ writeFrame \in Nat /\ streamEpoch \in Streams /\ end \in Frames
      /\ frame < end /\ writeFrame <= frame /\ frame \in Frames \union Slots
    BY DEF IInv, TypeOK, Frames, Streams, DriverShape, Storing
<1>2. frame \in Nat /\ frame \in Frames /\ frame + 1 <= end /\ end \in Nat
    BY <1>1 DEF Frames, Slots
<1> QED
    BY <1>1, <1>2, SlotInRing DEF Streams

(* A slot without a tag holds nothing for a reader.                        *)
LEMMA ZeroTagKeeps == ASSUME IInv, ZeroTag PROVE IInv'
<1>1. TypeOK /\ DriverShape /\ TagsAreGenuine
    BY DEF IInv
<1>2. /\ DriverOnly /\ wpc = "zeroTag" /\ wpc' = "store"
      /\ tag' = [tag EXCEPT ![Slot(frame)] = 0]
      /\ UNCHANGED <<stereo, writeFrame, streamStart, streamEpoch, active, frame, end>>
    BY DEF ZeroTag, Becomes
<1>3. /\ Slot(frame) \in Slots /\ writeFrame \in Nat /\ streamEpoch \in Nat
      /\ writeFrame \in Frames
    BY <1>1, <1>2, StoreFacts DEF TypeOK
<1>4. tag \in [Slots -> 0..(MaxFrame + 1)] /\ 0 \in 0..(MaxFrame + 1)
    BY <1>1 DEF TypeOK
<1>5. /\ tag' \in [Slots -> 0..(MaxFrame + 1)]
      /\ tag'[Slot(frame)] = 0
      /\ \A s \in Slots : tag'[s] = tag[s] \/ tag'[s] = 0
    BY <1>2, <1>3, <1>4
<1>6. TypeOK'
    BY <1>1, <1>2, <1>5, DriverTypes DEF TypeOK, Capturing
<1>7. DriverShape'
    BY <1>1, <1>2 DEF DriverShape, Resetting, Storing
<1>8. Slot(frame)' = Slot(frame)
    BY <1>2 DEF Slot
<1>9. TagsAreGenuine'
    <2>1. \A s \in Slots : tag[s] # 0 =>
              stereo[s] = [stream |-> streamEpoch, frame |-> tag[s] - 1]
        BY <1>1, <1>2 DEF TagsAreGenuine, Wiping
    <2>2. \A s \in Slots : tag'[s] # 0 =>
              stereo'[s] = [stream |-> streamEpoch', frame |-> tag'[s] - 1]
        BY <1>2, <1>5, <2>1
    <2>3. tag'[Slot(frame)'] = 0
        BY <1>5, <1>8
    <2> QED
        BY <1>2, <2>2, <2>3 DEF TagsAreGenuine, Slots
<1>10. ReaderShape' /\ WithinWritten' /\ Stalled'
    BY <1>2, <1>3, DriverKeepsReader
<1>11. Undisturbed'
    BY <1>2, <1>3, <1>5, DriverKeepsRead DEF Wiping
<1> QED
    BY <1>6, <1>7, <1>9, <1>10, <1>11 DEF IInv

(* The sample goes to the slot that has no tag.                            *)
LEMMA StoreStereoKeeps == ASSUME IInv, StoreStereo PROVE IInv'
<1> DEFINE sample == [stream |-> streamEpoch, frame |-> frame]
<1>1. TypeOK /\ DriverShape /\ TagsAreGenuine
    BY DEF IInv
<1>2. /\ DriverOnly /\ wpc = "store" /\ wpc' = "setTag"
      /\ stereo' = [stereo EXCEPT ![Slot(frame)] = sample]
      /\ UNCHANGED <<tag, writeFrame, streamStart, streamEpoch, active, frame, end>>
    BY DEF StoreStereo, Becomes
<1>3. /\ Slot(frame) \in Slots /\ writeFrame \in Nat /\ streamEpoch \in Nat
      /\ writeFrame \in Frames /\ frame \in Frames /\ streamEpoch \in Streams
    BY <1>1, <1>2, StoreFacts DEF TypeOK
<1>4. /\ stereo \in [Slots -> [stream : Streams, frame : Frames]]
      /\ sample \in [stream : Streams, frame : Frames]
    BY <1>1, <1>3 DEF TypeOK
<1>5. /\ stereo' \in [Slots -> [stream : Streams, frame : Frames]]
      /\ stereo'[Slot(frame)] = sample
      /\ \A s \in Slots : s # Slot(frame) => stereo'[s] = stereo[s]
    <2> HIDE DEF sample
    <2> QED
        BY <1>2, <1>3, <1>4
<1>6. TypeOK'
    BY <1>1, <1>2, <1>5, DriverTypes DEF TypeOK, Capturing
<1>7. DriverShape'
    BY <1>1, <1>2 DEF DriverShape, Resetting, Storing
<1>8. Slot(frame)' = Slot(frame)
    BY <1>2 DEF Slot
<1>9. TagsAreGenuine'
    <2>1. /\ \A s \in Slots : tag[s] # 0 =>
                stereo[s] = [stream |-> streamEpoch, frame |-> tag[s] - 1]
          /\ tag[Slot(frame)] = 0
        BY <1>1, <1>2 DEF TagsAreGenuine, Wiping
    <2>2. \A s \in Slots : tag'[s] # 0 =>
              stereo'[s] = [stream |-> streamEpoch', frame |-> tag'[s] - 1]
        BY <1>2, <1>5, <2>1
    <2>3. tag'[Slot(frame)'] = 0
        BY <1>2, <1>8, <2>1
    <2>4. stereo'[Slot(frame)'] = [stream |-> streamEpoch', frame |-> frame']
        BY <1>2, <1>5, <1>8
    <2> QED
        BY <1>2, <2>2, <2>3, <2>4 DEF TagsAreGenuine, Slots
<1>10. ReaderShape' /\ WithinWritten' /\ Stalled'
    BY <1>2, <1>3, DriverKeepsReader
<1>11. Undisturbed'
    BY <1>2, <1>3, DriverKeepsRead DEF Wiping
<1> QED
    BY <1>6, <1>7, <1>9, <1>10, <1>11 DEF IInv

(* The tag is that of the sample, and of a frame that no read waits for.   *)
LEMMA SetTagKeeps == ASSUME IInv, SetTag PROVE IInv'
<1>1. TypeOK /\ DriverShape /\ TagsAreGenuine
    BY DEF IInv
<1>2. /\ DriverOnly /\ wpc = "setTag"
      /\ tag' = [tag EXCEPT ![Slot(frame)] = frame + 1]
      /\ \/ frame + 1 = end /\ wpc' = "advance" /\ frame' = frame
         \/ frame + 1 # end /\ wpc' = "zeroTag" /\ frame' = frame + 1
      /\ UNCHANGED <<stereo, writeFrame, streamStart, streamEpoch, active, end>>
    BY DEF SetTag, Becomes
<1>3. /\ Slot(frame) \in Slots /\ writeFrame \in Nat /\ streamEpoch \in Nat
      /\ writeFrame \in Frames /\ frame \in Frames /\ frame \in Nat
      /\ frame + 1 <= end /\ end \in Nat /\ writeFrame <= frame /\ end \in Frames
    BY <1>1, <1>2, StoreFacts DEF TypeOK
<1>4. tag \in [Slots -> 0..(MaxFrame + 1)] /\ frame + 1 \in 0..(MaxFrame + 1)
    BY <1>1, <1>3 DEF TypeOK, Frames
<1>5. /\ tag' \in [Slots -> 0..(MaxFrame + 1)]
      /\ tag'[Slot(frame)] = frame + 1
      /\ \A s \in Slots : s # Slot(frame) => tag'[s] = tag[s]
    BY <1>2, <1>3, <1>4
<1>6. frame' \in Frames
    BY <1>2, <1>3 DEF Frames
<1>7. TypeOK'
    <2>1. wpc' \in {"stopped", "running"} \union Resetting \union Capturing
        BY <1>2 DEF Capturing
    <2> QED
        BY <1>1, <1>2, <1>5, <1>6, <2>1, DriverTypes DEF TypeOK
<1>8. DriverShape'
    BY <1>2, <1>3 DEF DriverShape, Resetting, Storing
<1>9. TagsAreGenuine'
    <2>1. /\ \A s \in Slots : tag[s] # 0 =>
                stereo[s] = [stream |-> streamEpoch, frame |-> tag[s] - 1]
          /\ stereo[Slot(frame)] = [stream |-> streamEpoch, frame |-> frame]
        BY <1>1, <1>2 DEF TagsAreGenuine, Wiping
    <2>2. frame + 1 - 1 = frame
        BY <1>3
    <2>3. \A s \in Slots : tag'[s] # 0 =>
              stereo[s] = [stream |-> streamEpoch, frame |-> tag'[s] - 1]
        <3>1. stereo[Slot(frame)] = [stream |-> streamEpoch, frame |-> tag'[Slot(frame)] - 1]
            <4>1. tag'[Slot(frame)] = frame + 1
                BY <1>5
            <4>2. tag'[Slot(frame)] - 1 = frame
                BY <1>3, <4>1
            <4> QED
                BY <2>1, <4>2
        <3>2. ASSUME NEW s \in Slots, s # Slot(frame), tag'[s] # 0
              PROVE  stereo[s] = [stream |-> streamEpoch, frame |-> tag'[s] - 1]
            <4>1. tag'[s] = tag[s]
                BY <1>5, <3>2
            <4> QED
                BY <2>1, <3>2, <4>1
        <3> QED
            BY <3>1, <3>2
    <2>4. \A s \in Slots : tag'[s] # 0 =>
              stereo'[s] = [stream |-> streamEpoch', frame |-> tag'[s] - 1]
        BY <1>2, <2>3
    <2> QED
        BY <1>2, <2>4 DEF TagsAreGenuine, Slots
<1>10. ReaderShape' /\ WithinWritten' /\ Stalled'
    BY <1>2, <1>3, DriverKeepsReader
<1>11. Undisturbed'
    <2>1. \A s \in Slots : tag'[s] = tag[s] \/ tag'[s] > writeFrame
        BY <1>3, <1>5
    <2> QED
        BY <1>2, <1>3, <2>1, DriverKeepsRead DEF Wiping
<1> QED
    BY <1>7, <1>8, <1>9, <1>10, <1>11 DEF IInv

(* writeFrame moves to the end of what was stored, and then the stream is  *)
(* active.                                                                 *)
LEMMA AdvanceKeeps == ASSUME IInv, Advance \/ RaiseActive PROVE IInv'
<1>1. TypeOK /\ DriverShape /\ TagsAreGenuine
    BY DEF IInv
<1>2. /\ DriverOnly
      /\ \/ wpc = "advance" /\ wpc' = "raise" /\ writeFrame' = end
            /\ UNCHANGED <<active, frame, end>>
         \/ wpc = "raise" /\ wpc' = "running" /\ active' = TRUE
            /\ frame' = 0 /\ end' = 0 /\ UNCHANGED writeFrame
      /\ UNCHANGED <<tag, stereo, streamStart, streamEpoch>>
    BY DEF Advance, RaiseActive, Becomes
<1>3. /\ writeFrame \in Nat /\ streamEpoch \in Nat /\ end \in Frames /\ 0 \in Frames
      /\ frame \in Frames \union Slots
    BY <1>1 DEF TypeOK, Frames, Streams
<1>4. writeFrame' \in Frames /\ writeFrame <= writeFrame'
    <2>1. CASE wpc = "advance"
        <3>1. frame \in Nat
            BY <1>3 DEF Frames, Slots
        <3>2. end = frame + 1 /\ writeFrame <= frame /\ writeFrame' = end
            BY <1>1, <1>2, <2>1 DEF DriverShape
        <3> QED
            BY <1>3, <3>1, <3>2
    <2>2. CASE wpc = "raise"
        BY <1>1, <1>2, <1>3, <2>2 DEF TypeOK
    <2> QED
        BY <1>2, <2>1, <2>2
<1>5. TypeOK'
    <2>1. /\ wpc' \in {"stopped", "running"} \union Resetting \union Capturing
          /\ frame' \in Frames \union Slots /\ end' \in Frames
        BY <1>2, <1>3 DEF Capturing
    <2>2. active' \in BOOLEAN
        BY <1>1, <1>2 DEF TypeOK
    <2> QED
        BY <1>1, <1>2, <1>4, <2>1, <2>2, DriverTypes DEF TypeOK
<1>6. DriverShape'
    BY <1>1, <1>2 DEF DriverShape, Resetting, Storing
<1>7. TagsAreGenuine'
    BY <1>1, <1>2 DEF TagsAreGenuine, Wiping, Slots
<1>8. ReaderShape' /\ WithinWritten' /\ Stalled'
    BY <1>2, <1>3, DriverKeepsReader
<1>9. Undisturbed'
    BY <1>2, <1>4, DriverKeepsRead DEF Wiping
<1> QED
    BY <1>5, <1>6, <1>7, <1>8, <1>9 DEF IInv

-----------------------------------------------------------------------------
(* Steps of the reader *)

(* A read changes nothing that it shares with the driver.                  *)
LEMMA ReaderKeepsDriver ==
    ASSUME IInv, UNCHANGED <<ringVars, driverVars>>
    PROVE  DriverShape' /\ TagsAreGenuine' /\ (TailIsWhole' <=> TailIsWhole)
<1>1. UNCHANGED <<tag, stereo, writeFrame, streamStart, streamEpoch, active, wpc,
                  frame, end>>
    BY DEF ringVars, driverVars
<1>2. DriverShape'
    BY <1>1 DEF IInv, DriverShape, Slots
<1>3. Slot(frame)' = Slot(frame)
    BY <1>1 DEF Slot
<1>4. TagsAreGenuine'
    BY <1>1, <1>3 DEF IInv, TagsAreGenuine, Slots
<1>5. TailIsWhole' <=> TailIsWhole
    BY <1>1 DEF TailIsWhole, Slot
<1> QED
    BY <1>2, <1>4, <1>5

(* Positions, and where playing ended.                                     *)
Positions == 0..((MaxFrame + 1) * Scale)

(* A position is in range if it is at most that of the last frame.         *)
LEMMA PositionInRange ==
    /\ 0 \in Positions
    /\ \A x \in Nat : x <= MaxFrame * Scale => x \in Positions
    /\ \A n \in Frames : n * Scale \in Positions
<1>1. /\ MaxFrame * Scale \in Nat
      /\ (MaxFrame + 1) * Scale \in Nat
      /\ (MaxFrame + 1) * Scale = MaxFrame * Scale + Scale
    OBVIOUS
<1> DEFINE top == (MaxFrame + 1) * Scale
<1> DEFINE last == MaxFrame * Scale
<1>2. top \in Nat /\ last \in Nat /\ last <= top /\ Positions = 0..top
    BY <1>1 DEF Positions
<1>3. \A x \in Nat : x <= last => x \in Positions
    <2> HIDE DEF top, last
    <2> QED
        BY <1>2
<1>4. ASSUME NEW n \in Frames PROVE n * Scale \in Positions
    <2>1. n \in Nat /\ n <= MaxFrame
        BY DEF Frames
    <2>2. n * Scale \in Nat /\ n * Scale <= last
        BY <2>1, ScaleMonotone
    <2> HIDE DEF last
    <2> QED
        BY <1>3, <2>2
<1>5. 0 \in Positions
    <2> HIDE DEF top, last
    <2> QED
        BY <1>2
<1> QED
    BY <1>3, <1>4, <1>5

(* The reader leaves the types of what the driver has alone.               *)
LEMMA ReaderTypes ==
    ASSUME IInv, UNCHANGED <<ringVars, driverVars>>,
           synchronized' \in BOOLEAN, readFrame' \in Positions, epochSeen' \in Streams,
           rpc' \in {"idle", "epoch", "write", "start", "checkEpoch", "checkActive"}
                      \union Loading,
           epoch' \in Streams, written' \in Frames, ratio' \in (Scale - 1)..(Scale + 1),
           rendered' \in 0..FrameCount, second' \in BOOLEAN,
           bits' \in [stream : Streams, frame : Frames],
           \A l \in loaded' : l.frame \in Frames,
           disturbed' \in BOOLEAN, played' \in Positions
    PROVE  TypeOK'
<1>1. UNCHANGED <<tag, stereo, writeFrame, streamStart, streamEpoch, active, wpc,
                  frame, end>>
    BY DEF ringVars, driverVars
<1>2. TypeOK
    BY DEF IInv
<1>3. /\ tag \in [Slots -> 0..(MaxFrame + 1)]
      /\ stereo \in [Slots -> [stream : Streams, frame : Frames]]
      /\ frame \in Frames \union Slots
      /\ wpc \in {"stopped", "running"} \union Resetting \union Capturing
      /\ writeFrame \in Frames /\ streamStart \in Frames /\ end \in Frames
      /\ streamEpoch \in Streams /\ active \in BOOLEAN
    BY <1>2 DEF TypeOK
<1>4. /\ {writeFrame, streamStart, end, written}' \subseteq Frames
      /\ {streamEpoch, epochSeen, epoch}' \subseteq Streams
      /\ {active, synchronized, second, disturbed}' \subseteq BOOLEAN
      /\ {readFrame, played}' \subseteq 0..((MaxFrame + 1) * Scale)
    BY <1>1, <1>3 DEF Positions
<1>5. /\ Slots' = Slots /\ Streams' = Streams /\ Frames' = Frames
    BY DEF Slots, Streams, Frames
<1> QED
    BY <1>1, <1>3, <1>4, <1>5 DEF TypeOK

(* What a step of the reader finds.                                        *)
LEMMA ReaderFacts ==
    ASSUME IInv
    PROVE  /\ synchronized \in BOOLEAN /\ second \in BOOLEAN /\ disturbed \in BOOLEAN
           /\ active \in BOOLEAN
           /\ readFrame \in Positions /\ played \in Positions
           /\ readFrame \in Nat /\ played \in Nat
           /\ epochSeen \in Streams /\ epoch \in Streams /\ streamEpoch \in Streams
           /\ written \in Frames /\ writeFrame \in Frames /\ streamStart \in Frames
           /\ epoch \in Nat /\ streamEpoch \in Nat
           /\ written \in Nat /\ writeFrame \in Nat /\ streamStart \in Nat
           /\ ratio \in (Scale - 1)..(Scale + 1) /\ rendered \in 0..FrameCount
           /\ bits \in [stream : Streams, frame : Frames]
           /\ \A l \in loaded : l.frame \in Frames
           /\ NoSample \in [stream : Streams, frame : Frames]
           /\ 0 \in Streams /\ 0 \in Frames /\ Scale \in (Scale - 1)..(Scale + 1)
           /\ 0 \in 0..FrameCount
<1>1. TypeOK
    BY DEF IInv
<1>2. /\ synchronized \in BOOLEAN /\ second \in BOOLEAN /\ disturbed \in BOOLEAN
      /\ active \in BOOLEAN
      /\ readFrame \in Positions /\ played \in Positions
      /\ epochSeen \in Streams /\ epoch \in Streams /\ streamEpoch \in Streams
      /\ written \in Frames /\ writeFrame \in Frames /\ streamStart \in Frames
    BY <1>1 DEF TypeOK, Positions
<1>3. /\ ratio \in (Scale - 1)..(Scale + 1) /\ rendered \in 0..FrameCount
      /\ bits \in [stream : Streams, frame : Frames]
      /\ \A l \in loaded : l.frame \in Frames
    BY <1>1 DEF TypeOK
<1>4. \A x \in Positions : x \in Nat
    <2> DEFINE top == (MaxFrame + 1) * Scale
    <2> HIDE DEF top
    <2>1. \A x \in 0..top : x \in Nat
        OBVIOUS
    <2> QED
        BY <2>1 DEF Positions, top
<1>5. 0 \in Streams /\ 0 \in Frames /\ Scale \in (Scale - 1)..(Scale + 1) /\ 0 \in 0..FrameCount
    BY DEF Streams, Frames
<1>6. NoSample \in [stream : Streams, frame : Frames]
    BY <1>5 DEF NoSample
<1>7. /\ epoch \in Nat /\ streamEpoch \in Nat
      /\ written \in Nat /\ writeFrame \in Nat /\ streamStart \in Nat
    BY <1>2 DEF Streams, Frames
<1>8. readFrame \in Nat /\ played \in Nat
    BY <1>2, <1>4
<1> QED
    BY <1>2, <1>3, <1>5, <1>6, <1>7, <1>8

(* A read that is over has no local state; what matters is where it has    *)
(* left the position.                                                      *)
LEMMA ReturnKeeps ==
    ASSUME IInv, UNCHANGED <<ringVars, driverVars>>, Return,
           synchronized' \in BOOLEAN, readFrame' \in Positions, epochSeen' \in Streams,
           played' \in Positions,
           played' > 0 =>
              /\ active /\ epochSeen' = streamEpoch
              /\ synchronized' => readFrame' < writeFrame * Scale
              /\ synchronized' /\ TailIsWhole => played' <= readFrame'
              /\ ~ synchronized' /\ TailIsWhole => played' <= (writeFrame - Latency) * Scale
    PROVE  IInv'
<1>1. /\ rpc' = "idle" /\ epoch' = 0 /\ written' = 0 /\ ratio' = Scale
      /\ rendered' = 0 /\ second' = FALSE /\ bits' = NoSample
      /\ loaded' = {} /\ disturbed' = FALSE
    BY DEF Return
<1>2. TypeOK'
    BY <1>1, ReaderFacts, ReaderTypes
<1>3. DriverShape' /\ TagsAreGenuine' /\ (TailIsWhole' <=> TailIsWhole)
    BY ReaderKeepsDriver
<1>4. ReaderShape'
    BY <1>1 DEF ReaderShape, Rendering, Loading
<1>5. WithinWritten'
    BY <1>1 DEF WithinWritten, Rendering, Loading
<1>6. Undisturbed'
    BY <1>1 DEF Undisturbed
<1>7. Begun' = readFrame'
    <2>1. readFrame' \in Nat
        <3> DEFINE top == (MaxFrame + 1) * Scale
        <3> HIDE DEF top
        <3>1. \A x \in 0..top : x \in Nat
            OBVIOUS
        <3> QED
            BY <3>1 DEF Positions, top
    <2>2. rendered' * ratio' = 0
        BY <1>1
    <2>3. Begun' = readFrame' - (rendered' * ratio')
        BY DEF Begun
    <2> QED
        BY <2>1, <2>2, <2>3
<1>8. UNCHANGED <<active, streamEpoch, writeFrame, streamStart>>
    BY DEF ringVars
<1>9. Stalled'
    BY <1>1, <1>3, <1>7, <1>8 DEF Stalled, Rendering, Loading
<1> QED
    BY <1>2, <1>3, <1>4, <1>5, <1>6, <1>9 DEF IInv

(* At the start of a read the position is where it was.                    *)
LEMMA NotRendering ==
    ASSUME IInv, rpc \notin Rendering PROVE Begun = readFrame
<1>1. rendered = 0 /\ readFrame \in Nat /\ ratio \in Nat
    BY ReaderFacts DEF IInv, ReaderShape
<1>2. rendered * ratio = 0
    BY <1>1
<1> QED
    BY <1>1, <1>2 DEF Begun

(* The first load of a read: an inactive writer is silence.                *)
LEMMA LoadActiveKeeps == ASSUME IInv, LoadActive PROVE IInv'
<1>1. /\ rpc = "idle"
      /\ \/ active /\ rpc' = "epoch" /\ UNCHANGED synchronized
         \/ ~ active /\ synchronized' = FALSE /\ UNCHANGED rpc
      /\ UNCHANGED <<ringVars, driverVars, readFrame, epochSeen, epoch, written, ratio,
                     rendered, second, bits, loaded, disturbed, played>>
    BY DEF LoadActive
<1>2. TypeOK'
    BY <1>1, ReaderFacts, ReaderTypes DEF Loading
<1>3. DriverShape' /\ TagsAreGenuine' /\ (TailIsWhole' <=> TailIsWhole)
    BY <1>1, ReaderKeepsDriver
<1>4. ReaderShape'
    BY <1>1 DEF IInv, ReaderShape, Rendering, Loading
<1>5. WithinWritten'
    BY <1>1 DEF WithinWritten, Rendering, Loading
<1>6. UNCHANGED <<active, streamEpoch, writeFrame, streamStart, wpc>>
    BY <1>1 DEF ringVars, driverVars
<1>7. Undisturbed'
    <2>1. active => wpc \notin Resetting
        BY DEF IInv, DriverShape
    <2> QED
        BY <1>1, <1>6, <2>1 DEF Undisturbed
<1>8. Stalled'
    <2>1. Begun' = Begun
        BY <1>1 DEF Begun
    <2> QED
        BY <1>1, <1>3, <1>6, <2>1 DEF IInv, Stalled, Rendering, Loading
<1> QED
    BY <1>2, <1>3, <1>4, <1>5, <1>7, <1>8 DEF IInv

(* An undisturbed read loads the epoch of a stream whose ring is wiped.    *)
LEMMA LoadEpochKeeps == ASSUME IInv, LoadEpoch PROVE IInv'
<1>1. /\ rpc = "epoch" /\ rpc' = "write" /\ epoch' = streamEpoch
      /\ UNCHANGED <<ringVars, driverVars, synchronized, readFrame, epochSeen, written,
                     ratio, rendered, second, bits, loaded, disturbed, played>>
    BY DEF LoadEpoch, readerVars
<1>2. TypeOK'
    BY <1>1, ReaderFacts, ReaderTypes DEF Loading
<1>3. DriverShape' /\ TagsAreGenuine' /\ (TailIsWhole' <=> TailIsWhole)
    BY <1>1, ReaderKeepsDriver
<1>4. UNCHANGED <<active, streamEpoch, writeFrame, streamStart, wpc>>
    BY <1>1 DEF ringVars, driverVars
<1>5. ReaderShape'
    BY <1>1, <1>4, ReaderFacts DEF IInv, ReaderShape, Rendering, Loading
<1>6. WithinWritten'
    BY <1>1 DEF WithinWritten, Rendering, Loading
<1>7. Undisturbed'
    <2>1. ~ disturbed => wpc \notin Wiping
        BY <1>1 DEF IInv, Undisturbed, Wiping, Resetting
    <2>2. loaded' = {}
        BY <1>1 DEF IInv, ReaderShape, Rendering, Loading
    <2>3. Genuine'
        BY <2>2 DEF Genuine
    <2> QED
        BY <1>1, <1>4, <2>1, <2>3 DEF Undisturbed
<1>8. Stalled'
    <2>1. Begun' = Begun
        BY <1>1 DEF Begun
    <2> QED
        BY <1>1, <1>3, <1>4, <2>1 DEF IInv, Stalled, Rendering, Loading
<1> QED
    BY <1>2, <1>3, <1>5, <1>6, <1>7, <1>8 DEF IInv

(* What is loaded as written stays below writeFrame.                       *)
LEMMA LoadWriteFrameKeeps == ASSUME IInv, LoadWriteFrame PROVE IInv'
<1>1. /\ rpc = "write" /\ rpc' = "start" /\ written' = writeFrame
      /\ UNCHANGED <<ringVars, driverVars, synchronized, readFrame, epochSeen, epoch,
                     ratio, rendered, second, bits, loaded, disturbed, played>>
    BY DEF LoadWriteFrame, readerVars
<1>2. TypeOK'
    BY <1>1, ReaderFacts, ReaderTypes DEF Loading
<1>3. DriverShape' /\ TagsAreGenuine' /\ (TailIsWhole' <=> TailIsWhole)
    BY <1>1, ReaderKeepsDriver
<1>4. UNCHANGED <<active, streamEpoch, writeFrame, streamStart, wpc>>
    BY <1>1 DEF ringVars, driverVars
<1>5. ReaderShape'
    BY <1>1, <1>4 DEF IInv, ReaderShape, Rendering, Loading
<1>6. WithinWritten'
    BY <1>1 DEF WithinWritten, Rendering, Loading
<1>7. Undisturbed'
    <2>1. Genuine' <=> Genuine
        BY <1>1 DEF Genuine
    <2>2. written' <= writeFrame'
        BY <1>1, <1>4, ReaderFacts
    <2> QED
        BY <1>1, <1>4, <2>1, <2>2 DEF IInv, Undisturbed
<1>8. Stalled'
    <2>1. Begun' = Begun
        BY <1>1 DEF Begun
    <2> QED
        BY <1>1, <1>3, <1>4, <2>1 DEF IInv, Stalled, Rendering, Loading
<1> QED
    BY <1>2, <1>3, <1>5, <1>6, <1>7, <1>8 DEF IInv

(* A read that finds the required frames ends with one to spare.           *)
LEMMA BufferWithinWritten ==
    ASSUME NEW position \in Nat, NEW limit \in Nat, NEW r \in (Scale - 1)..(Scale + 1),
           limit - (position \div Scale) >= Required(r)
    PROVE  position + FrameCount * r < (limit - 1) * Scale
<1> DEFINE q == position \div Scale
<1> DEFINE needed == Required(r)
<1>1. /\ q \in Nat /\ position < (q + 1) * Scale
    <2>1. q \in Nat /\ q + 1 \in Int /\ q < q + 1
        BY FrameOfPosition
    <2> QED
        BY <2>1, FrameOfPosition
<1>2. /\ needed \in Nat /\ FrameCount * r \in Nat
      /\ FrameCount * r <= (needed - 2) * Scale
    BY RequiredSuffices
<1> HIDE DEF q, needed
<1>3. q + 1 <= limit - needed + 1
    BY <1>1, <1>2 DEF q, needed
<1>4. (q + 1) * Scale <= (limit - needed + 1) * Scale
    BY <1>1, <1>2, <1>3, ScaleMonotone
<1>5. (limit - needed + 1) * Scale + (needed - 2) * Scale = (limit - 1) * Scale
    BY <1>2
<1>6. /\ (q + 1) * Scale \in Int /\ (limit - needed + 1) * Scale \in Int
      /\ (needed - 2) * Scale \in Int /\ (limit - 1) * Scale \in Int
    BY <1>1, <1>2
<1> DEFINE a == (q + 1) * Scale
           b == (limit - needed + 1) * Scale
           c == (needed - 2) * Scale
           d == (limit - 1) * Scale
           n == FrameCount * r
<1>7. /\ position < a /\ a <= b /\ n <= c /\ b + c = d
      /\ a \in Int /\ b \in Int /\ c \in Int /\ d \in Int /\ n \in Nat
    BY <1>1, <1>2, <1>4, <1>5, <1>6
<1>8. position + n < d
    <2> HIDE DEF a, b, c, d, n
    <2> QED
        BY <1>7
<1> QED
    BY <1>8

(* The decision: too short a backlog, a lost position, an underrun, or a   *)
(* buffer that ends within what was written.                               *)
LEMMA DecideKeeps == ASSUME IInv, LoadStartAndDecide PROVE IInv'
<1> DEFINE follows == synchronized /\ epoch = epochSeen
           backlog == written - streamStart
           target == IF written - Latency < streamStart THEN streamStart
                     ELSE written - Latency
           position == IF follows THEN readFrame ELSE target * Scale
           available == written - (position \div Scale)
           lost == available < 0 \/ available >= Capacity - 2
           underrun == available < Required(Ratio(available))
<1>1. /\ rpc = "start" /\ epochSeen' = epoch
      /\ UNCHANGED <<ringVars, driverVars, played>>
      /\ \/ backlog < Latency /\ Silence(follows) /\ UNCHANGED readFrame
         \/ backlog >= Latency /\ lost /\ Silence(FALSE) /\ readFrame' = position
         \/ backlog >= Latency /\ ~ lost /\ underrun /\ Underrun(position)
         \/ /\ backlog >= Latency /\ ~ lost /\ ~ underrun
            /\ readFrame' = position
            /\ synchronized' = TRUE
            /\ ratio' = Ratio(available)
            /\ rpc' = "firstTag"
            /\ UNCHANGED <<epoch, written, rendered, second, bits, loaded, disturbed>>
    BY DEF LoadStartAndDecide
<1>2. follows \in BOOLEAN
    BY ReaderFacts
<1>3. backlog >= Latency => target = written - Latency /\ target \in Frames
    BY ReaderFacts DEF Frames
<1>4. backlog >= Latency =>
          /\ position \in Positions /\ position \in Nat
          /\ ~ follows => position = (written - Latency) * Scale
    <2>1. CASE follows
        BY <2>1, ReaderFacts
    <2>2. ASSUME ~ follows, backlog >= Latency
          PROVE  /\ position \in Positions /\ position \in Nat
                 /\ position = (written - Latency) * Scale
        <3>1. position = target * Scale /\ target = written - Latency /\ target \in Frames
            BY <1>3, <2>2
        <3>2. target * Scale \in Positions
            BY <3>1, PositionInRange
        <3>3. target \in Nat
            BY <3>1 DEF Frames
        <3>4. target * Scale \in Nat
            BY <3>3
        <3> HIDE DEF target, position
        <3> QED
            BY <3>1, <3>2, <3>4
    <2> QED
        BY <2>1, <2>2
<1>5. /\ UNCHANGED <<active, streamEpoch, writeFrame, streamStart, wpc>>
    BY <1>1 DEF ringVars, driverVars
<1>6. played > 0 =>
          /\ active /\ epochSeen = streamEpoch /\ epoch = streamEpoch
          /\ written = writeFrame
          /\ synchronized => readFrame < writeFrame * Scale
          /\ synchronized /\ TailIsWhole => played <= readFrame
          /\ ~ synchronized /\ TailIsWhole => played <= (writeFrame - Latency) * Scale
    <2>1. Begun = readFrame
        BY <1>1, NotRendering DEF Rendering, Loading
    <2> QED
        BY <1>1, <2>1 DEF IInv, Stalled
<1>7. (writeFrame - Latency) * Scale < writeFrame * Scale
    <2>1. writeFrame \in Nat
        BY ReaderFacts
    <2>2. writeFrame * Scale = (writeFrame - Latency) * Scale + Latency * Scale
        BY <2>1
    <2>3. Latency * Scale > 0
        OBVIOUS
    <2>4. (writeFrame - Latency) * Scale \in Int /\ Latency * Scale \in Int
        BY <2>1
    <2> QED
        BY <2>2, <2>3, <2>4
<1>8. played > 0 /\ backlog >= Latency =>
          /\ position < writeFrame * Scale
          /\ TailIsWhole => played <= position
    <2>1. CASE follows
        <3>1. position = readFrame
            BY <2>1
        <3> QED
            BY <1>6, <2>1, <3>1
    <2>2. ASSUME ~ follows, played > 0, backlog >= Latency
          PROVE  /\ position < writeFrame * Scale
                 /\ TailIsWhole => played <= position
        <3>1. ~ synchronized
            BY <1>6, <2>2
        <3>2. position = (writeFrame - Latency) * Scale
            BY <1>4, <1>6, <2>2
        <3> HIDE DEF position, backlog, follows
        <3> QED
            BY <1>6, <1>7, <2>2, <3>1, <3>2
    <2> QED
        BY <2>1, <2>2
<1>9. played \in Positions /\ epoch \in Streams /\ readFrame \in Positions
    BY ReaderFacts
<1>10. CASE backlog < Latency /\ Silence(follows) /\ UNCHANGED readFrame
    <2>1. Return /\ synchronized' = follows
        BY <1>10 DEF Silence
    <2>2. played > 0 => (follows <=> synchronized)
        BY <1>6
    <2>3. synchronized' \in BOOLEAN
        BY <1>2, <2>1
    <2> HIDE DEF follows, backlog
    <2> QED
        BY <1>1, <1>6, <1>9, <1>10, <2>1, <2>2, <2>3, ReturnKeeps
<1>11. CASE backlog >= Latency /\ lost /\ Silence(FALSE) /\ readFrame' = position
    <2>1. Return /\ synchronized' = FALSE
        BY <1>11 DEF Silence
    <2>2. ASSUME played > 0, TailIsWhole PROVE played <= (writeFrame - Latency) * Scale
        <3>1. CASE ~ synchronized
            BY <1>6, <2>2, <3>1
        <3>2. CASE synchronized
            <4>1. follows /\ position = readFrame /\ written = writeFrame
                BY <1>6, <2>2, <3>2
            <4>2. readFrame < writeFrame * Scale /\ played <= readFrame
                BY <1>6, <2>2, <3>2
            <4> DEFINE q == readFrame \div Scale
            <4>3. /\ q \in Nat /\ q < writeFrame
                  /\ q < writeFrame - Latency => readFrame < (writeFrame - Latency) * Scale
                BY <4>2, ReaderFacts, FrameOfPosition
            <4>4. available = writeFrame - q
                BY <4>1
            <4> HIDE DEF q
            <4>5. q < writeFrame - Latency
                BY <1>11, <4>3, <4>4, ReaderFacts
            <4>6. (writeFrame - Latency) * Scale \in Int
                BY ReaderFacts
            <4> QED
                BY <4>2, <4>3, <4>5, <4>6, ReaderFacts
        <3> QED
            BY <3>1, <3>2, ReaderFacts
    <2>3. position \in Positions
        BY <1>4, <1>11
    <2> HIDE DEF follows, backlog, position, lost
    <2> QED
        BY <1>1, <1>6, <1>9, <1>11, <2>1, <2>2, <2>3, ReturnKeeps
<1>12. CASE backlog >= Latency /\ ~ lost /\ underrun /\ Underrun(position)
    <2>1. Return /\ synchronized' = TRUE /\ readFrame' = position
        BY <1>12 DEF Silence, Underrun
    <2>2. position \in Positions
        BY <1>4, <1>12
    <2>3. synchronized' \in BOOLEAN
        BY <2>1
    <2> HIDE DEF follows, backlog, position, lost, underrun
    <2> QED
        BY <1>1, <1>6, <1>8, <1>9, <1>12, <2>1, <2>2, <2>3, ReturnKeeps
<1>13. CASE /\ backlog >= Latency /\ ~ lost /\ ~ underrun
            /\ readFrame' = position
            /\ synchronized' = TRUE
            /\ ratio' = Ratio(available)
            /\ rpc' = "firstTag"
            /\ UNCHANGED <<epoch, written, rendered, second, bits, loaded, disturbed>>
    <2>1. position \in Positions /\ position \in Nat
        BY <1>4, <1>13
    <2>2. ratio' \in (Scale - 1)..(Scale + 1)
        <3>1. Ratio(available) \in (Scale - 1)..(Scale + 1)
            BY DEF Ratio
        <3> HIDE DEF available
        <3> QED
            BY <1>13, <3>1
    <2>3. rendered' = 0 /\ ~ second /\ loaded' = {} /\ epoch <= streamEpoch
        BY <1>1, <1>13 DEF IInv, ReaderShape, Rendering, Loading
    <2>4. TypeOK'
        <3> HIDE DEF follows, backlog, position, lost, underrun, available
        <3> QED
            BY <1>1, <1>13, <2>1, <2>2, ReaderFacts, ReaderTypes DEF Loading
    <2>5. DriverShape' /\ TagsAreGenuine' /\ (TailIsWhole' <=> TailIsWhole)
        BY <1>1, ReaderKeepsDriver
    <2>6. ReaderShape'
        <3>1. /\ rpc' = "firstTag" /\ synchronized' /\ epochSeen' = epoch'
              /\ rendered' < FrameCount /\ epoch' <= streamEpoch'
            BY <1>1, <1>5, <1>13, <2>3
        <3> QED
            BY <3>1 DEF ReaderShape, Rendering, Loading
    <2>7. rendered' * ratio' = 0 /\ (FrameCount - rendered') * ratio' = FrameCount * ratio'
        <3>1. rendered' = 0 /\ FrameCount - rendered' = FrameCount
            BY <2>3
        <3>2. rendered' \in 0..FrameCount
            BY <3>1
        <3>3. 0 * ratio' = 0
            BY <2>2, <3>2, OneFrame
        <3> QED
            BY <3>1, <3>3
    <2>8. Begun' = position
        <3>1. Begun' = readFrame' - (rendered' * ratio')
            BY DEF Begun
        <3>2. readFrame' = position
            BY <1>13
        <3> HIDE DEF position
        <3> QED
            BY <2>1, <2>7, <3>1, <3>2
    <2>9. WithinWritten'
        <3>1. written - (position \div Scale) >= Required(ratio')
            <4>1. /\ ~ (available < Required(ratio')) /\ available = written - (position \div Scale)
                BY <1>13
            <4>2. position \div Scale \in Nat /\ Required(ratio') \in Nat /\ written \in Nat
                BY <2>1, <2>2, FrameOfPosition, RequiredSuffices, ReaderFacts
            <4> HIDE DEF position, available
            <4> QED
                BY <4>1, <4>2
        <3>2. position + FrameCount * ratio' < (written - 1) * Scale
            <4> HIDE DEF position
            <4> QED
                BY <2>1, <2>2, <3>1, BufferWithinWritten, ReaderFacts
        <3>3. readFrame' = position /\ written' = written
            BY <1>13
        <3> HIDE DEF position
        <3> QED
            BY <2>1, <2>7, <2>8, <3>2, <3>3 DEF WithinWritten
    <2>10. Undisturbed'
        <3>1. Genuine'
            BY <2>3 DEF Genuine
        <3>2. UNCHANGED <<disturbed, written, epoch>> /\ rpc' = "firstTag"
            BY <1>13
        <3> HIDE DEF follows, backlog, position, lost, underrun, available
        <3> QED
            BY <1>1, <1>5, <3>1, <3>2 DEF IInv, Undisturbed
    <2>11. Stalled'
        <3>1. ASSUME played > 0
              PROVE  /\ active /\ epoch = streamEpoch /\ written = writeFrame
                     /\ position < writeFrame * Scale
                     /\ TailIsWhole => played <= position
            BY <1>6, <1>8, <1>13, <3>1
        <3>2. played > 0 => writeFrame - streamStart >= Latency
            BY <1>13, <3>1
        <3>3. /\ UNCHANGED <<written, epoch, played>> /\ rpc' = "firstTag"
              /\ readFrame' = position /\ synchronized' = TRUE /\ epochSeen' = epoch
            BY <1>1, <1>13
        <3> HIDE DEF follows, backlog, position, lost, underrun, available
        <3> QED
            BY <1>5, <2>5, <2>8, <3>1, <3>2, <3>3 DEF Stalled
    <2> QED
        BY <2>4, <2>5, <2>6, <2>9, <2>10, <2>11 DEF IInv
<1> HIDE DEF follows, backlog, position, lost, underrun, available
<1> QED
    BY <1>1, <1>10, <1>11, <1>12, <1>13

(* What is below a limit with something added is below it without. *)
LEMMA LessWithoutRest ==
    ASSUME NEW x \in Nat, NEW n \in Nat, NEW limit \in Int, x + n < limit
    PROVE  x < limit
    OBVIOUS

(* What a read is bound by while it renders.                               *)
LEMMA RenderingFacts ==
    ASSUME IInv, rpc \in Rendering
    PROVE  /\ synchronized = TRUE /\ epochSeen = epoch /\ epoch <= streamEpoch
           /\ rendered * ratio \in Nat /\ Begun \in Int /\ Begun <= readFrame
           /\ Begun >= 0 /\ Begun = readFrame - (rendered * ratio)
           /\ (FrameCount - rendered) * ratio \in Nat
           /\ readFrame + (FrameCount - rendered) * ratio < (written - 1) * Scale
           /\ (written - 1) * Scale \in Int /\ (written - 1) * Scale < written * Scale
           /\ written * Scale \in Nat
<1>1. /\ synchronized /\ epochSeen = epoch /\ epoch <= streamEpoch
    BY DEF IInv, ReaderShape, Rendering, Loading
<1>2. /\ Begun >= 0 /\ readFrame + (FrameCount - rendered) * ratio < (written - 1) * Scale
    BY DEF IInv, WithinWritten
<1>3. rendered * ratio \in Nat /\ (FrameCount - rendered) * ratio \in Nat
    BY ReaderFacts, OneFrame
<1>4. Begun = readFrame - (rendered * ratio)
    BY DEF Begun
<1>5. Begun \in Int /\ Begun <= readFrame
    <2> DEFINE n == rendered * ratio
    <2>1. n \in Nat /\ Begun = readFrame - n /\ readFrame \in Nat
        BY <1>3, <1>4, ReaderFacts
    <2> HIDE DEF n
    <2> QED
        BY <2>1
<1>6. /\ (written - 1) * Scale \in Int /\ written * Scale \in Nat
      /\ (written - 1) * Scale = written * Scale - Scale
    BY ReaderFacts
<1>7. synchronized = TRUE
    BY <1>1, ReaderFacts
<1>8. (written - 1) * Scale < written * Scale
    <2> DEFINE a == (written - 1) * Scale
               b == written * Scale
    <2>1. a \in Int /\ b \in Nat /\ a = b - Scale
        BY <1>6
    <2> HIDE DEF a, b
    <2>2. a < b
        BY <2>1
    <2> QED
        BY <2>2 DEF a, b
<1> QED
    BY <1>1, <1>2, <1>3, <1>4, <1>5, <1>6, <1>7, <1>8

(* A frame that is missing from a whole tail is before the latency.        *)
LEMMA MissingKeeps ==
    ASSUME IInv, rpc \in Loading, Missing, UNCHANGED <<ringVars, driverVars, played>>
    PROVE  IInv'
<1>1. /\ tag[Slot(Source)] # Source + 1 /\ Return /\ synchronized' = FALSE
      /\ UNCHANGED <<readFrame, epochSeen>>
    BY DEF Missing, Silence
<1>2. rpc \in Rendering
    BY DEF Rendering
<1>3. ASSUME played > 0
      PROVE  /\ active /\ epochSeen = streamEpoch
             /\ TailIsWhole => played <= (writeFrame - Latency) * Scale
    <2>1. /\ active /\ epochSeen = streamEpoch /\ written = writeFrame
          /\ writeFrame - streamStart >= Latency
          /\ TailIsWhole => played <= Begun
        BY <1>2, <1>3, RenderingFacts DEF IInv, Stalled, Loading
    <2>2. SUFFICES ASSUME TailIsWhole PROVE played <= (writeFrame - Latency) * Scale
        BY <2>1
    <2>3. Source \in Nat /\ Source < writeFrame
        BY <2>1, WaitsForWritten
    <2>4. ~ (Source >= streamStart /\ Source >= writeFrame - Latency)
        <3>1. Source \in streamStart..(writeFrame - 1) /\ Source >= writeFrame - Latency
                  => tag[Slot(Source)] = Source + 1
            BY <2>2 DEF TailIsWhole
        <3> QED
            BY <1>1, <2>3, <3>1, ReaderFacts
    <2>5. Source < writeFrame - Latency
        BY <2>1, <2>3, <2>4, ReaderFacts
    <2>6. readFrame \div Scale \in Nat /\ readFrame \div Scale <= Source
        BY WaitsForWritten DEF Source
    <2>7. readFrame \div Scale < writeFrame - Latency
        BY <2>3, <2>5, <2>6, ReaderFacts
    <2>8. writeFrame - Latency \in Int /\ (writeFrame - Latency) * Scale \in Int
        BY ReaderFacts
    <2>9. readFrame < (writeFrame - Latency) * Scale
        BY <2>7, <2>8, FrameOfPosition, ReaderFacts
    <2>10. Begun \in Int /\ Begun <= readFrame
        BY <1>2, RenderingFacts
    <2> QED
        BY <2>1, <2>2, <2>8, <2>9, <2>10, ReaderFacts
<1> QED
    BY <1>1, <1>3, ReaderFacts, ReturnKeeps

(* The tag of the frame that the read waits for: nothing is loaded yet.    *)
LEMMA FirstTagKeeps == ASSUME IInv, FirstTag PROVE IInv'
<1>1. /\ rpc = "firstTag" /\ UNCHANGED <<ringVars, driverVars, played>>
      /\ \/ Missing
         \/ /\ rpc' = "bits"
            /\ UNCHANGED <<readerVars, epoch, written, ratio, rendered, second, bits, loaded,
                           disturbed>>
    BY DEF FirstTag
<1>2. CASE Missing
    BY <1>1, <1>2, MissingKeeps DEF Loading
<1>3. CASE /\ rpc' = "bits"
           /\ UNCHANGED <<readerVars, epoch, written, ratio, rendered, second, bits, loaded,
                          disturbed>>
    <2>1. /\ rpc = "firstTag" /\ rpc' = "bits"
          /\ UNCHANGED <<ringVars, driverVars, synchronized, readFrame, epochSeen, epoch,
                         written, ratio, rendered, second, bits, loaded, disturbed, played>>
        BY <1>1, <1>3 DEF readerVars
    <2>2. TypeOK'
        BY <2>1, ReaderFacts, ReaderTypes DEF Loading
    <2>3. DriverShape' /\ TagsAreGenuine' /\ (TailIsWhole' <=> TailIsWhole)
        BY <2>1, ReaderKeepsDriver
    <2>4. UNCHANGED <<active, streamEpoch, writeFrame, streamStart, wpc>>
        BY <2>1 DEF ringVars, driverVars
    <2>5. ReaderShape'
        BY <2>1, <2>4 DEF IInv, ReaderShape, Rendering, Loading
    <2>6. Begun' = Begun
        BY <2>1 DEF Begun
    <2>7. WithinWritten'
        BY <2>1, <2>6 DEF IInv, WithinWritten, Rendering, Loading
    <2>8. Undisturbed'
        <3>1. Genuine' <=> Genuine
            BY <2>1 DEF Genuine
        <3> QED
            BY <2>1, <2>4, <3>1 DEF IInv, Undisturbed
    <2>9. Stalled'
        BY <2>1, <2>3, <2>4, <2>6 DEF IInv, Stalled, Rendering, Loading
    <2> QED
        BY <2>2, <2>3, <2>5, <2>7, <2>8, <2>9 DEF IInv
<1> QED
    BY <1>1, <1>2, <1>3

(* What is loaded is the frame, if its tag still tells so.                 *)
LEMMA LoadStereoKeeps == ASSUME IInv, LoadStereo PROVE IInv'
<1>1. /\ rpc = "bits" /\ rpc' = "secondTag" /\ bits' = stereo[Slot(Source)]
      /\ UNCHANGED <<ringVars, driverVars, synchronized, readFrame, epochSeen, epoch,
                     written, ratio, rendered, second, loaded, disturbed, played>>
    BY DEF LoadStereo, readerVars
<1>2. Source \in Nat /\ Slot(Source) \in Slots
    BY <1>1, WaitsForWritten, SlotInRing DEF Loading
<1>3. bits' \in [stream : Streams, frame : Frames]
    BY <1>1, <1>2 DEF IInv, TypeOK
<1>4. TypeOK'
    BY <1>1, <1>3, ReaderFacts, ReaderTypes DEF Loading
<1>5. DriverShape' /\ TagsAreGenuine' /\ (TailIsWhole' <=> TailIsWhole)
    BY <1>1, ReaderKeepsDriver
<1>6. UNCHANGED <<tag, active, streamEpoch, writeFrame, streamStart, wpc>>
    BY <1>1 DEF ringVars, driverVars
<1>7. ReaderShape'
    BY <1>1, <1>6 DEF IInv, ReaderShape, Rendering, Loading
<1>8. Begun' = Begun
    BY <1>1 DEF Begun
<1>9. WithinWritten'
    BY <1>1, <1>8 DEF IInv, WithinWritten, Rendering, Loading
<1>10. Undisturbed'
    <2>1. Genuine' <=> Genuine
        BY <1>1 DEF Genuine
    <2>2. Source' = Source
        BY <1>1 DEF Source
    <2>3. Slot(Source)' = Slot(Source)
        BY <2>2 DEF Slot
    <2>4. ASSUME ~ disturbed, streamEpoch = epoch
          PROVE  /\ wpc \notin Wiping /\ written <= writeFrame /\ Genuine
                 /\ tag[Slot(Source)] = Source + 1 =>
                       bits' = [stream |-> epoch, frame |-> Source]
        <3>1. wpc \notin Wiping /\ written <= writeFrame /\ Genuine
            BY <1>1, <2>4 DEF IInv, Undisturbed
        <3>2. tag[Slot(Source)] # 0 =>
                  bits' = [stream |-> epoch, frame |-> tag[Slot(Source)] - 1]
            BY <1>1, <1>2, <2>4, <3>1 DEF IInv, TagsAreGenuine
        <3>3. tag[Slot(Source)] = Source + 1 =>
                  tag[Slot(Source)] # 0 /\ tag[Slot(Source)] - 1 = Source
            BY <1>2
        <3> QED
            BY <3>1, <3>2, <3>3
    <2> QED
        BY <1>1, <1>6, <2>1, <2>2, <2>3, <2>4 DEF Undisturbed
<1>11. Stalled'
    BY <1>1, <1>5, <1>6, <1>8 DEF IInv, Stalled, Rendering, Loading
<1> QED
    BY <1>4, <1>5, <1>7, <1>9, <1>10, <1>11 DEF IInv

(* A tag that is still there vouches for the sample; with the second of    *)
(* two frames the position moves on.                                       *)
LEMMA SecondTagKeeps == ASSUME IInv, SecondTag PROVE IInv'
<1> DEFINE new == [frame |-> Source, sample |-> bits]
<1>1. /\ rpc = "secondTag" /\ UNCHANGED <<ringVars, driverVars, played>>
      /\ \/ Missing
         \/ /\ tag[Slot(Source)] = Source + 1
            /\ loaded' = loaded \union {new}
            /\ bits' = NoSample /\ second' = ~ second
            /\ \/ second /\ readFrame' = readFrame + ratio /\ rendered' = rendered + 1
               \/ ~ second /\ UNCHANGED <<readFrame, rendered>>
            /\ rpc' = IF second /\ rendered + 1 = FrameCount THEN "checkEpoch" ELSE "firstTag"
            /\ UNCHANGED <<synchronized, epochSeen, epoch, written, ratio, disturbed>>
    BY DEF SecondTag
<1>2. CASE Missing
    BY <1>1, <1>2, MissingKeeps DEF Loading
<1>3. CASE /\ tag[Slot(Source)] = Source + 1
           /\ loaded' = loaded \union {new}
           /\ bits' = NoSample /\ second' = ~ second
           /\ \/ second /\ readFrame' = readFrame + ratio /\ rendered' = rendered + 1
              \/ ~ second /\ UNCHANGED <<readFrame, rendered>>
           /\ rpc' = IF second /\ rendered + 1 = FrameCount THEN "checkEpoch" ELSE "firstTag"
           /\ UNCHANGED <<synchronized, epochSeen, epoch, written, ratio, disturbed>>
    <2>0. rpc \in Rendering /\ rpc \in Loading /\ rpc' \in Rendering
        BY <1>1, <1>3 DEF Rendering, Loading
    <2>1. /\ rendered \in Nat /\ rendered < FrameCount /\ ratio \in Nat
          /\ rendered' \in Nat /\ rendered' <= FrameCount
        BY <1>3, <2>0, ReaderFacts DEF IInv, ReaderShape
    <2>2. /\ readFrame' \in Nat
          /\ readFrame' - (rendered' * ratio') = readFrame - (rendered * ratio)
          /\ readFrame' + (FrameCount - rendered') * ratio'
                = readFrame + (FrameCount - rendered) * ratio
        <3>1. CASE ~ second /\ UNCHANGED <<readFrame, rendered>>
            BY <1>3, <3>1, ReaderFacts
        <3>2. CASE second /\ readFrame' = readFrame + ratio /\ rendered' = rendered + 1
            <4> DEFINE a == rendered * ratio
                       b == (FrameCount - rendered) * ratio
                       c == (rendered + 1) * ratio
                       d == (FrameCount - (rendered + 1)) * ratio
            <4>1. /\ a \in Nat /\ b \in Nat /\ c = a + ratio /\ d = b - ratio
                BY ReaderFacts, OneFrame
            <4>2. rendered' * ratio' = c /\ (FrameCount - rendered') * ratio' = d
                BY <1>3, <3>2
            <4>3. readFrame' = readFrame + ratio /\ readFrame \in Nat
                BY <3>2, ReaderFacts
            <4> HIDE DEF a, b, c, d
            <4>4. /\ readFrame' \in Nat /\ readFrame' - c = readFrame - a
                  /\ readFrame' + d = readFrame + b
                BY <2>1, <4>1, <4>3
            <4>5. /\ readFrame' - (rendered' * ratio') = readFrame - a
                  /\ readFrame' + (FrameCount - rendered') * ratio' = readFrame + b
                BY <4>2, <4>4
            <4> QED
                BY <4>4, <4>5 DEF a, b
        <3> QED
            BY <1>3, <3>1, <3>2
    <2>3. Begun' = Begun
        BY <2>2 DEF Begun
    <2>4. WithinWritten'
        <3>1. Begun' >= 0 /\ written' = written
            BY <1>3, <2>0, <2>3, RenderingFacts
        <3>2. readFrame' + (FrameCount - rendered') * ratio' < (written' - 1) * Scale
            BY <2>0, <2>2, <3>1, RenderingFacts
        <3> QED
            BY <3>1, <3>2 DEF WithinWritten
    <2>5. readFrame' < (written - 1) * Scale
        <3> DEFINE rest == (FrameCount - rendered') * ratio'
                   limit == (written - 1) * Scale
        <3>1. rest \in Nat
            <4>1. rendered' \in 0..FrameCount /\ ratio' \in (Scale - 1)..(Scale + 1)
                BY <1>3, <2>1, ReaderFacts
            <4> QED
                BY <4>1, OneFrame
        <3>2. readFrame' + rest < limit /\ limit \in Int
            BY <2>0, <2>2, RenderingFacts
        <3>3. readFrame' \in Nat
            BY <2>2
        <3>4. readFrame' < limit
            BY <3>1, <3>2, <3>3, LessWithoutRest
        <3> QED
            BY <3>4 DEF limit
    <2>6. readFrame' < written * Scale
        BY <2>0, <2>2, <2>5, RenderingFacts
    <2>7. readFrame' \in Positions
        <3> DEFINE x == written * Scale
                   last == MaxFrame * Scale
        <3>1. written <= MaxFrame /\ written \in Int /\ last \in Nat
            BY ReaderFacts DEF Frames
        <3>2. x <= last /\ x \in Nat
            BY <2>0, <3>1, ScaleMonotone, RenderingFacts
        <3> HIDE DEF x, last
        <3>3. readFrame' <= last
            BY <2>2, <2>6, <3>1, <3>2 DEF x
        <3> QED
            BY <2>2, <3>3, PositionInRange DEF last
    <2>8. Source \in Nat /\ Source < written
        BY <2>0, WaitsForWritten
    <2>9. new.frame = Source /\ new.sample = bits /\ Source \in Frames
        BY <2>8, ReaderFacts DEF Frames
    <2>10. \A l \in loaded' : l.frame \in Frames
        <3> HIDE DEF new
        <3> QED
            BY <1>3, <2>9, ReaderFacts
    <2>11. TypeOK'
        <3>1. second' \in BOOLEAN /\ rendered' \in 0..FrameCount
            BY <1>3, <2>1
        <3>2. rpc' \in {"checkEpoch"} \union Loading
            BY <1>3 DEF Loading
        <3> HIDE DEF new
        <3> QED
            BY <1>1, <1>3, <2>7, <2>10, <3>1, <3>2, ReaderFacts, ReaderTypes
    <2>12. DriverShape' /\ TagsAreGenuine' /\ (TailIsWhole' <=> TailIsWhole)
        BY <1>1, ReaderKeepsDriver
    <2>13. UNCHANGED <<active, streamEpoch, writeFrame, streamStart, wpc>>
        BY <1>1 DEF ringVars, driverVars
    <2>14. ReaderShape'
        <3>1. \/ rpc' = "firstTag" /\ rendered' < FrameCount
              \/ rpc' = "checkEpoch" /\ rendered' = FrameCount
            <4>1. CASE second /\ rendered' = rendered + 1
                <5>1. CASE rendered + 1 = FrameCount
                    BY <1>3, <4>1, <5>1
                <5>2. CASE rendered + 1 # FrameCount
                    BY <1>3, <2>1, <4>1, <5>2
                <5> QED
                    BY <5>1, <5>2
            <4>2. CASE ~ second /\ rendered' = rendered
                BY <1>3, <2>1, <4>2
            <4> QED
                BY <1>3, <4>1, <4>2
        <3>2. epoch' <= streamEpoch' /\ synchronized' = TRUE /\ epochSeen' = epoch'
            BY <1>3, <2>0, <2>13, RenderingFacts
        <3> QED
            BY <3>1, <3>2 DEF ReaderShape, Rendering, Loading
    <2>15. Undisturbed'
        <3>1. ASSUME ~ disturbed, streamEpoch = epoch
              PROVE  /\ wpc \notin Wiping /\ written <= writeFrame /\ Genuine'
            <4>1. /\ wpc \notin Wiping /\ written <= writeFrame /\ Genuine
                  /\ bits = [stream |-> epoch, frame |-> Source]
                BY <1>1, <1>3, <3>1 DEF IInv, Undisturbed
            <4>2. new.sample = [stream |-> epoch, frame |-> new.frame]
                <5> HIDE DEF new
                <5> QED
                    BY <2>9, <4>1
            <4>3. Genuine'
                <5> HIDE DEF new
                <5> QED
                    BY <1>3, <4>1, <4>2 DEF Genuine
            <4> QED
                BY <4>1, <4>3
        <3>2. /\ rpc' \in {"firstTag", "checkEpoch"}
              /\ UNCHANGED <<disturbed, epoch, written>>
            BY <1>3
        <3> QED
            BY <2>13, <3>1, <3>2 DEF Undisturbed
    <2>16. Stalled'
        <3>1. /\ rpc' \in {"firstTag", "checkEpoch"}
              /\ UNCHANGED <<synchronized, epoch, epochSeen, written, played>>
            BY <1>1, <1>3
        <3>2. played > 0 =>
                /\ active /\ epochSeen = streamEpoch /\ epoch = streamEpoch
                /\ written = writeFrame /\ writeFrame - streamStart >= Latency
                /\ synchronized /\ TailIsWhole => played <= Begun
                /\ ~ synchronized /\ TailIsWhole => played <= (writeFrame - Latency) * Scale
            BY <1>1, <2>0 DEF IInv, Stalled
        <3>3. played > 0 => readFrame' < writeFrame * Scale
            BY <2>6, <3>2
        <3> QED
            BY <2>3, <2>12, <2>13, <3>1, <3>2, <3>3 DEF Stalled
    <2> QED
        BY <2>4, <2>11, <2>12, <2>14, <2>15, <2>16 DEF IInv
<1> HIDE DEF new
<1> QED
    BY <1>1, <1>2, <1>3

(* A buffer of another stream than the present one is thrown away.         *)
LEMMA CheckEpochKeeps == ASSUME IInv, CheckEpoch PROVE IInv'
<1>1. /\ rpc = "checkEpoch"
      /\ UNCHANGED <<ringVars, driverVars, readFrame, epochSeen, played>>
      /\ \/ streamEpoch # epoch /\ Silence(FALSE)
         \/ /\ streamEpoch = epoch /\ rpc' = "checkActive"
            /\ UNCHANGED <<synchronized, epoch, written, ratio, rendered, second, bits,
                           loaded, disturbed>>
    BY DEF CheckEpoch
<1>2. CASE streamEpoch # epoch /\ Silence(FALSE)
    <2>1. Return /\ synchronized' = FALSE
        BY <1>2 DEF Silence
    <2>2. ~ played > 0
        BY <1>1, <1>2 DEF IInv, Stalled
    <2> QED
        BY <1>1, <2>1, <2>2, ReaderFacts, ReturnKeeps
<1>3. CASE /\ streamEpoch = epoch /\ rpc' = "checkActive"
           /\ UNCHANGED <<synchronized, epoch, written, ratio, rendered, second, bits,
                          loaded, disturbed>>
    <2>1. TypeOK'
        BY <1>1, <1>3, ReaderFacts, ReaderTypes
    <2>2. DriverShape' /\ TagsAreGenuine' /\ (TailIsWhole' <=> TailIsWhole)
        BY <1>1, ReaderKeepsDriver
    <2>3. UNCHANGED <<active, streamEpoch, writeFrame, streamStart, wpc>>
        BY <1>1 DEF ringVars, driverVars
    <2>4. ReaderShape'
        BY <1>1, <1>3, <2>3 DEF IInv, ReaderShape, Rendering, Loading
    <2>5. Begun' = Begun
        BY <1>1, <1>3 DEF Begun
    <2>6. WithinWritten'
        BY <1>1, <1>3, <2>5 DEF IInv, WithinWritten, Rendering, Loading
    <2>7. Undisturbed'
        <3>1. Genuine' <=> Genuine
            BY <1>3 DEF Genuine
        <3> QED
            BY <1>1, <1>3, <2>3, <3>1 DEF IInv, Undisturbed
    <2>8. Stalled'
        BY <1>1, <1>3, <2>2, <2>3, <2>5 DEF IInv, Stalled, Rendering, Loading
    <2> QED
        BY <2>1, <2>2, <2>4, <2>6, <2>7, <2>8 DEF IInv
<1> QED
    BY <1>1, <1>2, <1>3

(* The buffer is played: the next one starts where it ended.               *)
LEMMA CheckWriterActiveKeeps == ASSUME IInv, CheckWriterActive PROVE IInv'
<1>1. /\ rpc = "checkActive" /\ Return /\ synchronized' = (synchronized /\ active)
      /\ played' = IF active /\ epoch = streamEpoch /\ ~ disturbed THEN readFrame
                   ELSE played
      /\ UNCHANGED <<ringVars, driverVars, readFrame, epochSeen>>
    BY DEF CheckWriterActive, Silence
<1>2. rpc \in Rendering
    BY <1>1 DEF Rendering
<1>3. synchronized' \in BOOLEAN /\ played' \in Positions
    BY <1>1, ReaderFacts
<1>4. CASE active /\ epoch = streamEpoch /\ ~ disturbed
    <2>1. played' = readFrame /\ synchronized' = TRUE
        BY <1>1, <1>2, <1>4, RenderingFacts
    <2>2. written <= writeFrame
        BY <1>1, <1>4 DEF IInv, Undisturbed
    <2>3. readFrame < written * Scale
        <3> DEFINE rest == (FrameCount - rendered) * ratio
                   a == (written - 1) * Scale
                   b == written * Scale
        <3>1. rest \in Nat /\ readFrame + rest < a /\ a < b /\ a \in Int /\ b \in Nat
            BY <1>2, RenderingFacts
        <3> HIDE DEF rest, a, b
        <3>2. readFrame < b
            BY <3>1, ReaderFacts
        <3> QED
            BY <3>2 DEF b
    <2>4. readFrame < writeFrame * Scale
        <3>1. /\ written * Scale <= writeFrame * Scale
              /\ written * Scale \in Nat /\ writeFrame * Scale \in Nat
            BY <2>2, ScaleMonotone, ReaderFacts
        <3> QED
            BY <2>3, <3>1, ReaderFacts
    <2>5. epochSeen' = streamEpoch
        BY <1>1, <1>2, <1>4, RenderingFacts
    <2>6. readFrame' = readFrame /\ readFrame <= readFrame
        BY <1>1, ReaderFacts
    <2> QED
        BY <1>1, <1>3, <1>4, <2>1, <2>4, <2>5, <2>6, ReaderFacts, ReturnKeeps
<1>5. CASE ~ (active /\ epoch = streamEpoch /\ ~ disturbed)
    <2>1. played' = played
        BY <1>1, <1>5
    <2>2. ASSUME played > 0
          PROVE  /\ active /\ epochSeen = streamEpoch /\ synchronized' = TRUE
                 /\ readFrame < writeFrame * Scale
                 /\ TailIsWhole => played <= readFrame
        <3>1. synchronized = TRUE /\ Begun \in Int /\ Begun <= readFrame
            BY <1>2, RenderingFacts
        <3>2. /\ active /\ epochSeen = streamEpoch
              /\ readFrame < writeFrame * Scale
              /\ TailIsWhole => played <= Begun
            BY <2>2, <3>1 DEF IInv, Stalled
        <3>3. TailIsWhole => played <= readFrame
            BY <3>1, <3>2, ReaderFacts
        <3> QED
            BY <1>1, <3>1, <3>2, <3>3
    <2> QED
        BY <1>1, <1>3, <2>1, <2>2, ReaderFacts, ReturnKeeps
<1> QED
    BY <1>4, <1>5

-----------------------------------------------------------------------------
(* Theorems *)

(* A fresh ring. *)
LEMMA InitEstablishes == Init => IInv
<1> SUFFICES ASSUME Init PROVE IInv
    OBVIOUS
<1>1. /\ tag = [s \in Slots |-> 0] /\ stereo = [s \in Slots |-> NoSample]
      /\ writeFrame = 0 /\ streamStart = 0 /\ streamEpoch = 0 /\ active = FALSE
      /\ wpc \in {"stopped", "running"} /\ frame = 0 /\ end = 0
      /\ synchronized = FALSE /\ readFrame = 0 /\ epochSeen = 0
      /\ rpc = "idle" /\ epoch = 0 /\ written = 0 /\ ratio = Scale
      /\ rendered = 0 /\ second = FALSE /\ bits = NoSample
      /\ loaded = {} /\ disturbed = FALSE /\ played = 0
    BY DEF Init
<1>2. 0 \in Frames /\ 0 \in Streams /\ 0 \in 0..(MaxFrame + 1)
    BY DEF Frames, Streams
<1>3. NoSample \in [stream : Streams, frame : Frames]
    BY <1>2 DEF NoSample
<1>4. 0 \in 0..((MaxFrame + 1) * Scale)
    BY PositionInRange DEF Positions
<1>5. TypeOK
    <2>1. /\ {writeFrame, streamStart, end, written} \subseteq Frames
          /\ {streamEpoch, epochSeen, epoch} \subseteq Streams
          /\ {active, synchronized, second, disturbed} \subseteq BOOLEAN
          /\ {readFrame, played} \subseteq 0..((MaxFrame + 1) * Scale)
        BY <1>1, <1>2, <1>4
    <2>2. /\ tag \in [Slots -> 0..(MaxFrame + 1)]
          /\ stereo \in [Slots -> [stream : Streams, frame : Frames]]
          /\ bits \in [stream : Streams, frame : Frames]
        BY <1>1, <1>2, <1>3
    <2>3. ratio \in (Scale - 1)..(Scale + 1) /\ rendered \in 0..FrameCount
        BY <1>1
    <2> QED
        BY <1>1, <1>2, <2>1, <2>2, <2>3 DEF TypeOK
<1>6. DriverShape
    BY <1>1 DEF DriverShape, Resetting, Storing
<1>7. TagsAreGenuine
    BY <1>1 DEF TagsAreGenuine, Wiping
<1>8. ReaderShape /\ WithinWritten
    BY <1>1 DEF ReaderShape, WithinWritten, Rendering, Loading
<1>9. Undisturbed /\ Stalled
    BY <1>1 DEF Undisturbed, Stalled
<1> QED
    BY <1>5, <1>6, <1>7, <1>8, <1>9 DEF IInv

(* Every step of either side keeps the invariant. *)
LEMMA StepKeeps == ASSUME IInv, [Next]_vars PROVE IInv'
<1>1. CASE DriverStep
    <2>1. CASE StopIO
        BY <2>1, StopIOKeeps
    <2>2. CASE StartIO
        BY <2>2, StartIOKeeps
    <2>3. CASE ResetEpoch
        BY <2>3, ResetEpochKeeps
    <2>4. CASE ResetWriteFrame \/ ResetStart
        BY <2>4, ResetBoundsKeep
    <2>5. CASE ClearTag
        BY <2>5, ClearTagKeeps
    <2>6. ASSUME NEW gap \in Gaps, NEW count \in Chunks, Capture(gap, count) PROVE IInv'
        BY <2>6, CaptureKeeps
    <2>7. CASE CheckActive
        BY <2>7, CheckActiveKeeps
    <2>8. CASE ZeroTag
        BY <2>8, ZeroTagKeeps
    <2>9. CASE StoreStereo
        BY <2>9, StoreStereoKeeps
    <2>10. CASE SetTag
        BY <2>10, SetTagKeeps
    <2>11. CASE Advance \/ RaiseActive
        BY <2>11, AdvanceKeeps
    <2> QED
        BY <1>1, <2>1, <2>2, <2>3, <2>4, <2>5, <2>6, <2>7, <2>8, <2>9, <2>10, <2>11
           DEF DriverStep
<1>2. CASE ReaderStep
    <2>1. CASE LoadActive
        BY <2>1, LoadActiveKeeps
    <2>2. CASE LoadEpoch
        BY <2>2, LoadEpochKeeps
    <2>3. CASE LoadWriteFrame
        BY <2>3, LoadWriteFrameKeeps
    <2>4. CASE LoadStartAndDecide
        BY <2>4, DecideKeeps
    <2>5. CASE FirstTag
        BY <2>5, FirstTagKeeps
    <2>6. CASE LoadStereo
        BY <2>6, LoadStereoKeeps
    <2>7. CASE SecondTag
        BY <2>7, SecondTagKeeps
    <2>8. CASE CheckEpoch
        BY <2>8, CheckEpochKeeps
    <2>9. CASE CheckWriterActive
        BY <2>9, CheckWriterActiveKeeps
    <2> QED
        BY <1>2, <2>1, <2>2, <2>3, <2>4, <2>5, <2>6, <2>7, <2>8, <2>9 DEF ReaderStep
<1>3. CASE UNCHANGED vars
    <2>1. UNCHANGED <<tag, stereo, writeFrame, streamStart, streamEpoch, active, wpc, frame,
                      end, synchronized, readFrame, epochSeen, rpc, epoch, written, ratio,
                      rendered, second, bits, loaded, disturbed, played>>
        BY <1>3 DEF vars, ringVars, driverVars, readerVars, localVars
    <2>2. UNCHANGED <<ringVars, driverVars>>
        BY <1>3 DEF vars
    <2>3. TypeOK'
        BY <2>1, <2>2, ReaderFacts, ReaderTypes DEF IInv, TypeOK
    <2>4. DriverShape' /\ TagsAreGenuine' /\ (TailIsWhole' <=> TailIsWhole)
        BY <2>2, ReaderKeepsDriver
    <2>5. ReaderShape'
        BY <2>1 DEF IInv, ReaderShape, Rendering, Loading
    <2>6. Begun' = Begun
        BY <2>1 DEF Begun
    <2>7. WithinWritten'
        BY <2>1, <2>6 DEF IInv, WithinWritten, Rendering, Loading
    <2>8. Undisturbed'
        <3>1. Genuine' <=> Genuine
            BY <2>1 DEF Genuine
        <3>2. Source' = Source
            BY <2>1 DEF Source
        <3>3. Slot(Source)' = Slot(Source)
            BY <3>2 DEF Slot
        <3> QED
            BY <2>1, <3>1, <3>2, <3>3 DEF IInv, Undisturbed, Resetting, Wiping
    <2>9. Stalled'
        BY <2>1, <2>4, <2>6 DEF IInv, Stalled, Rendering, Loading
    <2> QED
        BY <2>3, <2>4, <2>5, <2>7, <2>8, <2>9 DEF IInv
<1> QED
    BY <1>1, <1>2, <1>3 DEF Next

(* The strengthened invariant holds in every reachable state. *)
THEOREM Invariance == Spec => []IInv
<1>1. Init => IInv
    BY InitEstablishes
<1>2. IInv /\ [Next]_vars => IInv'
    BY StepKeeps
<1> QED
    BY <1>1, <1>2, PTL DEF Spec

(* Every variable keeps its type: the position, its fraction and its       *)
(* correction included, stays within the stream.                           *)
THEOREM RingTypes == Spec => []TypeOK
<1>1. IInv => TypeOK
    BY DEF IInv
<1> QED
    BY <1>1, Invariance, PTL

(* In the middle of a buffer the reader never waits for a frame that had   *)
(* not been written when it began.                                         *)
THEOREM NeverAhead == Spec => []NeverReadsAhead
<1>1. IInv => NeverReadsAhead
    BY WaitsForWritten DEF NeverReadsAhead
<1> QED
    BY <1>1, Invariance, PTL

(* What is rendered as a frame was captured as that frame, however often   *)
(* its slot was written again meanwhile.                                   *)
THEOREM GenuineRendering == Spec => []RenderedIsGenuine
<1>1. IInv => RenderedIsGenuine
    <2>1. ASSUME IInv, Renders, ~ disturbed PROVE Genuine
        <3>1. Undisturbed /\ rpc = "checkActive"
            BY <2>1 DEF IInv, Renders
        <3> QED
            BY <2>1, <3>1 DEF Undisturbed
    <2>2. ASSUME Genuine, NEW l \in loaded PROVE l.sample.frame = l.frame
        <3>1. l.sample = [stream |-> epoch, frame |-> l.frame]
            BY <2>2 DEF Genuine
        <3>2. [stream |-> epoch, frame |-> l.frame].frame = l.frame
            OBVIOUS
        <3> QED
            BY <3>1, <3>2, Zenon
    <2> QED
        BY <2>1, <2>2 DEF RenderedIsGenuine
<1> QED
    BY <1>1, Invariance, PTL

(* What is rendered was captured in the stream whose epoch the read loaded,*)
(* whatever restarts come between its steps after that.                    *)
THEOREM CleanRestart == Spec => []RestartIsClean
<1>1. IInv => RestartIsClean
    <2>1. ASSUME IInv, Renders, ~ disturbed PROVE Genuine
        <3>1. Undisturbed /\ rpc = "checkActive"
            BY <2>1 DEF IInv, Renders
        <3> QED
            BY <2>1, <3>1 DEF Undisturbed
    <2>2. ASSUME Genuine, NEW l \in loaded PROVE l.sample.stream = epoch
        <3>1. l.sample = [stream |-> epoch, frame |-> l.frame]
            BY <2>2 DEF Genuine
        <3>2. [stream |-> epoch, frame |-> l.frame].stream = epoch
            OBVIOUS
        <3> QED
            BY <3>1, <3>2, Zenon
    <2> QED
        BY <2>1, <2>2 DEF RestartIsClean
<1> QED
    BY <1>1, Invariance, PTL

(* While the driver is stalled nothing is played twice, unless there is a  *)
(* gap in the last frames it wrote.                                        *)
THEOREM NoReplay == Spec => []WholeTailIsNeverReplayed
<1>1. ASSUME IInv, Renders, TailIsWhole PROVE readFrame - FrameCount * ratio >= played
    <2>1. rpc = "checkActive" /\ rpc \in Rendering
        BY <1>1 DEF Renders, Rendering
    <2>2. rendered = FrameCount
        BY <1>1, <2>1 DEF IInv, ReaderShape
    <2>3. Begun = readFrame - FrameCount * ratio
        BY <2>2 DEF Begun
    <2>4. synchronized = TRUE /\ Begun >= 0
        BY <1>1, <2>1, RenderingFacts
    <2>5. played > 0 => played <= Begun
        BY <1>1, <2>4 DEF IInv, Stalled
    <2>6. played \in Nat /\ Begun \in Int
        BY <1>1, <2>1, ReaderFacts, RenderingFacts
    <2>7. Begun >= played
        BY <2>4, <2>5, <2>6
    <2> QED
        BY <2>3, <2>7
<1>2. IInv => WholeTailIsNeverReplayed
    BY <1>1 DEF WholeTailIsNeverReplayed
<1> QED
    BY <1>2, Invariance, PTL

=============================================================================
