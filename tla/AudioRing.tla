----------------------------- MODULE AudioRing -----------------------------
(***************************************************************************)
(* One ring between the driver's render thread, which captures into it,    *)
(* and the helper's physical IO callback, which renders from it            *)
(* (common/SharedAudio.h, driver/SoundVolumeControl.c and                  *)
(* forwarder/SharedAudioReader.c).  The two are in different processes;    *)
(* every access to the shared memory is a step of its own.                 *)
(*                                                                         *)
(* The host (external) captures only between StartIO and StopIO, never     *)
(* turns its sample time back in between, and may skip some of it.         *)
(*                                                                         *)
(* A stereo sample is represented by the stream and the frame it was       *)
(* captured as.  The reader's fractional position is counted in units of   *)
(* 1/Scale frame, and its clock correction, at most 1/200 in the code, is  *)
(* one unit per frame.                                                     *)
(***************************************************************************)
EXTENDS Integers, FiniteSets

CONSTANTS
    Capacity,       \* kSVCSharedAudioCapacityFrames
    Latency,        \* the reader's targetLatencyFrames
    FrameCount,     \* frames of one physical IO callback
    Scale,          \* units of the reader's position in one frame
    Chunks,         \* frames the host may hand to one WriteMix
    Gaps,           \* frames the host may skip before one
    MaxFrame,       \* bound: frames of a stream
    MaxStreams      \* bound: starts of IO

(* ClampTargetLatency keeps the latency to a quarter of the ring; that it  *)
(* is less than what the reader takes for lost is what matters.            *)
ASSUME RingAssumption ==
    /\ Capacity \in Nat /\ Latency \in Nat \ {0} /\ Latency < Capacity - 2
    /\ FrameCount \in Nat \ {0} /\ Scale \in Nat \ {0, 1}
    /\ Chunks \subseteq Nat \ {0} /\ Gaps \subseteq Nat
    /\ MaxFrame \in Nat /\ MaxStreams \in Nat

VARIABLES
    \* the shared memory
    tag, stereo,    \* the two words of each slot
    writeFrame, streamStart, streamEpoch, active,
    \* the driver
    wpc,            \* what the driver does next
    frame, end,     \* CaptureOutput: the frame to store, and past the last one
    \* the reader's fields
    synchronized, readFrame, epochSeen,
    \* the local variables of one read
    rpc,            \* what the reader does next
    epoch, written, \* streamEpoch and writeFrame as loaded
    ratio,          \* units the position moves per frame
    rendered,       \* output frames done
    second,         \* loading the second of the two frames to interpolate
    bits,           \* the stereo word as loaded
    \* history, read by properties only
    loaded,         \* what LoadFrame returned in this read
    disturbed,      \* IO was started between this read's first two loads
    played          \* end of the last rendering of the present stream since the
                    \* driver's last step

ringVars == <<tag, stereo, writeFrame, streamStart, streamEpoch, active>>
driverVars == <<wpc, frame, end>>
readerVars == <<synchronized, readFrame, epochSeen>>
localVars == <<rpc, epoch, written, ratio, rendered, second, bits>>
vars == <<ringVars, driverVars, readerVars, localVars, loaded, disturbed, played>>

Slots == 0..(Capacity - 1)
Frames == 0..MaxFrame
Streams == 0..MaxStreams
NoSample == [stream |-> 0, frame |-> 0]

Resetting == {"resetEpoch", "resetWrite", "resetStart", "clear"}
Capturing == {"check", "zeroTag", "store", "setTag", "advance", "raise"}
Loading == {"firstTag", "bits", "secondTag"}

TypeOK ==
    /\ tag \in [Slots -> 0..(MaxFrame + 1)]
    /\ stereo \in [Slots -> [stream : Streams, frame : Frames]]
    /\ {writeFrame, streamStart, end, written} \subseteq Frames
    /\ frame \in Frames \union Slots
    /\ {streamEpoch, epochSeen, epoch} \subseteq Streams
    /\ {active, synchronized, second, disturbed} \subseteq BOOLEAN
    /\ wpc \in {"stopped", "running"} \union Resetting \union Capturing
    /\ rpc \in {"idle", "epoch", "write", "start", "checkEpoch", "checkActive"}
                 \union Loading
    /\ {readFrame, played} \subseteq 0..((MaxFrame + 1) * Scale)
    /\ ratio \in (Scale - 1)..(Scale + 1)
    /\ rendered \in 0..FrameCount
    /\ bits \in [stream : Streams, frame : Frames]
    /\ \A l \in loaded : l.frame \in Frames

(* A fresh ring, put into service before IO starts or while it runs. *)
Init ==
    /\ tag = [s \in Slots |-> 0]
    /\ stereo = [s \in Slots |-> NoSample]
    /\ writeFrame = 0 /\ streamStart = 0 /\ streamEpoch = 0 /\ active = FALSE
    /\ wpc \in {"stopped", "running"} /\ frame = 0 /\ end = 0
    /\ synchronized = FALSE /\ readFrame = 0 /\ epochSeen = 0
    /\ rpc = "idle" /\ epoch = 0 /\ written = 0 /\ ratio = Scale
    /\ rendered = 0 /\ second = FALSE /\ bits = NoSample
    /\ loaded = {} /\ disturbed = FALSE /\ played = 0

Slot(f) == f % Capacity

-----------------------------------------------------------------------------
(* The driver *)

Becomes(pc) == wpc' = pc

(* Every step of the driver; [played] starts again, and a read that has    *)
(* yet to load streamEpoch is disturbed by a reset.                        *)
DriverOnly ==
    /\ UNCHANGED <<readerVars, localVars, loaded>>
    /\ played' = 0
    /\ disturbed' = (disturbed \/ (rpc = "epoch" /\ wpc' \in Resetting))

(* StopIO of the last client. *)
StopIO ==
    /\ wpc = "running"
    /\ active' = FALSE
    /\ Becomes("stopped")
    /\ UNCHANGED <<tag, stereo, writeFrame, streamStart, streamEpoch, frame, end>>
    /\ DriverOnly

(* StartIO of the first client: ResetSharedAudioStream, access by access.  *)
StartIO ==
    /\ wpc = "stopped" /\ streamEpoch < MaxStreams
    /\ active' = FALSE
    /\ Becomes("resetEpoch")
    /\ UNCHANGED <<tag, stereo, writeFrame, streamStart, streamEpoch, frame, end>>
    /\ DriverOnly

ResetEpoch ==
    /\ wpc = "resetEpoch"
    /\ streamEpoch' = streamEpoch + 1
    /\ Becomes("resetWrite")
    /\ UNCHANGED <<tag, stereo, writeFrame, streamStart, active, frame, end>>
    /\ DriverOnly

ResetWriteFrame ==
    /\ wpc = "resetWrite"
    /\ writeFrame' = 0
    /\ Becomes("resetStart")
    /\ UNCHANGED <<tag, stereo, streamStart, streamEpoch, active, frame, end>>
    /\ DriverOnly

ResetStart ==
    /\ wpc = "resetStart"
    /\ streamStart' = 0
    /\ frame' = 0
    /\ Becomes("clear")
    /\ UNCHANGED <<tag, stereo, writeFrame, streamEpoch, active, end>>
    /\ DriverOnly

(* Mutant: the tags of the stream before are kept. *)
ClearTagNot ==
    /\ wpc = "clear"
    /\ Becomes("running")
    /\ UNCHANGED <<ringVars, frame, end>>
    /\ DriverOnly

(* The tags are cleared in order; [frame] is the loop's index. *)
ClearTag ==
    /\ wpc = "clear"
    /\ tag' = [tag EXCEPT ![frame] = 0]
    /\ IF frame = Capacity - 1 THEN Becomes("running") /\ frame' = 0
       ELSE UNCHANGED wpc /\ frame' = frame + 1
    /\ UNCHANGED <<stereo, writeFrame, streamStart, streamEpoch, active, end>>
    /\ DriverOnly

(* CaptureOutput: of more than a ring's worth only the last frames count.  *)
(* The host goes on where it was, but for a gap.                           *)
Capture(gap, count) ==
    /\ wpc = "running"
    /\ LET sampleFrame == writeFrame + gap
           skipped == IF count > Capacity THEN count - Capacity ELSE 0
       IN /\ frame' = sampleFrame + skipped
          /\ end' = sampleFrame + count
          /\ sampleFrame + count <= MaxFrame
    /\ Becomes("check")
    /\ UNCHANGED ringVars
    /\ DriverOnly

(* The first capture of a stream sets its bounds. *)
CheckActive ==
    /\ wpc = "check"
    /\ IF active THEN UNCHANGED <<streamStart, writeFrame>>
       ELSE streamStart' = frame /\ writeFrame' = frame
    /\ Becomes("zeroTag")
    /\ UNCHANGED <<tag, stereo, streamEpoch, active, frame, end>>
    /\ DriverOnly

(* Mutant: the slot keeps its old tag while the sample changes. *)
ZeroTagNot ==
    /\ wpc = "zeroTag"
    /\ Becomes("store")
    /\ UNCHANGED <<ringVars, frame, end>>
    /\ DriverOnly

(* SVCSharedAudioStoreFrame: the slot is invalid while its sample changes. *)
ZeroTag ==
    /\ wpc = "zeroTag"
    /\ tag' = [tag EXCEPT ![Slot(frame)] = 0]
    /\ Becomes("store")
    /\ UNCHANGED <<stereo, writeFrame, streamStart, streamEpoch, active, frame, end>>
    /\ DriverOnly

StoreStereo ==
    /\ wpc = "store"
    /\ stereo' = [stereo EXCEPT ![Slot(frame)] = [stream |-> streamEpoch, frame |-> frame]]
    /\ Becomes("setTag")
    /\ UNCHANGED <<tag, writeFrame, streamStart, streamEpoch, active, frame, end>>
    /\ DriverOnly

SetTag ==
    /\ wpc = "setTag"
    /\ tag' = [tag EXCEPT ![Slot(frame)] = frame + 1]
    /\ IF frame + 1 = end THEN Becomes("advance") /\ UNCHANGED frame
       ELSE Becomes("zeroTag") /\ frame' = frame + 1
    /\ UNCHANGED <<stereo, writeFrame, streamStart, streamEpoch, active, end>>
    /\ DriverOnly

Advance ==
    /\ wpc = "advance"
    /\ writeFrame' = end
    /\ Becomes("raise")
    /\ UNCHANGED <<tag, stereo, streamStart, streamEpoch, active, frame, end>>
    /\ DriverOnly

RaiseActive ==
    /\ wpc = "raise"
    /\ active' = TRUE
    /\ Becomes("running")
    /\ frame' = 0 /\ end' = 0
    /\ UNCHANGED <<tag, stereo, writeFrame, streamStart, streamEpoch>>
    /\ DriverOnly

DriverStep ==
    \/ StopIO \/ StartIO \/ ResetEpoch \/ ResetWriteFrame \/ ResetStart \/ ClearTag
    \/ \E gap \in Gaps, count \in Chunks : Capture(gap, count)
    \/ CheckActive \/ ZeroTag \/ StoreStereo \/ SetTag \/ Advance \/ RaiseActive

-----------------------------------------------------------------------------
(* The reader: SVCSharedAudioReaderRead *)

(* The read is over; its local variables are forgotten. *)
Return ==
    /\ rpc' = "idle"
    /\ epoch' = 0 /\ written' = 0 /\ ratio' = Scale
    /\ rendered' = 0 /\ second' = FALSE /\ bits' = NoSample
    /\ loaded' = {} /\ disturbed' = FALSE

Silence(stillSynchronized) ==
    /\ synchronized' = stillSynchronized
    /\ Return

LoadActive ==
    /\ rpc = "idle"
    /\ IF active
       THEN /\ rpc' = "epoch"
            /\ UNCHANGED synchronized
       ELSE /\ synchronized' = FALSE
            /\ UNCHANGED rpc
    /\ UNCHANGED <<ringVars, driverVars, readFrame, epochSeen, epoch, written, ratio,
                   rendered, second, bits, loaded, disturbed, played>>

LoadEpoch ==
    /\ rpc = "epoch"
    /\ epoch' = streamEpoch
    /\ rpc' = "write"
    /\ UNCHANGED <<ringVars, driverVars, readerVars, written, ratio, rendered, second,
                   bits, loaded, disturbed, played>>

LoadWriteFrame ==
    /\ rpc = "write"
    /\ written' = writeFrame
    /\ rpc' = "start"
    /\ UNCHANGED <<ringVars, driverVars, readerVars, epoch, ratio, rendered, second,
                   bits, loaded, disturbed, played>>

(* Mutant: the correction is not clamped. *)
RatioUnclamped(available) == Scale + available - Latency

(* The correction: slower when behind the target, faster when ahead. *)
Ratio(available) ==
    IF available < Latency THEN Scale - 1
    ELSE IF available > Latency THEN Scale + 1 ELSE Scale

(* Mutant: the frame after the last one is not counted. *)
RequiredShort(playbackRatio) == (FrameCount * playbackRatio + Scale - 1) \div Scale

(* Frames that the buffer can need: its length at that ratio, rounded up,  *)
(* one more to interpolate with and one for the fraction.                  *)
Required(playbackRatio) == (FrameCount * playbackRatio + Scale - 1) \div Scale + 2

(* Mutant: an underrun loses the position. *)
UnderrunResynchronizing(position) ==
    /\ Silence(FALSE)
    /\ readFrame' = position

(* An underrun keeps the position: the writer may only be stalled. *)
Underrun(position) ==
    /\ Silence(TRUE)
    /\ readFrame' = position

(* streamStart is loaded last; then the reader decides. *)
LoadStartAndDecide ==
    /\ rpc = "start"
    /\ epochSeen' = epoch
    /\ LET follows == synchronized /\ epoch = epochSeen
           backlog == written - streamStart
           target == IF written - Latency < streamStart THEN streamStart
                     ELSE written - Latency
           position == IF follows THEN readFrame ELSE target * Scale
           available == written - (position \div Scale)
           lost == available < 0 \/ available >= Capacity - 2
           underrun == available < Required(Ratio(available))
       IN \/ /\ backlog < Latency
             /\ Silence(follows)
             /\ UNCHANGED readFrame
          \/ /\ backlog >= Latency /\ lost
             /\ Silence(FALSE)
             /\ readFrame' = position
          \/ /\ backlog >= Latency /\ ~ lost /\ underrun
             /\ Underrun(position)
          \/ /\ backlog >= Latency /\ ~ lost /\ ~ underrun
             /\ readFrame' = position
             /\ synchronized' = TRUE
             /\ ratio' = Ratio(available)
             /\ rpc' = "firstTag"
             /\ UNCHANGED <<epoch, written, rendered, second, bits, loaded, disturbed>>
    /\ UNCHANGED <<ringVars, driverVars, played>>

(* SVCSharedAudioLoadFrame of the frame at the position, or of the next. *)
Source == (readFrame \div Scale) + IF second THEN 1 ELSE 0

Missing ==
    /\ tag[Slot(Source)] # Source + 1
    /\ Silence(FALSE)
    /\ UNCHANGED <<readFrame, epochSeen>>

FirstTag ==
    /\ rpc = "firstTag"
    /\ \/ Missing
       \/ /\ tag[Slot(Source)] = Source + 1
          /\ rpc' = "bits"
          /\ UNCHANGED <<readerVars, epoch, written, ratio, rendered, second, bits, loaded,
                         disturbed>>
    /\ UNCHANGED <<ringVars, driverVars, played>>

LoadStereo ==
    /\ rpc = "bits"
    /\ bits' = stereo[Slot(Source)]
    /\ rpc' = "secondTag"
    /\ UNCHANGED <<ringVars, driverVars, readerVars, epoch, written, ratio, rendered,
                   second, loaded, disturbed, played>>

SecondTag ==
    /\ rpc = "secondTag"
    /\ \/ Missing
       \/ /\ tag[Slot(Source)] = Source + 1
          /\ loaded' = loaded \union {[frame |-> Source, sample |-> bits]}
          /\ bits' = NoSample
          /\ second' = ~ second
          /\ IF second THEN readFrame' = readFrame + ratio /\ rendered' = rendered + 1
             ELSE UNCHANGED <<readFrame, rendered>>
          /\ rpc' = IF second /\ rendered + 1 = FrameCount THEN "checkEpoch" ELSE "firstTag"
          /\ UNCHANGED <<synchronized, epochSeen, epoch, written, ratio, disturbed>>
    /\ UNCHANGED <<ringVars, driverVars, played>>

CheckEpoch ==
    /\ rpc = "checkEpoch"
    /\ \/ /\ streamEpoch # epoch
          /\ Silence(FALSE)
       \/ /\ streamEpoch = epoch
          /\ rpc' = "checkActive"
          /\ UNCHANGED <<synchronized, epoch, written, ratio, rendered, second, bits,
                         loaded, disturbed>>
    /\ UNCHANGED <<ringVars, driverVars, readFrame, epochSeen, played>>

(* The last load: the buffer is rendered, or thrown away. *)
CheckWriterActive ==
    /\ rpc = "checkActive"
    /\ Silence(synchronized /\ active)
    /\ played' = IF active /\ epoch = streamEpoch /\ ~ disturbed THEN readFrame
                 ELSE played
    /\ UNCHANGED <<ringVars, driverVars, readFrame, epochSeen>>

ReaderStep ==
    \/ LoadActive \/ LoadEpoch \/ LoadWriteFrame \/ LoadStartAndDecide
    \/ FirstTag \/ LoadStereo \/ SecondTag \/ CheckEpoch \/ CheckWriterActive

Next == DriverStep \/ ReaderStep

Spec == Init /\ [][Next]_vars

-----------------------------------------------------------------------------
(* Properties *)

Renders == rpc = "checkActive" /\ active

(* common/SharedAudio.h:84, "Tags reject gaps and overwritten slots": unless *)
(* IO is started between its first two loads, a read renders as each frame  *)
(* the sample captured as that frame, whatever the driver stored in its     *)
(* slot in the meantime.  (A read that is disturbed so may also find the    *)
(* same tag twice around another frame's sample.)                           *)
RenderedIsGenuine ==
    Renders /\ ~ disturbed => \A l \in loaded : l.sample.frame = l.frame

(* The frames a buffer needs, with the one to interpolate with, are below  *)
(* the writeFrame that was loaded: the reader's arithmetic never makes it  *)
(* wait for a frame still to come in the middle of a buffer.               *)
NeverReadsAhead == rpc \in Loading => Source < written

(* Unless IO is started between its first two loads, a read renders only   *)
(* the stream of the epoch it loaded, gaps in that stream included: nothing *)
(* an earlier stream left in the ring is heard again, and no buffer joins   *)
(* two streams, however slow the read is.                                   *)
RestartIsClean ==
    Renders /\ ~ disturbed => \A l \in loaded : l.sample.stream = epoch

(* tests/shared-audio-reader-tests.c:50, TestStreamRestartResynchronizes:  *)
(* what is rendered under an epoch belongs to the stream of that epoch.    *)
RenderedIsCurrentStream ==
    Renders => \A l \in loaded : l.sample.stream = epoch

(* The host skipped none of the last Latency frames. *)
TailIsWhole ==
    \A f \in streamStart..(writeFrame - 1) :
        f >= writeFrame - Latency => tag[Slot(f)] = f + 1

(* forwarder/SharedAudioReader.c:110, "Keep our position while the writer  *)
(* is stalled.  Re-synchronizing ... would replay the tail indefinitely":  *)
(* while the driver does nothing, no buffer starts before the end of the   *)
(* one rendered before it; the reader's rounding, its underruns and the    *)
(* frames it found overwritten never make it go back.  The exception that  *)
(* the code makes is a tail with a gap, which loses synchronization.       *)
WholeTailIsNeverReplayed ==
    Renders /\ TailIsWhole => readFrame - FrameCount * ratio >= played
=============================================================================
