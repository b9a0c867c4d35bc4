---------------------------- MODULE GainControl ----------------------------
(***************************************************************************)
(* From the volume keys to the samples: the volume and mute controls of    *)
(* the driver (driver/SoundVolumeControl.c), the helper that reads and     *)
(* follows them (forwarder/main.m), and the gain ramp of its physical IO   *)
(* callback (forwarder/AudioProcessor.c).                                  *)
(*                                                                         *)
(* Core Audio (external) passes the driver's PropertiesChanged to the      *)
(* listeners installed at that time, later, and one call at a time; it may *)
(* merge what it has not yet passed on.  Reading a property of the virtual *)
(* device succeeds.                                                        *)
(*                                                                         *)
(* Volumes and gains are in percent, gains rounded down.  The decibel      *)
(* selector sets a scalar as the scalar selector does.                     *)
(***************************************************************************)
EXTENDS Integers

CONSTANTS
    Callers,        \* threads on which the host sets properties
    RawVolumes,     \* what they are asked to set, in range or not
    RampFrames,     \* rampLengthFrames
    MaxSets         \* bound: calls that set a property

ASSUME GainAssumption ==
    /\ RawVolumes \subseteq Int
    /\ RampFrames \in Nat \ {0}
    /\ MaxSets \in Nat

VARIABLES
    \* the driver
    volume, mute,   \* gVolumeScalar, gMute
    announcing,     \* the control each caller changed and has yet to announce
    \* Core Audio
    listening,      \* controls the helper listens to
    due,            \* controls whose change the listener is to be told
    \* the helper's main
    hpc,            \* how far its startup is
    startVolume,    \* the volume it read
    \* the helper's listener, ControlChanged
    lpc,
    heardVolume,    \* the volume it read
    \* the gain processor
    target,         \* targetGainBits
    current, rampTarget, remaining,
    \* bound and history
    sets,
    missed          \* a change between main's reading of a control and its
                    \* listener, with no call of the listener since

driverVars == <<volume, mute, announcing>>
audioVars == <<listening, due>>
mainVars == <<hpc, startVolume>>
listenerVars == <<lpc, heardVolume>>
rampVars == <<current, rampTarget, remaining>>
vars == <<driverVars, audioVars, mainVars, listenerVars, target, rampVars, sets, missed>>

Percent == 0..100
Controls == {"volume", "mute"}

TypeOK ==
    /\ {volume, startVolume, heardVolume, target, current, rampTarget} \subseteq Percent
    /\ mute \in BOOLEAN /\ missed \in BOOLEAN
    /\ announcing \in [Callers -> Controls \union {"nothing"}]
    /\ listening \subseteq Controls /\ due \subseteq listening
    /\ hpc \in {"readVolume", "readMute", "listenToVolume", "listenToMute", "start",
                "running"}
    /\ lpc \in {"idle", "readMute"}
    /\ remaining \in 0..RampFrames
    /\ remaining = 0 => current = rampTarget

-----------------------------------------------------------------------------
(* Conversions *)

(* Mutant: only the top of the range is kept. *)
ClampAbove(raw) == IF raw >= 100 THEN 100 ELSE raw

(* SVCVolumeClampScalar *)
Clamp(raw) == IF raw <= 0 THEN 0 ELSE IF raw >= 100 THEN 100 ELSE raw

(* SVCVolumeScalarToGain: the square law. *)
ScalarToGain(scalar) == (scalar * scalar) \div 100

(* What SoftwareGain makes of its two readings. *)
Gain(scalar, muted) == IF muted THEN 0 ELSE ScalarToGain(scalar)

Init ==
    /\ volume = 100 /\ mute = FALSE
    /\ announcing = [c \in Callers |-> "nothing"]
    /\ listening = {} /\ due = {}
    /\ hpc = "readVolume" /\ startVolume = 0
    /\ lpc = "idle" /\ heardVolume = 0
    /\ target = 0 /\ current = 0 /\ rampTarget = 0 /\ remaining = 0
    /\ sets = MaxSets
    /\ missed = FALSE

-----------------------------------------------------------------------------
(* The driver: DriverSetPropertyData *)

(* The control has been read by main and is not listened to yet. *)
Unheard(control) ==
    /\ control \notin listening
    /\ hpc # "readVolume"
    /\ control = "mute" => hpc # "readMute"

(* Past the mutex: a change is announced by the same thread. *)
Changes(caller, control, changed) ==
    /\ announcing[caller] = "nothing"
    /\ sets > 0 /\ sets' = sets - 1
    /\ announcing' = IF changed THEN [announcing EXCEPT ![caller] = control] ELSE announcing
    /\ missed' = (missed \/ (changed /\ Unheard(control)))
    /\ UNCHANGED <<audioVars, mainVars, listenerVars, target, rampVars>>

(* Mutant: the comparison comes after the assignment. *)
SetVolumeComparedLate(caller, raw) ==
    /\ Changes(caller, "volume", FALSE)
    /\ volume' = Clamp(raw)
    /\ UNCHANGED mute

SetVolume(caller, raw) ==
    /\ Changes(caller, "volume", volume # Clamp(raw))
    /\ volume' = Clamp(raw)
    /\ UNCHANGED mute

SetMute(caller, value) ==
    /\ Changes(caller, "mute", mute # value)
    /\ mute' = value
    /\ UNCHANGED volume

(* Notify: the host tells the listeners there are. *)
Notify(caller) ==
    /\ announcing[caller] # "nothing"
    /\ due' = due \union ({announcing[caller]} \intersect listening)
    /\ announcing' = [announcing EXCEPT ![caller] = "nothing"]
    /\ UNCHANGED <<volume, mute, listening, mainVars, listenerVars, target, rampVars, sets,
                   missed>>

-----------------------------------------------------------------------------
(* The helper's main *)

StartsWithVolume ==
    /\ hpc = "readVolume"
    /\ startVolume' = volume
    /\ hpc' = "readMute"
    /\ UNCHANGED <<driverVars, audioVars, listenerVars, target, rampVars, sets, missed>>

(* The rest of SoftwareGain, and SVCGainProcessorInit. *)
StartsWithMute ==
    /\ hpc = "readMute"
    /\ LET gain == Gain(startVolume, mute)
       IN target' = gain /\ current' = gain /\ rampTarget' = gain
    /\ hpc' = "listenToVolume"
    /\ UNCHANGED <<driverVars, audioVars, startVolume, listenerVars, remaining, sets, missed>>

Listens(control, then) ==
    /\ listening' = listening \union {control}
    /\ hpc' = then
    /\ UNCHANGED <<driverVars, due, startVolume, listenerVars, target, rampVars, sets, missed>>

ListensToVolume == hpc = "listenToVolume" /\ Listens("volume", "listenToMute")
ListensToMute == hpc = "listenToMute" /\ Listens("mute", "start")

StartsIO ==
    /\ hpc = "start"
    /\ hpc' = "running"
    /\ UNCHANGED <<driverVars, audioVars, startVolume, listenerVars, target, rampVars, sets,
                   missed>>

-----------------------------------------------------------------------------
(* The helper's listener: both controls are read, whichever changed *)

HearsVolume(control) ==
    /\ lpc = "idle"
    /\ control \in due
    /\ due' = due \ {control}
    /\ heardVolume' = volume
    /\ lpc' = "readMute"
    /\ missed' = FALSE
    /\ UNCHANGED <<driverVars, listening, mainVars, target, rampVars, sets>>

HearsMute ==
    /\ lpc = "readMute"
    /\ target' = Gain(heardVolume, mute)
    /\ lpc' = "idle"
    /\ UNCHANGED <<driverVars, audioVars, mainVars, heardVolume, rampVars, sets, missed>>

-----------------------------------------------------------------------------
(* Physical IO *)

(* Mutants: a ramp under way keeps its length when it is redirected; a     *)
(* ramp starts again at every frame that is short of the target.           *)
FramesOfRampKept ==
    IF target # rampTarget /\ remaining = 0 THEN RampFrames ELSE remaining

FramesOfRampRestarting == IF current # target THEN RampFrames ELSE remaining

(* GainForNextFrame, first half: a new target starts a ramp of full length. *)
FramesOfRamp == IF target # rampTarget THEN RampFrames ELSE remaining

(* GainForNextFrame: each frame goes the fair share of what is left. *)
GainForNextFrame ==
    /\ hpc = "running"
    /\ rampTarget' = target
    /\ LET frames == FramesOfRamp
       IN IF frames > 0
          THEN /\ current' = current + (target - current) \div frames
               /\ remaining' = frames - 1
          ELSE /\ current' = target
               /\ UNCHANGED remaining
    /\ UNCHANGED <<driverVars, audioVars, mainVars, listenerVars, target, sets, missed>>

-----------------------------------------------------------------------------
Startup == StartsWithVolume \/ StartsWithMute \/ ListensToVolume \/ ListensToMute \/ StartsIO
ListenerStep == HearsMute \/ \E control \in Controls : HearsVolume(control)

Next ==
    \/ \E c \in Callers :
          \/ \E raw \in RawVolumes : SetVolume(c, raw)
          \/ \E value \in BOOLEAN : SetMute(c, value)
          \/ Notify(c)
    \/ Startup
    \/ ListenerStep
    \/ GainForNextFrame

(* A call of the driver that set a property returns, Core Audio tells the  *)
(* listener, and physical IO, once started, keeps calling back.  Nobody    *)
(* need touch the volume, and the helper need not come up.                 *)
Fairness ==
    /\ \A c \in Callers : WF_vars(Notify(c))
    /\ WF_vars(ListenerStep)
    /\ WF_vars(GainForNextFrame)

Spec == Init /\ [][Next]_vars /\ Fairness

-----------------------------------------------------------------------------
(* Properties *)

(* No change of a control is on its way to the running helper. *)
Settled ==
    /\ hpc = "running"
    /\ \A c \in Callers : announcing[c] = "nothing"
    /\ due = {} /\ lpc = "idle"

(* When things have settled the gain is that of the present volume and     *)
(* mute: changes on several threads, announced in another order than they  *)
(* were made, and read one control after the other, add up to the latest   *)
(* state.  The exception is a change between main's first reading of a     *)
(* control and its listener.                                               *)
SettledGainIsCurrent == Settled /\ ~ missed => target = Gain(volume, mute)

(* docs/manual-acceptance.md:43, "Native mute silences actual output;      *)
(* unmute restores it without a stuck state": once settled, a muted device *)
(* is silent.                                                              *)
NativeMuteSilences == Settled /\ mute => target = 0

(* README.md:17, "smoothed software attenuation": no frame is further from *)
(* the one before than the whole range divided by the ramp's length, even  *)
(* when the target moves while a ramp is under way.                        *)
MaxStep == (100 + RampFrames - 1) \div RampFrames

NoClick ==
    [][hpc = "running" => current' - current \in -MaxStep..MaxStep]_vars

(* Once the controls are left alone, the ramp arrives. *)
GainReachesTarget == <>[](hpc = "running" => current = target)

=============================================================================
