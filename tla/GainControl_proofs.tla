-------------------------- MODULE GainControl_proofs --------------------------
(***************************************************************************)
(* Proofs about GainControl, for every set of callers, every volume they   *)
(* set and every length of the ramp: the settled gain is the latest one,   *)
(* and no frame of a ramp is a click.                                      *)
(***************************************************************************)
EXTENDS GainControl, TLAPS

USE GainAssumption

(* News of a change that the listener will react to. *)
Pending == due # {} \/ \E c \in Callers : announcing[c] \in listening

(* Which controls are listened to follows from how far main is, and the    *)
(* listener runs only when there is one.                                   *)
ListeningShape ==
    /\ hpc \in {"readVolume", "readMute", "listenToVolume"} => listening = {}
    /\ hpc = "listenToMute" => listening = {"volume"}
    /\ hpc \in {"start", "running"} => listening = Controls
    /\ listening = {} => lpc = "idle"

(* Unless a change was missed, main's reading of the volume is the present *)
(* one, and so is the gain that was made of it, or there is news on its    *)
(* way; a listener in the middle of its work has read the present volume,  *)
(* or there is news of a later one.                                        *)
GainOnCourse ==
    ~ missed =>
        /\ hpc = "readMute" => startVolume = volume
        /\ hpc \notin {"readVolume", "readMute"} =>
              \/ Pending
              \/ lpc = "idle" /\ target = Gain(volume, mute)
              \/ lpc = "readMute" /\ heardVolume = volume

(* The frames that are left of a ramp suffice for what is left of the way, *)
(* at MaxStep each.                                                        *)
RampOnCourse ==
    rampTarget - current \in -(remaining * MaxStep)..(remaining * MaxStep)

IInv == TypeOK /\ ListeningShape /\ GainOnCourse /\ RampOnCourse

-----------------------------------------------------------------------------
(* Arithmetic *)

(* Whatever is asked for, what is set is a volume. *)
LEMMA ClampInRange == ASSUME NEW raw \in Int PROVE Clamp(raw) \in Percent
BY DEF Clamp, Percent

(* The gain of a volume is a gain. *)
LEMMA GainInRange ==
    ASSUME NEW scalar \in Percent, NEW muted \in BOOLEAN
    PROVE  Gain(scalar, muted) \in Percent
<1>1. scalar \in Int /\ 0 <= scalar /\ scalar <= 100
    BY DEF Percent
<1>2. scalar * scalar \in Int /\ 0 <= scalar * scalar /\ scalar * scalar <= 100 * 100
    BY <1>1
<1>3. ASSUME NEW n \in Int, 0 <= n, n <= 100 * 100 PROVE n \div 100 \in Percent
    BY <1>3 DEF Percent
<1> QED
    BY <1>2, <1>3 DEF Gain, ScalarToGain, Percent

(* A ramp of full length is long enough for any way. *)
LEMMA MaxStepSuffices ==
    MaxStep \in Nat /\ RampFrames * MaxStep \in Nat /\ RampFrames * MaxStep >= 100
<1> DEFINE n == 100 + RampFrames - 1
<1>1. n \in Nat /\ RampFrames \in Nat /\ RampFrames > 0
    OBVIOUS
<1>2. n \div RampFrames \in Nat
    BY <1>1
<1>3. /\ n = RampFrames * (n \div RampFrames) + (n % RampFrames)
      /\ 0 <= n % RampFrames /\ n % RampFrames < RampFrames
    BY <1>1
<1> QED
    BY <1>1, <1>2, <1>3 DEF MaxStep

(* One frame of a ramp takes at most MaxStep of the way, never goes past   *)
(* its end, and leaves the rest on course.                                 *)
LEMMA FairShare ==
    ASSUME NEW way \in Int, NEW frames \in Nat \ {0}, NEW step \in Nat,
           way \in -(frames * step)..(frames * step)
    PROVE  /\ way \div frames \in -step..step
           /\ way - way \div frames \in -((frames - 1) * step)..((frames - 1) * step)
           /\ way >= 0 => way \div frames \in 0..way
           /\ way <= 0 => way \div frames \in way..0
<1> DEFINE q == way \div frames
           m == way % frames
<1>1. q \in Int /\ m \in Int /\ way = frames * q + m /\ 0 <= m /\ m < frames
    OBVIOUS
<1>. HIDE DEF q, m
<1>2. q <= step
    BY <1>1
<1>3. q >= -step
    BY <1>1
<1> QED
    BY <1>1, <1>2, <1>3 DEF q

(* A frame of the ramp: where it starts is on course for its end. *)
LEMMA FrameOfRamp ==
    ASSUME IInv, GainForNextFrame
    PROVE  /\ current' \in Percent /\ rampTarget' \in Percent
           /\ remaining' \in 0..RampFrames
           /\ remaining' = 0 => current' = rampTarget'
           /\ RampOnCourse'
           /\ current' - current \in -MaxStep..MaxStep
<1> DEFINE way == target - current
           frames == FramesOfRamp
<1>0. /\ target \in 0..100 /\ current \in 0..100 /\ rampTarget \in 0..100
      /\ remaining \in 0..RampFrames
      /\ remaining = 0 => current = rampTarget
      /\ RampOnCourse
    BY DEF IInv, TypeOK, Percent
<1>1. /\ frames \in 0..RampFrames
      /\ way \in -(frames * MaxStep)..(frames * MaxStep)
    <2>1. CASE target # rampTarget
        <3>1. frames = RampFrames /\ way \in -100..100
            BY <1>0, <2>1 DEF FramesOfRamp
        <3> QED
            BY <3>1, MaxStepSuffices
    <2>2. CASE target = rampTarget
        BY <1>0, <2>2 DEF FramesOfRamp, RampOnCourse
    <2> QED
        BY <2>1, <2>2
<1>4. MaxStep' = MaxStep
    BY DEF MaxStep
<1>2. CASE frames = 0
    <2>1. target = current /\ target = rampTarget /\ remaining = 0
        BY <1>0, <1>1, <1>2 DEF FramesOfRamp
    <2>2. current' = current /\ rampTarget' = rampTarget /\ remaining' = 0
        BY <1>0, <1>2, <2>1 DEF GainForNextFrame
    <2> QED
        <3>1. /\ rampTarget' - current' = 0 /\ current' - current = 0
              /\ remaining' * MaxStep = 0
            <4>1. MaxStep \in Nat /\ 0 * MaxStep = 0
                BY MaxStepSuffices
            <4>2. target - target = 0
                BY <1>0
            <4>3. remaining' * MaxStep = 0
                BY <2>2, <4>1
            <4> QED
                BY <2>1, <2>2, <4>2, <4>3
        <3>2. RampOnCourse'
            BY <1>4, <3>1 DEF RampOnCourse
        <3>3. current' - current \in -MaxStep..MaxStep
            BY <3>1, MaxStepSuffices
        <3>4. current' \in 0..100 /\ rampTarget' \in 0..100 /\ remaining' \in 0..RampFrames
            BY <1>0, <2>1, <2>2
        <3>5. remaining' = 0 => current' = rampTarget'
            BY <2>1, <2>2
        <3> QED
            BY <3>2, <3>3, <3>4, <3>5 DEF Percent
<1>3. CASE frames > 0
    <2>1. /\ current' = current + way \div frames
          /\ remaining' = frames - 1 /\ rampTarget' = target
        BY <1>1, <1>3 DEF GainForNextFrame
    <2>2. /\ way \in Int /\ frames \in Nat \ {0} /\ MaxStep \in Nat
        BY <1>0, <1>1, <1>3, MaxStepSuffices
    <2> HIDE DEF way, frames
    <2>3. /\ way \div frames \in -MaxStep..MaxStep
          /\ way - way \div frames \in -((frames - 1) * MaxStep)..((frames - 1) * MaxStep)
          /\ way >= 0 => way \div frames \in 0..way
          /\ way <= 0 => way \div frames \in way..0
        BY <1>1, <2>2, FairShare
    <2>4. way \div frames \in Int
        BY <2>2
    <2>5. current' - current = way \div frames
        BY <1>0, <2>1, <2>4
    <2>6. rampTarget' - current' = way - way \div frames
        BY <1>0, <2>1, <2>4 DEF way
    <2>7. RampOnCourse'
        BY <1>4, <2>1, <2>3, <2>6 DEF RampOnCourse
    <2>8. current' \in 0..100
        BY <1>0, <2>1, <2>2, <2>3, <2>4 DEF way
    <2>9. remaining' = 0 => current' = rampTarget'
        <3>1. \A i \in Int : i \div 1 = i
            OBVIOUS
        <3> QED
            BY <1>0, <3>1, <2>1, <2>2 DEF way
    <2> QED
        BY <1>0, <1>1, <2>1, <2>2, <2>3, <2>5, <2>7, <2>8, <2>9 DEF Percent
<1> QED
    BY <1>1, <1>2, <1>3

-----------------------------------------------------------------------------
(* At first nothing is heard, announced or missed, and no ramp is under    *)
(* way.                                                                    *)
LEMMA InitInvariant == Init => IInv
<1> SUFFICES ASSUME Init PROVE IInv
    OBVIOUS
<1> USE DEF Init
<1>1. TypeOK
    <2>1. {volume, startVolume, heardVolume, target, current, rampTarget} \subseteq Percent
        BY DEF Percent
    <2>2. remaining \in 0..RampFrames /\ (remaining = 0 => current = rampTarget)
        OBVIOUS
    <2> QED
        BY <2>1, <2>2, Zenon DEF TypeOK, Controls
<1>2. ListeningShape /\ GainOnCourse
    BY DEF ListeningShape, GainOnCourse
<1>3. RampOnCourse
    BY MaxStepSuffices DEF RampOnCourse
<1> QED
    BY <1>1, <1>2, <1>3 DEF IInv

-----------------------------------------------------------------------------
(* Types are kept by every step. *)
LEMMA StepTypes == IInv /\ [Next]_vars => TypeOK'
<1> SUFFICES ASSUME IInv, [Next]_vars PROVE TypeOK'
    OBVIOUS
<1> USE DEF IInv, TypeOK
<1>1. ASSUME NEW c \in Callers, NEW raw \in RawVolumes, SetVolume(c, raw) PROVE TypeOK'
    <2>1. volume' \in Percent
        BY <1>1, ClampInRange DEF SetVolume
    <2> QED
        BY <1>1, <2>1 DEF SetVolume, Changes, audioVars, mainVars, listenerVars, rampVars,
                          Controls
<1>2. ASSUME NEW c \in Callers, NEW value \in BOOLEAN, SetMute(c, value) PROVE TypeOK'
    BY <1>2 DEF SetMute, Changes, audioVars, mainVars, listenerVars, rampVars, Controls
<1>3. ASSUME NEW c \in Callers, Notify(c) PROVE TypeOK'
    BY <1>3 DEF Notify, mainVars, listenerVars, rampVars
<1>4. CASE StartsWithVolume
    BY <1>4 DEF StartsWithVolume, driverVars, audioVars, listenerVars, rampVars
<1>5. CASE StartsWithMute
    <2>1. Gain(startVolume, mute) \in Percent
        BY GainInRange
    <2>2. hpc = "readMute" => remaining = remaining'
        BY <1>5 DEF StartsWithMute
    <2> QED
        BY <1>5, <2>1, <2>2 DEF StartsWithMute, driverVars, audioVars, listenerVars
<1>6. CASE ListensToVolume
    BY <1>6 DEF ListensToVolume, Listens, driverVars, listenerVars, rampVars, Controls
<1>7. CASE ListensToMute
    BY <1>7 DEF ListensToMute, Listens, driverVars, listenerVars, rampVars, Controls
<1>8. CASE StartsIO
    BY <1>8 DEF StartsIO, driverVars, audioVars, listenerVars, rampVars
<1>9. ASSUME NEW control \in Controls, HearsVolume(control) PROVE TypeOK'
    BY <1>9 DEF HearsVolume, driverVars, mainVars, rampVars
<1>10. CASE HearsMute
    <2>1. Gain(heardVolume, mute) \in Percent
        BY GainInRange
    <2> QED
        BY <1>10, <2>1 DEF HearsMute, driverVars, audioVars, mainVars, rampVars
<1>11. CASE GainForNextFrame
    <2>1. /\ current' \in Percent /\ rampTarget' \in Percent
          /\ remaining' \in 0..RampFrames
          /\ remaining' = 0 => current' = rampTarget'
        BY <1>11, FrameOfRamp
    <2> QED
        BY <1>11, <2>1 DEF GainForNextFrame, driverVars, audioVars, mainVars, listenerVars
<1>12. CASE UNCHANGED vars
    BY <1>12 DEF vars, driverVars, audioVars, mainVars, listenerVars, rampVars
<1> QED
    BY <1>1, <1>2, <1>3, <1>4, <1>5, <1>6, <1>7, <1>8, <1>9, <1>10, <1>11, <1>12
    DEF Next, Startup, ListenerStep
-----------------------------------------------------------------------------
(* What is listened to keeps following main. *)
LEMMA StepListening == IInv /\ [Next]_vars => ListeningShape'
<1> SUFFICES ASSUME IInv, [Next]_vars PROVE ListeningShape'
    OBVIOUS
<1> USE DEF IInv, TypeOK, ListeningShape
<1>1. CASE UNCHANGED <<listening, hpc, lpc>>
    BY <1>1
<1>2. CASE StartsWithVolume \/ StartsWithMute \/ StartsIO
    BY <1>2 DEF StartsWithVolume, StartsWithMute, StartsIO, audioVars, listenerVars
<1>3. CASE ListensToVolume \/ ListensToMute
    BY <1>3 DEF ListensToVolume, ListensToMute, Listens, listenerVars, Controls
<1>4. ASSUME NEW control \in Controls, HearsVolume(control) PROVE ListeningShape'
    BY <1>4 DEF HearsVolume, mainVars
<1>5. CASE HearsMute
    BY <1>5 DEF HearsMute, audioVars, mainVars
<1>6. ASSUME NEW c \in Callers,
             \/ \E raw \in RawVolumes : SetVolume(c, raw)
             \/ \E value \in BOOLEAN : SetMute(c, value)
             \/ Notify(c)
      PROVE  UNCHANGED <<listening, hpc, lpc>>
    BY <1>6 DEF SetVolume, SetMute, Changes, Notify, audioVars, mainVars, listenerVars
<1>7. GainForNextFrame \/ UNCHANGED vars => UNCHANGED <<listening, hpc, lpc>>
    BY DEF GainForNextFrame, vars, audioVars, mainVars, listenerVars
<1> QED
    BY <1>1, <1>2, <1>3, <1>4, <1>5, <1>6, <1>7 DEF Next, Startup, ListenerStep

(* The gain stays on course: a change makes news or is missed, news stays  *)
(* until the listener takes it, and what the listener takes it reads after.*)
LEMMA StepGain == IInv /\ [Next]_vars => GainOnCourse'
<1> SUFFICES ASSUME IInv, [Next]_vars PROVE GainOnCourse'
    OBVIOUS
<1> USE DEF IInv, TypeOK, ListeningShape, GainOnCourse
<1>1. ASSUME NEW c \in Callers, NEW control \in Controls, NEW changed \in BOOLEAN,
             Changes(c, control, changed),
             ~ changed => UNCHANGED <<volume, mute>>,
             control = "mute" => volume' = volume
      PROVE  GainOnCourse'
    <2>1. UNCHANGED <<listening, due, hpc, startVolume, lpc, heardVolume, target>>
        BY <1>1 DEF Changes, audioVars, mainVars, listenerVars
    <2>2. CASE ~ changed
        BY <1>1, <2>1, <2>2 DEF Changes, Pending, Gain, ScalarToGain
    <2>3. CASE changed /\ missed'
        BY <2>3
    <2>4. CASE changed /\ ~ missed'
        <3>1. ~ missed /\ ~ Unheard(control)
            BY <1>1, <2>4 DEF Changes
        <3>2. announcing'[c] = control
            BY <1>1, <2>4 DEF Changes
        <3>3. CASE control \in listening
            <4>1. Pending' /\ hpc # "readMute"
                BY <2>1, <3>2, <3>3 DEF Pending, Controls
            <4> QED
                BY <2>1, <4>1
        <3>4. CASE hpc = "readVolume"
            BY <2>1, <3>4
        <3>5. CASE control = "mute" /\ hpc = "readMute"
            BY <1>1, <2>1, <3>1, <3>5
        <3> QED
            BY <3>1, <3>3, <3>4, <3>5 DEF Unheard
    <2> QED
        BY <2>2, <2>3, <2>4
<1>2. ASSUME NEW c \in Callers, NEW raw \in RawVolumes, SetVolume(c, raw)
      PROVE  GainOnCourse'
    <2>1. /\ Changes(c, "volume", volume # Clamp(raw))
          /\ volume = Clamp(raw) => UNCHANGED <<volume, mute>>
        BY <1>2 DEF SetVolume
    <2> QED
        BY <1>1, <2>1 DEF Controls
<1>3. ASSUME NEW c \in Callers, NEW value \in BOOLEAN, SetMute(c, value)
      PROVE  GainOnCourse'
    <2>1. /\ Changes(c, "mute", mute # value)
          /\ mute = value => UNCHANGED <<volume, mute>>
          /\ volume' = volume
        BY <1>3 DEF SetMute
    <2> QED
        BY <1>1, <2>1 DEF Controls
<1>4. ASSUME NEW c \in Callers, Notify(c) PROVE GainOnCourse'
    <2>1. UNCHANGED <<volume, mute, listening, hpc, startVolume, lpc, heardVolume, target,
                      missed>>
        BY <1>4 DEF Notify, mainVars, listenerVars
    <2>2. Pending => Pending'
        <3>1. CASE due # {}
            BY <1>4, <3>1 DEF Notify, Pending
        <3>2. ASSUME NEW d \in Callers, announcing[d] \in listening PROVE Pending'
            BY <1>4, <2>1, <3>2 DEF Notify, Pending
        <3> QED
            BY <3>1, <3>2 DEF Pending
    <2> QED
        BY <2>1, <2>2 DEF Gain, ScalarToGain
<1>5. CASE StartsWithVolume
    BY <1>5 DEF StartsWithVolume, driverVars
<1>6. CASE StartsWithMute
    BY <1>6 DEF StartsWithMute, driverVars, audioVars, listenerVars, Gain, ScalarToGain
<1>7. CASE ListensToVolume \/ ListensToMute
    <2>1. UNCHANGED <<volume, mute, announcing, due, startVolume, lpc, heardVolume, target,
                      missed>>
        BY <1>7 DEF ListensToVolume, ListensToMute, Listens, driverVars, listenerVars
    <2>2. listening \subseteq listening' /\ hpc \notin {"readVolume", "readMute"}
          /\ hpc' # "readMute"
        BY <1>7 DEF ListensToVolume, ListensToMute, Listens
    <2>3. Pending => Pending'
        BY <2>1, <2>2 DEF Pending
    <2> QED
        BY <2>1, <2>2, <2>3 DEF Gain, ScalarToGain
<1>8. CASE StartsIO
    BY <1>8 DEF StartsIO, driverVars, audioVars, listenerVars, Pending, Gain, ScalarToGain
<1>9. ASSUME NEW control \in Controls, HearsVolume(control) PROVE GainOnCourse'
    BY <1>9 DEF HearsVolume, driverVars, mainVars
<1>10. CASE HearsMute
    BY <1>10 DEF HearsMute, driverVars, audioVars, mainVars, Pending, Gain, ScalarToGain
<1>11. CASE GainForNextFrame \/ UNCHANGED vars
    BY <1>11 DEF GainForNextFrame, vars, driverVars, audioVars, mainVars, listenerVars,
                 Pending, Gain, ScalarToGain
<1> QED
    BY <1>2, <1>3, <1>4, <1>5, <1>6, <1>7, <1>8, <1>9, <1>10, <1>11
    DEF Next, Startup, ListenerStep

(* Only a frame moves the ramp, and main before there are any. *)
LEMMA RampStands ==
    ASSUME [Next]_vars, ~ GainForNextFrame, ~ StartsWithMute
    PROVE  UNCHANGED rampVars
<1>1. ASSUME NEW c \in Callers,
             \/ \E raw \in RawVolumes : SetVolume(c, raw)
             \/ \E value \in BOOLEAN : SetMute(c, value)
             \/ Notify(c)
      PROVE  UNCHANGED rampVars
    BY <1>1 DEF SetVolume, SetMute, Changes, Notify
<1>2. StartsWithVolume \/ ListensToVolume \/ ListensToMute \/ StartsIO => UNCHANGED rampVars
    BY DEF StartsWithVolume, ListensToVolume, ListensToMute, Listens, StartsIO
<1>3. ListenerStep => UNCHANGED rampVars
    BY DEF ListenerStep, HearsVolume, HearsMute
<1>4. UNCHANGED vars => UNCHANGED rampVars
    BY DEF vars
<1> QED
    BY <1>1, <1>2, <1>3, <1>4 DEF Next, Startup

(* A ramp stays on course. *)
LEMMA StepRamp == IInv /\ [Next]_vars => RampOnCourse'
<1> SUFFICES ASSUME IInv, [Next]_vars PROVE RampOnCourse'
    OBVIOUS
<1>0. MaxStep' = MaxStep
    BY DEF MaxStep
<1>1. CASE GainForNextFrame
    BY <1>1, FrameOfRamp
<1>2. CASE StartsWithMute
    <2>0. Gain(startVolume, mute) \in Percent
        BY GainInRange DEF IInv, TypeOK
    <2>1. /\ current' = rampTarget' /\ current' \in Percent
          /\ remaining' = remaining /\ remaining \in Nat
        BY <1>2, <2>0 DEF IInv, TypeOK, StartsWithMute
    <2>2. rampTarget' - current' = 0
        <3>1. \A x \in Percent : x - x = 0
            BY DEF Percent
        <3> QED
            BY <2>1, <3>1
    <2>3. remaining * MaxStep \in Nat
        BY <2>1, MaxStepSuffices
    <2> QED
        BY <1>0, <2>1, <2>2, <2>3 DEF RampOnCourse
<1>3. CASE ~ GainForNextFrame /\ ~ StartsWithMute
    <2>1. UNCHANGED rampVars
        BY <1>3, RampStands
    <2>2. rampTarget' = rampTarget /\ current' = current /\ remaining' = remaining
        BY <2>1 DEF rampVars
    <2> QED
        BY <1>0, <2>2 DEF IInv, RampOnCourse
<1> QED
    BY <1>1, <1>2, <1>3

-----------------------------------------------------------------------------
(* The strengthened invariant holds in every reachable state. *)
THEOREM Invariance == Spec => []IInv
<1>1. IInv /\ [Next]_vars => IInv'
    BY StepTypes, StepListening, StepGain, StepRamp DEF IInv
<1> QED
    BY InitInvariant, <1>1, PTL DEF Spec

(* Every variable keeps its type; no gain, wherever in its ramp, leaves    *)
(* the range of 0 to 100 percent.                                          *)
THEOREM GainTypes == Spec => []TypeOK
<1>1. IInv => TypeOK
    BY DEF IInv
<1> QED
    BY Invariance, <1>1, PTL

(* The settled gain is that of the present volume and mute, however many   *)
(* threads set them: no order of announcements loses the latest change.    *)
THEOREM SettledGain == Spec => []SettledGainIsCurrent
<1>1. IInv => SettledGainIsCurrent
    BY Zenon DEF IInv, TypeOK, ListeningShape, GainOnCourse, Pending, SettledGainIsCurrent, Settled,
           Controls
<1> QED
    BY Invariance, <1>1, PTL

(* No frame goes further than the whole range divided by the length of the *)
(* ramp, however often and whenever the target moves.                      *)
THEOREM RampIsSmooth == Spec => NoClick
<1>1. IInv /\ [Next]_vars => [hpc = "running" => current' - current \in -MaxStep..MaxStep]_vars
    <2> SUFFICES ASSUME IInv, [Next]_vars, hpc = "running"
                 PROVE  current' - current \in -MaxStep..MaxStep
        OBVIOUS
    <2>1. CASE GainForNextFrame
        BY <2>1, FrameOfRamp
    <2>2. CASE ~ GainForNextFrame
        <3>1. ~ StartsWithMute
            BY DEF StartsWithMute
        <3>2. current' = current
            BY <2>2, <3>1, RampStands DEF rampVars
        <3>3. current' - current = 0
            BY <3>2 DEF IInv, TypeOK, Percent
        <3> QED
            BY <3>3, MaxStepSuffices
    <2> QED
        BY <2>1, <2>2
<1> QED
    BY Invariance, <1>1, PTL DEF Spec, NoClick
=============================================================================
