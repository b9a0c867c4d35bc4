------------------------------- MODULE HalDevice -------------------------------
(***************************************************************************)
(* The driver's device as the audio server (the host, external) uses it    *)
(* from several threads at once: references to the plug-in, starting and   *)
(* stopping IO, and the state that can be set, with the changes it         *)
(* announces (driver/SoundVolumeControl.c).                                *)
(*                                                                         *)
(* Each thread serves a client of the device of its own, which the host    *)
(* starts before it stops it and hands audio only in between; the host may *)
(* also stop a device that nobody has started.  When told of a change it   *)
(* reads the property.  What becomes of the ring between the processes is  *)
(* the matter of AudioRing; here a reset, a capture and the lowering of    *)
(* writerActive are steps.                                                 *)
(***************************************************************************)
EXTENDS HalObjects, FiniteSets

CONSTANTS
    Threads,        \* threads of the host
    RawScalars,     \* volumes the host sets, in range or not
    RawDecibels,
    Queries,        \* questions about properties: [object, address, qualifier]
    Buffers,        \* buffers for the answers
    MaxHeld         \* bound: references one thread holds

ASSUME HostAssumption == IsFiniteSet(Threads) /\ MaxHeld \in Nat

(* The tables have the volumes that the host sets. *)
ASSUME SettingAssumption ==
    /\ RawScalars \subseteq Int /\ RawScalars \intersect 1..1000 \subseteq DOMAIN Logs
    /\ RawDecibels \subseteq Int /\ RawDecibels \intersect -95..-1 \subseteq DOMAIN Powers

(* A buffer is a UInt32 and a pointer. *)
ASSUME BufferAssumption == Buffers \subseteq [size : Nat, null : BOOLEAN, content : Int]

VARIABLES
    gReferenceCount,
    gHost,              \* DriverInitialize has set it
    gRunningCount,
    gOutputStreamActive, gVolumeScalar, gMute,
    writerActive,       \* of the ring
    \* the call of each thread
    pc,
    current,            \* the counter as it was loaded
    changed,            \* properties it is going to announce
    \* the host
    held,               \* references each thread holds
    client,             \* whether its client is started
    seen,               \* the value of each property it follows
    asked               \* the question it is asking

countVars == <<gReferenceCount, gRunningCount>>
stateVars == <<gOutputStreamActive, gVolumeScalar, gMute>>
callVars == <<pc, current, changed>>
hostVars == <<held, client, seen, asked>>
vars == <<countVars, gHost, stateVars, writerActive, callVars, hostVars>>

(* The properties that change, each in its only scope. *)
Running == <<"device", "DeviceIsRunning">>
Active == <<"stream", "IsActive">>
Scalar == <<"volume", "ScalarValue">>
Decibel == <<"volume", "DecibelValue">>
Muted == <<"mute", "BooleanValue">>
Followed == {Running, Active, Scalar, Decibel, Muted}

Nothing == [object |-> "unknown"]

(* The driver's state as GetPropertyData reads it, and what it answers. *)
State ==
    [runningCount |-> gRunningCount, outputStreamActive |-> gOutputStreamActive,
     volumeScalar |-> gVolumeScalar, mute |-> gMute]

Read(property, state) ==
    GetPropertyData(property[1],
                    [selector |-> property[2], scope |-> "global", element |-> "main"],
                    [size |-> 0, given |-> FALSE, items |-> <<>>],
                    [size |-> 4, null |-> FALSE, content |-> 0], state).values[1]

(* Whatever the host sets, NaN included, it reads the volume in the ranges *)
(* that were announced to it.                                              *)
VolumeIsReadInRange == seen[Scalar] \in 0..1000 /\ seen[Decibel] \in -96..0

TypeOK ==
    /\ gReferenceCount \in Nat /\ gHost \in BOOLEAN
    /\ gRunningCount \in 0..Cardinality(Threads)
    /\ gOutputStreamActive \in {0, 1} /\ gMute \in {0, 1}
    /\ gVolumeScalar \in 0..1000 /\ writerActive \in BOOLEAN
    /\ pc \in [Threads -> {"idle", "release", "reset", "stop", "lower", "announce"}]
    /\ current \in [Threads -> Nat]
    /\ changed \in [Threads -> SUBSET Followed]
    /\ held \in [Threads -> 0..MaxHeld]
    /\ client \in [Threads -> {"stopped", "starting", "running", "stopping"}]
    /\ seen \in [Followed -> Int]
    /\ VolumeIsReadInRange
    /\ asked \in Queries \union {Nothing}

Init ==
    /\ gReferenceCount = 1 /\ gHost = FALSE /\ gRunningCount = 0
    /\ gOutputStreamActive = 1 /\ gVolumeScalar = 1000 /\ gMute = 0
    /\ writerActive = FALSE
    /\ pc = [t \in Threads |-> "idle"]
    /\ current = [t \in Threads |-> 0]
    /\ changed = [t \in Threads |-> {}]
    /\ held = [t \in Threads |-> 0]
    /\ client = [t \in Threads |-> "stopped"]
    /\ seen = [p \in Followed |-> Read(p, State)]
    /\ asked = Nothing

Idle(t) == pc[t] = "idle"
Quiet == \A t \in Threads : Idle(t)

-----------------------------------------------------------------------------
(* References, taken before the driver is initialized: DriverQueryInterface *)
(* for an interface it has, DriverAddRef, DriverRelease                     *)

AddRef(t) ==
    /\ ~ gHost /\ asked = Nothing
    /\ Idle(t) /\ held[t] < MaxHeld
    /\ gReferenceCount' = gReferenceCount + 1
    /\ held' = [held EXCEPT ![t] = @ + 1]
    /\ UNCHANGED <<gHost, gRunningCount, stateVars, writerActive, callVars, client, seen,
                   asked>>

Release(t) ==
    /\ Idle(t) /\ ~ gHost /\ held[t] > 0
    /\ current' = [current EXCEPT ![t] = gReferenceCount]
    /\ pc' = [pc EXCEPT ![t] = "release"]
    /\ UNCHANGED <<countVars, gHost, stateVars, writerActive, changed, hostVars>>

(* The compare-and-exchange of the loop, which leaves the driver its own   *)
(* reference; when it fails the count is loaded anew.                      *)
ReleaseExchange(t) ==
    /\ pc[t] = "release" /\ current[t] > 1
    /\ IF gReferenceCount = current[t]
       THEN /\ gReferenceCount' = current[t] - 1
            /\ pc' = [pc EXCEPT ![t] = "idle"]
            /\ current' = [current EXCEPT ![t] = 0]
            /\ held' = [held EXCEPT ![t] = @ - 1]
       ELSE /\ current' = [current EXCEPT ![t] = gReferenceCount]
            /\ UNCHANGED <<gReferenceCount, pc, held>>
    /\ UNCHANGED <<gHost, gRunningCount, stateVars, writerActive, changed, client, seen,
                   asked>>

(* DriverInitialize; without the ring, which needs the broker, it reports  *)
(* an error and stays initialized.                                         *)
Initialize ==
    /\ ~ gHost /\ Quiet /\ asked = Nothing
    /\ gHost' = TRUE
    /\ UNCHANGED <<countVars, stateVars, writerActive, callVars, hostVars>>

-----------------------------------------------------------------------------
(* IO *)

(* DriverStartIO: the first client starts the stream anew. *)
StartIO(t) ==
    /\ gHost /\ Idle(t) /\ client[t] = "stopped"
    /\ gRunningCount' = gRunningCount + 1
    /\ IF gRunningCount = 0
       THEN /\ pc' = [pc EXCEPT ![t] = "reset"]
            /\ client' = [client EXCEPT ![t] = "starting"]
       ELSE /\ client' = [client EXCEPT ![t] = "running"]
            /\ UNCHANGED pc
    /\ UNCHANGED <<gReferenceCount, gHost, stateVars, writerActive, current, changed, held,
                   seen, asked>>

(* Goes on to announce that the device has been started or stopped. *)
Announces(t, properties) ==
    /\ pc' = [pc EXCEPT ![t] = "announce"]
    /\ changed' = [changed EXCEPT ![t] = properties]

ResetSharedAudioStream(t) ==
    /\ pc[t] = "reset"
    /\ writerActive' = FALSE
    /\ Announces(t, {Running})
    /\ UNCHANGED <<countVars, gHost, stateVars, current, hostVars>>

(* DriverStopIO loads the count; *)
StopIO(t) ==
    /\ gHost /\ Idle(t)
    /\ \/ client[t] = "running"
       \/ Quiet /\ \A u \in Threads : client[u] = "stopped"
    /\ current' = [current EXCEPT ![t] = gRunningCount]
    /\ pc' = [pc EXCEPT ![t] = "stop"]
    /\ client' = [client EXCEPT ![t] = IF @ = "running" THEN "stopping" ELSE @]
    /\ UNCHANGED <<countVars, gHost, stateVars, writerActive, changed, held, seen, asked>>

(* Mutants: the count is stored whatever it is by now; one who stops what  *)
(* nobody started counts too.                                              *)
StopStores(t) ==
    /\ pc[t] = "stop" /\ current[t] > 0
    /\ gRunningCount' = current[t] - 1
    /\ current' = [current EXCEPT ![t] = 0]
    /\ IF current[t] = 1
       THEN /\ pc' = [pc EXCEPT ![t] = "lower"]
            /\ UNCHANGED client
       ELSE /\ pc' = [pc EXCEPT ![t] = "idle"]
            /\ client' = [client EXCEPT ![t] = "stopped"]
    /\ UNCHANGED <<gReferenceCount, gHost, stateVars, writerActive, changed, held, seen,
                   asked>>

StopAnyway(t) ==
    /\ pc[t] = "stop" /\ gRunningCount = current[t]
    /\ gRunningCount' = gRunningCount - 1
    /\ current' = [current EXCEPT ![t] = 0]
    /\ pc' = [pc EXCEPT ![t] = "lower"]
    /\ UNCHANGED <<gReferenceCount, gHost, stateVars, writerActive, changed, hostVars>>

(* and takes one off it, if it is still what it was. *)
StopExchange(t) ==
    /\ pc[t] = "stop" /\ current[t] > 0
    /\ IF gRunningCount = current[t]
       THEN /\ gRunningCount' = gRunningCount - 1
            /\ current' = [current EXCEPT ![t] = 0]
            /\ IF current[t] = 1
               THEN /\ pc' = [pc EXCEPT ![t] = "lower"]
                    /\ UNCHANGED client
               ELSE /\ pc' = [pc EXCEPT ![t] = "idle"]
                    /\ client' = [client EXCEPT ![t] = "stopped"]
       ELSE /\ current' = [current EXCEPT ![t] = gRunningCount]
            /\ UNCHANGED <<gRunningCount, pc, client>>
    /\ UNCHANGED <<gReferenceCount, gHost, stateVars, writerActive, changed, held, seen,
                   asked>>

(* It was 0: the call is refused. *)
StopRefused(t) ==
    /\ pc[t] = "stop" /\ current[t] = 0
    /\ pc' = [pc EXCEPT ![t] = "idle"]
    /\ UNCHANGED <<countVars, gHost, stateVars, writerActive, current, changed, hostVars>>

(* Mutant: writerActive is left to the next start. *)
StopKeepsActive(t) ==
    /\ pc[t] = "lower"
    /\ Announces(t, {Running})
    /\ UNCHANGED <<countVars, gHost, stateVars, writerActive, current, hostVars>>

LowerWriterActive(t) ==
    /\ pc[t] = "lower"
    /\ writerActive' = FALSE
    /\ Announces(t, {Running})
    /\ UNCHANGED <<countVars, gHost, stateVars, current, hostVars>>

(* Mutant: only the first capture of a host that runs one client raises it. *)
WriteMixOfOne ==
    /\ \E t \in Threads : client[t] = "running"
    /\ writerActive' = (writerActive \/ gRunningCount = 1)
    /\ UNCHANGED <<countVars, gHost, stateVars, callVars, hostVars>>

(* DriverDoIOOperation with a mix to write, once a client's start has      *)
(* returned and until its stop is called.                                  *)
WriteMix ==
    /\ \E t \in Threads : client[t] = "running"
    /\ writerActive' = TRUE
    /\ UNCHANGED <<countVars, gHost, stateVars, callVars, hostVars>>

-----------------------------------------------------------------------------
(* Setting: under the mutex the value is compared and stored; a change is  *)
(* announced after the mutex is let go                                     *)

Sets(t, differs, properties) ==
    /\ gHost /\ Idle(t)
    /\ IF differs THEN Announces(t, properties) ELSE UNCHANGED <<pc, changed>>
    /\ UNCHANGED <<countVars, gHost, writerActive, current, hostVars>>

SetActive(t, value) ==
    /\ Sets(t, gOutputStreamActive # value, {Active})
    /\ gOutputStreamActive' = value
    /\ UNCHANGED <<gVolumeScalar, gMute>>

(* Mutant: the decibels are not announced. *)
SetVolumeScalarOnly(t, value) ==
    /\ Sets(t, gVolumeScalar # value, {Scalar})
    /\ gVolumeScalar' = value
    /\ UNCHANGED <<gOutputStreamActive, gMute>>

(* Set as a scalar or in decibels, the volume changes as both. *)
SetVolume(t, value) ==
    /\ Sets(t, gVolumeScalar # value, {Scalar, Decibel})
    /\ gVolumeScalar' = value
    /\ UNCHANGED <<gOutputStreamActive, gMute>>

SetMute(t, value) ==
    /\ Sets(t, gMute # value, {Muted})
    /\ gMute' = value
    /\ UNCHANGED <<gOutputStreamActive, gVolumeScalar>>

(* Notify, with which the call ends: the host reads what it is told of. *)
Notify(t) ==
    /\ pc[t] = "announce"
    /\ seen' = [p \in Followed |-> IF p \in changed[t] THEN Read(p, State) ELSE seen[p]]
    /\ pc' = [pc EXCEPT ![t] = "idle"]
    /\ changed' = [changed EXCEPT ![t] = {}]
    /\ client' = [client EXCEPT ![t] = CASE @ = "starting" -> "running"
                                         [] @ = "stopping" -> "stopped"
                                         [] OTHER -> @]
    /\ UNCHANGED <<countVars, gHost, stateVars, writerActive, current, held, asked>>

-----------------------------------------------------------------------------
(* Asking about properties.  Which there are and how large they are does   *)
(* not depend on the driver's state, so only a driver at rest is asked.    *)
Ask(query) ==
    /\ ~ gHost /\ Quiet /\ asked = Nothing /\ gReferenceCount = 1
    /\ asked' = query
    /\ UNCHANGED <<countVars, gHost, stateVars, writerActive, callVars, held, client, seen>>

Answered ==
    /\ asked # Nothing
    /\ asked' = Nothing
    /\ UNCHANGED <<countVars, gHost, stateVars, writerActive, callVars, held, client, seen>>

-----------------------------------------------------------------------------
CallStep(t) ==
    \/ ReleaseExchange(t)
    \/ ResetSharedAudioStream(t)
    \/ StopExchange(t) \/ StopRefused(t) \/ LowerWriterActive(t)
    \/ Notify(t)

Next ==
    \/ Initialize
    \/ \E t \in Threads :
          \/ AddRef(t) \/ Release(t)
          \/ StartIO(t) \/ StopIO(t)
          \/ \E value \in {0, 1} : SetActive(t, value) \/ SetMute(t, value)
          \/ \E raw \in RawScalars : SetVolume(t, ClampScalar(raw))
          \/ \E raw \in RawDecibels : SetVolume(t, DecibelsToScalar(raw))
          \/ CallStep(t)
    \/ WriteMix
    \/ \E query \in Queries : Ask(query)
    \/ Answered

(* A call returns, and a started device is given audio. *)
Fairness == WF_vars(WriteMix) /\ \A t \in Threads : WF_vars(CallStep(t))

Spec == Init /\ [][Next]_vars /\ Fairness

-----------------------------------------------------------------------------
(* Properties of the counters and of what is announced *)

Counted(t) ==
    \/ client[t] \in {"starting", "running"}
    \/ client[t] = "stopping" /\ pc[t] = "stop"

(* Calls on several threads lose no count and invent none: the driver runs *)
(* exactly for the clients whose start has been counted and whose stop has *)
(* not, and holds a reference for each one taken, and its own.             *)
CountsAreExact ==
    /\ gRunningCount = Cardinality({t \in Threads : Counted(t)})
    /\ gReferenceCount =
          1 + Cardinality({r \in Threads \X (1..MaxHeld) : r[2] <= held[r[1]]})

(* Changes are announced after the mutex is let go, so possibly in another *)
(* order than they were made; once no call is under way the host knows the *)
(* value of every property all the same, running state and decibels        *)
(* included.                                                               *)
SettledHostIsCurrent == Quiet => \A p \in Followed : seen[p] = Read(p, State)

(* tests/driver-contract-tests.c:457: after the last stop writerActive is  *)
(* 0, whichever of the calls that overlapped is the last to lower it.      *)
IdleDeviceIsInactive == Quiet /\ gRunningCount = 0 => ~ writerActive

Plays == Quiet /\ \E t \in Threads : client[t] = "running"

(* A stop that comes late lowers writerActive under a client started in    *)
(* the meantime; while that client plays, the stream comes back.           *)
StreamHeals == <>[]Plays => <>[]writerActive

-----------------------------------------------------------------------------
(* Properties of the answers *)

(* What there is has a size and what there is not has none; a buffer of    *)
(* that size is filled to the last byte (unless the UID to translate is    *)
(* missing), and one that is smaller never.                                *)
SizesAreHonest(object, address, qualifier) ==
    LET size == GetPropertyDataSize(object, address, qualifier)
        Got(buffer) == GetPropertyData(object, address, qualifier, buffer, State)
        refused == /\ address.selector = "TranslateUIDToDevice"
                   /\ qualifier.size # 8 \/ ~ qualifier.given
    IN /\ HasProperty(object, address)
             <=> size.status \notin {"UnknownProperty", "BadObject"}
       /\ \A buffer \in Buffers :
             IF /\ size.status = "noErr" /\ ~ refused
                /\ buffer.size >= size.size /\ (buffer.null => size.size = 0)
             THEN Got(buffer).status = "noErr" /\ Bytes(Got(buffer)) = size.size
             ELSE Got(buffer).status # "noErr"

(* A property that is there is settable if and only if some value of the   *)
(* right size is accepted, and every value is refused as such if not.      *)
SettableIsHonest(object, address) ==
    LET settable == IsPropertySettable(object, address)
        statuses == {SetPropertyData(object, address, size, value) :
                         size \in {0, 4, 8, 40}, value \in {48000, 44100}}
    IN settable.status = "noErr" =>
          IF settable.settable
          THEN "noErr" \in statuses /\ "UnsupportedOperation" \notin statuses
          ELSE statuses = {"UnsupportedOperation"}

(* The five switches of the driver (which properties there are, in which   *)
(* scopes, which can be set, their sizes, their values), written apart,    *)
(* agree on every question and for every buffer.                           *)
SwitchesAgree ==
    asked # Nothing =>
        /\ SizesAreHonest(asked.object, asked.address, asked.qualifier)
        /\ SettableIsHonest(asked.object, asked.address)

(* Core Audio's classes and what they derive from. *)
Superclass ==
    [VolumeControl |-> "LevelControl", MuteControl |-> "BooleanControl",
     LevelControl |-> "Control", BooleanControl |-> "Control", Control |-> "Object",
     PlugIn |-> "Object", Device |-> "Object", Stream |-> "Object", Object |-> "Object"]

IsA(class, ancestor) ==
    ancestor \in {class, Superclass[class], Superclass[Superclass[class]], "Object"}

(* The objects form one tree: an object lists exactly the objects that     *)
(* name it as their owner, of a class that was asked for or derived from   *)
(* it, the device's lists of streams and controls are the parts of that    *)
(* list in each scope, and base classes are those of the classes.          *)
TreeIsConsistent ==
    asked # Nothing /\ HasProperty(asked.object, asked.address) =>
        LET Listed == GetPropertyData(asked.object, asked.address, asked.qualifier,
                          [size |-> 16, null |-> FALSE, content |-> 0], State).values
            Owns(object) ==
                /\ OwnerForObject(object) = asked.object
                /\ asked.object = "device" => asked.address.scope # "input"
            Derived(object, class) == IsA(ClassForObject(object), class)
            Qualified(object) ==
                \/ asked.qualifier.size = 0
                \/ \E i \in DOMAIN asked.qualifier.items :
                      Derived(object, asked.qualifier.items[i])
            ListsExactly(Condition(_)) ==
                {Listed[i] : i \in DOMAIN Listed} =
                    {object \in Objects : Owns(object) /\ Condition(object)}
        IN CASE asked.address.selector = "OwnedObjects" ->
                   BadQualifier(asked.qualifier) \/ ListsExactly(Qualified)
             [] asked.address.selector = "ControlList" ->
                   ListsExactly(LAMBDA object : Derived(object, "Control"))
             [] asked.address.selector = "Streams" ->
                   ListsExactly(LAMBDA object : Derived(object, "Stream"))
             [] asked.address.selector = "BaseClass" ->
                   Listed = <<Superclass[ClassForObject(asked.object)]>>
             [] OTHER -> TRUE
=============================================================================
