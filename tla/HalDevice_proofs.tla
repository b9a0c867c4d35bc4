--------------------------- MODULE HalDevice_proofs ---------------------------
(***************************************************************************)
(* Proofs about HalDevice, for every number of threads of the host and     *)
(* every volume curve: the two counters are exact, the host is told of     *)
(* every change and within the announced ranges, and an idle device is     *)
(* inactive; for every question, qualifier and buffer: the switches agree, *)
(* and the objects form a tree.                                            *)
(***************************************************************************)
EXTENDS HalDevice, FiniteSetTheorems, SequenceTheorems, TLAPS

USE HostAssumption

(* The clients that the driver has counted, and the references that the    *)
(* host has taken.                                                         *)
CountedThreads == {t \in Threads : Counted(t)}
References == {r \in Threads \X (1..MaxHeld) : r[2] <= held[r[1]]}

(* A client is on its way only during its call; the count that a stop has  *)
(* loaded is 0 exactly if nobody had started the device.                   *)
CallShape ==
    \A t \in Threads :
        /\ client[t] = "starting" => pc[t] \in {"reset", "announce"}
        /\ client[t] = "stopping" => pc[t] \in {"stop", "lower", "announce"}
        /\ pc[t] = "stop" =>
              \/ client[t] = "stopping" /\ current[t] > 0
              \/ client[t] = "stopped" /\ current[t] = 0
        /\ pc[t] = "lower" => client[t] = "stopping"
        /\ pc[t] = "release" => held[t] > 0

(* The volume is one of the curve. *)
VolumeOnCurve == gVolumeScalar \in DOMAIN Logs \union {0}

(* What each property the host follows has come to. *)
Told(p) ==
    CASE p = Running -> IF gRunningCount > 0 THEN 1 ELSE 0
      [] p = Active -> gOutputStreamActive
      [] p = Scalar -> gVolumeScalar
      [] p = Decibel -> ScalarToDecibels(gVolumeScalar)
      [] p = Muted -> gMute

(* The call of this thread will announce the property. *)
Tells(t, p) ==
    \/ pc[t] = "announce" /\ p \in changed[t]
    \/ pc[t] \in {"reset", "lower"} /\ p = Running

(* The host knows each property, or is about to be told. *)
Informed == \A p \in Followed : seen[p] = Told(p) \/ \E t \in Threads : Tells(t, p)

(* writerActive is up only in a running device, or one whose last stop is  *)
(* about to lower it.                                                      *)
ActiveIsOwned ==
    writerActive => gRunningCount > 0 \/ \E t \in Threads : pc[t] \in {"reset", "lower"}

IInv ==
    /\ TypeOK
    /\ CountsAreExact
    /\ CallShape
    /\ VolumeOnCurve
    /\ Informed
    /\ ActiveIsOwned

-----------------------------------------------------------------------------
(* The volume curve *)

(* A volume that is set is one of the curve, as a scalar or in decibels. *)
LEMMA SetIsOnCurve ==
    /\ \A raw \in RawScalars : ClampScalar(raw) \in DOMAIN Logs \union {0}
    /\ \A raw \in RawDecibels : DecibelsToScalar(raw) \in DOMAIN Logs \union {0}
<1>1. ASSUME NEW raw \in RawScalars PROVE ClampScalar(raw) \in DOMAIN Logs \union {0}
    BY SettingAssumption, CurveAssumption DEF ClampScalar
<1>2. ASSUME NEW raw \in RawDecibels PROVE DecibelsToScalar(raw) \in DOMAIN Logs \union {0}
    <2>1. CASE raw \in -95..-1
        <3>1. Powers[raw] \in DOMAIN Logs
            BY <2>1, SettingAssumption, CurveAssumption
        <3> QED
            BY <2>1, <3>1 DEF DecibelsToScalar, NaN
    <2>2. CASE raw \notin -95..-1
        BY <2>2, SettingAssumption, CurveAssumption DEF DecibelsToScalar, NaN
    <2> QED
        BY <2>1, <2>2
<1> QED
    BY <1>1, <1>2

(* Volumes of the curve are whole, and its decibels at most 0. *)
LEMMA CurveRange ==
    ASSUME NEW s \in DOMAIN Logs
    PROVE  s \in Int /\ Logs[s] \in Int /\ Logs[s] <= 0
<1>1. s \in 1..1000
    BY CurveAssumption
<1>2. \A t \in DOMAIN Logs : Logs[t] \in Int /\ Logs[t] <= 0
    BY CurveAssumption
<1> QED
    BY <1>1, <1>2

(* Decibels of a volume of the curve are in range. *)
LEMMA DecibelsInRange ==
    ASSUME NEW s \in DOMAIN Logs \union {0}
    PROVE  /\ s \in 0..1000
           /\ ScalarToDecibels(s) = IF s = 0 \/ Logs[s] < -96 THEN -96 ELSE Logs[s]
           /\ ScalarToDecibels(s) \in -96..0
<1>1. s \in 0..1000
    BY CurveAssumption
<1>2. ClampScalar(s) = s
    BY <1>1 DEF ClampScalar, IsFinite, NaN, Infinity
<1>3. ScalarToDecibels(s) = IF s = 0 \/ Logs[s] < -96 THEN -96 ELSE Logs[s]
    BY <1>2 DEF ScalarToDecibels
<1>4. ASSUME s # 0 PROVE Logs[s] \in Int /\ Logs[s] <= 0
    BY <1>4, CurveRange
<1> QED
    BY <1>1, <1>3, <1>4

-----------------------------------------------------------------------------
(* What the switches answer about the properties that change *)

(* An answer of four bytes fits the host's buffer. *)
LEMMA CopyOne ==
    ASSUME NEW v, NEW type \in {"UInt32", "Float32"}
    PROVE  CopyData(Data(type, <<v>>), [size |-> 4, null |-> FALSE, content |-> 0])
             = Data(type, <<v>>)
<1>1. Bytes(Data(type, <<v>>)) = 4
    BY DEF Bytes, Data, SizeOf
<1> QED
    BY <1>1 DEF CopyData

(* Each read answers what the driver's state has. *)
LEMMA ReadValue ==
    ASSUME NEW p \in Followed
    PROVE  Read(p, State) = Told(p)
<1> DEFINE a(selector) == [selector |-> selector, scope |-> "global", element |-> "main"]
           q == [size |-> 0, given |-> FALSE, items |-> <<>>]
           b == [size |-> 4, null |-> FALSE, content |-> 0]
           Answers(type, v) == GetPropertyData(p[1], a(p[2]), q, b, State) = Data(type, <<v>>)
<1>0. /\ State.runningCount = gRunningCount
      /\ State.outputStreamActive = gOutputStreamActive
      /\ State.volumeScalar = gVolumeScalar
      /\ State.mute = gMute
    BY DEF State
<1>1. \A v, type : Data(type, <<v>>).status = "noErr" /\ Data(type, <<v>>).values[1] = v
    BY DEF Data
<1>2. CASE p = Running
    <2>1. Presence("device", a("DeviceIsRunning")) = "noErr"
        BY DEF Presence, HasProperty, Objects, IsValidAddress, ValidScopes, OwnSelectors,
               DeviceSelectors
    <2>2. GetDevicePropertyData(a("DeviceIsRunning"), State) = Data("UInt32", <<Told(p)>>)
        <3>1. Told(p) = IF State.runningCount > 0 THEN 1 ELSE 0
            BY <1>0, <1>2 DEF Told, Running, Active, Scalar, Decibel, Muted
        <3> QED
            BY <3>1 DEF GetDevicePropertyData
    <2>3. GetPropertyData("device", a("DeviceIsRunning"), q, b, State)
            = CopyData(Data("UInt32", <<Told(p)>>), b)
        BY <1>1, <2>1, <2>2 DEF GetPropertyData, CommonSelectors
    <2> QED
        BY <1>1, <1>2, <2>3, CopyOne DEF Read, Running
<1>3. CASE p = Active
    <2>1. Presence("stream", a("IsActive")) = "noErr"
        BY DEF Presence, HasProperty, Objects, IsValidAddress, ValidScopes, OwnSelectors,
               StreamSelectors
    <2>2. GetStreamPropertyData("IsActive", State) = Data("UInt32", <<Told(p)>>)
        <3>1. Told(p) = State.outputStreamActive
            BY <1>0, <1>3 DEF Told, Running, Active, Scalar, Decibel, Muted
        <3> QED
            BY <3>1 DEF GetStreamPropertyData
    <2>3. GetPropertyData("stream", a("IsActive"), q, b, State)
            = CopyData(Data("UInt32", <<Told(p)>>), b)
        BY <1>1, <2>1, <2>2 DEF GetPropertyData, CommonSelectors
    <2> QED
        BY <1>1, <1>3, <2>3, CopyOne DEF Read, Active
<1>4. ASSUME NEW type \in {"UInt32", "Float32"}, NEW object \in {"volume", "mute"},
             NEW selector \in {"ScalarValue", "DecibelValue", "BooleanValue"},
             p = <<object, selector>>, object = "mute" <=> selector = "BooleanValue",
             GetControlPropertyData(object, selector, b, State) = Data(type, <<Told(p)>>)
      PROVE  Read(p, State) = Told(p)
    <2>1. Presence(object, a(selector)) = "noErr"
        BY <1>4 DEF Presence, HasProperty, Objects, IsValidAddress, ValidScopes, OwnSelectors,
               ControlSelectors
    <2>2. GetPropertyData(object, a(selector), q, b, State)
            = CopyData(Data(type, <<Told(p)>>), b)
        BY <1>1, <1>4, <2>1 DEF GetPropertyData, CommonSelectors
    <2> QED
        BY <1>1, <1>4, <2>2, CopyOne DEF Read
<1>5. CASE p = Scalar
    <2>1. GetControlPropertyData("volume", "ScalarValue", b, State) = Data("Float32", <<Told(p)>>)
        <3>1. Told(p) = State.volumeScalar
            BY <1>0, <1>5 DEF Told, Running, Active, Scalar, Decibel, Muted
        <3> QED
            BY <3>1 DEF GetControlPropertyData
    <2> QED
        BY <1>4, <1>5, <2>1 DEF Scalar
<1>6. CASE p = Decibel
    <2>1. GetControlPropertyData("volume", "DecibelValue", b, State) = Data("Float32", <<Told(p)>>)
        <3>1. Told(p) = ScalarToDecibels(State.volumeScalar)
            BY <1>0, <1>6 DEF Told, Running, Active, Scalar, Decibel, Muted
        <3> QED
            BY <3>1 DEF GetControlPropertyData
    <2> QED
        BY <1>4, <1>6, <2>1 DEF Decibel
<1>7. CASE p = Muted
    <2>1. GetControlPropertyData("mute", "BooleanValue", b, State) = Data("UInt32", <<Told(p)>>)
        <3>1. Told(p) = State.mute
            BY <1>0, <1>7 DEF Told, Running, Active, Scalar, Decibel, Muted
        <3> QED
            BY <3>1 DEF GetControlPropertyData
    <2> QED
        BY <1>4, <1>7, <2>1 DEF Muted
<1> QED
    BY <1>2, <1>3, <1>5, <1>6, <1>7 DEF Followed

(* What the host reads is a number. *)
LEMMA ToldIsNumber ==
    ASSUME IInv, NEW p \in Followed
    PROVE  Told(p) \in Int
<1>1. ScalarToDecibels(gVolumeScalar) \in Int
    BY DecibelsInRange DEF IInv, VolumeOnCurve
<1>2. gVolumeScalar \in Int /\ gMute \in Int /\ gOutputStreamActive \in Int
    BY DEF IInv, TypeOK
<1> QED
    BY <1>1, <1>2 DEF Told, Followed, Running, Active, Scalar, Decibel, Muted

(* The volume is read in the announced ranges. *)
LEMMA ToldInRange ==
    ASSUME VolumeOnCurve
    PROVE  Told(Scalar) \in 0..1000 /\ Told(Decibel) \in -96..0
<1>1. gVolumeScalar \in 0..1000 /\ ScalarToDecibels(gVolumeScalar) \in -96..0
    BY DecibelsInRange DEF VolumeOnCurve
<1> QED
    BY <1>1 DEF Told, Running, Active, Scalar, Decibel, Muted

(* A property stays what it is with the variable it is read from. *)
LEMMA ToldStays ==
    ASSUME NEW p \in Followed,
           p = Running => (gRunningCount' > 0 <=> gRunningCount > 0),
           p = Active => gOutputStreamActive' = gOutputStreamActive,
           p \in {Scalar, Decibel} => gVolumeScalar' = gVolumeScalar,
           p = Muted => gMute' = gMute
    PROVE  Told(p)' = Told(p)
<1>1. CASE p = Running
    BY <1>1 DEF Told, Running, Active, Scalar, Decibel, Muted
<1>2. CASE p = Active
    BY <1>2 DEF Told, Running, Active, Scalar, Decibel, Muted
<1>3. CASE p = Scalar
    BY <1>3 DEF Told, Running, Active, Scalar, Decibel, Muted
<1>4. CASE p = Decibel
    BY <1>4 DEF Told, Running, Active, Scalar, Decibel, Muted
<1>5. CASE p = Muted
    BY <1>5 DEF Told, Running, Active, Scalar, Decibel, Muted
<1> QED
    BY <1>1, <1>2, <1>3, <1>4, <1>5 DEF Followed

-----------------------------------------------------------------------------
(* The switches, on every question *)

(* The classes a qualifier asks for. *)
Matches(candidate, qualifier) ==
    \/ qualifier.size = 0
    \/ \E i \in DOMAIN qualifier.items : ObjectMatchesClass(candidate, qualifier.items[i])

Offered(object, scope) ==
    CASE object = "plugin" -> {"device"}
      [] object = "device" /\ scope \in {"global", "output"} -> {"stream", "volume", "mute"}
      [] OTHER -> {}

Elements(s) == {s[i] : i \in DOMAIN s}

(* The elements of what is put together. *)
LEMMA ElementsOfBoth ==
    ASSUME NEW S, NEW s \in Seq(S), NEW t \in Seq(S)
    PROVE  /\ s \o t \in Seq(S)
           /\ Len(s \o t) = Len(s) + Len(t)
           /\ Elements(s \o t) = Elements(s) \union Elements(t)
<1>1. /\ s \o t \in Seq(S) /\ Len(s \o t) = Len(s) + Len(t)
      /\ \A i \in 1..Len(s) + Len(t) :
            (s \o t)[i] = IF i <= Len(s) THEN s[i] ELSE t[i - Len(s)]
    BY ConcatProperties
<1>2. Len(s) \in Nat /\ Len(t) \in Nat /\ DOMAIN s = 1..Len(s) /\ DOMAIN t = 1..Len(t)
      /\ DOMAIN (s \o t) = 1..Len(s) + Len(t)
    BY <1>1
<1>3. \A x \in Elements(s \o t) : x \in Elements(s) \union Elements(t)
    BY <1>1, <1>2 DEF Elements
<1>4. \A i \in DOMAIN s : s[i] \in Elements(s \o t)
    BY <1>1, <1>2 DEF Elements
<1>5. \A i \in DOMAIN t : t[i] \in Elements(s \o t)
    <2> TAKE i \in DOMAIN t
    <2>1. i + Len(s) \in DOMAIN (s \o t) /\ (s \o t)[i + Len(s)] = t[i]
        BY <1>1, <1>2
    <2> QED
        BY <2>1 DEF Elements
<1> QED
    BY <1>1, <1>3, <1>4, <1>5 DEF Elements

Parts == {"device", "stream", "volume", "mute"}
Matching(c, qualifier) == IF Matches(c, qualifier) THEN <<c>> ELSE <<>>

(* The list of one candidate has it if it matches. *)
LEMMA OneMatching ==
    ASSUME NEW c \in Parts, NEW qualifier
    PROVE  /\ Matching(c, qualifier) \in Seq(Parts) /\ Len(Matching(c, qualifier)) \in 0..1
           /\ Elements(Matching(c, qualifier)) = {d \in {c} : Matches(d, qualifier)}
<1>1. CASE Matches(c, qualifier)
    <2>1. Matching(c, qualifier) = <<c>>
        BY <1>1 DEF Matching
    <2>2. Elements(<<c>>) = {c}
        BY DEF Elements
    <2> QED
        BY <1>1, <2>1, <2>2
<1>2. CASE ~ Matches(c, qualifier)
    <2>1. Matching(c, qualifier) = <<>>
        BY <1>2 DEF Matching
    <2>2. Elements(<<>>) = {}
        BY DEF Elements
    <2> QED
        BY <1>2, <2>1, <2>2
<1> QED
    BY <1>1, <1>2

(* The list of owned objects has exactly those offered that match. *)
LEMMA OwnedObjectsListed ==
    ASSUME NEW object, NEW scope, NEW qualifier
    PROVE  LET list == FilteredOwnedObjects(object, scope, qualifier)
           IN /\ list \in Seq(Parts) /\ Len(list) \in 0..3
              /\ Elements(list) = {c \in Offered(object, scope) : Matches(c, qualifier)}
<1> DEFINE M(c) == Matching(c, qualifier)
           two == M("stream") \o M("volume")
           three == two \o M("mute")
<1>1. FilteredOwnedObjects(object, scope, qualifier) =
        CASE object = "plugin" -> M("device")
          [] object = "device" /\ scope \in {"global", "output"} -> three
          [] OTHER -> <<>>
    BY DEF FilteredOwnedObjects, Matches, Matching
<1>2. /\ M("device") \in Seq(Parts) /\ Len(M("device")) \in 0..1
      /\ Elements(M("device")) = {d \in {"device"} : Matches(d, qualifier)}
    BY OneMatching DEF Parts
<1>3. /\ M("stream") \in Seq(Parts) /\ Len(M("stream")) \in 0..1
      /\ Elements(M("stream")) = {d \in {"stream"} : Matches(d, qualifier)}
    BY OneMatching DEF Parts
<1>4. /\ M("volume") \in Seq(Parts) /\ Len(M("volume")) \in 0..1
      /\ Elements(M("volume")) = {d \in {"volume"} : Matches(d, qualifier)}
    BY OneMatching DEF Parts
<1>5. /\ M("mute") \in Seq(Parts) /\ Len(M("mute")) \in 0..1
      /\ Elements(M("mute")) = {d \in {"mute"} : Matches(d, qualifier)}
    BY OneMatching DEF Parts
<1> HIDE DEF M
<1>6. /\ two \in Seq(Parts) /\ Len(two) = Len(M("stream")) + Len(M("volume"))
      /\ Elements(two) = Elements(M("stream")) \union Elements(M("volume"))
    BY <1>3, <1>4, ElementsOfBoth
<1>13. three = two \o M("mute")
    OBVIOUS
<1> HIDE DEF two, three
<1>7. /\ three \in Seq(Parts) /\ Len(three) = Len(two) + Len(M("mute"))
      /\ Elements(three) = Elements(two) \union Elements(M("mute"))
    BY <1>5, <1>6, <1>13, ElementsOfBoth
<1>8. Len(three) \in 0..3
    <2> DEFINE s == Len(M("stream"))
               v == Len(M("volume"))
               m == Len(M("mute"))
    <2>1. Len(three) = s + v + m
        BY <1>6, <1>7
    <2>2. s \in 0..1 /\ v \in 0..1 /\ m \in 0..1
        BY <1>3, <1>4, <1>5
    <2> HIDE DEF s, v, m
    <2> QED
        BY <2>1, <2>2
<1>9. Elements(three) = {c \in {"stream", "volume", "mute"} : Matches(c, qualifier)}
    <2> DEFINE s == Elements(M("stream"))
               v == Elements(M("volume"))
               m == Elements(M("mute"))
    <2>1. Elements(three) = (s \union v) \union m
        BY <1>6, <1>7
    <2>2. /\ s = {d \in {"stream"} : Matches(d, qualifier)}
          /\ v = {d \in {"volume"} : Matches(d, qualifier)}
          /\ m = {d \in {"mute"} : Matches(d, qualifier)}
        BY <1>3, <1>4, <1>5
    <2> HIDE DEF s, v, m
    <2> QED
        BY <2>1, <2>2
<1>10. CASE object = "plugin"
    <2>1. Offered(object, scope) = {"device"}
        BY <1>10 DEF Offered
    <2>2. FilteredOwnedObjects(object, scope, qualifier) = M("device")
        BY <1>1, <1>10
    <2> QED
        BY <1>2, <2>1, <2>2
<1>11. CASE object = "device" /\ scope \in {"global", "output"}
    <2>1. Offered(object, scope) = {"stream", "volume", "mute"}
        BY <1>11 DEF Offered
    <2>2. FilteredOwnedObjects(object, scope, qualifier) = three
        BY <1>1, <1>11
    <2> QED
        BY <1>7, <1>8, <1>9, <2>1, <2>2
<1>12. CASE object # "plugin" /\ ~ (object = "device" /\ scope \in {"global", "output"})
    <2>1. Offered(object, scope) = {}
        BY <1>12 DEF Offered
    <2>2. FilteredOwnedObjects(object, scope, qualifier) = <<>>
        BY <1>1, <1>12
    <2>3. <<>> \in Seq(Parts) /\ Len(<<>>) = 0 /\ Elements(<<>>) = {}
        BY DEF Elements
    <2> QED
        BY <2>1, <2>2, <2>3
<1> QED
    BY <1>10, <1>11, <1>12

(* A property whose size and whose value agree. *)
Fits(size, data) ==
    /\ size.status = "noErr" /\ data.status = "noErr"
    /\ size.size \in Nat /\ Bytes(data) = size.size

(* Values of one type, none, one or two of them. *)
LEMMA ValuesFit ==
    ASSUME NEW type \in DOMAIN SizeOf, NEW v, NEW w
    PROVE  /\ Fits(Sized(0), Data(type, <<>>))
           /\ Fits(Sized(SizeOf[type]), Data(type, <<v>>))
           /\ Fits(Sized(2 * SizeOf[type]), Data(type, <<v, w>>))
<1>1. SizeOf[type] \in Nat
    BY DEF SizeOf
<1>2. Len(<<>>) = 0 /\ Len(<<v>>) = 1 /\ Len(<<v, w>>) = 2
    OBVIOUS
<1> QED
    BY <1>1, <1>2 DEF Fits, Sized, Data, Bytes

(* The sizes of the types. *)
LEMMA TypeSizes ==
    /\ DOMAIN SizeOf = {"UInt32", "Float32", "ClassID", "ObjectID", "pid", "Float64", "CFString",
                        "ValueRange", "BufferList", "Format", "RangedFormat"}
    /\ SizeOf.UInt32 = 4 /\ SizeOf.Float32 = 4 /\ SizeOf.ClassID = 4 /\ SizeOf.ObjectID = 4
    /\ SizeOf.Float64 = 8 /\ SizeOf.CFString = 8 /\ SizeOf.Format = 40
BY DEF SizeOf

(* The stream's. *)
LEMMA StreamFits ==
    ASSUME NEW selector \in StreamSelectors, NEW state
    PROVE  Fits(StreamPropertyDataSize(selector), GetStreamPropertyData(selector, state))
<1>1. CASE selector \in {"VirtualFormat", "PhysicalFormat"}
    BY <1>1, ValuesFit, TypeSizes DEF StreamPropertyDataSize, GetStreamPropertyData
<1>2. CASE selector \in {"AvailableVirtualFormats", "AvailablePhysicalFormats"}
    BY <1>2, ValuesFit, TypeSizes DEF StreamPropertyDataSize, GetStreamPropertyData
<1>3. CASE selector \in {"IsActive", "Direction", "TerminalType", "StartingChannel", "Latency"}
    BY <1>3, ValuesFit, TypeSizes DEF StreamPropertyDataSize, GetStreamPropertyData
<1> QED
    BY <1>1, <1>2, <1>3 DEF StreamSelectors

(* The device's. *)
LEMMA DeviceFits ==
    ASSUME NEW address, NEW state, address.selector \in DeviceSelectors
    PROVE  Fits(DevicePropertyDataSize(address), GetDevicePropertyData(address, state))
<1> DEFINE selector == address.selector
<1>1. ASSUME NEW type \in DOMAIN SizeOf, NEW v,
             DevicePropertyDataSize(address) = Sized(SizeOf[type]),
             GetDevicePropertyData(address, state) = Data(type, <<v>>)
      PROVE  Fits(DevicePropertyDataSize(address), GetDevicePropertyData(address, state))
    BY <1>1, ValuesFit
<1>2. CASE selector \in {"DeviceUID", "ModelUID"}
    <2>1. DevicePropertyDataSize(address) = Sized(SizeOf.CFString)
        BY <1>2 DEF DevicePropertyDataSize
    <2>2. GetDevicePropertyData(address, state) = Data("CFString", <<selector>>)
        BY <1>2 DEF GetDevicePropertyData
    <2> QED
        BY <1>1, <2>1, <2>2, TypeSizes
<1>3. CASE selector \in {"ClockDomain", "Latency", "SafetyOffset", "IsHidden"}
    <2>1. DevicePropertyDataSize(address) = Sized(SizeOf.UInt32)
        BY <1>3 DEF DevicePropertyDataSize
    <2>2. GetDevicePropertyData(address, state) = Data("UInt32", <<0>>)
        BY <1>3 DEF GetDevicePropertyData
    <2> QED
        BY <1>1, <2>1, <2>2, TypeSizes
<1>4. CASE selector \in {"DeviceIsAlive", "DeviceCanBeDefaultSystemDevice", "ClockIsStable"}
    <2>1. DevicePropertyDataSize(address) = Sized(SizeOf.UInt32)
        BY <1>4 DEF DevicePropertyDataSize
    <2>2. GetDevicePropertyData(address, state) = Data("UInt32", <<1>>)
        BY <1>4 DEF GetDevicePropertyData
    <2> QED
        BY <1>1, <2>1, <2>2, TypeSizes
<1>5. CASE selector = "TransportType"
    <2>1. DevicePropertyDataSize(address) = Sized(SizeOf.UInt32)
        BY <1>5 DEF DevicePropertyDataSize
    <2>2. GetDevicePropertyData(address, state) = Data("UInt32", <<"virtual">>)
        BY <1>5 DEF GetDevicePropertyData
    <2> QED
        BY <1>1, <2>1, <2>2, TypeSizes
<1>6. CASE selector = "BufferFrameSize"
    <2>1. DevicePropertyDataSize(address) = Sized(SizeOf.UInt32)
        BY <1>6 DEF DevicePropertyDataSize
    <2>2. GetDevicePropertyData(address, state) = Data("UInt32", <<"kSVCBufferFrameSize">>)
        BY <1>6 DEF GetDevicePropertyData
    <2> QED
        BY <1>1, <2>1, <2>2, TypeSizes
<1>7. CASE selector = "ZeroTimeStampPeriod"
    <2>1. DevicePropertyDataSize(address) = Sized(SizeOf.UInt32)
        BY <1>7 DEF DevicePropertyDataSize
    <2>2. GetDevicePropertyData(address, state) = Data("UInt32", <<"kSVCZeroTimestampPeriod">>)
        BY <1>7 DEF GetDevicePropertyData
    <2> QED
        BY <1>1, <2>1, <2>2, TypeSizes
<1>8. CASE selector = "ClockAlgorithm"
    <2>1. DevicePropertyDataSize(address) = Sized(SizeOf.UInt32)
        BY <1>8 DEF DevicePropertyDataSize
    <2>2. GetDevicePropertyData(address, state) = Data("UInt32", <<"raw">>)
        BY <1>8 DEF GetDevicePropertyData
    <2> QED
        BY <1>1, <2>1, <2>2, TypeSizes
<1>9. CASE selector = "DeviceIsRunning"
    <2>1. DevicePropertyDataSize(address) = Sized(SizeOf.UInt32)
        BY <1>9 DEF DevicePropertyDataSize
    <2>2. GetDevicePropertyData(address, state) = Data("UInt32", <<IF state.runningCount > 0 THEN 1 ELSE 0>>)
        BY <1>9 DEF GetDevicePropertyData
    <2> QED
        BY <1>1, <2>1, <2>2, TypeSizes
<1>10. CASE selector = "DeviceCanBeDefaultDevice"
    <2>1. DevicePropertyDataSize(address) = Sized(SizeOf.UInt32)
        BY <1>10 DEF DevicePropertyDataSize
    <2>2. GetDevicePropertyData(address, state) = Data("UInt32", <<IF address.scope = "input" THEN 0 ELSE 1>>)
        BY <1>10 DEF GetDevicePropertyData
    <2> QED
        BY <1>1, <2>1, <2>2, TypeSizes
<1>11. CASE selector \in {"NominalSampleRate", "ActualSampleRate"}
    <2>1. DevicePropertyDataSize(address) = Sized(SizeOf.Float64)
        BY <1>11 DEF DevicePropertyDataSize
    <2>2. GetDevicePropertyData(address, state) = Data("Float64", <<48000>>)
        BY <1>11 DEF GetDevicePropertyData
    <2> QED
        BY <1>1, <2>1, <2>2, TypeSizes
<1>12. CASE selector = "AvailableNominalSampleRates"
    <2>1. DevicePropertyDataSize(address) = Sized(SizeOf.ValueRange)
        BY <1>12 DEF DevicePropertyDataSize
    <2>2. GetDevicePropertyData(address, state) = Data("ValueRange", <<<<48000, 48000>>>>)
        BY <1>12 DEF GetDevicePropertyData
    <2> QED
        BY <1>1, <2>1, <2>2, TypeSizes
<1>13. CASE selector = "BufferFrameSizeRange"
    <2>1. DevicePropertyDataSize(address) = Sized(SizeOf.ValueRange)
        BY <1>13 DEF DevicePropertyDataSize
    <2>2. GetDevicePropertyData(address, state) = Data("ValueRange", <<<<64, 4096>>>>)
        BY <1>13 DEF GetDevicePropertyData
    <2> QED
        BY <1>1, <2>1, <2>2, TypeSizes
<1>14. CASE selector = "RelatedDevices"
    <2>1. DevicePropertyDataSize(address) = Sized(SizeOf.ObjectID)
        BY <1>14 DEF DevicePropertyDataSize
    <2>2. GetDevicePropertyData(address, state) = Data("ObjectID", <<"device">>)
        BY <1>14 DEF GetDevicePropertyData
    <2> QED
        BY <1>1, <2>1, <2>2, TypeSizes
<1>15. CASE selector = "HogMode"
    <2>1. DevicePropertyDataSize(address) = Sized(SizeOf.pid)
        BY <1>15 DEF DevicePropertyDataSize
    <2>2. GetDevicePropertyData(address, state) = Data("pid", <<-1>>)
        BY <1>15 DEF GetDevicePropertyData
    <2> QED
        BY <1>1, <2>1, <2>2, TypeSizes
<1>16. CASE selector = "IOCycleUsage"
    <2>1. DevicePropertyDataSize(address) = Sized(SizeOf.Float32)
        BY <1>16 DEF DevicePropertyDataSize
    <2>2. GetDevicePropertyData(address, state) = Data("Float32", <<0>>)
        BY <1>16 DEF GetDevicePropertyData
    <2> QED
        BY <1>1, <2>1, <2>2, TypeSizes
<1>17. CASE selector = "StreamConfiguration"
    <2>1. DevicePropertyDataSize(address) = Sized(SizeOf.BufferList)
        BY <1>17 DEF DevicePropertyDataSize
    <2>2. GetDevicePropertyData(address, state) = Data("BufferList", <<IF address.scope = "input" THEN 0 ELSE 1>>)
        BY <1>17 DEF GetDevicePropertyData
    <2> QED
        BY <1>1, <2>1, <2>2, TypeSizes
<1>18. CASE selector = "Streams"
    <2>1. DevicePropertyDataSize(address)
            = Sized(IF address.scope = "input" THEN 0 ELSE SizeOf.ObjectID)
        BY <1>18 DEF DevicePropertyDataSize
    <2>2. GetDevicePropertyData(address, state)
            = Data("ObjectID", IF address.scope = "input" THEN <<>> ELSE <<"stream">>)
        BY <1>18 DEF GetDevicePropertyData
    <2>3. /\ Fits(Sized(0), Data("ObjectID", <<>>))
          /\ Fits(Sized(SizeOf.ObjectID), Data("ObjectID", <<"stream">>))
        BY ValuesFit, TypeSizes
    <2> QED
        BY <2>1, <2>2, <2>3
<1>19. CASE selector = "ControlList"
    <2>1. DevicePropertyDataSize(address)
            = Sized(IF address.scope = "input" THEN 0 ELSE 2 * SizeOf.ObjectID)
        BY <1>19 DEF DevicePropertyDataSize
    <2>2. GetDevicePropertyData(address, state)
            = Data("ObjectID", IF address.scope = "input" THEN <<>> ELSE <<"volume", "mute">>)
        BY <1>19 DEF GetDevicePropertyData
    <2>3. /\ Fits(Sized(0), Data("ObjectID", <<>>))
          /\ Fits(Sized(2 * SizeOf.ObjectID), Data("ObjectID", <<"volume", "mute">>))
        BY ValuesFit, TypeSizes
    <2> QED
        BY <2>1, <2>2, <2>3
<1>20. CASE selector = "PreferredChannelsForStereo"
    <2>1. DevicePropertyDataSize(address) = Sized(2 * SizeOf.UInt32)
        BY <1>20 DEF DevicePropertyDataSize
    <2>2. GetDevicePropertyData(address, state) = Data("UInt32", <<1, 2>>)
        BY <1>20 DEF GetDevicePropertyData
    <2>3. Fits(Sized(2 * SizeOf.UInt32), Data("UInt32", <<1, 2>>))
        BY ValuesFit, TypeSizes
    <2> QED
        BY <2>1, <2>2, <2>3
<1> QED
    BY <1>2, <1>3, <1>4, <1>5, <1>6, <1>7, <1>8, <1>9, <1>10, <1>11, <1>12, <1>13, <1>14, <1>15, <1>16, <1>17, <1>18, <1>19, <1>20 DEF DeviceSelectors

(* The plug-in's, when it is not asked to translate a UID that is missing. *)
LEMMA PluginFits ==
    ASSUME NEW selector \in PluginSelectors, NEW qualifier,
           selector = "TranslateUIDToDevice" => qualifier.size = 8 /\ qualifier.given
    PROVE  Fits(PluginPropertyDataSize(selector), GetPluginPropertyData(selector, qualifier))
<1>1. CASE selector \in {"BundleID", "ResourceBundle"}
    BY <1>1, ValuesFit, TypeSizes DEF PluginPropertyDataSize, GetPluginPropertyData
<1>2. CASE selector \in {"DeviceList", "TranslateUIDToBox", "TranslateUIDToClockDevice"}
    BY <1>2, ValuesFit, TypeSizes DEF PluginPropertyDataSize, GetPluginPropertyData
<1>3. CASE selector = "TranslateUIDToDevice"
    BY <1>3, ValuesFit, TypeSizes DEF PluginPropertyDataSize, GetPluginPropertyData
<1>4. CASE selector \in {"BoxList", "ClockDeviceList"}
    BY <1>4, ValuesFit, TypeSizes DEF PluginPropertyDataSize, GetPluginPropertyData
<1> QED
    BY <1>1, <1>2, <1>3, <1>4 DEF PluginSelectors

(* Those that every object has, when it is not asked for malformed classes.*)
LEMMA CommonFits ==
    ASSUME NEW object, NEW address, NEW qualifier, address.selector \in CommonSelectors,
           address.selector = "OwnedObjects" => ~ BadQualifier(qualifier)
    PROVE  Fits(CommonPropertyDataSize(object, address, qualifier),
                GetCommonPropertyData(object, address, qualifier))
<1> DEFINE list == FilteredOwnedObjects(object, address.scope, qualifier)
<1>1. CASE address.selector \in {"BaseClass", "Class"}
    BY <1>1, ValuesFit, TypeSizes DEF CommonPropertyDataSize, GetCommonPropertyData
<1>2. CASE address.selector = "Owner"
    BY <1>2, ValuesFit, TypeSizes DEF CommonPropertyDataSize, GetCommonPropertyData
<1>3. CASE address.selector \in {"Name", "Manufacturer"}
    BY <1>3, ValuesFit, TypeSizes DEF CommonPropertyDataSize, GetCommonPropertyData
<1>4. CASE address.selector = "CustomPropertyInfoList"
    BY <1>4, ValuesFit, TypeSizes DEF CommonPropertyDataSize, GetCommonPropertyData
<1>5. CASE address.selector = "OwnedObjects"
    <2>1. Len(list) \in Nat
        BY OwnedObjectsListed
    <2>2. /\ CommonPropertyDataSize(object, address, qualifier) = Sized(Len(list) * 4)
          /\ GetCommonPropertyData(object, address, qualifier) = Data("ObjectID", list)
        BY <1>5, TypeSizes DEF CommonPropertyDataSize, GetCommonPropertyData
    <2> HIDE DEF list
    <2> QED
        BY <2>1, <2>2, TypeSizes DEF Fits, Sized, Data, Bytes
<1> QED
    BY <1>1, <1>2, <1>3, <1>4, <1>5 DEF CommonSelectors

(* A control's, when it is not asked to convert a value that is missing.   *)
LEMMA ControlFits ==
    ASSUME NEW object \in {"volume", "mute"}, NEW selector \in ControlSelectors(object),
           NEW buffer, NEW state,
           selector \in {"ConvertScalarToDecibels", "ConvertDecibelsToScalar"} =>
               ~ (buffer.size < 4) /\ ~ buffer.null
    PROVE  Fits(ControlPropertyDataSize(object, selector),
                GetControlPropertyData(object, selector, buffer, state))
<1>1. CASE selector \in {"ControlScope", "ControlElement"}
    BY <1>1, ValuesFit, TypeSizes DEF ControlPropertyDataSize, GetControlPropertyData
<1>2. CASE object = "volume" /\ selector \in {"ScalarValue", "DecibelValue"}
    BY <1>2, ValuesFit, TypeSizes DEF ControlPropertyDataSize, GetControlPropertyData
<1>3. CASE object = "volume" /\ selector = "DecibelRange"
    BY <1>3, ValuesFit, TypeSizes DEF ControlPropertyDataSize, GetControlPropertyData
<1>4. CASE object = "volume" /\ selector = "ConvertScalarToDecibels"
    <2>1. ControlPropertyDataSize(object, selector) = Sized(SizeOf.Float32)
        BY <1>4 DEF ControlPropertyDataSize
    <2>2. GetControlPropertyData(object, selector, buffer, state)
            = Data("Float32", <<ScalarToDecibels(buffer.content)>>)
        BY <1>4, TypeSizes DEF GetControlPropertyData
    <2>3. "Float32" \in DOMAIN SizeOf
        BY TypeSizes
    <2> QED
        BY <2>1, <2>2, <2>3, ValuesFit
<1>5. CASE object = "volume" /\ selector = "ConvertDecibelsToScalar"
    <2>1. ControlPropertyDataSize(object, selector) = Sized(SizeOf.Float32)
        BY <1>5 DEF ControlPropertyDataSize
    <2>2. GetControlPropertyData(object, selector, buffer, state)
            = Data("Float32", <<DecibelsToScalar(buffer.content)>>)
        BY <1>5, TypeSizes DEF GetControlPropertyData
    <2>3. "Float32" \in DOMAIN SizeOf
        BY TypeSizes
    <2> QED
        BY <2>1, <2>2, <2>3, ValuesFit
<1>6. CASE object = "mute" /\ selector = "BooleanValue"
    BY <1>6, ValuesFit, TypeSizes DEF ControlPropertyDataSize, GetControlPropertyData
<1> QED
    BY <1>1, <1>2, <1>3, <1>4, <1>5, <1>6 DEF ControlSelectors

(* A buffer that is large enough gets all of the data, another one none. *)
LEMMA CopyFits ==
    ASSUME NEW buffer \in Buffers, NEW data, Bytes(data) \in Nat, data.status = "noErr"
    PROVE  /\ buffer.size >= Bytes(data) /\ (buffer.null => Bytes(data) = 0) =>
                 CopyData(data, buffer) = data
           /\ ~ (buffer.size >= Bytes(data) /\ (buffer.null => Bytes(data) = 0)) =>
                 CopyData(data, buffer).status # "noErr"
<1>1. buffer.size \in Nat /\ buffer.null \in BOOLEAN
    BY BufferAssumption
<1> QED
    BY <1>1 DEF CopyData, NoData

(* What an answer must be for a size that was told. *)
Honest(size, data, buffer) ==
    IF size.status = "noErr" /\ buffer.size >= size.size /\ (buffer.null => size.size = 0)
    THEN data.status = "noErr" /\ Bytes(data) = size.size
    ELSE data.status # "noErr"

(* Data that fits its size, copied into a buffer, is an honest answer; so  *)
(* is an error for a buffer that has no room.                              *)
LEMMA HonestAnswer ==
    ASSUME NEW size, NEW data, NEW buffer \in Buffers
    PROVE  /\ Fits(size, data) => Honest(size, CopyData(data, buffer), buffer)
           /\ size.status # "noErr" /\ data.status # "noErr" => Honest(size, data, buffer)
           /\ (/\ size.size \in Nat /\ data.status # "noErr"
               /\ ~ (buffer.size >= size.size) \/ (buffer.null /\ size.size # 0))
              => Honest(size, data, buffer)
<1>1. buffer.size \in Nat /\ buffer.null \in BOOLEAN
    BY BufferAssumption
<1>2. Fits(size, data) => Honest(size, CopyData(data, buffer), buffer)
    <2> SUFFICES ASSUME Fits(size, data)
                 PROVE  Honest(size, CopyData(data, buffer), buffer)
        OBVIOUS
    <2>1. size.status = "noErr" /\ data.status = "noErr" /\ Bytes(data) \in Nat
          /\ Bytes(data) = size.size
        BY DEF Fits
    <2>2. CASE buffer.size >= size.size /\ (buffer.null => size.size = 0)
        <3>1. CopyData(data, buffer) = data
            BY <2>1, <2>2, CopyFits
        <3> QED
            BY <2>1, <2>2, <3>1 DEF Honest
    <2>3. CASE ~ (buffer.size >= size.size /\ (buffer.null => size.size = 0))
        <3>1. CopyData(data, buffer).status # "noErr"
            BY <2>1, <2>3, CopyFits
        <3> QED
            BY <2>1, <2>3, <3>1 DEF Honest
    <2> QED
        BY <2>2, <2>3
<1>3. size.status # "noErr" /\ data.status # "noErr" => Honest(size, data, buffer)
    BY DEF Honest
<1>4. (/\ size.size \in Nat /\ data.status # "noErr"
       /\ ~ (buffer.size >= size.size) \/ (buffer.null /\ size.size # 0))
      => Honest(size, data, buffer)
    BY <1>1 DEF Honest
<1> QED
    BY <1>2, <1>3, <1>4

(* An answer is the data of the object's own switch, copied. *)
Copied(data, buffer) == IF data.status = "noErr" THEN CopyData(data, buffer) ELSE data

(* Of every property, for every qualifier and buffer, the size that is     *)
(* told is the size of what is there.                                      *)
LEMMA SizesHonest ==
    ASSUME NEW object, NEW address, NEW qualifier
    PROVE  SizesAreHonest(object, address, qualifier)
<1> DEFINE selector == address.selector
           size == GetPropertyDataSize(object, address, qualifier)
           Got(buffer) == GetPropertyData(object, address, qualifier, buffer, State)
           refused == /\ selector = "TranslateUIDToDevice"
                      /\ qualifier.size # 8 \/ ~ qualifier.given
           Good == /\ HasProperty(object, address)
                         <=> size.status \notin {"UnknownProperty", "BadObject"}
                   /\ \A buffer \in Buffers :
                         IF refused THEN Got(buffer).status # "noErr"
                         ELSE Honest(size, Got(buffer), buffer)
<1>1. SUFFICES Good
    <2> HIDE DEF size, Got
    <2> QED
        BY DEF SizesAreHonest, Honest, size, Got
<1>2. CASE ~ HasProperty(object, address)
    <2>1. Presence(object, address) \in {"BadObject", "UnknownProperty"}
        BY <1>2 DEF Presence
    <2>2. size.status = Presence(object, address)
        BY <2>1 DEF GetPropertyDataSize
    <2>3. \A buffer : Got(buffer).status = Presence(object, address)
        BY <2>1 DEF GetPropertyData, NoData
    <2> HIDE DEF size, Got
    <2> QED
        BY <1>2, <2>1, <2>2, <2>3, HonestAnswer
<1>3. CASE HasProperty(object, address)
    <2>1. /\ object \in Objects /\ selector \in CommonSelectors \union OwnSelectors(object)
          /\ Presence(object, address) = "noErr"
        BY <1>3 DEF HasProperty, Presence
    <2>2. ASSUME NEW data, Fits(size, data), ~ refused,
                 \A buffer \in Buffers : Got(buffer) = Copied(data, buffer)
          PROVE  Good
        <3>1. size.status = "noErr" /\ data.status = "noErr"
            BY <2>2 DEF Fits
        <3> HIDE DEF size, Got, refused
        <3>2. \A buffer \in Buffers : Honest(size, Got(buffer), buffer)
            BY <2>2, <3>1, HonestAnswer DEF Copied
        <3> QED
            BY <1>3, <2>2, <3>1, <3>2
    <2>3. CASE selector \in CommonSelectors
        <3> DEFINE data == GetCommonPropertyData(object, address, qualifier)
        <3>1. size = CommonPropertyDataSize(object, address, qualifier)
            BY <2>1, <2>3 DEF GetPropertyDataSize
        <3>2. \A buffer : Got(buffer) = Copied(data, buffer)
            BY <2>1, <2>3 DEF GetPropertyData, Copied
        <3>3. ~ refused
            BY <2>3 DEF CommonSelectors
        <3>4. CASE selector = "OwnedObjects" /\ BadQualifier(qualifier)
            <4>1. size.status = "BadPropertySize" /\ data.status = "BadPropertySize"
                BY <3>1, <3>4 DEF CommonPropertyDataSize, GetCommonPropertyData, NoData
            <4>2. \A buffer : Got(buffer).status # "noErr"
                BY <3>2, <4>1 DEF Copied
            <4> HIDE DEF size, Got, refused
            <4> QED
                BY <1>3, <3>3, <4>1, <4>2, HonestAnswer
        <3>5. CASE ~ (selector = "OwnedObjects" /\ BadQualifier(qualifier))
            <4>1. Fits(size, data)
                BY <2>3, <3>1, <3>5, CommonFits
            <4> HIDE DEF size, Got, refused, data
            <4> QED
                BY <2>2, <3>2, <3>3, <4>1
        <3> QED
            BY <3>4, <3>5
    <2>4. CASE selector \notin CommonSelectors /\ object = "plugin"
        <3> DEFINE data == GetPluginPropertyData(selector, qualifier)
        <3>0. selector \in PluginSelectors
            BY <2>1, <2>4 DEF OwnSelectors
        <3>1. size = PluginPropertyDataSize(selector)
            BY <2>1, <2>4 DEF GetPropertyDataSize
        <3>2. \A buffer : Got(buffer) = Copied(data, buffer)
            BY <2>1, <2>4 DEF GetPropertyData, Copied
        <3>3. CASE refused
            <4>1. size.status = "noErr"
                BY <3>1, <3>3 DEF PluginPropertyDataSize, Sized
            <4>2. data.status # "noErr"
                BY <3>3, TypeSizes DEF GetPluginPropertyData, NoData
            <4>3. \A buffer : Got(buffer).status # "noErr"
                BY <3>2, <4>2 DEF Copied
            <4> HIDE DEF size, Got, refused
            <4> QED
                BY <1>3, <3>3, <4>1, <4>3
        <3>4. CASE ~ refused
            <4>1. Fits(size, data)
                BY <3>0, <3>1, <3>4, PluginFits
            <4> HIDE DEF size, Got, refused, data
            <4> QED
                BY <2>2, <3>2, <3>4, <4>1
        <3> QED
            BY <3>3, <3>4
    <2>5. CASE selector \notin CommonSelectors /\ object = "device"
        <3> DEFINE data == GetDevicePropertyData(address, State)
        <3>0. selector \in DeviceSelectors /\ ~ refused
            BY <2>1, <2>5 DEF OwnSelectors, DeviceSelectors
        <3>1. size = DevicePropertyDataSize(address)
            BY <2>1, <2>5 DEF GetPropertyDataSize
        <3>2. \A buffer : Got(buffer) = Copied(data, buffer)
            BY <2>1, <2>5 DEF GetPropertyData, Copied
        <3>3. Fits(size, data)
            BY <3>0, <3>1, DeviceFits
        <3> HIDE DEF size, Got, refused, data
        <3> QED
            BY <2>2, <3>0, <3>2, <3>3
    <2>6. CASE selector \notin CommonSelectors /\ object = "stream"
        <3> DEFINE data == GetStreamPropertyData(selector, State)
        <3>0. selector \in StreamSelectors /\ ~ refused
            BY <2>1, <2>6 DEF OwnSelectors, StreamSelectors
        <3>1. size = StreamPropertyDataSize(selector)
            BY <2>1, <2>6 DEF GetPropertyDataSize
        <3>2. \A buffer : Got(buffer) = Copied(data, buffer)
            BY <2>1, <2>6 DEF GetPropertyData, Copied
        <3>3. Fits(size, data)
            BY <3>0, <3>1, StreamFits
        <3> HIDE DEF size, Got, refused, data
        <3> QED
            BY <2>2, <3>0, <3>2, <3>3
    <2>7. CASE selector \notin CommonSelectors /\ object \in {"volume", "mute"}
        <3> DEFINE data(buffer) == GetControlPropertyData(object, selector, buffer, State)
        <3>0. selector \in ControlSelectors(object) /\ ~ refused
            BY <2>1, <2>7 DEF OwnSelectors, ControlSelectors
        <3>1. size = ControlPropertyDataSize(object, selector)
            BY <2>1, <2>7 DEF GetPropertyDataSize
        <3>2. \A buffer : Got(buffer) = Copied(data(buffer), buffer)
            BY <2>1, <2>7 DEF GetPropertyData, Copied
        <3>3. size.status = "noErr"
            BY <2>7, <3>0, <3>1 DEF ControlPropertyDataSize, ControlSelectors, Sized
        <3>4. ASSUME NEW buffer \in Buffers
              PROVE  Honest(size, Got(buffer), buffer)
            <4>1. buffer.size \in Nat /\ buffer.null \in BOOLEAN
                BY BufferAssumption
            <4>2. CASE /\ selector \in {"ConvertScalarToDecibels", "ConvertDecibelsToScalar"}
                       /\ buffer.size < 4 \/ buffer.null
                <5>1. object = "volume"
                    BY <2>7, <3>0, <4>2 DEF ControlSelectors
                <5>2. size.size = 4
                    BY <3>1, <4>2, <5>1, TypeSizes DEF ControlPropertyDataSize, Sized
                <5>3. data(buffer).status # "noErr"
                    BY <4>2, <5>1, TypeSizes DEF GetControlPropertyData, NoData
                <5>4. Got(buffer).status # "noErr"
                    BY <3>2, <5>3 DEF Copied
                <5> HIDE DEF size, Got
                <5>5. ~ (buffer.size >= size.size) \/ (buffer.null /\ size.size # 0)
                    BY <4>1, <4>2, <5>2
                <5>6. size.size \in Nat
                    BY <5>2
                <5> QED
                    BY <5>4, <5>5, <5>6, HonestAnswer
            <4>3. CASE ~ (/\ selector \in {"ConvertScalarToDecibels", "ConvertDecibelsToScalar"}
                          /\ buffer.size < 4 \/ buffer.null)
                <5>1. Fits(size, data(buffer))
                    BY <2>7, <3>0, <3>1, <4>3, ControlFits
                <5>2. data(buffer).status = "noErr"
                    BY <5>1 DEF Fits
                <5>3. Got(buffer) = CopyData(data(buffer), buffer)
                    BY <3>2, <5>2 DEF Copied
                <5> HIDE DEF size, Got, data
                <5> QED
                    BY <5>1, <5>3, HonestAnswer
            <4> QED
                BY <4>2, <4>3
        <3> HIDE DEF size, Got, refused, data
        <3> QED
            BY <1>3, <3>0, <3>3, <3>4
    <2> QED
        BY <2>1, <2>3, <2>4, <2>5, <2>6, <2>7 DEF Objects
<1> QED
    BY <1>2, <1>3

(* A property is settable exactly if setting it does something else than   *)
(* to refuse every value.                                                  *)
LEMMA SettableHonest ==
    ASSUME NEW object, NEW address
    PROVE  SettableIsHonest(object, address)
<1> DEFINE selector == address.selector
           settable == IsPropertySettable(object, address)
           S(size, value) == SetPropertyData(object, address, size, value)
           sizes == {0, 4, 8, 40}
           values == {48000, 44100}
<1>1. SUFFICES ASSUME settable.status = "noErr"
               PROVE  IF settable.settable
                      THEN /\ \E size \in sizes, value \in values : S(size, value) = "noErr"
                           /\ \A size \in sizes, value \in values :
                                 S(size, value) # "UnsupportedOperation"
                      ELSE \A size \in sizes, value \in values :
                              S(size, value) = "UnsupportedOperation"
    <2> HIDE DEF settable, S
    <2> QED
        BY DEF SettableIsHonest, settable, S
<1>2. /\ settable.settable <=> selector \in SettableSelectors(object)
      /\ settable.status = Presence(object, address)
    BY DEF IsPropertySettable
<1>3. object \in Objects
    BY <1>1, <1>2 DEF Presence
<1>4. CASE selector \in SettableSelectors(object)
    <2> DEFINE Accepts == /\ \E n \in sizes, v \in values : S(n, v) = "noErr"
                          /\ \A n \in sizes, v \in values : S(n, v) # "UnsupportedOperation"
    <2>1. SUFFICES Accepts
        <3> HIDE DEF settable, S
        <3> QED
            BY <1>2, <1>4
    <2>2. CASE object = "stream" /\ selector = "IsActive"
        <3>1. \A n, v : S(n, v) = IF n # 4 THEN "BadPropertySize" ELSE "noErr"
            BY <1>3, <2>2, TypeSizes DEF SetPropertyData
        <3> HIDE DEF S
        <3> QED
            BY <3>1
    <2>3. CASE object = "stream" /\ selector \in {"VirtualFormat", "PhysicalFormat"}
        <3>1. \A n, v : S(n, v) = IF n # 40 THEN "BadPropertySize"
                                  ELSE IF v = 48000 THEN "noErr" ELSE "UnsupportedFormat"
            BY <1>3, <2>3, TypeSizes DEF SetPropertyData
        <3> HIDE DEF S
        <3> QED
            BY <3>1
    <2>4. CASE object = "device" /\ selector = "NominalSampleRate"
        <3>1. \A n, v : S(n, v) = IF n # 8 THEN "BadPropertySize"
                                  ELSE IF v = 48000 THEN "noErr" ELSE "IllegalOperation"
            BY <1>3, <2>4, TypeSizes DEF SetPropertyData
        <3> HIDE DEF S
        <3> QED
            BY <3>1
    <2>5. CASE object = "volume" /\ selector \in {"ScalarValue", "DecibelValue"}
        <3>1. \A n, v : S(n, v) = IF n # 4 THEN "BadPropertySize" ELSE "noErr"
            BY <1>3, <2>5, TypeSizes DEF SetPropertyData
        <3> HIDE DEF S
        <3> QED
            BY <3>1
    <2>6. CASE object = "mute" /\ selector = "BooleanValue"
        <3>1. \A n, v : S(n, v) = IF n # 4 THEN "BadPropertySize" ELSE "noErr"
            BY <1>3, <2>6, TypeSizes DEF SetPropertyData
        <3> HIDE DEF S
        <3> QED
            BY <3>1
    <2> QED
        BY <1>3, <1>4, <2>2, <2>3, <2>4, <2>5, <2>6 DEF SettableSelectors, Objects
<1>5. CASE selector \notin SettableSelectors(object)
    <2>1. \A n, v : S(n, v) = "UnsupportedOperation"
        BY <1>1, <1>2, <1>3, <1>5 DEF SetPropertyData, SettableSelectors, Objects
    <2> HIDE DEF S, settable
    <2> QED
        BY <1>2, <1>5, <2>1
<1> QED
    BY <1>4, <1>5

(* An object matches the classes that its class derives from. *)
LEMMA ClassTree ==
    ASSUME NEW object \in Objects, NEW class
    PROVE  /\ object # "plugin" =>
                 (ObjectMatchesClass(object, class) <=> IsA(ClassForObject(object), class))
           /\ BaseClassForObject(object) = Superclass[ClassForObject(object)]
           /\ object \in {"volume", "mute"} <=> IsA(ClassForObject(object), "Control")
           /\ object = "stream" <=> IsA(ClassForObject(object), "Stream")
<1> USE DEF ObjectMatchesClass, IsA, ClassForObject, BaseClassForObject, Superclass
<1>1. CASE object = "plugin"
    BY <1>1
<1>2. CASE object = "device"
    BY <1>2
<1>3. CASE object = "stream"
    BY <1>3
<1>4. CASE object = "volume"
    BY <1>4
<1>5. CASE object = "mute"
    BY <1>5
<1> QED
    BY <1>1, <1>2, <1>3, <1>4, <1>5 DEF Objects

(* What is offered for a list is what names the object as its owner.       *)
LEMMA OfferedAreOwned ==
    ASSUME NEW object \in Objects, NEW scope \in Scopes, object # "device" => scope = "global"
    PROVE  Offered(object, scope) =
              {part \in Objects : /\ OwnerForObject(part) = object
                                  /\ object = "device" => scope # "input"}
<1>1. CASE object = "plugin"
    BY <1>1 DEF Offered, OwnerForObject, Objects
<1>2. CASE object = "device" /\ scope = "input"
    BY <1>2 DEF Offered, OwnerForObject, Objects
<1>3. CASE object = "device" /\ scope # "input"
    BY <1>3 DEF Offered, OwnerForObject, Objects, Scopes
<1>4. CASE object \in {"stream", "volume", "mute"}
    BY <1>4 DEF Offered, OwnerForObject, Objects
<1> QED
    BY <1>1, <1>2, <1>3, <1>4 DEF Objects

(* A list of up to three items fits the buffer of a question. *)
LEMMA ListCopied ==
    ASSUME NEW type \in {"ObjectID", "ClassID"}, NEW list, NEW n \in 0..3, Len(list) = n
    PROVE  /\ Data(type, list).status = "noErr" /\ Data(type, list).values = list
           /\ CopyData(Data(type, list), [size |-> 16, null |-> FALSE, content |-> 0])
                 = Data(type, list)
<1>1. Bytes(Data(type, list)) = n * 4
    BY TypeSizes DEF Bytes, Data
<1>2. n * 4 \in 0..16
    OBVIOUS
<1> QED
    BY <1>1, <1>2 DEF CopyData, Data

(* The objects form one tree. *)
LEMMA TreeConsistent == TreeIsConsistent
<1> DEFINE object == asked.object
           scope == asked.address.scope
           selector == asked.address.selector
           qualifier == asked.qualifier
           buffer == [size |-> 16, null |-> FALSE, content |-> 0]
           answer == GetPropertyData(object, asked.address, qualifier, buffer, State)
           Listed == answer.values
           Owns(part) == /\ OwnerForObject(part) = object
                         /\ object = "device" => scope # "input"
           Derived(part, class) == IsA(ClassForObject(part), class)
           Qualified(part) == \/ qualifier.size = 0
                              \/ \E i \in DOMAIN qualifier.items :
                                    Derived(part, qualifier.items[i])
<1>1. SUFFICES ASSUME HasProperty(object, asked.address)
               PROVE  /\ selector = "OwnedObjects" /\ ~ BadQualifier(qualifier) =>
                            Elements(Listed) = {part \in Objects : Owns(part) /\ Qualified(part)}
                      /\ selector = "ControlList" =>
                            Elements(Listed) =
                               {part \in Objects : Owns(part) /\ Derived(part, "Control")}
                      /\ selector = "Streams" =>
                            Elements(Listed) =
                               {part \in Objects : Owns(part) /\ Derived(part, "Stream")}
                      /\ selector = "BaseClass" =>
                            Listed = <<Superclass[ClassForObject(object)]>>
    BY DEF TreeIsConsistent, Elements
<1>2. /\ object \in Objects /\ Presence(object, asked.address) = "noErr"
      /\ scope \in Scopes /\ (object # "device" => scope = "global")
      /\ selector \in CommonSelectors \union OwnSelectors(object)
    BY <1>1 DEF HasProperty, IsValidAddress, ValidScopes, Scopes, Presence
<1>3. CASE selector = "OwnedObjects" /\ ~ BadQualifier(qualifier)
    <2> DEFINE list == FilteredOwnedObjects(object, scope, qualifier)
    <2>1. /\ Len(list) \in 0..3
          /\ Elements(list) = {c \in Offered(object, scope) : Matches(c, qualifier)}
        BY OwnedObjectsListed
    <2>2. GetCommonPropertyData(object, asked.address, qualifier) = Data("ObjectID", list)
        BY <1>3 DEF GetCommonPropertyData
    <2>3. /\ Data("ObjectID", list).status = "noErr" /\ Data("ObjectID", list).values = list
          /\ CopyData(Data("ObjectID", list), buffer) = Data("ObjectID", list)
        <3> HIDE DEF list
        <3> QED
            BY <2>1, ListCopied
    <2>4. selector \in CommonSelectors
        BY <1>3 DEF CommonSelectors
    <2>6. Listed = list
        <3> HIDE DEF list
        <3> QED
            BY <1>2, <2>2, <2>3, <2>4 DEF GetPropertyData
    <2>7. Offered(object, scope) = {part \in Objects : Owns(part)}
        BY <1>2, OfferedAreOwned
    <2>8. ASSUME NEW part \in Objects, Owns(part)
          PROVE  Matches(part, qualifier) <=> Qualified(part)
        <3>1. part # "plugin"
            BY <1>2, <2>8 DEF OwnerForObject, Objects
        <3>2. \A class : ObjectMatchesClass(part, class) <=> Derived(part, class)
            BY <3>1, ClassTree
        <3> HIDE DEF Derived
        <3> QED
            BY <3>2 DEF Matches
    <2>9. Elements(Listed) = {part \in Objects : Owns(part) /\ Qualified(part)}
        <3> HIDE DEF list, Listed, Owns, Qualified
        <3> QED
            BY <2>1, <2>6, <2>7, <2>8
    <2> QED
        BY <1>3, <2>9
<1>4. CASE selector = "ControlList"
    <2> DEFINE list == IF scope = "input" THEN <<>> ELSE <<"volume", "mute">>
    <2>1. object = "device" /\ selector \notin CommonSelectors
        BY <1>2, <1>4 DEF CommonSelectors, OwnSelectors, PluginSelectors, StreamSelectors,
               ControlSelectors, Objects
    <2>2. GetDevicePropertyData(asked.address, State) = Data("ObjectID", list)
        BY <1>4 DEF GetDevicePropertyData
    <2>3. Len(list) = IF scope = "input" THEN 0 ELSE 2
        OBVIOUS
    <2>4. Listed = list
        <3> HIDE DEF list
        <3>1. /\ Data("ObjectID", list).status = "noErr" /\ Data("ObjectID", list).values = list
              /\ CopyData(Data("ObjectID", list), buffer) = Data("ObjectID", list)
            BY <2>3, ListCopied
        <3> QED
            BY <1>2, <2>1, <2>2, <3>1 DEF GetPropertyData
    <2>5. Elements(list) = IF scope = "input" THEN {} ELSE {"volume", "mute"}
        <3>1. Elements(<<>>) = {} /\ Elements(<<"volume", "mute">>) = {"volume", "mute"}
            BY DEF Elements
        <3> QED
            BY <3>1
    <2>6. \A part \in Objects : Owns(part) /\ Derived(part, "Control")
                                  <=> scope # "input" /\ part \in {"volume", "mute"}
        <3>1. \A part \in Objects : Derived(part, "Control") <=> part \in {"volume", "mute"}
            BY ClassTree
        <3> HIDE DEF Derived
        <3> QED
            BY <2>1, <3>1 DEF OwnerForObject, Objects
    <2>7. Elements(Listed) = {part \in Objects : Owns(part) /\ Derived(part, "Control")}
        <3> HIDE DEF list, Listed, Owns, Derived
        <3> QED
            BY <2>4, <2>5, <2>6 DEF Objects
    <2> QED
        BY <1>4, <2>7
<1>5. CASE selector = "Streams"
    <2> DEFINE list == IF scope = "input" THEN <<>> ELSE <<"stream">>
    <2>1. object = "device" /\ selector \notin CommonSelectors
        BY <1>2, <1>5 DEF CommonSelectors, OwnSelectors, PluginSelectors, StreamSelectors,
               ControlSelectors, Objects
    <2>2. GetDevicePropertyData(asked.address, State) = Data("ObjectID", list)
        BY <1>5 DEF GetDevicePropertyData
    <2>3. Len(list) = IF scope = "input" THEN 0 ELSE 1
        OBVIOUS
    <2>4. Listed = list
        <3> HIDE DEF list
        <3>1. /\ Data("ObjectID", list).status = "noErr" /\ Data("ObjectID", list).values = list
              /\ CopyData(Data("ObjectID", list), buffer) = Data("ObjectID", list)
            BY <2>3, ListCopied
        <3> QED
            BY <1>2, <2>1, <2>2, <3>1 DEF GetPropertyData
    <2>5. Elements(list) = IF scope = "input" THEN {} ELSE {"stream"}
        <3>1. Elements(<<>>) = {} /\ Elements(<<"stream">>) = {"stream"}
            BY DEF Elements
        <3> QED
            BY <3>1
    <2>6. \A part \in Objects : Owns(part) /\ Derived(part, "Stream")
                                  <=> scope # "input" /\ part = "stream"
        <3>1. \A part \in Objects : Derived(part, "Stream") <=> part = "stream"
            BY ClassTree
        <3> HIDE DEF Derived
        <3> QED
            BY <2>1, <3>1 DEF OwnerForObject, Objects
    <2>7. Elements(Listed) = {part \in Objects : Owns(part) /\ Derived(part, "Stream")}
        <3> HIDE DEF list, Listed, Owns, Derived
        <3> QED
            BY <2>4, <2>5, <2>6 DEF Objects
    <2> QED
        BY <1>5, <2>7
<1>6. CASE selector = "BaseClass"
    <2> DEFINE list == <<BaseClassForObject(object)>>
    <2>1. selector \in CommonSelectors
        BY <1>6 DEF CommonSelectors
    <2>2. GetCommonPropertyData(object, asked.address, qualifier) = Data("ClassID", list)
        BY <1>6 DEF GetCommonPropertyData
    <2>3. Len(list) = 1
        OBVIOUS
    <2> HIDE DEF list
    <2>4. /\ Data("ClassID", list).status = "noErr" /\ Data("ClassID", list).values = list
          /\ CopyData(Data("ClassID", list), buffer) = Data("ClassID", list)
        BY <2>3, ListCopied
    <2>5. Listed = list
        BY <1>2, <2>1, <2>2, <2>4 DEF GetPropertyData
    <2>6. BaseClassForObject(object) = Superclass[ClassForObject(object)]
        BY <1>2, ClassTree
    <2> QED
        BY <1>6, <2>5, <2>6 DEF list
<1> QED
    BY <1>3, <1>4, <1>5, <1>6

-----------------------------------------------------------------------------
(* Counting *)

(* Any part of the threads, and of the references they may take, is finite. *)
LEMMA ThreadsFinite ==
    /\ \A S \in SUBSET Threads : IsFiniteSet(S) /\ Cardinality(S) \in 0..Cardinality(Threads)
    /\ \A R \in SUBSET (Threads \X (1..MaxHeld)) : IsFiniteSet(R) /\ Cardinality(R) \in Nat
<1>1. ASSUME NEW S \in SUBSET Threads
      PROVE  IsFiniteSet(S) /\ Cardinality(S) \in 0..Cardinality(Threads)
    <2>1. IsFiniteSet(S) /\ Cardinality(S) <= Cardinality(Threads)
        BY FS_Subset
    <2> QED
        BY <2>1, FS_CardinalityType
<1>2. ASSUME NEW R \in SUBSET (Threads \X (1..MaxHeld))
      PROVE  IsFiniteSet(R) /\ Cardinality(R) \in Nat
    <2>1. IsFiniteSet(Threads \X (1..MaxHeld))
        <3>1. IsFiniteSet(1..MaxHeld)
            BY FS_Interval
        <3> QED
            BY <3>1, FS_Product
    <2>2. IsFiniteSet(R)
        BY <2>1, FS_Subset
    <2> QED
        BY <2>2, FS_CardinalityType
<1> QED
    BY <1>1, <1>2

(* One thread joins those that are counted, or leaves them. *)
LEMMA OneThread ==
    ASSUME NEW S \in SUBSET Threads, NEW t \in Threads
    PROVE  /\ t \notin S => Cardinality(S \union {t}) = Cardinality(S) + 1
           /\ t \in S => Cardinality(S \ {t}) = Cardinality(S) - 1
           /\ t \in S => Cardinality(S) > 0
<1>1. IsFiniteSet(S) /\ Cardinality(S) \in Nat
    BY ThreadsFinite
<1>2. t \in S => Cardinality(S) # 0
    BY <1>1, FS_EmptySet
<1>3. t \notin S => Cardinality(S \union {t}) = Cardinality(S) + 1
    BY <1>1, FS_AddElement
<1>4. t \in S => Cardinality(S \ {t}) = Cardinality(S) - 1
    BY <1>1, FS_RemoveElement
<1> QED
    BY <1>1, <1>2, <1>3, <1>4

(* The two counts are those of the named sets. *)
LEMMA CountsNamed ==
    CountsAreExact <=>
        /\ gRunningCount = Cardinality(CountedThreads)
        /\ gReferenceCount = 1 + Cardinality(References)
    BY DEF CountsAreExact, CountedThreads, References

-----------------------------------------------------------------------------
(* At first there is one reference, the driver's own, and nobody is called. *)
LEMMA InitInvariant == Init => IInv
<1> SUFFICES ASSUME Init PROVE IInv
    OBVIOUS
<1> USE DEF Init
<1>1. VolumeOnCurve /\ gVolumeScalar \in 0..1000
    BY CurveAssumption DEF VolumeOnCurve
<1>2. \A p \in Followed : seen[p] = Told(p)
    BY ReadValue
<1>3. \A p \in Followed : Told(p) \in Int
    <2>1. ScalarToDecibels(gVolumeScalar) \in Int
        BY <1>1, DecibelsInRange DEF VolumeOnCurve
    <2> QED
        BY <1>1, <2>1 DEF Told, Followed, Running, Active, Scalar, Decibel, Muted
<1>4. seen \in [Followed -> Int] /\ VolumeIsReadInRange
    <2>1. Scalar \in Followed /\ Decibel \in Followed
        BY DEF Followed
    <2>2. seen \in [Followed -> Int]
        BY <1>2, <1>3
    <2>3. seen[Scalar] = Told(Scalar) /\ seen[Decibel] = Told(Decibel)
        BY <1>2, <2>1
    <2> QED
        BY <1>1, <2>2, <2>3, ToldInRange DEF VolumeIsReadInRange
<1>5. Cardinality(Threads) \in Nat
    BY FS_CardinalityType
<1>6. TypeOK
    <2>1. /\ gReferenceCount \in Nat /\ gRunningCount \in 0..Cardinality(Threads)
          /\ gOutputStreamActive \in {0, 1} /\ gMute \in {0, 1}
        BY <1>5
    <2>2. /\ pc \in [Threads -> {"idle", "release", "reset", "stop", "lower", "announce"}]
          /\ client \in [Threads -> {"stopped", "starting", "running", "stopping"}]
        OBVIOUS
    <2>3. current \in [Threads -> Nat] /\ held \in [Threads -> 0..MaxHeld]
        OBVIOUS
    <2>4. changed \in [Threads -> SUBSET Followed]
        OBVIOUS
    <2>5. gHost \in BOOLEAN /\ writerActive \in BOOLEAN /\ asked \in Queries \union {Nothing}
        BY Zenon
    <2> QED
        BY <1>1, <1>4, <2>1, <2>2, <2>3, <2>4, <2>5, Zenon DEF TypeOK
<1>7. CountsAreExact
    <2>1. CountedThreads = {}
        BY DEF CountedThreads, Counted
    <2>2. References = {}
        BY DEF References
    <2> QED
        BY <2>1, <2>2, FS_EmptySet, CountsNamed
<1>8. CallShape /\ ActiveIsOwned
    BY DEF CallShape, ActiveIsOwned
<1>9. Informed
    BY <1>2 DEF Informed
<1> QED
    BY <1>1, <1>6, <1>7, <1>8, <1>9 DEF IInv

-----------------------------------------------------------------------------
(* A call keeps its shape.  A stop that nobody asked for loads a count of  *)
(* 0, one of a client that is counted a count that is not.                 *)
LEMMA StepShape == IInv /\ [Next]_vars => CallShape'
<1> SUFFICES ASSUME IInv, [Next]_vars PROVE CallShape'
    OBVIOUS
<1> USE DEF IInv, TypeOK, CallShape
<1>0. /\ gRunningCount = Cardinality(CountedThreads)
      /\ CountedThreads \in SUBSET Threads
    BY CountsNamed DEF CountedThreads
<1>1. CASE UNCHANGED <<pc, current, client, held>>
    BY <1>1
<1>2. ASSUME NEW t \in Threads, AddRef(t) \/ Release(t) PROVE CallShape'
    BY <1>2 DEF AddRef, Release, Idle, countVars, callVars, hostVars
<1>3. ASSUME NEW t \in Threads, ReleaseExchange(t) PROVE CallShape'
    BY <1>3 DEF ReleaseExchange
<1>4. ASSUME NEW t \in Threads, StartIO(t) PROVE CallShape'
    BY <1>4 DEF StartIO, Idle
<1>5. ASSUME NEW t \in Threads, StopIO(t) PROVE CallShape'
    <2>1. CASE client[t] = "running"
        <3>1. gRunningCount > 0
            BY <1>0, <2>1, OneThread DEF CountedThreads, Counted
        <3> QED
            BY <1>5, <2>1, <3>1 DEF StopIO, Idle
    <2>2. CASE \A u \in Threads : client[u] = "stopped"
        <3>1. CountedThreads = {}
            BY <2>2 DEF CountedThreads, Counted
        <3>2. gRunningCount = 0
            BY <1>0, <3>1, FS_EmptySet
        <3> QED
            BY <1>5, <2>2, <3>2 DEF StopIO, Idle
    <2> QED
        BY <1>5, <2>1, <2>2 DEF StopIO
<1>6. ASSUME NEW t \in Threads, StopExchange(t) PROVE CallShape'
    <2>1. client[t] = "stopping" /\ gRunningCount > 0
        <3>1. client[t] = "stopping" /\ pc[t] = "stop"
            BY <1>6 DEF StopExchange
        <3> QED
            BY <1>0, <3>1, OneThread DEF CountedThreads, Counted
    <2> QED
        BY <1>6, <2>1 DEF StopExchange
<1>7. ASSUME NEW t \in Threads, StopRefused(t) PROVE CallShape'
    BY <1>7 DEF StopRefused, hostVars
<1>8. ASSUME NEW t \in Threads,
             ResetSharedAudioStream(t) \/ LowerWriterActive(t)
      PROVE  CallShape'
    BY <1>8 DEF ResetSharedAudioStream, LowerWriterActive, Announces, hostVars
<1>9. ASSUME NEW t \in Threads, NEW differs \in BOOLEAN, NEW properties,
             Sets(t, differs, properties)
      PROVE  CallShape'
    BY <1>9 DEF Sets, Announces, Idle, hostVars
<1>10. ASSUME NEW t \in Threads, NEW value, SetActive(t, value) \/ SetMute(t, value)
       PROVE  CallShape'
    BY <1>9, <1>10 DEF SetActive, SetMute
<1>11. ASSUME NEW t \in Threads, NEW value, SetVolume(t, value) PROVE CallShape'
    BY <1>9, <1>11 DEF SetVolume
<1>12. ASSUME NEW t \in Threads, Notify(t) PROVE CallShape'
    BY <1>12 DEF Notify
<1>13. \/ Initialize \/ WriteMix \/ Answered \/ UNCHANGED vars
       \/ \E query \in Queries : Ask(query)
       => UNCHANGED <<pc, current, client, held>>
    BY DEF Initialize, WriteMix, Answered, Ask, vars, callVars, hostVars
<1> QED
    BY <1>1, <1>2, <1>3, <1>4, <1>5, <1>6, <1>7, <1>8, <1>10, <1>11, <1>12, <1>13
    DEF Next, CallStep

(* The counts stay with what they count. *)
LEMMA RunningStays ==
    ASSUME CountsAreExact, gRunningCount' = gRunningCount,
           \A u \in Threads : Counted(u)' <=> Counted(u)
    PROVE  gRunningCount' = Cardinality(CountedThreads')
<1>1. CountedThreads' = CountedThreads
    BY DEF CountedThreads
<1> QED
    BY <1>1, CountsNamed

LEMMA ReferencesStay ==
    ASSUME CountsAreExact, UNCHANGED <<gReferenceCount, held>>
    PROVE  gReferenceCount' = 1 + Cardinality(References')
<1>1. References' = References
    BY DEF References
<1> QED
    BY <1>1, CountsNamed

(* Each of the two counts is changed, with what it counts, by one atomic   *)
(* operation.                                                              *)
LEMMA StepRunning == IInv /\ [Next]_vars => gRunningCount' = Cardinality(CountedThreads')
<1> SUFFICES ASSUME IInv, [Next]_vars PROVE gRunningCount' = Cardinality(CountedThreads')
    OBVIOUS
<1> USE DEF IInv, TypeOK, CallShape
<1>0. /\ gRunningCount = Cardinality(CountedThreads) /\ gRunningCount \in Nat
      /\ CountedThreads \in SUBSET Threads
    BY CountsNamed DEF CountedThreads
<1> DEFINE Goal == gRunningCount' = Cardinality(CountedThreads')
<1>1. CASE UNCHANGED <<gRunningCount, client, pc>>
    BY <1>1, RunningStays DEF Counted
<1>2. ASSUME NEW t \in Threads, AddRef(t) \/ Release(t) \/ ReleaseExchange(t) PROVE Goal
    BY <1>2, RunningStays
    DEF AddRef, Release, ReleaseExchange, Idle, Counted, countVars, hostVars, callVars
<1>3. ASSUME NEW t \in Threads, StartIO(t) PROVE Goal
    <2>1. t \notin CountedThreads
        BY <1>3 DEF StartIO, CountedThreads, Counted
    <2>2. CountedThreads' = CountedThreads \union {t}
        BY <1>3 DEF StartIO, CountedThreads, Counted, Idle
    <2> QED
        BY <1>0, <1>3, <2>1, <2>2, OneThread DEF StartIO
<1>4. ASSUME NEW t \in Threads, StopIO(t) PROVE Goal
    <2>1. \A u \in Threads : Counted(u)' <=> Counted(u)
        BY <1>4 DEF StopIO, Counted, Idle
    <2> QED
        BY <1>4, <2>1, RunningStays DEF StopIO, countVars
<1>5. ASSUME NEW t \in Threads, StopExchange(t) PROVE Goal
    <2>1. CASE gRunningCount = current[t]
        <3>1. t \in CountedThreads
            BY <1>5 DEF StopExchange, CountedThreads, Counted
        <3>2. CountedThreads' = CountedThreads \ {t}
            BY <1>5, <2>1 DEF StopExchange, CountedThreads, Counted
        <3>3. Cardinality(CountedThreads') = Cardinality(CountedThreads) - 1
            BY <1>0, <3>1, <3>2, OneThread
        <3>4. gRunningCount' = gRunningCount - 1
            BY <1>5, <2>1 DEF StopExchange
        <3> QED
            BY <1>0, <3>3, <3>4
    <2>2. CASE gRunningCount # current[t]
        BY <1>5, <2>2, RunningStays DEF StopExchange, Counted
    <2> QED
        BY <2>1, <2>2
<1>6. ASSUME NEW t \in Threads,
             \/ StopRefused(t) \/ ResetSharedAudioStream(t) \/ LowerWriterActive(t)
      PROVE  Goal
    <2>1. \A u \in Threads : Counted(u)' <=> Counted(u)
        BY <1>6 DEF StopRefused, ResetSharedAudioStream, LowerWriterActive, Announces, Counted,
                    hostVars
    <2> QED
        BY <1>6, <2>1, RunningStays
        DEF StopRefused, ResetSharedAudioStream, LowerWriterActive, countVars
<1>7. ASSUME NEW t \in Threads, NEW differs \in BOOLEAN, NEW properties,
             Sets(t, differs, properties)
      PROVE  Goal
    BY <1>7, RunningStays DEF Sets, Announces, Idle, Counted, hostVars, countVars
<1>8. ASSUME NEW t \in Threads, NEW value, SetActive(t, value) \/ SetMute(t, value) PROVE Goal
    BY <1>7, <1>8 DEF SetActive, SetMute
<1>9. ASSUME NEW t \in Threads, NEW value, SetVolume(t, value) PROVE Goal
    BY <1>7, <1>9 DEF SetVolume
<1>10. ASSUME NEW t \in Threads, Notify(t) PROVE Goal
    <2>1. \A u \in Threads : Counted(u)' <=> Counted(u)
        BY <1>10 DEF Notify, Counted
    <2> QED
        BY <1>10, <2>1, RunningStays DEF Notify, countVars
<1>11. \/ Initialize \/ WriteMix \/ Answered \/ UNCHANGED vars
       \/ \E query \in Queries : Ask(query)
       => UNCHANGED <<gRunningCount, client, pc>>
    BY DEF Initialize, WriteMix, Answered, Ask, vars, countVars, callVars, hostVars
<1> QED
    BY <1>1, <1>2, <1>3, <1>4, <1>5, <1>6, <1>8, <1>9, <1>10, <1>11 DEF Next, CallStep

LEMMA StepReferences ==
    IInv /\ [Next]_vars => gReferenceCount' = 1 + Cardinality(References')
<1> SUFFICES ASSUME IInv, [Next]_vars PROVE gReferenceCount' = 1 + Cardinality(References')
    OBVIOUS
<1> USE DEF IInv, TypeOK, CallShape
<1>0. /\ gReferenceCount = 1 + Cardinality(References)
      /\ IsFiniteSet(References) /\ Cardinality(References) \in Nat
    BY CountsNamed, ThreadsFinite DEF References
<1> DEFINE Goal == gReferenceCount' = 1 + Cardinality(References')
<1>1. CASE UNCHANGED <<gReferenceCount, held>>
    BY <1>1, ReferencesStay
<1>2. ASSUME NEW t \in Threads, AddRef(t) PROVE Goal
    <2> DEFINE r == <<t, held[t] + 1>>
    <2>1. r \notin References
        BY DEF References
    <2>2. References' = References \union {r}
        <3>1. /\ held[t] + 1 \in 1..MaxHeld /\ held'[t] = held[t] + 1
              /\ \A u \in Threads : u # t => held'[u] = held[u]
            BY <1>2 DEF AddRef
        <3>2. \A u \in Threads, i \in 1..MaxHeld :
                 i <= held'[u] <=> i <= held[u] \/ <<u, i>> = r
            BY <3>1
        <3>3. r \in Threads \X (1..MaxHeld)
            BY <3>1
        <3> QED
            BY <3>2, <3>3 DEF References
    <2> HIDE DEF r
    <2>3. Cardinality(References') = Cardinality(References) + 1
        BY <1>0, <2>1, <2>2, FS_AddElement
    <2> QED
        BY <1>0, <1>2, <2>3 DEF AddRef
<1>3. ASSUME NEW t \in Threads, ReleaseExchange(t) PROVE Goal
    <2>1. CASE gReferenceCount = current[t]
        <3> DEFINE r == <<t, held[t]>>
        <3>1. r \in References
            BY <1>3 DEF ReleaseExchange, References
        <3>2. References' = References \ {r}
            BY <1>3, <2>1 DEF ReleaseExchange, References
        <3> HIDE DEF r
        <3>3. Cardinality(References') = Cardinality(References) - 1
            BY <1>0, <3>1, <3>2, FS_RemoveElement
        <3> QED
            BY <1>0, <1>3, <2>1, <3>3 DEF ReleaseExchange
    <2>2. CASE gReferenceCount # current[t]
        BY <1>1, <1>3, <2>2 DEF ReleaseExchange
    <2> QED
        BY <2>1, <2>2
<1>4. ASSUME NEW t \in Threads,
             \/ Release(t) \/ StartIO(t) \/ StopIO(t) \/ StopExchange(t) \/ StopRefused(t)
             \/ ResetSharedAudioStream(t) \/ LowerWriterActive(t) \/ Notify(t)
      PROVE  UNCHANGED <<gReferenceCount, held>>
    BY <1>4 DEF Release, StartIO, StopIO, StopExchange, StopRefused, ResetSharedAudioStream,
                LowerWriterActive, Notify, countVars, hostVars
<1>5. ASSUME NEW t \in Threads, NEW value,
             SetActive(t, value) \/ SetMute(t, value) \/ SetVolume(t, value)
      PROVE  UNCHANGED <<gReferenceCount, held>>
    BY <1>5 DEF SetActive, SetMute, SetVolume, Sets, countVars, hostVars
<1>6. \/ Initialize \/ WriteMix \/ Answered \/ UNCHANGED vars
      \/ \E query \in Queries : Ask(query)
      => UNCHANGED <<gReferenceCount, held>>
    BY DEF Initialize, WriteMix, Answered, Ask, vars, countVars, hostVars
<1> QED
    BY <1>1, <1>2, <1>3, <1>4, <1>5, <1>6 DEF Next, CallStep

-----------------------------------------------------------------------------
(* Types are kept, and the volume stays on the curve. *)
LEMMA StepTypes == IInv /\ [Next]_vars => TypeOK' /\ VolumeOnCurve'
<1> SUFFICES ASSUME IInv, [Next]_vars PROVE TypeOK' /\ VolumeOnCurve'
    OBVIOUS
<1>0. /\ gRunningCount' \in 0..Cardinality(Threads)
      /\ seen' = seen => VolumeIsReadInRange'
    <2>1. CountedThreads' \in SUBSET Threads
        BY DEF CountedThreads
    <2>2. gRunningCount' \in 0..Cardinality(Threads)
        BY <2>1, StepRunning, ThreadsFinite
    <2>3. seen' = seen => VolumeIsReadInRange'
        BY DEF IInv, TypeOK, VolumeIsReadInRange
    <2> QED
        BY <2>2, <2>3
<1> USE DEF IInv, TypeOK, CallShape, VolumeOnCurve
<1> DEFINE Goal == TypeOK' /\ VolumeOnCurve'
<1>1. ASSUME NEW t \in Threads, AddRef(t) PROVE Goal
    BY <1>0, <1>1 DEF AddRef, stateVars, callVars
<1>2. ASSUME NEW t \in Threads, Release(t) PROVE Goal
    BY <1>0, <1>2 DEF Release, countVars, stateVars, hostVars
<1>3. ASSUME NEW t \in Threads, ReleaseExchange(t) PROVE Goal
    BY <1>0, <1>3 DEF ReleaseExchange, stateVars
<1>4. ASSUME NEW t \in Threads, StartIO(t) PROVE Goal
    <2>1. /\ pc' \in [Threads -> {"idle", "release", "reset", "stop", "lower", "announce"}]
          /\ client' \in [Threads -> {"stopped", "starting", "running", "stopping"}]
        BY <1>4 DEF StartIO
    <2> QED
        BY <1>0, <1>4, <2>1 DEF StartIO, stateVars
<1>5. ASSUME NEW t \in Threads, StopIO(t) PROVE Goal
    BY <1>0, <1>5 DEF StopIO, countVars, stateVars
<1>6. ASSUME NEW t \in Threads, StopExchange(t) PROVE Goal
    <2>1. gRunningCount \in Nat
        OBVIOUS
    <2> QED
        BY <1>0, <1>6, <2>1 DEF StopExchange, stateVars
<1>7. ASSUME NEW t \in Threads, StopRefused(t) PROVE Goal
    BY <1>0, <1>7 DEF StopRefused, countVars, stateVars, hostVars
<1>8. ASSUME NEW t \in Threads, ResetSharedAudioStream(t) \/ LowerWriterActive(t) PROVE Goal
    <2>1. {Running} \in SUBSET Followed
        BY DEF Followed
    <2>2. /\ pc' = [pc EXCEPT ![t] = "announce"]
          /\ changed' = [changed EXCEPT ![t] = {Running}]
          /\ writerActive' = FALSE
          /\ UNCHANGED <<countVars, gHost, stateVars, current, hostVars>>
        BY <1>8 DEF ResetSharedAudioStream, LowerWriterActive, Announces
    <2> QED
        BY <1>0, <2>1, <2>2 DEF countVars, stateVars, hostVars
<1>9. ASSUME NEW t \in Threads, NEW differs \in BOOLEAN, NEW properties \in SUBSET Followed,
             Sets(t, differs, properties)
      PROVE  /\ gReferenceCount' \in Nat /\ gHost' \in BOOLEAN /\ writerActive' \in BOOLEAN
             /\ pc' \in [Threads -> {"idle", "release", "reset", "stop", "lower", "announce"}]
             /\ current' \in [Threads -> Nat]
             /\ changed' \in [Threads -> SUBSET Followed]
             /\ held' \in [Threads -> 0..MaxHeld]
             /\ client' \in [Threads -> {"stopped", "starting", "running", "stopping"}]
             /\ seen' \in [Followed -> Int]
             /\ VolumeIsReadInRange'
             /\ asked' \in Queries \union {Nothing}
    BY <1>0, <1>9 DEF Sets, Announces, countVars, hostVars
<1>10. ASSUME NEW t \in Threads, NEW value \in {0, 1}, SetActive(t, value) PROVE Goal
    BY <1>0, <1>9, <1>10 DEF SetActive, Followed
<1>11. ASSUME NEW t \in Threads, NEW value \in {0, 1}, SetMute(t, value) PROVE Goal
    BY <1>0, <1>9, <1>11 DEF SetMute, Followed
<1>12. ASSUME NEW t \in Threads, NEW value \in DOMAIN Logs \union {0}, SetVolume(t, value)
       PROVE  Goal
    <2>1. value \in 0..1000
        BY DecibelsInRange
    <2> QED
        BY <1>0, <1>9, <1>12, <2>1 DEF SetVolume, Followed
<1>13. ASSUME NEW t \in Threads, Notify(t) PROVE Goal
    <2>1. \A p \in Followed : Read(p, State) \in Int
        BY ReadValue, ToldIsNumber
    <2>2. seen' \in [Followed -> Int]
        BY <1>13, <2>1 DEF Notify
    <2>3. VolumeIsReadInRange'
        <3>1. Scalar \in Followed /\ Decibel \in Followed
            BY DEF Followed
        <3>2. /\ seen'[Scalar] \in {seen[Scalar], Read(Scalar, State)}
              /\ seen'[Decibel] \in {seen[Decibel], Read(Decibel, State)}
            BY <1>13, <3>1 DEF Notify
        <3>3. Read(Scalar, State) = Told(Scalar) /\ Read(Decibel, State) = Told(Decibel)
            BY <3>1, ReadValue
        <3>4. Told(Scalar) \in 0..1000 /\ Told(Decibel) \in -96..0
            BY ToldInRange
        <3>5. VolumeIsReadInRange
            OBVIOUS
        <3>6. seen[Scalar] \in 0..1000 /\ seen[Decibel] \in -96..0
            BY <3>5 DEF VolumeIsReadInRange
        <3>7. seen'[Scalar] \in 0..1000
            BY <3>2, <3>3, <3>4, <3>6
        <3>8. seen'[Decibel] \in -96..0
            BY <3>2, <3>3, <3>4, <3>6
        <3> QED
            BY <3>7, <3>8, Zenon DEF VolumeIsReadInRange
    <2> QED
        BY <1>0, <1>13, <2>2, <2>3 DEF Notify, countVars, stateVars
<1>14. CASE Initialize
    BY <1>0, <1>14 DEF Initialize, countVars, stateVars, callVars, hostVars
<1>18. CASE WriteMix
    BY <1>0, <1>18 DEF WriteMix, countVars, stateVars, callVars, hostVars
<1>19. CASE Answered
    BY <1>0, <1>19 DEF Answered, countVars, stateVars, callVars
<1>20. CASE UNCHANGED vars
    BY <1>0, <1>20 DEF vars, countVars, stateVars, callVars, hostVars
<1>15. ASSUME NEW query \in Queries, Ask(query) PROVE Goal
    BY <1>0, <1>15 DEF Ask, countVars, stateVars, callVars
<1>16. ASSUME NEW t \in Threads, NEW raw \in RawScalars, SetVolume(t, ClampScalar(raw))
       PROVE  Goal
    BY <1>12, <1>16, SetIsOnCurve
<1>17. ASSUME NEW t \in Threads, NEW raw \in RawDecibels, SetVolume(t, DecibelsToScalar(raw))
       PROVE  Goal
    BY <1>12, <1>17, SetIsOnCurve
<1> HIDE DEF IInv, TypeOK, CallShape, VolumeOnCurve
<1>21. ASSUME NEW t \in Threads, CallStep(t) PROVE Goal
    BY <1>3, <1>6, <1>7, <1>8, <1>13, <1>21 DEF CallStep
<1>22. ASSUME NEW t \in Threads,
              \/ \E value \in {0, 1} : SetActive(t, value) \/ SetMute(t, value)
              \/ \E raw \in RawScalars : SetVolume(t, ClampScalar(raw))
              \/ \E raw \in RawDecibels : SetVolume(t, DecibelsToScalar(raw))
       PROVE  Goal
    BY <1>10, <1>11, <1>16, <1>17, <1>22
<1> QED
    BY <1>1, <1>2, <1>4, <1>5, <1>14, <1>15, <1>18, <1>19, <1>20, <1>21, <1>22 DEF Next

-----------------------------------------------------------------------------
(* A thread that takes a step keeps the host informed if it goes on to     *)
(* tell of what it changes.                                                *)
LEMMA StaysInformed ==
    ASSUME Informed, NEW t \in Threads, seen' = seen,
           \A u \in Threads \ {t} : pc'[u] = pc[u] /\ changed'[u] = changed[u],
           \A p \in Followed : Tells(t, p) \/ Told(p)' # Told(p) => Tells(t, p)'
    PROVE  Informed'
<1> SUFFICES ASSUME NEW p \in Followed
             PROVE  seen'[p] = Told(p)' \/ \E u \in Threads : Tells(u, p)'
    BY DEF Informed
<1>1. CASE Told(p)' # Told(p)
    BY <1>1
<1>2. CASE Told(p)' = Told(p) /\ seen[p] = Told(p)
    BY <1>2
<1>3. ASSUME NEW u \in Threads, Tells(u, p) PROVE Tells(u, p)' \/ Tells(t, p)'
    <2>1. CASE u = t
        BY <1>3, <2>1
    <2>2. CASE u # t
        BY <1>3, <2>2 DEF Tells
    <2> QED
        BY <2>1, <2>2
<1> QED
    BY <1>1, <1>2, <1>3 DEF Informed

(* The host is kept informed: the thread whose step changes what a         *)
(* property reads goes on to announce it, and what Notify reads is the     *)
(* latest.                                                                 *)
LEMMA StepInformed == IInv /\ [Next]_vars => Informed'
<1> SUFFICES ASSUME IInv, [Next]_vars PROVE Informed'
    OBVIOUS
<1>0. /\ pc \in [Threads -> {"idle", "release", "reset", "stop", "lower", "announce"}]
      /\ changed \in [Threads -> SUBSET Followed]
      /\ gRunningCount \in Nat /\ Informed
    BY DEF IInv, TypeOK
<1> DEFINE Elsewhere(t) ==
               /\ seen' = seen
               /\ \A u \in Threads \ {t} : pc'[u] = pc[u] /\ changed'[u] = changed[u]
<1>1. ASSUME NEW t \in Threads, Elsewhere(t), pc[t] \notin {"announce", "reset", "lower"},
             UNCHANGED <<gRunningCount, stateVars>>
      PROVE  Informed'
    <2>1. \A p \in Followed : Told(p)' = Told(p)
        BY <1>1, ToldStays DEF stateVars
    <2>2. \A p \in Followed : ~ Tells(t, p)
        BY <1>1 DEF Tells
    <2> QED
        BY <1>0, <1>1, <2>1, <2>2, StaysInformed
<1>2. ASSUME UNCHANGED <<gRunningCount, stateVars, pc, changed, seen>> PROVE Informed'
    <2>1. \A p \in Followed : Told(p)' = Told(p)
        BY <1>2, ToldStays DEF stateVars
    <2>2. \A t \in Threads, p \in Followed : Tells(t, p)' <=> Tells(t, p)
        BY <1>2 DEF Tells
    <2> QED
        BY <1>0, <1>2, <2>1, <2>2 DEF Informed
<1>3. ASSUME NEW t \in Threads, AddRef(t) PROVE Informed'
    BY <1>2, <1>3 DEF AddRef, callVars
<1>4. ASSUME NEW t \in Threads, Release(t) \/ StopIO(t) PROVE Informed'
    <2>1. Elsewhere(t) /\ pc[t] = "idle" /\ UNCHANGED <<gRunningCount, stateVars>>
        BY <1>0, <1>4 DEF Release, StopIO, Idle, countVars, hostVars
    <2> QED
        BY <1>1, <2>1
<1>5. ASSUME NEW t \in Threads, ReleaseExchange(t) PROVE Informed'
    <2>1. Elsewhere(t) /\ pc[t] = "release" /\ UNCHANGED <<gRunningCount, stateVars>>
        BY <1>0, <1>5 DEF ReleaseExchange
    <2> QED
        BY <1>1, <2>1
<1>6. ASSUME NEW t \in Threads, StopRefused(t) PROVE Informed'
    <2>1. Elsewhere(t) /\ pc[t] = "stop" /\ UNCHANGED <<gRunningCount, stateVars>>
        BY <1>0, <1>6 DEF StopRefused, countVars, hostVars
    <2> QED
        BY <1>1, <2>1
<1>7. ASSUME NEW t \in Threads, Elsewhere(t), UNCHANGED stateVars,
             pc[t] \in {"idle", "stop"},
             (gRunningCount' > 0 <=> gRunningCount > 0) \/ pc'[t] \in {"reset", "lower"}
      PROVE  Informed'
    <2>1. \A p \in Followed : ~ Tells(t, p)
        BY <1>7 DEF Tells
    <2>2. \A p \in Followed : Told(p)' # Told(p) => p = Running /\ pc'[t] \in {"reset", "lower"}
        BY <1>7, ToldStays DEF stateVars
    <2>3. \A p \in Followed : Told(p)' # Told(p) => Tells(t, p)'
        BY <2>2 DEF Tells, Running
    <2> QED
        BY <1>0, <1>7, <2>1, <2>3, StaysInformed
<1>8. ASSUME NEW t \in Threads, StartIO(t) PROVE Informed'
    <2>1. Elsewhere(t) /\ pc[t] = "idle" /\ UNCHANGED stateVars
        BY <1>0, <1>8 DEF StartIO, Idle
    <2>2. (gRunningCount' > 0 <=> gRunningCount > 0) \/ pc'[t] = "reset"
        BY <1>0, <1>8 DEF StartIO
    <2> QED
        BY <1>7, <2>1, <2>2
<1>9. ASSUME NEW t \in Threads, StopExchange(t) PROVE Informed'
    <2>1. Elsewhere(t) /\ pc[t] = "stop" /\ UNCHANGED stateVars
        BY <1>0, <1>9 DEF StopExchange
    <2>2. (gRunningCount' > 0 <=> gRunningCount > 0) \/ pc'[t] = "lower"
        <3>1. current[t] \in Nat
            BY DEF IInv, TypeOK
        <3> QED
            BY <1>0, <1>9, <3>1 DEF StopExchange
    <2> QED
        BY <1>7, <2>1, <2>2
<1>10. ASSUME NEW t \in Threads, ResetSharedAudioStream(t) \/ LowerWriterActive(t)
       PROVE  Informed'
    <2>1. /\ Elsewhere(t) /\ pc[t] \in {"reset", "lower"}
          /\ pc'[t] = "announce" /\ changed'[t] = {Running}
          /\ UNCHANGED <<gRunningCount, stateVars>>
        BY <1>0, <1>10 DEF ResetSharedAudioStream, LowerWriterActive, Announces, countVars,
                           hostVars
    <2>2. \A p \in Followed : Told(p)' = Told(p)
        BY <2>1, ToldStays DEF stateVars
    <2>3. \A p \in Followed : Tells(t, p) => Tells(t, p)'
        BY <2>1 DEF Tells
    <2> QED
        BY <1>0, <2>1, <2>2, <2>3, StaysInformed
<1>11. ASSUME NEW t \in Threads, NEW differs \in BOOLEAN, NEW properties \in SUBSET Followed,
              Sets(t, differs, properties),
              \A p \in Followed : Told(p)' # Told(p) => differs /\ p \in properties
       PROVE  Informed'
    <2>1. /\ Elsewhere(t) /\ pc[t] = "idle"
          /\ differs => pc'[t] = "announce" /\ changed'[t] = properties
        BY <1>0, <1>11 DEF Sets, Announces, Idle, hostVars
    <2>2. \A p \in Followed : Told(p)' # Told(p) => Tells(t, p)'
        BY <1>11, <2>1 DEF Tells
    <2>3. \A p \in Followed : ~ Tells(t, p)
        BY <2>1 DEF Tells
    <2> QED
        BY <1>0, <2>1, <2>2, <2>3, StaysInformed
<1>12. ASSUME NEW t \in Threads, NEW value, SetActive(t, value) PROVE Informed'
    <2>1. /\ Sets(t, gOutputStreamActive # value, {Active})
          /\ gOutputStreamActive' = value /\ UNCHANGED <<gVolumeScalar, gMute, gRunningCount>>
        BY <1>12 DEF SetActive, Sets, countVars
    <2>2. \A p \in Followed : Told(p)' # Told(p) => p = Active /\ gOutputStreamActive # value
        BY <2>1, ToldStays
    <2> QED
        BY <1>11, <2>1, <2>2 DEF Followed
<1>13. ASSUME NEW t \in Threads, NEW value, SetMute(t, value) PROVE Informed'
    <2>1. /\ Sets(t, gMute # value, {Muted})
          /\ gMute' = value /\ UNCHANGED <<gVolumeScalar, gOutputStreamActive, gRunningCount>>
        BY <1>13 DEF SetMute, Sets, countVars
    <2>2. \A p \in Followed : Told(p)' # Told(p) => p = Muted /\ gMute # value
        BY <2>1, ToldStays
    <2> QED
        BY <1>11, <2>1, <2>2 DEF Followed
<1>14. ASSUME NEW t \in Threads, NEW value, SetVolume(t, value) PROVE Informed'
    <2>1. /\ Sets(t, gVolumeScalar # value, {Scalar, Decibel})
          /\ gVolumeScalar' = value /\ UNCHANGED <<gMute, gOutputStreamActive, gRunningCount>>
        BY <1>14 DEF SetVolume, Sets, countVars
    <2>2. \A p \in Followed :
             Told(p)' # Told(p) => p \in {Scalar, Decibel} /\ gVolumeScalar # value
        BY <2>1, ToldStays
    <2> QED
        BY <1>11, <2>1, <2>2 DEF Followed
<1>15. ASSUME NEW t \in Threads, Notify(t) PROVE Informed'
    <2>1. /\ pc[t] = "announce"
          /\ \A u \in Threads \ {t} : pc'[u] = pc[u] /\ changed'[u] = changed[u]
          /\ UNCHANGED <<gRunningCount, stateVars>>
        BY <1>0, <1>15 DEF Notify, countVars
    <2>2. \A p \in Followed : Told(p)' = Told(p)
        BY <2>1, ToldStays DEF stateVars
    <2> SUFFICES ASSUME NEW p \in Followed
                 PROVE  seen'[p] = Told(p)' \/ \E u \in Threads : Tells(u, p)'
        BY DEF Informed
    <2>3. CASE p \in changed[t]
        <3>1. seen'[p] = Read(p, State)
            BY <1>15, <2>3 DEF Notify
        <3> QED
            BY <2>2, <3>1, ReadValue
    <2>4. CASE p \notin changed[t]
        <3>1. seen'[p] = seen[p]
            BY <1>15, <2>4 DEF Notify
        <3>2. ~ Tells(t, p)
            BY <2>1, <2>4 DEF Tells
        <3>3. \A u \in Threads \ {t} : Tells(u, p) => Tells(u, p)'
            BY <2>1 DEF Tells
        <3> QED
            BY <1>0, <2>2, <3>1, <3>2, <3>3 DEF Informed
    <2> QED
        BY <2>3, <2>4
<1>16. \/ Initialize \/ WriteMix \/ Answered \/ UNCHANGED vars
       \/ \E query \in Queries : Ask(query)
       => UNCHANGED <<gRunningCount, stateVars, pc, changed, seen>>
    BY DEF Initialize, WriteMix, Answered, Ask, vars, countVars, callVars, hostVars
<1> QED
    BY <1>2, <1>3, <1>4, <1>5, <1>6, <1>8, <1>9, <1>10, <1>12, <1>13, <1>14, <1>15, <1>16
    DEF Next, CallStep

(* writerActive is raised only for a client that runs, and the one that    *)
(* ends the last one's run lowers it.                                      *)
LEMMA StepActive == IInv /\ [Next]_vars => ActiveIsOwned'
<1> SUFFICES ASSUME IInv, [Next]_vars PROVE ActiveIsOwned'
    OBVIOUS
<1>0. /\ pc \in [Threads -> {"idle", "release", "reset", "stop", "lower", "announce"}]
      /\ gRunningCount \in Nat /\ ActiveIsOwned
    BY DEF IInv, TypeOK
<1>1. ASSUME NEW t \in Threads, pc[t] \notin {"reset", "lower"},
             \A u \in Threads \ {t} : pc'[u] = pc[u],
             UNCHANGED <<gRunningCount, writerActive>>
      PROVE  ActiveIsOwned'
    BY <1>0, <1>1 DEF ActiveIsOwned
<1>2. ASSUME UNCHANGED <<gRunningCount, writerActive, pc>> PROVE ActiveIsOwned'
    BY <1>0, <1>2 DEF ActiveIsOwned
<1>3. ASSUME NEW t \in Threads,
             AddRef(t) \/ Release(t) \/ ReleaseExchange(t) \/ StopIO(t) \/ StopRefused(t)
      PROVE  ActiveIsOwned'
    <2>1. /\ pc[t] \notin {"reset", "lower"}
          /\ \A u \in Threads \ {t} : pc'[u] = pc[u]
          /\ UNCHANGED <<gRunningCount, writerActive>>
        BY <1>0, <1>3 DEF AddRef, Release, ReleaseExchange, StopIO, StopRefused, Idle,
                          countVars, callVars
    <2> QED
        BY <1>1, <2>1
<1>4. ASSUME NEW t \in Threads, StartIO(t) PROVE ActiveIsOwned'
    BY <1>0, <1>4 DEF StartIO, ActiveIsOwned
<1>5. ASSUME NEW t \in Threads, StopExchange(t) PROVE ActiveIsOwned'
    <2>1. current[t] \in Nat
        BY DEF IInv, TypeOK
    <2>2. CASE gRunningCount = current[t] /\ current[t] = 1
        BY <1>0, <1>5, <2>2 DEF StopExchange, ActiveIsOwned
    <2>3. CASE gRunningCount = current[t] /\ current[t] > 1
        BY <1>0, <1>5, <2>3 DEF StopExchange, ActiveIsOwned
    <2>4. CASE gRunningCount # current[t]
        BY <1>2, <1>5, <2>4 DEF StopExchange
    <2> QED
        BY <1>5, <2>1, <2>2, <2>3, <2>4 DEF StopExchange
<1>6. ASSUME NEW t \in Threads, ResetSharedAudioStream(t) \/ LowerWriterActive(t)
      PROVE  ActiveIsOwned'
    BY <1>6 DEF ResetSharedAudioStream, LowerWriterActive, ActiveIsOwned
<1>7. ASSUME NEW t \in Threads, NEW differs \in BOOLEAN, NEW properties,
             Sets(t, differs, properties)
      PROVE  ActiveIsOwned'
    <2>1. /\ pc[t] \notin {"reset", "lower"}
          /\ \A u \in Threads \ {t} : pc'[u] = pc[u]
          /\ UNCHANGED <<gRunningCount, writerActive>>
        BY <1>0, <1>7 DEF Sets, Announces, Idle, countVars
    <2> QED
        BY <1>1, <2>1
<1>8. ASSUME NEW t \in Threads, NEW value, SetActive(t, value) \/ SetMute(t, value)
      PROVE  ActiveIsOwned'
    BY <1>7, <1>8 DEF SetActive, SetMute
<1>9. ASSUME NEW t \in Threads, NEW value, SetVolume(t, value) PROVE ActiveIsOwned'
    BY <1>7, <1>9 DEF SetVolume
<1>10. ASSUME NEW t \in Threads, Notify(t) PROVE ActiveIsOwned'
    <2>1. /\ pc[t] \notin {"reset", "lower"}
          /\ \A u \in Threads \ {t} : pc'[u] = pc[u]
          /\ UNCHANGED <<gRunningCount, writerActive>>
        BY <1>0, <1>10 DEF Notify, countVars
    <2> QED
        BY <1>1, <2>1
<1>11. CASE WriteMix
    <2>1. PICK t \in Threads : client[t] = "running"
        BY <1>11 DEF WriteMix
    <2>2. t \in CountedThreads /\ CountedThreads \in SUBSET Threads
        BY <2>1 DEF CountedThreads, Counted
    <2>3. gRunningCount > 0
        BY <2>2, OneThread, CountsNamed DEF IInv
    <2> QED
        BY <1>11, <2>3 DEF WriteMix, countVars, ActiveIsOwned
<1>12. \/ Initialize \/ Answered \/ UNCHANGED vars
       \/ \E query \in Queries : Ask(query)
       => UNCHANGED <<gRunningCount, writerActive, pc>>
    BY DEF Initialize, Answered, Ask, vars, countVars, callVars
<1> QED
    BY <1>2, <1>3, <1>4, <1>5, <1>6, <1>8, <1>9, <1>10, <1>11, <1>12 DEF Next, CallStep

-----------------------------------------------------------------------------
(* The strengthened invariant holds in every reachable state. *)
THEOREM Invariance == Spec => []IInv
<1>1. IInv /\ [Next]_vars => IInv'
    <2> SUFFICES ASSUME IInv, [Next]_vars PROVE IInv'
        OBVIOUS
    <2>1. CountsAreExact'
        BY StepRunning, StepReferences DEF CountsAreExact, CountedThreads, References
    <2> QED
        BY <2>1, StepTypes, StepShape, StepInformed, StepActive DEF IInv
<1> QED
    BY InitInvariant, <1>1, PTL DEF Spec

(* Every variable keeps its type: neither counter wraps below 0, and the   *)
(* running count never exceeds the number of clients.                      *)
THEOREM DeviceTypes == Spec => []TypeOK
<1>1. IInv => TypeOK
    BY DEF IInv
<1> QED
    BY Invariance, <1>1, PTL

(* Calls on any number of threads lose no count and invent none. *)
THEOREM ExactCounts == Spec => []CountsAreExact
<1>1. IInv => CountsAreExact
    BY DEF IInv
<1> QED
    BY Invariance, <1>1, PTL

(* Whenever no call is under way the host knows the value of every         *)
(* property it follows.                                                    *)
THEOREM HostIsCurrent == Spec => []SettledHostIsCurrent
<1>1. IInv => SettledHostIsCurrent
    <2> SUFFICES ASSUME IInv, Quiet, NEW p \in Followed PROVE seen[p] = Read(p, State)
        BY DEF SettledHostIsCurrent
    <2>1. \A t \in Threads : ~ Tells(t, p)
        BY DEF Quiet, Idle, Tells
    <2> QED
        BY <2>1, ReadValue DEF IInv, Informed
<1> QED
    BY Invariance, <1>1, PTL

(* After the last stop, on whichever threads the calls overlapped,         *)
(* writerActive is down.                                                   *)
THEOREM IdleIsInactive == Spec => []IdleDeviceIsInactive
<1>1. IInv => IdleDeviceIsInactive
    BY DEF IInv, ActiveIsOwned, IdleDeviceIsInactive, Quiet, Idle
<1> QED
    BY Invariance, <1>1, PTL

(* Whatever property is asked for or set, in whatever scope, with whatever *)
(* qualifier and buffer: the five switches of the driver agree about it.   *)
THEOREM SwitchesAgreeing == Spec => []SwitchesAgree
<1>1. SwitchesAgree
    BY SizesHonest, SettableHonest DEF SwitchesAgree
<1> QED
    BY <1>1, PTL

(* Whatever classes are asked for: the lists of objects, their owners and  *)
(* their classes describe one tree.                                        *)
THEOREM OneTree == Spec => []TreeIsConsistent
<1> QED
    BY TreeConsistent, PTL
=============================================================================
