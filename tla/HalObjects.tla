------------------------------ MODULE HalObjects ------------------------------
(***************************************************************************)
(* The driver's object model: what driver/SoundVolumeControl.c answers the *)
(* audio server about its plug-in, its device and the device's stream and  *)
(* two controls.  The code keeps one switch for which properties there     *)
(* are, one for the scopes they have, one for which can be set, one for    *)
(* the sizes and one for the values; so does this module.                  *)
(*                                                                         *)
(* An address is [selector, scope, element]; selectors carry the names of  *)
(* their constants, and two constants of one value (the latency of devices *)
(* and of streams) one name.  A qualifier is [size, given, items]: its     *)
(* bytes, whether there is data, and the classes or the UID in it.         *)
(* Decibels are whole, scalars in thousandths.                             *)
(***************************************************************************)
EXTENDS Integers, Sequences

(* libm (external), in tables of what is considered; neither undoes the    *)
(* rounding of the other.                                                  *)
CONSTANTS
    Logs,       \* 40 * log10f(scalar)
    Powers      \* powf(10, decibels / 40)

ASSUME CurveAssumption ==
    /\ DOMAIN Logs \subseteq 1..1000 /\ 1000 \in DOMAIN Logs
    /\ \A s \in DOMAIN Logs : Logs[s] \in Int /\ Logs[s] <= 0
    /\ \A decibels \in DOMAIN Powers : Powers[decibels] \in DOMAIN Logs

Objects == {"plugin", "device", "stream", "volume", "mute"}
Scopes == {"global", "input", "output"}

-----------------------------------------------------------------------------
(* The volume curve *)

Infinity == 100001
NaN == 100002
IsFinite(x) == x \notin {NaN, Infinity, -Infinity}

ClampScalar(value) ==
    IF ~ IsFinite(value) \/ value <= 0 THEN 0 ELSE IF value >= 1000 THEN 1000 ELSE value

ScalarToDecibels(value) ==
    LET scalar == ClampScalar(value)
    IN IF scalar = 0 \/ Logs[scalar] < -96 THEN -96 ELSE Logs[scalar]

DecibelsToScalar(decibels) ==
    IF decibels = NaN \/ decibels <= -96 THEN 0
    ELSE IF decibels >= 0 THEN 1000
    ELSE Powers[decibels]

-----------------------------------------------------------------------------
(* Which objects there are *)

BaseClassForObject(object) ==
    CASE object = "volume" -> "LevelControl"
      [] object = "mute" -> "BooleanControl"
      [] OTHER -> "Object"

ClassForObject(object) ==
    CASE object = "plugin" -> "PlugIn"
      [] object = "device" -> "Device"
      [] object = "stream" -> "Stream"
      [] object = "volume" -> "VolumeControl"
      [] object = "mute" -> "MuteControl"

OwnerForObject(object) ==
    CASE object = "device" -> "plugin"
      [] object \in {"stream", "volume", "mute"} -> "device"
      [] OTHER -> "unknown"

(* Mutant: a control is not found by the class of all controls. *)
ObjectMatchesBaseOnly(object, class) ==
    class \in {"Object", ClassForObject(object), BaseClassForObject(object)}

ObjectMatchesClass(object, class) ==
    \/ class \in {"Object", ClassForObject(object)}
    \/ object = "volume" /\ class \in {"LevelControl", "Control"}
    \/ object = "mute" /\ class \in {"BooleanControl", "Control"}

BadQualifier(qualifier) ==
    qualifier.size % 4 # 0 \/ (qualifier.size > 0 /\ ~ qualifier.given)

FilteredOwnedObjects(object, scope, qualifier) ==
    LET Matching(candidate) ==
            IF \/ qualifier.size = 0
               \/ \E i \in DOMAIN qualifier.items :
                     ObjectMatchesClass(candidate, qualifier.items[i])
            THEN <<candidate>> ELSE <<>>
    IN CASE object = "plugin" -> Matching("device")
         [] object = "device" /\ scope \in {"global", "output"} ->
               Matching("stream") \o Matching("volume") \o Matching("mute")
         [] OTHER -> <<>>

-----------------------------------------------------------------------------
(* Which properties there are *)

CommonSelectors ==
    {"BaseClass", "Class", "Owner", "Name", "Manufacturer", "OwnedObjects",
     "CustomPropertyInfoList"}

PluginSelectors ==
    {"BundleID", "DeviceList", "TranslateUIDToDevice", "BoxList", "TranslateUIDToBox",
     "ClockDeviceList", "TranslateUIDToClockDevice", "ResourceBundle"}

DeviceSelectors ==
    {"DeviceUID", "ModelUID", "TransportType", "RelatedDevices", "ClockDomain",
     "DeviceIsAlive", "DeviceIsRunning", "DeviceCanBeDefaultDevice",
     "DeviceCanBeDefaultSystemDevice", "Latency", "Streams", "ControlList",
     "SafetyOffset", "NominalSampleRate", "ActualSampleRate",
     "AvailableNominalSampleRates", "IsHidden", "PreferredChannelsForStereo", "HogMode",
     "BufferFrameSize", "BufferFrameSizeRange", "IOCycleUsage", "StreamConfiguration",
     "ZeroTimeStampPeriod", "ClockAlgorithm", "ClockIsStable"}

StreamSelectors ==
    {"IsActive", "Direction", "TerminalType", "StartingChannel", "Latency",
     "VirtualFormat", "AvailableVirtualFormats", "PhysicalFormat",
     "AvailablePhysicalFormats"}

ControlSelectors(object) ==
    {"ControlScope", "ControlElement"} \union
    IF object = "volume"
    THEN {"ScalarValue", "DecibelValue", "DecibelRange", "ConvertScalarToDecibels",
          "ConvertDecibelsToScalar"}
    ELSE {"BooleanValue"}

Selectors ==
    UNION {CommonSelectors, PluginSelectors, DeviceSelectors, StreamSelectors,
           ControlSelectors("volume"), ControlSelectors("mute")}

(* The scopes in which a selector of an object may be asked for. *)
ValidScopes(object, selector) ==
    IF object # "device" THEN {"global"}
    ELSE CASE selector = "NominalSampleRate" -> {"global", "output"}
           [] selector \in {"OwnedObjects", "Latency", "Streams", "ControlList", "SafetyOffset",
                            "PreferredChannelsForStereo", "StreamConfiguration"} -> Scopes
           [] selector = "DeviceCanBeDefaultDevice" -> {"input", "output"}
           [] selector = "DeviceCanBeDefaultSystemDevice" -> {"output"}
           [] OTHER -> {"global"}

IsValidAddress(object, address) ==
    address.element = "main" /\ address.scope \in ValidScopes(object, address.selector)

OwnSelectors(object) ==
    CASE object = "plugin" -> PluginSelectors
      [] object = "device" -> DeviceSelectors
      [] object = "stream" -> StreamSelectors
      [] OTHER -> ControlSelectors(object)

HasProperty(object, address) ==
    /\ object \in Objects
    /\ IsValidAddress(object, address)
    /\ address.selector \in CommonSelectors \union OwnSelectors(object)

(* Mutant: the selector of the muted state is missing. *)
SettableSelectorsNoMute(object) ==
    CASE object = "stream" -> {"IsActive", "VirtualFormat", "PhysicalFormat"}
      [] object = "device" -> {"NominalSampleRate"}
      [] object = "volume" -> {"ScalarValue", "DecibelValue"}
      [] OTHER -> {}

SettableSelectors(object) ==
    CASE object = "stream" -> {"IsActive", "VirtualFormat", "PhysicalFormat"}
      [] object = "device" -> {"NominalSampleRate"}
      [] object = "volume" -> {"ScalarValue", "DecibelValue"}
      [] object = "mute" -> {"BooleanValue"}
      [] OTHER -> {}

(* The status of a call that needs the property to be there. *)
Presence(object, address) ==
    IF object \notin Objects THEN "BadObject"
    ELSE IF ~ HasProperty(object, address) THEN "UnknownProperty" ELSE "noErr"

IsPropertySettable(object, address) ==
    [status |-> Presence(object, address),
     settable |-> address.selector \in SettableSelectors(object)]

-----------------------------------------------------------------------------
(* How large they are *)

SizeOf ==
    [UInt32 |-> 4, Float32 |-> 4, ClassID |-> 4, ObjectID |-> 4, pid |-> 4, Float64 |-> 8,
     CFString |-> 8, ValueRange |-> 16, BufferList |-> 24, Format |-> 40,
     RangedFormat |-> 56]

Unknown == [status |-> "UnknownProperty", size |-> 0]
Sized(size) == [status |-> "noErr", size |-> size]

CommonPropertyDataSize(object, address, qualifier) ==
    LET owned == Len(FilteredOwnedObjects(object, address.scope, qualifier))
    IN CASE address.selector \in {"BaseClass", "Class"} -> Sized(SizeOf.ClassID)
         [] address.selector = "Owner" -> Sized(SizeOf.ObjectID)
         [] address.selector \in {"Name", "Manufacturer"} -> Sized(SizeOf.CFString)
         [] address.selector = "OwnedObjects" ->
               IF BadQualifier(qualifier) THEN [status |-> "BadPropertySize", size |-> 0]
               ELSE Sized(owned * SizeOf.ObjectID)
         [] address.selector = "CustomPropertyInfoList" -> Sized(0)
         [] OTHER -> Unknown

PluginPropertyDataSize(selector) ==
    CASE selector \in {"BundleID", "ResourceBundle"} -> Sized(SizeOf.CFString)
      [] selector \in {"DeviceList", "TranslateUIDToDevice", "TranslateUIDToBox",
                       "TranslateUIDToClockDevice"} -> Sized(SizeOf.ObjectID)
      [] selector \in {"BoxList", "ClockDeviceList"} -> Sized(0)
      [] OTHER -> Unknown

DevicePropertyDataSize(address) ==
    LET selector == address.selector
        Unless(scope, size) == Sized(IF address.scope = scope THEN 0 ELSE size)
    IN CASE selector \in {"DeviceUID", "ModelUID"} -> Sized(SizeOf.CFString)
         [] selector \in {"TransportType", "ClockDomain", "DeviceIsAlive",
                          "DeviceIsRunning", "DeviceCanBeDefaultDevice",
                          "DeviceCanBeDefaultSystemDevice", "Latency", "SafetyOffset",
                          "IsHidden", "BufferFrameSize", "ZeroTimeStampPeriod",
                          "ClockAlgorithm", "ClockIsStable"} -> Sized(SizeOf.UInt32)
         [] selector = "HogMode" -> Sized(SizeOf.pid)
         [] selector = "RelatedDevices" -> Sized(SizeOf.ObjectID)
         [] selector = "Streams" -> Unless("input", SizeOf.ObjectID)
         [] selector = "ControlList" -> Unless("input", 2 * SizeOf.ObjectID)
         [] selector \in {"NominalSampleRate", "ActualSampleRate"} -> Sized(SizeOf.Float64)
         [] selector \in {"AvailableNominalSampleRates", "BufferFrameSizeRange"} ->
               Sized(SizeOf.ValueRange)
         [] selector = "PreferredChannelsForStereo" -> Sized(2 * SizeOf.UInt32)
         [] selector = "IOCycleUsage" -> Sized(SizeOf.Float32)
         [] selector = "StreamConfiguration" -> Sized(SizeOf.BufferList)
         [] OTHER -> Unknown

StreamPropertyDataSize(selector) ==
    CASE selector \in {"IsActive", "Direction", "TerminalType", "StartingChannel",
                       "Latency"} -> Sized(SizeOf.UInt32)
      [] selector \in {"VirtualFormat", "PhysicalFormat"} -> Sized(SizeOf.Format)
      [] selector \in {"AvailableVirtualFormats", "AvailablePhysicalFormats"} ->
            Sized(SizeOf.RangedFormat)
      [] OTHER -> Unknown

ControlPropertyDataSize(object, selector) ==
    CASE selector \in {"ControlScope", "ControlElement"} -> Sized(SizeOf.UInt32)
      [] object = "volume" /\ selector \in {"ScalarValue", "DecibelValue",
            "ConvertScalarToDecibels", "ConvertDecibelsToScalar"} -> Sized(SizeOf.Float32)
      [] object = "volume" /\ selector = "DecibelRange" -> Sized(SizeOf.ValueRange)
      [] object = "mute" /\ selector = "BooleanValue" -> Sized(SizeOf.UInt32)
      [] OTHER -> Unknown

GetPropertyDataSize(object, address, qualifier) ==
    LET selector == address.selector
        presence == Presence(object, address)
    IN IF presence # "noErr" THEN [status |-> presence, size |-> 0]
       ELSE IF selector \in CommonSelectors
       THEN CommonPropertyDataSize(object, address, qualifier)
       ELSE CASE object = "plugin" -> PluginPropertyDataSize(selector)
              [] object = "device" -> DevicePropertyDataSize(address)
              [] object = "stream" -> StreamPropertyDataSize(selector)
              [] OTHER -> ControlPropertyDataSize(object, selector)

-----------------------------------------------------------------------------
(* What they are: typed values; a buffer is [size, null, content].         *)

Data(type, values) == [status |-> "noErr", type |-> type, values |-> values]
NoData(status) == [status |-> status, type |-> "UInt32", values |-> <<>>]
Bytes(data) == Len(data.values) * SizeOf[data.type]

CopyData(data, buffer) ==
    IF Bytes(data) > 0 /\ buffer.null THEN NoData("IllegalOperation")
    ELSE IF buffer.size < Bytes(data) THEN NoData("BadPropertySize") ELSE data

(* CopyNameForObject: a name of its own for each object. *)
CopyNameForObject(object) == <<object, "name">>

GetCommonPropertyData(object, address, qualifier) ==
    CASE address.selector = "BaseClass" -> Data("ClassID", <<BaseClassForObject(object)>>)
      [] address.selector = "Class" -> Data("ClassID", <<ClassForObject(object)>>)
      [] address.selector = "Owner" -> Data("ObjectID", <<OwnerForObject(object)>>)
      [] address.selector = "Name" -> Data("CFString", <<CopyNameForObject(object)>>)
      [] address.selector = "Manufacturer" -> Data("CFString", <<"SVC_MANUFACTURER_NAME">>)
      [] address.selector = "OwnedObjects" ->
            IF BadQualifier(qualifier) THEN NoData("BadPropertySize")
            ELSE Data("ObjectID", FilteredOwnedObjects(object, address.scope, qualifier))
      [] address.selector = "CustomPropertyInfoList" -> Data("UInt32", <<>>)
      [] OTHER -> NoData("UnknownProperty")

GetPluginPropertyData(selector, qualifier) ==
    CASE selector = "BundleID" -> Data("CFString", <<"SVC_BUNDLE_ID">>)
      [] selector = "DeviceList" -> Data("ObjectID", <<"device">>)
      [] selector = "TranslateUIDToDevice" ->
            IF qualifier.size # SizeOf.CFString \/ ~ qualifier.given
            THEN NoData("BadPropertySize")
            ELSE Data("ObjectID", IF qualifier.items = <<"SVC_DEVICE_UID">>
                                  THEN <<"device">> ELSE <<"unknown">>)
      [] selector \in {"BoxList", "ClockDeviceList"} -> Data("ObjectID", <<>>)
      [] selector \in {"TranslateUIDToBox", "TranslateUIDToClockDevice"} ->
            Data("ObjectID", <<"unknown">>)
      [] selector = "ResourceBundle" -> Data("CFString", <<"">>)
      [] OTHER -> NoData("UnknownProperty")

(* [state] is the driver's: running clients, stream activity, volume, mute. *)
GetDevicePropertyData(address, state) ==
    LET selector == address.selector
        input == address.scope = "input"
    IN CASE selector \in {"DeviceUID", "ModelUID"} -> Data("CFString", <<selector>>)
         [] selector = "TransportType" -> Data("UInt32", <<"virtual">>)
         [] selector = "RelatedDevices" -> Data("ObjectID", <<"device">>)
         [] selector \in {"ClockDomain", "Latency", "SafetyOffset", "IsHidden"} ->
               Data("UInt32", <<0>>)
         [] selector \in {"DeviceIsAlive", "DeviceCanBeDefaultSystemDevice",
                          "ClockIsStable"} -> Data("UInt32", <<1>>)
         [] selector = "DeviceIsRunning" ->
               Data("UInt32", <<IF state.runningCount > 0 THEN 1 ELSE 0>>)
         [] selector = "DeviceCanBeDefaultDevice" ->
               Data("UInt32", <<IF input THEN 0 ELSE 1>>)
         [] selector = "Streams" ->
               Data("ObjectID", IF input THEN <<>> ELSE <<"stream">>)
         [] selector = "ControlList" ->
               Data("ObjectID", IF input THEN <<>> ELSE <<"volume", "mute">>)
         [] selector \in {"NominalSampleRate", "ActualSampleRate"} ->
               Data("Float64", <<48000>>)
         [] selector = "AvailableNominalSampleRates" ->
               Data("ValueRange", <<<<48000, 48000>>>>)
         [] selector = "PreferredChannelsForStereo" -> Data("UInt32", <<1, 2>>)
         [] selector = "HogMode" -> Data("pid", <<-1>>)
         [] selector = "BufferFrameSize" -> Data("UInt32", <<"kSVCBufferFrameSize">>)
         [] selector = "BufferFrameSizeRange" -> Data("ValueRange", <<<<64, 4096>>>>)
         [] selector = "IOCycleUsage" -> Data("Float32", <<0>>)
         [] selector = "StreamConfiguration" ->
               Data("BufferList", <<IF input THEN 0 ELSE 1>>)
         [] selector = "ZeroTimeStampPeriod" -> Data("UInt32", <<"kSVCZeroTimestampPeriod">>)
         [] selector = "ClockAlgorithm" -> Data("UInt32", <<"raw">>)
         [] OTHER -> NoData("UnknownProperty")

GetStreamPropertyData(selector, state) ==
    CASE selector = "IsActive" -> Data("UInt32", <<state.outputStreamActive>>)
      [] selector \in {"Direction", "Latency"} -> Data("UInt32", <<0>>)
      [] selector = "TerminalType" -> Data("UInt32", <<"speaker">>)
      [] selector = "StartingChannel" -> Data("UInt32", <<1>>)
      [] selector \in {"VirtualFormat", "PhysicalFormat"} -> Data("Format", <<"StreamFormat">>)
      [] selector \in {"AvailableVirtualFormats", "AvailablePhysicalFormats"} ->
            Data("RangedFormat", <<"StreamFormat">>)
      [] OTHER -> NoData("UnknownProperty")

GetControlPropertyData(object, selector, buffer, state) ==
    LET Converted(value) ==
            IF buffer.size < SizeOf.Float32 \/ buffer.null THEN NoData("BadPropertySize")
            ELSE Data("Float32", <<value>>)
    IN CASE selector = "ControlScope" -> Data("UInt32", <<"output">>)
         [] selector = "ControlElement" -> Data("UInt32", <<"main">>)
         [] object = "volume" /\ selector = "ScalarValue" ->
               Data("Float32", <<state.volumeScalar>>)
         [] object = "volume" /\ selector = "DecibelValue" ->
               Data("Float32", <<ScalarToDecibels(state.volumeScalar)>>)
         [] object = "volume" /\ selector = "DecibelRange" ->
               Data("ValueRange", <<<<-96, 0>>>>)
         [] object = "volume" /\ selector = "ConvertScalarToDecibels" ->
               Converted(ScalarToDecibels(buffer.content))
         [] object = "volume" /\ selector = "ConvertDecibelsToScalar" ->
               Converted(DecibelsToScalar(buffer.content))
         [] object = "mute" /\ selector = "BooleanValue" -> Data("UInt32", <<state.mute>>)
         [] OTHER -> NoData("UnknownProperty")

GetPropertyData(object, address, qualifier, buffer, state) ==
    LET selector == address.selector
        presence == Presence(object, address)
        answer ==
            IF presence # "noErr" THEN NoData(presence)
            ELSE IF selector \in CommonSelectors
            THEN GetCommonPropertyData(object, address, qualifier)
            ELSE CASE object = "plugin" -> GetPluginPropertyData(selector, qualifier)
                   [] object = "device" -> GetDevicePropertyData(address, state)
                   [] object = "stream" -> GetStreamPropertyData(selector, state)
                   [] OTHER -> GetControlPropertyData(object, selector, buffer, state)
    IN IF answer.status = "noErr" THEN CopyData(answer, buffer) ELSE answer

-----------------------------------------------------------------------------
(* What setting one answers: neither the scope nor the element is looked   *)
(* at unless the selector is none of those that can be set.                *)

SetPropertyData(object, address, size, value) ==
    LET selector == address.selector
        Exactly(type, status) ==
            IF size # SizeOf[type] THEN "BadPropertySize" ELSE status
        settable == IsPropertySettable(object, address)
    IN IF object \notin Objects THEN "BadObject"
       ELSE CASE object = "stream" /\ selector = "IsActive" -> Exactly("UInt32", "noErr")
              [] object = "device" /\ selector = "NominalSampleRate" ->
                    Exactly("Float64", IF value = 48000 THEN "noErr" ELSE "IllegalOperation")
              [] object = "stream" /\ selector \in {"VirtualFormat", "PhysicalFormat"} ->
                    Exactly("Format", IF value = 48000 THEN "noErr" ELSE "UnsupportedFormat")
              [] object = "volume" /\ selector \in {"ScalarValue", "DecibelValue"} ->
                    Exactly("Float32", "noErr")
              [] object = "mute" /\ selector = "BooleanValue" -> Exactly("UInt32", "noErr")
              [] OTHER -> IF settable.status # "noErr" THEN settable.status
                          ELSE "UnsupportedOperation"
=============================================================================
