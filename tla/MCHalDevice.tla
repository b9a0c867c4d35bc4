----------------------------- MODULE MCHalDevice -----------------------------
(* HalDevice with two threads, every selector of every object in every     *)
(* scope and two elements, and the qualifiers and buffers that matter.     *)
EXTENDS HalDevice

(* Rounded: -12 dB are the volume 501, and 500 reads as -12 dB. *)
MCLogs == [s \in {3, 500, 501, 1000} |->
             CASE s = 3 -> -101 [] s \in {500, 501} -> -12 [] s = 1000 -> 0]
MCPowers == [decibels \in {-12} |-> 501]

MCRawScalars == {3, 500, Infinity, NaN}
MCRawDecibels == {-Infinity, -12, 6, NaN}

Qualifier(size, given, items) == [size |-> size, given |-> given, items |-> items]
Unqualified == Qualifier(0, FALSE, <<>>)
ClassQualifiers ==
    {Qualifier(4, TRUE, <<class>>) : class \in DOMAIN Superclass}
      \union {Qualifier(8, TRUE, <<"Stream", "MuteControl">>), Qualifier(4, FALSE, <<>>),
              Qualifier(3, TRUE, <<>>)}
UIDQualifiers ==
    {Qualifier(8, TRUE, <<uid>>) : uid \in {"SVC_DEVICE_UID", "another UID", "NULL"}}
      \union {Qualifier(4, TRUE, <<>>), Qualifier(8, FALSE, <<>>)}

Addresses ==
    [selector : Selectors \union {"nope"}, scope : Scopes, element : {"main", "other"}]

MCQueries ==
    [object : Objects \union {"unknown"}, address : Addresses, qualifier : {Unqualified}]
      \union [object : Objects,
              address : [selector : {"OwnedObjects"}, scope : Scopes, element : {"main"}],
              qualifier : ClassQualifiers]
      \union [object : {"plugin"},
              address : [selector : {"TranslateUIDToDevice"}, scope : {"global"},
                         element : {"main"}],
              qualifier : UIDQualifiers]

MCBuffers == [size : {0, 3, 4, 8, 12, 15, 16, 24, 40, 55, 56}, null : {FALSE}, content : {500}]
               \union {[size |-> 0, null |-> TRUE, content |-> 500],
                       [size |-> 16, null |-> TRUE, content |-> 500]}
=============================================================================
