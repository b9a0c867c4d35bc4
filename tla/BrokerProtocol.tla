--------------------------- MODULE BrokerProtocol ---------------------------
(***************************************************************************)
(* How a helper gets a ring, and how it loses it: the broker's serial      *)
(* queue (broker/main.c), the driver's control queue                       *)
(* (common/SecureAudioWriter.c) and the helpers' connections               *)
(* (common/SecureAudioReader.c), joined by XPC connections.                *)
(*                                                                         *)
(* XPC, launchd and SystemConfiguration are external and modelled by what  *)
(* the code relies on.  A connection delivers in order and may be slow;    *)
(* two connections are not ordered with each other.  When a side cancels   *)
(* or dies, the other side handles what was already delivered and then an  *)
(* error event.  What is sent to a process that has died is lost.  launchd *)
(* starts the broker again on demand (KeepAlive).                          *)
(*                                                                         *)
(* A handler is atomic: each process of the protocol runs its handlers on  *)
(* one serial queue, and they share no memory but the rings.  What happens *)
(* inside the driver's handler, against the HAL's threads, is MappingLease.*)
(***************************************************************************)
EXTENDS Integers, Sequences

CONSTANTS
    Readers,        \* helper connections; a connection is opened once
    Users,          \* user ids of console sessions, without root and -1
    Uid,            \* the effective user id of each reader's process
    NoReader,
    NoUser,         \* console user id at the login window: never a reader's
    Failures,       \* the environment failures considered, see below
    MaxSessions,    \* bound: console session changes
    MaxRestarts,    \* bound: restarts of the driver's process
    MaxCrashes      \* bound: crashes of the broker

(* "allocate": the driver's mach_vm calls may fail; "map": so may the      *)
(* reader's; "invalid": a connection error may be other than an            *)
(* interruption; "timeout": a reader's open may expire.                    *)
FailureKinds == {"allocate", "map", "invalid", "timeout"}

ASSUME ProtocolAssumption ==
    /\ NoReader \notin Readers
    /\ NoUser \notin Users
    /\ Failures \subseteq FailureKinds
    /\ MaxSessions \in Nat /\ MaxRestarts \in Nat /\ MaxCrashes \in Nat

VARIABLES
    \* the broker
    writer,         \* the registered writer peer
    reader,         \* the registered reader peer
    pending,        \* pendingGrant # NULL: the open request not yet answered
    opened,
    generation,
    \* the driver
    current,        \* currentAudio
    allocated,      \* rings are numbered as the driver allocates them
    peer,           \* the broker's peer for the driver's live connection
    helloDue,       \* a Hello scheduled by dispatch_after
    \* the helpers
    phase,          \* how far each connection is
    mapping,        \* the ring each helper maps
    \* the connections, as queues of undelivered events
    toDriver, fromDriver, toReader, fromReader,
    \* the environment
    console,        \* the console user
    sessionDue,     \* a SessionChanged callback is due
    budget,         \* what is left of the three bounds
    \* history, read by properties only
    lent            \* the ring each reader was granted

brokerVars == <<writer, reader, pending, opened, generation>>
driverVars == <<current, allocated, peer, helloDue>>
readerVars == <<phase, mapping>>
channelVars == <<toDriver, fromDriver, toReader, fromReader>>
environmentVars == <<console, sessionDue, budget>>
vars == <<brokerVars, driverVars, readerVars, channelVars, environmentVars, lent>>

NoRing == 0
NoPeer == 0
(* Peers are recycled: one is free when nothing of it is left anywhere. *)
Peers == 1..(MaxRestarts + 2)

Phases == {"idle", "waiting", "streaming", "lost", "closed"}

TypeOK ==
    /\ writer \in Peers \union {NoPeer}
    /\ reader \in Readers \union {NoReader}
    /\ pending \in BOOLEAN
    /\ opened = (reader # NoReader)
    /\ generation \in Nat
    /\ current \in 0..allocated
    /\ allocated \in Nat
    /\ peer \in Peers \union {NoPeer}
    /\ helloDue \in BOOLEAN
    /\ phase \in [Readers -> Phases]
    /\ mapping \in [Readers -> 0..allocated]
    /\ lent \in [Readers -> 0..allocated]
    /\ console \in Users \union {NoUser}
    /\ sessionDue \in BOOLEAN

Init ==
    /\ writer = NoPeer /\ reader = NoReader
    /\ pending = FALSE /\ opened = FALSE /\ generation = 0
    /\ current = NoRing /\ allocated = 0
    /\ peer = 1 /\ helloDue = FALSE
    /\ phase = [r \in Readers |-> "idle"]
    /\ mapping = [r \in Readers |-> NoRing]
    /\ toDriver = <<>>
    /\ fromDriver = [p \in Peers |-> IF p = 1 THEN <<[op |-> "hello"]>> ELSE <<>>]
    /\ toReader = [r \in Readers |-> <<>>]
    /\ fromReader = [r \in Readers |-> <<>>]
    /\ console \in Users
    /\ sessionDue = FALSE
    /\ budget = [sessions |-> MaxSessions, restarts |-> MaxRestarts,
                 crashes |-> MaxCrashes]
    /\ lent = [r \in Readers |-> NoRing]

-----------------------------------------------------------------------------
(* Connections *)

Arrives(queue, op) == queue # <<>> /\ Head(queue).op = op

(* The driver's end of a connection the broker closed gets one error event, *)
(* its last one; what it still sends is lost.                              *)
Severed == toDriver # <<>> /\ toDriver[Len(toDriver)].op = "error"
Sever == toDriver' = IF Severed THEN toDriver ELSE Append(toDriver, [op |-> "error"])

FreePeer == CHOOSE p \in Peers : p \notin {writer, peer} /\ fromDriver[p] = <<>>

-----------------------------------------------------------------------------
(* The broker's serial queue *)

(* Rotate, with the writer as the handler leaves it. *)
Rotate(w, enabled) ==
    /\ generation' = generation + 1
    /\ toDriver' = IF w = NoPeer \/ w # peer THEN toDriver
                   ELSE Append(toDriver, [op |-> "rotate", generation |-> generation + 1,
                                          enabled |-> enabled])

(* Fault: the driver is not told. *)
DropReaderQuietly(w) ==
    /\ pending' = FALSE /\ reader' = NoReader /\ opened' = FALSE
    /\ toReader' = IF reader = NoReader THEN toReader
                   ELSE [toReader EXCEPT ![reader] = Append(@, [op |-> "reset"])]
    /\ UNCHANGED <<generation, toDriver>>

(* Fault: the next open finds the old state. *)
DropReaderKeepsOpened(w) ==
    /\ pending' = FALSE /\ reader' = NoReader /\ UNCHANGED opened
    /\ toReader' = IF reader = NoReader THEN toReader
                   ELSE [toReader EXCEPT ![reader] = Append(@, [op |-> "reset"])]
    /\ Rotate(w, FALSE)

(* DropReader: an unanswered request is released and the peer cancelled,   *)
(* which the helper sees as one error.                                     *)
DropReader(w) ==
    /\ pending' = FALSE
    /\ reader' = NoReader
    /\ opened' = FALSE
    /\ toReader' = IF reader = NoReader THEN toReader
                   ELSE [toReader EXCEPT ![reader] = Append(@, [op |-> "reset"])]
    /\ Rotate(w, FALSE)

(* The console session changed; also when the user id is the same again. *)
SessionChanged ==
    /\ sessionDue
    /\ sessionDue' = FALSE
    /\ DropReader(writer)
    /\ UNCHANGED <<writer, driverVars, readerVars, fromDriver, fromReader, console,
                   budget, lent>>

(* A second writer's hello, and a publish of a peer that is not the        *)
(* writer: the peer is cancelled.  A dead driver has no end to be told.    *)
BrokerTurnsAway(p) ==
    /\ p # writer
    /\ \/ Arrives(fromDriver[p], "publish")
       \/ Arrives(fromDriver[p], "hello") /\ writer # NoPeer
    /\ fromDriver' = [fromDriver EXCEPT ![p] = <<>>]
    /\ IF p = peer THEN Sever ELSE UNCHANGED toDriver
    /\ UNCHANGED <<brokerVars, driverVars, readerVars, toReader, fromReader,
                   environmentVars, lent>>

(* Fault: a reader that came before the driver is forgotten. *)
BrokerHelloAlone(p) ==
    /\ Arrives(fromDriver[p], "hello")
    /\ writer \in {NoPeer, p}
    /\ writer' = p
    /\ Rotate(p, FALSE)
    /\ fromDriver' = [fromDriver EXCEPT ![p] = Tail(@)]
    /\ UNCHANGED <<reader, pending, opened, driverVars, readerVars, toReader, fromReader,
                   environmentVars, lent>>

(* hello: the first writer, or the same one again, is told whether a       *)
(* reader waits.                                                           *)
BrokerHello(p) ==
    /\ Arrives(fromDriver[p], "hello")
    /\ writer \in {NoPeer, p}
    /\ writer' = p
    /\ Rotate(p, reader # NoReader /\ opened)
    /\ fromDriver' = [fromDriver EXCEPT ![p] = Tail(@)]
    /\ UNCHANGED <<reader, pending, opened, driverVars, readerVars, toReader, fromReader,
                   environmentVars, lent>>

(* A publication answers the open request that is unanswered, if it        *)
(* belongs to the rotation that the request, or a later hello, caused.     *)
WantedAnyGeneration(message) == reader # NoReader /\ opened /\ pending

(* Fault: a publication without a ring is ignored, and its reader waits on. *)
WantedWithRing(message) ==
    /\ reader # NoReader /\ opened /\ pending /\ message.generation = generation
    /\ message.ring # NoRing

Wanted(message) ==
    reader # NoReader /\ opened /\ pending /\ message.generation = generation

(* publish: an unwanted one is ignored; otherwise the reader must still be *)
(* the console user and a ring must have come along.                       *)
BrokerPublish(p) ==
    /\ p = writer
    /\ Arrives(fromDriver[p], "publish")
    /\ fromDriver' = [fromDriver EXCEPT ![p] = Tail(@)]
    /\ LET message == Head(fromDriver[p])
           wanted == Wanted(message)
           granted == wanted /\ Uid[reader] = console /\ message.ring # NoRing
       IN \/ /\ granted
             /\ pending' = FALSE
             /\ toReader' = [toReader EXCEPT ![reader] =
                               Append(@, [op |-> "grant", ring |-> message.ring])]
             /\ lent' = [lent EXCEPT ![reader] = message.ring]
             /\ UNCHANGED <<reader, opened, generation, toDriver>>
          \/ /\ wanted /\ ~ granted
             /\ DropReader(writer)
             /\ UNCHANGED lent
          \/ /\ ~ wanted
             /\ UNCHANGED <<reader, pending, opened, generation, toDriver, toReader, lent>>
    /\ UNCHANGED <<writer, driverVars, readerVars, fromReader, environmentVars>>

(* Fault: a dead writer stays registered. *)
BrokerWriterGoneKept(p) ==
    /\ Arrives(fromDriver[p], "gone")
    /\ fromDriver' = [fromDriver EXCEPT ![p] = Tail(@)]
    /\ UNCHANGED <<brokerVars, toDriver, driverVars, readerVars, toReader, fromReader,
                   environmentVars, lent>>

(* An error event of a writer peer: the registered one is forgotten. *)
BrokerWriterGone(p) ==
    /\ Arrives(fromDriver[p], "gone")
    /\ fromDriver' = [fromDriver EXCEPT ![p] = Tail(@)]
    /\ \/ /\ p = writer
          /\ writer' = NoPeer
          /\ DropReader(NoPeer)
       \/ /\ p # writer
          /\ UNCHANGED <<brokerVars, toDriver, toReader>>
    /\ UNCHANGED <<driverVars, readerVars, fromReader, environmentVars, lent>>

(* open: only the console user's process, one at a time.  (Users holds     *)
(* neither root nor -1.)                                                   *)
BrokerOpen(r) ==
    /\ Arrives(fromReader[r], "open")
    /\ fromReader' = [fromReader EXCEPT ![r] = Tail(@)]
    /\ \/ /\ Uid[r] \in Users /\ Uid[r] = console /\ reader = NoReader
          /\ pending' = TRUE
          /\ reader' = r
          /\ opened' = TRUE
          /\ Rotate(writer, TRUE)
          /\ UNCHANGED toReader
       \/ /\ Uid[r] \notin Users \/ Uid[r] # console \/ reader # NoReader
          /\ toReader' = [toReader EXCEPT ![r] = Append(@, [op |-> "refused"])]
          /\ UNCHANGED <<pending, reader, opened, generation, toDriver>>
    /\ UNCHANGED <<writer, driverVars, readerVars, fromDriver, environmentVars, lent>>

(* An error event of a reader peer: the registered one is dropped. *)
BrokerReaderGone(r) ==
    /\ Arrives(fromReader[r], "gone")
    /\ fromReader' = [fromReader EXCEPT ![r] = Tail(@)]
    /\ \/ r = reader /\ DropReader(writer)
       \/ /\ r # reader
          /\ UNCHANGED <<reader, pending, opened, generation, toDriver, toReader>>
    /\ UNCHANGED <<writer, driverVars, readerVars, fromDriver, environmentVars, lent>>

WriterEvent(p) ==
    BrokerTurnsAway(p) \/ BrokerHello(p) \/ BrokerPublish(p) \/ BrokerWriterGone(p)
ReaderEvent(r) == BrokerOpen(r) \/ BrokerReaderGone(r)

-----------------------------------------------------------------------------
(* The driver's control queue *)

(* SVCAudioAllocate returns memory that nobody has seen. *)
FreshRingCached == IF allocated = 0 THEN 1 ELSE allocated
FreshRing == allocated + 1

(* rotate: an enabled one installs a fresh ring and publishes it, with no  *)
(* ring when the allocation failed; a disabled one detaches.               *)
DriverRotate ==
    /\ Arrives(toDriver, "rotate")
    /\ LET message == Head(toDriver)
           answer(ring) == fromDriver' = IF Severed THEN fromDriver
               ELSE [fromDriver EXCEPT ![peer] =
                       Append(@, [op |-> "publish", generation |-> message.generation,
                                  ring |-> ring])]
       IN \/ /\ message.enabled
             /\ current' = FreshRing
             /\ allocated' = FreshRing
             /\ answer(FreshRing)
          \/ /\ message.enabled /\ "allocate" \in Failures
             /\ current' = NoRing
             /\ answer(NoRing)
             /\ UNCHANGED allocated
          \/ /\ ~ message.enabled
             /\ current' = NoRing
             /\ UNCHANGED <<allocated, fromDriver>>
    /\ toDriver' = Tail(toDriver)
    /\ UNCHANGED <<brokerVars, peer, helloDue, readerVars, toReader, fromReader,
                   environmentVars, lent>>

(* Any error detaches the ring; only an interruption is followed by a new  *)
(* hello, one second later.                                                *)
DriverConnectionError ==
    /\ Arrives(toDriver, "error")
    /\ toDriver' = Tail(toDriver)
    /\ current' = NoRing
    /\ peer' = NoPeer
    /\ \/ helloDue' = TRUE
       \/ "invalid" \in Failures /\ UNCHANGED helloDue
    /\ UNCHANGED <<brokerVars, allocated, readerVars, fromDriver, toReader, fromReader,
                   environmentVars, lent>>

(* The scheduled Hello reaches the broker over a new peer. *)
DriverHello ==
    /\ helloDue
    /\ helloDue' = FALSE
    /\ peer' = FreePeer
    /\ fromDriver' = [fromDriver EXCEPT ![FreePeer] = <<[op |-> "hello"]>>]
    /\ UNCHANGED <<brokerVars, current, allocated, readerVars, toDriver, toReader,
                   fromReader, environmentVars, lent>>

(* Core Audio restarts the driver's process: its rings are gone, and the   *)
(* new process connects at once, perhaps before the broker learns of the   *)
(* death of the old one.                                                   *)
DriverRestart ==
    /\ budget.restarts > 0
    /\ budget' = [budget EXCEPT !.restarts = @ - 1]
    /\ current' = NoRing
    /\ helloDue' = FALSE
    /\ toDriver' = <<>>
    /\ peer' = FreePeer
    /\ fromDriver' = [p \in Peers |->
          IF p = FreePeer THEN <<[op |-> "hello"]>>
          ELSE IF p = peer /\ ~ Severed
               THEN Append(fromDriver[p], [op |-> "gone"])
          ELSE fromDriver[p]]
    /\ UNCHANGED <<brokerVars, allocated, readerVars, toReader, fromReader, console,
                   sessionDue, lent>>

-----------------------------------------------------------------------------
(* The helpers *)

(* SVCReaderOpen sends its request and waits. *)
ReaderOpen(r) ==
    /\ phase[r] = "idle"
    /\ phase' = [phase EXCEPT ![r] = "waiting"]
    /\ fromReader' = [fromReader EXCEPT ![r] = <<[op |-> "open"]>>]
    /\ UNCHANGED <<brokerVars, driverVars, mapping, toDriver, fromDriver, toReader,
                   environmentVars, lent>>

(* SVCReaderClose, from every failure path of the open and at the end of   *)
(* the helper: nothing that arrives later is looked at.                    *)
Close(r) ==
    /\ phase' = [phase EXCEPT ![r] = "closed"]
    /\ mapping' = [mapping EXCEPT ![r] = NoRing]
    /\ fromReader' = [fromReader EXCEPT ![r] = Append(@, [op |-> "gone"])]
    /\ toReader' = [toReader EXCEPT ![r] = <<>>]

(* A grant is mapped, or the open fails when it cannot be. *)
ReaderGranted(r) ==
    /\ phase[r] = "waiting"
    /\ Arrives(toReader[r], "grant")
    /\ \/ /\ phase' = [phase EXCEPT ![r] = "streaming"]
          /\ mapping' = [mapping EXCEPT ![r] = Head(toReader[r]).ring]
          /\ toReader' = [toReader EXCEPT ![r] = Tail(@)]
          /\ UNCHANGED fromReader
       \/ "map" \in Failures /\ Close(r)
    /\ UNCHANGED <<brokerVars, driverVars, toDriver, fromDriver, environmentVars, lent>>

(* A refusal or a reset ends the open. *)
ReaderRefused(r) ==
    /\ phase[r] = "waiting"
    /\ Arrives(toReader[r], "refused") \/ Arrives(toReader[r], "reset")
    /\ Close(r)
    /\ UNCHANGED <<brokerVars, driverVars, toDriver, fromDriver, environmentVars, lent>>

(* A reset of an open connection clears alive; the ring stays mapped until *)
(* the helper's loop has seen it.                                          *)
ReaderLost(r) ==
    /\ phase[r] = "streaming"
    /\ Arrives(toReader[r], "reset")
    /\ phase' = [phase EXCEPT ![r] = "lost"]
    /\ toReader' = [toReader EXCEPT ![r] = Tail(@)]
    /\ UNCHANGED <<brokerVars, driverVars, mapping, toDriver, fromDriver, fromReader,
                   environmentVars, lent>>

(* The semaphore wait of the open expires. *)
ReaderTimeout(r) ==
    /\ "timeout" \in Failures
    /\ phase[r] = "waiting"
    /\ Close(r)
    /\ UNCHANGED <<brokerVars, driverVars, toDriver, fromDriver, environmentVars, lent>>

(* The helper stops, for its own reasons or because its connection died. *)
ReaderClose(r) ==
    /\ phase[r] \in {"streaming", "lost"}
    /\ Close(r)
    /\ UNCHANGED <<brokerVars, driverVars, toDriver, fromDriver, environmentVars, lent>>

-----------------------------------------------------------------------------
(* The environment *)

(* Another session, or the login window, takes the console; the broker's   *)
(* callback comes later.                                                   *)
ConsoleChanges(user) ==
    /\ budget.sessions > 0
    /\ budget' = [budget EXCEPT !.sessions = @ - 1]
    /\ console' = user
    /\ sessionDue' = TRUE
    /\ UNCHANGED <<brokerVars, driverVars, readerVars, channelVars, lent>>

(* The broker dies and launchd starts it again. *)
BrokerCrash ==
    /\ budget.crashes > 0
    /\ budget' = [budget EXCEPT !.crashes = @ - 1]
    /\ writer' = NoPeer /\ reader' = NoReader
    /\ pending' = FALSE /\ opened' = FALSE /\ generation' = 0
    /\ sessionDue' = FALSE
    /\ fromDriver' = [p \in Peers |-> <<>>]
    /\ fromReader' = [r \in Readers |-> <<>>]
    /\ IF peer = NoPeer THEN UNCHANGED toDriver ELSE Sever
    /\ toReader' = [r \in Readers |->
          IF phase[r] \in {"waiting", "streaming"}
          THEN Append(toReader[r], [op |-> "reset"]) ELSE toReader[r]]
    /\ UNCHANGED <<driverVars, readerVars, console, lent>>

-----------------------------------------------------------------------------
DriverStep == DriverRotate \/ DriverConnectionError \/ DriverHello
ReaderStep(r) == ReaderGranted(r) \/ ReaderRefused(r) \/ ReaderLost(r)

Next ==
    \/ SessionChanged
    \/ \E p \in Peers : WriterEvent(p)
    \/ \E r \in Readers : ReaderEvent(r)
    \/ DriverStep
    \/ DriverRestart
    \/ \E r \in Readers :
          ReaderOpen(r) \/ ReaderStep(r) \/ ReaderTimeout(r) \/ ReaderClose(r)
    \/ \E user \in Users \union {NoUser} : ConsoleChanges(user)
    \/ BrokerCrash

(* Every serial queue keeps running its events, peer by peer, and timers   *)
(* fire.  A helper may stream for ever and need not start.                 *)
Fairness ==
    /\ WF_vars(SessionChanged)
    /\ \A p \in Peers : WF_vars(WriterEvent(p))
    /\ \A r \in Readers : WF_vars(ReaderEvent(r))
    /\ WF_vars(DriverStep)
    /\ \A r \in Readers : WF_vars(ReaderStep(r))

Spec == Init /\ [][Next]_vars /\ Fairness

-----------------------------------------------------------------------------
(* Properties *)

(* Every undelivered event of the driver's connection takes the installed  *)
(* ring out of service.                                                    *)
DetachUnderWay == toDriver # <<>>

DriverDeathUnderWay ==
    writer # NoPeer /\ \E i \in DOMAIN fromDriver[writer] : fromDriver[writer][i].op = "gone"

(* docs/architecture.md:55, "Reader disconnect, writer loss, and           *)
(* console-session changes revoke the lease": while the driver captures    *)
(* into a ring that a helper was given, that helper is the registered      *)
(* reader and its user has the console, or the event that ends this is     *)
(* already on its way.  No earlier reader's ring ever receives audio again.*)
CaptureIsAuthorized ==
    \A r \in Readers :
        lent[r] = current /\ current # NoRing =>
            \/ DetachUnderWay
            \/ reader = r /\ (Uid[r] = console \/ sessionDue)

(* A helper with a grant hears what the driver plays: its ring is the one  *)
(* in service, unless news of the change is on its way to the driver or to *)
(* the broker.  A grant of a stale publication would leave the helper with *)
(* a ring that is silent for ever and nobody to tell it.                   *)
GrantIsLive ==
    reader # NoReader /\ ~ pending =>
        lent[reader] = current \/ DetachUnderWay \/ DriverDeathUnderWay

(* Nobody waits for what is not under way.  A helper whose open is          *)
(* unanswered has its request on the way to the broker, an answer on the   *)
(* way back, or the reader's place.                                        *)
OpenIsInHand ==
    \A r \in Readers : phase[r] = "waiting" =>
        \/ \E i \in DOMAIN fromReader[r] : fromReader[r][i].op = "open"
        \/ toReader[r] # <<>>
        \/ reader = r /\ pending

(* For the reader in that place, a registered driver is being asked for a  *)
(* ring, or has answered, with or without one, or has died.                *)
AnswerIsUnderWay ==
    pending /\ writer # NoPeer =>
        \/ /\ writer = peer
           /\ \E i \in DOMAIN toDriver :
                 toDriver[i] = [op |-> "rotate", generation |-> generation, enabled |-> TRUE]
        \/ \E i \in DOMAIN fromDriver[writer] :
              /\ fromDriver[writer][i].op = "publish"
              /\ fromDriver[writer][i].generation = generation
        \/ DriverDeathUnderWay

(* A helper that has closed, or whose open expired, gives up its place or  *)
(* the one that its request will yet get.                                  *)
EndIsTold ==
    \A r \in Readers : phase[r] = "closed" /\ (reader = r \/ fromReader[r] # <<>>) =>
        \E i \in DOMAIN fromReader[r] : fromReader[r][i].op = "gone"

(* A helper whose ring the broker gave up is about to hear so.             *)
LossIsTold ==
    \A r \in Readers :
        lent[r] # NoRing /\ reader # r /\ phase[r] \in {"waiting", "streaming"} =>
            \E i \in DOMAIN toReader[r] : toReader[r][i].op = "reset"

NobodyIsStranded == OpenIsInHand /\ AnswerIsUnderWay /\ EndIsTold /\ LossIsTold

(* The driver and the broker together lend each ring at most once, and put *)
(* no ring back into service.                                              *)
Lease == INSTANCE RingLease WITH Rings <- Nat \ {NoRing}, used <- 1..allocated
LeaseIsExclusive == Lease!LeaseSpec

(* Without any failure or timeout every open is answered, whatever session *)
(* changes and restarts happen meanwhile: no request is forgotten.         *)
OpenIsAnswered ==
    \A r \in Readers : phase[r] = "waiting" ~> phase[r] # "waiting"

(* The ring of a helper that closed is taken out of service. *)
ClosedRingIsDetached ==
    \A r \in Readers :
        phase[r] = "closed" /\ lent[r] # NoRing ~> current # lent[r]

(* A broker that keeps running and a driver that keeps running find each   *)
(* other: the driver's process ends up registered as the writer.           *)
DriverIsRegistered == <>[](writer = peer /\ writer # NoPeer)

=============================================================================
