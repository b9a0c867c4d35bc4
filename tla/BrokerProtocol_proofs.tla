------------------------ MODULE BrokerProtocol_proofs ------------------------
(***************************************************************************)
(* Proofs about BrokerProtocol, for every number of helpers and users and  *)
(* every number of session changes, restarts and crashes: audio is         *)
(* captured only for the registered reader, a grant is live, nobody is     *)
(* stranded, and the protocol implements RingLease.                        *)
(***************************************************************************)
EXTENDS BrokerProtocol, FiniteSets, FiniteSetTheorems, SequenceTheorems, TLAPS

USE ProtocolAssumption

(* The messages of the channels. *)
Hello == [op |-> "hello"]
Open == [op |-> "open"]
Gone == [op |-> "gone"]

ToDriver == [op : {"error"}] \union [op : {"rotate"}, generation : Nat, enabled : BOOLEAN]
FromDriver == [op : {"hello", "gone"}] \union [op : {"publish"}, generation : Nat, ring : Nat]
ToReader == [op : {"reset", "refused"}] \union [op : {"grant"}, ring : Nat]
FromReader == {<<>>, <<Open>>, <<Gone>>, <<Open, Gone>>}

ChannelTypes ==
    /\ toDriver \in Seq(ToDriver)
    /\ fromDriver \in [Peers -> Seq(FromDriver)]
    /\ toReader \in [Readers -> Seq(ToReader)]
    /\ fromReader \in [Readers -> FromReader]
    /\ budget \in [sessions : Nat, restarts : 0..MaxRestarts, crashes : Nat]

(* A grant that is on its way is of a ring that was allocated. *)
GrantsAreRings ==
    \A r \in Readers : \A i \in 1..Len(toReader[r]) :
        toReader[r][i].op = "grant" => toReader[r][i].ring \in 1..allocated

(* A reader opens once, is registered only then, and is granted a ring     *)
(* once: the open request is neither undelivered nor unanswered.           *)
OpensOnce ==
    /\ \A r \in Readers :
          /\ phase[r] = "idle" => fromReader[r] = <<>> /\ reader # r /\ lent[r] = NoRing
          /\ fromReader[r] \in {<<Open>>, <<Open, Gone>>} => reader # r /\ lent[r] = NoRing
          /\ fromReader[r] \in {<<Gone>>, <<Open, Gone>>} => phase[r] = "closed"
    /\ pending => reader # NoReader /\ lent[reader] = NoRing

(* The connection of the driver: it has said hello, then it is the writer, *)
(* until the broker closes it; then it gets an error as its last event and *)
(* nothing of it is left at the broker.                                    *)
LiveConnection ==
    /\ Severed => peer # NoPeer /\ writer # peer /\ fromDriver[peer] = <<>>
    /\ peer # NoPeer /\ writer # peer =>
          Severed \/ (toDriver = <<>> /\ fromDriver[peer] = <<Hello>>)
    /\ peer = NoPeer => toDriver = <<>> /\ current = NoRing
    /\ helloDue => peer = NoPeer
    /\ \A i \in 1..Len(toDriver) : toDriver[i].op = "error" => i = Len(toDriver)

(* A connection of a process that has died ends with the news of its       *)
(* death; the live one has no such news.                                   *)
DeadConnections ==
    /\ \A p \in Peers : \A i \in 1..Len(fromDriver[p]) :
          /\ fromDriver[p][i].op = "gone" => p # peer /\ i = Len(fromDriver[p])
          /\ p # peer /\ i = Len(fromDriver[p]) => fromDriver[p][i].op = "gone"
          /\ fromDriver[p][i].op = "hello" => i = 1 /\ p # writer
    /\ writer \notin {NoPeer, peer} => fromDriver[writer] # <<>>

(* The peers that a restart of the driver's process left behind. *)
Left == {p \in Peers : p # peer /\ (p = writer \/ fromDriver[p] # <<>>)}
FewLeft == Cardinality(Left) <= MaxRestarts - budget.restarts

(* The rings that are being published are distinct, nobody was given them, *)
(* and one that is in service is published by the live connection.         *)
Publishes(p, i) ==
    /\ i \in 1..Len(fromDriver[p])
    /\ fromDriver[p][i].op = "publish" /\ fromDriver[p][i].ring # NoRing

PublishedOnce ==
    \A p \in Peers, i \in Nat : Publishes(p, i) =>
        /\ fromDriver[p][i].ring \in 1..allocated
        /\ fromDriver[p][i].ring = current => p = peer
        /\ \A r \in Readers : lent[r] # fromDriver[p][i].ring
        /\ \A q \in Peers, j \in Nat :
              Publishes(q, j) /\ fromDriver[q][j].ring = fromDriver[p][i].ring
                 => q = p /\ j = i

(* Between the broker and its writer generations grow; a publication of    *)
(* the latest one is of the ring in service, and nothing else is under way.*)
GenerationsGrow ==
    peer # NoPeer /\ writer = peer =>
        /\ \A i \in 1..Len(toDriver) : toDriver[i].generation <= generation
        /\ \A i, j \in 1..Len(toDriver) :
              i < j => toDriver[i].generation < toDriver[j].generation
        /\ \A i \in 1..Len(fromDriver[peer]) :
              fromDriver[peer][i].op = "publish" =>
                 /\ fromDriver[peer][i].generation <= generation
                 /\ fromDriver[peer][i].generation = generation =>
                       toDriver = <<>> /\ fromDriver[peer][i].ring = current

(* A ring in service that was lent is the registered reader's, and the     *)
(* broker can take it out of service.                                      *)
LentInService ==
    \A r \in Readers :
        lent[r] = current /\ current # NoRing /\ toDriver = <<>> =>
            reader = r /\ (Uid[r] = console \/ sessionDue) /\ writer = peer

(* The writer of a reader that was granted a ring has that ring in service,*)
(* or has died.                                                            *)
GrantInService ==
    reader # NoReader /\ ~ pending =>
        /\ writer # NoPeer
        /\ writer = peer => toDriver = <<>> /\ lent[reader] = current /\ current # NoRing

IInv ==
    /\ TypeOK /\ ChannelTypes
    /\ GrantsAreRings /\ OpensOnce
    /\ LiveConnection /\ DeadConnections /\ FewLeft
    /\ PublishedOnce /\ GenerationsGrow
    /\ LentInService /\ GrantInService

-----------------------------------------------------------------------------
(* Queues *)

(* What is appended comes last, and the rest stays where it was. *)
LEMMA Appended ==
    ASSUME NEW S, NEW s \in Seq(S), NEW e \in S
    PROVE  /\ Append(s, e) \in Seq(S) /\ Append(s, e) # <<>>
           /\ Len(Append(s, e)) = Len(s) + 1
           /\ Append(s, e)[Len(s) + 1] = e
           /\ \A i \in 1..Len(s) : Append(s, e)[i] = s[i]
    OBVIOUS

(* What is taken from the front shifts the rest. *)
LEMMA Taken ==
    ASSUME NEW S, NEW s \in Seq(S), s # <<>>
    PROVE  /\ Tail(s) \in Seq(S) /\ Head(s) \in S /\ Head(s) = s[1]
           /\ Len(s) \in Nat /\ Len(s) >= 1 /\ Len(Tail(s)) = Len(s) - 1
           /\ \A i \in 1..Len(Tail(s)) : Tail(s)[i] = s[i + 1]
    OBVIOUS

(* Queues of one and of two. *)
LEMMA ShortQueues ==
    ASSUME NEW a, NEW b
    PROVE  /\ Append(<<>>, a) = <<a>> /\ Append(<<a>>, b) = <<a, b>>
           /\ Tail(<<a>>) = <<>> /\ Tail(<<a, b>>) = <<b>>
<1> DEFINE S == {a, b}
<1>1. <<>> \in Seq(S) /\ <<a>> \in Seq(S) /\ <<a, b>> \in Seq(S) /\ <<b>> \in Seq(S)
    OBVIOUS
<1>2. Append(<<>>, a) = <<a>>
    BY <1>1, SeqEqual
<1>3. Append(<<a>>, b) = <<a, b>>
    <2>1. /\ Append(<<a>>, b) \in Seq(S) /\ Len(Append(<<a>>, b)) = 2
          /\ Append(<<a>>, b)[1] = a /\ Append(<<a>>, b)[2] = b
        BY <1>1
    <2>2. Len(<<a, b>>) = 2 /\ <<a, b>>[1] = a /\ <<a, b>>[2] = b
        OBVIOUS
    <2>3. \A i \in 1..2 : Append(<<a>>, b)[i] = <<a, b>>[i]
        BY <2>1, <2>2
    <2> QED
        BY <1>1, <2>1, <2>2, <2>3, SeqEqual
<1>4. Tail(<<a>>) = <<>>
    BY <1>1, SeqEqual
<1>5. Tail(<<a, b>>) = <<b>>
    BY <1>1, SeqEqual
<1> QED
    BY <1>2, <1>3, <1>4, <1>5

(* The event that closes the connection is one for the driver. *)
LEMMA SeverTypes ==
    ASSUME ChannelTypes, Sever
    PROVE  toDriver' \in Seq(ToDriver)
    BY DEF ChannelTypes, Sever, ToDriver

(* Rotate tells the live writer, and nobody else. *)
LEMMA Rotates ==
    ASSUME ChannelTypes, generation \in Nat, NEW w, NEW enabled \in BOOLEAN, Rotate(w, enabled)
    PROVE  /\ toDriver' \in Seq(ToDriver) /\ generation' = generation + 1
           /\ w = NoPeer \/ w # peer => toDriver' = toDriver
           /\ w # NoPeer /\ w = peer =>
                 toDriver' = Append(toDriver, [op |-> "rotate", generation |-> generation + 1,
                                               enabled |-> enabled])
    BY DEF ChannelTypes, Rotate, ToDriver

(* DropReader forgets the reader and tells it, and rotates. *)
LEMMA Drops ==
    ASSUME TypeOK, ChannelTypes, NEW w, DropReader(w)
    PROVE  /\ toReader' \in [Readers -> Seq(ToReader)]
           /\ reader' = NoReader /\ pending' = FALSE /\ opened' = FALSE
           /\ generation' \in Nat /\ toDriver' \in Seq(ToDriver)
<1>1. Append(toReader[reader], [op |-> "reset"]) \in Seq(ToReader) \/ reader = NoReader
    BY DEF TypeOK, ChannelTypes, ToReader
<1>2. toReader' \in [Readers -> Seq(ToReader)]
    BY <1>1 DEF TypeOK, ChannelTypes, DropReader
<1>3. generation' \in Nat /\ toDriver' \in Seq(ToDriver)
    <2>1. generation \in Nat
        BY DEF TypeOK
    <2>2. Rotate(w, FALSE)
        BY DEF DropReader
    <2>3. toDriver' \in Seq(ToDriver) /\ generation' = generation + 1
        BY <2>1, <2>2, Rotates
    <2> QED
        BY <2>1, <2>3
<1> QED
    BY <1>2, <1>3 DEF DropReader

(* A closed connection leaves nothing to be read. *)
LEMMA Closes ==
    ASSUME TypeOK, ChannelTypes, OpensOnce, NEW r \in Readers,
           phase[r] \in {"waiting", "streaming", "lost"}, Close(r)
    PROVE  /\ phase' \in [Readers -> Phases] /\ mapping' \in [Readers -> 0..allocated]
           /\ fromReader' \in [Readers -> FromReader]
           /\ toReader' \in [Readers -> Seq(ToReader)]
<1>1. Append(fromReader[r], Gone) \in FromReader
    <2>1. fromReader[r] \in {<<>>, <<Open>>}
        BY DEF ChannelTypes, FromReader, OpensOnce
    <2>2. Append(<<>>, Gone) = <<Gone>> /\ Append(<<Open>>, Gone) = <<Open, Gone>>
        BY ShortQueues
    <2> QED
        BY <2>1, <2>2 DEF FromReader
<1>2. fromReader' \in [Readers -> FromReader]
    BY <1>1 DEF Close, ChannelTypes, Gone
<1>3. phase' \in [Readers -> Phases] /\ mapping' \in [Readers -> 0..allocated]
    BY DEF Close, TypeOK, Phases, NoRing
<1>4. toReader' \in [Readers -> Seq(ToReader)]
    BY DEF Close, ChannelTypes
<1> QED
    BY <1>2, <1>3, <1>4

(* Fewer peers than there are are busy, so one is free.                    *)
LEMMA OneIsFree ==
    ASSUME TypeOK, ChannelTypes, FewLeft, budget.restarts > 0 \/ peer = NoPeer
    PROVE  FreePeer \in Peers /\ FreePeer \notin {writer, peer} /\ fromDriver[FreePeer] = <<>>
<1> DEFINE Busy == Left \union ({peer} \ {NoPeer})
<1>1. IsFiniteSet(Peers) /\ Cardinality(Peers) = MaxRestarts + 2
    BY FS_Interval DEF Peers
<1>2. IsFiniteSet(Left) /\ Cardinality(Left) \in Nat
    BY <1>1, FS_Subset, FS_CardinalityType DEF Left
<1>3. IsFiniteSet(Left \union {peer}) /\ Cardinality(Left \union {peer}) <= Cardinality(Left) + 1
    <2>1. /\ IsFiniteSet(Left \union {peer})
          /\ Cardinality(Left \union {peer}) =
                IF peer \in Left THEN Cardinality(Left) ELSE Cardinality(Left) + 1
        BY <1>2, FS_AddElement
    <2> QED
        BY <1>2, <2>1
<1>4. budget.restarts \in 0..MaxRestarts
    BY DEF ChannelTypes
<1>5. Cardinality(Left) <= MaxRestarts
    BY <1>2, <1>4 DEF FewLeft
<1>6. \E p \in Peers : p \notin Left \union {peer}
    <2>1. CASE Peers \subseteq Left \union {peer}
        <3>1. Cardinality(Peers) <= Cardinality(Left \union {peer})
            BY <1>3, <2>1, FS_Subset
        <3>2. Cardinality(Left \union {peer}) \in Nat
            BY <1>3, FS_CardinalityType
        <3> QED
            BY <1>1, <1>2, <1>3, <1>5, <3>1, <3>2
    <2> QED
        BY <2>1
<1>7. \E p \in Peers : p \notin {writer, peer} /\ fromDriver[p] = <<>>
    BY <1>6 DEF Left
<1> QED
    BY <1>7 DEF FreePeer

-----------------------------------------------------------------------------
(* Types are kept by every step. *)
LEMMA StepTypes == IInv /\ [Next]_vars => TypeOK' /\ ChannelTypes'
<1> SUFFICES ASSUME IInv, [Next]_vars PROVE TypeOK' /\ ChannelTypes'
    OBVIOUS
<1>0. TypeOK /\ ChannelTypes /\ GrantsAreRings /\ OpensOnce /\ FewLeft /\ PublishedOnce
    BY DEF IInv
<1> USE DEF TypeOK, ChannelTypes
<1>1. CASE SessionChanged
    BY <1>0, <1>1, Drops DEF SessionChanged, driverVars, readerVars
<1>2. ASSUME NEW p \in Peers, BrokerTurnsAway(p) PROVE TypeOK' /\ ChannelTypes'
    <2>1. toDriver' \in Seq(ToDriver)
        BY <1>0, <1>2, SeverTypes DEF BrokerTurnsAway
    <2> QED
        BY <1>0, <1>2, <2>1 DEF BrokerTurnsAway, brokerVars, driverVars, readerVars,
                                environmentVars
<1>3. ASSUME NEW p \in Peers, BrokerHello(p) PROVE TypeOK' /\ ChannelTypes'
    <2>1. toDriver' \in Seq(ToDriver) /\ generation' \in Nat
        <3>1. (reader # NoReader /\ opened) \in BOOLEAN /\ generation \in Nat
            BY <1>0
        <3>2. toDriver' \in Seq(ToDriver) /\ generation' = generation + 1
            BY <1>0, <1>3, <3>1, Rotates DEF BrokerHello
        <3> QED
            BY <3>1, <3>2
    <2>2. fromDriver' \in [Peers -> Seq(FromDriver)]
        BY <1>0, <1>3 DEF BrokerHello, Arrives
    <2> QED
        BY <1>0, <1>3, <2>1, <2>2 DEF BrokerHello, driverVars, readerVars, environmentVars
<1>4. ASSUME NEW p \in Peers, BrokerPublish(p) PROVE TypeOK' /\ ChannelTypes'
    <2> DEFINE message == Head(fromDriver[p])
    <2>1. fromDriver' \in [Peers -> Seq(FromDriver)]
        BY <1>0, <1>4 DEF BrokerPublish, Arrives
    <2>2. CASE pending' = FALSE /\ UNCHANGED <<reader, opened, generation, toDriver>>
               /\ reader \in Readers /\ message.ring # NoRing
               /\ toReader' = [toReader EXCEPT ![reader] =
                               Append(@, [op |-> "grant", ring |-> message.ring])]
               /\ lent' = [lent EXCEPT ![reader] = message.ring]
        <3>1. message \in FromDriver /\ message = fromDriver[p][1] /\ message.op = "publish"
              /\ Len(fromDriver[p]) >= 1
            BY <1>0, <1>4, Taken DEF BrokerPublish, Arrives
        <3>2. message.ring \in 1..allocated
            BY <1>0, <2>2, <3>1 DEF PublishedOnce, Publishes
        <3>3. lent' \in [Readers -> 0..allocated]
            BY <1>0, <2>2, <3>2
        <3>4. toReader' \in [Readers -> Seq(ToReader)]
            BY <1>0, <2>2, <3>2 DEF ToReader
        <3> QED
            BY <1>0, <1>4, <2>1, <2>2, <3>3, <3>4
            DEF BrokerPublish, driverVars, readerVars, environmentVars
    <2>3. CASE DropReader(writer) /\ UNCHANGED lent
        BY <1>0, <1>4, <2>1, <2>3, Drops
        DEF BrokerPublish, driverVars, readerVars, environmentVars
    <2>4. CASE UNCHANGED <<reader, pending, opened, generation, toDriver, toReader, lent>>
        BY <1>0, <1>4, <2>1, <2>4
        DEF BrokerPublish, driverVars, readerVars, environmentVars
    <2> QED
        BY <1>0, <1>4, <2>2, <2>3, <2>4 DEF BrokerPublish, Wanted
<1>5. ASSUME NEW p \in Peers, BrokerWriterGone(p) PROVE TypeOK' /\ ChannelTypes'
    <2>1. fromDriver' \in [Peers -> Seq(FromDriver)]
        BY <1>0, <1>5 DEF BrokerWriterGone, Arrives
    <2> QED
        BY <1>0, <1>5, <2>1, Drops
        DEF BrokerWriterGone, brokerVars, driverVars, readerVars, environmentVars
<1>6. ASSUME NEW r \in Readers, BrokerOpen(r) PROVE TypeOK' /\ ChannelTypes'
    <2>1. fromReader' \in [Readers -> FromReader]
        <3>1. fromReader[r] \in FromReader /\ fromReader[r] # <<>>
            BY <1>0, <1>6 DEF BrokerOpen, Arrives
        <3>2. Tail(fromReader[r]) \in FromReader
            <4>1. Tail(<<Open>>) = <<>> /\ Tail(<<Gone>>) = <<>> /\ Tail(<<Open, Gone>>) = <<Gone>>
                BY ShortQueues
            <4> QED
                BY <3>1, <4>1 DEF FromReader
        <3> QED
            BY <1>0, <1>6, <3>2 DEF BrokerOpen
    <2>2. CASE pending' = TRUE /\ reader' = r /\ opened' = TRUE /\ Rotate(writer, TRUE)
               /\ UNCHANGED toReader
        <3>1. toDriver' \in Seq(ToDriver) /\ generation' \in Nat
            <4>1. generation \in Nat
                BY <1>0
            <4>2. toDriver' \in Seq(ToDriver) /\ generation' = generation + 1
                BY <1>0, <2>2, <4>1, Rotates
            <4> QED
                BY <4>1, <4>2
        <3> QED
            BY <1>0, <1>6, <2>1, <2>2, <3>1
            DEF BrokerOpen, driverVars, readerVars, environmentVars
    <2>3. CASE toReader' = [toReader EXCEPT ![r] = Append(@, [op |-> "refused"])]
               /\ UNCHANGED <<pending, reader, opened, generation, toDriver>>
        <3>1. toReader' \in [Readers -> Seq(ToReader)]
            BY <1>0, <2>3 DEF ToReader
        <3> QED
            BY <1>0, <1>6, <2>1, <2>3, <3>1
            DEF BrokerOpen, driverVars, readerVars, environmentVars
    <2> QED
        BY <1>6, <2>2, <2>3 DEF BrokerOpen
<1>7. ASSUME NEW r \in Readers, BrokerReaderGone(r) PROVE TypeOK' /\ ChannelTypes'
    <2>1. fromReader' \in [Readers -> FromReader]
        <3>1. fromReader[r] \in FromReader /\ fromReader[r] # <<>>
            BY <1>0, <1>7 DEF BrokerReaderGone, Arrives
        <3>2. Tail(fromReader[r]) \in FromReader
            <4>1. Tail(<<Open>>) = <<>> /\ Tail(<<Gone>>) = <<>> /\ Tail(<<Open, Gone>>) = <<Gone>>
                BY ShortQueues
            <4> QED
                BY <3>1, <4>1 DEF FromReader
        <3> QED
            BY <1>0, <1>7, <3>2 DEF BrokerReaderGone
    <2> QED
        BY <1>0, <1>7, <2>1, Drops
        DEF BrokerReaderGone, driverVars, readerVars, environmentVars
<1>8. CASE DriverRotate
    <2> DEFINE message == Head(toDriver)
    <2>1. /\ message \in ToDriver /\ message.op = "rotate" /\ toDriver' \in Seq(ToDriver)
        BY <1>0, <1>8 DEF DriverRotate, Arrives
    <2>2. message.generation \in Nat
        BY <2>1 DEF ToDriver
    <2>3. ASSUME NEW ring \in Nat
          PROVE  [fromDriver EXCEPT ![peer] =
                     Append(@, [op |-> "publish", generation |-> message.generation,
                                ring |-> ring])] \in [Peers -> Seq(FromDriver)]
        <3> DEFINE m == [op |-> "publish", generation |-> message.generation, ring |-> ring]
        <3>1. m \in FromDriver
            BY <2>2, <2>3 DEF FromDriver
        <3> HIDE DEF m
        <3>2. \A p \in Peers : Append(fromDriver[p], m) \in Seq(FromDriver)
            BY <1>0, <3>1
        <3>3. [fromDriver EXCEPT ![peer] = Append(@, m)] \in [Peers -> Seq(FromDriver)]
            BY <1>0, <3>2
        <3> QED
            BY <3>3 DEF m
    <2>4. /\ \/ current' = FreshRing /\ allocated' = FreshRing
             \/ current' = NoRing /\ UNCHANGED allocated
          /\ fromDriver' \in [Peers -> Seq(FromDriver)]
        <3>1. FreshRing \in Nat /\ NoRing \in Nat
            BY <1>0 DEF FreshRing, NoRing
        <3> HIDE DEF TypeOK
        <3>2. /\ fromDriver \in [Peers -> Seq(FromDriver)]
              /\ \A ring \in {FreshRing, NoRing} :
                    [fromDriver EXCEPT ![peer] =
                     Append(@, [op |-> "publish", generation |-> message.generation,
                                ring |-> ring])] \in [Peers -> Seq(FromDriver)]
            BY <1>0, <2>3, <3>1
        <3> HIDE DEF ChannelTypes
        <3> QED
            BY <1>8, <3>2 DEF DriverRotate
    <2>5. /\ current' \in 0..allocated' /\ allocated' \in Nat /\ allocated <= allocated'
        BY <1>0, <2>4 DEF FreshRing, NoRing
    <2>6. mapping \in [Readers -> 0..allocated'] /\ lent \in [Readers -> 0..allocated']
        BY <1>0, <2>5
    <2> QED
        BY <1>0, <1>8, <2>1, <2>4, <2>5, <2>6
        DEF DriverRotate, brokerVars, readerVars, environmentVars
<1>9. CASE DriverConnectionError
    <2>1. toDriver' \in Seq(ToDriver)
        BY <1>0, <1>9, Taken DEF DriverConnectionError, Arrives
    <2>2. current' = NoRing /\ NoRing \in 0..allocated /\ peer' = NoPeer
        BY <1>0, <1>9 DEF DriverConnectionError, NoRing
    <2>3. helloDue' = TRUE \/ helloDue' = helloDue
        <3> HIDE DEF TypeOK, ChannelTypes
        <3> QED
            BY <1>9 DEF DriverConnectionError
    <2>4. helloDue' \in BOOLEAN
        BY <1>0, <2>3
    <2> QED
        BY <1>0, <1>9, <2>1, <2>2, <2>4
        DEF DriverConnectionError, brokerVars, readerVars, environmentVars
<1>10. CASE DriverHello
    <2>1. peer = NoPeer
        BY <1>10 DEF IInv, DriverHello, LiveConnection
    <2>2. FreePeer \in Peers
        BY <1>0, <2>1, OneIsFree
    <2>3. fromDriver' \in [Peers -> Seq(FromDriver)]
        BY <1>0, <1>10, <2>2 DEF DriverHello, FromDriver
    <2> QED
        BY <1>0, <1>10, <2>2, <2>3 DEF DriverHello, brokerVars, readerVars, environmentVars
<1>11. CASE DriverRestart
    <2>1. FreePeer \in Peers
        BY <1>0, <1>11, OneIsFree DEF DriverRestart
    <2>2. fromDriver' \in [Peers -> Seq(FromDriver)]
        <3>1. \A p \in Peers : /\ Append(fromDriver[p], Gone) \in Seq(FromDriver)
                               /\ fromDriver[p] \in Seq(FromDriver)
            BY <1>0 DEF FromDriver, Gone
        <3>2. <<Hello>> \in Seq(FromDriver)
            BY DEF FromDriver, Hello
        <3> QED
            BY <1>11, <3>1, <3>2 DEF DriverRestart, Gone, Hello
    <2>3. toDriver' \in Seq(ToDriver)
        <3>1. toDriver' = <<>>
            BY <1>11 DEF DriverRestart
        <3> QED
            BY <3>1
    <2>4. budget' \in [sessions : Nat, restarts : 0..MaxRestarts, crashes : Nat]
        <3>1. budget.restarts - 1 \in 0..MaxRestarts
            BY <1>0, <1>11 DEF DriverRestart
        <3> QED
            BY <1>0, <1>11, <3>1 DEF DriverRestart
    <2>5. current' = NoRing /\ NoRing \in 0..allocated
        BY <1>0, <1>11 DEF DriverRestart, NoRing
    <2>6. TypeOK'
        BY <1>0, <1>11, <2>1, <2>5 DEF DriverRestart, brokerVars, readerVars
    <2>7. ChannelTypes'
        BY <1>0, <1>11, <2>2, <2>3, <2>4 DEF DriverRestart
    <2> QED
        BY <2>6, <2>7
<1>12. ASSUME NEW r \in Readers, ReaderOpen(r) PROVE TypeOK' /\ ChannelTypes'
    BY <1>0, <1>12 DEF ReaderOpen, brokerVars, driverVars, environmentVars, Phases, FromReader,
                       Open
<1>13. ASSUME NEW r \in Readers, ReaderGranted(r) PROVE TypeOK' /\ ChannelTypes'
    <2>1. CASE Close(r)
        BY <1>0, <1>13, <2>1, Closes DEF ReaderGranted, brokerVars, driverVars, environmentVars
    <2>2. CASE /\ phase' = [phase EXCEPT ![r] = "streaming"]
               /\ mapping' = [mapping EXCEPT ![r] = Head(toReader[r]).ring]
               /\ toReader' = [toReader EXCEPT ![r] = Tail(@)]
               /\ UNCHANGED fromReader
        <3>1. Head(toReader[r]) = toReader[r][1] /\ Len(toReader[r]) >= 1
              /\ Head(toReader[r]).op = "grant"
            BY <1>0, <1>13 DEF ReaderGranted, Arrives
        <3>2. Head(toReader[r]).ring \in 0..allocated
            BY <1>0, <3>1 DEF GrantsAreRings
        <3>3. toReader' \in [Readers -> Seq(ToReader)]
            BY <1>0, <1>13, <2>2 DEF ReaderGranted, Arrives
        <3>4. phase' \in [Readers -> Phases] /\ mapping' \in [Readers -> 0..allocated]
            BY <1>0, <2>2, <3>2 DEF Phases
        <3> QED
            BY <1>0, <1>13, <2>2, <3>3, <3>4
            DEF ReaderGranted, brokerVars, driverVars, environmentVars
    <2> QED
        BY <1>13, <2>1, <2>2 DEF ReaderGranted
<1>14. ASSUME NEW r \in Readers,
              ReaderRefused(r) \/ ReaderTimeout(r) \/ ReaderClose(r)
       PROVE  TypeOK' /\ ChannelTypes'
    <2>1. /\ phase[r] \in {"waiting", "streaming", "lost"} /\ Close(r)
          /\ UNCHANGED <<brokerVars, driverVars, toDriver, fromDriver, environmentVars, lent>>
        BY <1>14 DEF ReaderRefused, ReaderTimeout, ReaderClose
    <2> QED
        BY <1>0, <2>1, Closes DEF brokerVars, driverVars, environmentVars
<1>15. ASSUME NEW r \in Readers, ReaderLost(r) PROVE TypeOK' /\ ChannelTypes'
    <2>1. toReader' \in [Readers -> Seq(ToReader)] /\ phase' \in [Readers -> Phases]
        BY <1>0, <1>15 DEF ReaderLost, Arrives, Phases
    <2>2. TypeOK'
        BY <1>0, <1>15, <2>1 DEF ReaderLost, brokerVars, driverVars, environmentVars
    <2>3. ChannelTypes'
        BY <1>0, <1>15, <2>1 DEF ReaderLost, brokerVars, driverVars, environmentVars
    <2> QED
        BY <2>2, <2>3
<1>16. ASSUME NEW user \in Users \union {NoUser}, ConsoleChanges(user)
       PROVE  TypeOK' /\ ChannelTypes'
    <2>1. budget' \in [sessions : Nat, restarts : 0..MaxRestarts, crashes : Nat]
        <3>1. budget.sessions - 1 \in Nat
            BY <1>0, <1>16 DEF ConsoleChanges
        <3> QED
            BY <1>0, <1>16, <3>1 DEF ConsoleChanges
    <2> QED
        BY <1>0, <1>16, <2>1 DEF ConsoleChanges, brokerVars, driverVars, readerVars, channelVars
<1>17. CASE BrokerCrash
    <2>1. toDriver' \in Seq(ToDriver)
        BY <1>0, <1>17, SeverTypes DEF BrokerCrash
    <2>2. toReader' \in [Readers -> Seq(ToReader)]
        <3>1. \A r \in Readers : /\ toReader[r] \in Seq(ToReader)
                                 /\ Append(toReader[r], [op |-> "reset"]) \in Seq(ToReader)
            BY <1>0 DEF ToReader
        <3> QED
            BY <1>17, <3>1 DEF BrokerCrash
    <2>3. fromDriver' \in [Peers -> Seq(FromDriver)] /\ fromReader' \in [Readers -> FromReader]
        <3>1. <<>> \in Seq(FromDriver) /\ <<>> \in FromReader
            BY DEF FromReader
        <3>2. fromDriver' = [p \in Peers |-> <<>>] /\ fromReader' = [r \in Readers |-> <<>>]
            BY <1>17 DEF BrokerCrash
        <3> HIDE DEF TypeOK, ChannelTypes
        <3> QED
            BY <3>1, <3>2
    <2>4. budget' \in [sessions : Nat, restarts : 0..MaxRestarts, crashes : Nat]
        <3>1. budget.crashes - 1 \in Nat
            BY <1>0, <1>17 DEF BrokerCrash
        <3> QED
            BY <1>0, <1>17, <3>1 DEF BrokerCrash
    <2> QED
        BY <1>0, <1>17, <2>1, <2>2, <2>3, <2>4 DEF BrokerCrash, driverVars, readerVars
<1>18. CASE UNCHANGED vars
    BY <1>0, <1>18 DEF vars, brokerVars, driverVars, readerVars, channelVars, environmentVars
<1> HIDE DEF TypeOK, ChannelTypes
<1> QED
    BY <1>1, <1>2, <1>3, <1>4, <1>5, <1>6, <1>7, <1>8, <1>9, <1>10, <1>11, <1>12, <1>13,
       <1>14, <1>15, <1>16, <1>17, <1>18
    DEF Next, WriterEvent, ReaderEvent, DriverStep, ReaderStep

-----------------------------------------------------------------------------
(* The driver's connection *)

(* What Rotate does to the events of the driver's connection.              *)
LEMMA Rotated ==
    ASSUME TypeOK, ChannelTypes, LiveConnection, NEW w, NEW enabled \in BOOLEAN,
           Rotate(w, enabled), w = peer => ~ Severed
    PROVE  \/ toDriver' = toDriver /\ (w = NoPeer \/ w # peer)
           \/ /\ w = peer /\ w # NoPeer /\ toDriver' # <<>> /\ ~ Severed'
              /\ \A i \in 1..Len(toDriver') : toDriver'[i].op # "error"
<1> DEFINE m == [op |-> "rotate", generation |-> generation + 1, enabled |-> enabled]
<1>1. toDriver \in Seq(ToDriver) /\ generation \in Nat
    BY DEF TypeOK, ChannelTypes
<1>2. m \in ToDriver /\ m.op = "rotate"
    BY <1>1 DEF ToDriver
<1>3. CASE w = NoPeer \/ w # peer
    BY <1>3 DEF Rotate
<1>4. CASE w = peer /\ w # NoPeer
    <2>1. toDriver' = Append(toDriver, m)
        BY <1>4 DEF Rotate
    <2> HIDE DEF m
    <2>2. /\ toDriver' # <<>> /\ Len(toDriver') = Len(toDriver) + 1
          /\ toDriver'[Len(toDriver) + 1] = m
          /\ \A i \in 1..Len(toDriver) : toDriver'[i] = toDriver[i]
        BY <1>1, <1>2, <2>1, Appended
    <2>3. \A i \in 1..Len(toDriver) : toDriver[i].op # "error"
        BY <1>1, <1>4 DEF LiveConnection, Severed
    <2>4. \A i \in 1..Len(toDriver') : toDriver'[i].op # "error"
        BY <1>1, <1>2, <2>2, <2>3
    <2>5. ~ Severed'
        BY <1>1, <1>2, <2>2 DEF Severed
    <2> QED
        BY <1>4, <2>2, <2>4, <2>5
<1> QED
    BY <1>3, <1>4

(* After Sever the driver's connection ends with an error.                 *)
LEMMA Severs ==
    ASSUME ChannelTypes, LiveConnection, Sever
    PROVE  /\ toDriver' # <<>> /\ Severed'
           /\ \A i \in 1..Len(toDriver') : toDriver'[i].op = "error" => i = Len(toDriver')
<1> DEFINE m == [op |-> "error"]
<1>1. toDriver \in Seq(ToDriver) /\ m \in ToDriver /\ m.op = "error"
    BY DEF ChannelTypes, ToDriver
<1>2. CASE Severed
    BY <1>2 DEF Sever, Severed, LiveConnection
<1>3. CASE ~ Severed
    <2>1. toDriver' = Append(toDriver, m)
        BY <1>3 DEF Sever
    <2> HIDE DEF m
    <2>2. /\ toDriver' # <<>> /\ Len(toDriver') = Len(toDriver) + 1
          /\ toDriver'[Len(toDriver) + 1] = m
          /\ \A i \in 1..Len(toDriver) : toDriver'[i] = toDriver[i]
        BY <1>1, <2>1, Appended
    <2>3. \A i \in 1..Len(toDriver) : toDriver[i].op # "error"
        BY <1>1, <1>3 DEF LiveConnection, Severed
    <2> QED
        BY <1>1, <2>2, <2>3 DEF Severed
<1> QED
    BY <1>2, <1>3

(* A restart apart, no step leaves more peers behind than there were.      *)
LEMMA FewerLeft ==
    ASSUME FewLeft, budget.restarts \in Nat, budget'.restarts = budget.restarts,
           Left' \subseteq Left
    PROVE  FewLeft'
<1>1. IsFiniteSet(Peers)
    BY FS_Interval DEF Peers
<1>2. IsFiniteSet(Left)
    BY <1>1, FS_Subset DEF Left
<1>3. Cardinality(Left') <= Cardinality(Left) /\ IsFiniteSet(Left')
    BY <1>2, FS_Subset
<1>4. Cardinality(Left) \in Nat /\ Cardinality(Left') \in Nat
    BY <1>2, <1>3, FS_CardinalityType
<1>5. Cardinality(Left)' = Cardinality(Left')
    OBVIOUS
<1> QED
    BY <1>3, <1>4 DEF FewLeft

(* The broker's steps of a peer's connection keep what is known of it.     *)
LEMMA BrokerKeepsConnection ==
    ASSUME IInv, TypeOK', ChannelTypes', NEW p \in Peers, WriterEvent(p)
    PROVE  LiveConnection' /\ DeadConnections' /\ FewLeft'
<1>0. /\ TypeOK /\ ChannelTypes /\ LiveConnection /\ DeadConnections /\ FewLeft
      /\ NoPeer \notin Peers /\ budget.restarts \in Nat
      /\ (writer # NoPeer /\ writer = peer => ~ Severed)
    <2>1. TypeOK /\ ChannelTypes /\ LiveConnection /\ DeadConnections /\ FewLeft
        BY DEF IInv
    <2>2. budget.restarts \in Nat
        BY <2>1 DEF ChannelTypes
    <2>3. NoPeer \notin Peers
        BY DEF Peers, NoPeer
    <2>4. writer # NoPeer /\ writer = peer => ~ Severed
        BY <2>1 DEF LiveConnection
    <2> QED
        BY <2>1, <2>2, <2>3, <2>4
<1> DEFINE q == fromDriver[p]
           Kept == LiveConnection' /\ DeadConnections' /\ FewLeft'
<1>1. q \in Seq(FromDriver) /\ fromDriver \in [Peers -> Seq(FromDriver)]
    BY <1>0 DEF ChannelTypes
<1>2. ASSUME q # <<>>
      PROVE  /\ Tail(q) \in Seq(FromDriver) /\ Head(q) = q[1]
             /\ Len(q) \in Nat /\ Len(q) >= 1 /\ Len(Tail(q)) = Len(q) - 1
             /\ \A i \in 1..Len(Tail(q)) : Tail(q)[i] = q[i + 1]
    BY <1>1, <1>2, Taken
<1>3. ASSUME BrokerTurnsAway(p) PROVE Kept
    <2>1. /\ p # writer /\ q # <<>> /\ fromDriver' = [fromDriver EXCEPT ![p] = <<>>]
          /\ UNCHANGED <<writer, peer, current, helloDue, budget>>
        BY <1>3 DEF BrokerTurnsAway, Arrives, brokerVars, driverVars, environmentVars
    <2>2. LiveConnection'
        <3>1. CASE p = peer
            <4>1. Sever
                BY <1>3, <3>1 DEF BrokerTurnsAway
            <4>2. /\ toDriver' # <<>> /\ Severed'
                  /\ \A i \in 1..Len(toDriver') :
                        toDriver'[i].op = "error" => i = Len(toDriver')
                BY <1>0, <4>1, Severs
            <4> QED
                BY <1>0, <1>1, <2>1, <3>1, <4>2 DEF LiveConnection
        <3>2. CASE p # peer
            BY <1>0, <1>1, <1>3, <2>1, <3>2 DEF BrokerTurnsAway, LiveConnection, Severed
        <3> QED
            BY <3>1, <3>2
    <2>3. DeadConnections'
        BY <1>0, <1>1, <2>1 DEF DeadConnections, TypeOK
    <2>4. Left' \subseteq Left
        BY <1>1, <2>1 DEF Left
    <2> QED
        BY <1>0, <2>1, <2>2, <2>3, <2>4, FewerLeft
<1>4. ASSUME BrokerHello(p) PROVE Kept
    <2>1. /\ q # <<>> /\ q[1].op = "hello" /\ fromDriver' = [fromDriver EXCEPT ![p] = Tail(q)]
          /\ writer' = p /\ UNCHANGED <<peer, current, helloDue, budget>>
          /\ Rotate(p, reader # NoReader /\ opened)
        BY <1>2, <1>4 DEF BrokerHello, Arrives, driverVars, environmentVars
    <2>2. writer = NoPeer
        BY <1>0, <1>2, <1>4, <2>1 DEF BrokerHello, DeadConnections
    <2>3. p = peer => toDriver = <<>> /\ q = <<Hello>> /\ ~ Severed
        BY <1>0, <2>1, <2>2 DEF LiveConnection, Severed
    <2>4. p = peer => Tail(q) = <<>>
        BY <2>3, ShortQueues
    <2>5. p # peer => Tail(q) # <<>>
        <3>1. p # peer => Len(q) # 1
            BY <1>0, <1>2, <2>1 DEF DeadConnections
        <3>2. p # peer => Len(Tail(q)) # 0
            BY <1>2, <2>1, <3>1
        <3>3. Len(<<>>) = 0
            OBVIOUS
        <3> QED
            BY <3>2, <3>3
    <2>6. \/ toDriver' = toDriver /\ p # peer
          \/ /\ p = peer /\ toDriver' # <<>> /\ ~ Severed'
             /\ \A i \in 1..Len(toDriver') : toDriver'[i].op # "error"
        <3>1. (reader # NoReader /\ opened) \in BOOLEAN
            BY <1>0 DEF TypeOK
        <3>2. p = peer => ~ Severed
            BY <2>3
        <3> HIDE DEF q
        <3>3. \/ toDriver' = toDriver /\ (p = NoPeer \/ p # peer)
              \/ /\ p = peer /\ p # NoPeer /\ toDriver' # <<>> /\ ~ Severed'
                 /\ \A i \in 1..Len(toDriver') : toDriver'[i].op # "error"
            BY <1>0, <2>1, <3>1, <3>2, Rotated
        <3> QED
            BY <1>0, <3>3
    <2>7. LiveConnection'
        <3>1. CASE p = peer
            BY <1>0, <2>1, <2>6, <3>1 DEF LiveConnection
        <3>2. CASE p # peer
            BY <1>0, <1>1, <2>1, <2>2, <2>6, <3>2 DEF LiveConnection, Severed
        <3> QED
            BY <3>1, <3>2
    <2>8. DeadConnections'
        BY <1>0, <1>1, <1>2, <2>1, <2>2, <2>4, <2>5 DEF DeadConnections
    <2>9. Left' \subseteq Left
        BY <1>1, <2>1, <2>2 DEF Left
    <2> QED
        BY <1>0, <2>1, <2>7, <2>8, <2>9, FewerLeft
<1>5. ASSUME BrokerPublish(p) PROVE Kept
    <2>1. /\ q # <<>> /\ q[1].op = "publish" /\ fromDriver' = [fromDriver EXCEPT ![p] = Tail(q)]
          /\ writer = p /\ UNCHANGED <<writer, peer, current, helloDue, budget>>
        BY <1>2, <1>5 DEF BrokerPublish, Arrives, driverVars, environmentVars
    <2>2. \/ toDriver' = toDriver
          \/ /\ p = peer /\ toDriver' # <<>> /\ ~ Severed'
             /\ \A i \in 1..Len(toDriver') : toDriver'[i].op # "error"
        <3> HIDE DEF q
        <3>1. UNCHANGED toDriver \/ DropReader(writer)
            BY <1>5 DEF BrokerPublish
        <3>2. CASE DropReader(writer)
            <4>1. Rotate(writer, FALSE)
                BY <3>2 DEF DropReader
            <4>2. \/ toDriver' = toDriver /\ (writer = NoPeer \/ writer # peer)
                  \/ /\ writer = peer /\ writer # NoPeer /\ toDriver' # <<>> /\ ~ Severed'
                     /\ \A i \in 1..Len(toDriver') : toDriver'[i].op # "error"
                <5>1. writer = peer => ~ Severed
                    BY <1>0, <2>1
                <5> QED
                    BY <1>0, <4>1, <5>1, Rotated
            <4> QED
                BY <2>1, <4>2
        <3> QED
            BY <3>1, <3>2
    <2>3. p # peer => Tail(q) # <<>>
        <3>1. p # peer => Len(q) # 1
            BY <1>0, <1>2, <2>1 DEF DeadConnections
        <3>2. p # peer => Len(Tail(q)) # 0
            BY <1>2, <2>1, <3>1
        <3>3. Len(<<>>) = 0
            OBVIOUS
        <3> QED
            BY <3>2, <3>3
    <2>4. LiveConnection'
        <3>1. CASE p = peer
            BY <1>0, <1>1, <2>1, <2>2, <3>1 DEF LiveConnection, Severed
        <3>2. CASE p # peer
            BY <1>0, <1>1, <2>1, <2>2, <3>2 DEF LiveConnection, Severed
        <3> QED
            BY <3>1, <3>2
    <2>5. DeadConnections'
        BY <1>0, <1>1, <1>2, <2>1, <2>3 DEF DeadConnections
    <2>6. Left' \subseteq Left
        BY <1>1, <2>1 DEF Left
    <2> QED
        BY <1>0, <2>1, <2>4, <2>5, <2>6, FewerLeft
<1>6. ASSUME BrokerWriterGone(p) PROVE Kept
    <2>1. /\ q # <<>> /\ q[1].op = "gone" /\ fromDriver' = [fromDriver EXCEPT ![p] = Tail(q)]
          /\ UNCHANGED <<peer, current, helloDue, budget>>
          /\ \/ p = writer /\ writer' = NoPeer
             \/ p # writer /\ writer' = writer
        BY <1>2, <1>6 DEF BrokerWriterGone, Arrives, brokerVars, driverVars, environmentVars
    <2>2. p # peer /\ Tail(q) = <<>>
        BY <1>0, <1>1, <1>2, <2>1 DEF DeadConnections
    <2>3. toDriver' = toDriver
        <3> HIDE DEF q
        <3>1. UNCHANGED toDriver \/ DropReader(NoPeer)
            BY <1>6 DEF BrokerWriterGone
        <3> QED
            BY <3>1 DEF DropReader, Rotate
    <2>4. LiveConnection'
        <3>1. \A n \in Peers : n # p => fromDriver'[n] = fromDriver[n]
            BY <1>1, <2>1
        <3>2. (Severed' <=> Severed) /\ (peer # NoPeer /\ writer' = peer => writer = peer)
            BY <1>0, <2>1, <2>2, <2>3 DEF Severed, TypeOK
        <3>3. peer \in Peers \union {NoPeer} /\ (writer = peer /\ p # writer => writer' = writer)
            BY <1>0, <2>1 DEF TypeOK
        <3>4. peer # NoPeer /\ writer' # peer => writer # peer
            BY <1>0, <2>1, <2>2
        <3> HIDE DEF q
        <3>5. fromDriver'[peer] = fromDriver[peer] \/ peer = NoPeer
            BY <2>2, <3>1, <3>3
        <3> QED
            BY <1>0, <2>1, <2>3, <3>2, <3>4, <3>5 DEF LiveConnection
    <2>5. DeadConnections'
        BY <1>0, <1>1, <1>2, <2>1, <2>2 DEF DeadConnections
    <2>6. Left' \subseteq Left
        BY <1>0, <1>1, <2>1 DEF Left
    <2> QED
        BY <1>0, <2>1, <2>4, <2>5, <2>6, FewerLeft
<1> QED
    BY <1>3, <1>4, <1>5, <1>6 DEF WriterEvent

(* So does every other step in which the driver's process has no part: it  *)
(* rotates, changes nothing of the connection, or is the broker's crash.   *)
LEMMA RotationKeepsConnection ==
    ASSUME IInv, UNCHANGED <<writer, peer, current, helloDue, fromDriver>>,
           budget'.restarts = budget.restarts,
           UNCHANGED toDriver \/ \E enabled \in BOOLEAN : Rotate(writer, enabled)
    PROVE  LiveConnection' /\ DeadConnections' /\ FewLeft'
<1>1. /\ TypeOK /\ ChannelTypes /\ LiveConnection /\ DeadConnections /\ FewLeft
    BY DEF IInv
<1>2. budget.restarts \in Nat /\ (writer = peer /\ writer # NoPeer => ~ Severed)
    BY <1>1 DEF ChannelTypes, LiveConnection
<1> DEFINE Shape == \/ toDriver' = toDriver
                    \/ /\ writer = peer /\ writer # NoPeer /\ toDriver' # <<>> /\ ~ Severed'
                       /\ \A i \in 1..Len(toDriver') : toDriver'[i].op # "error"
<1>3. Shape
    <2>1. CASE UNCHANGED toDriver
        BY <2>1
    <2>2. ASSUME NEW enabled \in BOOLEAN, Rotate(writer, enabled) PROVE Shape
        <3>1. CASE writer = NoPeer
            BY <2>2, <3>1 DEF Rotate
        <3>2. CASE writer # NoPeer
            BY <1>1, <1>2, <2>2, <3>2, Rotated
        <3> QED
            BY <3>1, <3>2
    <2> QED
        BY <2>1, <2>2
<1>4. LiveConnection'
    BY <1>1, <1>3 DEF LiveConnection, Severed
<1>5. DeadConnections'
    BY <1>1 DEF DeadConnections
<1>6. Left' = Left
    BY DEF Left, Peers
<1> QED
    BY <1>1, <1>2, <1>4, <1>5, <1>6, FewerLeft

(* A new broker knows nobody, and its driver's connection is closed.       *)
LEMMA CrashKeepsConnection ==
    ASSUME IInv, BrokerCrash
    PROVE  LiveConnection' /\ DeadConnections' /\ FewLeft'
<1>1. /\ TypeOK /\ ChannelTypes /\ LiveConnection /\ DeadConnections /\ FewLeft
    BY DEF IInv
<1>2. /\ writer' = NoPeer /\ UNCHANGED <<peer, current, helloDue>>
      /\ fromDriver' = [p \in Peers |-> <<>>]
      /\ IF peer = NoPeer THEN UNCHANGED toDriver ELSE Sever
    BY DEF BrokerCrash, driverVars
<1>3. NoPeer \notin Peers /\ peer \in Peers \union {NoPeer}
    BY <1>1 DEF Peers, NoPeer, TypeOK
<1>4. LiveConnection'
    <2>1. CASE peer = NoPeer
        BY <1>1, <1>2, <2>1 DEF LiveConnection, Severed
    <2>2. CASE peer # NoPeer
        <3>1. /\ toDriver' # <<>> /\ Severed'
              /\ \A i \in 1..Len(toDriver') : toDriver'[i].op = "error" => i = Len(toDriver')
            BY <1>1, <1>2, <2>2, Severs
        <3> QED
            BY <1>1, <1>2, <1>3, <2>2, <3>1 DEF LiveConnection
    <2> QED
        BY <2>1, <2>2
<1>5. DeadConnections'
    BY <1>2 DEF DeadConnections
<1>6. Left' \subseteq Left
    BY <1>2, <1>3 DEF Left
<1>7. budget.restarts \in Nat /\ budget'.restarts = budget.restarts
    BY <1>1 DEF ChannelTypes, BrokerCrash
<1> QED
    BY <1>1, <1>4, <1>5, <1>6, <1>7, FewerLeft

(* The driver's side of the connection. *)
LEMMA DriverKeepsConnection ==
    ASSUME IInv, TypeOK', ChannelTypes', DriverStep
    PROVE  LiveConnection' /\ DeadConnections' /\ FewLeft'
<1>0. /\ TypeOK /\ ChannelTypes /\ LiveConnection /\ DeadConnections /\ FewLeft
    BY DEF IInv
<1> DEFINE Kept == LiveConnection' /\ DeadConnections' /\ FewLeft'
<1>1. NoPeer \notin Peers /\ peer \in Peers \union {NoPeer} /\ writer \in Peers \union {NoPeer}
    BY <1>0 DEF Peers, NoPeer, TypeOK
<1>2. toDriver \in Seq(ToDriver) /\ fromDriver \in [Peers -> Seq(FromDriver)]
    BY <1>0 DEF ChannelTypes
<1>3. ASSUME toDriver # <<>>
      PROVE  /\ Head(toDriver) = toDriver[1]
             /\ Len(toDriver) \in Nat /\ Len(toDriver) >= 1
             /\ Len(Tail(toDriver)) = Len(toDriver) - 1
             /\ \A i \in 1..Len(Tail(toDriver)) : Tail(toDriver)[i] = toDriver[i + 1]
    BY <1>2, <1>3, Taken
<1>4. budget.restarts \in Nat
    BY <1>0 DEF ChannelTypes
<1>5. ASSUME DriverRotate PROVE Kept
    <2>1. /\ toDriver # <<>> /\ toDriver[1].op = "rotate" /\ toDriver' = Tail(toDriver)
          /\ UNCHANGED <<writer, peer, helloDue, budget>>
        BY <1>3, <1>5 DEF DriverRotate, Arrives, brokerVars, environmentVars
    <2>2. /\ Len(toDriver') = Len(toDriver) - 1
          /\ \A i \in 1..Len(toDriver') : toDriver'[i] = toDriver[i + 1]
        BY <1>3, <2>1
    <2>3. peer # NoPeer
        BY <1>0, <2>1 DEF LiveConnection
    <2>4. CASE Severed
        <3>1. fromDriver' = fromDriver
            BY <1>5, <2>4 DEF DriverRotate
        <3>2. Len(toDriver) # 1
            BY <2>1, <2>4 DEF Severed
        <3>3. toDriver' # <<>> /\ Severed'
            BY <1>3, <2>1, <2>2, <2>4, <3>2 DEF Severed
        <3>4. LiveConnection'
            <4>1. \A i \in 1..Len(toDriver') :
                     toDriver'[i].op = "error" => i = Len(toDriver')
                <5>1. ASSUME NEW i \in 1..Len(toDriver'), toDriver'[i].op = "error"
                      PROVE  i = Len(toDriver')
                    <6>1. i + 1 \in 1..Len(toDriver) /\ toDriver'[i] = toDriver[i + 1]
                        BY <1>3, <2>1, <2>2, <5>1
                    <6>2. i + 1 = Len(toDriver)
                        BY <1>0, <5>1, <6>1 DEF LiveConnection
                    <6>3. Len(toDriver') = Len(toDriver) - 1 /\ Len(toDriver) \in Nat
                        BY <1>3, <2>1, <2>2
                    <6>4. i \in Int
                        BY <5>1
                    <6> QED
                        BY <6>2, <6>3, <6>4
                <5> QED
                    BY <5>1
            <4> QED
                BY <1>0, <2>1, <2>3, <2>4, <3>1, <3>3, <4>1 DEF LiveConnection
        <3>5. DeadConnections'
            BY <1>0, <2>1, <3>1 DEF DeadConnections
        <3>6. Left' \subseteq Left
            BY <2>1, <3>1 DEF Left, Peers
        <3> QED
            BY <1>0, <1>4, <2>1, <3>4, <3>5, <3>6, FewerLeft
    <2>5. CASE ~ Severed
        <3>1. writer = peer
            BY <1>0, <2>1, <2>3, <2>5 DEF LiveConnection
        <3>2. \A i \in 1..Len(toDriver) : toDriver[i].op # "error"
            BY <1>0, <2>1, <2>5 DEF LiveConnection, Severed
        <3>3. \A i \in 1..Len(toDriver') : toDriver'[i].op # "error"
            BY <1>3, <2>1, <2>2, <3>2
        <3>4. ~ Severed'
            <4>1. toDriver' \in Seq(ToDriver)
                BY DEF ChannelTypes
            <4> QED
                BY <3>3, <4>1 DEF Severed
        <3>5. LiveConnection'
            BY <1>0, <2>1, <2>3, <3>1, <3>3, <3>4 DEF LiveConnection
        <3>6. \/ fromDriver' = fromDriver
              \/ \E ring \in Nat :
                    fromDriver' = [fromDriver EXCEPT ![peer] =
                        Append(@, [op |-> "publish", generation |-> Head(toDriver).generation,
                                   ring |-> ring])]
            <4>1. FreshRing \in Nat /\ NoRing \in Nat
                BY <1>0 DEF FreshRing, NoRing, TypeOK
            <4> QED
                BY <1>5, <2>5, <4>1 DEF DriverRotate
        <3>7. DeadConnections'
            <4>1. CASE fromDriver' = fromDriver
                BY <1>0, <2>1, <4>1 DEF DeadConnections
            <4>2. ASSUME NEW ring \in Nat,
                         fromDriver' = [fromDriver EXCEPT ![peer] =
                            Append(@, [op |-> "publish", generation |-> Head(toDriver).generation,
                                       ring |-> ring])]
                  PROVE  DeadConnections'
                <5> DEFINE m == [op |-> "publish", generation |-> Head(toDriver).generation,
                                 ring |-> ring]
                <5>1. m.op = "publish" /\ peer \in Peers
                    BY <1>1, <2>3
                <5> HIDE DEF m
                <5>2. fromDriver' = [fromDriver EXCEPT ![peer] = Append(@, m)]
                    BY <4>2 DEF m
                <5>3. /\ \A p \in Peers : p # peer => fromDriver'[p] = fromDriver[p]
                      /\ fromDriver'[peer] = Append(fromDriver[peer], m)
                    BY <1>2, <5>1, <5>2
                <5>4. /\ Len(fromDriver'[peer]) = Len(fromDriver[peer]) + 1
                      /\ fromDriver'[peer][Len(fromDriver[peer]) + 1] = m
                      /\ \A i \in 1..Len(fromDriver[peer]) :
                            fromDriver'[peer][i] = fromDriver[peer][i]
                      /\ Len(fromDriver[peer]) \in Nat
                    BY <1>2, <5>1, <5>3
                <5>5. ASSUME NEW p \in Peers, NEW i \in 1..Len(fromDriver'[p])
                      PROVE  /\ fromDriver'[p][i].op = "gone" =>
                                   p # peer /\ i = Len(fromDriver'[p])
                             /\ p # peer /\ i = Len(fromDriver'[p]) =>
                                   fromDriver'[p][i].op = "gone"
                             /\ fromDriver'[p][i].op = "hello" => i = 1 /\ p # writer
                    BY <1>0, <5>1, <5>3, <5>4, <5>5 DEF DeadConnections
                <5>6. writer \notin {NoPeer, peer} => fromDriver'[writer] # <<>>
                    BY <3>1
                <5> QED
                    BY <2>1, <5>5, <5>6 DEF DeadConnections, Peers
            <4> QED
                BY <3>6, <4>1, <4>2
        <3>8. Left' \subseteq Left
            BY <1>1, <1>2, <2>1, <2>3, <3>6 DEF Left, Peers
        <3> QED
            BY <1>0, <1>4, <2>1, <3>5, <3>7, <3>8, FewerLeft
    <2> QED
        BY <2>4, <2>5
<1>6. ASSUME DriverConnectionError PROVE Kept
    <2>1. /\ toDriver # <<>> /\ toDriver[1].op = "error" /\ toDriver' = Tail(toDriver)
          /\ UNCHANGED <<writer, fromDriver, budget>> /\ peer' = NoPeer /\ current' = NoRing
        BY <1>3, <1>6 DEF DriverConnectionError, Arrives, brokerVars, environmentVars
    <2>2. Len(toDriver) = 1 /\ toDriver' = <<>>
        <3>1. Len(toDriver) = 1 /\ Len(Tail(toDriver)) = 0
            <4>1. Len(toDriver) >= 1 /\ Len(toDriver) \in Nat
                  /\ Len(Tail(toDriver)) = Len(toDriver) - 1
                BY <1>3, <2>1
            <4>2. 1 \in 1..Len(toDriver)
                BY <4>1
            <4>3. 1 = Len(toDriver)
                BY <1>0, <2>1, <4>2 DEF LiveConnection
            <4> QED
                BY <4>1, <4>3
        <3>2. Tail(toDriver) \in Seq(ToDriver)
            BY <1>2, <2>1, Taken
        <3> QED
            BY <2>1, <3>1, <3>2, EmptySeq
    <2>3. writer # peer /\ (peer # NoPeer => fromDriver[peer] = <<>>)
        BY <1>0, <2>1, <2>2 DEF LiveConnection, Severed
    <2>4. LiveConnection'
        BY <2>1, <2>2 DEF LiveConnection, Severed
    <2>5. DeadConnections'
        BY <1>0, <1>1, <1>2, <2>1, <2>3 DEF DeadConnections
    <2>6. Left' \subseteq Left
        BY <1>1, <2>1, <2>3 DEF Left, Peers
    <2> QED
        BY <1>0, <1>4, <2>1, <2>4, <2>5, <2>6, FewerLeft
<1>7. ASSUME DriverHello PROVE Kept
    <2>1. peer = NoPeer /\ toDriver = <<>> /\ current = NoRing
        BY <1>0, <1>7 DEF DriverHello, LiveConnection
    <2>2. FreePeer \in Peers /\ FreePeer \notin {writer, peer} /\ fromDriver[FreePeer] = <<>>
        BY <1>0, <2>1, OneIsFree
    <2>3. /\ peer' = FreePeer /\ fromDriver' = [fromDriver EXCEPT ![FreePeer] = <<Hello>>]
          /\ UNCHANGED <<writer, current, toDriver, budget>> /\ helloDue' = FALSE
        BY <1>7 DEF DriverHello, brokerVars, environmentVars, Hello
    <2>4. LiveConnection'
        BY <1>1, <1>2, <2>1, <2>2, <2>3 DEF LiveConnection, Severed
    <2>5. DeadConnections'
        <3> DEFINE free == FreePeer
        <3>1. /\ \A p \in Peers : p # free => fromDriver'[p] = fromDriver[p]
              /\ fromDriver'[free] = <<Hello>>
              /\ Len(<<Hello>>) = 1 /\ <<Hello>>[1] = Hello
              /\ peer' = free /\ free # writer /\ free \in Peers /\ writer' = writer
            BY <1>2, <2>2, <2>3
        <3>2. Hello.op = "hello"
            BY DEF Hello
        <3> HIDE DEF free
        <3> QED
            BY <1>0, <1>1, <2>1, <3>1, <3>2 DEF DeadConnections
    <2>6. Left' \subseteq Left
        BY <1>1, <1>2, <2>1, <2>2, <2>3 DEF Left, Peers
    <2> QED
        BY <1>0, <1>4, <2>3, <2>4, <2>5, <2>6, FewerLeft
<1> QED
    BY <1>5, <1>6, <1>7 DEF DriverStep

(* A restart of the driver's process leaves at most one more peer behind.  *)
LEMMA RestartKeepsConnection ==
    ASSUME IInv, DriverRestart
    PROVE  LiveConnection' /\ DeadConnections' /\ FewLeft'
<1>0. TypeOK /\ ChannelTypes /\ LiveConnection /\ DeadConnections /\ FewLeft
    BY DEF IInv
<1>1. NoPeer \notin Peers /\ peer \in Peers \union {NoPeer} /\ writer \in Peers \union {NoPeer}
    BY <1>0 DEF Peers, NoPeer, TypeOK
<1> DEFINE free == FreePeer
           next == [p \in Peers |-> IF p = free THEN <<Hello>>
                                    ELSE IF p = peer /\ ~ Severed
                                         THEN Append(fromDriver[p], Gone)
                                    ELSE fromDriver[p]]
<1>2. budget.restarts > 0 /\ free \in Peers /\ free \notin {writer, peer} /\ fromDriver[free] = <<>>
    BY <1>0, OneIsFree DEF DriverRestart
<1>3. /\ peer' = free /\ fromDriver' = next /\ writer' = writer
      /\ toDriver' = <<>> /\ current' = NoRing /\ helloDue' = FALSE
    BY DEF DriverRestart, brokerVars, Hello, Gone
<1> HIDE DEF free
<1>4. /\ fromDriver'[free] = <<Hello>>
      /\ \A p \in Peers : p \notin {free, peer} => fromDriver'[p] = fromDriver[p]
      /\ peer # NoPeer /\ Severed => fromDriver'[peer] = fromDriver[peer]
      /\ peer # NoPeer /\ ~ Severed => fromDriver'[peer] = Append(fromDriver[peer], Gone)
    BY <1>1, <1>2, <1>3
<1>5. \A p \in Peers : fromDriver[p] \in Seq(FromDriver)
    BY <1>0 DEF ChannelTypes
<1>6. LiveConnection'
    BY <1>2, <1>3, <1>4 DEF LiveConnection, Severed
<1>7. DeadConnections'
    <2>1. Gone \in FromDriver /\ Gone.op = "gone" /\ Hello.op = "hello"
        BY DEF Gone, FromDriver, Hello
    <2>2. ASSUME NEW p \in Peers, NEW i \in 1..Len(fromDriver'[p])
          PROVE  /\ fromDriver'[p][i].op = "gone" => p # peer' /\ i = Len(fromDriver'[p])
                 /\ p # peer' /\ i = Len(fromDriver'[p]) => fromDriver'[p][i].op = "gone"
                 /\ fromDriver'[p][i].op = "hello" => i = 1 /\ p # writer'
        <3>1. CASE p = free
            <4>1. Len(<<Hello>>) = 1 /\ <<Hello>>[1] = Hello
                OBVIOUS
            <4>2. i = 1 /\ fromDriver'[p][i] = Hello
                <5>1. fromDriver'[p] = <<Hello>>
                    BY <1>4, <3>1
                <5>2. i \in 1..Len(<<Hello>>)
                    BY <2>2, <5>1
                <5>3. i = 1
                    BY <4>1, <5>2
                <5> QED
                    BY <4>1, <5>1, <5>3
            <4> QED
                BY <1>2, <1>3, <2>1, <3>1, <4>2
        <3>2. CASE p # free /\ p # peer
            BY <1>0, <1>3, <1>4, <2>2, <3>2 DEF DeadConnections
        <3>3. CASE p = peer /\ Severed
            <4>1. fromDriver'[p] = <<>>
                BY <1>0, <1>1, <1>4, <3>3 DEF LiveConnection
            <4>2. Len(<<>>) = 0
                OBVIOUS
            <4> QED
                BY <2>2, <4>1, <4>2
        <3>4. CASE p = peer /\ ~ Severed
            <4>1. /\ Len(fromDriver'[p]) = Len(fromDriver[p]) + 1
                  /\ fromDriver'[p][Len(fromDriver[p]) + 1] = Gone
                  /\ \A j \in 1..Len(fromDriver[p]) : fromDriver'[p][j] = fromDriver[p][j]
                  /\ Len(fromDriver[p]) \in Nat
                BY <1>1, <1>4, <1>5, <2>1, <3>4, Appended
            <4>2. CASE i = Len(fromDriver[p]) + 1
                BY <1>2, <1>3, <2>1, <3>4, <4>1, <4>2
            <4>3. CASE i # Len(fromDriver[p]) + 1
                <5>1. i \in 1..Len(fromDriver[p]) /\ i # Len(fromDriver'[p])
                      /\ fromDriver'[p][i] = fromDriver[p][i]
                    BY <2>2, <4>1, <4>3
                <5> QED
                    BY <1>0, <1>3, <3>4, <5>1 DEF DeadConnections
            <4> QED
                BY <4>2, <4>3
        <3> QED
            BY <3>1, <3>2, <3>3, <3>4
    <2>3. writer' \notin {NoPeer, peer'} => fromDriver'[writer'] # <<>>
        <3>1. CASE writer \in {NoPeer, free}
            BY <1>3, <3>1
        <3>2. CASE writer \notin {NoPeer, free, peer}
            BY <1>0, <1>1, <1>3, <1>4, <3>2 DEF DeadConnections
        <3>3. CASE writer = peer /\ writer # NoPeer
            <4>1. ~ Severed
                BY <1>0, <3>3 DEF LiveConnection
            <4>2. fromDriver'[peer] # <<>>
                BY <1>1, <1>4, <1>5, <2>1, <3>3, <4>1, Appended
            <4> QED
                BY <1>3, <3>3, <4>2
        <3> QED
            BY <3>1, <3>2, <3>3
    <2> QED
        BY <2>2, <2>3 DEF DeadConnections, Peers
<1>8. FewLeft'
    <2>1. Left' \subseteq Left \union {peer}
        <3>1. ASSUME NEW p \in Left', p # peer PROVE p \in Left
            <4>1. p \in Peers /\ p # free /\ (p = writer \/ fromDriver'[p] # <<>>)
                BY <1>3, <3>1 DEF Left, Peers
            <4>2. fromDriver'[p] = fromDriver[p]
                BY <1>4, <3>1, <4>1
            <4> QED
                BY <3>1, <4>1, <4>2 DEF Left
        <3> QED
            BY <3>1
    <2>2. IsFiniteSet(Left) /\ Cardinality(Left) \in Nat
        <3>1. IsFiniteSet(Peers)
            BY FS_Interval DEF Peers
        <3> QED
            BY <3>1, FS_Subset, FS_CardinalityType DEF Left
    <2>3. /\ IsFiniteSet(Left \union {peer})
          /\ Cardinality(Left \union {peer}) =
                IF peer \in Left THEN Cardinality(Left) ELSE Cardinality(Left) + 1
        BY <2>2, FS_AddElement
    <2>4. IsFiniteSet(Left') /\ Cardinality(Left') <= Cardinality(Left \union {peer})
        BY <2>1, <2>3, FS_Subset
    <2>5. Cardinality(Left') \in Nat /\ Cardinality(Left') <= Cardinality(Left) + 1
        BY <2>2, <2>3, <2>4, FS_CardinalityType
    <2>6. budget.restarts \in Nat /\ budget'.restarts = budget.restarts - 1
        BY <1>0 DEF ChannelTypes, DriverRestart
    <2>7. Cardinality(Left') <= MaxRestarts - budget'.restarts
        BY <1>0, <2>2, <2>5, <2>6 DEF FewLeft
    <2> QED
        BY <2>7 DEF FewLeft
<1> QED
    BY <1>6, <1>7, <1>8

(* The driver's connection is in one of its states after every step.       *)
LEMMA StepConnection ==
    ASSUME IInv, TypeOK', ChannelTypes', [Next]_vars
    PROVE  LiveConnection' /\ DeadConnections' /\ FewLeft'
<1> DEFINE Kept == LiveConnection' /\ DeadConnections' /\ FewLeft'
           Frame == /\ UNCHANGED <<writer, peer, current, helloDue, fromDriver>>
                    /\ budget'.restarts = budget.restarts
<1>1. CASE SessionChanged
    BY <1>1, RotationKeepsConnection
    DEF SessionChanged, DropReader, driverVars
<1>2. ASSUME NEW p \in Peers, WriterEvent(p) PROVE Kept
    BY <1>2, BrokerKeepsConnection
<1>3. ASSUME NEW r \in Readers, ReaderEvent(r) PROVE Kept
    <2>1. Frame
        BY <1>3 DEF ReaderEvent, BrokerOpen, BrokerReaderGone, driverVars, environmentVars
    <2>2. UNCHANGED toDriver \/ \E enabled \in BOOLEAN : Rotate(writer, enabled)
        BY <1>3 DEF ReaderEvent, BrokerOpen, BrokerReaderGone, DropReader
    <2> QED
        BY <2>1, <2>2, RotationKeepsConnection
<1>4. CASE DriverStep
    BY <1>4, DriverKeepsConnection
<1>5. CASE DriverRestart
    BY <1>5, RestartKeepsConnection
<1>6. ASSUME NEW r \in Readers,
             ReaderOpen(r) \/ ReaderStep(r) \/ ReaderTimeout(r) \/ ReaderClose(r)
      PROVE  Kept
    <2>1. Frame /\ UNCHANGED toDriver
        BY <1>6 DEF ReaderOpen, ReaderStep, ReaderGranted, ReaderRefused, ReaderLost,
                    ReaderTimeout, ReaderClose, brokerVars, driverVars, environmentVars
    <2> QED
        BY <2>1, RotationKeepsConnection
<1>7. ASSUME NEW user \in Users \union {NoUser}, ConsoleChanges(user) PROVE Kept
    <2>1. Frame /\ UNCHANGED toDriver
        <3>1. budget'.restarts = budget.restarts
            BY <1>7 DEF IInv, ChannelTypes, ConsoleChanges
        <3> QED
            BY <1>7, <3>1 DEF ConsoleChanges, brokerVars, driverVars, channelVars
    <2> QED
        BY <2>1, RotationKeepsConnection
<1>8. CASE BrokerCrash
    BY <1>8, CrashKeepsConnection
<1>9. CASE UNCHANGED vars
    <2>1. Frame /\ UNCHANGED toDriver
        BY <1>9 DEF vars, brokerVars, driverVars, channelVars, environmentVars
    <2> QED
        BY <2>1, RotationKeepsConnection
<1> QED
    BY <1>1, <1>2, <1>3, <1>4, <1>5, <1>6, <1>7, <1>8, <1>9 DEF Next

-----------------------------------------------------------------------------
(* The helpers' connections *)

(* What a helper's queue can become when a step sends it at most one event *)
(* and it takes at most one.                                               *)
NoNewGrant(r) ==
    \/ toReader'[r] = toReader[r]
    \/ toReader'[r] = <<>>
    \/ toReader[r] # <<>> /\ toReader'[r] = Tail(toReader[r])
    \/ \E m \in ToReader : /\ toReader'[r] = Append(toReader[r], m)
                           /\ m.op = "grant" => m.ring \in 1..allocated

(* Grants stay grants of rings. *)
LEMMA GrantsStayRings ==
    ASSUME TypeOK, ChannelTypes, GrantsAreRings,
           allocated' \in Nat, allocated <= allocated', \A r \in Readers : NoNewGrant(r)
    PROVE  GrantsAreRings'
<1>1. allocated \in Nat /\ \A r \in Readers : toReader[r] \in Seq(ToReader)
    BY DEF TypeOK, ChannelTypes
<1>2. ASSUME NEW r \in Readers, NEW i \in 1..Len(toReader'[r]), toReader'[r][i].op = "grant"
      PROVE  toReader'[r][i].ring \in 1..allocated
    <2>1. CASE toReader'[r] = toReader[r]
        BY <1>2, <2>1 DEF GrantsAreRings
    <2>2. CASE toReader'[r] = <<>>
        <3>1. Len(<<>>) = 0
            OBVIOUS
        <3> QED
            BY <1>2, <2>2, <3>1
    <2>3. CASE toReader[r] # <<>> /\ toReader'[r] = Tail(toReader[r])
        <3>1. i + 1 \in 1..Len(toReader[r]) /\ toReader'[r][i] = toReader[r][i + 1]
            BY <1>1, <1>2, <2>3, Taken
        <3> QED
            BY <1>2, <3>1 DEF GrantsAreRings
    <2>4. ASSUME NEW m \in ToReader, toReader'[r] = Append(toReader[r], m),
                 m.op = "grant" => m.ring \in 1..allocated
          PROVE  toReader'[r][i].ring \in 1..allocated
        <3>1. /\ i \in 1..Len(toReader[r]) /\ toReader'[r][i] = toReader[r][i]
              \/ toReader'[r][i] = m
            BY <1>1, <1>2, <2>4, Appended
        <3> QED
            BY <1>2, <2>4, <3>1 DEF GrantsAreRings
    <2> QED
        BY <2>1, <2>2, <2>3, <2>4 DEF NoNewGrant
<1> QED
    BY <1>1, <1>2 DEF GrantsAreRings

(* A step that registers nobody and opens nothing keeps what is known of   *)
(* the opens.                                                              *)
LEMMA NothingOpened ==
    ASSUME OpensOnce, UNCHANGED <<phase, fromReader, lent>>,
           reader' \in {reader, NoReader}, pending' => pending /\ reader' = reader
    PROVE  OpensOnce'
    BY ProtocolAssumption DEF OpensOnce

(* Dropping the registered reader sends it a reset, and opens nothing.     *)
LEMMA DropsReader ==
    ASSUME TypeOK, ChannelTypes, NEW w, DropReader(w)
    PROVE  /\ \A r \in Readers : NoNewGrant(r)
           /\ reader' = NoReader /\ ~ pending'
<1> DEFINE m == [op |-> "reset"]
<1>1. m \in ToReader /\ m.op # "grant"
    BY DEF ToReader
<1>2. \A r \in Readers : toReader'[r] \in {toReader[r], Append(toReader[r], m)}
    BY DEF DropReader, ChannelTypes, TypeOK
<1> HIDE DEF m
<1> QED
    BY <1>1, <1>2 DEF NoNewGrant, DropReader

(* Closing a connection takes all that was sent to it. *)
LEMMA CloseKeeps ==
    ASSUME TypeOK, ChannelTypes, OpensOnce, NEW r \in Readers,
           phase[r] \in {"waiting", "streaming", "lost"}, Close(r),
           UNCHANGED <<reader, pending, lent>>
    PROVE  (\A n \in Readers : NoNewGrant(n)) /\ OpensOnce'
<1>1. \A n \in Readers : NoNewGrant(n)
    BY DEF Close, ChannelTypes, NoNewGrant
<1>2. /\ fromReader[r] \in {<<>>, <<Open>>}
      /\ fromReader[r] = <<>> => fromReader'[r] = <<Gone>>
      /\ fromReader[r] = <<Open>> => fromReader'[r] = <<Open, Gone>>
    <2>1. fromReader[r] \in {<<>>, <<Open>>}
        BY DEF ChannelTypes, FromReader, OpensOnce
    <2>2. fromReader'[r] = Append(fromReader[r], Gone)
        BY DEF Close, ChannelTypes, Gone
    <2>3. Append(<<>>, Gone) = <<Gone>> /\ Append(<<Open>>, Gone) = <<Open, Gone>>
        BY ShortQueues
    <2> QED
        BY <2>1, <2>2, <2>3
<1>3. /\ \A n \in Readers : n # r => fromReader'[n] = fromReader[n] /\ phase'[n] = phase[n]
      /\ phase'[r] = "closed"
    BY DEF Close, ChannelTypes, TypeOK
<1>4. <<Gone>> \notin {<<Open>>, <<Open, Gone>>}
    <2>1. <<Gone>>[1] = Gone /\ <<Open>>[1] = Open /\ <<Open, Gone>>[1] = Open /\ Open # Gone
        BY DEF Open, Gone
    <2> QED
        BY <2>1
<1>5. OpensOnce'
    BY <1>2, <1>3, <1>4 DEF OpensOnce
<1> QED
    BY <1>1, <1>5

(* What is taken from a helper's queue at the broker, and what stays. *)
LEMMA ReaderQueue ==
    ASSUME NEW q \in FromReader, q # <<>>
    PROVE  /\ Head(q).op = "open" => \/ q = <<Open>> /\ Tail(q) = <<>>
                                     \/ q = <<Open, Gone>> /\ Tail(q) = <<Gone>>
           /\ Head(q).op = "gone" => q = <<Gone>> /\ Tail(q) = <<>>
           /\ <<>> \notin {<<Open>>, <<Gone>>, <<Open, Gone>>}
           /\ <<Gone>> \notin {<<Open>>, <<Open, Gone>>}
<1>1. /\ Open.op = "open" /\ Gone.op = "gone" /\ Open # Gone
    BY DEF Open, Gone
<1>2. Tail(<<Open>>) = <<>> /\ Tail(<<Gone>>) = <<>> /\ Tail(<<Open, Gone>>) = <<Gone>>
    BY ShortQueues
<1>3. Head(<<Open>>) = Open /\ Head(<<Gone>>) = Gone /\ Head(<<Open, Gone>>) = Open
    OBVIOUS
<1>4. <<Gone>> \notin {<<Open>>, <<Open, Gone>>}
    BY <1>1, <1>3
<1>5. Len(<<Open>>) = 1 /\ Len(<<Gone>>) = 1 /\ Len(<<Open, Gone>>) = 2 /\ Len(<<>>) = 0
    OBVIOUS
<1>6. <<>> \notin {<<Open>>, <<Gone>>, <<Open, Gone>>}
    BY <1>5
<1> QED
    BY <1>1, <1>2, <1>3, <1>4, <1>6 DEF FromReader

(* Helpers open once and are granted rings, after every step. *)
LEMMA StepHelpers ==
    ASSUME IInv, TypeOK', ChannelTypes', [Next]_vars
    PROVE  GrantsAreRings' /\ OpensOnce'
<1>0. /\ TypeOK /\ ChannelTypes /\ GrantsAreRings /\ OpensOnce /\ PublishedOnce
      /\ allocated \in Nat /\ allocated' \in Nat
    BY DEF IInv, TypeOK
<1> DEFINE Kept == GrantsAreRings' /\ OpensOnce'
<1>1. ASSUME allocated <= allocated', UNCHANGED <<phase, fromReader, lent>>,
             UNCHANGED <<reader, pending, toReader>>
      PROVE  Kept
    BY <1>0, <1>1, GrantsStayRings, NothingOpened DEF NoNewGrant
<1>2. ASSUME UNCHANGED <<allocated, phase, fromReader, lent>>, DropReader(writer)
      PROVE  Kept
    BY <1>0, <1>2, GrantsStayRings, NothingOpened, DropsReader
<1>3. CASE SessionChanged
    BY <1>2, <1>3 DEF SessionChanged, driverVars, readerVars
<1>4. ASSUME NEW p \in Peers, BrokerTurnsAway(p) \/ BrokerHello(p) PROVE Kept
    BY <1>0, <1>1, <1>4
    DEF BrokerTurnsAway, BrokerHello, brokerVars, driverVars, readerVars
<1>5. ASSUME NEW p \in Peers, BrokerPublish(p) PROVE Kept
    <2> DEFINE message == Head(fromDriver[p])
    <2>1. UNCHANGED <<allocated, phase, fromReader>>
        BY <1>5 DEF BrokerPublish, driverVars, readerVars
    <2>2. CASE /\ reader \in Readers /\ pending /\ message.ring # NoRing
               /\ pending' = FALSE /\ UNCHANGED reader
               /\ toReader' = [toReader EXCEPT ![reader] =
                               Append(@, [op |-> "grant", ring |-> message.ring])]
               /\ lent' = [lent EXCEPT ![reader] = message.ring]
        <3>1. message.ring \in 1..allocated
            <4>1. /\ message = fromDriver[p][1] /\ message.op = "publish"
                  /\ Len(fromDriver[p]) \in Nat /\ Len(fromDriver[p]) >= 1
                BY <1>0, <1>5, Taken DEF BrokerPublish, Arrives, ChannelTypes
            <4> QED
                BY <1>0, <2>2, <4>1 DEF PublishedOnce, Publishes
        <3> DEFINE m == [op |-> "grant", ring |-> message.ring]
        <3>2. m \in ToReader /\ (m.op = "grant" => m.ring \in 1..allocated)
            BY <1>0, <3>1 DEF ToReader
        <3> HIDE DEF m
        <3>3. \A r \in Readers : NoNewGrant(r)
            <4>1. toReader' = [toReader EXCEPT ![reader] = Append(@, m)]
                BY <2>2 DEF m
            <4>2. \A r \in Readers : toReader'[r] \in {toReader[r], Append(toReader[r], m)}
                BY <1>0, <2>2, <4>1 DEF ChannelTypes
            <4> QED
                BY <3>2, <4>2 DEF NoNewGrant
        <3>4. GrantsAreRings'
            BY <1>0, <2>1, <3>3, GrantsStayRings
        <3>5. OpensOnce'
            <4>1. \A r \in Readers : r # reader => lent'[r] = lent[r]
                BY <1>0, <2>2 DEF TypeOK
            <4> QED
                BY <1>0, <2>1, <2>2, <4>1 DEF OpensOnce
        <3> QED
            BY <3>4, <3>5
    <2>3. CASE DropReader(writer) /\ UNCHANGED lent
        BY <1>2, <2>1, <2>3
    <2>4. CASE UNCHANGED <<reader, pending, toReader, lent>>
        BY <1>0, <1>1, <2>1, <2>4
    <2> QED
        BY <1>0, <1>5, <2>2, <2>3, <2>4 DEF BrokerPublish, Wanted, TypeOK
<1>6. ASSUME NEW p \in Peers, BrokerWriterGone(p) PROVE Kept
    <2>1. UNCHANGED <<allocated, phase, fromReader, lent>>
        BY <1>6 DEF BrokerWriterGone, driverVars, readerVars
    <2>2. UNCHANGED <<reader, pending, toReader>> \/ DropReader(NoPeer)
        BY <1>6 DEF BrokerWriterGone, brokerVars
    <2> QED
        BY <1>0, <1>1, <2>1, <2>2, GrantsStayRings, NothingOpened, DropsReader
<1>7. ASSUME NEW r \in Readers, BrokerOpen(r) PROVE Kept
    <2>1. /\ \/ fromReader[r] = <<Open>> /\ fromReader'[r] = <<>>
             \/ fromReader[r] = <<Open, Gone>> /\ fromReader'[r] = <<Gone>>
          /\ \A n \in Readers : n # r => fromReader'[n] = fromReader[n]
          /\ UNCHANGED <<allocated, phase, lent>>
        <3>1. fromReader[r] \in FromReader /\ fromReader[r] # <<>> /\ Head(fromReader[r]).op = "open"
            BY <1>0, <1>7 DEF BrokerOpen, Arrives, ChannelTypes
        <3>2. fromReader'[r] = Tail(fromReader[r])
              /\ \A n \in Readers : n # r => fromReader'[n] = fromReader[n]
            BY <1>0, <1>7 DEF BrokerOpen, ChannelTypes
        <3>3. UNCHANGED <<allocated, phase, lent>>
            BY <1>7 DEF BrokerOpen, driverVars, readerVars
        <3> QED
            BY <3>1, <3>2, <3>3, ReaderQueue
    <2>2. /\ <<>> \notin {<<Open>>, <<Gone>>, <<Open, Gone>>}
          /\ <<Gone>> \notin {<<Open>>, <<Open, Gone>>}
        BY <2>1, ReaderQueue DEF FromReader
    <2>3. reader # r /\ lent[r] = NoRing /\ phase[r] # "idle"
          /\ (fromReader'[r] = <<Gone>> => phase[r] = "closed")
        BY <1>0, <2>1, <2>2 DEF OpensOnce
    <2>4. CASE /\ reader = NoReader /\ pending' = TRUE /\ reader' = r /\ UNCHANGED toReader
        <3>1. GrantsAreRings'
            BY <1>0, <2>1, <2>4, GrantsStayRings DEF NoNewGrant
        <3>2. OpensOnce'
            BY <1>0, <2>1, <2>2, <2>3, <2>4 DEF OpensOnce
        <3> QED
            BY <3>1, <3>2
    <2>5. CASE /\ toReader' = [toReader EXCEPT ![r] = Append(@, [op |-> "refused"])]
               /\ UNCHANGED <<pending, reader>>
        <3> DEFINE m == [op |-> "refused"]
        <3>1. m \in ToReader /\ m.op # "grant"
            BY DEF ToReader
        <3>2. \A n \in Readers : toReader'[n] \in {toReader[n], Append(toReader[n], m)}
            BY <1>0, <2>5 DEF ChannelTypes
        <3> HIDE DEF m
        <3>3. \A n \in Readers : NoNewGrant(n)
            BY <3>1, <3>2 DEF NoNewGrant
        <3>4. GrantsAreRings'
            BY <1>0, <2>1, <3>3, GrantsStayRings
        <3>5. OpensOnce'
            BY <1>0, <2>1, <2>2, <2>3, <2>5 DEF OpensOnce
        <3> QED
            BY <3>4, <3>5
    <2> QED
        BY <1>7, <2>4, <2>5 DEF BrokerOpen
<1>8. ASSUME NEW r \in Readers, BrokerReaderGone(r) PROVE Kept
    <2>1. /\ fromReader[r] = <<Gone>> /\ fromReader'[r] = <<>>
          /\ \A n \in Readers : n # r => fromReader'[n] = fromReader[n]
          /\ UNCHANGED <<allocated, phase, lent>>
        <3>1. fromReader[r] \in FromReader /\ fromReader[r] # <<>> /\ Head(fromReader[r]).op = "gone"
            BY <1>0, <1>8 DEF BrokerReaderGone, Arrives, ChannelTypes
        <3>2. fromReader'[r] = Tail(fromReader[r])
              /\ \A n \in Readers : n # r => fromReader'[n] = fromReader[n]
            BY <1>0, <1>8 DEF BrokerReaderGone, ChannelTypes
        <3>3. UNCHANGED <<allocated, phase, lent>>
            BY <1>8 DEF BrokerReaderGone, driverVars, readerVars
        <3> QED
            BY <3>1, <3>2, <3>3, ReaderQueue
    <2>2. /\ <<>> \notin {<<Open>>, <<Gone>>, <<Open, Gone>>}
        BY <2>1, ReaderQueue DEF FromReader
    <2>3. /\ \A n \in Readers : NoNewGrant(n)
          /\ reader' \in {reader, NoReader} /\ (pending' => pending /\ reader' = reader)
        <3>1. CASE DropReader(writer)
            BY <1>0, <3>1, DropsReader
        <3>2. CASE UNCHANGED <<reader, pending, toReader>>
            BY <3>2 DEF NoNewGrant
        <3> QED
            BY <1>8, <3>1, <3>2 DEF BrokerReaderGone
    <2>4. GrantsAreRings'
        BY <1>0, <2>1, <2>3, GrantsStayRings
    <2>5. OpensOnce'
        BY <1>0, <2>1, <2>2, <2>3, ProtocolAssumption DEF OpensOnce
    <2> QED
        BY <2>4, <2>5
<1>9. CASE DriverStep \/ DriverRestart
    <2>1. allocated <= allocated'
        BY <1>0, <1>9 DEF DriverStep, DriverRotate, DriverConnectionError, DriverHello,
                          DriverRestart, FreshRing
    <2>2. /\ UNCHANGED <<phase, fromReader, lent>>
          /\ UNCHANGED <<reader, pending, toReader>>
        BY <1>9 DEF DriverStep, DriverRotate, DriverConnectionError, DriverHello,
                    DriverRestart, brokerVars, readerVars
    <2> QED
        BY <1>1, <2>1, <2>2
<1>10. ASSUME NEW r \in Readers, ReaderOpen(r) PROVE Kept
    <2>1. GrantsAreRings'
        BY <1>0, <1>10, GrantsStayRings DEF ReaderOpen, NoNewGrant, driverVars
    <2>2. /\ phase[r] = "idle" /\ phase'[r] = "waiting" /\ fromReader'[r] = <<Open>>
          /\ \A n \in Readers : n # r => fromReader'[n] = fromReader[n] /\ phase'[n] = phase[n]
          /\ UNCHANGED <<reader, pending, lent>>
        BY <1>0, <1>10 DEF ReaderOpen, ChannelTypes, TypeOK, Open, brokerVars
    <2>3. <<Open>> \notin {<<Gone>>, <<Open, Gone>>}
        <3>1. <<Gone>>[1] = Gone /\ <<Open>>[1] = Open /\ Open # Gone
            BY DEF Open, Gone
        <3>2. Len(<<Open>>) = 1 /\ Len(<<Open, Gone>>) = 2
            OBVIOUS
        <3> QED
            BY <3>1, <3>2
    <2>4. OpensOnce'
        BY <1>0, <2>2, <2>3 DEF OpensOnce
    <2> QED
        BY <2>1, <2>4
<1>11. ASSUME NEW r \in Readers, phase[r] \in {"waiting", "streaming", "lost"}, Close(r),
              UNCHANGED <<allocated, reader, pending, lent>>
       PROVE  Kept
    BY <1>0, <1>11, CloseKeeps, GrantsStayRings
<1>12. ASSUME NEW r \in Readers, ReaderRefused(r) \/ ReaderTimeout(r) \/ ReaderClose(r)
       PROVE  Kept
    BY <1>11, <1>12
    DEF ReaderRefused, ReaderTimeout, ReaderClose, brokerVars, driverVars
<1>13. ASSUME NEW r \in Readers, ReaderGranted(r) \/ ReaderLost(r) PROVE Kept
    <2>1. UNCHANGED <<allocated, reader, pending, lent>> /\ phase[r] \in {"waiting", "streaming"}
        BY <1>13 DEF ReaderGranted, ReaderLost, brokerVars, driverVars
    <2>2. CASE Close(r)
        BY <1>11, <2>1, <2>2
    <2>3. CASE /\ toReader[r] # <<>> /\ toReader' = [toReader EXCEPT ![r] = Tail(@)]
               /\ UNCHANGED fromReader
               /\ \/ phase' = [phase EXCEPT ![r] = "streaming"]
                  \/ phase[r] = "streaming" /\ phase' = [phase EXCEPT ![r] = "lost"]
        <3>1. \A n \in Readers : NoNewGrant(n)
            BY <1>0, <2>3 DEF NoNewGrant, ChannelTypes
        <3>2. GrantsAreRings'
            BY <1>0, <2>1, <3>1, GrantsStayRings
        <3>3. /\ phase'[r] \in {"streaming", "lost"}
              /\ \A n \in Readers : n # r => phase'[n] = phase[n]
            BY <1>0, <2>3 DEF TypeOK
        <3>4. OpensOnce'
            BY <1>0, <2>1, <2>3, <3>3 DEF OpensOnce
        <3> QED
            BY <3>2, <3>4
    <2> QED
        BY <1>13, <2>2, <2>3 DEF ReaderGranted, ReaderLost, Arrives
<1>14. ASSUME NEW user \in Users \union {NoUser}, ConsoleChanges(user) PROVE Kept
    BY <1>0, <1>1, <1>14 DEF ConsoleChanges, brokerVars, driverVars, readerVars, channelVars
<1>15. CASE BrokerCrash
    <2>1. UNCHANGED <<allocated, phase, lent>> /\ reader' = NoReader /\ pending' = FALSE
          /\ fromReader' = [r \in Readers |-> <<>>]
        BY <1>15 DEF BrokerCrash, driverVars, readerVars
    <2> DEFINE m == [op |-> "reset"]
    <2>2. m \in ToReader /\ m.op # "grant"
        BY DEF ToReader
    <2>3. \A n \in Readers : toReader'[n] \in {toReader[n], Append(toReader[n], m)}
        BY <1>15 DEF BrokerCrash
    <2> HIDE DEF m
    <2>4. \A n \in Readers : NoNewGrant(n)
        BY <2>2, <2>3 DEF NoNewGrant
    <2>5. GrantsAreRings'
        BY <1>0, <2>1, <2>4, GrantsStayRings
    <2>6. \A r \in Readers : fromReader'[r] = <<>>
                             /\ fromReader'[r] \notin {<<Open>>, <<Gone>>, <<Open, Gone>>}
        <3>1. Len(<<Open>>) = 1 /\ Len(<<Gone>>) = 1 /\ Len(<<Open, Gone>>) = 2 /\ Len(<<>>) = 0
            OBVIOUS
        <3> QED
            BY <2>1, <3>1
    <2>7. OpensOnce'
        BY <1>0, <2>1, <2>6, ProtocolAssumption DEF OpensOnce
    <2> QED
        BY <2>5, <2>7
<1>16. CASE UNCHANGED vars
    BY <1>0, <1>1, <1>16 DEF vars, brokerVars, driverVars, readerVars, channelVars
<1>17. ASSUME NEW p \in Peers, WriterEvent(p) PROVE Kept
    BY <1>4, <1>5, <1>6, <1>17 DEF WriterEvent
<1>18. ASSUME NEW r \in Readers, ReaderEvent(r) PROVE Kept
    BY <1>7, <1>8, <1>18 DEF ReaderEvent
<1>19. ASSUME NEW r \in Readers,
              ReaderOpen(r) \/ ReaderStep(r) \/ ReaderTimeout(r) \/ ReaderClose(r)
       PROVE  Kept
    BY <1>10, <1>12, <1>13, <1>19 DEF ReaderStep
<1> QED
    BY <1>3, <1>9, <1>14, <1>15, <1>16, <1>17, <1>18, <1>19 DEF Next

-----------------------------------------------------------------------------
(* Publications *)

(* What a peer's queue can become in a step that publishes no ring on it.  *)
NothingPublished(p) ==
    \/ fromDriver'[p] = fromDriver[p]
    \/ fromDriver'[p] \in {<<>>, <<Hello>>}
    \/ fromDriver[p] # <<>> /\ fromDriver'[p] = Tail(fromDriver[p])
    \/ \E m \in FromDriver : /\ fromDriver'[p] = Append(fromDriver[p], m)
                             /\ m.op = "publish" => m.ring = NoRing

(* Then every publication of it was there before, in the same order.       *)
LEMMA OldPublications ==
    ASSUME ChannelTypes, NEW p \in Peers, NothingPublished(p)
    PROVE  \E k \in {0, 1} : \A i \in Nat : Publishes(p, i)' =>
               Publishes(p, i + k) /\ fromDriver'[p][i].ring = fromDriver[p][i + k].ring
<1> DEFINE q == fromDriver[p]
           n == fromDriver'[p]
           Old(k) == \A i \in Nat : Publishes(p, i)' =>
               Publishes(p, i + k) /\ fromDriver'[p][i].ring = fromDriver[p][i + k].ring
<1>1. q \in Seq(FromDriver) /\ Len(q) \in Nat
    BY DEF ChannelTypes
<1>2. CASE n = q
    <2>1. \A i \in Nat : i + 0 = i
        OBVIOUS
    <2>2. Old(0)
        BY <1>2, <2>1 DEF Publishes
    <2> QED
        BY <2>2
<1>3. CASE n \in {<<>>, <<Hello>>}
    <2>1. Len(<<>>) = 0 /\ Len(<<Hello>>) = 1 /\ <<Hello>>[1] = Hello /\ Hello.op = "hello"
        BY DEF Hello
    <2>2. \A i \in Nat : ~ Publishes(p, i)'
        <3>1. ASSUME NEW i \in 1..Len(n) PROVE n[i].op # "publish"
            <4>1. n = <<Hello>>
                BY <1>3, <2>1, <3>1
            <4>2. i = 1
                BY <2>1, <3>1, <4>1
            <4> QED
                BY <2>1, <4>1, <4>2
        <3> QED
            BY <3>1 DEF Publishes
    <2>3. Old(0)
        BY <2>2
    <2> QED
        BY <2>3
<1>4. CASE q # <<>> /\ n = Tail(q)
    <2>1. Len(n) = Len(q) - 1 /\ \A i \in 1..Len(n) : n[i] = q[i + 1]
        BY <1>1, <1>4, Taken
    <2>2. \A i \in 1..Len(n) : i + 1 \in 1..Len(q)
        BY <1>1, <2>1
    <2> HIDE DEF q, n
    <2>3. ASSUME NEW i \in Nat, Publishes(p, i)'
          PROVE  Publishes(p, i + 1) /\ fromDriver'[p][i].ring = fromDriver[p][i + 1].ring
        <3>1. i \in 1..Len(n) /\ n[i].op = "publish" /\ n[i].ring # NoRing
            BY <2>3 DEF Publishes, n
        <3>2. n[i] = q[i + 1] /\ i + 1 \in 1..Len(q)
            BY <2>1, <2>2, <3>1
        <3> QED
            BY <3>1, <3>2 DEF Publishes, q, n
    <2>4. Old(1)
        BY <2>3
    <2> QED
        BY <2>4
<1>5. ASSUME NEW m \in FromDriver, n = Append(q, m), m.op = "publish" => m.ring = NoRing
      PROVE  Old(0)
    <2>1. /\ Len(n) = Len(q) + 1 /\ n[Len(q) + 1] = m
          /\ \A i \in 1..Len(q) : n[i] = q[i]
        BY <1>1, <1>5, Appended
    <2> HIDE DEF q, n
    <2>2. ASSUME NEW i \in Nat, Publishes(p, i)'
          PROVE  Publishes(p, i + 0) /\ fromDriver'[p][i].ring = fromDriver[p][i + 0].ring
        <3>1. i \in 1..Len(n) /\ n[i].op = "publish" /\ n[i].ring # NoRing
            BY <2>2 DEF Publishes, n
        <3>2. i # Len(q) + 1
            BY <1>5, <2>1, <3>1
        <3>3. i \in 1..Len(q)
            BY <1>1, <2>1, <3>1, <3>2
        <3>4. n[i] = q[i] /\ i + 0 = i
            BY <2>1, <3>3
        <3> QED
            BY <3>1, <3>3, <3>4 DEF Publishes, q, n
    <2> QED
        BY <2>2
<1> QED
    BY <1>2, <1>3, <1>4, <1>5 DEF NothingPublished

(* A step that publishes no ring, and gives no ring that is still being    *)
(* published, keeps the publications distinct.                             *)
LEMMA PublicationsStay ==
    ASSUME TypeOK, ChannelTypes, PublishedOnce, \A p \in Peers : NothingPublished(p),
           allocated' \in Nat, allocated <= allocated',
           \/ current' = NoRing
           \/ current' \in Nat /\ current' > allocated
           \/ current' = current /\ peer' = peer,
           \A r \in Readers : \/ lent'[r] = lent[r]
                              \/ \A p \in Peers, i \in Nat :
                                    Publishes(p, i)' => fromDriver'[p][i].ring # lent'[r]
    PROVE  PublishedOnce'
<1> DEFINE Old(p, k) == \A i \in Nat : Publishes(p, i)' =>
               Publishes(p, i + k) /\ fromDriver'[p][i].ring = fromDriver[p][i + k].ring
<1>1. \A p \in Peers : \E k \in {0, 1} : Old(p, k)
    BY OldPublications
<1>2. allocated \in Nat
    BY DEF TypeOK
<1>3. ASSUME NEW p \in Peers, NEW i \in Nat, Publishes(p, i)'
      PROVE  /\ fromDriver'[p][i].ring \in 1..allocated'
             /\ fromDriver'[p][i].ring = current' => p = peer'
             /\ \A r \in Readers : lent'[r] # fromDriver'[p][i].ring
             /\ \A q \in Peers, j \in Nat :
                   Publishes(q, j)' /\ fromDriver'[q][j].ring = fromDriver'[p][i].ring
                      => q = p /\ j = i
    <2>1. PICK k \in {0, 1} : Old(p, k)
        BY <1>1
    <2>2. /\ Publishes(p, i + k) /\ fromDriver'[p][i].ring = fromDriver[p][i + k].ring
          /\ i + k \in Nat
        BY <1>3, <2>1
    <2> HIDE DEF Old
    <2>3. /\ fromDriver[p][i + k].ring \in 1..allocated
          /\ fromDriver[p][i + k].ring = current => p = peer
          /\ \A r \in Readers : lent[r] # fromDriver[p][i + k].ring
          /\ \A q \in Peers, j \in Nat :
                Publishes(q, j) /\ fromDriver[q][j].ring = fromDriver[p][i + k].ring
                   => q = p /\ j = i + k
        BY <2>2 DEF PublishedOnce
    <2>4. fromDriver'[p][i].ring \in 1..allocated' /\ fromDriver'[p][i].ring \in 1..allocated
        BY <1>2, <2>2, <2>3
    <2>5. fromDriver'[p][i].ring = current' => p = peer'
        BY <1>2, <2>2, <2>3, <2>4 DEF NoRing
    <2>6. \A r \in Readers : lent'[r] # fromDriver'[p][i].ring
        BY <1>3, <2>2, <2>3
    <2>7. ASSUME NEW q \in Peers, NEW j \in Nat, Publishes(q, j)',
                 fromDriver'[q][j].ring = fromDriver'[p][i].ring
          PROVE  q = p /\ j = i
        <3>1. PICK l \in {0, 1} : Old(q, l)
            BY <1>1
        <3>2. /\ Publishes(q, j + l) /\ fromDriver'[q][j].ring = fromDriver[q][j + l].ring
              /\ j + l \in Nat
            BY <2>7, <3>1 DEF Old
        <3>3. q = p /\ j + l = i + k
            BY <2>2, <2>3, <2>7, <3>2
        <3>4. /\ Publishes(p, j + k) /\ fromDriver'[p][j].ring = fromDriver[p][j + k].ring
              /\ j + k \in Nat
            BY <2>1, <2>7, <3>3 DEF Old
        <3>5. j + k = i + k
            BY <2>2, <2>3, <2>7, <3>3, <3>4
        <3> QED
            BY <3>3, <3>5
    <2> QED
        BY <2>4, <2>5, <2>6, <2>7
<1> QED
    BY <1>3 DEF PublishedOnce, Peers

(* A fresh ring that the live connection publishes is another one.         *)
LEMMA FreshPublication ==
    ASSUME TypeOK, ChannelTypes, PublishedOnce, peer \in Peers,
           NEW m \in FromDriver, m.ring = allocated + 1,
           fromDriver' = [fromDriver EXCEPT ![peer] = Append(@, m)],
           allocated' = allocated + 1, current' = allocated + 1, UNCHANGED <<peer, lent>>
    PROVE  PublishedOnce'
<1> DEFINE n == Len(fromDriver[peer]) + 1
<1>1. /\ fromDriver[peer] \in Seq(FromDriver) /\ allocated \in Nat
      /\ lent \in [Readers -> 0..allocated] /\ n \in Nat
    BY DEF ChannelTypes, TypeOK
<1>2. /\ \A p \in Peers : p # peer => fromDriver'[p] = fromDriver[p]
      /\ fromDriver'[peer] = Append(fromDriver[peer], m)
    BY DEF ChannelTypes
<1>3. /\ Len(fromDriver'[peer]) = n /\ fromDriver'[peer][n] = m
      /\ \A i \in 1..Len(fromDriver[peer]) : fromDriver'[peer][i] = fromDriver[peer][i]
    BY <1>1, <1>2, Appended
<1>4. ASSUME NEW p \in Peers, NEW i \in Nat, Publishes(p, i)'
      PROVE  \/ p = peer /\ i = n /\ fromDriver'[p][i].ring = allocated + 1
             \/ /\ Publishes(p, i) /\ fromDriver'[p][i].ring = fromDriver[p][i].ring
                /\ fromDriver'[p][i].ring \in 1..allocated
    <2>1. i \in 1..Len(fromDriver'[p])
        BY <1>4 DEF Publishes
    <2>2. CASE p = peer /\ i = n
        BY <1>3, <2>2
    <2>3. CASE ~ (p = peer /\ i = n)
        <3>1. i \in 1..Len(fromDriver[p]) /\ fromDriver'[p][i] = fromDriver[p][i]
            BY <1>1, <1>2, <1>3, <2>1, <2>3
        <3>2. Publishes(p, i)
            BY <1>4, <3>1 DEF Publishes
        <3> QED
            BY <3>1, <3>2 DEF PublishedOnce
    <2> QED
        BY <2>2, <2>3
<1> HIDE DEF n
<1>5. ASSUME NEW p \in Peers, NEW i \in Nat, Publishes(p, i)'
      PROVE  /\ fromDriver'[p][i].ring \in 1..allocated'
             /\ fromDriver'[p][i].ring = current' => p = peer'
             /\ \A r \in Readers : lent'[r] # fromDriver'[p][i].ring
             /\ \A q \in Peers, j \in Nat :
                   Publishes(q, j)' /\ fromDriver'[q][j].ring = fromDriver'[p][i].ring
                      => q = p /\ j = i
    <2>1. fromDriver'[p][i].ring \in 1..allocated'
        <3>1. \A x : x = allocated + 1 \/ x \in 1..allocated => x \in 1..allocated'
            BY <1>1
        <3>2. fromDriver'[p][i].ring = allocated + 1 \/ fromDriver'[p][i].ring \in 1..allocated
            BY <1>4, <1>5
        <3> QED
            BY <3>1, <3>2
    <2>2. fromDriver'[p][i].ring = current' => p = peer'
        BY <1>1, <1>4, <1>5
    <2>3. \A r \in Readers : lent'[r] # fromDriver'[p][i].ring
        <3>1. \A r \in Readers : lent'[r] = lent[r] /\ lent[r] \in 0..allocated
            BY <1>1
        <3>2. CASE fromDriver'[p][i].ring = allocated + 1
            <4>1. \A x \in 0..allocated : x # allocated + 1
                BY <1>1
            <4> QED
                BY <3>1, <3>2, <4>1
        <3>3. CASE Publishes(p, i) /\ fromDriver'[p][i].ring = fromDriver[p][i].ring
            <4>1. \A r \in Readers : lent[r] # fromDriver[p][i].ring
                BY <3>3 DEF PublishedOnce
            <4> QED
                BY <3>1, <3>3, <4>1
        <3> QED
            BY <1>4, <1>5, <3>2, <3>3
    <2>4. ASSUME NEW q \in Peers, NEW j \in Nat, Publishes(q, j)',
                 fromDriver'[q][j].ring = fromDriver'[p][i].ring
          PROVE  q = p /\ j = i
        <3>1. \/ q = peer /\ j = n /\ fromDriver'[q][j].ring = allocated + 1
              \/ /\ Publishes(q, j) /\ fromDriver'[q][j].ring = fromDriver[q][j].ring
                 /\ fromDriver'[q][j].ring \in 1..allocated
            BY <1>4, <2>4
        <3>2. \/ p = peer /\ i = n /\ fromDriver'[p][i].ring = allocated + 1
              \/ /\ Publishes(p, i) /\ fromDriver'[p][i].ring = fromDriver[p][i].ring
                 /\ fromDriver'[p][i].ring \in 1..allocated
            BY <1>4, <1>5
        <3>3. allocated + 1 \notin 1..allocated
            BY <1>1
        <3> QED
            BY <2>4, <3>1, <3>2, <3>3 DEF PublishedOnce
    <2> QED
        BY <2>1, <2>2, <2>3, <2>4
<1> QED
    BY <1>5 DEF PublishedOnce, Peers

(* The rings that are being published are distinct after every step. *)
LEMMA StepPublished ==
    ASSUME IInv, TypeOK', ChannelTypes', [Next]_vars
    PROVE  PublishedOnce'
<1>0. /\ TypeOK /\ ChannelTypes /\ LiveConnection /\ DeadConnections /\ PublishedOnce /\ FewLeft
      /\ allocated \in Nat /\ allocated' \in Nat
      /\ fromDriver \in [Peers -> Seq(FromDriver)]
      /\ peer \in Peers \union {NoPeer} /\ NoPeer \notin Peers
    <2>1. TypeOK /\ ChannelTypes /\ LiveConnection /\ DeadConnections /\ PublishedOnce /\ FewLeft
        BY DEF IInv
    <2>2. allocated \in Nat /\ allocated' \in Nat /\ peer \in Peers \union {NoPeer}
        BY <2>1 DEF TypeOK
    <2>3. fromDriver \in [Peers -> Seq(FromDriver)]
        BY <2>1 DEF ChannelTypes
    <2>4. NoPeer \notin Peers
        BY DEF NoPeer, Peers
    <2> QED
        BY <2>1, <2>2, <2>3, <2>4
<1>1. ASSUME UNCHANGED <<allocated, current, peer, lent, fromDriver>> PROVE PublishedOnce'
    BY <1>0, <1>1, PublicationsStay DEF NothingPublished
<1>2. ASSUME NEW p \in Peers, fromDriver[p] # <<>>,
             fromDriver' \in {[fromDriver EXCEPT ![p] = <<>>],
                              [fromDriver EXCEPT ![p] = Tail(fromDriver[p])]}
      PROVE  \A n \in Peers : NothingPublished(n)
    BY <1>0, <1>2 DEF NothingPublished
<1>3. CASE SessionChanged
    BY <1>1, <1>3 DEF SessionChanged, driverVars
<1>4. ASSUME NEW p \in Peers,
             BrokerTurnsAway(p) \/ BrokerHello(p) \/ BrokerWriterGone(p)
      PROVE  PublishedOnce'
    <2>1. UNCHANGED <<allocated, current, peer, lent>>
        BY <1>4 DEF BrokerTurnsAway, BrokerHello, BrokerWriterGone, driverVars
    <2>2. \A n \in Peers : NothingPublished(n)
        BY <1>2, <1>4 DEF BrokerTurnsAway, BrokerHello, BrokerWriterGone, Arrives
    <2> QED
        BY <1>0, <2>1, <2>2, PublicationsStay
<1>5. ASSUME NEW p \in Peers, BrokerPublish(p) PROVE PublishedOnce'
    <2> DEFINE q == fromDriver[p]
               message == Head(q)
    <2>1. /\ UNCHANGED <<allocated, current, peer>>
          /\ q # <<>> /\ message.op = "publish"
          /\ fromDriver' = [fromDriver EXCEPT ![p] = Tail(q)]
        BY <1>5 DEF BrokerPublish, driverVars, Arrives
    <2>2. \A n \in Peers : NothingPublished(n)
        BY <1>2, <2>1
    <2>3. CASE UNCHANGED lent
        BY <1>0, <2>1, <2>2, <2>3, PublicationsStay
    <2>4. CASE message.ring # NoRing /\ lent' = [lent EXCEPT ![reader] = message.ring]
        <3>1. /\ q \in Seq(FromDriver) /\ message = q[1] /\ Len(q) \in Nat /\ Len(q) >= 1
              /\ Len(Tail(q)) = Len(q) - 1
              /\ \A i \in 1..Len(Tail(q)) : Tail(q)[i] = q[i + 1]
            BY <1>0, <2>1, Taken
        <3>2. Publishes(p, 1) /\ 1 \in Nat
            BY <2>1, <2>4, <3>1 DEF Publishes
        <3>3. /\ fromDriver'[p] = Tail(q)
              /\ \A n \in Peers : n # p => fromDriver'[n] = fromDriver[n]
            BY <1>0, <2>1
        <3>0. \A n \in Peers, i \in Nat :
                 Publishes(n, i) /\ fromDriver[n][i].ring = message.ring => n = p /\ i = 1
            BY <1>0, <3>1, <3>2 DEF PublishedOnce
        <3>4. ASSUME NEW n \in Peers, NEW i \in Nat, Publishes(n, i)'
              PROVE  fromDriver'[n][i].ring # message.ring
            <4>1. CASE n = p
                <5>1. i \in 1..Len(Tail(q)) /\ fromDriver'[n][i] = q[i + 1]
                    BY <3>1, <3>3, <3>4, <4>1 DEF Publishes
                <5>2. i + 1 \in 1..Len(q) /\ i + 1 \in Nat /\ i + 1 # 1
                    BY <3>1, <5>1
                <5>3. Publishes(p, i + 1)
                    BY <3>4, <5>1, <5>2 DEF Publishes
                <5> QED
                    BY <3>0, <5>1, <5>2, <5>3
            <4>2. CASE n # p
                <5>1. Publishes(n, i) /\ fromDriver'[n][i] = fromDriver[n][i]
                    BY <3>3, <3>4, <4>2 DEF Publishes
                <5> QED
                    BY <3>0, <4>2, <5>1
            <4> QED
                BY <4>1, <4>2
        <3>5. \A r \in Readers : lent'[r] \in {lent[r], message.ring}
            BY <1>0, <2>4 DEF TypeOK
        <3>6. \A r \in Readers : \/ lent'[r] = lent[r]
                                 \/ \A n \in Peers, i \in Nat :
                                       Publishes(n, i)' => fromDriver'[n][i].ring # lent'[r]
            BY <3>4, <3>5
        <3>7. allocated' \in Nat /\ allocated <= allocated' /\ current' = current /\ peer' = peer
            BY <1>0, <2>1
        <3> QED
            BY <1>0, <2>2, <3>6, <3>7, PublicationsStay
    <2> QED
        BY <1>5, <2>3, <2>4 DEF BrokerPublish
<1>6. ASSUME NEW r \in Readers, ReaderEvent(r) PROVE PublishedOnce'
    BY <1>1, <1>6 DEF ReaderEvent, BrokerOpen, BrokerReaderGone, driverVars
<1>7. CASE DriverRotate
    <2> DEFINE message == Head(toDriver)
    <2>1. toDriver # <<>> /\ message \in ToDriver /\ message.op = "rotate"
        BY <1>0, <1>7, Taken DEF DriverRotate, Arrives, ChannelTypes
    <2>2. peer \in Peers /\ message.generation \in Nat
        BY <1>0, <2>1 DEF LiveConnection, ToDriver
    <2> DEFINE m(ring) == [op |-> "publish", generation |-> message.generation, ring |-> ring]
    <2>3. \A ring \in Nat : m(ring) \in FromDriver /\ m(ring).op = "publish" /\ m(ring).ring = ring
        BY <2>2 DEF FromDriver
    <2>4. FreshRing = allocated + 1 /\ FreshRing \in Nat /\ NoRing \in Nat /\ NoRing = 0
        BY <1>0 DEF FreshRing, NoRing
    <2>5. UNCHANGED <<peer, lent>>
        BY <1>7 DEF DriverRotate
    <2>6. CASE fromDriver' = fromDriver
        <3>1. current' = FreshRing \/ current' = NoRing
            BY <1>7 DEF DriverRotate
        <3>2. allocated' = FreshRing \/ allocated' = allocated
            BY <1>7 DEF DriverRotate
        <3>3. \A p \in Peers : NothingPublished(p)
            BY <2>6 DEF NothingPublished
        <3>4. allocated <= allocated'
            BY <1>0, <2>4, <3>2
        <3>5. \/ current' = NoRing
              \/ current' \in Nat /\ current' > allocated
            BY <1>0, <2>4, <3>1
        <3> QED
            BY <1>0, <2>5, <3>3, <3>4, <3>5, PublicationsStay
    <2>7. CASE /\ current' = FreshRing /\ allocated' = FreshRing
               /\ fromDriver' = [fromDriver EXCEPT ![peer] = Append(@, m(FreshRing))]
        <3>1. m(FreshRing) \in FromDriver /\ m(FreshRing).ring = allocated + 1
            BY <2>3, <2>4
        <3> HIDE DEF m
        <3> QED
            BY <1>0, <2>2, <2>4, <2>5, <2>7, <3>1, FreshPublication
    <2>8. CASE /\ current' = NoRing /\ UNCHANGED allocated
               /\ fromDriver' = [fromDriver EXCEPT ![peer] = Append(@, m(NoRing))]
        <3>1. m(NoRing) \in FromDriver /\ m(NoRing).ring = NoRing
            BY <2>3, <2>4
        <3> HIDE DEF m
        <3>2. \A p \in Peers : fromDriver'[p] \in {fromDriver[p], Append(fromDriver[p], m(NoRing))}
            BY <1>0, <2>8
        <3>3. \A p \in Peers : NothingPublished(p)
            BY <3>1, <3>2 DEF NothingPublished
        <3>4. allocated <= allocated'
            BY <1>0, <2>8
        <3> QED
            BY <1>0, <2>5, <2>8, <3>3, <3>4, PublicationsStay
    <2> QED
        BY <1>7, <2>6, <2>7, <2>8 DEF DriverRotate
<1>8. CASE DriverConnectionError
    BY <1>0, <1>8, PublicationsStay DEF DriverConnectionError, NothingPublished
<1>9. CASE DriverHello
    <2>1. UNCHANGED <<allocated, lent>> /\ current' = NoRing
          /\ fromDriver' = [fromDriver EXCEPT ![FreePeer] = <<Hello>>]
        BY <1>0, <1>9 DEF DriverHello, LiveConnection, Hello
    <2>2. \A p \in Peers : NothingPublished(p)
        BY <1>0, <2>1 DEF NothingPublished
    <2> QED
        BY <1>0, <2>1, <2>2, PublicationsStay
<1>10. CASE DriverRestart
    <2>1. UNCHANGED <<allocated, lent>> /\ current' = NoRing
        BY <1>10 DEF DriverRestart
    <2>2. Gone \in FromDriver /\ Gone.op = "gone"
        BY DEF Gone, FromDriver
    <2>3. \A p \in Peers : fromDriver'[p] \in {<<Hello>>, Append(fromDriver[p], Gone), fromDriver[p]}
        BY <1>10 DEF DriverRestart, Hello, Gone
    <2>4. \A p \in Peers : NothingPublished(p)
        BY <2>2, <2>3 DEF NothingPublished
    <2> QED
        BY <1>0, <2>1, <2>4, PublicationsStay
<1>11. ASSUME NEW r \in Readers,
              ReaderOpen(r) \/ ReaderStep(r) \/ ReaderTimeout(r) \/ ReaderClose(r)
       PROVE  PublishedOnce'
    BY <1>1, <1>11 DEF ReaderOpen, ReaderStep, ReaderGranted, ReaderRefused, ReaderLost,
                    ReaderTimeout, ReaderClose, driverVars
<1>12. ASSUME NEW user \in Users \union {NoUser}, ConsoleChanges(user) PROVE PublishedOnce'
    BY <1>1, <1>12 DEF ConsoleChanges, driverVars, channelVars
<1>13. CASE BrokerCrash
    <2>1. /\ UNCHANGED <<allocated, current, peer, lent>>
          /\ \A p \in Peers : fromDriver'[p] = <<>>
        BY <1>13 DEF BrokerCrash, driverVars
    <2> QED
        BY <1>0, <2>1, PublicationsStay DEF NothingPublished
<1>14. CASE UNCHANGED vars
    BY <1>1, <1>14 DEF vars, driverVars, channelVars
<1>15. ASSUME NEW p \in Peers, WriterEvent(p) PROVE PublishedOnce'
    BY <1>4, <1>5, <1>15 DEF WriterEvent
<1>16. CASE DriverStep
    BY <1>7, <1>8, <1>9, <1>16 DEF DriverStep
<1> QED
    BY <1>3, <1>6, <1>10, <1>11, <1>12, <1>13, <1>14, <1>15, <1>16 DEF Next

-----------------------------------------------------------------------------
(* Generations *)

(* The generations that the live connection carries are numbers.           *)
LEMMA GenerationTypes ==
    ASSUME TypeOK, ChannelTypes, LiveConnection, peer # NoPeer, writer = peer
    PROVE  /\ ~ Severed
           /\ \A i \in 1..Len(toDriver) :
                 toDriver[i].op = "rotate" /\ toDriver[i].generation \in Nat
                 /\ toDriver[i].enabled \in BOOLEAN
           /\ \A i \in 1..Len(fromDriver[peer]) :
                 fromDriver[peer][i].op = "publish" => fromDriver[peer][i].generation \in Nat
<1>1. toDriver \in Seq(ToDriver) /\ fromDriver[peer] \in Seq(FromDriver)
    BY DEF TypeOK, ChannelTypes
<1>2. ~ Severed
    BY DEF LiveConnection
<1>3. \A i \in 1..Len(toDriver) : toDriver[i].op # "error" /\ toDriver[i] \in ToDriver
    BY <1>1, <1>2 DEF LiveConnection, Severed
<1>4. \A i \in 1..Len(fromDriver[peer]) : fromDriver[peer][i] \in FromDriver
    BY <1>1
<1> QED
    BY <1>2, <1>3, <1>4 DEF ToDriver, FromDriver

(* The broker's taking of one event leaves the generations as they were.   *)
LEMMA GenerationsStay ==
    ASSUME TypeOK, ChannelTypes, GenerationsGrow,
           UNCHANGED <<writer, peer, generation, toDriver, current>>,
           peer # NoPeer => \/ fromDriver'[peer] = fromDriver[peer]
                            \/ fromDriver[peer] # <<>> /\ fromDriver'[peer] = Tail(fromDriver[peer])
    PROVE  GenerationsGrow'
<1> SUFFICES ASSUME peer # NoPeer, writer = peer PROVE GenerationsGrow'
    BY DEF GenerationsGrow
<1>1. fromDriver[peer] \in Seq(FromDriver)
    BY DEF TypeOK, ChannelTypes
<1>2. \A i \in 1..Len(fromDriver'[peer]) : \E j \in 1..Len(fromDriver[peer]) :
         fromDriver'[peer][i] = fromDriver[peer][j]
    <2>1. CASE fromDriver'[peer] = fromDriver[peer]
        BY <2>1
    <2>2. CASE fromDriver[peer] # <<>> /\ fromDriver'[peer] = Tail(fromDriver[peer])
        <3>1. /\ Len(fromDriver[peer]) \in Nat
              /\ Len(fromDriver'[peer]) = Len(fromDriver[peer]) - 1
              /\ \A i \in 1..Len(fromDriver'[peer]) : fromDriver'[peer][i] = fromDriver[peer][i + 1]
            BY <1>1, <2>2, Taken
        <3>2. \A i \in 1..Len(fromDriver'[peer]) : i + 1 \in 1..Len(fromDriver[peer])
            BY <3>1
        <3> QED
            BY <3>1, <3>2
    <2> QED
        BY <2>1, <2>2
<1> QED
    BY <1>2 DEF GenerationsGrow

(* A rotation sends the highest generation, which nobody has published.    *)
LEMMA RotationGrows ==
    ASSUME TypeOK, ChannelTypes, peer # NoPeer, peer' = peer, writer' = peer,
           NEW enabled \in BOOLEAN, Rotate(peer, enabled),
           \A i \in 1..Len(toDriver) :
               toDriver[i].generation \in Nat /\ toDriver[i].generation <= generation,
           \A i, j \in 1..Len(toDriver) :
               i < j => toDriver[i].generation < toDriver[j].generation,
           \A i \in 1..Len(fromDriver'[peer]) :
               fromDriver'[peer][i].op = "publish" =>
                  /\ fromDriver'[peer][i].generation \in Nat
                  /\ fromDriver'[peer][i].generation <= generation
    PROVE  GenerationsGrow'
<1> DEFINE m == [op |-> "rotate", generation |-> generation + 1, enabled |-> enabled]
<1>1. generation \in Nat /\ toDriver \in Seq(ToDriver) /\ Len(toDriver) \in Nat
    BY DEF TypeOK, ChannelTypes
<1>2. m.generation = generation + 1 /\ m \in ToDriver
    BY <1>1 DEF ToDriver
<1>3. toDriver' = Append(toDriver, m) /\ generation' = generation + 1
    BY DEF Rotate
<1> HIDE DEF m
<1>4. /\ Len(toDriver') = Len(toDriver) + 1
      /\ toDriver'[Len(toDriver) + 1] = m
      /\ \A i \in 1..Len(toDriver) : toDriver'[i] = toDriver[i]
    BY <1>1, <1>2, <1>3, Appended
<1>5. \A i \in 1..Len(toDriver') :
          i \in 1..Len(toDriver) \/ i = Len(toDriver) + 1
    BY <1>1, <1>4
<1>6. \A i \in 1..Len(toDriver') : toDriver'[i].generation <= generation'
    <2>1. ASSUME NEW i \in 1..Len(toDriver) PROVE toDriver[i].generation <= generation + 1
        BY <1>1
    <2> QED
        BY <1>1, <1>2, <1>3, <1>4, <1>5, <2>1
<1>7. ASSUME NEW i \in 1..Len(toDriver'), NEW j \in 1..Len(toDriver'), i < j
      PROVE  toDriver'[i].generation < toDriver'[j].generation
    <2>1. i \in 1..Len(toDriver) /\ toDriver'[i] = toDriver[i]
        BY <1>1, <1>4, <1>7
    <2>2. CASE j \in 1..Len(toDriver)
        BY <1>4, <1>7, <2>1, <2>2
    <2>3. CASE j = Len(toDriver) + 1
        <3>1. toDriver[i].generation < generation + 1
            BY <1>1, <2>1
        <3> QED
            BY <1>2, <1>4, <2>1, <2>3, <3>1
    <2> QED
        BY <1>5, <2>2, <2>3
<1>8. ASSUME NEW i \in 1..Len(fromDriver'[peer]), fromDriver'[peer][i].op = "publish"
      PROVE  /\ fromDriver'[peer][i].generation <= generation'
             /\ fromDriver'[peer][i].generation # generation'
    BY <1>1, <1>3, <1>8
<1> QED
    BY <1>6, <1>7, <1>8 DEF GenerationsGrow

(* The answer to the event at the head of the queue: only the last one of  *)
(* them has the latest generation.                                         *)
LEMMA AnswersGrow ==
    ASSUME TypeOK, ChannelTypes, LiveConnection, GenerationsGrow, DriverRotate
    PROVE  GenerationsGrow'
<1>0. UNCHANGED <<writer, peer, generation>>
    BY DEF DriverRotate, brokerVars
<1> SUFFICES ASSUME peer # NoPeer, writer = peer PROVE GenerationsGrow'
    BY <1>0 DEF GenerationsGrow
<1>1. /\ toDriver \in Seq(ToDriver) /\ fromDriver \in [Peers -> Seq(FromDriver)]
      /\ fromDriver[peer] \in Seq(FromDriver) /\ generation \in Nat /\ peer \in Peers
    BY DEF TypeOK, ChannelTypes
<1>2. toDriver # <<>> /\ toDriver' = Tail(toDriver)
    BY DEF DriverRotate, Arrives
<1>3. /\ Head(toDriver) = toDriver[1] /\ Len(toDriver) \in Nat /\ Len(toDriver) >= 1
      /\ Len(toDriver') = Len(toDriver) - 1
      /\ \A i \in 1..Len(toDriver') : toDriver'[i] = toDriver[i + 1]
    BY <1>1, <1>2, Taken
<1>4. \A i \in 1..Len(toDriver') : i + 1 \in 1..Len(toDriver)
    BY <1>3
<1>5. /\ ~ Severed
      /\ \A i \in 1..Len(toDriver) :
            toDriver[i].generation \in Nat /\ toDriver[i].generation <= generation
      /\ \A i, j \in 1..Len(toDriver) :
            i < j => toDriver[i].generation < toDriver[j].generation
    BY GenerationTypes DEF GenerationsGrow
<1>6. \A i \in 1..Len(toDriver') : toDriver'[i].generation <= generation
    BY <1>3, <1>4, <1>5
<1>7. ASSUME NEW i \in 1..Len(toDriver'), NEW j \in 1..Len(toDriver'), i < j
      PROVE  toDriver'[i].generation < toDriver'[j].generation
    <2>1. i + 1 \in 1..Len(toDriver) /\ j + 1 \in 1..Len(toDriver) /\ i + 1 < j + 1
        BY <1>3, <1>4, <1>7
    <2> QED
        BY <1>3, <1>5, <2>1
<1>8. toDriver[1].generation = generation => toDriver' = <<>>
    <2>1. ASSUME toDriver[1].generation = generation, Len(toDriver) >= 2 PROVE FALSE
        <3>1. 1 \in 1..Len(toDriver) /\ 2 \in 1..Len(toDriver)
            BY <1>3, <2>1
        <3>2. toDriver[1].generation < toDriver[2].generation /\ toDriver[2].generation <= generation
              /\ toDriver[2].generation \in Nat
            BY <1>5, <3>1
        <3> QED
            BY <1>1, <2>1, <3>2
    <2>2. toDriver[1].generation = generation => Len(toDriver') = 0
        BY <1>3, <2>1
    <2>3. toDriver' \in Seq(ToDriver)
        BY <1>1, <1>2, Taken
    <2> QED
        BY <2>2, <2>3, EmptySeq
<1>9. \A i \in 1..Len(fromDriver[peer]) : fromDriver[peer][i].op = "publish" =>
          /\ fromDriver[peer][i].generation <= generation
          /\ fromDriver[peer][i].generation # generation
    BY <1>2 DEF GenerationsGrow
<1>10. \/ fromDriver' = fromDriver
       \/ \E ring : /\ ring = current'
                    /\ fromDriver' = [fromDriver EXCEPT ![peer] =
                          Append(@, [op |-> "publish", generation |-> Head(toDriver).generation,
                                     ring |-> ring])]
    BY <1>5 DEF DriverRotate
<1>11. ASSUME NEW i \in 1..Len(fromDriver'[peer]), fromDriver'[peer][i].op = "publish"
       PROVE  /\ fromDriver'[peer][i].generation <= generation
              /\ fromDriver'[peer][i].generation = generation =>
                    toDriver' = <<>> /\ fromDriver'[peer][i].ring = current'
    <2>1. CASE fromDriver' = fromDriver
        BY <1>9, <1>11, <2>1
    <2>2. ASSUME NEW ring, ring = current',
                 fromDriver' = [fromDriver EXCEPT ![peer] =
                    Append(@, [op |-> "publish", generation |-> Head(toDriver).generation,
                               ring |-> ring])]
          PROVE  /\ fromDriver'[peer][i].generation <= generation
                 /\ fromDriver'[peer][i].generation = generation =>
                       toDriver' = <<>> /\ fromDriver'[peer][i].ring = current'
        <3> DEFINE m == [op |-> "publish", generation |-> toDriver[1].generation, ring |-> ring]
        <3>1. m.generation = toDriver[1].generation /\ m.ring = ring
            OBVIOUS
        <3>2. fromDriver'[peer] = Append(fromDriver[peer], m)
            BY <1>1, <1>3, <2>2
        <3> HIDE DEF m
        <3>3. \/ i \in 1..Len(fromDriver[peer]) /\ fromDriver'[peer][i] = fromDriver[peer][i]
              \/ fromDriver'[peer][i] = m
            BY <1>1, <1>11, <3>2
        <3>4. toDriver[1].generation <= generation
            BY <1>3, <1>5
        <3> QED
            BY <1>8, <1>9, <1>11, <2>2, <3>1, <3>3, <3>4
    <2> QED
        BY <1>10, <2>1, <2>2
<1> QED
    BY <1>0, <1>6, <1>7, <1>11 DEF GenerationsGrow

(* Between the broker and its writer generations grow, after every step.   *)
LEMMA StepGenerations ==
    ASSUME IInv, TypeOK', ChannelTypes', [Next]_vars
    PROVE  GenerationsGrow'
<1>0. TypeOK /\ ChannelTypes /\ LiveConnection /\ DeadConnections /\ FewLeft /\ GenerationsGrow
    BY DEF IInv
<1>1. /\ NoPeer \notin Peers /\ peer \in Peers \union {NoPeer}
      /\ writer \in Peers \union {NoPeer} /\ fromDriver \in [Peers -> Seq(FromDriver)]
    <2>1. NoPeer \notin Peers
        BY DEF NoPeer, Peers
    <2> QED
        BY <1>0, <2>1 DEF TypeOK, ChannelTypes
<1>2. ASSUME writer' # peer' \/ peer' = NoPeer PROVE GenerationsGrow'
    BY <1>2 DEF GenerationsGrow, NoPeer
<1>3. ASSUME UNCHANGED <<writer, peer, generation, toDriver, current, fromDriver>>
      PROVE  GenerationsGrow'
    BY <1>0, <1>3, GenerationsStay
<1>4. ASSUME UNCHANGED <<writer, peer>>, NEW enabled \in BOOLEAN, Rotate(writer, enabled),
             peer # NoPeer => \A i \in 1..Len(fromDriver'[peer]) :
                 \E j \in 1..Len(fromDriver[peer]) : fromDriver'[peer][i] = fromDriver[peer][j]
      PROVE  GenerationsGrow'
    <2>1. CASE writer = peer /\ peer # NoPeer
        <3>1. /\ \A i \in 1..Len(toDriver) :
                    toDriver[i].generation \in Nat /\ toDriver[i].generation <= generation
              /\ \A i, j \in 1..Len(toDriver) :
                    i < j => toDriver[i].generation < toDriver[j].generation
            BY <1>0, <2>1, GenerationTypes DEF GenerationsGrow
        <3>2. \A j \in 1..Len(fromDriver[peer]) : fromDriver[peer][j].op = "publish" =>
                    /\ fromDriver[peer][j].generation \in Nat
                    /\ fromDriver[peer][j].generation <= generation
            BY <1>0, <2>1, GenerationTypes DEF GenerationsGrow
        <3>3. \A i \in 1..Len(fromDriver'[peer]) : fromDriver'[peer][i].op = "publish" =>
                    /\ fromDriver'[peer][i].generation \in Nat
                    /\ fromDriver'[peer][i].generation <= generation
            BY <1>4, <2>1, <3>2
        <3> QED
            BY <1>0, <1>4, <2>1, <3>1, <3>3, RotationGrows
    <2> QED
        BY <1>2, <1>4, <2>1
<1>5. CASE SessionChanged
    BY <1>4, <1>5 DEF SessionChanged, DropReader, driverVars
<1>6. ASSUME NEW p \in Peers, BrokerTurnsAway(p) PROVE GenerationsGrow'
    <2>1. UNCHANGED <<writer, peer, generation, current>> /\ p # writer
          /\ fromDriver' = [fromDriver EXCEPT ![p] = <<>>]
          /\ (p # peer => toDriver' = toDriver)
        BY <1>6 DEF BrokerTurnsAway, brokerVars, driverVars
    <2>2. CASE writer = peer /\ peer # NoPeer
        <3>1. fromDriver'[peer] = fromDriver[peer] /\ toDriver' = toDriver
            BY <1>1, <2>1, <2>2
        <3> QED
            BY <1>0, <2>1, <3>1, GenerationsStay
    <2> QED
        BY <1>2, <2>1, <2>2
<1>7. ASSUME NEW p \in Peers, BrokerHello(p) PROVE GenerationsGrow'
    <2>1. /\ fromDriver[p] # <<>> /\ Head(fromDriver[p]).op = "hello"
          /\ fromDriver' = [fromDriver EXCEPT ![p] = Tail(fromDriver[p])]
          /\ writer' = p /\ peer' = peer /\ Rotate(p, reader # NoReader /\ opened)
        BY <1>7 DEF BrokerHello, Arrives, driverVars
    <2>2. CASE p = peer
        <3>1. writer # peer /\ ~ Severed
            <4>1. /\ fromDriver[p][1].op = "hello" /\ Len(fromDriver[p]) \in Nat
                  /\ Len(fromDriver[p]) >= 1
                BY <1>1, <2>1, Taken
            <4> QED
                BY <1>0, <2>1, <2>2, <4>1 DEF DeadConnections, LiveConnection
        <3>2. toDriver = <<>> /\ fromDriver[peer] = <<Hello>>
            BY <1>0, <1>1, <2>2, <3>1 DEF LiveConnection
        <3>3. fromDriver'[peer] = <<>> /\ Len(<<>>) = 0
            BY <1>1, <2>1, <2>2, <3>2, ShortQueues
        <3>4. (reader # NoReader /\ opened) \in BOOLEAN
            BY <1>0 DEF TypeOK
        <3>5. /\ \A i \in 1..Len(toDriver) : FALSE
              /\ \A i \in 1..Len(fromDriver'[peer]) : FALSE
            BY <3>2, <3>3
        <3> QED
            BY <1>0, <1>1, <2>1, <2>2, <3>4, <3>5, RotationGrows
    <2> QED
        BY <1>2, <2>1, <2>2
<1>8. ASSUME NEW p \in Peers, BrokerPublish(p) PROVE GenerationsGrow'
    <2>1. /\ p = writer /\ fromDriver[p] # <<>> /\ UNCHANGED <<writer, peer, current>>
          /\ fromDriver' = [fromDriver EXCEPT ![p] = Tail(fromDriver[p])]
        BY <1>8 DEF BrokerPublish, Arrives, driverVars
    <2>2. CASE UNCHANGED <<generation, toDriver>>
        <3>1. peer # NoPeer =>
                 \/ fromDriver'[peer] = fromDriver[peer]
                 \/ fromDriver[peer] # <<>> /\ fromDriver'[peer] = Tail(fromDriver[peer])
            BY <1>1, <2>1
        <3> QED
            BY <1>0, <2>1, <2>2, <3>1, GenerationsStay
    <2>3. CASE DropReader(writer)
        <3>1. Rotate(writer, FALSE)
            BY <2>3 DEF DropReader
        <3>2. peer # NoPeer => \A i \in 1..Len(fromDriver'[peer]) :
                 \E j \in 1..Len(fromDriver[peer]) : fromDriver'[peer][i] = fromDriver[peer][j]
            <4>1. CASE peer = p
                <5>1. /\ Len(fromDriver[p]) \in Nat
                      /\ Len(Tail(fromDriver[p])) = Len(fromDriver[p]) - 1
                      /\ \A i \in 1..Len(Tail(fromDriver[p])) :
                            Tail(fromDriver[p])[i] = fromDriver[p][i + 1]
                    BY <1>1, <2>1, Taken
                <5>2. \A i \in 1..Len(Tail(fromDriver[p])) : i + 1 \in 1..Len(fromDriver[p])
                    BY <5>1
                <5>3. fromDriver'[peer] = Tail(fromDriver[p])
                    BY <1>1, <2>1, <4>1
                <5> QED
                    BY <4>1, <5>1, <5>2, <5>3
            <4>2. CASE peer # p
                BY <1>1, <2>1, <4>2
            <4> QED
                BY <4>1, <4>2
        <3> QED
            BY <1>4, <2>1, <3>1, <3>2
    <2> QED
        BY <1>8, <2>2, <2>3 DEF BrokerPublish
<1>9. ASSUME NEW p \in Peers, BrokerWriterGone(p) PROVE GenerationsGrow'
    <2>1. /\ fromDriver[p] # <<>> /\ Head(fromDriver[p]).op = "gone"
          /\ fromDriver' = [fromDriver EXCEPT ![p] = Tail(fromDriver[p])]
          /\ UNCHANGED <<peer, current>>
        BY <1>9 DEF BrokerWriterGone, Arrives, driverVars
    <2>2. p # peer
        <3>1. /\ fromDriver[p][1].op = "gone" /\ Len(fromDriver[p]) \in Nat
              /\ Len(fromDriver[p]) >= 1
            BY <1>1, <2>1, Taken
        <3> QED
            BY <1>0, <3>1 DEF DeadConnections
    <2>3. CASE writer' = NoPeer
        BY <1>2, <2>1, <2>3
    <2>4. CASE UNCHANGED <<writer, generation, toDriver>>
        <3>1. peer # NoPeer => fromDriver'[peer] = fromDriver[peer]
            BY <1>1, <2>1, <2>2
        <3> QED
            BY <1>0, <2>1, <2>4, <3>1, GenerationsStay
    <2> QED
        BY <1>9, <2>3, <2>4 DEF BrokerWriterGone, brokerVars
<1>10. ASSUME NEW r \in Readers, ReaderEvent(r) PROVE GenerationsGrow'
    <2>1. UNCHANGED <<writer, peer, current, fromDriver>>
        BY <1>10 DEF ReaderEvent, BrokerOpen, BrokerReaderGone, driverVars
    <2>2. \/ UNCHANGED <<generation, toDriver>>
          \/ Rotate(writer, TRUE) \/ Rotate(writer, FALSE)
        BY <1>10 DEF ReaderEvent, BrokerOpen, BrokerReaderGone, DropReader
    <2> QED
        BY <1>3, <1>4, <2>1, <2>2
<1>11. CASE DriverRotate
    BY <1>0, <1>11, AnswersGrow
<1>12. CASE DriverConnectionError
    BY <1>2, <1>12 DEF DriverConnectionError
<1>13. CASE DriverHello \/ DriverRestart
    <2>1. FreePeer \notin {writer, peer}
        BY <1>0, <1>13, OneIsFree DEF DriverHello, DriverRestart, LiveConnection
    <2>2. writer' = writer /\ peer' = FreePeer
        BY <1>13 DEF DriverHello, DriverRestart, brokerVars
    <2> QED
        BY <1>2, <2>1, <2>2
<1>14. ASSUME NEW r \in Readers,
              ReaderOpen(r) \/ ReaderStep(r) \/ ReaderTimeout(r) \/ ReaderClose(r)
       PROVE  GenerationsGrow'
    BY <1>3, <1>14 DEF ReaderOpen, ReaderStep, ReaderGranted, ReaderRefused, ReaderLost,
                    ReaderTimeout, ReaderClose, brokerVars, driverVars
<1>15. ASSUME NEW user \in Users \union {NoUser}, ConsoleChanges(user) PROVE GenerationsGrow'
    BY <1>3, <1>15 DEF ConsoleChanges, brokerVars, driverVars, channelVars
<1>16. CASE BrokerCrash
    <2>1. writer' = NoPeer
        BY <1>16 DEF BrokerCrash
    <2> QED
        BY <1>2, <2>1
<1>17. CASE UNCHANGED vars
    BY <1>3, <1>17 DEF vars, brokerVars, driverVars, channelVars
<1>18. ASSUME NEW p \in Peers, WriterEvent(p) PROVE GenerationsGrow'
    BY <1>6, <1>7, <1>8, <1>9, <1>18 DEF WriterEvent
<1> QED
    BY <1>5, <1>10, <1>11, <1>12, <1>13, <1>14, <1>15, <1>16, <1>17, <1>18
    DEF Next, DriverStep

-----------------------------------------------------------------------------
(* The ring in service *)

(* A ring that was lent and is in service belongs to a driver whose        *)
(* connection is live.                                                     *)
LEMMA Serving ==
    ASSUME IInv, NEW r \in Readers, lent[r] = current, current # NoRing, toDriver = <<>>
    PROVE  /\ reader = r /\ (Uid[r] = console \/ sessionDue)
           /\ writer = peer /\ peer # NoPeer /\ reader # NoReader
    BY DEF IInv, LentInService, LiveConnection

(* The broker can always take a lent ring out of service: a rotation that  *)
(* tells nobody finds no such ring.                                        *)
LEMMA RotationDetaches ==
    ASSUME IInv, UNCHANGED <<current, lent>>, NEW enabled \in BOOLEAN,
           Rotate(writer, enabled)
    PROVE  LentInService'
<1> SUFFICES ASSUME NEW r \in Readers, lent'[r] = current', current' # NoRing, toDriver' = <<>>
             PROVE  FALSE
    BY DEF LentInService, NoRing
<1> DEFINE m == [op |-> "rotate", generation |-> generation + 1, enabled |-> enabled]
<1>1. toDriver \in Seq(ToDriver) /\ m \in ToDriver
    BY DEF IInv, TypeOK, ChannelTypes, ToDriver
<1>2. toDriver = <<>> => writer = peer /\ peer # NoPeer
    BY Serving
<1>3. \/ toDriver' = toDriver /\ (writer = NoPeer \/ writer # peer)
      \/ toDriver' = Append(toDriver, m)
    BY DEF Rotate
<1> HIDE DEF m
<1>4. Append(toDriver, m) # <<>>
    BY <1>1, Appended
<1> QED
    BY <1>2, <1>3, <1>4

(* The ring in service is the registered reader's, after every step.       *)
LEMMA StepLent ==
    ASSUME IInv, TypeOK', [Next]_vars
    PROVE  LentInService'
<1>0. /\ TypeOK /\ ChannelTypes /\ LiveConnection /\ DeadConnections /\ FewLeft
      /\ PublishedOnce /\ LentInService
    BY DEF IInv
<1>1. ASSUME UNCHANGED <<lent, current, toDriver, reader, writer, peer>>,
             UNCHANGED <<console, sessionDue>> \/ sessionDue'
      PROVE  LentInService'
    BY <1>0, <1>1 DEF LentInService
<1>2. ASSUME \A r \in Readers : lent'[r] # current' \/ current' = NoRing PROVE LentInService'
    BY <1>2 DEF LentInService, NoRing
<1>3. CASE SessionChanged
    BY <1>3, RotationDetaches DEF SessionChanged, DropReader, driverVars
<1>4. ASSUME NEW p \in Peers, BrokerTurnsAway(p) PROVE LentInService'
    <2>1. UNCHANGED <<lent, current, reader, writer, peer, console, sessionDue>>
        BY <1>4 DEF BrokerTurnsAway, brokerVars, driverVars, environmentVars
    <2>2. toDriver' = toDriver \/ toDriver' # <<>>
        BY <1>0, <1>4, Severs DEF BrokerTurnsAway
    <2> QED
        BY <1>0, <2>1, <2>2 DEF LentInService
<1>5. ASSUME NEW p \in Peers, BrokerHello(p) PROVE LentInService'
    <2>1. /\ UNCHANGED <<lent, current, reader, peer>>
          /\ fromDriver[p] # <<>> /\ Head(fromDriver[p]).op = "hello"
          /\ Rotate(p, reader # NoReader /\ opened) /\ writer \in {NoPeer, p}
        BY <1>5 DEF BrokerHello, Arrives, driverVars
    <2>2. writer = NoPeer
        <3>1. /\ fromDriver[p][1].op = "hello" /\ Len(fromDriver[p]) \in Nat
              /\ Len(fromDriver[p]) >= 1
            BY <1>0, <2>1, Taken DEF ChannelTypes
        <3> QED
            BY <1>0, <2>1, <3>1 DEF DeadConnections
    <2>3. toDriver # <<>> => toDriver' # <<>>
        <3> DEFINE m == [op |-> "rotate", generation |-> generation + 1,
                         enabled |-> reader # NoReader /\ opened]
        <3>1. toDriver' = toDriver \/ toDriver' = Append(toDriver, m)
            BY <2>1 DEF Rotate
        <3>2. toDriver \in Seq(ToDriver) /\ m \in ToDriver
            BY <1>0 DEF TypeOK, ChannelTypes, ToDriver
        <3> HIDE DEF m
        <3>3. Append(toDriver, m) # <<>>
            BY <3>2, Appended
        <3> QED
            BY <3>1, <3>3
    <2> QED
        BY <2>1, <2>2, <2>3, Serving DEF LentInService
<1>6. ASSUME NEW p \in Peers, BrokerPublish(p) PROVE LentInService'
    <2> DEFINE message == Head(fromDriver[p])
    <2>1. /\ p = writer /\ fromDriver[p] # <<>> /\ message.op = "publish"
          /\ UNCHANGED <<writer, peer, current, console, sessionDue>>
        BY <1>6 DEF BrokerPublish, Arrives, driverVars, environmentVars
    <2>2. CASE /\ reader \in Readers /\ Uid[reader] = console /\ message.ring # NoRing
               /\ lent' = [lent EXCEPT ![reader] = message.ring]
               /\ UNCHANGED <<reader, toDriver>>
        <3>1. Publishes(p, 1) /\ message = fromDriver[p][1]
            <4>1. /\ message = fromDriver[p][1] /\ Len(fromDriver[p]) \in Nat
                  /\ Len(fromDriver[p]) >= 1
                BY <1>0, <2>1, Taken DEF ChannelTypes
            <4> QED
                BY <2>1, <2>2, <4>1 DEF Publishes
        <3>2. message.ring = current => p = peer
            BY <1>0, <3>1 DEF PublishedOnce
        <3>3. lent'[reader] = message.ring /\ \A r \in Readers : r # reader => lent'[r] = lent[r]
            BY <1>0, <2>2 DEF TypeOK
        <3> QED
            BY <2>1, <2>2, <3>2, <3>3, Serving DEF LentInService
    <2>3. CASE DropReader(writer) /\ UNCHANGED lent
        BY <2>1, <2>3, RotationDetaches DEF DropReader
    <2>4. CASE UNCHANGED <<reader, toDriver, lent>>
        BY <1>1, <2>1, <2>4
    <2> QED
        BY <1>0, <1>6, <2>2, <2>3, <2>4 DEF BrokerPublish, Wanted, TypeOK
<1>7. ASSUME NEW p \in Peers, BrokerWriterGone(p) PROVE LentInService'
    <2>1. /\ fromDriver[p] # <<>> /\ Head(fromDriver[p]).op = "gone"
          /\ UNCHANGED <<peer, current, lent, console, sessionDue>>
        BY <1>7 DEF BrokerWriterGone, Arrives, driverVars, environmentVars
    <2>2. p # peer
        <3>1. /\ fromDriver[p][1].op = "gone" /\ Len(fromDriver[p]) \in Nat
              /\ Len(fromDriver[p]) >= 1
            BY <1>0, <2>1, Taken DEF ChannelTypes
        <3> QED
            BY <1>0, <3>1 DEF DeadConnections
    <2>3. CASE p = writer /\ DropReader(NoPeer)
        <3>1. toDriver' = toDriver
            BY <2>3 DEF DropReader, Rotate
        <3> QED
            BY <2>1, <2>2, <2>3, <3>1, Serving DEF LentInService
    <2>4. CASE UNCHANGED <<brokerVars, toDriver>>
        BY <1>1, <2>1, <2>4 DEF brokerVars
    <2> QED
        BY <1>7, <2>3, <2>4 DEF BrokerWriterGone
<1>8. ASSUME NEW r \in Readers, ReaderEvent(r) PROVE LentInService'
    <2>1. UNCHANGED <<writer, peer, current, lent, console, sessionDue>>
        BY <1>8 DEF ReaderEvent, BrokerOpen, BrokerReaderGone, driverVars, environmentVars
    <2>2. \/ UNCHANGED <<reader, toDriver>>
          \/ Rotate(writer, TRUE) \/ Rotate(writer, FALSE)
        BY <1>8 DEF ReaderEvent, BrokerOpen, BrokerReaderGone, DropReader
    <2> QED
        BY <1>1, <2>1, <2>2, RotationDetaches
<1>9. CASE DriverRotate
    <2>1. lent' = lent /\ lent \in [Readers -> 0..allocated] /\ allocated \in Nat
        BY <1>0, <1>9 DEF DriverRotate, TypeOK
    <2>2. current' = allocated + 1 \/ current' = NoRing
        BY <1>9 DEF DriverRotate, FreshRing
    <2> QED
        BY <1>2, <2>1, <2>2
<1>10. CASE DriverConnectionError \/ DriverHello \/ DriverRestart
    <2>1. current' = NoRing
        BY <1>0, <1>10 DEF DriverConnectionError, DriverHello, DriverRestart, LiveConnection
    <2> QED
        BY <1>2, <2>1
<1>11. ASSUME NEW r \in Readers,
              ReaderOpen(r) \/ ReaderStep(r) \/ ReaderTimeout(r) \/ ReaderClose(r)
       PROVE  LentInService'
    BY <1>1, <1>11 DEF ReaderOpen, ReaderStep, ReaderGranted, ReaderRefused, ReaderLost,
                    ReaderTimeout, ReaderClose, brokerVars, driverVars, environmentVars
<1>12. ASSUME NEW user \in Users \union {NoUser}, ConsoleChanges(user) PROVE LentInService'
    BY <1>1, <1>12 DEF ConsoleChanges, brokerVars, driverVars, channelVars
<1>13. CASE BrokerCrash
    <2>1. UNCHANGED <<current, lent, peer>>
        BY <1>13 DEF BrokerCrash, driverVars
    <2>2. peer = NoPeer \/ toDriver' # <<>>
        BY <1>0, <1>13, Severs DEF BrokerCrash
    <2> QED
        BY <1>0, <2>1, <2>2 DEF LentInService, LiveConnection, NoRing
<1>14. CASE UNCHANGED vars
    BY <1>1, <1>14 DEF vars, brokerVars, driverVars, channelVars, environmentVars
<1>15. ASSUME NEW p \in Peers, WriterEvent(p) PROVE LentInService'
    BY <1>4, <1>5, <1>6, <1>7, <1>15 DEF WriterEvent
<1> QED
    BY <1>3, <1>8, <1>9, <1>10, <1>11, <1>12, <1>13, <1>14, <1>15 DEF Next, DriverStep

(* The ring of a granted reader is the one in service, after every step.   *)
LEMMA StepGrant ==
    ASSUME IInv, TypeOK', [Next]_vars
    PROVE  GrantInService'
<1>0. /\ TypeOK /\ ChannelTypes /\ LiveConnection /\ DeadConnections /\ FewLeft
      /\ GenerationsGrow /\ GrantInService
    BY DEF IInv
<1>1. ASSUME UNCHANGED <<reader, pending, writer, peer, toDriver, lent, current>>
      PROVE  GrantInService'
    BY <1>0, <1>1 DEF GrantInService
<1>2. ASSUME reader' = NoReader PROVE GrantInService'
    BY <1>2 DEF GrantInService
<1>3. ASSUME writer' = writer, reader' = reader, pending' = pending, peer' # writer'
      PROVE  GrantInService'
    BY <1>0, <1>3 DEF GrantInService, NoPeer
<1>4. CASE SessionChanged
    BY <1>2, <1>4 DEF SessionChanged, DropReader
<1>5. ASSUME NEW p \in Peers, BrokerTurnsAway(p) PROVE GrantInService'
    <2>1. /\ UNCHANGED <<reader, pending, writer, peer, lent, current>> /\ p # writer
          /\ (p # peer => toDriver' = toDriver)
        BY <1>5 DEF BrokerTurnsAway, brokerVars, driverVars
    <2> QED
        BY <1>0, <2>1 DEF GrantInService, NoPeer
<1>6. ASSUME NEW p \in Peers, BrokerHello(p) PROVE GrantInService'
    <2>1. /\ UNCHANGED <<reader, pending>>
          /\ fromDriver[p] # <<>> /\ Head(fromDriver[p]).op = "hello" /\ writer \in {NoPeer, p}
        BY <1>6 DEF BrokerHello, Arrives
    <2>2. writer = NoPeer
        <3>1. /\ fromDriver[p][1].op = "hello" /\ Len(fromDriver[p]) \in Nat
              /\ Len(fromDriver[p]) >= 1
            BY <1>0, <2>1, Taken DEF ChannelTypes
        <3> QED
            BY <1>0, <2>1, <3>1 DEF DeadConnections
    <2> QED
        BY <1>0, <2>1, <2>2 DEF GrantInService
<1>7. ASSUME NEW p \in Peers, BrokerPublish(p) PROVE GrantInService'
    <2> DEFINE message == Head(fromDriver[p])
    <2>1. /\ p = writer /\ fromDriver[p] # <<>> /\ message.op = "publish"
          /\ UNCHANGED <<writer, peer, current>>
        BY <1>7 DEF BrokerPublish, Arrives, driverVars
    <2>2. CASE /\ reader \in Readers /\ message.ring # NoRing /\ message.generation = generation
               /\ lent' = [lent EXCEPT ![reader] = message.ring]
               /\ UNCHANGED <<reader, toDriver>>
        <3>1. /\ message = fromDriver[p][1] /\ Len(fromDriver[p]) \in Nat
              /\ Len(fromDriver[p]) >= 1
            BY <1>0, <2>1, Taken DEF ChannelTypes
        <3>2. writer # NoPeer
            BY <2>1 DEF NoPeer, Peers
        <3>3. writer = peer => toDriver = <<>> /\ message.ring = current
            BY <1>0, <2>1, <2>2, <3>1, <3>2 DEF GenerationsGrow
        <3>4. lent'[reader] = message.ring
            BY <1>0, <2>2 DEF TypeOK
        <3> QED
            BY <2>1, <2>2, <3>2, <3>3, <3>4 DEF GrantInService, NoPeer, NoRing
    <2>3. CASE DropReader(writer)
        BY <1>2, <2>3 DEF DropReader
    <2>4. CASE UNCHANGED <<reader, pending, toDriver, lent>>
        BY <1>1, <2>1, <2>4
    <2> QED
        BY <1>0, <1>7, <2>2, <2>3, <2>4 DEF BrokerPublish, Wanted, TypeOK
<1>8. ASSUME NEW p \in Peers, BrokerWriterGone(p) PROVE GrantInService'
    <2>1. UNCHANGED <<peer, current, lent>>
        BY <1>8 DEF BrokerWriterGone, driverVars
    <2>2. DropReader(NoPeer) \/ UNCHANGED <<brokerVars, toDriver>>
        BY <1>8 DEF BrokerWriterGone
    <2> QED
        BY <1>1, <1>2, <2>1, <2>2 DEF DropReader, brokerVars
<1>9. ASSUME NEW r \in Readers, ReaderEvent(r) PROVE GrantInService'
    <2>1. UNCHANGED <<writer, peer, current, lent>>
        BY <1>9 DEF ReaderEvent, BrokerOpen, BrokerReaderGone, driverVars
    <2>2. \/ UNCHANGED <<reader, pending, toDriver>>
          \/ pending' = TRUE
          \/ reader' = NoReader
        BY <1>9 DEF ReaderEvent, BrokerOpen, BrokerReaderGone, DropReader
    <2>3. ASSUME pending' = TRUE PROVE GrantInService'
        BY <2>3 DEF GrantInService
    <2> QED
        BY <1>1, <1>2, <2>1, <2>2, <2>3
<1>10. CASE DriverRotate
    <2>1. UNCHANGED <<reader, pending, writer, peer, lent>> /\ toDriver # <<>>
        BY <1>10 DEF DriverRotate, Arrives, brokerVars
    <2> QED
        BY <1>0, <2>1 DEF GrantInService, NoPeer
<1>11. CASE DriverConnectionError
    <2>1. UNCHANGED <<reader, pending, writer>> /\ peer' = NoPeer
        BY <1>11 DEF DriverConnectionError, brokerVars
    <2> QED
        BY <1>0, <2>1 DEF GrantInService, NoPeer
<1>12. CASE DriverHello \/ DriverRestart
    <2>1. FreePeer \notin {writer, peer}
        BY <1>0, <1>12, OneIsFree DEF DriverHello, DriverRestart, LiveConnection
    <2>2. UNCHANGED <<reader, pending, writer>> /\ peer' = FreePeer
        BY <1>12 DEF DriverHello, DriverRestart, brokerVars
    <2> QED
        BY <1>3, <2>1, <2>2
<1>13. ASSUME NEW r \in Readers,
              ReaderOpen(r) \/ ReaderStep(r) \/ ReaderTimeout(r) \/ ReaderClose(r)
       PROVE  GrantInService'
    BY <1>1, <1>13 DEF ReaderOpen, ReaderStep, ReaderGranted, ReaderRefused, ReaderLost,
                    ReaderTimeout, ReaderClose, brokerVars, driverVars
<1>14. ASSUME NEW user \in Users \union {NoUser}, ConsoleChanges(user) PROVE GrantInService'
    BY <1>1, <1>14 DEF ConsoleChanges, brokerVars, driverVars, channelVars
<1>15. CASE BrokerCrash
    BY <1>2, <1>15 DEF BrokerCrash
<1>16. CASE UNCHANGED vars
    BY <1>1, <1>16 DEF vars, brokerVars, driverVars, channelVars
<1>17. ASSUME NEW p \in Peers, WriterEvent(p) PROVE GrantInService'
    BY <1>5, <1>6, <1>7, <1>8, <1>17 DEF WriterEvent
<1> QED
    BY <1>4, <1>9, <1>10, <1>11, <1>12, <1>13, <1>14, <1>15, <1>16, <1>17 DEF Next, DriverStep

-----------------------------------------------------------------------------
(* The invariant *)

(* The invariant holds at the start: a driver has said hello to a broker   *)
(* that knows nobody.                                                      *)
LEMMA InitInvariant == Init => IInv
<1> SUFFICES ASSUME Init PROVE IInv
    OBVIOUS
<1>1. 1 \in Peers /\ NoPeer \notin Peers
    BY DEF Peers, NoPeer
<1>2. /\ fromDriver[1] = <<Hello>>
      /\ \A p \in Peers : p # 1 => fromDriver[p] = <<>>
      /\ peer = 1 /\ writer = NoPeer
    BY <1>1 DEF Init, Hello
<1>3. Len(<<>>) = 0 /\ Len(<<Hello>>) = 1 /\ <<Hello>>[1] = Hello /\ Hello.op = "hello"
    BY DEF Hello
<1>4. TypeOK
    <2>1. /\ writer \in Peers \union {NoPeer} /\ reader \in Readers \union {NoReader}
          /\ pending \in BOOLEAN /\ opened = (reader # NoReader) /\ generation \in Nat
        BY DEF Init
    <2>2. /\ current \in 0..allocated /\ allocated \in Nat
          /\ peer \in Peers \union {NoPeer} /\ helloDue \in BOOLEAN
        <3>1. current \in 0..allocated /\ allocated \in Nat
            BY DEF Init, NoRing
        <3>2. peer \in Peers \union {NoPeer}
            BY <1>1, <1>2
        <3>3. helloDue \in BOOLEAN
            BY DEF Init
        <3> QED
            BY <3>1, <3>2, <3>3
    <2>3. phase \in [Readers -> Phases]
        BY DEF Init, Phases
    <2>4. mapping \in [Readers -> 0..allocated] /\ lent \in [Readers -> 0..allocated]
        BY DEF Init, NoRing
    <2>5. console \in Users \union {NoUser} /\ sessionDue \in BOOLEAN
        BY DEF Init
    <2> QED
        BY <2>1, <2>2, <2>3, <2>4, <2>5 DEF TypeOK
<1>5. ChannelTypes
    <2>1. fromDriver \in [Peers -> Seq(FromDriver)]
        <3>1. <<Hello>> \in Seq(FromDriver) /\ <<>> \in Seq(FromDriver)
            BY DEF FromDriver, Hello
        <3>2. fromDriver = [p \in Peers |-> IF p = 1 THEN <<Hello>> ELSE <<>>]
            BY DEF Init, Hello
        <3> QED
            BY <3>1, <3>2
    <2>2. toDriver \in Seq(ToDriver)
        BY DEF Init
    <2>3. toReader \in [Readers -> Seq(ToReader)]
        BY DEF Init
    <2>4. fromReader \in [Readers -> FromReader]
        BY DEF Init, FromReader
    <2>5. budget \in [sessions : Nat, restarts : 0..MaxRestarts, crashes : Nat]
        BY DEF Init
    <2> QED
        BY <2>1, <2>2, <2>3, <2>4, <2>5 DEF ChannelTypes
<1>6. GrantsAreRings
    BY <1>3 DEF Init, GrantsAreRings
<1>7. OpensOnce
    <2>1. Len(<<Open>>) = 1 /\ Len(<<Gone>>) = 1 /\ Len(<<Open, Gone>>) = 2
        OBVIOUS
    <2>2. <<>> \notin {<<Open>>, <<Gone>>, <<Open, Gone>>}
        BY <1>3, <2>1
    <2> QED
        BY <2>2 DEF Init, OpensOnce
<1>8. LiveConnection
    BY <1>2, <1>3 DEF Init, LiveConnection, Severed, NoPeer
<1>9. DeadConnections
    <2>1. ASSUME NEW p \in Peers, NEW i \in 1..Len(fromDriver[p])
          PROVE  p = 1 /\ i = 1 /\ fromDriver[p][i] = Hello
        <3>1. p = 1
            BY <1>2, <1>3, <2>1
        <3>2. i \in 1..Len(<<Hello>>)
            BY <1>2, <2>1, <3>1
        <3> QED
            BY <1>2, <1>3, <3>1, <3>2
    <2> QED
        BY <1>1, <1>2, <1>3, <2>1 DEF DeadConnections, NoPeer
<1>10. FewLeft
    <2>1. Left = {}
        BY <1>1, <1>2 DEF Left
    <2>2. Cardinality(Left) = 0
        BY <2>1, FS_EmptySet
    <2> QED
        BY <2>2 DEF FewLeft, Init
<1>11. PublishedOnce
    <2>1. ASSUME NEW p \in Peers, NEW i \in Nat, Publishes(p, i) PROVE FALSE
        <3>1. p = 1
            BY <1>2, <1>3, <2>1 DEF Publishes
        <3>2. i \in 1..Len(<<Hello>>)
            BY <1>2, <2>1, <3>1 DEF Publishes
        <3> QED
            BY <1>2, <1>3, <2>1, <3>1, <3>2 DEF Publishes
    <2> QED
        BY <2>1 DEF PublishedOnce
<1>12. GenerationsGrow
    BY <1>2 DEF GenerationsGrow, NoPeer
<1>13. LentInService /\ GrantInService
    BY DEF Init, LentInService, GrantInService
<1> QED
    BY <1>4, <1>5, <1>6, <1>7, <1>8, <1>9, <1>10, <1>11, <1>12, <1>13 DEF IInv

(* Every step keeps the invariant. *)
LEMMA StepInvariant == IInv /\ [Next]_vars => IInv'
<1> SUFFICES ASSUME IInv, [Next]_vars PROVE IInv'
    OBVIOUS
<1>1. TypeOK' /\ ChannelTypes'
    BY StepTypes
<1>2. LiveConnection' /\ DeadConnections' /\ FewLeft'
    BY <1>1, StepConnection
<1>3. GrantsAreRings' /\ OpensOnce'
    BY <1>1, StepHelpers
<1>4. PublishedOnce'
    BY <1>1, StepPublished
<1>5. GenerationsGrow'
    BY <1>1, StepGenerations
<1>6. LentInService' /\ GrantInService'
    BY <1>1, StepLent, StepGrant
<1> QED
    BY <1>1, <1>2, <1>3, <1>4, <1>5, <1>6 DEF IInv

(* The protocol keeps its inductive invariant.                             *)
THEOREM Invariance == Spec => []IInv
<1>1. Init => IInv
    BY InitInvariant
<1>2. IInv /\ [Next]_vars => IInv'
    BY StepInvariant
<1> QED
    BY <1>1, <1>2, PTL DEF Spec

(* Type correctness: in particular a request is open exactly while a       *)
(* reader is registered.                                                   *)
THEOREM ProtocolTypes == Spec => []TypeOK
<1>1. IInv => TypeOK
    BY DEF IInv
<1> QED
    BY <1>1, Invariance, PTL

(* The driver captures into a ring that a helper was given only while that *)
(* helper is registered and its user has the console, or while the event   *)
(* that ends this is on its way.                                           *)
THEOREM CaptureAuthorized == Spec => []CaptureIsAuthorized
<1>1. IInv => CaptureIsAuthorized
    BY DEF IInv, LentInService, CaptureIsAuthorized, DetachUnderWay
<1> QED
    BY <1>1, Invariance, PTL

(* A writer that is not the live driver has died, and the broker is about  *)
(* to hear of it.                                                          *)
LEMMA DeadWriterIsTold ==
    ASSUME TypeOK, ChannelTypes, DeadConnections, writer # NoPeer, writer # peer
    PROVE  DriverDeathUnderWay
<1>1. fromDriver[writer] \in Seq(FromDriver) /\ fromDriver[writer] # <<>> /\ writer \in Peers
    BY DEF TypeOK, ChannelTypes, DeadConnections
<1> DEFINE n == Len(fromDriver[writer])
<1>2. n \in 1..n /\ n \in DOMAIN fromDriver[writer]
    BY <1>1
<1>3. fromDriver[writer][n].op = "gone"
    BY <1>1, <1>2 DEF DeadConnections
<1> QED
    BY <1>2, <1>3 DEF DriverDeathUnderWay

(* A granted helper's ring is the one in service, or news of the change is *)
(* on its way to the driver or to the broker.                              *)
THEOREM GrantLive == Spec => []GrantIsLive
<1>1. ASSUME IInv, reader # NoReader, ~ pending, ~ DetachUnderWay, ~ DriverDeathUnderWay
      PROVE  lent[reader] = current
    <2>1. /\ TypeOK /\ ChannelTypes /\ DeadConnections
          /\ writer # NoPeer /\ (writer = peer => lent[reader] = current)
        BY <1>1 DEF IInv, GrantInService
    <2>2. CASE writer = peer
        BY <2>1, <2>2
    <2>3. CASE writer # peer
        BY <1>1, <2>1, <2>3, DeadWriterIsTold
    <2> QED
        BY <2>2, <2>3
<1>2. IInv => GrantIsLive
    BY <1>1 DEF GrantIsLive
<1> QED
    BY <1>2, Invariance, PTL

-----------------------------------------------------------------------------
(* Nobody is stranded *)

(* Some event of the queue is one of these.                                *)
Meets(queue, events) == \E i \in DOMAIN queue : queue[i] \in events

Reset == [op |-> "reset"]
Asked == {[op |-> "rotate", generation |-> generation, enabled |-> TRUE]}
Answers == {m \in FromDriver : m.op = "publish" /\ m.generation = generation}

(* The clauses of NobodyIsStranded, as the steps keep them.                *)
OpensInHand ==
    \A r \in Readers : phase[r] = "waiting" =>
        fromReader[r] = <<Open>> \/ toReader[r] # <<>> \/ (reader = r /\ pending)

Answering ==
    pending /\ writer = peer /\ peer # NoPeer =>
        Meets(toDriver, Asked) \/ Meets(fromDriver[peer], Answers)

EndsTold ==
    \A r \in Readers : phase[r] = "closed" =>
        \/ fromReader[r] \in {<<Gone>>, <<Open, Gone>>}
        \/ fromReader[r] = <<>> /\ reader # r

LossesTold ==
    \A r \in Readers :
        lent[r] # NoRing /\ reader # r /\ phase[r] \in {"waiting", "streaming"} =>
            Meets(toReader[r], {Reset})

InHand == OpensInHand /\ Answering /\ EndsTold /\ LossesTold

(* What is appended to a queue joins what is in it.                        *)
LEMMA AppendMeets ==
    ASSUME NEW S, NEW s \in Seq(S), NEW e \in S, NEW events
    PROVE  Meets(s, events) \/ e \in events => Meets(Append(s, e), events)
<1>1. /\ DOMAIN s = 1..Len(s) /\ DOMAIN Append(s, e) = 1..(Len(s) + 1) /\ Len(s) \in Nat
      /\ Append(s, e)[Len(s) + 1] = e
      /\ \A i \in 1..Len(s) : Append(s, e)[i] = s[i]
    OBVIOUS
<1>2. Len(s) + 1 \in 1..(Len(s) + 1) /\ \A i \in 1..Len(s) : i \in 1..(Len(s) + 1)
    BY <1>1
<1> QED
    BY <1>1, <1>2 DEF Meets

(* What is in a queue stays when something else is taken from its front.   *)
LEMMA TailMeets ==
    ASSUME NEW S, NEW s \in Seq(S), s # <<>>, NEW events, Meets(s, events),
           Head(s) \notin events
    PROVE  Meets(Tail(s), events)
<1>1. /\ DOMAIN s = 1..Len(s) /\ DOMAIN Tail(s) = 1..(Len(s) - 1) /\ Len(s) \in Nat
      /\ Head(s) = s[1]
      /\ \A i \in 1..(Len(s) - 1) : Tail(s)[i] = s[i + 1]
    OBVIOUS
<1>2. PICK i \in 1..Len(s) : s[i] \in events
    BY <1>1 DEF Meets
<1>3. i # 1
    BY <1>1, <1>2
<1>4. i - 1 \in 1..(Len(s) - 1) /\ (i - 1) + 1 = i
    BY <1>1, <1>2, <1>3
<1>5. Tail(s)[i - 1] = s[i]
    BY <1>1, <1>4
<1> QED
    BY <1>1, <1>2, <1>4, <1>5 DEF Meets

(* A step of the broker or the driver that closes nothing and opens        *)
(* nothing leaves what is in hand there, if the reader that it drops or    *)
(* answers is told.                                                        *)
LEMMA HelpersStayInHand ==
    ASSUME TypeOK, ChannelTypes, OpensInHand, EndsTold, LossesTold,
           UNCHANGED <<phase, fromReader>>,
           \A n \in Readers :
               /\ toReader[n] # <<>> => toReader'[n] # <<>>
               /\ Meets(toReader[n], {Reset}) => Meets(toReader'[n], {Reset})
               /\ reader = n /\ pending => (reader' = n /\ pending') \/ toReader'[n] # <<>>
               /\ reader = n => reader' = n \/ Meets(toReader'[n], {Reset})
               /\ reader' = n => reader = n
               /\ lent'[n] = lent[n] \/ reader' = n
    PROVE  OpensInHand' /\ EndsTold' /\ LossesTold'
<1>1. OpensInHand'
    BY DEF OpensInHand
<1>2. EndsTold'
    BY DEF EndsTold
<1>3. LossesTold'
    BY DEF LossesTold
<1> QED
    BY <1>1, <1>2, <1>3

(* The dropped reader is told.                                             *)
LEMMA DropTells ==
    ASSUME TypeOK, ChannelTypes, NEW w, DropReader(w)
    PROVE  /\ reader' = NoReader /\ NoReader \notin Readers
           /\ \A n \in Readers :
                 /\ toReader[n] # <<>> => toReader'[n] # <<>>
                 /\ Meets(toReader[n], {Reset}) => Meets(toReader'[n], {Reset})
                 /\ reader = n => toReader'[n] # <<>> /\ Meets(toReader'[n], {Reset})
<1>1. /\ reader' = NoReader /\ NoReader \notin Readers
      /\ toReader' = IF reader = NoReader THEN toReader
                     ELSE [toReader EXCEPT ![reader] = Append(@, Reset)]
    BY ProtocolAssumption DEF DropReader, Reset
<1>2. \A n \in Readers : toReader[n] \in Seq(ToReader)
    BY DEF ChannelTypes
<1>3. Reset \in ToReader /\ Reset \in {Reset}
    BY DEF ToReader, Reset
<1>4. ASSUME NEW n \in Readers
      PROVE  Append(toReader[n], Reset) # <<>> /\ Meets(Append(toReader[n], Reset), {Reset})
    <2>1. Append(toReader[n], Reset) # <<>>
        BY <1>2, <1>3, Appended
    <2>2. Meets(Append(toReader[n], Reset), {Reset})
        BY <1>2, <1>3, AppendMeets
    <2> QED
        BY <2>1, <2>2
<1>5. \A n \in Readers :
          IF reader = n THEN toReader'[n] = Append(toReader[n], Reset)
                        ELSE toReader'[n] = toReader[n]
    BY <1>1 DEF ChannelTypes, TypeOK
<1> QED
    BY <1>1, <1>4, <1>5

(* A helper that closes says so, and waits for nothing any more.           *)
LEMMA CloseKeepsInHand ==
    ASSUME TypeOK, ChannelTypes, OpensOnce, OpensInHand, EndsTold, LossesTold,
           NEW r \in Readers, phase[r] \in {"waiting", "streaming", "lost"}, Close(r),
           UNCHANGED <<reader, pending, lent>>
    PROVE  OpensInHand' /\ EndsTold' /\ LossesTold'
<1>1. /\ phase'[r] = "closed"
      /\ \A n \in Readers : n # r =>
            /\ phase'[n] = phase[n] /\ fromReader'[n] = fromReader[n]
            /\ toReader'[n] = toReader[n]
    BY DEF Close, TypeOK, ChannelTypes
<1>2. fromReader'[r] \in {<<Gone>>, <<Open, Gone>>}
    <2>1. fromReader[r] \in {<<>>, <<Open>>}
        BY DEF ChannelTypes, FromReader, OpensOnce
    <2>2. fromReader'[r] = Append(fromReader[r], Gone)
        BY DEF Close, ChannelTypes, Gone
    <2>3. Append(<<>>, Gone) = <<Gone>> /\ Append(<<Open>>, Gone) = <<Open, Gone>>
        BY ShortQueues
    <2> QED
        BY <2>1, <2>2, <2>3
<1>3. OpensInHand'
    BY <1>1 DEF OpensInHand
<1>4. EndsTold'
    BY <1>1, <1>2 DEF EndsTold
<1>5. LossesTold'
    BY <1>1 DEF LossesTold
<1> QED
    BY <1>3, <1>4, <1>5

(* Every step of a helper keeps what is in hand.                           *)
LEMMA HelperKeepsInHand ==
    ASSUME TypeOK, ChannelTypes, OpensOnce, OpensInHand, EndsTold, LossesTold,
           NEW r \in Readers,
           ReaderOpen(r) \/ ReaderStep(r) \/ ReaderTimeout(r) \/ ReaderClose(r)
    PROVE  OpensInHand' /\ EndsTold' /\ LossesTold'
<1> DEFINE Kept == OpensInHand' /\ EndsTold' /\ LossesTold'
<1>0. UNCHANGED <<reader, pending, lent>>
    BY DEF ReaderOpen, ReaderStep, ReaderGranted, ReaderRefused, ReaderLost, ReaderTimeout,
           ReaderClose, brokerVars
<1>1. CASE ReaderOpen(r)
    <2>1. /\ phase[r] = "idle" /\ phase'[r] = "waiting" /\ fromReader'[r] = <<Open>>
          /\ \A n \in Readers : n # r => fromReader'[n] = fromReader[n] /\ phase'[n] = phase[n]
          /\ toReader' = toReader
        BY <1>1 DEF ReaderOpen, ChannelTypes, TypeOK, Open
    <2>2. lent[r] = NoRing
        BY <2>1 DEF OpensOnce
    <2>3. OpensInHand'
        BY <1>0, <2>1 DEF OpensInHand
    <2>4. EndsTold'
        BY <1>0, <2>1 DEF EndsTold
    <2>5. LossesTold'
        BY <1>0, <2>1, <2>2 DEF LossesTold
    <2> QED
        BY <2>3, <2>4, <2>5
<1>2. CASE phase[r] \in {"waiting", "streaming", "lost"} /\ Close(r)
    BY <1>0, <1>2, CloseKeepsInHand
<1>3. CASE /\ toReader[r] # <<>> /\ toReader' = [toReader EXCEPT ![r] = Tail(@)]
           /\ UNCHANGED fromReader
           /\ \/ /\ phase[r] = "waiting" /\ phase' = [phase EXCEPT ![r] = "streaming"]
                 /\ Head(toReader[r]).op = "grant"
              \/ phase' = [phase EXCEPT ![r] = "lost"]
    <2>1. /\ phase'[r] \in {"streaming", "lost"} /\ toReader'[r] = Tail(toReader[r])
          /\ \A n \in Readers : n # r => toReader'[n] = toReader[n] /\ phase'[n] = phase[n]
        BY <1>3 DEF TypeOK, ChannelTypes
    <2>2. OpensInHand'
        BY <1>0, <1>3, <2>1 DEF OpensInHand
    <2>3. EndsTold'
        BY <1>0, <1>3, <2>1 DEF EndsTold
    <2>4. ASSUME lent[r] # NoRing, reader # r, phase'[r] = "streaming"
          PROVE  Meets(toReader'[r], {Reset})
        <3>1. phase[r] = "waiting" /\ Head(toReader[r]).op = "grant"
            BY <1>3, <2>4 DEF TypeOK
        <3>2. Head(toReader[r]) \notin {Reset}
            BY <3>1 DEF Reset
        <3>3. Meets(toReader[r], {Reset})
            BY <2>4, <3>1 DEF LossesTold
        <3>4. toReader[r] \in Seq(ToReader)
            BY DEF ChannelTypes
        <3> QED
            BY <1>3, <2>1, <3>2, <3>3, <3>4, TailMeets
    <2>5. LossesTold'
        BY <1>0, <2>1, <2>4 DEF LossesTold
    <2> QED
        BY <2>2, <2>3, <2>5
<1>4. \/ ReaderOpen(r)
      \/ phase[r] \in {"waiting", "streaming", "lost"} /\ Close(r)
      \/ /\ toReader[r] # <<>> /\ toReader' = [toReader EXCEPT ![r] = Tail(@)]
         /\ UNCHANGED fromReader
         /\ \/ /\ phase[r] = "waiting" /\ phase' = [phase EXCEPT ![r] = "streaming"]
               /\ Head(toReader[r]).op = "grant"
            \/ phase' = [phase EXCEPT ![r] = "lost"]
    BY DEF ReaderStep, ReaderGranted, ReaderRefused, ReaderLost, ReaderTimeout,
           ReaderClose, Arrives
<1> QED
    BY <1>1, <1>2, <1>3, <1>4

(* The opens, ends and losses of the helpers are in hand after every step. *)
LEMMA StepInHand ==
    ASSUME IInv, [Next]_vars, OpensInHand, EndsTold, LossesTold
    PROVE  OpensInHand' /\ EndsTold' /\ LossesTold'
<1>0. TypeOK /\ ChannelTypes /\ OpensOnce
    BY DEF IInv
<1> DEFINE Kept == OpensInHand' /\ EndsTold' /\ LossesTold'
<1>1. ASSUME UNCHANGED <<phase, fromReader, toReader, reader, pending, lent>> PROVE Kept
    BY <1>0, <1>1, HelpersStayInHand
<1>2. ASSUME UNCHANGED <<phase, fromReader, lent>>, NEW w, DropReader(w) PROVE Kept
    <2>1. reader' = NoReader /\ NoReader \notin Readers
        BY <1>0, <1>2, DropTells
    <2>2. \A n \in Readers :
             /\ toReader[n] # <<>> => toReader'[n] # <<>>
             /\ Meets(toReader[n], {Reset}) => Meets(toReader'[n], {Reset})
             /\ reader = n => toReader'[n] # <<>> /\ Meets(toReader'[n], {Reset})
        BY <1>0, <1>2, DropTells
    <2> QED
        BY <1>0, <1>2, <2>1, <2>2, HelpersStayInHand
<1>3. CASE SessionChanged
    BY <1>2, <1>3 DEF SessionChanged, readerVars
<1>4. ASSUME NEW p \in Peers, BrokerTurnsAway(p) \/ BrokerHello(p) PROVE Kept
    BY <1>1, <1>4 DEF BrokerTurnsAway, BrokerHello, brokerVars, readerVars
<1>5. ASSUME NEW p \in Peers, BrokerPublish(p) PROVE Kept
    <2> DEFINE message == Head(fromDriver[p])
    <2>1. UNCHANGED <<phase, fromReader>>
        BY <1>5 DEF BrokerPublish, readerVars
    <2>2. CASE /\ reader \in Readers /\ UNCHANGED reader
               /\ toReader' = [toReader EXCEPT ![reader] =
                               Append(@, [op |-> "grant", ring |-> message.ring])]
               /\ lent' = [lent EXCEPT ![reader] = message.ring]
        <3> DEFINE m == [op |-> "grant", ring |-> message.ring]
        <3>1. m \in ToReader
            <4>1. /\ fromDriver[p] \in Seq(FromDriver) /\ fromDriver[p] # <<>>
                  /\ message.op = "publish"
                BY <1>0, <1>5 DEF ChannelTypes, BrokerPublish, Arrives
            <4>2. message \in FromDriver
                BY <4>1, Taken
            <4>3. message.ring \in Nat
                BY <4>1, <4>2 DEF FromDriver
            <4> QED
                BY <4>3 DEF ToReader
        <3>2. toReader' = [toReader EXCEPT ![reader] = Append(@, m)]
            BY <2>2
        <3> HIDE DEF m
        <3>3. \A n \in Readers : toReader[n] \in Seq(ToReader)
            BY <1>0 DEF ChannelTypes
        <3>4. \A n \in Readers :
                 /\ Append(toReader[n], m) # <<>>
                 /\ Meets(toReader[n], {Reset}) => Meets(Append(toReader[n], m), {Reset})
            BY <3>1, <3>3, Appended, AppendMeets
        <3>5. \A n \in Readers : toReader'[n] = IF n = reader THEN Append(toReader[n], m)
                                                ELSE toReader[n]
            BY <1>0, <3>2 DEF ChannelTypes
        <3>6. \A n \in Readers : lent'[n] = lent[n] \/ reader' = n
            BY <1>0, <2>2 DEF TypeOK
        <3> QED
            BY <1>0, <2>1, <2>2, <3>4, <3>5, <3>6, HelpersStayInHand
    <2>3. CASE DropReader(writer) /\ UNCHANGED lent
        BY <1>2, <2>1, <2>3
    <2>4. CASE UNCHANGED <<reader, pending, toReader, lent>>
        BY <1>1, <2>1, <2>4
    <2> QED
        BY <1>0, <1>5, <2>2, <2>3, <2>4 DEF BrokerPublish, Wanted, TypeOK
<1>6. ASSUME NEW p \in Peers, BrokerWriterGone(p) PROVE Kept
    BY <1>1, <1>2, <1>6 DEF BrokerWriterGone, brokerVars, readerVars
<1>7. ASSUME NEW r \in Readers, BrokerOpen(r) PROVE Kept
    <2>1. /\ \/ fromReader[r] = <<Open>> /\ fromReader'[r] = <<>>
             \/ fromReader[r] = <<Open, Gone>> /\ fromReader'[r] = <<Gone>>
          /\ \A n \in Readers : n # r => fromReader'[n] = fromReader[n]
          /\ UNCHANGED <<phase, lent>>
        <3>1. fromReader[r] \in FromReader /\ fromReader[r] # <<>> /\ Head(fromReader[r]).op = "open"
            BY <1>0, <1>7 DEF BrokerOpen, Arrives, ChannelTypes
        <3>2. fromReader'[r] = Tail(fromReader[r])
              /\ \A n \in Readers : n # r => fromReader'[n] = fromReader[n]
            BY <1>0, <1>7 DEF BrokerOpen, ChannelTypes
        <3>3. UNCHANGED <<phase, lent>>
            BY <1>7 DEF BrokerOpen, readerVars
        <3> QED
            BY <3>1, <3>2, <3>3, ReaderQueue
    <2>2. /\ <<>> \notin {<<Open>>, <<Gone>>, <<Open, Gone>>}
          /\ <<Gone>> \notin {<<Open>>, <<Open, Gone>>}
        BY <2>1, ReaderQueue DEF FromReader
    <2>3. reader # r /\ lent[r] = NoRing
        BY <1>0, <2>1 DEF OpensOnce
    <2>4. phase[r] = "closed" => fromReader'[r] = <<Gone>>
        BY <2>1, <2>2 DEF EndsTold
    <2>5. NoReader \notin Readers
        BY ProtocolAssumption
    <2>6. CASE reader = NoReader /\ pending' = TRUE /\ reader' = r /\ UNCHANGED toReader
        <3>1. OpensInHand'
            BY <2>1, <2>5, <2>6 DEF OpensInHand
        <3>2. EndsTold'
            BY <2>1, <2>4, <2>5, <2>6 DEF EndsTold
        <3>3. LossesTold'
            BY <2>1, <2>5, <2>6 DEF LossesTold
        <3> QED
            BY <3>1, <3>2, <3>3
    <2>7. CASE /\ toReader' = [toReader EXCEPT ![r] = Append(@, [op |-> "refused"])]
               /\ UNCHANGED <<pending, reader>>
        <3> DEFINE m == [op |-> "refused"]
        <3>1. toReader'[r] = Append(toReader[r], m)
              /\ \A n \in Readers : n # r => toReader'[n] = toReader[n]
            BY <1>0, <2>7 DEF ChannelTypes
        <3>2. m \in ToReader /\ toReader[r] \in Seq(ToReader)
            BY <1>0 DEF ToReader, ChannelTypes
        <3> HIDE DEF m
        <3>3. toReader'[r] # <<>>
            BY <3>1, <3>2, Appended
        <3>4. OpensInHand'
            BY <2>1, <2>7, <3>1, <3>3 DEF OpensInHand
        <3>5. EndsTold'
            BY <2>1, <2>3, <2>4, <2>7 DEF EndsTold
        <3>6. LossesTold'
            BY <2>1, <2>3, <2>7, <3>1 DEF LossesTold
        <3> QED
            BY <3>4, <3>5, <3>6
    <2> QED
        BY <1>7, <2>6, <2>7 DEF BrokerOpen
<1>8. ASSUME NEW r \in Readers, BrokerReaderGone(r) PROVE Kept
    <2>1. /\ fromReader[r] = <<Gone>> /\ fromReader'[r] = <<>>
          /\ \A n \in Readers : n # r => fromReader'[n] = fromReader[n]
          /\ UNCHANGED <<phase, lent>>
        <3>1. fromReader[r] \in FromReader /\ fromReader[r] # <<>> /\ Head(fromReader[r]).op = "gone"
            BY <1>0, <1>8 DEF BrokerReaderGone, Arrives, ChannelTypes
        <3>2. fromReader'[r] = Tail(fromReader[r])
              /\ \A n \in Readers : n # r => fromReader'[n] = fromReader[n]
            BY <1>0, <1>8 DEF BrokerReaderGone, ChannelTypes
        <3>3. UNCHANGED <<phase, lent>>
            BY <1>8 DEF BrokerReaderGone, readerVars
        <3> QED
            BY <3>1, <3>2, <3>3, ReaderQueue
    <2>2. phase[r] = "closed"
        BY <1>0, <2>1 DEF OpensOnce
    <2>3. /\ reader' # r /\ reader' \in {reader, NoReader}
          /\ \A n \in Readers :
                /\ toReader[n] # <<>> => toReader'[n] # <<>>
                /\ Meets(toReader[n], {Reset}) => Meets(toReader'[n], {Reset})
                /\ reader = n =>
                      \/ reader' = n /\ pending' = pending
                      \/ toReader'[n] # <<>> /\ Meets(toReader'[n], {Reset})
        <3>1. CASE DropReader(writer)
            BY <1>0, <3>1, DropTells, ProtocolAssumption
        <3>2. CASE r # reader /\ UNCHANGED <<reader, pending, toReader>>
            BY <3>2
        <3> QED
            BY <1>8, <3>1, <3>2 DEF BrokerReaderGone
    <2>4. OpensInHand'
        BY <2>1, <2>2, <2>3 DEF OpensInHand
    <2>5. EndsTold'
        BY <2>1, <2>3, ProtocolAssumption DEF EndsTold
    <2>6. LossesTold'
        BY <2>1, <2>3 DEF LossesTold
    <2> QED
        BY <2>4, <2>5, <2>6
<1>9. CASE DriverStep \/ DriverRestart
    BY <1>1, <1>9 DEF DriverStep, DriverRotate, DriverConnectionError, DriverHello,
                      DriverRestart, brokerVars, readerVars
<1>10. ASSUME NEW r \in Readers,
              ReaderOpen(r) \/ ReaderStep(r) \/ ReaderTimeout(r) \/ ReaderClose(r)
       PROVE  Kept
    BY <1>0, <1>10, HelperKeepsInHand
<1>11. ASSUME NEW user \in Users \union {NoUser}, ConsoleChanges(user) PROVE Kept
    BY <1>1, <1>11 DEF ConsoleChanges, brokerVars, readerVars, channelVars
<1>12. CASE BrokerCrash
    <2>1. /\ UNCHANGED <<phase, lent>> /\ reader' = NoReader
          /\ fromReader' = [r \in Readers |-> <<>>]
          /\ \A r \in Readers : phase[r] \in {"waiting", "streaming"} =>
                toReader'[r] = Append(toReader[r], Reset)
        BY <1>12 DEF BrokerCrash, readerVars, Reset
    <2>2. \A r \in Readers : /\ Append(toReader[r], Reset) # <<>>
                             /\ Meets(Append(toReader[r], Reset), {Reset})
        <3>1. Reset \in ToReader /\ Reset \in {Reset}
            BY DEF ToReader, Reset
        <3>2. \A r \in Readers : toReader[r] \in Seq(ToReader)
            BY <1>0 DEF ChannelTypes
        <3> QED
            BY <3>1, <3>2, Appended, AppendMeets
    <2>3. OpensInHand'
        BY <2>1, <2>2 DEF OpensInHand
    <2>4. EndsTold'
        BY <2>1, ProtocolAssumption DEF EndsTold
    <2>5. LossesTold'
        BY <2>1, <2>2 DEF LossesTold
    <2> QED
        BY <2>3, <2>4, <2>5
<1>13. CASE UNCHANGED vars
    BY <1>1, <1>13 DEF vars, brokerVars, readerVars, channelVars
<1>14. ASSUME NEW p \in Peers, WriterEvent(p) PROVE Kept
    BY <1>4, <1>5, <1>6, <1>14 DEF WriterEvent
<1>15. ASSUME NEW r \in Readers, ReaderEvent(r) PROVE Kept
    BY <1>7, <1>8, <1>15 DEF ReaderEvent
<1> QED
    BY <1>3, <1>9, <1>10, <1>11, <1>12, <1>13, <1>14, <1>15 DEF Next

(* A rotation that enables is one for the generation it begins.            *)
LEMMA RotationAsks ==
    ASSUME TypeOK, ChannelTypes, NEW w, w # NoPeer, w = peer, Rotate(w, TRUE)
    PROVE  Meets(toDriver', Asked')
<1> DEFINE m == [op |-> "rotate", generation |-> generation + 1, enabled |-> TRUE]
<1>1. generation \in Nat /\ toDriver \in Seq(ToDriver) /\ generation' = generation + 1
    BY DEF TypeOK, ChannelTypes, Rotate
<1>2. m \in ToDriver
    BY <1>1 DEF ToDriver
<1>3. Asked' = {m}
    BY <1>1 DEF Asked
<1>4. toDriver' = Append(toDriver, m)
    BY DEF Rotate
<1> HIDE DEF m
<1>5. Meets(Append(toDriver, m), {m})
    BY <1>1, <1>2, AppendMeets
<1> QED
    BY <1>3, <1>4, <1>5

(* The driver answers what it is asked, and takes the event for it.        *)
LEMMA DriverAnswers ==
    ASSUME TypeOK, ChannelTypes, LiveConnection, Answering, DriverRotate
    PROVE  Answering'
<1>1. UNCHANGED <<pending, writer, peer, generation>>
    BY DEF DriverRotate, brokerVars
<1> SUFFICES ASSUME pending, writer = peer, peer # NoPeer
             PROVE  Meets(toDriver', Asked') \/ Meets(fromDriver'[peer], Answers')
    BY <1>1 DEF Answering
<1>2. Asked' = Asked /\ Answers' = Answers
    BY <1>1 DEF Asked, Answers
<1>3. /\ toDriver \in Seq(ToDriver) /\ toDriver # <<>> /\ toDriver' = Tail(toDriver)
      /\ fromDriver \in [Peers -> Seq(FromDriver)] /\ peer \in Peers
      /\ Head(toDriver) \in ToDriver /\ Head(toDriver).op = "rotate"
      /\ ~ Severed
    <2>1. ~ Severed
        BY DEF LiveConnection
    <2> QED
        BY <2>1, Taken DEF TypeOK, ChannelTypes, DriverRotate, Arrives
<1>4. \/ fromDriver'[peer] = fromDriver[peer] /\ ~ Head(toDriver).enabled
      \/ \E ring \in Nat : fromDriver'[peer] = Append(fromDriver[peer],
            [op |-> "publish", generation |-> Head(toDriver).generation, ring |-> ring])
    <2>1. FreshRing \in Nat /\ NoRing \in Nat
        BY DEF TypeOK, FreshRing, NoRing
    <2>2. \/ fromDriver' = fromDriver /\ ~ Head(toDriver).enabled
          \/ \E ring \in {FreshRing, NoRing} : fromDriver' = [fromDriver EXCEPT ![peer] =
                Append(@, [op |-> "publish", generation |-> Head(toDriver).generation,
                           ring |-> ring])]
        BY <1>3 DEF DriverRotate
    <2> QED
        BY <1>3, <2>1, <2>2
<1>5. ASSUME NEW ring \in Nat,
             fromDriver'[peer] = Append(fromDriver[peer],
                [op |-> "publish", generation |-> Head(toDriver).generation, ring |-> ring])
      PROVE  /\ Meets(fromDriver[peer], Answers) => Meets(fromDriver'[peer], Answers)
             /\ Head(toDriver) \in Asked => Meets(fromDriver'[peer], Answers)
    <2> DEFINE m == [op |-> "publish", generation |-> Head(toDriver).generation, ring |-> ring]
    <2>1. m \in FromDriver
        BY <1>3, <1>5 DEF FromDriver, ToDriver
    <2>2. Head(toDriver) \in Asked => m \in Answers
        BY <2>1 DEF Asked, Answers
    <2>3. fromDriver'[peer] = Append(fromDriver[peer], m)
        BY <1>5
    <2> HIDE DEF m
    <2>4. fromDriver[peer] \in Seq(FromDriver)
        BY <1>3
    <2> QED
        BY <2>1, <2>2, <2>3, <2>4, AppendMeets
<1>6. CASE Meets(fromDriver[peer], Answers)
    BY <1>2, <1>4, <1>5, <1>6
<1>7. CASE Meets(toDriver, Asked) /\ Head(toDriver) \notin Asked
    BY <1>2, <1>3, <1>7, TailMeets
<1>8. CASE Head(toDriver) \in Asked
    <2>1. Head(toDriver).enabled
        BY <1>8 DEF Asked
    <2> QED
        BY <1>2, <1>4, <1>5, <1>8, <2>1
<1> QED
    BY <1>6, <1>7, <1>8 DEF Answering

(* A registered driver is being asked, or has answered, after every step.  *)
LEMMA StepAnswering ==
    ASSUME IInv, [Next]_vars, Answering
    PROVE  Answering'
<1>0. TypeOK /\ ChannelTypes /\ OpensOnce /\ LiveConnection /\ FewLeft
    BY DEF IInv
<1>1. fromDriver \in [Peers -> Seq(FromDriver)] /\ NoPeer \notin Peers
      /\ writer \in Peers \union {NoPeer} /\ peer \in Peers \union {NoPeer}
    <2>1. NoPeer \notin Peers
        BY DEF NoPeer, Peers
    <2> QED
        BY <1>0, <2>1 DEF TypeOK, ChannelTypes
<1>2. ASSUME UNCHANGED <<pending, writer, peer, generation, toDriver>>,
             writer = peer /\ peer # NoPeer => fromDriver'[peer] = fromDriver[peer]
      PROVE  Answering'
    <2>1. Asked' = Asked /\ Answers' = Answers
        BY <1>2 DEF Asked, Answers
    <2> QED
        BY <1>2, <2>1 DEF Answering
<1>3. ASSUME ~ pending' PROVE Answering'
    BY <1>3 DEF Answering
<1>4. ASSUME writer' # peer' \/ peer' = NoPeer PROVE Answering'
    BY <1>4 DEF Answering
<1>5. CASE SessionChanged
    BY <1>3, <1>5 DEF SessionChanged, DropReader
<1>6. ASSUME NEW p \in Peers, BrokerTurnsAway(p) PROVE Answering'
    <2>1. /\ UNCHANGED <<pending, writer, peer, generation>> /\ p # writer
          /\ fromDriver' = [fromDriver EXCEPT ![p] = <<>>]
          /\ p # peer => toDriver' = toDriver
        BY <1>6 DEF BrokerTurnsAway, brokerVars, driverVars
    <2>2. CASE writer = peer /\ peer # NoPeer
        <3>1. fromDriver'[peer] = fromDriver[peer] /\ toDriver' = toDriver
            BY <1>1, <2>1, <2>2
        <3> QED
            BY <1>2, <2>1, <3>1
    <2> QED
        BY <1>4, <2>1, <2>2
<1>7. ASSUME NEW p \in Peers, BrokerHello(p) PROVE Answering'
    <2>1. /\ writer' = p /\ Rotate(p, reader # NoReader /\ opened)
          /\ UNCHANGED <<pending, reader, opened, peer>>
        BY <1>7 DEF BrokerHello, driverVars
    <2>2. CASE p = peer /\ pending
        <3>1. reader # NoReader /\ opened
            BY <1>0, <2>2 DEF OpensOnce, TypeOK
        <3>2. (reader # NoReader /\ opened) = TRUE
            BY <3>1
        <3>3. Rotate(p, TRUE)
            BY <2>1, <3>2
        <3>4. p # NoPeer
            BY <1>1
        <3>5. Meets(toDriver', Asked')
            BY <1>0, <2>2, <3>3, <3>4, RotationAsks
        <3> QED
            BY <3>5 DEF Answering
    <2>3. CASE p # peer
        BY <1>4, <2>1, <2>3
    <2>4. CASE ~ pending
        <3>1. ~ pending'
            BY <2>1, <2>4
        <3> QED
            BY <1>3, <3>1
    <2> QED
        BY <2>2, <2>3, <2>4
<1>8. ASSUME NEW p \in Peers, BrokerPublish(p) PROVE Answering'
    <2>1. /\ p = writer /\ fromDriver[p] # <<>> /\ UNCHANGED <<writer, peer>>
          /\ fromDriver' = [fromDriver EXCEPT ![p] = Tail(fromDriver[p])]
        BY <1>8 DEF BrokerPublish, Arrives, driverVars
    <2>2. CASE ~ pending'
        BY <1>3, <2>2
    <2>3. CASE pending' /\ pending /\ ~ Wanted(Head(fromDriver[p])) /\ writer = peer
               /\ UNCHANGED <<generation, toDriver>>
        <3>1. reader # NoReader /\ opened
            BY <1>0, <2>3 DEF OpensOnce, TypeOK
        <3>2. Head(fromDriver[p]).generation # generation
            BY <2>3, <3>1 DEF Wanted
        <3>3. Head(fromDriver[p]) \notin Answers
            BY <3>2 DEF Answers
        <3>4. fromDriver'[peer] = Tail(fromDriver[p]) /\ fromDriver[p] \in Seq(FromDriver)
            BY <1>1, <2>1, <2>3
        <3>5. Meets(fromDriver[p], Answers) => Meets(fromDriver'[peer], Answers)
            BY <2>1, <3>3, <3>4, TailMeets
        <3>6. Asked' = Asked /\ Answers' = Answers
            BY <2>3 DEF Asked, Answers
        <3> QED
            BY <2>1, <2>3, <3>5, <3>6 DEF Answering
    <2>4. CASE writer # peer
        BY <1>4, <2>1, <2>4
    <2>5. \/ ~ pending'
          \/ /\ ~ Wanted(Head(fromDriver[p])) /\ UNCHANGED <<generation, toDriver>>
             /\ pending' <=> pending
        BY <1>8 DEF BrokerPublish, DropReader
    <2> QED
        BY <2>2, <2>3, <2>4, <2>5
<1>9. ASSUME NEW p \in Peers, BrokerWriterGone(p) PROVE Answering'
    <2>1. CASE ~ pending'
        BY <1>3, <2>1
    <2>2. CASE /\ p # writer /\ UNCHANGED <<pending, writer, peer, generation, toDriver>>
               /\ fromDriver' = [fromDriver EXCEPT ![p] = Tail(@)]
        <3>1. writer = peer /\ peer # NoPeer => fromDriver'[peer] = fromDriver[peer]
            BY <1>1, <2>2
        <3> QED
            BY <1>2, <2>2, <3>1
    <2> QED
        BY <1>9, <2>1, <2>2 DEF BrokerWriterGone, DropReader, brokerVars, driverVars
<1>10. ASSUME NEW r \in Readers, BrokerOpen(r) PROVE Answering'
    <2>1. UNCHANGED <<writer, peer, fromDriver>>
        BY <1>10 DEF BrokerOpen, driverVars
    <2>2. CASE Rotate(writer, TRUE)
        <3>1. CASE writer = peer /\ peer # NoPeer
            <4>1. Meets(toDriver', Asked')
                BY <1>0, <2>2, <3>1, RotationAsks
            <4> QED
                BY <4>1 DEF Answering
        <3> QED
            BY <1>4, <2>1, <3>1
    <2>3. CASE UNCHANGED <<pending, generation, toDriver>>
        BY <1>2, <2>1, <2>3
    <2> QED
        BY <1>10, <2>2, <2>3 DEF BrokerOpen
<1>11. ASSUME NEW r \in Readers, BrokerReaderGone(r) PROVE Answering'
    <2>1. UNCHANGED <<writer, peer, fromDriver>>
        BY <1>11 DEF BrokerReaderGone, driverVars
    <2>2. CASE ~ pending'
        BY <1>3, <2>2
    <2>3. CASE UNCHANGED <<pending, generation, toDriver>>
        BY <1>2, <2>1, <2>3
    <2> QED
        BY <1>11, <2>2, <2>3 DEF BrokerReaderGone, DropReader
<1>12. CASE DriverRotate
    BY <1>0, <1>12, DriverAnswers
<1>13. CASE DriverConnectionError
    BY <1>4, <1>13 DEF DriverConnectionError
<1>14. CASE DriverHello \/ DriverRestart
    <2>1. FreePeer \notin {writer, peer}
        BY <1>0, <1>14, OneIsFree DEF DriverHello, DriverRestart, LiveConnection
    <2>2. writer' = writer /\ peer' = FreePeer
        BY <1>14 DEF DriverHello, DriverRestart, brokerVars
    <2> QED
        BY <1>4, <2>1, <2>2
<1>15. ASSUME NEW r \in Readers,
              ReaderOpen(r) \/ ReaderStep(r) \/ ReaderTimeout(r) \/ ReaderClose(r)
       PROVE  Answering'
    BY <1>2, <1>15 DEF ReaderOpen, ReaderStep, ReaderGranted, ReaderRefused, ReaderLost,
                    ReaderTimeout, ReaderClose, brokerVars, driverVars
<1>16. ASSUME NEW user \in Users \union {NoUser}, ConsoleChanges(user) PROVE Answering'
    BY <1>2, <1>16 DEF ConsoleChanges, brokerVars, driverVars, channelVars
<1>17. CASE BrokerCrash
    BY <1>3, <1>17 DEF BrokerCrash
<1>18. CASE UNCHANGED vars
    BY <1>2, <1>18 DEF vars, brokerVars, driverVars, channelVars
<1>19. ASSUME NEW p \in Peers, WriterEvent(p) PROVE Answering'
    BY <1>6, <1>7, <1>8, <1>9, <1>19 DEF WriterEvent
<1>20. ASSUME NEW r \in Readers, ReaderEvent(r) PROVE Answering'
    BY <1>10, <1>11, <1>20 DEF ReaderEvent
<1> QED
    BY <1>5, <1>12, <1>13, <1>14, <1>15, <1>16, <1>17, <1>18, <1>19, <1>20
    DEF Next, DriverStep

(* Nobody waits for what is not under way, whatever fails, restarts,       *)
(* crashes or expires: an open is in hand, a driver is asked or answers,   *)
(* and ends and losses are told.                                           *)
THEOREM NobodyStranded == Spec => []NobodyIsStranded
<1>1. Init => InHand
    <2> SUFFICES ASSUME Init PROVE InHand
        OBVIOUS
    <2>1. /\ \A r \in Readers : phase[r] = "idle" /\ lent[r] = NoRing
          /\ pending = FALSE
        BY DEF Init
    <2> QED
        BY <2>1 DEF InHand, OpensInHand, Answering, EndsTold, LossesTold
<1>2. IInv /\ InHand /\ [Next]_vars => InHand'
    BY StepInHand, StepAnswering DEF InHand
<1>3. ASSUME IInv, InHand PROVE NobodyIsStranded
    <2>0. /\ TypeOK /\ ChannelTypes /\ OpensOnce /\ DeadConnections
          /\ Open.op = "open" /\ Gone.op = "gone"
        BY <1>3 DEF IInv, Open, Gone
    <2>1. OpenIsInHand
        <3>1. \E i \in DOMAIN <<Open>> : <<Open>>[i].op = "open"
            <4>1. 1 \in DOMAIN <<Open>> /\ <<Open>>[1] = Open
                OBVIOUS
            <4> QED
                BY <2>0, <4>1
        <3> QED
            BY <1>3, <3>1 DEF InHand, OpensInHand, OpenIsInHand
    <2>2. AnswerIsUnderWay
        <3> SUFFICES ASSUME pending, writer # NoPeer
                     PROVE  \/ /\ writer = peer
                               /\ \E i \in DOMAIN toDriver :
                                     toDriver[i] = [op |-> "rotate", generation |-> generation,
                                                    enabled |-> TRUE]
                            \/ \E i \in DOMAIN fromDriver[writer] :
                                  /\ fromDriver[writer][i].op = "publish"
                                  /\ fromDriver[writer][i].generation = generation
                            \/ DriverDeathUnderWay
            BY DEF AnswerIsUnderWay
        <3>1. CASE writer # peer
            BY <2>0, <3>1, DeadWriterIsTold
        <3>2. CASE writer = peer
            BY <1>3, <3>2 DEF InHand, Answering, Meets, Asked, Answers
        <3> QED
            BY <3>1, <3>2
    <2>3. EndIsTold
        <3>1. \A q \in {<<Gone>>, <<Open, Gone>>} : \E i \in DOMAIN q : q[i].op = "gone"
            <4>1. /\ 1 \in DOMAIN <<Gone>> /\ <<Gone>>[1] = Gone
                  /\ 2 \in DOMAIN <<Open, Gone>> /\ <<Open, Gone>>[2] = Gone
                OBVIOUS
            <4> QED
                BY <2>0, <4>1
        <3> QED
            BY <1>3, <3>1 DEF InHand, EndsTold, EndIsTold
    <2>4. LossIsTold
        <3>1. ASSUME NEW r \in Readers, Meets(toReader[r], {Reset})
              PROVE  \E i \in DOMAIN toReader[r] : toReader[r][i].op = "reset"
            BY <3>1 DEF Meets, Reset
        <3> QED
            BY <1>3, <3>1 DEF InHand, LossesTold, LossIsTold
    <2> QED
        BY <2>1, <2>2, <2>3, <2>4 DEF NobodyIsStranded
<1> QED
    BY <1>1, <1>2, <1>3, Invariance, PTL DEF Spec

-----------------------------------------------------------------------------
(* The protocol implements RingLease *)

(* A granting publication lends a ring that was never lent to a reader     *)
(* that has none.                                                          *)
LEMMA PublishLends ==
    ASSUME IInv, NEW p \in Peers, BrokerPublish(p)
    PROVE  UNCHANGED lent \/ (Lease!Lend(reader) /\ reader \in Readers)
<1> DEFINE message == Head(fromDriver[p])
<1>1. /\ TypeOK /\ ChannelTypes /\ PublishedOnce /\ OpensOnce
    BY DEF IInv
<1>2. CASE /\ reader \in Readers /\ pending /\ message.ring # NoRing
           /\ lent' = [lent EXCEPT ![reader] = message.ring]
    <2>1. Publishes(p, 1) /\ message = fromDriver[p][1]
        <3>1. fromDriver[p] # <<>> /\ message.op = "publish"
            BY DEF BrokerPublish, Arrives
        <3>2. /\ message = fromDriver[p][1] /\ Len(fromDriver[p]) \in Nat
              /\ Len(fromDriver[p]) >= 1
            BY <1>1, <3>1, Taken DEF ChannelTypes
        <3> QED
            BY <1>2, <3>1, <3>2 DEF Publishes
    <2>2. message.ring \in 1..allocated /\ \A r \in Readers : lent[r] # message.ring
        BY <1>1, <2>1 DEF PublishedOnce
    <2>3. lent'[reader] = message.ring /\ lent[reader] = NoRing
        BY <1>1, <1>2 DEF TypeOK, OpensOnce
    <2>4. UNCHANGED <<current, allocated>>
        BY DEF BrokerPublish, driverVars
    <2> HIDE DEF message
    <2>5. Lease!Lend(reader)
        BY <1>2, <2>2, <2>3, <2>4 DEF Lease!Lend
    <2> QED
        BY <1>2, <2>5
<1>3. CASE UNCHANGED lent
    BY <1>3
<1> QED
    BY <1>1, <1>2, <1>3 DEF BrokerPublish, Wanted, TypeOK

(* Every step of the protocol is a step of RingLease, or leaves it alone.  *)
LEMMA StepLease == IInv /\ [Next]_vars => [Lease!LeaseNext]_(Lease!leaseVars)
<1> SUFFICES ASSUME IInv, [Next]_vars PROVE [Lease!LeaseNext]_(Lease!leaseVars)
    OBVIOUS
<1>0. TypeOK /\ LiveConnection /\ allocated \in Nat
    BY DEF IInv, TypeOK
<1>1. ASSUME UNCHANGED <<current, allocated, lent>>
      PROVE  [Lease!LeaseNext]_(Lease!leaseVars)
    BY <1>1 DEF Lease!leaseVars
<1>2. ASSUME current' = NoRing, UNCHANGED <<allocated, lent>>
      PROVE  [Lease!LeaseNext]_(Lease!leaseVars)
    BY <1>2 DEF Lease!LeaseNext, Lease!Detach
<1>3. ASSUME NEW p \in Peers, WriterEvent(p) PROVE [Lease!LeaseNext]_(Lease!leaseVars)
    <2>1. UNCHANGED <<current, allocated>>
        BY <1>3 DEF WriterEvent, BrokerTurnsAway, BrokerHello, BrokerPublish,
                    BrokerWriterGone, driverVars
    <2>2. UNCHANGED lent \/ BrokerPublish(p)
        BY <1>3 DEF WriterEvent, BrokerTurnsAway, BrokerHello, BrokerWriterGone
    <2>3. UNCHANGED lent \/ (Lease!Lend(reader) /\ reader \in Readers)
        BY <2>2, PublishLends
    <2> QED
        BY <1>1, <2>1, <2>3 DEF Lease!LeaseNext
<1>4. CASE DriverRotate
    <2>1. UNCHANGED lent
        BY <1>4 DEF DriverRotate
    <2>2. CASE current' = FreshRing /\ allocated' = FreshRing
        <3>1. FreshRing = allocated + 1
            BY DEF FreshRing
        <3>2. current' \notin 1..allocated \union {NoRing}
            BY <1>0, <2>2, <3>1 DEF NoRing
        <3>3. 1..allocated' = 1..allocated \union {current'}
            BY <1>0, <2>2, <3>1
        <3>4. Lease!Install
            BY <2>1, <3>2, <3>3 DEF Lease!Install
        <3> QED
            BY <3>4 DEF Lease!LeaseNext
    <2>3. CASE current' = NoRing /\ UNCHANGED allocated
        BY <1>2, <2>1, <2>3
    <2> QED
        BY <1>4, <2>2, <2>3 DEF DriverRotate
<1>5. CASE DriverConnectionError \/ DriverHello \/ DriverRestart
    <2>1. current' = NoRing /\ UNCHANGED <<allocated, lent>>
        BY <1>0, <1>5 DEF DriverConnectionError, DriverHello, DriverRestart, LiveConnection
    <2> QED
        BY <1>2, <2>1
<1>6. CASE SessionChanged
    BY <1>1, <1>6 DEF SessionChanged, driverVars
<1>7. ASSUME NEW r \in Readers, ReaderEvent(r) PROVE [Lease!LeaseNext]_(Lease!leaseVars)
    BY <1>1, <1>7 DEF ReaderEvent, BrokerOpen, BrokerReaderGone, driverVars
<1>8. ASSUME NEW r \in Readers,
             ReaderOpen(r) \/ ReaderStep(r) \/ ReaderTimeout(r) \/ ReaderClose(r)
      PROVE  [Lease!LeaseNext]_(Lease!leaseVars)
    BY <1>1, <1>8 DEF ReaderOpen, ReaderStep, ReaderGranted, ReaderRefused, ReaderLost,
                    ReaderTimeout, ReaderClose, driverVars
<1>9. ASSUME NEW user \in Users \union {NoUser}, ConsoleChanges(user)
      PROVE  [Lease!LeaseNext]_(Lease!leaseVars)
    BY <1>1, <1>9 DEF ConsoleChanges, driverVars
<1>10. CASE BrokerCrash
    BY <1>1, <1>10 DEF BrokerCrash, driverVars
<1>11. CASE UNCHANGED vars
    BY <1>1, <1>11 DEF vars, driverVars
<1> QED
    BY <1>3, <1>4, <1>5, <1>6, <1>7, <1>8, <1>9, <1>10, <1>11 DEF Next, DriverStep

(* Refinement: the driver and the broker together lend each ring at most   *)
(* once, and put no ring back into service.                                *)
THEOREM LeaseImplemented == Spec => LeaseIsExclusive
<1>1. Init => Lease!LeaseInit
    <2>1. 1..0 = {}
        OBVIOUS
    <2> QED
        BY <2>1 DEF Init, Lease!LeaseInit
<1>2. IInv /\ [Next]_vars => [Lease!LeaseNext]_(Lease!leaseVars)
    BY StepLease
<1> QED
    BY <1>1, <1>2, Invariance, PTL DEF Spec, LeaseIsExclusive, Lease!LeaseSpec

(* So no two helpers were ever given the same ring.                        *)
THEOREM LentOnce == Spec => []Lease!OneReaderPerRing
<1> DEFINE Typed == lent \in [Readers -> Nat]
           Once == Typed /\ Lease!OneReaderPerRing
<1>1. Lease!LeaseInit => Once
    BY DEF Lease!LeaseInit, Lease!OneReaderPerRing, NoRing
<1>2. Once /\ [Lease!LeaseNext]_(Lease!leaseVars) => Once'
    <2> SUFFICES ASSUME Once, [Lease!LeaseNext]_(Lease!leaseVars) PROVE Once'
        OBVIOUS
    <2>1. ASSUME UNCHANGED lent PROVE Once'
        BY <2>1 DEF Lease!OneReaderPerRing
    <2>2. ASSUME NEW r \in Readers, Lease!Lend(r) PROVE Once'
        <3>1. /\ lent' = [lent EXCEPT ![r] = lent'[r]]
              /\ lent'[r] \in Nat /\ \A s \in Readers : lent[s] # lent'[r]
            BY <2>2 DEF Lease!Lend
        <3>2. /\ lent' \in [Readers -> Nat]
              /\ \A s \in Readers : s # r => lent'[s] = lent[s]
            BY <3>1
        <3> QED
            BY <3>1, <3>2 DEF Lease!OneReaderPerRing
    <2> QED
        BY <2>1, <2>2
        DEF Lease!LeaseNext, Lease!Install, Lease!Detach, Lease!leaseVars
<1>3. Lease!OneReaderPerRing => Lease!OneReaderPerRing
    OBVIOUS
<1>4. Lease!LeaseSpec => []Once
    BY <1>1, <1>2, PTL DEF Lease!LeaseSpec
<1>5. Once => Lease!OneReaderPerRing
    OBVIOUS
<1> QED
    BY <1>4, <1>5, LeaseImplemented, PTL DEF LeaseIsExclusive

=============================================================================
