----------------------------- MODULE RingLease -----------------------------
(***************************************************************************)
(* What the driver and the broker promise together about audio memory, in  *)
(* the words of docs/architecture.md: the driver captures into one ring at *)
(* a time, a ring once taken out of service never comes back, and a ring   *)
(* is lent to one reader at most.  BrokerProtocol implements this.         *)
(***************************************************************************)
EXTENDS Integers

CONSTANTS Readers, Rings, NoRing

VARIABLES
    current,    \* the ring the driver captures into
    used,       \* every ring that was in service so far
    lent        \* the ring each reader was given

leaseVars == <<current, used, lent>>

LeaseTypeOK ==
    /\ current \in Rings \union {NoRing}
    /\ used \subseteq Rings
    /\ lent \in [Readers -> Rings \union {NoRing}]

LeaseInit ==
    /\ current = NoRing
    /\ used = {}
    /\ lent = [r \in Readers |-> NoRing]

(* A ring enters service straight from allocation. *)
Install ==
    /\ current' \notin used \union {NoRing}
    /\ used' = used \union {current'}
    /\ UNCHANGED lent

(* Capture stops until another ring is installed. *)
Detach ==
    /\ current' = NoRing
    /\ UNCHANGED <<used, lent>>

(* A reader without a ring gets one that nobody else was given. *)
Lend(r) ==
    /\ lent[r] = NoRing
    /\ lent'[r] \in used \ {lent[s] : s \in Readers}
    /\ lent' = [lent EXCEPT ![r] = lent'[r]]
    /\ UNCHANGED <<current, used>>

LeaseNext == Install \/ Detach \/ \E r \in Readers : Lend(r)

LeaseSpec == LeaseInit /\ [][LeaseNext]_leaseVars

(* No two readers were ever given the same ring. *)
OneReaderPerRing ==
    \A r, s \in Readers : lent[r] = lent[s] /\ lent[r] # NoRing => r = s

=============================================================================
