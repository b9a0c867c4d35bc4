-------------------------- MODULE MCBrokerProtocol --------------------------
(* BrokerProtocol with two users: up to two helpers of the first, so that   *)
(* one can follow or compete with the other, and one of the second.         *)
EXTENDS BrokerProtocol, TLC

CONSTANTS a, b, c, u1, u2

MCUsers == {u1, u2}
MCUid == [r \in Readers |-> IF r = c THEN u2 ELSE u1]

ThreeReaders == {a, b, c}
TwoUsersReaders == {a, c}

AllFailures == FailureKinds
NoFailures == {}

(* Of one session change, one driver restart and one broker crash, two     *)
(* happen in a run of three helpers.                                       *)
TwoMishaps == budget.sessions + budget.restarts + budget.crashes >= 1

(* The helpers of one user are alike. *)
Symmetry == Permutations({a, b})
=============================================================================
