------------------------ MODULE MappingLease_proofs ------------------------
(***************************************************************************)
(* The lease protocol of MappingLease is safe for every number of HAL      *)
(* threads and every number of rotations.                                  *)
(***************************************************************************)
EXTENDS MappingLease, FiniteSetTheorems, TLAPS

USE LeaseAssumption

(* The callbacks that Retire can see. *)
Counted == {t \in Threads : pc[t] # "idle"}

(* The threads inside a callback are finitely many, and a count of zero    *)
(* means that there is none.                                               *)
LEMMA CountedFinite ==
    /\ IsFiniteSet(Counted)
    /\ Cardinality(Counted) = 0 => \A t \in Threads : pc[t] = "idle"
<1>1. IsFiniteSet(Counted)
  BY FS_Subset DEF Counted
<1>2. Cardinality(Counted) = 0 => Counted = {}
  BY <1>1, FS_EmptySet
<1> QED
  BY <1>1, <1>2 DEF Counted

(* A thread that enters a callback adds one to the count. *)
LEMMA CountEnters ==
    ASSUME TypeOK, NEW t \in Threads, pc[t] = "idle",
           pc' = [pc EXCEPT ![t] = "counted"]
    PROVE  Cardinality(Counted') = Cardinality(Counted) + 1
<1>1. Counted' = Counted \union {t}
  BY DEF Counted, TypeOK
<1>2. t \notin Counted
  BY DEF Counted
<1> QED
  BY <1>1, <1>2, CountedFinite, FS_AddElement

(* A thread that leaves its callback takes one off. *)
LEMMA CountLeaves ==
    ASSUME TypeOK, NEW t \in Threads, pc[t] = "done",
           pc' = [pc EXCEPT ![t] = "idle"]
    PROVE  /\ Cardinality(Counted') = Cardinality(Counted) - 1
           /\ Cardinality(Counted) > 0
<1>1. Counted' = Counted \ {t}
  BY DEF Counted, TypeOK
<1>2. t \in Counted
  BY DEF Counted
<1>3. Cardinality(Counted) \in Nat /\ Cardinality(Counted) # 0
  BY <1>2, CountedFinite, FS_CardinalityType DEF Counted
<1>4. Cardinality(Counted \ {t}) = Cardinality(Counted) - 1
  BY <1>2, CountedFinite, FS_RemoveElement
<1> QED
  BY <1>1, <1>3, <1>4

(* A thread that moves on inside its callback leaves the count alone. *)
LEMMA CountStays ==
    ASSUME TypeOK, NEW t \in Threads, NEW p \in {"counted", "using", "done"},
           pc[t] # "idle", pc' = [pc EXCEPT ![t] = p]
    PROVE  Counted' = Counted
  BY DEF Counted, TypeOK

-----------------------------------------------------------------------------
(* Nothing is mapped, held or counted at first. *)
THEOREM LeaseInit == Init => LeaseInvariant
<1> SUFFICES ASSUME Init PROVE LeaseInvariant
  OBVIOUS
<1> USE DEF Init
<1>1. TypeOK
  BY DEF TypeOK, OptionalRings
<1>2. LeasesCountCallbacks
  <2>1. {t \in Threads : pc[t] # "idle"} = {}
    OBVIOUS
  <2> QED
    BY <2>1, FS_EmptySet DEF LeasesCountCallbacks
<1>3. BlockShape /\ DoomedIsUnheld /\ DoomedIsSilent /\ NoRingLost
  BY DEF BlockShape, DoomedIsUnheld, DoomedIsSilent, NoRingLost
<1>4. NoUseAfterFree /\ FreedIsSilent
  BY DEF NoUseAfterFree, FreedIsSilent, InCallback
<1> QED
  BY <1>1, <1>2, <1>3, <1>4 DEF LeaseInvariant

(* Every step of a callback and every step of the control queue keeps the  *)
(* lease invariant.                                                        *)
THEOREM LeaseStep == LeaseInvariant /\ [Next]_vars => LeaseInvariant'
<1> SUFFICES ASSUME LeaseInvariant, [Next]_vars PROVE LeaseInvariant'
  OBVIOUS
<1> USE DEF LeaseInvariant
<1>1. ASSUME NEW t \in Threads, FetchAdd(t) PROVE LeaseInvariant'
  <2> USE <1>1 DEF FetchAdd
  <2>1. TypeOK'
    BY DEF TypeOK, controlVars
  <2>2. LeasesCountCallbacks'
    BY CountEnters DEF LeasesCountCallbacks, Counted
  <2>3. \A u \in Threads : InCallback(u)' => InCallback(u) /\ held'[u] = held[u]
    BY DEF InCallback, TypeOK
  <2> QED
    BY <2>1, <2>2, <2>3 DEF BlockShape, DoomedIsUnheld, DoomedIsSilent, NoRingLost,
                            NoUseAfterFree, FreedIsSilent, controlVars
<1>2. ASSUME NEW t \in Threads, LoadCurrent(t) PROVE LeaseInvariant'
  <2> USE <1>2 DEF LoadCurrent
  <2>1. TypeOK'
    BY DEF TypeOK, controlVars
  <2>2. LeasesCountCallbacks'
    BY CountStays DEF LeasesCountCallbacks, Counted
  <2>3. \A u \in Threads : InCallback(u)' =>
           held'[u] = current \/ (InCallback(u) /\ held'[u] = held[u])
    BY DEF InCallback, TypeOK
  <2>4. ctl \in {"deactivate", "deallocate"} => current # doomed
    BY DEF BlockShape, NoRingLost, TypeOK, OptionalRings
  <2>5. DoomedIsUnheld'
    BY <2>3, <2>4 DEF DoomedIsUnheld, controlVars
  <2>6. NoUseAfterFree'
    BY <2>3 DEF NoUseAfterFree, NoRingLost, TypeOK, OptionalRings
  <2> QED
    BY <2>1, <2>2, <2>5, <2>6 DEF BlockShape, DoomedIsSilent, NoRingLost,
                                  FreedIsSilent, controlVars
<1>3. ASSUME NEW t \in Threads, Work(t) PROVE LeaseInvariant'
  <2> USE <1>3 DEF Work
  <2>1. TypeOK'
    BY DEF TypeOK, controlVars, OptionalRings
  <2>2. LeasesCountCallbacks'
    BY CountStays DEF LeasesCountCallbacks, Counted
  <2>3. InCallback(t)
    BY DEF InCallback
  <2>4. \A u \in Threads : InCallback(u)' => InCallback(u) /\ held'[u] = held[u]
    BY <2>3 DEF InCallback, TypeOK
  <2>5. \A r \in Rings : active'[r] # active[r] => r = held[t] /\ memory[r] = "mapped"
    BY <2>3 DEF NoUseAfterFree, TypeOK
  <2>6. FreedIsSilent'
    BY <2>5 DEF FreedIsSilent, TypeOK
  <2>7. DoomedIsSilent'
    BY <2>3, <2>5 DEF DoomedIsSilent, DoomedIsUnheld, BlockShape, TypeOK, OptionalRings,
                      controlVars
  <2> QED
    BY <2>1, <2>2, <2>4, <2>6, <2>7 DEF BlockShape, DoomedIsUnheld, NoRingLost,
                                        NoUseAfterFree, controlVars
<1>4. ASSUME NEW t \in Threads, FetchSub(t) PROVE LeaseInvariant'
  <2> USE <1>4 DEF FetchSub
  <2>0. /\ Cardinality(Counted') = Cardinality(Counted) - 1
        /\ Cardinality(Counted) > 0
    BY CountLeaves
  <2>1. leases' \in Nat /\ LeasesCountCallbacks'
    BY <2>0 DEF LeasesCountCallbacks, Counted, TypeOK
  <2>2. TypeOK'
    BY <2>1 DEF TypeOK, controlVars, OptionalRings
  <2>3. \A u \in Threads : InCallback(u)' => InCallback(u) /\ held'[u] = held[u]
    BY DEF InCallback, TypeOK
  <2> QED
    BY <2>1, <2>2, <2>3 DEF BlockShape, DoomedIsUnheld, DoomedIsSilent, NoRingLost,
                            NoUseAfterFree, FreedIsSilent, controlVars
<1>5. ASSUME NEW r \in Rings, RotateEnabled(r) PROVE LeaseInvariant'
  <2> USE <1>5 DEF RotateEnabled
  <2>1. TypeOK'
    BY DEF TypeOK, OptionalRings, threadVars
  <2>2. NoRingLost'
    BY DEF NoRingLost, BlockShape, TypeOK
  <2>3. NoUseAfterFree' /\ FreedIsSilent'
    BY DEF NoUseAfterFree, FreedIsSilent, InCallback, threadVars, TypeOK, OptionalRings
  <2> QED
    BY <2>1, <2>2, <2>3 DEF LeasesCountCallbacks, BlockShape, DoomedIsUnheld,
                            DoomedIsSilent, InCallback, threadVars
<1>6. ASSUME DetachRing PROVE LeaseInvariant'
  <2> USE <1>6 DEF DetachRing
  <2>1. TypeOK'
    BY DEF TypeOK, OptionalRings, threadVars
  <2>2. NoRingLost'
    BY DEF NoRingLost, BlockShape, TypeOK
  <2> QED
    BY <2>1, <2>2 DEF LeasesCountCallbacks, BlockShape, DoomedIsUnheld, DoomedIsSilent,
                      NoUseAfterFree, FreedIsSilent, InCallback, threadVars
<1>7. ASSUME Exchange PROVE LeaseInvariant'
  <2> USE <1>7 DEF Exchange
  <2>1. TypeOK'
    BY DEF TypeOK, OptionalRings, threadVars
  <2>2. NoRingLost' /\ BlockShape'
    BY DEF NoRingLost, BlockShape, TypeOK, OptionalRings
  <2> QED
    BY <2>1, <2>2 DEF LeasesCountCallbacks, DoomedIsUnheld, DoomedIsSilent,
                      NoUseAfterFree, FreedIsSilent, InCallback, threadVars
<1>8. ASSUME PollLeases PROVE LeaseInvariant'
  <2> USE <1>8 DEF PollLeases
  <2>1. TypeOK'
    BY DEF TypeOK, OptionalRings, threadVars, BlockShape
  <2>2. NoRingLost' /\ BlockShape'
    BY DEF NoRingLost, BlockShape, TypeOK, OptionalRings
  <2>3. DoomedIsUnheld'
    BY CountedFinite DEF DoomedIsUnheld, LeasesCountCallbacks, Counted, InCallback,
                         threadVars
  <2> QED
    BY <2>1, <2>2, <2>3 DEF LeasesCountCallbacks, DoomedIsSilent, NoUseAfterFree,
                            FreedIsSilent, InCallback, threadVars
<1>9. ASSUME Deactivate PROVE LeaseInvariant'
  <2> USE <1>9 DEF Deactivate
  <2>1. doomed \in Rings
    BY DEF BlockShape, TypeOK, OptionalRings
  <2>2. TypeOK'
    BY DEF TypeOK, OptionalRings, threadVars
  <2>3. FreedIsSilent' /\ DoomedIsSilent'
    BY <2>1 DEF FreedIsSilent, DoomedIsSilent, TypeOK
  <2> QED
    BY <2>2, <2>3 DEF LeasesCountCallbacks, BlockShape, DoomedIsUnheld, NoRingLost,
                      NoUseAfterFree, InCallback, threadVars
<1>10. ASSUME Deallocate PROVE LeaseInvariant'
  <2> USE <1>10 DEF Deallocate
  <2>1. doomed \in Rings
    BY DEF BlockShape, TypeOK, OptionalRings
  <2>2. TypeOK'
    BY DEF TypeOK, OptionalRings, threadVars
  <2>3. NoRingLost' /\ BlockShape'
    BY <2>1 DEF NoRingLost, BlockShape, TypeOK
  <2>4. NoUseAfterFree'
    BY <2>1 DEF NoUseAfterFree, DoomedIsUnheld, InCallback, threadVars, TypeOK
  <2>5. FreedIsSilent'
    BY <2>1 DEF FreedIsSilent, DoomedIsSilent, TypeOK
  <2> QED
    BY <2>2, <2>3, <2>4, <2>5 DEF LeasesCountCallbacks, DoomedIsUnheld, DoomedIsSilent,
                                  InCallback, threadVars
<1>11. ASSUME NEW r \in Rings, TimerFires(r) PROVE LeaseInvariant'
  <2> USE <1>11 DEF TimerFires
  <2>1. TypeOK'
    BY DEF TypeOK, OptionalRings, threadVars
  <2>2. NoRingLost' /\ BlockShape'
    BY DEF NoRingLost, BlockShape, TypeOK
  <2> QED
    BY <2>1, <2>2 DEF LeasesCountCallbacks, DoomedIsUnheld, DoomedIsSilent,
                      NoUseAfterFree, FreedIsSilent, InCallback, threadVars
<1>12. CASE UNCHANGED vars
  BY <1>12 DEF vars, threadVars, controlVars, TypeOK, LeasesCountCallbacks, BlockShape,
               DoomedIsUnheld, DoomedIsSilent, NoRingLost, NoUseAfterFree, FreedIsSilent,
               InCallback
<1> QED
  BY <1>1, <1>2, <1>3, <1>4, <1>5, <1>6, <1>7, <1>8, <1>9, <1>10, <1>11, <1>12
     DEF Next, CallbackStep, ControlStep

(* Every reachable state satisfies the lease invariant. *)
THEOREM LeaseInvariantHolds == Spec => []LeaseInvariant
  BY LeaseInit, LeaseStep, PTL DEF Spec

(* Whatever the interleaving of callbacks, rotations, errors and timers,   *)
(* the driver never unmaps a ring under a callback that loaded it.         *)
THEOREM LeaseSafety == Spec => []NoUseAfterFree
<1>1. LeaseInvariant => NoUseAfterFree
  BY DEF LeaseInvariant
<1> QED
  BY <1>1, LeaseInvariantHolds, PTL

(* A reader of a ring the driver has given up always finds it inactive. *)
THEOREM LeaseSilence == Spec => []FreedIsSilent
<1>1. LeaseInvariant => FreedIsSilent
  BY DEF LeaseInvariant
<1> QED
  BY <1>1, LeaseInvariantHolds, PTL

(* No rotation and no failed poll loses a mapping or retires it twice. *)
THEOREM LeaseAccounting == Spec => []NoRingLost
<1>1. LeaseInvariant => NoRingLost
  BY DEF LeaseInvariant
<1> QED
  BY <1>1, LeaseInvariantHolds, PTL

(* Type correctness. *)
THEOREM LeaseTypes == Spec => []TypeOK
<1>1. LeaseInvariant => TypeOK
  BY DEF LeaseInvariant
<1> QED
  BY <1>1, LeaseInvariantHolds, PTL

=============================================================================
