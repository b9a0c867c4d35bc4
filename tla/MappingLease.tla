---------------------------- MODULE MappingLease ----------------------------
(***************************************************************************)
(* The driver side of the shared ring: HAL threads reach the ring through  *)
(* a lease count while the driver's serial control queue replaces the ring *)
(* and gives the old one back to the system (common/SecureAudioWriter.c,   *)
(* with its callers in driver/SoundVolumeControl.c).                       *)
(*                                                                         *)
(* A HAL callback is four atomic steps: count itself, load the pointer,    *)
(* work on the ring, uncount itself.  A control-queue block is a sequence  *)
(* of atomic steps too; blocks of that queue never overlap each other, but *)
(* every step of one interleaves with the steps of every callback.  All    *)
(* these accesses are sequentially consistent in the source.               *)
(*                                                                         *)
(* A Ring is one allocation: an address that is allocated again is another *)
(* Ring.  The publish message that ends an enabled rotation is the matter  *)
(* of the broker's protocol and changes nothing here.                      *)
(***************************************************************************)
EXTENDS Integers, FiniteSets

CONSTANTS
    Threads,    \* HAL threads that may call into the driver
    Rings,      \* the allocations of one run
    NoRing      \* the null pointer

ASSUME LeaseAssumption == IsFiniteSet(Threads) /\ NoRing \notin Rings

VARIABLES
    current,    \* currentAudio
    leases,     \* the lease count
    pc,         \* where each HAL thread is inside its callback
    held,       \* the pointer each HAL thread loaded
    memory,     \* "unmapped", "mapped" or "freed", for each ring
    active,     \* writerActive, for each ring
    ctl,        \* the next step of the block the control queue runs
    fresh,      \* the ring that block allocated and has yet to install
    doomed,     \* the ring that block's Retire is looking at
    timers      \* rings with a Retire block scheduled by dispatch_after

threadVars  == <<pc, held>>
controlVars == <<ctl, fresh, doomed, timers>>
vars == <<current, leases, memory, active, threadVars, controlVars>>

OptionalRings == Rings \union {NoRing}

TypeOK ==
    /\ current \in OptionalRings
    /\ leases \in Nat
    /\ pc \in [Threads -> {"idle", "counted", "using", "done"}]
    /\ held \in [Threads -> OptionalRings]
    /\ memory \in [Rings -> {"unmapped", "mapped", "freed"}]
    /\ active \in [Rings -> BOOLEAN]
    /\ ctl \in {"idle", "exchange", "retire", "deactivate", "deallocate"}
    /\ fresh \in OptionalRings
    /\ doomed \in OptionalRings
    /\ timers \subseteq Rings

Init ==
    /\ current = NoRing
    /\ leases = 0
    /\ pc = [t \in Threads |-> "idle"]
    /\ held = [t \in Threads |-> NoRing]
    /\ memory = [r \in Rings |-> "unmapped"]
    /\ active = [r \in Rings |-> FALSE]
    /\ ctl = "idle"
    /\ fresh = NoRing
    /\ doomed = NoRing
    /\ timers = {}

-----------------------------------------------------------------------------
(* Plausible faults, each a mutated form of the action it is named after.  *)

(* A callback loads the pointer without counting itself. *)
FetchAddMissing(t) ==
    /\ pc[t] = "idle"
    /\ pc' = [pc EXCEPT ![t] = "counted"]
    /\ UNCHANGED <<current, leases, held, memory, active, controlVars>>

(* Retire ignores the leases. *)
PollLeasesUnchecked ==
    /\ ctl = "retire"
    /\ ctl' = "deactivate"
    /\ UNCHANGED <<current, leases, memory, active, threadVars, fresh, doomed, timers>>

(* The busy case forgets to schedule the next look. *)
PollLeasesOnce ==
    /\ ctl = "retire"
    /\ IF leases = 0
       THEN ctl' = "deactivate" /\ UNCHANGED doomed
       ELSE ctl' = "idle" /\ doomed' = NoRing
    /\ UNCHANGED <<current, leases, memory, active, threadVars, fresh, timers>>

(* Retire frees the ring without lowering its flag. *)
DeactivateMissing ==
    /\ ctl = "deactivate"
    /\ ctl' = "deallocate"
    /\ UNCHANGED <<current, leases, memory, active, threadVars, fresh, doomed, timers>>

(* The timer's block looks at the ring that is installed now. *)
TimerFiresOnCurrent(r) ==
    /\ ctl = "idle"
    /\ r \in timers
    /\ timers' = timers \ {r}
    /\ doomed' = current
    /\ ctl' = IF current = NoRing THEN "idle" ELSE "retire"
    /\ UNCHANGED <<current, leases, memory, active, threadVars, fresh>>

-----------------------------------------------------------------------------
(* HAL callbacks *)

(* SVCWriterAcquire, first half: the thread counts itself. *)
FetchAdd(t) ==
    /\ pc[t] = "idle"
    /\ pc' = [pc EXCEPT ![t] = "counted"]
    /\ leases' = leases + 1
    /\ UNCHANGED <<current, held, memory, active, controlVars>>

(* SVCWriterAcquire, second half: only now it loads the pointer. *)
LoadCurrent(t) ==
    /\ pc[t] = "counted"
    /\ pc' = [pc EXCEPT ![t] = "using"]
    /\ held' = [held EXCEPT ![t] = current]
    /\ UNCHANGED <<current, leases, memory, active, controlVars>>

(* The work a callback does on the ring it loaded, as far as writerActive  *)
(* tells: a capture (WriteMix) raises it, the reset of the first StartIO   *)
(* and the last StopIO lower it, counting (ProcessOutput, or a WriteMix    *)
(* that captures nothing) leaves it.  With a null ring nothing is written. *)
Work(t) ==
    /\ pc[t] = "using"
    /\ pc' = [pc EXCEPT ![t] = "done"]
    /\ \/ /\ held[t] # NoRing
          /\ \E flag \in BOOLEAN : active' = [active EXCEPT ![held[t]] = flag]
       \/ UNCHANGED active
    /\ UNCHANGED <<current, leases, held, memory, controlVars>>

(* SVCWriterRelease *)
FetchSub(t) ==
    /\ pc[t] = "done"
    /\ pc' = [pc EXCEPT ![t] = "idle"]
    /\ held' = [held EXCEPT ![t] = NoRing]
    /\ leases' = leases - 1
    /\ UNCHANGED <<current, memory, active, controlVars>>

-----------------------------------------------------------------------------
(* The control queue *)

(* An enabled rotate message: the block allocates and clears a ring. *)
RotateEnabled(r) ==
    /\ ctl = "idle"
    /\ memory[r] = "unmapped"
    /\ memory' = [memory EXCEPT ![r] = "mapped"]
    /\ fresh' = r
    /\ ctl' = "exchange"
    /\ UNCHANGED <<current, leases, active, threadVars, doomed, timers>>

(* A disabled rotate message, an enabled one whose allocation fails, and   *)
(* any error event of the connection: the block installs no ring.          *)
DetachRing ==
    /\ ctl = "idle"
    /\ fresh' = NoRing
    /\ ctl' = "exchange"
    /\ UNCHANGED <<current, leases, memory, active, threadVars, doomed, timers>>

(* atomic_exchange of currentAudio; Retire(NULL) returns at once. *)
Exchange ==
    /\ ctl = "exchange"
    /\ current' = fresh
    /\ fresh' = NoRing
    /\ doomed' = current
    /\ ctl' = IF current = NoRing THEN "idle" ELSE "retire"
    /\ UNCHANGED <<leases, memory, active, threadVars, timers>>

(* Retire looks at the lease count once: no lease, and the ring goes; any  *)
(* lease, and another Retire is scheduled one millisecond later.           *)
PollLeases ==
    /\ ctl = "retire"
    /\ IF leases = 0
       THEN /\ ctl' = "deactivate"
            /\ UNCHANGED <<doomed, timers>>
       ELSE /\ ctl' = "idle"
            /\ timers' = timers \union {doomed}
            /\ doomed' = NoRing
    /\ UNCHANGED <<current, leases, memory, active, threadVars, fresh>>

(* A reader that still maps the ring is told to play silence ... *)
Deactivate ==
    /\ ctl = "deactivate"
    /\ active' = [active EXCEPT ![doomed] = FALSE]
    /\ ctl' = "deallocate"
    /\ UNCHANGED <<current, leases, memory, threadVars, fresh, doomed, timers>>

(* ... before the driver's own mapping goes away. *)
Deallocate ==
    /\ ctl = "deallocate"
    /\ memory' = [memory EXCEPT ![doomed] = "freed"]
    /\ doomed' = NoRing
    /\ ctl' = "idle"
    /\ UNCHANGED <<current, leases, active, threadVars, fresh, timers>>

(* A dispatch_after block runs Retire again. *)
TimerFires(r) ==
    /\ ctl = "idle"
    /\ r \in timers
    /\ timers' = timers \ {r}
    /\ doomed' = r
    /\ ctl' = "retire"
    /\ UNCHANGED <<current, leases, memory, active, threadVars, fresh>>

-----------------------------------------------------------------------------
CallbackStep(t) == LoadCurrent(t) \/ Work(t) \/ FetchSub(t)
ControlStep == Exchange \/ PollLeases \/ Deactivate \/ Deallocate

Next ==
    \/ \E t \in Threads : FetchAdd(t) \/ CallbackStep(t)
    \/ \E r \in Rings : RotateEnabled(r) \/ TimerFires(r)
    \/ DetachRing
    \/ ControlStep

(* A callback that started returns, and the control queue runs to its end  *)
(* the block it started.  Nothing obliges the host to call in or the       *)
(* broker to send.  A due timer competes with messages for the serial      *)
(* queue and is not overtaken forever, hence its strong fairness.          *)
Fairness ==
    /\ \A t \in Threads : WF_vars(CallbackStep(t))
    /\ WF_vars(ControlStep)
    /\ \A r \in Rings : SF_vars(TimerFires(r))

Spec == Init /\ [][Next]_vars /\ Fairness

-----------------------------------------------------------------------------
(* Properties *)

InCallback(t) == pc[t] \in {"using", "done"}

(* A ring is never unmapped under a callback that loaded it: the comment   *)
(* on Retire, "leases prevent deallocation while a callback holds the old  *)
(* ring".  The load comes after the count, so a callback that Retire does  *)
(* not see counted can only load the ring installed after the old one.     *)
NoUseAfterFree ==
    \A t \in Threads :
        InCallback(t) /\ held[t] # NoRing => memory[held[t]] = "mapped"

(* A ring whose driver mapping is gone has writerActive 0 for good, so a   *)
(* reader that still maps it plays silence and not the last samples again: *)
(* no callback can raise the flag after Retire has lowered it.             *)
FreedIsSilent == \A r \in Rings : memory[r] = "freed" => ~ active[r]

(* Every mapped ring is in exactly one place: being installed, installed,  *)
(* in the hands of a Retire, or waiting for another one.  Rotations and    *)
(* failed polls lose no mapping, and no ring is retired twice or while it  *)
(* is installed.                                                           *)
NoRingLost ==
    \A r \in Rings :
        /\ memory[r] = "mapped" <=> r \in timers \union {fresh, current, doomed}
        /\ r = fresh => r \notin timers \union {current, doomed}
        /\ r = current => r \notin timers \union {doomed}
        /\ r = doomed => r \notin timers

(* Once the host stops calling in, every ring that is not installed is     *)
(* unmapped.  (While callbacks keep arriving, each poll may happen to find *)
(* one: nothing bounds the wait then.)                                     *)
RetiredIsReclaimed ==
    <>[](\A t \in Threads : pc[t] = "idle")
        => \A r \in Rings :
              memory[r] = "mapped" /\ r # current ~> memory[r] = "freed" \/ r = current

-----------------------------------------------------------------------------
(* The strengthening that makes the three safety properties inductive.     *)

(* A callback is counted from before its load until after its last access. *)
LeasesCountCallbacks == leases = Cardinality({t \in Threads : pc[t] # "idle"})

(* A block holds a ring exactly while it has business with it. *)
BlockShape ==
    /\ doomed # NoRing <=> ctl \in {"retire", "deactivate", "deallocate"}
    /\ fresh # NoRing => ctl = "exchange"

(* Once Retire has seen no lease, no callback holds the doomed ring, and   *)
(* none can load it again, as it is installed no more.                     *)
DoomedIsUnheld ==
    ctl \in {"deactivate", "deallocate"} =>
        \A t \in Threads : InCallback(t) => held[t] # doomed

DoomedIsSilent == ctl = "deallocate" => ~ active[doomed]

LeaseInvariant ==
    /\ TypeOK
    /\ LeasesCountCallbacks
    /\ BlockShape
    /\ DoomedIsUnheld
    /\ DoomedIsSilent
    /\ NoRingLost
    /\ NoUseAfterFree
    /\ FreedIsSilent

=============================================================================
