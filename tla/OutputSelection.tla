---------------------------- MODULE OutputSelection ----------------------------
(***************************************************************************)
(* Which real output is meant: the helper's choice of the one it plays on  *)
(* (forwarder/main.m) and the app's choice of the ones it restores         *)
(* (app/main.m), from what each of them remembers, while the user selects, *)
(* plugs and unplugs outputs.                                              *)
(*                                                                         *)
(* AppLifecycle has the app's and the helper's steps with all their        *)
(* failures and one real output; here outputs are told apart, Core Audio   *)
(* obeys, the driver stays, an alert is over when its handler is, a helper *)
(* is launched when the one before has exited, and an error it prints is   *)
(* left out, since its exit follows.                                       *)
(*                                                                         *)
(* An eligible output is a member of [Real] that is present; the virtual   *)
(* device never is one.  The names, transports and channel counts that     *)
(* make a device eligible, and rank it, are two orders of Real.            *)
(***************************************************************************)
EXTENDS Integers, Sequences

CONSTANTS
    Real,           \* outputs that are physical devices
    Virtual,
    NoDevice,       \* no UID
    ByPriority,     \* Real as the helper ranks it: by transport
    ByName,         \* Real as the app lists it
    MaxChanges      \* bound: selections, plugs and unplugs by the user

(* The helper's lines that the choices depend on, but for the name of its  *)
(* output, which is told apart from them.                                  *)
Words == {"ready", "active", "deselected"}

ASSUME SelectionAssumption ==
    /\ Virtual \notin Real /\ NoDevice \notin Real /\ Virtual # NoDevice
    /\ Real \intersect Words = {}
    /\ \A order \in {ByPriority, ByName} :
          order \in Seq(Real) /\ {order[i] : i \in DOMAIN order} = Real
    /\ MaxChanges \in Nat

VARIABLES
    \* Core Audio
    present,        \* real outputs that are there
    output, system, \* the default selectors
    \* what the app remembers
    choice,         \* physicalDeviceUID: the menu's, or automatic
    runtime,        \* physicalOutputUID: the last helper's
    lastOutput, lastSystem,
    \* and the helper
    saved,          \* its own physicalDeviceUID
    \* the app
    running, enabled,
    forwarding,     \* the menu shows Enabled
    task,           \* its launch is the live one
    relaunchDue,
    \* blocks on their way to the main queue
    lines, exitDue, changed,
    \* the helper
    phase,
    explicit,       \* --physical-uid
    physical,       \* the output it plays on
    stopAsked,
    \* bound and history
    budget,
    replaced        \* the real system output the app replaced, until another
                    \* one is selected

routeVars == <<present, output, system>>
lastVars == <<lastOutput, lastSystem>>
appVars == <<running, enabled, forwarding, task, relaunchDue>>
queueVars == <<lines, exitDue, changed>>
helperVars == <<phase, explicit, physical, stopAsked>>
vars == <<routeVars, choice, runtime, lastVars, saved, appVars, queueVars, helperVars,
          budget, replaced>>

IsPhysicalOutput(device) == device \in present

(* The first of a sequence that is eligible. *)
FirstPresent(devices) ==
    LET usable == {i \in DOMAIN devices : IsPhysicalOutput(devices[i])}
    IN IF usable = {} THEN NoDevice
       ELSE devices[CHOOSE i \in usable : \A j \in usable : i <= j]

Init ==
    /\ present = Real
    /\ output \in Real /\ system \in Real
    /\ choice = NoDevice /\ runtime = NoDevice /\ saved = NoDevice
    /\ lastOutput = NoDevice /\ lastSystem = NoDevice
    /\ running = FALSE /\ enabled = FALSE /\ forwarding = FALSE
    /\ task = FALSE /\ relaunchDue = FALSE
    /\ lines = <<>> /\ exitDue = FALSE /\ changed = FALSE
    /\ phase = "none" /\ explicit = NoDevice /\ physical = NoDevice /\ stopAsked = FALSE
    /\ budget = MaxChanges
    /\ replaced = NoDevice

-----------------------------------------------------------------------------
(* The choices *)

BestAvailablePhysicalOutput == FirstPresent(ByPriority)

(* The helper's: the output that was asked for, and none if it is gone;    *)
(* else the default, if it is real; else the last one; else the best.      *)
SelectPhysicalOutput ==
    IF explicit # NoDevice THEN FirstPresent(<<explicit>>)
    ELSE FirstPresent(<<output, saved, BestAvailablePhysicalOutput>>)

FirstUsableUID(candidates) == FirstPresent(candidates \o ByName)

(* Mutant: what was last the default goes before what plays. *)
OutputUIDLastFirst(chosen, last) == FirstUsableUID(<<chosen, last, runtime, saved>>)

(* The app's, for the default output, with the choice of the menu and the  *)
(* real output that was last the default.                                  *)
OutputUID(chosen, last) == FirstUsableUID(<<chosen, runtime, last, saved>>)

(* restorePhysicalDefaults: what it answers and leaves in the selectors;   *)
(* each is restored only if it is virtual.                                 *)
Restored(chosen, last) ==
    LET uid == OutputUID(chosen, last)
        first == IF output = Virtual THEN uid ELSE output
        second == IF system = Virtual THEN FirstUsableUID(<<lastSystem, uid>>) ELSE system
    IN IF NoDevice \in {first, second}
       THEN [ok |-> FALSE, output |-> output, system |-> system]
       ELSE [ok |-> TRUE, output |-> first, system |-> second]

(* The selectors take these values, and the app's listener is told. *)
Route(out, sys) ==
    /\ output' = out /\ system' = sys
    /\ changed' = (changed \/ <<out, sys>> # <<output, system>>)
    /\ UNCHANGED present

(* capturePhysicalDefaults *)
Captured(device, last) == IF IsPhysicalOutput(device) THEN device ELSE last

Capture ==
    /\ lastOutput' = Captured(output, lastOutput)
    /\ lastSystem' = Captured(system, lastSystem)

-----------------------------------------------------------------------------
(* Pieces of the app's handlers *)

(* launchForwarder: the choice of the menu goes with it. *)
Launch ==
    /\ phase = "none"
    /\ phase' = "launched" /\ explicit' = choice /\ physical' = NoDevice
    /\ stopAsked' = FALSE
    /\ task' = TRUE /\ relaunchDue' = FALSE /\ forwarding' = FALSE
    /\ lines' = <<>> /\ exitDue' = FALSE

(* stopForwarder: blocks of that launch will be ignored. *)
Stop(relaunchToo) ==
    /\ task' = FALSE /\ relaunchDue' = relaunchToo /\ forwarding' = FALSE
    /\ lines' = <<>> /\ exitDue' = FALSE
    /\ stopAsked' = (stopAsked \/ (task /\ phase # "none"))
    /\ UNCHANGED <<phase, explicit, physical>>

(* The end of a launch: disabled, restored if possible, stopped. *)
GiveUp(last) ==
    /\ enabled' = FALSE
    /\ LET result == Restored(choice, last) IN Route(result.output, result.system)
    /\ Stop(FALSE)

-----------------------------------------------------------------------------
(* The app's handlers *)

DidFinishLaunching ==
    /\ ~ running
    /\ running' = TRUE /\ enabled' = TRUE
    /\ Capture
    /\ Launch
    /\ changed' = FALSE
    /\ UNCHANGED <<routeVars, choice, runtime, saved, budget, replaced>>

Enable ==
    /\ running /\ ~ enabled
    /\ enabled' = TRUE
    /\ Launch
    /\ UNCHANGED <<routeVars, choice, runtime, lastVars, saved, running, changed, budget,
                   replaced>>

(* toggleForwarding: it stays enabled if there is no output to restore. *)
Disable ==
    /\ running /\ enabled /\ Restored(choice, lastOutput).ok
    /\ GiveUp(lastOutput)
    /\ UNCHANGED <<choice, runtime, lastVars, saved, running, budget, replaced>>

(* selectPhysicalOutput, restartForwarder: the new choice already counts   *)
(* when the outputs are restored.                                          *)
ChooseOutput(device) ==
    /\ running
    /\ budget > 0 /\ budget' = budget - 1
    /\ choice' = device
    /\ LET result == Restored(device, lastOutput)
       IN IF enabled /\ result.ok
          THEN Route(result.output, result.system) /\ Stop(TRUE)
          ELSE UNCHANGED <<routeVars, forwarding, task, relaunchDue, queueVars, helperVars>>
    /\ UNCHANGED <<runtime, lastVars, saved, running, enabled, replaced>>

Relaunch ==
    /\ running /\ relaunchDue
    /\ Launch
    /\ UNCHANGED <<routeVars, choice, runtime, lastVars, saved, running, enabled, changed,
                   budget, replaced>>

(* consumeForwarderLine: the name of the output; *)
ConsumeOutput ==
    /\ lines # <<>> /\ Head(lines) \in Real
    /\ runtime' = Head(lines)
    /\ lines' = Tail(lines)
    /\ UNCHANGED <<routeVars, choice, lastVars, saved, appVars, exitDue, changed, helperVars,
                   budget, replaced>>

(* readiness, upon which selectSoundVolumeWithDetail captures the outputs  *)
(* and selects the virtual one;                                            *)
ConsumeReady ==
    /\ lines # <<>> /\ Head(lines) = "ready"
    /\ lines' = Tail(lines)
    /\ IF enabled
       THEN /\ Capture
            /\ Route(Virtual, Virtual)
            /\ replaced' = IF IsPhysicalOutput(system) THEN system ELSE replaced
       ELSE UNCHANGED <<routeVars, lastVars, changed, replaced>>
    /\ UNCHANGED <<choice, runtime, saved, appVars, exitDue, helperVars, budget>>

(* activity, and its end. *)
ConsumeActive ==
    /\ lines # <<>> /\ Head(lines) = "active"
    /\ lines' = Tail(lines)
    /\ forwarding' = TRUE
    /\ UNCHANGED <<routeVars, choice, runtime, lastVars, saved, running, enabled, task,
                   relaunchDue, exitDue, changed, helperVars, budget, replaced>>

ConsumeDeselected ==
    /\ lines # <<>> /\ Head(lines) = "deselected"
    /\ GiveUp(lastOutput)
    /\ UNCHANGED <<choice, runtime, lastVars, saved, running, budget, replaced>>

(* The termination block; some of the output may still be read after it. *)
HelperTerminated ==
    /\ exitDue /\ exitDue' = FALSE
    /\ enabled' = FALSE /\ forwarding' = FALSE /\ task' = FALSE
    /\ \E n \in 0..Len(lines) : lines' = SubSeq(lines, 1, n)
    /\ LET result == Restored(choice, lastOutput) IN Route(result.output, result.system)
    /\ UNCHANGED <<choice, runtime, lastVars, saved, running, relaunchDue, helperVars,
                   budget, replaced>>

StartupTimeout ==
    /\ running /\ enabled /\ task /\ ~ forwarding
    /\ GiveUp(lastOutput)
    /\ UNCHANGED <<choice, runtime, lastVars, saved, running, budget, replaced>>

(* defaultDevicesDidChange: the outputs are captured first. *)
DefaultDevicesDidChange ==
    /\ running /\ changed
    /\ Capture
    /\ IF enabled /\ forwarding /\ output # Virtual
       THEN /\ enabled' = FALSE
            /\ LET result == Restored(choice, Captured(output, lastOutput))
               IN /\ output' = result.output /\ system' = result.system
                  /\ changed' = (system # result.system)
            /\ Stop(FALSE)
            /\ UNCHANGED present
       ELSE /\ changed' = FALSE
            /\ UNCHANGED <<routeVars, enabled, forwarding, task, relaunchDue, lines, exitDue,
                           helperVars>>
    /\ UNCHANGED <<choice, runtime, saved, running, budget, replaced>>

(* Quit: what is not a preference is forgotten. *)
Quit ==
    /\ running /\ Restored(choice, lastOutput).ok
    /\ running' = FALSE
    /\ GiveUp(lastOutput)
    /\ runtime' = NoDevice
    /\ UNCHANGED <<choice, lastVars, saved, budget, replaced>>

-----------------------------------------------------------------------------
(* The helper *)

Prints(line) == lines' = IF task THEN Append(lines, line) ELSE lines

(* The output is selected, saved and printed; there may be none, or one of *)
(* another sample rate.                                                    *)
HelperSelects ==
    /\ phase = "launched"
    /\ IF SelectPhysicalOutput = NoDevice
       THEN /\ phase' = "leaving"
            /\ UNCHANGED <<physical, saved, lines>>
       ELSE /\ physical' = SelectPhysicalOutput
            /\ saved' = SelectPhysicalOutput
            /\ Prints(SelectPhysicalOutput)
            /\ phase' \in {"selected", "leaving"}
    /\ UNCHANGED <<routeVars, choice, runtime, lastVars, appVars, exitDue, changed, explicit,
                   stopAsked, budget, replaced>>

Goes(from, to) ==
    /\ phase \in from
    /\ phase' = to
    /\ UNCHANGED <<routeVars, choice, runtime, lastVars, saved, appVars, exitDue, changed,
                   explicit, physical, stopAsked, budget, replaced>>

HelperReady == Goes({"selected"}, "ready") /\ Prints("ready")

(* The default output is looked at once more; it may have changed again    *)
(* when the line is printed.                                               *)
HelperActivates ==
    /\ output = Virtual /\ ~ stopAsked
    /\ Goes({"ready"}, "active") /\ Prints("active")

HelperDeselected ==
    /\ output # Virtual
    /\ Goes({"active"}, "leaving") /\ Prints("deselected")

(* It is told to stop, its IO does not start, or it loses its ring. *)
HelperStops ==
    Goes({"launched", "selected", "ready", "active"}, "leaving") /\ UNCHANGED lines

HelperExits ==
    /\ phase = "leaving"
    /\ phase' = "none" /\ explicit' = NoDevice /\ physical' = NoDevice
    /\ stopAsked' = FALSE
    /\ exitDue' = task
    /\ UNCHANGED <<routeVars, choice, runtime, lastVars, saved, appVars, lines, changed,
                   budget, replaced>>

-----------------------------------------------------------------------------
(* The user; what Core Audio does when the default output goes is its own  *)
(* affair.                                                                 *)

Environment ==
    /\ budget > 0 /\ budget' = budget - 1
    /\ changed' = TRUE
    /\ UNCHANGED <<choice, runtime, lastVars, saved, appVars, lines, exitDue, helperVars>>

UserSelectsOutput(device) ==
    /\ Environment
    /\ output' = device
    /\ UNCHANGED <<present, system, replaced>>

UserSelectsSystem(device) ==
    /\ Environment
    /\ system' = device
    /\ replaced' = NoDevice
    /\ UNCHANGED <<present, output>>

Unplug(device) ==
    /\ Environment
    /\ present' = present \ {device}
    /\ output' \in IF output = device THEN present' \union {Virtual} ELSE {output}
    /\ system' \in IF system = device THEN present' \union {Virtual} ELSE {system}
    /\ replaced' = IF system = device THEN NoDevice ELSE replaced

Plug(device) ==
    /\ Environment
    /\ present' = present \union {device}
    /\ UNCHANGED <<output, system, replaced>>

-----------------------------------------------------------------------------
MainQueue ==
    \/ Relaunch \/ ConsumeOutput \/ ConsumeReady \/ ConsumeActive \/ ConsumeDeselected
    \/ HelperTerminated \/ StartupTimeout \/ DefaultDevicesDidChange

HelperStep ==
    \/ HelperSelects \/ HelperReady \/ HelperActivates \/ HelperDeselected \/ HelperStops
    \/ HelperExits

Next ==
    \/ DidFinishLaunching \/ Enable \/ Disable \/ Quit
    \/ \E device \in present \union {NoDevice} : ChooseOutput(device)
    \/ MainQueue
    \/ HelperStep
    \/ \E device \in present \union {Virtual} :
          UserSelectsOutput(device) \/ UserSelectsSystem(device)
    \/ \E device \in present : Unplug(device)
    \/ \E device \in Real \ present : Plug(device)

Spec == Init /\ [][Next]_vars

-----------------------------------------------------------------------------
(* Properties *)

(* A step of the app or the helper, not of the user. *)
OfProgram == budget' = budget

Playing == forwarding /\ task /\ phase = "active" /\ physical \in present

(* docs/manual-acceptance.md:45, "Disable restores normal output AND       *)
(* system-sounds output; music continues": when an app that shows Enabled  *)
(* gives the output back, however it comes to that and whatever else was   *)
(* the default before, it is the output that plays (if it is still there,  *)
(* and the menu has not asked for another in vain); and system sounds go   *)
(* where they came from.  An output that is not there is never restored.   *)
RestoreKeepsPlaying ==
    [][OfProgram =>
         /\ output = Virtual /\ output' # Virtual =>
               /\ output' \in present
               /\ Playing /\ choice \in {NoDevice, physical} => output' = physical
         /\ system = Virtual /\ system' # Virtual =>
               /\ system' \in present
               /\ replaced \in present => system' = replaced]_vars
=============================================================================
