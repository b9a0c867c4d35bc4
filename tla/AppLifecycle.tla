---------------------------- MODULE AppLifecycle ----------------------------
(***************************************************************************)
(* The menu-bar app (app/main.m) and the helpers it launches               *)
(* (forwarder/main.m), around the two default-output selectors of Core     *)
(* Audio.                                                                  *)
(*                                                                         *)
(* The app's handlers run on the main queue and are atomic, except that    *)
(* the alert of a failed Disable runs a nested event loop: other handlers  *)
(* run while it is up.  A helper's output, its termination, the watchdog,  *)
(* the delayed relaunch and Core Audio's notifications reach the main      *)
(* queue as separate blocks, in no fixed order; only one helper's lines    *)
(* stay in order.                                                          *)
(*                                                                         *)
(* Which real device is the default is left out: a selector holds the      *)
(* virtual device or a real one.  A launch generation is represented by    *)
(* the launch it belongs to: "live" is the launch whose blocks are still   *)
(* accepted, and no launch is once stopForwarder has bumped the counter.   *)
(***************************************************************************)
EXTENDS Integers, Sequences, FiniteSets

CONSTANTS
    MaxLaunches,    \* bound: helpers launched
    MaxChanges,     \* bound: selections by the user, driver losses, unplugs
    MaxSessions,    \* bound: launches of the app
    SetOutcomes,    \* how Core Audio may answer when a default is set
    Faults          \* "launch": starting the helper may fail; "unplug":
                    \* the last real output may go and come; "driver": so may
                    \* the virtual one; "crash": a helper may be killed

(* Core Audio accepts and obeys, refuses, or accepts and does not obey (the *)
(* selection code expects all three).                                      *)
Outcomes == {"ok", "rejected", "dropped"}

ASSUME LifecycleAssumption ==
    /\ MaxLaunches \in Nat \ {0} /\ MaxChanges \in Nat /\ MaxSessions \in Nat
    /\ SetOutcomes \subseteq Outcomes /\ "ok" \in SetOutcomes
    /\ Faults \subseteq {"launch", "unplug", "driver", "crash"}

VARIABLES
    \* the app
    running,        \* the app's process is up
    enabled,        \* forwardingEnabled
    appState,
    task,           \* forwarderTask: a launch, or NoLaunch
    live,           \* the launch whose generation is the present one
    relaunchDue,    \* restartForwarder's delayed block, if still accepted
    watchdogs,      \* launches whose startup watchdog has yet to run
    alert,          \* the alert of a failed Disable is up
    \* blocks on their way to the main queue
    lines,          \* undelivered output of the live launch
    exitDue,        \* the live launch's termination block is due
    changes,        \* undelivered default-device notifications, up to two
    \* Core Audio
    output, system, \* the two default selectors
    realPresent, driverPresent,
    \* the helpers
    launches,       \* helpers launched so far
    helper,         \* how far each one is
    stopAsked,      \* SIGTERM was sent
    slot,           \* the helper that holds the broker's reader place
    \* bounds and history
    budget, sessions,
    chosen          \* the app, not the user, made the virtual device the default

appVars == <<running, enabled, appState, task, live, relaunchDue, watchdogs, alert>>
queueVars == <<lines, exitDue, changes>>
audioVars == <<output, system, realPresent, driverPresent>>
helperVars == <<launches, helper, stopAsked, slot>>
vars == <<appVars, queueVars, audioVars, helperVars, budget, sessions, chosen>>

Launches == 1..MaxLaunches
NoLaunch == 0
AppStates == {"disabled", "starting", "waiting", "forwarding", "error"}
HelperPhases ==
    {"none", "launched", "open", "ready", "waiting", "routed", "active", "leaving", "exited"}

TypeOK ==
    /\ running \in BOOLEAN /\ enabled \in BOOLEAN /\ alert \in BOOLEAN
    /\ relaunchDue \in BOOLEAN /\ exitDue \in BOOLEAN
    /\ appState \in AppStates
    /\ task \in 0..launches /\ live \in 0..launches /\ slot \in 0..launches
    /\ task # NoLaunch => task = live
    /\ watchdogs \subseteq 1..launches
    /\ changes \in 0..2
    /\ {output, system} \subseteq {"virtual", "real"}
    /\ driverPresent \in BOOLEAN /\ realPresent \in BOOLEAN
    /\ launches \in 0..MaxLaunches
    /\ helper \in [Launches -> HelperPhases]
    /\ stopAsked \in [Launches -> BOOLEAN]

Init ==
    /\ running = FALSE /\ enabled = FALSE /\ appState = "disabled"
    /\ task = NoLaunch /\ live = NoLaunch
    /\ relaunchDue = FALSE /\ watchdogs = {} /\ alert = FALSE
    /\ lines = <<>> /\ exitDue = FALSE /\ changes = 0
    /\ output = "real" /\ system = "real" /\ realPresent = TRUE /\ driverPresent = TRUE
    /\ launches = 0
    /\ helper = [g \in Launches |-> "none"]
    /\ stopAsked = [g \in Launches |-> FALSE]
    /\ slot = NoLaunch
    /\ budget = MaxChanges /\ sessions = MaxSessions
    /\ chosen = FALSE

-----------------------------------------------------------------------------
(* Core Audio's default selectors *)

Alive(g) == helper[g] \notin {"none", "exited"}

(* What AudioObjectSetPropertyData reports and leaves behind. *)
Sets(from, to) ==
    {[ok |-> outcome # "rejected", now |-> IF outcome = "ok" THEN to ELSE from] :
        outcome \in SetOutcomes}

(* One half of restorePhysicalDefaults: a selector is written only if it   *)
(* is still virtual, and the write is not read back.                       *)
RestoreOne(selector) ==
    IF selector # "virtual" THEN {[ok |-> TRUE, now |-> selector]}
    ELSE IF ~ realPresent THEN {[ok |-> FALSE, now |-> selector]}
    ELSE Sets(selector, "real")

(* restorePhysicalDefaults, from given selectors: first the output, then,  *)
(* if that worked, the system output.  Without the driver there is nothing *)
(* to restore.                                                             *)
Restore(out, sys) ==
    IF ~ driverPresent THEN {[ok |-> TRUE, out |-> out, sys |-> sys]}
    ELSE UNION {IF ~ first.ok THEN {[ok |-> FALSE, out |-> first.now, sys |-> sys]}
                ELSE {[ok |-> second.ok, out |-> first.now, sys |-> second.now] :
                         second \in RestoreOne(sys)} :
                first \in RestoreOne(out)}

(* selectSoundVolumeWithDetail: both selectors are written and read back;  *)
(* on any failure the real ones are restored.                              *)
Select ==
    IF ~ driverPresent THEN {[ok |-> FALSE, out |-> output, sys |-> system]}
    ELSE UNION {IF /\ first.ok /\ second.ok
                   /\ first.now = "virtual" /\ second.now = "virtual"
                THEN {[ok |-> TRUE, out |-> "virtual", sys |-> "virtual"]}
                ELSE {[r EXCEPT !.ok = FALSE] : r \in Restore(first.now, second.now)} :
                first \in Sets(output, "virtual"), second \in Sets(system, "virtual")}

(* The selectors take the values of a result; every listener is told. *)
Route(result, choosing) ==
    /\ output' = result.out
    /\ system' = result.sys
    /\ changes' = IF <<result.out, result.sys>> # <<output, system>> /\ changes < 2
                  THEN changes + 1 ELSE changes
    /\ chosen' = (result.out = "virtual" /\ (chosen \/ choosing))
    /\ UNCHANGED <<realPresent, driverPresent>>

RestoreDefaults == \E result \in Restore(output, system) : Route(result, FALSE)

-----------------------------------------------------------------------------
(* Pieces of the app's handlers *)

(* Task.terminate: SIGTERM, if the process still runs. *)
AskToStop(g) ==
    stopAsked' = IF g # NoLaunch /\ Alive(g) THEN [stopAsked EXCEPT ![g] = TRUE]
                 ELSE stopAsked

(* Mutants: the process is forgotten, not stopped; the task is kept. *)
StopWithForgetful(relaunchToo) ==
    /\ live' = NoLaunch /\ task' = NoLaunch
    /\ relaunchDue' = relaunchToo /\ lines' = <<>> /\ exitDue' = FALSE
    /\ UNCHANGED stopAsked

StopWithTaskKept(relaunchToo) ==
    /\ live' = NoLaunch /\ UNCHANGED task
    /\ relaunchDue' = relaunchToo /\ lines' = <<>> /\ exitDue' = FALSE
    /\ AskToStop(task)

(* stopForwarder: the generation moves on, so every block of the stopped   *)
(* launch, and an earlier delayed relaunch, will be ignored; a restart     *)
(* leaves a relaunch of its own.                                           *)
StopWith(relaunchToo) ==
    /\ live' = NoLaunch
    /\ task' = NoLaunch
    /\ relaunchDue' = relaunchToo
    /\ lines' = <<>>
    /\ exitDue' = FALSE
    /\ AskToStop(task)

StopForwarder == StopWith(FALSE)

(* Mutants: the preference is kept; the outputs are not restored. *)
GiveUpStillEnabled(newState) ==
    /\ appState' = newState
    /\ RestoreDefaults
    /\ UNCHANGED enabled

GiveUpSilently(newState) ==
    /\ enabled' = FALSE
    /\ appState' = newState
    /\ UNCHANGED <<audioVars, changes, chosen>>

(* What follows the end of a launch in many handlers: the preference is    *)
(* cleared and the real outputs are restored (or not: the result is        *)
(* ignored).                                                               *)
GiveUp(newState) ==
    /\ enabled' = FALSE
    /\ appState' = newState
    /\ RestoreDefaults

DisableWith(newState) == GiveUp(newState) /\ StopForwarder

(* launchForwarder, past its guards.  The first of them, a task that runs   *)
(* already, lets nothing happen; no handler calls it with a task, since    *)
(* NoStrayHelper holds when it is disabled, and a relaunch is due only     *)
(* without a task.                                                         *)
Launched ==
    /\ task = NoLaunch
    /\ launches < MaxLaunches
    /\ launches' = launches + 1
    /\ helper' = [helper EXCEPT ![launches + 1] = "launched"]
    /\ task' = launches + 1
    /\ live' = launches + 1
    /\ watchdogs' = watchdogs \union {launches + 1}
    /\ appState' = "starting"
    /\ relaunchDue' = FALSE /\ lines' = <<>> /\ exitDue' = FALSE

(* The executable is missing or cannot be started. *)
LaunchFails == "launch" \in Faults

-----------------------------------------------------------------------------
(* The app's handlers *)

(* applicationDidFinishLaunching: enabled afresh at every launch. *)
DidFinishLaunching ==
    /\ ~ running /\ sessions > 0
    /\ sessions' = sessions - 1
    /\ running' = TRUE
    /\ changes' = 0
    /\ \/ Launched /\ enabled' = TRUE
       \/ /\ LaunchFails
          /\ enabled' = FALSE /\ appState' = "disabled"
          /\ task' = NoLaunch /\ live' = NoLaunch
          /\ relaunchDue' = FALSE /\ lines' = <<>> /\ exitDue' = FALSE
          /\ UNCHANGED <<launches, helper, watchdogs>>
    /\ UNCHANGED <<alert, audioVars, stopAsked, slot, budget, chosen>>

(* toggleForwarding, Enable. *)
Enable ==
    /\ running /\ ~ alert /\ ~ enabled
    /\ \/ /\ Launched
          /\ enabled' = TRUE
          /\ UNCHANGED stopAsked
       \/ /\ LaunchFails
          /\ appState' = "disabled"
          /\ StopForwarder
          /\ UNCHANGED <<enabled, watchdogs, launches, helper>>
    /\ UNCHANGED <<running, alert, changes, audioVars, slot, budget, sessions, chosen>>

(* toggleForwarding, Disable: the real outputs first.  If they cannot be   *)
(* restored an alert is shown, with the preference already cleared.        *)
Disable ==
    /\ running /\ ~ alert /\ enabled
    /\ enabled' = FALSE
    /\ \E result \in Restore(output, system) :
          /\ Route(result, FALSE)
          /\ \/ /\ result.ok
                /\ StopForwarder
                /\ appState' = "disabled"
                /\ UNCHANGED alert
             \/ /\ ~ result.ok
                /\ alert' = TRUE
                /\ UNCHANGED <<task, live, relaunchDue, lines, exitDue, stopAsked,
                               appState>>
    /\ UNCHANGED <<running, watchdogs, launches, helper, slot, budget, sessions>>

(* The alert is dismissed: "Volume control remains enabled". *)
DismissAlert ==
    /\ alert
    /\ alert' = FALSE
    /\ enabled' = TRUE
    /\ UNCHANGED <<running, appState, task, live, relaunchDue, watchdogs, queueVars,
                   audioVars, helperVars, budget, sessions, chosen>>

(* selectPhysicalOutput and restartForwarder: the real outputs, then a     *)
(* stop, then a launch one and a half seconds later.  Nothing happens when *)
(* disabled, or (but for an alert) when the restoration fails.             *)
SelectPhysicalOutput ==
    /\ running /\ ~ alert /\ enabled
    /\ budget > 0 /\ budget' = budget - 1
    /\ \E result \in Restore(output, system) :
          /\ Route(result, FALSE)
          /\ \/ /\ result.ok
                /\ StopWith(TRUE)
                /\ appState' = "starting"
             \/ /\ ~ result.ok
                /\ UNCHANGED <<live, task, lines, exitDue, stopAsked, relaunchDue,
                               appState>>
    /\ UNCHANGED <<running, enabled, watchdogs, alert, launches, helper, slot, sessions>>

(* restartForwarder's delayed block; a block whose generation is over is   *)
(* no longer due, and a disabled app ignores it.                           *)
Relaunch ==
    /\ running /\ relaunchDue
    /\ \/ enabled /\ Launched /\ UNCHANGED enabled
       \/ /\ enabled /\ LaunchFails
          /\ appState' = "error"
          /\ enabled' = FALSE
          /\ relaunchDue' = FALSE
          /\ UNCHANGED <<task, live, watchdogs, lines, exitDue, launches, helper>>
       \/ /\ ~ enabled
          /\ relaunchDue' = FALSE
          /\ UNCHANGED <<enabled, appState, task, live, watchdogs, lines, exitDue, launches,
                         helper>>
    /\ UNCHANGED <<running, alert, changes, audioVars, stopAsked, slot, budget, sessions,
                   chosen>>

(* defaultDevicesDidChange: another output was chosen while forwarding. *)
DefaultDevicesDidChange ==
    /\ running /\ changes > 0
    /\ IF enabled /\ appState \notin {"starting", "waiting"} /\ driverPresent
             /\ output # "virtual"
       THEN /\ enabled' = FALSE
            /\ appState' = "disabled"
            /\ \E result \in Restore(output, system) :
                  /\ output' = result.out /\ system' = result.sys
                  /\ changes' = IF system # result.sys THEN changes ELSE changes - 1
            /\ StopForwarder
            /\ UNCHANGED chosen
       ELSE /\ changes' = changes - 1
            /\ UNCHANGED <<enabled, appState, output, system, chosen, live, task,
                           relaunchDue, lines, exitDue, stopAsked>>
    /\ UNCHANGED <<running, watchdogs, alert, realPresent, driverPresent, launches, helper,
                   slot, budget, sessions>>

(* consumeForwarderLine, for the live launch's next line. *)
ConsumeForwarderLine ==
    /\ running /\ lines # <<>>
    /\ LET line == Head(lines)
           rest == /\ lines' = Tail(lines)
                   /\ UNCHANGED <<live, task, relaunchDue, exitDue, stopAsked>>
       IN \/ /\ line = "ready" /\ enabled
             /\ \E result \in Select :
                   \/ /\ result.ok
                      /\ Route(result, TRUE)
                      /\ rest
                      /\ UNCHANGED <<enabled, appState>>
                   \/ /\ ~ result.ok
                      /\ \E again \in Restore(result.out, result.sys) : Route(again, TRUE)
                      /\ StopForwarder
                      /\ enabled' = FALSE
                      /\ appState' = "error"
          \/ /\ line = "ready" /\ ~ enabled
             /\ rest
             /\ UNCHANGED <<enabled, appState, audioVars, changes, chosen>>
          \/ /\ line \in {"waiting", "forwarding", "error"}
             /\ appState' = line
             /\ rest
             /\ UNCHANGED <<enabled, audioVars, changes, chosen>>
          \/ /\ line = "deselected"
             /\ DisableWith("disabled")
    /\ UNCHANGED <<running, watchdogs, alert, launches, helper, slot, budget, sessions>>

(* The termination block of the live launch.  It keeps the generation: of  *)
(* the launch's lines, those already on the main queue will still be read. *)
HelperTerminated ==
    /\ running /\ exitDue
    /\ exitDue' = FALSE
    /\ task' = NoLaunch
    /\ \E n \in 0..Len(lines) : lines' = SubSeq(lines, 1, n)
    /\ IF enabled
       THEN GiveUp("error")
       ELSE UNCHANGED <<appState, enabled, audioVars, changes, chosen>>
    /\ UNCHANGED <<running, live, relaunchDue, watchdogs, alert, helperVars, budget,
                   sessions>>

(* Mutant: the watchdog spares a helper that has got as far as waiting. *)
StartupTimeoutSparing(g) ==
    /\ running /\ g \in watchdogs
    /\ watchdogs' = watchdogs \ {g}
    /\ IF g = live /\ enabled /\ appState = "starting"
       THEN DisableWith("error")
       ELSE UNCHANGED <<enabled, appState, audioVars, changes, chosen, live, task,
                        relaunchDue, lines, exitDue, stopAsked>>
    /\ UNCHANGED <<running, alert, launches, helper, slot, budget, sessions>>

(* The startup watchdog of a launch. *)
StartupTimeout(g) ==
    /\ running /\ g \in watchdogs
    /\ watchdogs' = watchdogs \ {g}
    /\ IF g = live /\ enabled /\ appState # "forwarding"
       THEN DisableWith("error")
       ELSE UNCHANGED <<enabled, appState, audioVars, changes, chosen, live, task,
                        relaunchDue, lines, exitDue, stopAsked>>
    /\ UNCHANGED <<running, alert, launches, helper, slot, budget, sessions>>

(* Mutant: the answer of the restoration is ignored. *)
QuitAnyway ==
    /\ running /\ ~ alert
    /\ RestoreDefaults
    /\ running' = FALSE
    /\ StopForwarder /\ watchdogs' = {}
    /\ UNCHANGED <<enabled, appState, alert, launches, helper, slot, budget, sessions>>

(* Quit: applicationShouldTerminate refuses when a selector cannot be      *)
(* restored; otherwise applicationWillTerminate restores once more and     *)
(* stops the helper, in the same turn of the main loop.                    *)
Quit ==
    /\ running /\ ~ alert
    /\ \E first \in Restore(output, system) :
       \E second \in (IF first.ok THEN Restore(first.out, first.sys) ELSE {first}) :
          /\ Route(second, FALSE)
          /\ \/ /\ first.ok
                /\ running' = FALSE
                /\ AskToStop(task)
                /\ live' = NoLaunch /\ task' = NoLaunch
                /\ relaunchDue' = FALSE /\ watchdogs' = {}
                /\ lines' = <<>> /\ exitDue' = FALSE
             \/ /\ ~ first.ok
                /\ UNCHANGED <<running, stopAsked, live, task, relaunchDue, watchdogs,
                               lines, exitDue>>
    /\ UNCHANGED <<enabled, appState, alert, launches, helper, slot, budget, sessions>>

-----------------------------------------------------------------------------
(* The helpers *)

(* Output of a launch reaches the app while its generation is the live one *)
(* and its pipe is still watched.                                          *)
Prints(g, text) == lines' = IF g = live /\ g = task THEN lines \o text ELSE lines

Goes(g, phase) == helper' = [helper EXCEPT ![g] = phase]

(* A failure before the ring: driver or device missing, wrong rate, or no  *)
(* ring (not refused, but reset, denied, timed out).  Not every one is     *)
(* reported in words that the app knows.                                   *)
HelperFails(g) ==
    /\ helper[g] = "launched"
    /\ Goes(g, "leaving")
    /\ Prints(g, <<"error">>) \/ UNCHANGED lines
    /\ UNCHANGED slot

(* The broker answers: one reader at a time. *)
HelperOpens(g) ==
    /\ helper[g] = "launched"
    /\ \/ /\ slot = NoLaunch
          /\ slot' = g
          /\ Goes(g, "open")
          /\ UNCHANGED lines
       \/ /\ slot # NoLaunch
          /\ Goes(g, "leaving")
          /\ Prints(g, <<"error">>)
          /\ UNCHANGED slot

(* Physical IO runs.  A SIGTERM so far only set a flag. *)
HelperReady(g) ==
    /\ helper[g] = "open"
    /\ Goes(g, "ready")
    /\ Prints(g, <<"ready">>)
    /\ UNCHANGED slot

HelperWaits(g) ==
    /\ helper[g] = "ready" /\ output # "virtual"
    /\ Goes(g, "waiting")
    /\ Prints(g, <<"waiting">>)
    /\ UNCHANGED slot

(* The default output is read once more; it may have changed again when    *)
(* the line is printed.                                                    *)
HelperSeesRoute(g) ==
    /\ helper[g] \in {"ready", "waiting"} /\ output = "virtual"
    /\ Goes(g, "routed")
    /\ UNCHANGED <<lines, slot>>

HelperActivates(g) ==
    /\ helper[g] = "routed"
    /\ ~ stopAsked[g]
    /\ Goes(g, "active")
    /\ Prints(g, <<"forwarding">>)
    /\ UNCHANGED slot

(* The loops of main end on SIGTERM, which ends the process at once while  *)
(* main has not installed its handler.                                     *)
HelperStops(g) ==
    /\ helper[g] \in {"launched", "waiting", "routed", "active"}
    /\ stopAsked[g]
    /\ Goes(g, "leaving")
    /\ UNCHANGED <<lines, slot>>

(* Physical IO cannot start, or the reader's connection is lost.  The       *)
(* former, too, is not always reported in words that the app knows.        *)
HelperBreaks(g) ==
    /\ helper[g] \in {"open", "waiting", "routed", "active"}
    /\ Goes(g, "leaving")
    /\ Prints(g, <<"error">>) \/ (helper[g] = "open" /\ UNCHANGED lines)
    /\ UNCHANGED slot

(* Mutant: the default output is not looked at once forwarding is active. *)
HelperDeselectedEarly(g) ==
    /\ helper[g] = "routed"
    /\ output # "virtual"
    /\ Goes(g, "leaving")
    /\ Prints(g, <<"deselected">>)
    /\ UNCHANGED slot

(* Another output is the default. *)
HelperDeselected(g) ==
    /\ helper[g] = "active"
    /\ output # "virtual"
    /\ Goes(g, "leaving")
    /\ Prints(g, <<"deselected">>)
    /\ UNCHANGED slot

(* The steps of a helper that nothing holds up. *)
HelperAdvances(g) ==
    \/ HelperOpens(g) \/ HelperReady(g) \/ HelperWaits(g) \/ HelperSeesRoute(g)
    \/ HelperActivates(g) \/ HelperStops(g) \/ HelperDeselected(g)

OthersUnchanged ==
    UNCHANGED <<appVars, exitDue, changes, audioVars, launches, stopAsked, budget, sessions,
                chosen>>

HelperProceeds(g) == HelperAdvances(g) /\ OthersUnchanged

HelperStep(g) == (HelperAdvances(g) \/ HelperFails(g) \/ HelperBreaks(g)) /\ OthersUnchanged

(* The process is gone, at its end or killed; the broker frees its place. *)
HelperExits(g) ==
    /\ \/ helper[g] = "leaving"
       \/ Alive(g) /\ "crash" \in Faults
    /\ Goes(g, "exited")
    /\ slot' = IF slot = g THEN NoLaunch ELSE slot
    /\ exitDue' = (exitDue \/ (running /\ g = live))
    /\ UNCHANGED <<appVars, lines, changes, audioVars, launches, stopAsked, budget, sessions,
                   chosen>>

-----------------------------------------------------------------------------
(* The environment *)

Notified == changes' = IF changes < 2 THEN changes + 1 ELSE changes

(* The user picks an output in System Settings. *)
UserSelects(device) ==
    /\ budget > 0 /\ budget' = budget - 1
    /\ IF device = "virtual" THEN driverPresent ELSE realPresent
    /\ output # device
    /\ output' = device
    /\ chosen' = FALSE
    /\ Notified
    /\ UNCHANGED <<appVars, lines, exitDue, system, realPresent, driverPresent, helperVars,
                   sessions>>

(* The driver goes, and Core Audio falls back to a real output; or it      *)
(* comes back.                                                             *)
DriverChanges ==
    /\ "driver" \in Faults
    /\ budget > 0 /\ budget' = budget - 1
    /\ driverPresent' = ~ driverPresent
    /\ output' = "real" /\ system' = "real"
    /\ chosen' = FALSE
    /\ IF output = "virtual" \/ system = "virtual" THEN Notified ELSE UNCHANGED changes
    /\ UNCHANGED <<appVars, lines, exitDue, realPresent, helperVars, sessions>>

(* The last real output goes while the virtual one is selected, or one     *)
(* comes back.                                                             *)
RealOutputChanges ==
    /\ "unplug" \in Faults
    /\ budget > 0 /\ budget' = budget - 1
    /\ realPresent => output = "virtual" /\ system = "virtual"
    /\ realPresent' = ~ realPresent
    /\ UNCHANGED <<appVars, queueVars, output, system, driverPresent, helperVars, sessions,
                   chosen>>

-----------------------------------------------------------------------------
MainQueue ==
    \/ Relaunch \/ DefaultDevicesDidChange \/ ConsumeForwarderLine \/ HelperTerminated
    \/ \E g \in Launches : StartupTimeout(g)

Next ==
    \/ DidFinishLaunching \/ Enable \/ Disable \/ DismissAlert \/ SelectPhysicalOutput
    \/ Quit
    \/ MainQueue
    \/ \E g \in Launches : HelperStep(g) \/ HelperExits(g)
    \/ \E device \in {"virtual", "real"} : UserSelects(device)
    \/ DriverChanges \/ RealOutputChanges

(* Every block that is due runs, the alert is dismissed, and a helper      *)
(* keeps going through main: it neither hangs in its startup nor ignores   *)
(* what its loops poll every second.  The user need do nothing else.       *)
Fairness ==
    /\ WF_vars(Relaunch)
    /\ WF_vars(DefaultDevicesDidChange)
    /\ WF_vars(ConsumeForwarderLine)
    /\ WF_vars(HelperTerminated)
    /\ WF_vars(DismissAlert)
    /\ \A g \in Launches :
          /\ WF_vars(StartupTimeout(g))
          /\ WF_vars(HelperProceeds(g))
          /\ WF_vars(helper[g] = "leaving" /\ HelperExits(g))

Spec == Init /\ [][Next]_vars /\ Fairness

-----------------------------------------------------------------------------
(* Properties *)

(* Every helper that was not told to stop is the app's task, of an app     *)
(* that means to be enabled: no handler loses sight of a helper that holds *)
(* the ring and the physical output, and a disabled app has no task left   *)
(* that launchForwarder would take for the new helper.                     *)
NoStrayHelper ==
    /\ \A g \in Launches :
          Alive(g) /\ ~ stopAsked[g] => running /\ g = task /\ (enabled \/ alert)
    /\ ~ enabled /\ ~ alert => task = NoLaunch

(* The app's helper runs, was not told to stop, or its end is still to be   *)
(* handled; or a new one is about to be launched.                          *)
Served ==
    \/ relaunchDue
    \/ task # NoLaunch /\ (exitDue \/ (Alive(task) /\ ~ stopAsked[task]))

Unserved == running /\ enabled /\ ~ Served

(* An enabled app does not lose its helper: whichever step ends it, by      *)
(* whichever of the two processes, also clears the preference, leaves a    *)
(* block that will, or leaves a relaunch.  One step may find the helper    *)
(* gone: the alert of a failed Disable is dismissed, which sets the        *)
(* preference again whatever happened while it was up.                     *)
EnabledIsServed ==
    [][Unserved' => Unserved \/ DismissAlert]_vars

(* docs/menu-bar-app.md:57, "Normal Quit is refused if a real output cannot *)
(* be restored": an app that is gone has not left the virtual device       *)
(* selected, which nobody would then carry to a real output.               *)
QuitRestoresOutputs ==
    [][running /\ ~ running' => {output', system'} = {"real"}]_vars

(* Sound is not left in the virtual device: when the app has selected it   *)
(* and no helper runs, the app gives the real output back or starts        *)
(* another helper.                                                         *)
SilenceEnds ==
    (running /\ chosen /\ \A g \in Launches : ~ Alive(g))
        ~> (output # "virtual" \/ \E g \in Launches : Alive(g))

(* Starting is a passing state of an enabled app: the helper forwards, or  *)
(* the app gives up and says why (whatever the helper, the user's route    *)
(* and the order of the helper's lines do).                                *)
StartupIsDecided ==
    (running /\ enabled /\ appState \in {"starting", "waiting"})
        ~> (~ running \/ ~ enabled \/ appState \notin {"starting", "waiting"})

(* An app that shows forwarding has Sound Volume selected, or notices that *)
(* it has not.                                                             *)
DeselectionIsNoticed ==
    (running /\ enabled /\ appState = "forwarding" /\ output # "virtual")
        ~> (~ running \/ ~ enabled \/ appState # "forwarding" \/ output = "virtual")
=============================================================================
