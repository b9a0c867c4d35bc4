------------------------- MODULE AppLifecycle_proofs -------------------------
(***************************************************************************)
(* Proofs about AppLifecycle, for any number of helpers, sessions of the   *)
(* app and changes by the user, and whatever Core Audio answers: no helper *)
(* is out of the app's sight, an enabled app loses its helper in one way   *)
(* only, and, as far as Core Audio keeps its word, Quit leaves real        *)
(* outputs behind.                                                         *)
(***************************************************************************)
EXTENDS AppLifecycle, TLAPS

USE LifecycleAssumption

Selectors == {"virtual", "real"}

(* The helpers: launches are numbered in order; one that was not told to   *)
(* stop is the app's task; a relaunch is due only without a helper, and    *)
(* the termination of a helper only once it is gone.                       *)
HelperTypes ==
    /\ relaunchDue \in BOOLEAN /\ exitDue \in BOOLEAN
    /\ launches \in 0..MaxLaunches
    /\ task \in 0..launches /\ live \in 0..launches /\ slot \in 0..launches
    /\ task # NoLaunch => task = live
    /\ watchdogs \subseteq 1..launches
    /\ helper \in [Launches -> HelperPhases]
    /\ stopAsked \in [Launches -> BOOLEAN]

LaunchedInOrder == \A g \in Launches : helper[g] # "none" => g <= launches

Sighted == \A g \in Launches : Alive(g) /\ ~ stopAsked[g] => g = task

DueIsTrue ==
    /\ relaunchDue => task = NoLaunch
    /\ exitDue /\ task # NoLaunch => ~ Alive(task)

HelpersOK == HelperTypes /\ LaunchedInOrder /\ Sighted /\ DueIsTrue

(* The selectors: without the driver none of them holds its device.        *)
AudioOK ==
    /\ output \in Selectors /\ system \in Selectors
    /\ driverPresent \in BOOLEAN /\ realPresent \in BOOLEAN
    /\ changes \in 0..2
    /\ ~ driverPresent => output = "real" /\ system = "real"

(* The app: a task is that of a running app that means to be enabled; its  *)
(* alert does not survive it.                                              *)
AppOK ==
    /\ running \in BOOLEAN /\ enabled \in BOOLEAN /\ alert \in BOOLEAN
    /\ appState \in AppStates
    /\ task # NoLaunch => running /\ (enabled \/ alert)
    /\ ~ running => ~ alert

IInv == HelpersOK /\ AudioOK /\ AppOK

-----------------------------------------------------------------------------
(* Core Audio's selectors *)

Kept == "dropped" \notin SetOutcomes

(* A write obeys, or leaves the selector as it is.                         *)
LEMMA SetsResult ==
    ASSUME NEW from, NEW to, NEW r \in Sets(from, to)
    PROVE  /\ r.ok \in BOOLEAN /\ r.now \in {from, to}
           /\ Kept /\ r.ok => r.now = to
<1>1. PICK outcome \in SetOutcomes :
          r = [ok |-> outcome # "rejected", now |-> IF outcome = "ok" THEN to ELSE from]
    BY DEF Sets
<1>2. outcome \in Outcomes
    BY <1>1
<1>3. r.ok = (outcome # "rejected") /\ r.now = (IF outcome = "ok" THEN to ELSE from)
    BY <1>1
<1> QED
    BY <1>2, <1>3 DEF Outcomes, Kept

(* Restoring a selector makes it real, or leaves it as it is. *)
LEMMA RestoreOneResult ==
    ASSUME NEW selector \in Selectors, NEW r \in RestoreOne(selector)
    PROVE  /\ r.ok \in BOOLEAN /\ r.now \in {selector, "real"}
           /\ Kept /\ r.ok => r.now = "real"
<1>1. CASE selector # "virtual"
    <2>1. r = [ok |-> TRUE, now |-> selector]
        BY <1>1 DEF RestoreOne
    <2>2. r.ok = TRUE /\ r.now = selector
        BY <2>1
    <2> QED
        BY <1>1, <2>2 DEF Selectors
<1>2. CASE selector = "virtual" /\ ~ realPresent
    <2>1. r = [ok |-> FALSE, now |-> selector]
        BY <1>2 DEF RestoreOne
    <2>2. r.ok = FALSE /\ r.now = selector
        BY <2>1
    <2> QED
        BY <1>2, <2>2
<1>3. CASE selector = "virtual" /\ realPresent
    <2>1. r \in Sets(selector, "real")
        BY <1>3 DEF RestoreOne
    <2> QED
        BY <2>1, SetsResult
<1> QED
    BY <1>1, <1>2, <1>3

(* Restoring both makes each real or leaves it as it is; it says so if it  *)
(* failed, as far as Core Audio does.                                      *)
LEMMA RestoreResult ==
    ASSUME NEW out \in Selectors, NEW sys \in Selectors, NEW r \in Restore(out, sys)
    PROVE  /\ r.ok \in BOOLEAN /\ r.out \in {out, "real"} /\ r.sys \in {sys, "real"}
           /\ Kept /\ r.ok => ~ driverPresent \/ (r.out = "real" /\ r.sys = "real")
           /\ ~ driverPresent => r.out = out /\ r.sys = sys
<1>1. CASE ~ driverPresent
    <2>1. r = [ok |-> TRUE, out |-> out, sys |-> sys]
        BY <1>1 DEF Restore
    <2> QED
        BY <1>1, <2>1
<1>2. CASE driverPresent
    <2>1. PICK first \in RestoreOne(out) :
              r \in IF ~ first.ok THEN {[ok |-> FALSE, out |-> first.now, sys |-> sys]}
                    ELSE {[ok |-> second.ok, out |-> first.now, sys |-> second.now] :
                             second \in RestoreOne(sys)}
        BY <1>2 DEF Restore
    <2>2. /\ first.ok \in BOOLEAN /\ first.now \in {out, "real"}
          /\ Kept /\ first.ok => first.now = "real"
        BY <2>1, RestoreOneResult
    <2>3. CASE ~ first.ok
        <3>1. r = [ok |-> FALSE, out |-> first.now, sys |-> sys]
            BY <2>1, <2>3
        <3>2. r.ok = FALSE /\ r.out = first.now /\ r.sys = sys
            BY <3>1
        <3> QED
            BY <1>2, <2>2, <2>3, <3>2
    <2>4. CASE first.ok
        <3>1. PICK second \in RestoreOne(sys) :
                  r = [ok |-> second.ok, out |-> first.now, sys |-> second.now]
            BY <2>1, <2>4
        <3>2. /\ second.ok \in BOOLEAN /\ second.now \in {sys, "real"}
              /\ Kept /\ second.ok => second.now = "real"
            BY <3>1, RestoreOneResult
        <3>3. r.ok = second.ok /\ r.out = first.now /\ r.sys = second.now
            BY <3>1
        <3> QED
            BY <1>2, <2>2, <2>4, <3>2, <3>3
    <2> QED
        BY <2>2, <2>3, <2>4
<1> QED
    BY <1>1, <1>2

(* Selecting the virtual device yields selectors, and without the driver   *)
(* leaves them as they are.                                                *)
LEMMA SelectResult ==
    ASSUME output \in Selectors, system \in Selectors, NEW r \in Select
    PROVE  /\ r.out \in Selectors /\ r.sys \in Selectors
           /\ ~ driverPresent => r.out = output /\ r.sys = system
<1>1. CASE ~ driverPresent
    <2>1. r = [ok |-> FALSE, out |-> output, sys |-> system]
        BY <1>1 DEF Select
    <2> QED
        BY <2>1
<1>2. CASE driverPresent
    <2>1. PICK first \in Sets(output, "virtual"), second \in Sets(system, "virtual") :
              r \in IF /\ first.ok /\ second.ok
                       /\ first.now = "virtual" /\ second.now = "virtual"
                    THEN {[ok |-> TRUE, out |-> "virtual", sys |-> "virtual"]}
                    ELSE {[q EXCEPT !.ok = FALSE] : q \in Restore(first.now, second.now)}
        BY <1>2 DEF Select
    <2>2. first.now \in Selectors /\ second.now \in Selectors
        <3>1. first.now \in {output, "virtual"} /\ second.now \in {system, "virtual"}
            BY <2>1, SetsResult
        <3> QED
            BY <3>1 DEF Selectors
    <2>3. CASE r \in {[ok |-> TRUE, out |-> "virtual", sys |-> "virtual"]}
        <3>1. r.out = "virtual" /\ r.sys = "virtual"
            BY <2>3
        <3> QED
            BY <1>2, <3>1 DEF Selectors
    <2>4. CASE r \in {[q EXCEPT !.ok = FALSE] : q \in Restore(first.now, second.now)}
        <3>1. PICK q \in Restore(first.now, second.now) : r = [q EXCEPT !.ok = FALSE]
            BY <2>4
        <3>2. q.out \in Selectors /\ q.sys \in Selectors
            <4>1. q.out \in {first.now, "real"} /\ q.sys \in {second.now, "real"}
                BY <2>2, RestoreResult
            <4> QED
                BY <2>2, <4>1 DEF Selectors
        <3>3. r.out = q.out /\ r.sys = q.sys
            BY <3>1
        <3> QED
            BY <1>2, <3>2, <3>3
    <2> QED
        BY <2>1, <2>3, <2>4
<1> QED
    BY <1>1, <1>2

-----------------------------------------------------------------------------
(* What pieces of handlers do *)

(* Whatever the selectors take the values of, without the driver, and      *)
(* through every notification, they stay what they are.                    *)
LEMMA RouteKeepsAudio ==
    ASSUME AudioOK, NEW r, NEW choosing, Route(r, choosing),
           r.out \in Selectors, r.sys \in Selectors,
           ~ driverPresent => r.out = "real" /\ r.sys = "real"
    PROVE  AudioOK'
<1>1. /\ output' = r.out /\ system' = r.sys
      /\ (changes' = changes + 1 /\ changes < 2) \/ changes' = changes
      /\ UNCHANGED <<realPresent, driverPresent>>
    BY DEF Route
<1>2. changes' \in 0..2
    <2>1. changes \in 0..2
        BY DEF AudioOK
    <2>2. (changes' = changes + 1 /\ changes < 2) \/ changes' = changes
        BY DEF Route
    <2> QED
        BY <2>1, <2>2
<1> QED
    BY <1>1, <1>2 DEF AudioOK, Selectors

(* So does restoring the real outputs. *)
LEMMA RestoreKeepsAudio ==
    ASSUME AudioOK, NEW r \in Restore(output, system), NEW choosing, Route(r, choosing)
    PROVE  AudioOK'
<1>1. /\ output \in Selectors /\ system \in Selectors
      /\ ~ driverPresent => output = "real" /\ system = "real"
    BY DEF AudioOK
<1>2. /\ r.out \in {output, "real"} /\ r.sys \in {system, "real"}
      /\ ~ driverPresent => r.out = output /\ r.sys = system
    BY <1>1, RestoreResult
<1>3. r.out \in Selectors /\ r.sys \in Selectors
    BY <1>1, <1>2 DEF Selectors
<1> QED
    BY <1>1, <1>2, <1>3, RouteKeepsAudio

(* And so does what touches neither them nor the notifications. *)
LEMMA NoRouteKeepsAudio == ASSUME AudioOK, UNCHANGED <<audioVars, changes>> PROVE AudioOK'
    BY DEF AudioOK, audioVars, Selectors

(* Whoever asks the task to stop has asked every helper.                   *)
LEMMA AllAsked ==
    ASSUME HelpersOK, AskToStop(task)
    PROVE  /\ stopAsked' \in [Launches -> BOOLEAN]
           /\ \A g \in Launches : Alive(g) => stopAsked'[g]
<1>1. stopAsked \in [Launches -> BOOLEAN]
    BY DEF HelpersOK, HelperTypes
<1>2. CASE task # NoLaunch /\ Alive(task)
    <2>1. stopAsked' = [stopAsked EXCEPT ![task] = TRUE]
        BY <1>2 DEF AskToStop
    <2>2. stopAsked' \in [Launches -> BOOLEAN]
        BY <1>1, <2>1
    <2>3. ASSUME NEW g \in Launches, Alive(g) PROVE stopAsked'[g]
        <3>1. CASE g = task
            BY <1>1, <2>1, <3>1
        <3>2. CASE g # task
            <4>1. stopAsked[g]
                BY <2>3, <3>2 DEF HelpersOK, Sighted
            <4> QED
                BY <1>1, <2>1, <3>2, <4>1
        <3> QED
            BY <3>1, <3>2
    <2> QED
        BY <2>2, <2>3
<1>3. CASE ~ (task # NoLaunch /\ Alive(task))
    <2>1. stopAsked' = stopAsked
        BY <1>3 DEF AskToStop
    <2>2. ASSUME NEW g \in Launches, Alive(g) PROVE stopAsked[g]
        <3>1. g # NoLaunch
            BY DEF Launches, NoLaunch
        <3>2. g # task
            BY <1>3, <2>2, <3>1
        <3> QED
            BY <2>2, <3>2 DEF HelpersOK, Sighted
    <2> QED
        BY <1>1, <2>1, <2>2
<1> QED
    BY <1>2, <1>3

(* After a stop there is no task, and no helper that was not told.         *)
LEMMA StopKeeps ==
    ASSUME HelpersOK, AskToStop(task), live' = NoLaunch, task' = NoLaunch,
           relaunchDue' \in BOOLEAN, exitDue' = FALSE, watchdogs' \subseteq watchdogs,
           UNCHANGED <<launches, helper, slot>>
    PROVE  HelpersOK'
<1>1. /\ stopAsked' \in [Launches -> BOOLEAN]
      /\ \A g \in Launches : Alive(g) => stopAsked'[g]
    BY AllAsked
<1>2. /\ launches \in 0..MaxLaunches /\ slot \in 0..launches
      /\ watchdogs \subseteq 1..launches /\ helper \in [Launches -> HelperPhases]
    BY DEF HelpersOK, HelperTypes
<1>3. NoLaunch \in 0..launches
    BY <1>2 DEF NoLaunch
<1>4. Launches' = Launches /\ HelperPhases' = HelperPhases
    BY DEF Launches, HelperPhases
<1>5. HelperTypes'
    BY <1>1, <1>2, <1>3, <1>4 DEF HelperTypes
<1>6. LaunchedInOrder'
    BY <1>4 DEF HelpersOK, LaunchedInOrder
<1>7. \A g \in Launches : Alive(g)' <=> Alive(g)
    BY DEF Alive
<1>8. Sighted'
    BY <1>1, <1>4, <1>7 DEF Sighted
<1>9. DueIsTrue'
    BY DEF DueIsTrue
<1> QED
    BY <1>5, <1>6, <1>8, <1>9 DEF HelpersOK

(* A launch when there is no task: its helper is the only one that is not  *)
(* told to stop.                                                           *)
LEMMA LaunchKeeps ==
    ASSUME HelpersOK, Launched, UNCHANGED <<stopAsked, slot>>
    PROVE  HelpersOK' /\ task' # NoLaunch
<1> DEFINE new == launches + 1
<1>1. /\ launches \in 0..MaxLaunches /\ slot \in 0..launches
      /\ watchdogs \subseteq 1..launches /\ helper \in [Launches -> HelperPhases]
      /\ stopAsked \in [Launches -> BOOLEAN]
    BY DEF HelpersOK, HelperTypes
<1>2. /\ task = NoLaunch /\ launches < MaxLaunches
      /\ launches' = new
      /\ helper' = [helper EXCEPT ![new] = "launched"]
      /\ task' = new /\ live' = new
      /\ watchdogs' = watchdogs \union {new}
      /\ relaunchDue' = FALSE /\ exitDue' = FALSE
    BY DEF Launched
<1>3. /\ new \in Launches /\ new # NoLaunch /\ new \in 1..new /\ new \in 0..MaxLaunches
      /\ \A i \in 1..launches : i \in 1..new
      /\ \A i \in 0..launches : i \in 0..new
      /\ new \in 0..new
    BY <1>1, <1>2 DEF Launches, NoLaunch
<1>4. Launches' = Launches /\ HelperPhases' = HelperPhases
    BY DEF Launches, HelperPhases
<1>5. /\ helper' \in [Launches -> HelperPhases]
      /\ helper'[new] = "launched"
      /\ \A g \in Launches : g # new => helper'[g] = helper[g]
    <2>1. "launched" \in HelperPhases
        BY DEF HelperPhases
    <2> HIDE DEF new
    <2> QED
        BY <1>1, <1>2, <1>3, <2>1
<1>6. HelperTypes'
    <2>1. watchdogs' \subseteq 1..launches'
        <3> HIDE DEF new
        <3> QED
            BY <1>1, <1>2, <1>3
    <2>2. slot' \in 0..launches' /\ task' \in 0..launches' /\ live' \in 0..launches'
        <3> HIDE DEF new
        <3> QED
            BY <1>1, <1>2, <1>3
    <2> HIDE DEF new
    <2> QED
        BY <1>1, <1>2, <1>3, <1>4, <1>5, <2>1, <2>2 DEF HelperTypes
<1>7. LaunchedInOrder'
    <2>1. ASSUME NEW g \in Launches, helper'[g] # "none" PROVE g <= launches'
        <3>1. CASE g = new
            BY <1>1, <1>2, <3>1
        <3>2. CASE g # new
            <4>1. g <= launches
                BY <1>5, <2>1, <3>2 DEF HelpersOK, LaunchedInOrder
            <4> QED
                BY <1>1, <1>2, <4>1 DEF Launches
        <3> QED
            BY <3>1, <3>2
    <2> QED
        BY <1>4, <2>1 DEF LaunchedInOrder
<1>8. Sighted'
    <2>1. ASSUME NEW g \in Launches, Alive(g)', ~ stopAsked'[g] PROVE g = task'
        <3>1. SUFFICES ASSUME g # new PROVE FALSE
            BY <1>2
        <3>2. Alive(g) /\ ~ stopAsked[g]
            BY <1>5, <2>1, <3>1 DEF Alive
        <3>3. g = task
            BY <3>2 DEF HelpersOK, Sighted
        <3> QED
            BY <1>2, <3>3 DEF Launches, NoLaunch
    <2> QED
        BY <1>4, <2>1 DEF Sighted
<1>9. DueIsTrue'
    BY <1>2 DEF DueIsTrue
<1> QED
    BY <1>2, <1>3, <1>6, <1>7, <1>8, <1>9 DEF HelpersOK

(* What leaves helpers and the task alone may only drop what is due, or    *)
(* the generation of a launch that is no longer the task.                  *)
LEMMA QuietKeeps ==
    ASSUME HelpersOK, relaunchDue' \in {relaunchDue, FALSE}, exitDue' \in {exitDue, FALSE},
           watchdogs' \subseteq watchdogs,
           live' = live \/ (task = NoLaunch /\ live' = NoLaunch),
           UNCHANGED <<task, launches, helper, slot, stopAsked>>
    PROVE  HelpersOK'
<1>1. Launches' = Launches /\ HelperPhases' = HelperPhases
    BY DEF Launches, HelperPhases
<1>2. HelperTypes'
    <2>1. /\ launches \in 0..MaxLaunches /\ live \in 0..launches
          /\ task # NoLaunch => task = live
        BY DEF HelpersOK, HelperTypes
    <2>2. live' \in 0..launches /\ (task # NoLaunch => task = live')
        BY <2>1 DEF NoLaunch
    <2> QED
        BY <1>1, <2>2 DEF HelpersOK, HelperTypes
<1>3. LaunchedInOrder'
    BY <1>1 DEF HelpersOK, LaunchedInOrder
<1>4. ASSUME NEW g \in Launches, Alive(g)', ~ stopAsked'[g] PROVE g = task'
    <2>1. Alive(g) /\ ~ stopAsked[g]
        BY <1>4 DEF Alive
    <2> QED
        BY <2>1 DEF HelpersOK, Sighted
<1>5. Sighted'
    BY <1>1, <1>4 DEF Sighted
<1>6. DueIsTrue'
    <2>1. (relaunchDue' => relaunchDue) /\ (exitDue' => exitDue)
        <3>1. relaunchDue' = relaunchDue \/ relaunchDue' = FALSE
            OBVIOUS
        <3>2. exitDue' = exitDue \/ exitDue' = FALSE
            OBVIOUS
        <3> QED
            BY <3>1, <3>2
    <2>2. helper' = helper /\ task' = task
        OBVIOUS
    <2>3. DueIsTrue
        BY DEF HelpersOK
    <2>4. relaunchDue' => task' = NoLaunch
        BY <2>1, <2>2, <2>3 DEF DueIsTrue
    <2>5. exitDue' /\ task' # NoLaunch => ~ Alive(task)'
        BY <2>1, <2>2, <2>3 DEF DueIsTrue, Alive
    <2> QED
        BY <2>4, <2>5 DEF DueIsTrue
<1> QED
    BY <1>2, <1>3, <1>5, <1>6 DEF HelpersOK

-----------------------------------------------------------------------------
(* The app's handlers *)

(* A launch of the app finds no task of an earlier session. *)
LEMMA DidFinishLaunchingKeeps == ASSUME IInv, DidFinishLaunching PROVE IInv'
<1>1. task = NoLaunch /\ ~ alert
    BY DEF IInv, AppOK, DidFinishLaunching
<1>2. AudioOK'
    BY DEF IInv, AudioOK, DidFinishLaunching, audioVars, Selectors
<1>3. CASE Launched /\ enabled' = TRUE
    <2>1. HelpersOK'
        BY <1>3, LaunchKeeps DEF IInv, DidFinishLaunching
    <2>2. AppOK'
        BY <1>1, <1>3 DEF IInv, AppOK, AppStates, DidFinishLaunching, Launched
    <2> QED
        BY <1>2, <2>1, <2>2 DEF IInv
<1>4. CASE /\ enabled' = FALSE /\ appState' = "disabled"
           /\ task' = NoLaunch /\ live' = NoLaunch
           /\ relaunchDue' = FALSE /\ exitDue' = FALSE
           /\ UNCHANGED <<launches, helper, watchdogs>>
    <2>1. HelpersOK'
        BY <1>1, <1>4, QuietKeeps DEF IInv, DidFinishLaunching
    <2>2. AppOK'
        BY <1>1, <1>4 DEF IInv, AppOK, AppStates, DidFinishLaunching
    <2> QED
        BY <1>2, <2>1, <2>2 DEF IInv
<1> QED
    BY <1>3, <1>4 DEF DidFinishLaunching

(* Enable launches a helper, or stops what there is. *)
LEMMA EnableKeeps == ASSUME IInv, Enable PROVE IInv'
<1>1. AudioOK'
    BY NoRouteKeepsAudio DEF IInv, Enable
<1>2. CASE Launched /\ enabled' = TRUE /\ UNCHANGED stopAsked
    <2>1. HelpersOK'
        BY <1>2, LaunchKeeps DEF IInv, Enable
    <2>2. AppOK'
        BY <1>2 DEF IInv, AppOK, AppStates, Enable, Launched
    <2> QED
        BY <1>1, <2>1, <2>2 DEF IInv
<1>3. CASE /\ appState' = "disabled" /\ StopForwarder
           /\ UNCHANGED <<enabled, watchdogs, launches, helper>>
    <2>1. HelpersOK'
        BY <1>3, StopKeeps DEF IInv, Enable, StopForwarder, StopWith
    <2>2. AppOK'
        BY <1>3 DEF IInv, AppOK, AppStates, Enable, StopForwarder, StopWith
    <2> QED
        BY <1>1, <2>1, <2>2 DEF IInv
<1> QED
    BY <1>2, <1>3 DEF Enable

(* Disable stops the helper, or keeps it under its alert. *)
LEMMA DisableKeeps == ASSUME IInv, Disable PROVE IInv'
<1>1. PICK result \in Restore(output, system) :
          /\ Route(result, FALSE)
          /\ \/ result.ok /\ StopForwarder /\ appState' = "disabled" /\ UNCHANGED alert
             \/ /\ ~ result.ok /\ alert' = TRUE
                /\ UNCHANGED <<task, live, relaunchDue, lines, exitDue, stopAsked, appState>>
    BY DEF Disable
<1>2. AudioOK'
    BY <1>1, RestoreKeepsAudio DEF IInv
<1>3. CASE StopForwarder /\ appState' = "disabled" /\ UNCHANGED alert
    <2>1. HelpersOK'
        BY <1>3, StopKeeps DEF IInv, Disable, StopForwarder, StopWith
    <2>2. AppOK'
        BY <1>3 DEF IInv, AppOK, AppStates, Disable, StopForwarder, StopWith
    <2> QED
        BY <1>2, <2>1, <2>2 DEF IInv
<1>4. CASE /\ alert' = TRUE
           /\ UNCHANGED <<task, live, relaunchDue, lines, exitDue, stopAsked, appState>>
    <2>1. HelpersOK'
        BY <1>4, QuietKeeps DEF IInv, Disable
    <2>2. AppOK'
        BY <1>4 DEF IInv, AppOK, Disable
    <2> QED
        BY <1>2, <2>1, <2>2 DEF IInv
<1> QED
    BY <1>1, <1>3, <1>4

(* Dismissing the alert hands its helper back to an enabled app. *)
LEMMA DismissAlertKeeps == ASSUME IInv, DismissAlert PROVE IInv'
<1>1. HelpersOK'
    BY QuietKeeps DEF IInv, DismissAlert, queueVars, helperVars
<1>2. AudioOK'
    BY NoRouteKeepsAudio DEF IInv, DismissAlert, queueVars
<1>3. AppOK'
    BY DEF IInv, AppOK, DismissAlert
<1> QED
    BY <1>1, <1>2, <1>3 DEF IInv

(* Choosing a real output stops the helper and leaves a relaunch. *)
LEMMA SelectPhysicalOutputKeeps == ASSUME IInv, SelectPhysicalOutput PROVE IInv'
<1>1. PICK result \in Restore(output, system) :
          /\ Route(result, FALSE)
          /\ \/ result.ok /\ StopWith(TRUE) /\ appState' = "starting"
             \/ /\ ~ result.ok
                /\ UNCHANGED <<live, task, lines, exitDue, stopAsked, relaunchDue, appState>>
    BY DEF SelectPhysicalOutput
<1>2. AudioOK'
    BY <1>1, RestoreKeepsAudio DEF IInv
<1>3. CASE StopWith(TRUE) /\ appState' = "starting"
    <2>1. HelpersOK'
        BY <1>3, StopKeeps DEF IInv, SelectPhysicalOutput, StopWith
    <2>2. AppOK'
        BY <1>3 DEF IInv, AppOK, AppStates, SelectPhysicalOutput, StopWith
    <2> QED
        BY <1>2, <2>1, <2>2 DEF IInv
<1>4. CASE UNCHANGED <<live, task, lines, exitDue, stopAsked, relaunchDue, appState>>
    <2>1. HelpersOK'
        BY <1>4, QuietKeeps DEF IInv, SelectPhysicalOutput
    <2>2. AppOK'
        BY <1>4 DEF IInv, AppOK, SelectPhysicalOutput
    <2> QED
        BY <1>2, <2>1, <2>2 DEF IInv
<1> QED
    BY <1>1, <1>3, <1>4

(* A relaunch that is still due finds no task. *)
LEMMA RelaunchKeeps == ASSUME IInv, Relaunch PROVE IInv'
<1>1. AudioOK'
    BY NoRouteKeepsAudio DEF IInv, Relaunch
<1>2. CASE enabled /\ Launched /\ UNCHANGED enabled
    <2>1. HelpersOK'
        BY <1>2, LaunchKeeps DEF IInv, Relaunch
    <2>2. AppOK'
        BY <1>2 DEF IInv, AppOK, AppStates, Relaunch, Launched
    <2> QED
        BY <1>1, <2>1, <2>2 DEF IInv
<1>3. CASE /\ (appState' = "error" /\ enabled' = FALSE) \/ UNCHANGED <<enabled, appState>>
           /\ relaunchDue' = FALSE
           /\ UNCHANGED <<task, live, watchdogs, lines, exitDue, launches, helper>>
    <2>1. HelpersOK'
        BY <1>3, QuietKeeps DEF IInv, Relaunch
    <2>2. task = NoLaunch
        BY DEF IInv, HelpersOK, DueIsTrue, Relaunch
    <2>3. AppOK'
        BY <1>3, <2>2 DEF IInv, AppOK, AppStates, Relaunch
    <2> QED
        BY <1>1, <2>1, <2>3 DEF IInv
<1> QED
    BY <1>2, <1>3 DEF Relaunch

(* A default-device notification may stop everything, or only be used up. *)
LEMMA DefaultDevicesDidChangeKeeps == ASSUME IInv, DefaultDevicesDidChange PROVE IInv'
<1>1. CASE enabled /\ appState \notin {"starting", "waiting"} /\ driverPresent
              /\ output # "virtual"
    <2>1. /\ enabled' = FALSE /\ appState' = "disabled" /\ StopForwarder
          /\ UNCHANGED <<running, alert, realPresent, driverPresent>>
          /\ UNCHANGED <<watchdogs, launches, helper, slot>>
        BY <1>1 DEF DefaultDevicesDidChange
    <2>2. HelpersOK'
        BY <2>1, StopKeeps DEF IInv, StopForwarder, StopWith
    <2>3. AppOK'
        BY <2>1 DEF IInv, AppOK, AppStates, StopForwarder, StopWith
    <2>4. AudioOK'
        <3>1. PICK result \in Restore(output, system) :
                  /\ output' = result.out /\ system' = result.sys
                  /\ changes' = IF system # result.sys THEN changes ELSE changes - 1
            BY <1>1 DEF DefaultDevicesDidChange
        <3>2. output \in Selectors /\ system \in Selectors
            BY DEF IInv, AudioOK
        <3>3. result.out \in {output, "real"} /\ result.sys \in {system, "real"}
            BY <3>2, RestoreResult
        <3>4. output' \in Selectors /\ system' \in Selectors
            BY <3>1, <3>2, <3>3 DEF Selectors
        <3>5. changes' \in 0..2
            <4>1. changes \in 0..2 /\ changes > 0
                BY DEF IInv, AudioOK, DefaultDevicesDidChange
            <4>2. changes' = changes \/ changes' = changes - 1
                BY <3>1
            <4> QED
                BY <4>1, <4>2
        <3> QED
            BY <1>1, <2>1, <3>4, <3>5 DEF IInv, AudioOK, Selectors
    <2> QED
        BY <2>2, <2>3, <2>4 DEF IInv
<1>2. CASE ~ (enabled /\ appState \notin {"starting", "waiting"} /\ driverPresent
              /\ output # "virtual")
    <2>1. /\ changes' = changes - 1
          /\ UNCHANGED <<enabled, appState, output, system, chosen>>
          /\ UNCHANGED <<live, task, relaunchDue, lines, exitDue, stopAsked>>
          /\ UNCHANGED <<running, watchdogs, alert, realPresent, driverPresent>>
          /\ UNCHANGED <<launches, helper, slot>>
        BY <1>2 DEF DefaultDevicesDidChange
    <2>2. HelpersOK'
        BY <2>1, QuietKeeps DEF IInv
    <2>3. AppOK'
        BY <2>1 DEF IInv, AppOK
    <2>4. AudioOK'
        <3>1. changes' \in 0..2
            BY <2>1 DEF IInv, AudioOK, DefaultDevicesDidChange
        <3> QED
            BY <2>1, <3>1 DEF IInv, AudioOK, Selectors
    <2> QED
        BY <2>2, <2>3, <2>4 DEF IInv
<1> QED
    BY <1>1, <1>2

(* The end of a launch in a handler that leaves the rest of the app alone. *)
LEMMA DisableWithKeeps ==
    ASSUME IInv, NEW newState \in AppStates, DisableWith(newState),
           UNCHANGED <<running, alert, launches, helper, slot>>, watchdogs' \subseteq watchdogs
    PROVE  IInv'
<1>1. PICK result \in Restore(output, system) : Route(result, FALSE)
    BY DEF DisableWith, GiveUp, RestoreDefaults
<1>2. AudioOK'
    BY <1>1, RestoreKeepsAudio DEF IInv
<1>3. HelpersOK'
    BY StopKeeps DEF IInv, DisableWith, StopForwarder, StopWith
<1>4. AppOK'
    BY DEF IInv, AppOK, DisableWith, GiveUp, StopForwarder, StopWith
<1> QED
    BY <1>2, <1>3, <1>4 DEF IInv

(* A line of the helper may select the virtual device, fail to, change     *)
(* what the app shows, or end the launch.                                  *)
LEMMA ConsumeForwarderLineKeeps == ASSUME IInv, ConsumeForwarderLine PROVE IInv'
<1> DEFINE Rest == UNCHANGED <<live, task, relaunchDue, exitDue, stopAsked>>
           line == Head(lines)
<1>1. UNCHANGED <<running, watchdogs, alert, launches, helper, slot>>
    BY DEF ConsumeForwarderLine
<1>2. output \in Selectors /\ system \in Selectors
    BY DEF IInv, AudioOK
<1>3. ~ driverPresent => output = "real" /\ system = "real"
    BY DEF IInv, AudioOK
<1>4. ASSUME NEW result \in Select, result.ok, Route(result, TRUE), Rest,
             UNCHANGED <<enabled, appState>>
      PROVE  IInv'
    <2>1. AudioOK'
        BY <1>2, <1>3, <1>4, SelectResult, RouteKeepsAudio DEF IInv
    <2>2. HelpersOK'
        BY <1>1, <1>4, QuietKeeps DEF IInv
    <2>3. AppOK'
        BY <1>1, <1>4 DEF IInv, AppOK
    <2> QED
        BY <2>1, <2>2, <2>3 DEF IInv
<1>5. ASSUME NEW result \in Select, NEW again \in Restore(result.out, result.sys),
             Route(again, TRUE), StopForwarder, enabled' = FALSE, appState' = "error"
      PROVE  IInv'
    <2>1. AudioOK'
        <3>1. /\ result.out \in Selectors /\ result.sys \in Selectors
              /\ ~ driverPresent => result.out = "real" /\ result.sys = "real"
            BY <1>2, <1>3, SelectResult
        <3>2. /\ again.out \in {result.out, "real"} /\ again.sys \in {result.sys, "real"}
              /\ ~ driverPresent => again.out = result.out /\ again.sys = result.sys
            BY <3>1, RestoreResult
        <3>3. again.out \in Selectors /\ again.sys \in Selectors
            BY <3>1, <3>2 DEF Selectors
        <3> QED
            BY <1>5, <3>1, <3>2, <3>3, RouteKeepsAudio DEF IInv
    <2>2. HelpersOK'
        BY <1>1, <1>5, StopKeeps DEF IInv, StopForwarder, StopWith
    <2>3. AppOK'
        BY <1>1, <1>5 DEF IInv, AppOK, AppStates, StopForwarder, StopWith
    <2> QED
        BY <2>1, <2>2, <2>3 DEF IInv
<1>6. ASSUME Rest, appState' \in AppStates, UNCHANGED <<enabled, audioVars, changes>>
      PROVE  IInv'
    <2>1. AudioOK'
        BY <1>6, NoRouteKeepsAudio DEF IInv
    <2>2. HelpersOK'
        BY <1>1, <1>6, QuietKeeps DEF IInv
    <2>3. AppOK'
        BY <1>1, <1>6 DEF IInv, AppOK, AppStates
    <2> QED
        BY <2>1, <2>2, <2>3 DEF IInv
<1>7. CASE line = "ready" /\ enabled
    <2>1. PICK result \in Select :
              \/ result.ok /\ Route(result, TRUE) /\ Rest /\ UNCHANGED <<enabled, appState>>
              \/ /\ \E again \in Restore(result.out, result.sys) : Route(again, TRUE)
                 /\ StopForwarder /\ enabled' = FALSE /\ appState' = "error"
        BY <1>7 DEF ConsumeForwarderLine
    <2> QED
        BY <2>1, <1>4, <1>5
<1>8. CASE line = "ready" /\ ~ enabled
    <2>1. appState \in AppStates
        BY DEF IInv, AppOK
    <2> QED
        BY <1>6, <1>8, <2>1 DEF ConsumeForwarderLine
<1>9. CASE line \in {"waiting", "forwarding", "error"}
    <2>1. /\ appState' = line /\ Rest /\ UNCHANGED <<enabled, audioVars, changes>>
        BY <1>9 DEF ConsumeForwarderLine
    <2>2. appState' \in AppStates
        BY <1>9, <2>1 DEF AppStates
    <2> QED
        BY <1>6, <2>1, <2>2
<1>10. CASE line = "deselected"
    <2>1. DisableWith("disabled")
        BY <1>10 DEF ConsumeForwarderLine
    <2> QED
        BY <1>1, <2>1, DisableWithKeeps DEF AppStates
<1> QED
    BY <1>7, <1>8, <1>9, <1>10 DEF ConsumeForwarderLine

(* The end of the live launch leaves no task, and no helper that was not   *)
(* told to stop: the one that ended was the only one.                      *)
LEMMA HelperTerminatedKeeps == ASSUME IInv, HelperTerminated PROVE IInv'
<1>1. /\ exitDue /\ exitDue' = FALSE /\ task' = NoLaunch
      /\ UNCHANGED <<running, live, relaunchDue, watchdogs, alert>>
      /\ UNCHANGED <<launches, helper, stopAsked, slot>>
    BY DEF HelperTerminated, helperVars
<1>2. HelpersOK'
    <2>1. HelperTypes /\ LaunchedInOrder /\ Sighted /\ DueIsTrue
        BY DEF IInv, HelpersOK
    <2>2. Launches' = Launches /\ HelperPhases' = HelperPhases
        BY DEF Launches, HelperPhases
    <2>3. HelperTypes'
        <3>1. NoLaunch \in 0..launches
            BY <2>1 DEF HelperTypes, NoLaunch
        <3> QED
            BY <1>1, <2>1, <2>2, <3>1 DEF HelperTypes
    <2>4. LaunchedInOrder'
        BY <1>1, <2>1, <2>2 DEF LaunchedInOrder
    <2>5. Sighted'
        <3>1. ASSUME NEW g \in Launches, Alive(g)', ~ stopAsked'[g] PROVE FALSE
            <4>1. Alive(g) /\ ~ stopAsked[g]
                BY <1>1, <3>1 DEF Alive
            <4>2. g = task /\ g # NoLaunch
                BY <2>1, <4>1 DEF Sighted, Launches, NoLaunch
            <4> QED
                BY <1>1, <2>1, <4>1, <4>2 DEF DueIsTrue, Alive
        <3> QED
            BY <2>2, <3>1 DEF Sighted
    <2>6. DueIsTrue'
        BY <1>1 DEF DueIsTrue
    <2> QED
        BY <2>3, <2>4, <2>5, <2>6 DEF HelpersOK
<1>3. CASE enabled
    <2>1. GiveUp("error")
        BY <1>3 DEF HelperTerminated
    <2>2. PICK result \in Restore(output, system) : Route(result, FALSE)
        BY <2>1 DEF GiveUp, RestoreDefaults
    <2>3. AudioOK'
        BY <2>2, RestoreKeepsAudio DEF IInv
    <2>4. AppOK'
        BY <1>1, <2>1 DEF IInv, AppOK, AppStates, GiveUp
    <2> QED
        BY <1>2, <2>3, <2>4 DEF IInv
<1>4. CASE ~ enabled
    <2>1. UNCHANGED <<appState, enabled, audioVars, changes>>
        BY <1>4 DEF HelperTerminated
    <2>2. AudioOK'
        BY <2>1, NoRouteKeepsAudio DEF IInv
    <2>3. AppOK'
        BY <1>1, <2>1 DEF IInv, AppOK, AppStates
    <2> QED
        BY <1>2, <2>2, <2>3 DEF IInv
<1> QED
    BY <1>3, <1>4

(* The watchdog ends the live launch, or does nothing. *)
LEMMA StartupTimeoutKeeps ==
    ASSUME IInv, NEW g \in Launches, StartupTimeout(g)
    PROVE  IInv'
<1>1. UNCHANGED <<running, alert, launches, helper, slot>> /\ watchdogs' \subseteq watchdogs
    BY DEF StartupTimeout
<1>2. CASE DisableWith("error")
    BY <1>1, <1>2, DisableWithKeeps DEF AppStates
<1>3. CASE /\ UNCHANGED <<enabled, appState, audioVars, changes>>
           /\ UNCHANGED <<live, task, relaunchDue, lines, exitDue, stopAsked>>
    <2>1. HelpersOK'
        BY <1>1, <1>3, QuietKeeps DEF IInv
    <2>2. AudioOK'
        BY <1>3, NoRouteKeepsAudio DEF IInv
    <2>3. AppOK'
        BY <1>1, <1>3 DEF IInv, AppOK, AppStates
    <2> QED
        BY <2>1, <2>2, <2>3 DEF IInv
<1> QED
    BY <1>2, <1>3 DEF StartupTimeout

(* Quit stops the helper, or is refused. *)
LEMMA QuitKeeps == ASSUME IInv, Quit PROVE IInv'
<1> DEFINE Again(r) == IF r.ok THEN Restore(r.out, r.sys) ELSE {r}
<1>0. PICK first \in Restore(output, system) :
           \E second \in Again(first) : Route(second, FALSE)
    BY DEF Quit
<1>1. PICK second \in Again(first) : Route(second, FALSE)
    BY <1>0
<1>2. AudioOK'
    <2>1. /\ output \in Selectors /\ system \in Selectors
          /\ ~ driverPresent => output = "real" /\ system = "real"
        BY DEF IInv, AudioOK
    <2>2. /\ first.out \in {output, "real"} /\ first.sys \in {system, "real"}
          /\ ~ driverPresent => first.out = output /\ first.sys = system
        BY <2>1, RestoreResult
    <2>3. first.out \in Selectors /\ first.sys \in Selectors
        BY <2>1, <2>2 DEF Selectors
    <2>4. /\ second.out \in {first.out, "real"} /\ second.sys \in {first.sys, "real"}
          /\ ~ driverPresent => second.out = first.out /\ second.sys = first.sys
        <3>1. CASE first.ok
            BY <1>1, <2>3, <3>1, RestoreResult
        <3>2. CASE ~ first.ok
            BY <1>1, <3>2
        <3> QED
            BY <3>1, <3>2
    <2>5. second.out \in Selectors /\ second.sys \in Selectors
        BY <2>3, <2>4 DEF Selectors
    <2> QED
        BY <1>1, <2>1, <2>2, <2>4, <2>5, RouteKeepsAudio DEF IInv
<1>3. UNCHANGED <<enabled, appState, alert, launches, helper, slot>> /\ ~ alert
    BY DEF Quit
<1>4. CASE /\ running' = FALSE /\ AskToStop(task) /\ live' = NoLaunch /\ task' = NoLaunch
           /\ relaunchDue' = FALSE /\ watchdogs' = {} /\ exitDue' = FALSE
    <2>1. HelpersOK'
        BY <1>3, <1>4, StopKeeps DEF IInv
    <2>2. AppOK'
        BY <1>3, <1>4 DEF IInv, AppOK, AppStates
    <2> QED
        BY <1>2, <2>1, <2>2 DEF IInv
<1>5. CASE UNCHANGED <<running, stopAsked, live, task, relaunchDue, watchdogs, exitDue>>
    <2>1. HelpersOK'
        BY <1>3, <1>5, QuietKeeps DEF IInv
    <2>2. AppOK'
        BY <1>3, <1>5 DEF IInv, AppOK, AppStates
    <2> QED
        BY <1>2, <2>1, <2>2 DEF IInv
<1> QED
    BY <1>4, <1>5 DEF Quit

-----------------------------------------------------------------------------
(* The helpers and the environment *)

(* A helper that goes on is no less alive, and may get the reader place. *)
LEMMA MoveKeeps ==
    ASSUME HelpersOK, NEW g \in Launches, Alive(g),
           NEW phase \in HelperPhases \ {"none", "exited"}, Goes(g, phase),
           slot' \in {slot, g}, OthersUnchanged
    PROVE  HelpersOK'
<1>1. /\ UNCHANGED <<task, live, relaunchDue, watchdogs, exitDue, launches, stopAsked>>
      /\ helper' = [helper EXCEPT ![g] = phase]
    BY DEF OthersUnchanged, appVars, Goes
<1>2. HelperTypes /\ LaunchedInOrder /\ Sighted /\ DueIsTrue
    BY DEF HelpersOK
<1>3. Launches' = Launches /\ HelperPhases' = HelperPhases
    BY DEF Launches, HelperPhases
<1>4. /\ helper' \in [Launches -> HelperPhases] /\ helper'[g] = phase
      /\ \A h \in Launches : h # g => helper'[h] = helper[h]
    <2>1. helper \in [Launches -> HelperPhases]
        BY <1>2 DEF HelperTypes
    <2>2. phase \in HelperPhases
        OBVIOUS
    <2> QED
        BY <1>1, <2>1, <2>2
<1>5. helper[g] # "none"
    BY DEF Alive
<1>6. g \in 0..launches
    <2>1. g <= launches
        BY <1>2, <1>5 DEF LaunchedInOrder
    <2> QED
        BY <2>1, <1>2 DEF Launches, HelperTypes
<1>7. \A h \in Launches : Alive(h)' => Alive(h)
    <2>1. ASSUME NEW h \in Launches, Alive(h)' PROVE Alive(h)
        <3>1. CASE h = g
            BY <3>1
        <3>2. CASE h # g
            BY <1>4, <2>1, <3>2 DEF Alive
        <3> QED
            BY <3>1, <3>2
    <2> QED
        BY <2>1
<1>8. HelperTypes'
    <2>1. slot' \in 0..launches
        <3>1. slot \in 0..launches
            BY <1>2 DEF HelperTypes
        <3> QED
            BY <1>6, <3>1
    <2> QED
        BY <1>1, <1>2, <1>3, <1>4, <2>1 DEF HelperTypes
<1>9. LaunchedInOrder'
    <2>1. ASSUME NEW h \in Launches, helper'[h] # "none" PROVE helper[h] # "none"
        <3>1. CASE h = g
            BY <1>5, <3>1
        <3>2. CASE h # g
            BY <1>4, <2>1, <3>2
        <3> QED
            BY <3>1, <3>2
    <2> QED
        BY <1>1, <1>2, <1>3, <2>1 DEF LaunchedInOrder
<1>10. Sighted'
    BY <1>1, <1>2, <1>3, <1>7 DEF Sighted
<1>11. DueIsTrue'
    <2>1. task' = task /\ relaunchDue' = relaunchDue /\ exitDue' = exitDue
        BY <1>1
    <2>2. task # NoLaunch => task \in Launches
        BY <1>2 DEF HelperTypes, Launches, NoLaunch
    <2>3. task # NoLaunch /\ ~ Alive(task) => ~ Alive(task)'
        BY <1>7, <2>1, <2>2 DEF Alive
    <2> QED
        BY <1>2, <2>1, <2>3 DEF DueIsTrue
<1> QED
    BY <1>8, <1>9, <1>10, <1>11 DEF HelpersOK

(* What a helper does touches neither the selectors nor the app. *)
LEMMA HelperStepKeeps == ASSUME IInv, NEW g \in Launches, HelperStep(g) PROVE IInv'
<1>1. OthersUnchanged
    BY DEF HelperStep
<1>2. AudioOK' /\ AppOK'
    <2>1. AudioOK'
        BY <1>1, NoRouteKeepsAudio DEF IInv, OthersUnchanged
    <2>2. AppOK'
        BY <1>1 DEF IInv, AppOK, AppStates, OthersUnchanged, appVars
    <2> QED
        BY <2>1, <2>2
<1>3. /\ Alive(g) /\ slot' \in {slot, g}
      /\ \E phase \in HelperPhases \ {"none", "exited"} : Goes(g, phase)
    <2> DEFINE Phases == {"open", "ready", "waiting", "routed", "active", "leaving"}
    <2>1. /\ helper[g] \in {"launched", "open", "ready", "waiting", "routed", "active"}
          /\ slot' \in {slot, g}
          /\ \E phase \in Phases : Goes(g, phase)
        BY DEF HelperStep, HelperAdvances, HelperFails, HelperOpens, HelperReady, HelperWaits,
               HelperSeesRoute, HelperActivates, HelperStops, HelperBreaks, HelperDeselected
    <2>2. Alive(g)
        BY <2>1 DEF Alive
    <2>3. Phases \subseteq HelperPhases \ {"none", "exited"}
        BY DEF HelperPhases
    <2> QED
        BY <2>1, <2>2, <2>3
<1>4. HelpersOK'
    BY <1>1, <1>3, MoveKeeps DEF IInv
<1> QED
    BY <1>2, <1>4 DEF IInv

(* The end of a helper makes its termination due only for the live launch. *)
LEMMA HelperExitsKeeps == ASSUME IInv, NEW g \in Launches, HelperExits(g) PROVE IInv'
<1>1. /\ UNCHANGED <<task, live, relaunchDue, watchdogs, launches, stopAsked>>
      /\ UNCHANGED <<running, enabled, alert, appState, changes, audioVars>>
      /\ helper' = [helper EXCEPT ![g] = "exited"]
      /\ slot' \in {slot, NoLaunch}
      /\ exitDue' = (exitDue \/ (running /\ g = live))
    BY DEF HelperExits, appVars, Goes
<1>2. HelperTypes /\ LaunchedInOrder /\ Sighted /\ DueIsTrue
    BY DEF IInv, HelpersOK
<1>3. Launches' = Launches /\ HelperPhases' = HelperPhases
    BY DEF Launches, HelperPhases
<1>4. /\ helper' \in [Launches -> HelperPhases] /\ helper'[g] = "exited"
      /\ \A h \in Launches : h # g => helper'[h] = helper[h]
    <2>1. helper \in [Launches -> HelperPhases]
        BY <1>2 DEF HelperTypes
    <2>2. "exited" \in HelperPhases
        BY DEF HelperPhases
    <2> QED
        BY <1>1, <2>1, <2>2
<1>5. helper[g] # "none"
    BY DEF HelperExits, Alive
<1>6. \A h \in Launches : Alive(h)' => Alive(h) /\ h # g
    BY <1>4 DEF Alive
<1>7. HelperTypes'
    <2>1. slot' \in 0..launches
        BY <1>1, <1>2 DEF HelperTypes, NoLaunch
    <2>2. exitDue' \in BOOLEAN
        BY <1>1, <1>2 DEF HelperTypes
    <2> QED
        BY <1>1, <1>2, <1>3, <1>4, <2>1, <2>2 DEF HelperTypes
<1>8. LaunchedInOrder'
    <2>1. ASSUME NEW h \in Launches, helper'[h] # "none" PROVE helper[h] # "none"
        <3>1. CASE h = g
            BY <1>5, <3>1
        <3>2. CASE h # g
            BY <1>4, <2>1, <3>2
        <3> QED
            BY <3>1, <3>2
    <2> QED
        BY <1>1, <1>2, <1>3, <2>1 DEF LaunchedInOrder
<1>9. Sighted'
    BY <1>1, <1>2, <1>3, <1>6 DEF Sighted
<1>10. DueIsTrue'
    <2>1. task' = task /\ relaunchDue' = relaunchDue
        BY <1>1
    <2>2. task # NoLaunch => task \in Launches /\ task = live
        BY <1>2 DEF HelperTypes, Launches, NoLaunch
    <2>3. ASSUME exitDue', task # NoLaunch PROVE ~ Alive(task)'
        <3>1. CASE exitDue
            <4>1. ~ Alive(task)
                BY <1>2, <2>3, <3>1 DEF DueIsTrue
            <4> QED
                BY <1>6, <2>1, <2>2, <2>3, <4>1 DEF Alive
        <3>2. CASE g = live
            BY <1>4, <2>1, <2>2, <2>3, <3>2 DEF Alive
        <3> QED
            BY <1>1, <2>3, <3>1, <3>2
    <2> QED
        BY <1>2, <2>1, <2>3 DEF DueIsTrue
<1>11. HelpersOK'
    BY <1>7, <1>8, <1>9, <1>10 DEF HelpersOK
<1>12. AudioOK'
    BY <1>1, NoRouteKeepsAudio DEF IInv
<1>13. AppOK'
    BY <1>1 DEF IInv, AppOK, AppStates
<1> QED
    BY <1>11, <1>12, <1>13 DEF IInv

(* What the user and the devices do touches the selectors only.            *)
LEMMA EnvironmentKeeps ==
    ASSUME IInv,
           \/ \E device \in Selectors : UserSelects(device)
           \/ DriverChanges
           \/ RealOutputChanges
    PROVE  IInv'
<1>1. UNCHANGED <<appVars, exitDue, helperVars>>
    BY DEF UserSelects, DriverChanges, RealOutputChanges, queueVars
<1>2. HelpersOK'
    BY <1>1, QuietKeeps DEF IInv, appVars, helperVars
<1>3. AppOK'
    BY <1>1 DEF IInv, AppOK, AppStates, appVars
<1>4. AudioOK'
    <2>1. /\ output \in Selectors /\ system \in Selectors
          /\ driverPresent \in BOOLEAN /\ realPresent \in BOOLEAN
          /\ changes \in 0..2
          /\ ~ driverPresent => output = "real" /\ system = "real"
        BY DEF IInv, AudioOK
    <2>2. Notified => changes' \in 0..2
        BY <2>1 DEF Notified
    <2>3. ASSUME NEW device \in Selectors, UserSelects(device) PROVE AudioOK'
        BY <2>1, <2>2, <2>3 DEF UserSelects, AudioOK, Selectors
    <2>4. CASE DriverChanges
        <3>1. changes' \in 0..2
            BY <2>1, <2>2, <2>4 DEF DriverChanges
        <3> QED
            BY <2>1, <2>4, <3>1 DEF DriverChanges, AudioOK, Selectors
    <2>5. CASE RealOutputChanges
        BY <2>1, <2>5 DEF RealOutputChanges, AudioOK, Selectors, queueVars
    <2> QED
        BY <2>3, <2>4, <2>5
<1> QED
    BY <1>2, <1>3, <1>4 DEF IInv

-----------------------------------------------------------------------------
(* The theorems *)

(* The invariant holds of every state, whatever the fairness. *)
THEOREM Invariance == Spec => []IInv
<1>1. Init => IInv
    <2>1. ASSUME Init PROVE IInv
        <3> USE <2>1 DEF Init
        <3>1. HelperTypes
            <4>1. helper \in [Launches -> HelperPhases] /\ stopAsked \in [Launches -> BOOLEAN]
                BY DEF HelperPhases
            <4>2. launches \in 0..MaxLaunches
                OBVIOUS
            <4>3. /\ task \in 0..launches /\ live \in 0..launches /\ slot \in 0..launches
                  /\ watchdogs \subseteq 1..launches /\ (task # NoLaunch => task = live)
                BY DEF NoLaunch
            <4>4. relaunchDue \in BOOLEAN /\ exitDue \in BOOLEAN
                OBVIOUS
            <4> QED
                BY <4>1, <4>2, <4>3, <4>4 DEF HelperTypes
        <3>2. LaunchedInOrder /\ Sighted /\ DueIsTrue
            <4>1. \A g \in Launches : helper[g] = "none"
                OBVIOUS
            <4>2. ~ relaunchDue /\ ~ exitDue
                OBVIOUS
            <4> HIDE <2>1 DEF Init
            <4> QED
                BY <4>1, <4>2 DEF LaunchedInOrder, Sighted, DueIsTrue, Alive
        <3>3. AudioOK
            BY DEF AudioOK, Selectors
        <3>4. AppOK
            <4>1. running \in BOOLEAN /\ enabled \in BOOLEAN /\ alert \in BOOLEAN
                OBVIOUS
            <4>2. appState \in AppStates
                BY DEF AppStates
            <4>3. task = NoLaunch /\ ~ running /\ ~ alert
                OBVIOUS
            <4> HIDE <2>1 DEF Init
            <4> QED
                BY <4>1, <4>2, <4>3 DEF AppOK
        <3> QED
            BY <3>1, <3>2, <3>3, <3>4 DEF IInv, HelpersOK
    <2> QED
        BY <2>1
<1>2. IInv /\ [Next]_vars => IInv'
    <2> SUFFICES ASSUME IInv, [Next]_vars PROVE IInv'
        OBVIOUS
    <2>1. CASE DidFinishLaunching \/ Enable \/ Disable \/ DismissAlert \/ SelectPhysicalOutput
                  \/ Quit
        BY <2>1, DidFinishLaunchingKeeps, EnableKeeps, DisableKeeps, DismissAlertKeeps,
           SelectPhysicalOutputKeeps, QuitKeeps
    <2>2. CASE MainQueue
        BY <2>2, RelaunchKeeps, DefaultDevicesDidChangeKeeps, ConsumeForwarderLineKeeps,
           HelperTerminatedKeeps, StartupTimeoutKeeps DEF MainQueue
    <2>3. CASE \E g \in Launches : HelperStep(g) \/ HelperExits(g)
        BY <2>3, HelperStepKeeps, HelperExitsKeeps
    <2>4. CASE \/ \E device \in {"virtual", "real"} : UserSelects(device)
               \/ DriverChanges \/ RealOutputChanges
        BY <2>4, EnvironmentKeeps DEF Selectors
    <2>5. CASE UNCHANGED vars
        <3>1. UNCHANGED <<appVars, queueVars, audioVars, helperVars>>
            BY <2>5 DEF vars
        <3>2. HelpersOK'
            BY <3>1, QuietKeeps DEF IInv, appVars, queueVars, helperVars
        <3>3. AudioOK'
            BY <3>1, NoRouteKeepsAudio DEF IInv, queueVars
        <3>4. AppOK'
            BY <3>1 DEF IInv, AppOK, AppStates, appVars
        <3> QED
            BY <3>2, <3>3, <3>4 DEF IInv
    <2> QED
        BY <2>1, <2>2, <2>3, <2>4, <2>5 DEF Next
<1> QED
    BY <1>1, <1>2, PTL DEF Spec

(* Every variable of the app, the queue, Core Audio and the helpers keeps  *)
(* its type; the task is always the launch whose blocks are accepted.      *)
THEOREM LifecycleTypes == Spec => []TypeOK
<1>1. IInv => TypeOK
    BY DEF IInv, HelpersOK, HelperTypes, AudioOK, AppOK, TypeOK, Selectors
<1> QED
    BY <1>1, Invariance, PTL

(* No handler, in whatever order the blocks arrive, loses sight of a       *)
(* helper that was not told to stop, and a disabled app has no task left.  *)
THEOREM NoStray == Spec => []NoStrayHelper
<1>1. IInv => NoStrayHelper
    <2> SUFFICES ASSUME IInv PROVE NoStrayHelper
        OBVIOUS
    <2>1. ASSUME NEW g \in Launches, Alive(g), ~ stopAsked[g]
          PROVE  running /\ g = task /\ (enabled \/ alert)
        <3>1. g = task /\ g # NoLaunch
            BY <2>1 DEF IInv, HelpersOK, Sighted, Launches, NoLaunch
        <3> QED
            BY <3>1 DEF IInv, AppOK
    <2>2. ~ enabled /\ ~ alert => task = NoLaunch
        BY DEF IInv, AppOK
    <2> QED
        BY <2>1, <2>2 DEF NoStrayHelper
<1> QED
    BY <1>1, Invariance, PTL

-----------------------------------------------------------------------------
(* As far as Core Audio keeps its word *)

(* Only Quit ends the app. *)
LEMMA QuitEndsIt == ASSUME Next, running, ~ running' PROVE Quit
<1>1. ~ (DidFinishLaunching \/ Enable \/ Disable \/ DismissAlert \/ SelectPhysicalOutput)
    BY DEF DidFinishLaunching, Enable, Disable, DismissAlert, SelectPhysicalOutput
<1>2. ~ MainQueue
    BY DEF MainQueue, Relaunch, DefaultDevicesDidChange, ConsumeForwarderLine,
           HelperTerminated, StartupTimeout
<1>3. ASSUME NEW g \in Launches PROVE ~ HelperStep(g) /\ ~ HelperExits(g)
    BY DEF HelperStep, OthersUnchanged, HelperExits, appVars
<1>4. ASSUME NEW device PROVE ~ UserSelects(device)
    BY DEF UserSelects, appVars
<1>5. ~ DriverChanges /\ ~ RealOutputChanges
    BY DEF DriverChanges, RealOutputChanges, appVars
<1> QED
    BY <1>1, <1>2, <1>3, <1>4, <1>5 DEF Next

(* Quit leaves two real outputs behind, if Core Audio obeys every write of *)
(* a default that it accepts: docs/menu-bar-app.md:57 holds but for that.  *)
THEOREM QuitRestores ==
    ASSUME Kept
    PROVE  Spec => QuitRestoresOutputs
<1>1. ASSUME IInv, Quit, running, ~ running' PROVE {output', system'} = {"real"}
    <2> DEFINE Again(r) == IF r.ok THEN Restore(r.out, r.sys) ELSE {r}
    <2>1. PICK first \in Restore(output, system) :
              /\ first.ok \/ UNCHANGED running
              /\ \E second \in Again(first) : Route(second, FALSE)
        BY <1>1 DEF Quit
    <2>2. first.ok
        BY <1>1, <2>1
    <2>3. PICK second \in Restore(first.out, first.sys) : Route(second, FALSE)
        BY <2>1, <2>2
    <2>4. /\ output \in Selectors /\ system \in Selectors
          /\ ~ driverPresent => output = "real" /\ system = "real"
        BY <1>1 DEF IInv, AudioOK
    <2>5. first.out = "real" /\ first.sys = "real"
        BY <2>2, <2>4, RestoreResult
    <2>6. second.out = "real" /\ second.sys = "real"
        <3>1. first.out \in Selectors /\ first.sys \in Selectors
            BY <2>5 DEF Selectors
        <3>2. second.out \in {first.out, "real"} /\ second.sys \in {first.sys, "real"}
            BY <3>1, RestoreResult
        <3> QED
            BY <2>5, <3>2
    <2>7. output' = second.out /\ system' = second.sys
        BY <2>3 DEF Route
    <2> QED
        BY <2>6, <2>7
<1>2. IInv /\ [Next]_vars => [running /\ ~ running' => {output', system'} = {"real"}]_vars
    BY <1>1, QuitEndsIt
<1> QED
    BY <1>2, Invariance, PTL DEF Spec, QuitRestoresOutputs

-----------------------------------------------------------------------------
(* The helper of an enabled app *)

(* A task runs and was not told to stop, or its termination is due; who    *)
(* was told to stop was launched.                                          *)
TaskIsServed ==
    /\ \A g \in Launches : stopAsked[g] => g <= launches
    /\ task # NoLaunch => exitDue \/ (Alive(task) /\ ~ stopAsked[task])

(* A launch makes a task of a helper that runs and was not told to stop. *)
LEMMA LaunchServes ==
    ASSUME IInv, TaskIsServed, Launched, UNCHANGED stopAsked
    PROVE  TaskIsServed' /\ task' # NoLaunch
<1> DEFINE new == launches + 1
<1>1. /\ launches \in 0..MaxLaunches /\ helper \in [Launches -> HelperPhases]
      /\ stopAsked \in [Launches -> BOOLEAN]
    BY DEF IInv, HelpersOK, HelperTypes
<1>2. /\ launches < MaxLaunches /\ launches' = new /\ task' = new
      /\ helper' = [helper EXCEPT ![new] = "launched"]
    BY DEF Launched
<1>3. new \in Launches /\ new # NoLaunch /\ ~ (new <= launches)
    BY <1>1, <1>2 DEF Launches, NoLaunch
<1>4. helper'[new] = "launched" /\ ~ stopAsked[new]
    BY <1>1, <1>2, <1>3 DEF TaskIsServed
<1>5. ASSUME NEW g \in Launches, stopAsked[g] PROVE g <= new
    BY <1>1, <1>5 DEF TaskIsServed, Launches
<1> QED
    BY <1>2, <1>3, <1>4, <1>5 DEF TaskIsServed, Alive, Launches

(* It does after every stop too: no task is left to be without a helper. *)
LEMMA StopServes ==
    ASSUME IInv, TaskIsServed, AskToStop(task), task' = NoLaunch, UNCHANGED launches
    PROVE  TaskIsServed'
<1>1. /\ launches \in 0..MaxLaunches /\ stopAsked \in [Launches -> BOOLEAN]
      /\ task \in 0..launches
    BY DEF IInv, HelpersOK, HelperTypes
<1>2. ASSUME NEW g \in Launches, stopAsked'[g] PROVE g <= launches
    <2>1. CASE g = task
        BY <1>1, <2>1
    <2>2. CASE g # task
        <3>1. stopAsked[g]
            BY <1>1, <1>2, <2>2 DEF AskToStop
        <3> QED
            BY <3>1 DEF TaskIsServed
    <2> QED
        BY <2>1, <2>2
<1> QED
    BY <1>2 DEF TaskIsServed, Launches

(* And what leaves the helpers alone and, if anything, forgets the task.   *)
LEMMA OthersServe ==
    ASSUME TaskIsServed, UNCHANGED <<launches, helper, stopAsked>>,
           UNCHANGED <<task, exitDue>> \/ task' = NoLaunch
    PROVE  TaskIsServed'
    BY DEF TaskIsServed, Alive, Launches

(* A helper's own steps leave it running, and its end is told to the app.  *)
LEMMA HelpersServe ==
    ASSUME IInv, TaskIsServed, NEW g \in Launches, HelperStep(g) \/ HelperExits(g)
    PROVE  TaskIsServed'
<1>1. /\ UNCHANGED <<task, live, launches, stopAsked, running>>
    BY DEF HelperStep, OthersUnchanged, HelperExits, appVars
<1>2. helper \in [Launches -> HelperPhases] /\ task \in 0..launches /\ launches \in 0..MaxLaunches
    BY DEF IInv, HelpersOK, HelperTypes
<1>3. ASSUME task # NoLaunch PROVE exitDue' \/ (Alive(task)' /\ ~ stopAsked'[task'])
    <2>1. task \in Launches /\ running /\ task = live
        BY <1>2, <1>3 DEF IInv, HelpersOK, HelperTypes, AppOK, Launches, NoLaunch
    <2>2. CASE HelperStep(g)
        <3>1. exitDue' = exitDue
            BY <2>2 DEF HelperStep, OthersUnchanged
        <3>2. PICK phase : helper' = [helper EXCEPT ![g] = phase] /\ phase \notin {"none", "exited"}
            BY <2>2 DEF HelperStep, HelperAdvances, HelperOpens, HelperReady, HelperWaits,
                        HelperSeesRoute, HelperActivates, HelperStops, HelperDeselected,
                        HelperFails, HelperBreaks, Goes
        <3>3. Alive(task) => Alive(task)'
            BY <1>1, <1>2, <2>1, <3>2 DEF Alive
        <3> QED
            BY <1>1, <1>3, <3>1, <3>3 DEF TaskIsServed
    <2>3. CASE HelperExits(g)
        <3>1. /\ helper' = [helper EXCEPT ![g] = "exited"]
              /\ exitDue' = (exitDue \/ (running /\ g = live))
            BY <2>3 DEF HelperExits, Goes
        <3>2. CASE g = live
            BY <2>1, <3>1, <3>2
        <3>3. CASE g # live
            <4>1. Alive(task) => Alive(task)'
                BY <1>1, <1>2, <2>1, <3>1, <3>3 DEF Alive
            <4> QED
                BY <1>1, <1>3, <3>1, <4>1 DEF TaskIsServed
        <3> QED
            BY <3>2, <3>3
    <2> QED
        BY <2>2, <2>3
<1>4. \A h \in Launches : stopAsked'[h] => h <= launches'
    BY <1>1 DEF TaskIsServed
<1> QED
    BY <1>1, <1>3, <1>4 DEF TaskIsServed, Launches

(* A step that leaves the app enabled leaves it its task and what is due,  *)
(* or gives it a task or a relaunch, unless it dismisses the alert.        *)
LeavesAHelper ==
    enabled' /\ running' =>
        \/ UNCHANGED <<running, enabled, task, relaunchDue>>
        \/ task' # NoLaunch \/ relaunchDue'

(* The handlers of the app's commands. *)
LEMMA HandlersServe ==
    ASSUME IInv, TaskIsServed,
           \/ DidFinishLaunching \/ Enable \/ Disable \/ DismissAlert \/ SelectPhysicalOutput
           \/ Quit
    PROVE  TaskIsServed' /\ (LeavesAHelper \/ DismissAlert)
<1>1. CASE DidFinishLaunching
    <2>1. CASE Launched
        <3>1. UNCHANGED stopAsked
            BY <1>1 DEF DidFinishLaunching
        <3> QED
            BY <2>1, <3>1, LaunchServes DEF LeavesAHelper
    <2>2. CASE /\ enabled' = FALSE /\ task' = NoLaunch
               /\ UNCHANGED <<launches, helper, stopAsked>>
        BY <2>2, OthersServe DEF LeavesAHelper
    <2> QED
        BY <1>1, <2>1, <2>2 DEF DidFinishLaunching
<1>2. CASE Enable
    <2>1. CASE Launched /\ UNCHANGED stopAsked
        BY <2>1, LaunchServes DEF LeavesAHelper
    <2>2. CASE StopForwarder /\ UNCHANGED <<enabled, launches>>
        <3>1. enabled' = FALSE
            BY <1>2, <2>2 DEF Enable, IInv, AppOK
        <3> QED
            BY <2>2, <3>1, StopServes DEF StopForwarder, StopWith, LeavesAHelper
    <2> QED
        BY <1>2, <2>1, <2>2 DEF Enable
<1>3. CASE Disable
    <2>1. enabled' = FALSE
        BY <1>3 DEF Disable
    <2>2. CASE StopForwarder
        <3>1. UNCHANGED launches
            BY <1>3 DEF Disable
        <3> QED
            BY <2>1, <2>2, <3>1, StopServes DEF StopForwarder, StopWith, LeavesAHelper
    <2>3. CASE UNCHANGED <<task, exitDue, stopAsked>>
        <3>1. UNCHANGED <<launches, helper>>
            BY <1>3 DEF Disable
        <3> QED
            BY <2>1, <2>3, <3>1, OthersServe DEF LeavesAHelper
    <2> QED
        BY <1>3, <2>2, <2>3 DEF Disable
<1>4. CASE DismissAlert
    <2>1. UNCHANGED <<launches, helper, stopAsked, task, exitDue>>
        BY <1>4 DEF DismissAlert, queueVars, helperVars
    <2> QED
        BY <1>4, <2>1, OthersServe
<1>5. CASE SelectPhysicalOutput
    <2>1. UNCHANGED <<launches, helper, running, enabled>>
        BY <1>5 DEF SelectPhysicalOutput
    <2>2. CASE StopWith(TRUE)
        BY <2>1, <2>2, StopServes DEF StopWith, LeavesAHelper
    <2>3. CASE UNCHANGED <<task, exitDue, stopAsked, relaunchDue>>
        BY <2>1, <2>3, OthersServe DEF LeavesAHelper
    <2> QED
        BY <1>5, <2>2, <2>3 DEF SelectPhysicalOutput
<1>6. CASE Quit
    <2>1. UNCHANGED <<launches, helper, enabled>>
        BY <1>6 DEF Quit
    <2>2. CASE running' = FALSE /\ AskToStop(task) /\ task' = NoLaunch
        BY <2>1, <2>2, StopServes DEF LeavesAHelper
    <2>3. CASE UNCHANGED <<running, stopAsked, task, relaunchDue, exitDue>>
        BY <2>1, <2>3, OthersServe DEF LeavesAHelper
    <2> QED
        BY <1>6, <2>2, <2>3 DEF Quit
<1> QED
    BY <1>1, <1>2, <1>3, <1>4, <1>5, <1>6

(* The blocks of the main queue. *)
LEMMA BlocksServe ==
    ASSUME IInv, TaskIsServed, MainQueue
    PROVE  TaskIsServed' /\ LeavesAHelper
<1>0. ASSUME NEW newState, DisableWith(newState), UNCHANGED launches
      PROVE  TaskIsServed' /\ LeavesAHelper
    <2>1. /\ enabled' = FALSE /\ AskToStop(task) /\ task' = NoLaunch
        BY <1>0 DEF DisableWith, GiveUp, StopForwarder, StopWith
    <2> QED
        BY <1>0, <2>1, StopServes DEF LeavesAHelper
<1>1. CASE Relaunch
    <2>1. running' = running /\ UNCHANGED stopAsked
        BY <1>1 DEF Relaunch
    <2>2. CASE Launched
        BY <2>1, <2>2, LaunchServes DEF LeavesAHelper
    <2>3. CASE enabled' = FALSE /\ UNCHANGED <<task, exitDue, launches, helper>>
        BY <2>1, <2>3, OthersServe DEF LeavesAHelper
    <2> QED
        BY <1>1, <2>2, <2>3 DEF Relaunch, IInv, AppOK
<1>2. CASE DefaultDevicesDidChange
    <2>1. UNCHANGED <<launches, helper, running>>
        BY <1>2 DEF DefaultDevicesDidChange
    <2>2. CASE enabled' = FALSE /\ StopForwarder
        BY <2>1, <2>2, StopServes DEF StopForwarder, StopWith, LeavesAHelper
    <2>3. CASE UNCHANGED <<enabled, task, relaunchDue, exitDue, stopAsked>>
        BY <2>1, <2>3, OthersServe DEF LeavesAHelper
    <2> QED
        BY <1>2, <2>2, <2>3 DEF DefaultDevicesDidChange
<1>3. CASE ConsumeForwarderLine
    <2>1. UNCHANGED <<launches, helper, running>>
        BY <1>3 DEF ConsumeForwarderLine
    <2>2. CASE StopForwarder /\ enabled' = FALSE
        BY <2>1, <2>2, StopServes DEF StopForwarder, StopWith, LeavesAHelper
    <2>3. CASE UNCHANGED <<enabled, task, relaunchDue, exitDue, stopAsked>>
        BY <2>1, <2>3, OthersServe DEF LeavesAHelper
    <2>4. CASE DisableWith("disabled")
        BY <1>0, <2>1, <2>4
    <2> QED
        BY <1>3, <2>2, <2>3, <2>4 DEF ConsumeForwarderLine
<1>4. CASE HelperTerminated
    <2>1. task' = NoLaunch /\ UNCHANGED <<launches, helper, stopAsked, relaunchDue, running>>
        BY <1>4 DEF HelperTerminated, helperVars
    <2>2. enabled' = FALSE
        BY <1>4 DEF HelperTerminated, GiveUp, IInv, AppOK
    <2> QED
        BY <2>1, <2>2, OthersServe DEF LeavesAHelper
<1>5. ASSUME NEW g \in Launches, StartupTimeout(g) PROVE TaskIsServed' /\ LeavesAHelper
    <2>1. UNCHANGED <<launches, helper, running>>
        BY <1>5 DEF StartupTimeout
    <2>2. CASE DisableWith("error")
        BY <1>0, <2>1, <2>2
    <2>3. CASE UNCHANGED <<enabled, task, relaunchDue, exitDue, stopAsked>>
        BY <2>1, <2>3, OthersServe DEF LeavesAHelper
    <2> QED
        BY <1>5, <2>2, <2>3 DEF StartupTimeout
<1> QED
    BY <1>1, <1>2, <1>3, <1>4, <1>5 DEF MainQueue

(* Whatever Core Audio answers and whatever fails, an app that is enabled  *)
(* has its helper, or hears that it ended, or launches another: the helper *)
(* is missing only from the dismissal of a failed Disable's alert on.      *)
THEOREM HelperStaysServed == Spec => EnabledIsServed
<1>1. Init => TaskIsServed
    BY DEF Init, TaskIsServed
<1>2. IInv /\ TaskIsServed /\ [Next]_vars =>
          TaskIsServed' /\ (LeavesAHelper \/ DismissAlert)
    <2> SUFFICES ASSUME IInv, TaskIsServed, [Next]_vars
                 PROVE  TaskIsServed' /\ (LeavesAHelper \/ DismissAlert)
        OBVIOUS
    <2>1. CASE DidFinishLaunching \/ Enable \/ Disable \/ DismissAlert \/ SelectPhysicalOutput
                  \/ Quit
        BY <2>1, HandlersServe
    <2>2. CASE MainQueue
        BY <2>2, BlocksServe
    <2>3. ASSUME NEW g \in Launches, HelperStep(g) \/ HelperExits(g)
          PROVE  TaskIsServed' /\ LeavesAHelper
        <3>1. UNCHANGED <<running, enabled, task, relaunchDue>>
            BY <2>3 DEF HelperStep, OthersUnchanged, HelperExits, appVars
        <3> QED
            BY <2>3, <3>1, HelpersServe DEF LeavesAHelper
    <2>4. CASE \/ \E device \in {"virtual", "real"} : UserSelects(device)
               \/ DriverChanges \/ RealOutputChanges \/ UNCHANGED vars
        <3>1. UNCHANGED <<appVars, exitDue, launches, helper, stopAsked>>
            BY <2>4 DEF UserSelects, DriverChanges, RealOutputChanges, helperVars, queueVars,
                        vars
        <3> QED
            BY <3>1, OthersServe DEF LeavesAHelper, appVars
    <2> QED
        BY <2>1, <2>2, <2>3, <2>4 DEF Next
<1>3. TaskIsServed' /\ (LeavesAHelper \/ DismissAlert) =>
          [Unserved' => Unserved \/ DismissAlert]_vars
    <2> SUFFICES ASSUME TaskIsServed', LeavesAHelper, Unserved'
                 PROVE  Unserved
        OBVIOUS
    <2>1. running' /\ enabled' /\ ~ relaunchDue' /\ task' = NoLaunch
        BY DEF Unserved, Served, TaskIsServed, Launches, NoLaunch
    <2>2. UNCHANGED <<running, enabled, task, relaunchDue>>
        BY <2>1 DEF LeavesAHelper
    <2>3. running /\ enabled /\ ~ relaunchDue /\ task = NoLaunch
        BY <2>1, <2>2
    <2> QED
        BY <2>3 DEF Unserved, Served
<1> QED
    BY <1>1, <1>2, <1>3, Invariance, PTL DEF Spec, EnabledIsServed

=============================================================================
