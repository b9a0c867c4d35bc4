------------------------ MODULE OutputSelection_proofs ------------------------
(***************************************************************************)
(* Proofs about OutputSelection, for any outputs, however the helper and   *)
(* the app rank them, and any number of changes by the user: an app that   *)
(* shows Enabled gives back the output that plays, and system sounds go    *)
(* where they came from.                                                   *)
(***************************************************************************)
EXTENDS OutputSelection, TLAPS, SequenceTheorems, WellFoundedInduction

USE SelectionAssumption

Known == Real \union {NoDevice}
Phases == {"none", "launched", "selected", "ready", "active", "leaving"}

(* Core Audio: the selectors hold what is there.                           *)
RouteOK ==
    /\ present \subseteq Real
    /\ output \in present \union {Virtual} /\ system \in present \union {Virtual}

(* What the app and the helper remember.                                   *)
MemoryOK ==
    /\ choice \in Known /\ runtime \in Known /\ saved \in Known
    /\ lastOutput \in Known /\ lastSystem \in Known /\ replaced \in Known

LaunchOK ==
    /\ explicit \in Known /\ physical \in Known
    /\ phase \in Phases
    /\ lines \in Seq(Real \union Words)

(* While the virtual device has the system sounds, the app remembers the   *)
(* output that it took them from.                                          *)
SystemRemembered == system = Virtual /\ replaced # NoDevice => lastSystem = replaced

(* The live launch names its output first; the app has read the name       *)
(* before it reads that the helper is active.                              *)
PlayedIsKnown ==
    task /\ phase # "none" =>
        /\ \A i \in DOMAIN lines : lines[i] \in Real => i = 1 /\ lines[i] = physical
        /\ phase = "launched" => lines = <<>> /\ ~ forwarding
        /\ phase \in {"selected", "ready", "active"} =>
              runtime = physical \/ (lines # <<>> /\ lines[1] \in Real)
        /\ lines # <<>> /\ lines[1] \in Real => ~ forwarding

IInv ==
    RouteOK /\ MemoryOK /\ LaunchOK /\ SystemRemembered /\ PlayedIsKnown /\ budget \in Nat

-----------------------------------------------------------------------------
(* The first of a sequence *)

(* The numbers are well-founded: stated with a relation, not an operator.  *)
LEMMA SomeOrder == \E R : IsWellFoundedOn(R, Nat) /\ \A x, y \in Nat : y < x => <<y, x>> \in R
<1>1. IsWellFoundedOn(OpToRel(<, Nat), Nat)
    BY NatLessThanWellFounded
<1>2. \A x, y \in Nat : y < x => <<y, x>> \in OpToRel(<, Nat)
    BY DEF OpToRel
<1> WITNESS OpToRel(<, Nat)
<1> QED
    BY <1>1, <1>2

(* A set of numbers has a least one. *)
LEMMA LeastNumber ==
    ASSUME NEW T, T \subseteq Nat, T # {}
    PROVE  \E x \in T : \A y \in T : x <= y
<1>1. PICK R : IsWellFoundedOn(R, Nat) /\ \A x, y \in Nat : y < x => <<y, x>> \in R
    BY SomeOrder
<1>2. PICK x \in T : \A y \in T : ~ (<<y, x>> \in R)
    BY <1>1, WFMin
<1>3. \A y \in T : ~ (y < x)
    BY <1>1, <1>2
<1> QED
    BY <1>3

(* What FirstPresent finds is there, or it finds nothing. *)
LEMMA FirstIsPresent ==
    ASSUME NEW S, NEW s \in Seq(S)
    PROVE  FirstPresent(s) \in present \union {NoDevice}
<1> DEFINE usable == {i \in DOMAIN s : IsPhysicalOutput(s[i])}
           first == CHOOSE i \in usable : \A j \in usable : i <= j
<1>1. CASE usable = {}
    BY <1>1 DEF FirstPresent
<1>2. CASE usable # {}
    <2>1. usable \subseteq Nat
        OBVIOUS
    <2>2. \E i \in usable : \A j \in usable : i <= j
        <3> HIDE DEF usable
        <3> QED
            BY <1>2, <2>1, LeastNumber
    <2>3. first \in usable
        <3> HIDE DEF usable
        <3> QED
            BY <2>2
    <2>4. s[first] \in present
        <3> HIDE DEF first
        <3> QED
            BY <2>3 DEF IsPhysicalOutput
    <2>5. FirstPresent(s) = s[first]
        BY <1>2 DEF FirstPresent
    <2> QED
        BY <2>4, <2>5
<1> QED
    BY <1>1, <1>2

(* If one is there, and none before it, it is what FirstPresent finds. *)
LEMMA FirstFound ==
    ASSUME NEW S, NEW s \in Seq(S), NEW k \in DOMAIN s, s[k] \in present,
           \A j \in DOMAIN s : j < k => s[j] \notin present
    PROVE  FirstPresent(s) = s[k]
<1> DEFINE usable == {i \in DOMAIN s : IsPhysicalOutput(s[i])}
           first == CHOOSE i \in usable : \A j \in usable : i <= j
<1>1. k \in usable /\ usable \subseteq Nat
    BY DEF IsPhysicalOutput
<1>2. \A j \in usable : ~ (j < k)
    BY DEF IsPhysicalOutput
<1>3. first = k
    <2> HIDE DEF usable
    <2>1. \A j \in usable : k <= j
        BY <1>1, <1>2
    <2>2. first \in usable /\ \A j \in usable : first <= j
        BY <1>1, <2>1
    <2> HIDE DEF first
    <2>3. first <= k /\ k <= first
        BY <1>1, <2>1, <2>2
    <2> QED
        BY <1>1, <2>2, <2>3
<1>4. FirstPresent(s) = s[first]
    BY <1>1 DEF FirstPresent
<1> QED
    BY <1>3, <1>4

-----------------------------------------------------------------------------
(* What is restored *)

(* The candidates of the app are sequences of what it knows. *)
LEMMA Candidates ==
    ASSUME NEW a \in Known, NEW b \in Known, NEW c \in Known, NEW d \in Known
    PROVE  /\ <<a, b, c, d>> \o ByName \in Seq(Known)
           /\ <<a, b>> \o ByName \in Seq(Known)
<1>1. ByName \in Seq(Known)
    <2>1. ByName \in Seq(Real)
        OBVIOUS
    <2> QED
        BY <2>1 DEF Known
<1>2. <<a, b, c, d>> \in Seq(Known) /\ <<a, b>> \in Seq(Known)
    OBVIOUS
<1> QED
    BY <1>1, <1>2

(* The app's choice is there, or nothing is; it is the output that plays   *)
(* unless the menu has asked for another.                                  *)
LEMMA OutputUIDResult ==
    ASSUME RouteOK, MemoryOK, physical \in Known, NEW chosen \in Known, NEW last \in Known
    PROVE  /\ OutputUID(chosen, last) \in present \union {NoDevice}
           /\ physical \in present /\ runtime = physical /\ chosen \in {NoDevice, physical} =>
                 OutputUID(chosen, last) = physical
<1> DEFINE s == <<chosen, runtime, last, saved>> \o ByName
<1>1. s \in Seq(Known)
    BY Candidates DEF MemoryOK
<1>2. OutputUID(chosen, last) = FirstPresent(s)
    BY DEF OutputUID, FirstUsableUID
<1>3. ASSUME physical \in present, runtime = physical, chosen \in {NoDevice, physical}
      PROVE  FirstPresent(s) = physical
    <2>1. /\ 1 \in DOMAIN s /\ 2 \in DOMAIN s /\ s[1] = chosen /\ s[2] = physical
          /\ DOMAIN s \subseteq Nat \ {0}
        <3>1. ByName \in Seq(Real)
            OBVIOUS
        <3> QED
            BY <1>3, <3>1
    <2>2. NoDevice \notin present
        BY DEF RouteOK
    <2> HIDE DEF s
    <2>3. CASE chosen = physical
        <3>1. \A j \in DOMAIN s : ~ (j < 1)
            BY <2>1
        <3> QED
            BY <1>1, <1>3, <2>1, <2>3, <3>1, FirstFound
    <2>4. CASE chosen = NoDevice
        <3>1. \A j \in DOMAIN s : j < 2 => s[j] \notin present
            BY <2>1, <2>2, <2>4
        <3> QED
            BY <1>1, <1>3, <2>1, <3>1, FirstFound
    <2> QED
        BY <1>3, <2>3, <2>4
<1>4. FirstPresent(s) \in present \union {NoDevice}
    BY <1>1, FirstIsPresent
<1> HIDE DEF s
<1> QED
    BY <1>2, <1>3, <1>4

(* System sounds go where they came from, if that is still there. *)
LEMMA SystemUIDResult ==
    ASSUME RouteOK, MemoryOK, NEW uid \in Known
    PROVE  /\ FirstUsableUID(<<lastSystem, uid>>) \in present \union {NoDevice}
           /\ lastSystem \in present => FirstUsableUID(<<lastSystem, uid>>) = lastSystem
<1> DEFINE s == <<lastSystem, uid>> \o ByName
<1>1. s \in Seq(Known)
    BY Candidates DEF MemoryOK
<1>2. FirstUsableUID(<<lastSystem, uid>>) = FirstPresent(s)
    BY DEF FirstUsableUID
<1>3. 1 \in DOMAIN s /\ s[1] = lastSystem /\ DOMAIN s \subseteq Nat \ {0}
    <2>1. ByName \in Seq(Real)
        OBVIOUS
    <2> QED
        BY <2>1
<1>4. FirstPresent(s) \in present \union {NoDevice}
    BY <1>1, FirstIsPresent
<1> HIDE DEF s
<1>5. \A j \in DOMAIN s : ~ (j < 1)
    BY <1>3
<1>6. lastSystem \in present => FirstPresent(s) = lastSystem
    BY <1>1, <1>3, <1>5, FirstFound
<1> QED
    BY <1>2, <1>4, <1>6

(* What a handler that restores leaves in the selectors: only a virtual    *)
(* one changes, to what is there.                                          *)
LEMMA RestoredResult ==
    ASSUME RouteOK, MemoryOK, physical \in Known, NEW chosen \in Known, NEW last \in Known,
           NEW r, r = Restored(chosen, last)
    PROVE  /\ output # Virtual => r.output = output
           /\ output = Virtual => r.output \in present \union {Virtual}
           /\ system # Virtual => r.system = system
           /\ system = Virtual => r.system \in present \union {Virtual}
           /\ output = Virtual /\ r.output # Virtual /\ physical \in present
                 /\ runtime = physical /\ chosen \in {NoDevice, physical} =>
                 r.output = physical
           /\ system = Virtual /\ r.system # Virtual /\ lastSystem \in present =>
                 r.system = lastSystem
<1> DEFINE uid == OutputUID(chosen, last)
           sounds == FirstUsableUID(<<lastSystem, uid>>)
           first == IF output = Virtual THEN uid ELSE output
           second == IF system = Virtual THEN sounds ELSE system
<1>1. /\ uid \in present \union {NoDevice}
      /\ physical \in present /\ runtime = physical /\ chosen \in {NoDevice, physical} =>
            uid = physical
    BY OutputUIDResult
<1>2. uid \in Known
    BY <1>1 DEF RouteOK, Known
<1> HIDE DEF uid
<1>3. /\ sounds \in present \union {NoDevice}
      /\ lastSystem \in present => sounds = lastSystem
    BY <1>2, SystemUIDResult
<1>4. \/ /\ NoDevice \notin {first, second}
         /\ r = [ok |-> TRUE, output |-> first, system |-> second]
      \/ r = [ok |-> FALSE, output |-> output, system |-> system]
    BY DEF Restored, uid
<1> HIDE DEF sounds
<1>5. \/ /\ NoDevice \notin {first, second}
         /\ r.output = first /\ r.system = second
      \/ r.output = output /\ r.system = system
    BY <1>4
<1> QED
    BY <1>1, <1>3, <1>5 DEF RouteOK

-----------------------------------------------------------------------------
(* What pieces of handlers do *)

(* The selectors hold what is there after a restoration; system sounds are *)
(* virtual only if they were.                                              *)
LEMMA RestoredKeepsRoute ==
    ASSUME RouteOK, MemoryOK, physical \in Known, NEW chosen \in Known, NEW last \in Known,
           NEW r, r = Restored(chosen, last), output' = r.output, system' = r.system,
           UNCHANGED present
    PROVE  RouteOK' /\ (system' = Virtual => system = Virtual)
<1>1. /\ output # Virtual => r.output = output
      /\ output = Virtual => r.output \in present \union {Virtual}
      /\ system # Virtual => r.system = system
      /\ system = Virtual => r.system \in present \union {Virtual}
    BY RestoredResult
<1> QED
    BY <1>1 DEF RouteOK

(* Capturing what is selected remembers an output. *)
LEMMA CapturedIsKnown ==
    ASSUME RouteOK, NEW device, NEW last \in Known
    PROVE  Captured(device, last) \in Known
    BY DEF Captured, IsPhysicalOutput, RouteOK, Known

(* What the system sounds came from is remembered while they are virtual,  *)
(* also by a handler that looks at the selectors again.                    *)
LEMMA SystemKeeps ==
    ASSUME RouteOK, SystemRemembered, system' = Virtual => system = Virtual,
           lastSystem' \in {lastSystem, Captured(system, lastSystem)}, UNCHANGED replaced
    PROVE  SystemRemembered'
    BY DEF SystemRemembered, Captured, IsPhysicalOutput, RouteOK

(* A launch starts from nothing. *)
LEMMA LaunchKeeps ==
    ASSUME LaunchOK, MemoryOK, Launch
    PROVE  LaunchOK' /\ PlayedIsKnown'
<1>1. LaunchOK'
    BY DEF LaunchOK, MemoryOK, Launch, Known, Phases, Words
<1>2. PlayedIsKnown'
    BY DEF PlayedIsKnown, Launch
<1> QED
    BY <1>1, <1>2

(* A stop leaves no live launch. *)
LEMMA StopKeeps ==
    ASSUME LaunchOK, NEW relaunchToo, Stop(relaunchToo)
    PROVE  LaunchOK' /\ PlayedIsKnown'
<1>1. LaunchOK'
    BY DEF LaunchOK, Stop, Known, Phases, Words
<1>2. PlayedIsKnown'
    BY DEF PlayedIsKnown, Stop
<1> QED
    BY <1>1, <1>2

(* What leaves the launch and its lines alone. *)
LEMMA QuietKeeps ==
    ASSUME LaunchOK, PlayedIsKnown,
           UNCHANGED <<lines, phase, explicit, physical, task, forwarding, runtime>>
    PROVE  LaunchOK' /\ PlayedIsKnown'
<1>1. LaunchOK'
    BY DEF LaunchOK, Known, Phases, Words
<1>2. PlayedIsKnown'
    BY DEF PlayedIsKnown
<1> QED
    BY <1>1, <1>2

(* What leaves the selectors and the memories alone. *)
LEMMA RouteQuiet ==
    ASSUME RouteOK, SystemRemembered, UNCHANGED <<routeVars, lastVars, replaced>>
    PROVE  RouteOK' /\ SystemRemembered'
    BY DEF RouteOK, SystemRemembered, routeVars, lastVars

(* The end of a launch. *)
LEMMA GiveUpKeeps ==
    ASSUME IInv, GiveUp(lastOutput), runtime' \in {runtime, NoDevice},
           UNCHANGED <<choice, lastVars, saved, budget, replaced>>
    PROVE  IInv'
<1>1. RouteOK /\ MemoryOK /\ LaunchOK /\ SystemRemembered /\ physical \in Known
    BY DEF IInv, LaunchOK
<1>2. choice \in Known /\ lastOutput \in Known
    BY <1>1 DEF MemoryOK
<1>3. RouteOK' /\ (system' = Virtual => system = Virtual)
    BY <1>1, <1>2, RestoredKeepsRoute DEF GiveUp, Route
<1>4. LaunchOK' /\ PlayedIsKnown'
    BY <1>1, StopKeeps DEF GiveUp
<1>5. MemoryOK'
    BY <1>1 DEF MemoryOK, Known, lastVars
<1>6. SystemRemembered'
    BY <1>1, <1>3, SystemKeeps DEF lastVars
<1> QED
    BY <1>3, <1>4, <1>5, <1>6 DEF IInv

-----------------------------------------------------------------------------
(* The steps *)

(* The app's handlers other than those of the main queue. *)
LEMMA AppKeeps ==
    ASSUME IInv, DidFinishLaunching \/ Enable \/ Disable \/ Quit
    PROVE  IInv'
<1>1. RouteOK /\ MemoryOK /\ LaunchOK /\ SystemRemembered /\ PlayedIsKnown
    BY DEF IInv
<1>2. CASE DidFinishLaunching
    <2>1. LaunchOK' /\ PlayedIsKnown'
        BY <1>1, <1>2, LaunchKeeps DEF DidFinishLaunching
    <2>2. /\ UNCHANGED <<output, system, present>>
          /\ lastOutput' = Captured(output, lastOutput)
          /\ lastSystem' = Captured(system, lastSystem)
          /\ UNCHANGED <<choice, runtime, saved, budget, replaced>>
        BY <1>2 DEF DidFinishLaunching, Capture, routeVars
    <2>3. RouteOK' /\ MemoryOK'
        BY <1>1, <2>2, CapturedIsKnown DEF RouteOK, MemoryOK, Known
    <2>4. SystemRemembered'
        BY <1>1, <2>2, SystemKeeps
    <2> QED
        BY <2>1, <2>2, <2>3, <2>4 DEF IInv
<1>3. CASE Enable
    <2>1. LaunchOK' /\ PlayedIsKnown'
        BY <1>1, <1>3, LaunchKeeps DEF Enable
    <2>2. RouteOK' /\ SystemRemembered'
        BY <1>1, <1>3, RouteQuiet DEF Enable
    <2>3. MemoryOK' /\ UNCHANGED budget
        BY <1>1, <1>3 DEF MemoryOK, Enable, lastVars, Known
    <2> QED
        BY <2>1, <2>2, <2>3 DEF IInv
<1>4. CASE Disable
    BY <1>4, GiveUpKeeps DEF Disable
<1>5. CASE Quit
    BY <1>5, GiveUpKeeps DEF Quit
<1> QED
    BY <1>2, <1>3, <1>4, <1>5

(* A choice in the menu. *)
LEMMA ChooseOutputKeeps ==
    ASSUME IInv, NEW device \in present \union {NoDevice}, ChooseOutput(device)
    PROVE  IInv'
<1>1. /\ RouteOK /\ MemoryOK /\ LaunchOK /\ SystemRemembered /\ PlayedIsKnown
      /\ physical \in Known /\ device \in Known /\ lastOutput \in Known
    BY DEF IInv, LaunchOK, MemoryOK, RouteOK, Known
<1>2. /\ budget > 0 /\ budget' = budget - 1 /\ choice' = device
      /\ UNCHANGED <<runtime, lastOutput, lastSystem, saved, replaced>>
    BY DEF ChooseOutput, lastVars
<1>3. MemoryOK' /\ budget' \in Nat
    <2>1. budget \in Nat
        BY DEF IInv
    <2> QED
        BY <1>1, <1>2, <2>1 DEF MemoryOK, Known
<1>4. \/ /\ Route(Restored(device, lastOutput).output, Restored(device, lastOutput).system)
         /\ Stop(TRUE)
      \/ UNCHANGED <<routeVars, forwarding, task, relaunchDue, queueVars, helperVars>>
    BY DEF ChooseOutput
<1>5. CASE /\ Route(Restored(device, lastOutput).output, Restored(device, lastOutput).system)
           /\ Stop(TRUE)
    <2>1. RouteOK' /\ (system' = Virtual => system = Virtual)
        BY <1>1, <1>5, RestoredKeepsRoute DEF Route
    <2>2. LaunchOK' /\ PlayedIsKnown'
        BY <1>1, <1>5, StopKeeps
    <2>3. SystemRemembered'
        BY <1>1, <1>2, <2>1, SystemKeeps
    <2> QED
        BY <1>3, <2>1, <2>2, <2>3 DEF IInv
<1>6. CASE UNCHANGED <<routeVars, forwarding, task, relaunchDue, queueVars, helperVars>>
    <2>1. LaunchOK' /\ PlayedIsKnown'
        BY <1>1, <1>2, <1>6, QuietKeeps DEF queueVars, helperVars
    <2>2. RouteOK' /\ SystemRemembered'
        BY <1>1, <1>2, <1>6, RouteQuiet DEF lastVars
    <2> QED
        BY <1>3, <2>1, <2>2 DEF IInv
<1> QED
    BY <1>4, <1>5, <1>6

(* The app reads a line: the name of the output is the first of its launch *)
(* and none follows.                                                       *)
LEMMA TailKeeps ==
    ASSUME LaunchOK, PlayedIsKnown, lines # <<>>, lines' = Tail(lines),
           UNCHANGED <<phase, explicit, physical, task>>,
           \/ Head(lines) \in Real /\ runtime' = Head(lines) /\ UNCHANGED forwarding
           \/ Head(lines) \notin Real /\ UNCHANGED runtime
    PROVE  LaunchOK' /\ PlayedIsKnown'
<1>1. /\ lines \in Seq(Real \union Words) /\ 1 \in DOMAIN lines /\ Head(lines) = lines[1]
      /\ Tail(lines) \in Seq(Real \union Words)
      /\ \A i \in DOMAIN Tail(lines) :
            /\ Tail(lines)[i] = lines[i + 1] /\ i + 1 \in DOMAIN lines /\ i + 1 # 1
      /\ Tail(lines) # <<>> => 1 \in DOMAIN Tail(lines)
    <2>1. lines \in Seq(Real \union Words)
        BY DEF LaunchOK
    <2> DEFINE T == Real \union Words
    <2> HIDE DEF T
    <2>2. lines \in Seq(T)
        BY <2>1 DEF T
    <2>3. /\ 1 \in DOMAIN lines /\ Head(lines) = lines[1] /\ Tail(lines) \in Seq(T)
          /\ \A i \in DOMAIN Tail(lines) :
                Tail(lines)[i] = lines[i + 1] /\ i + 1 \in DOMAIN lines /\ i + 1 # 1
          /\ Tail(lines) # <<>> => 1 \in DOMAIN Tail(lines)
        <3>1. /\ Len(lines) \in Nat \ {0} /\ DOMAIN lines = 1..Len(lines)
              /\ Head(lines) = lines[1] /\ Tail(lines) \in Seq(T)
            BY <2>2
        <3>2. /\ Len(Tail(lines)) = Len(lines) - 1
              /\ DOMAIN Tail(lines) = 1..(Len(lines) - 1)
              /\ \A i \in 1..(Len(lines) - 1) : Tail(lines)[i] = lines[i + 1]
            BY <2>2
        <3>3. Tail(lines) # <<>> => Len(Tail(lines)) # 0
            BY <3>1, EmptySeq
        <3> QED
            BY <3>1, <3>2, <3>3
    <2> QED
        BY <2>1, <2>3 DEF T
<1>2. LaunchOK'
    BY <1>1 DEF LaunchOK, Known, Phases, Words
<1>3. ASSUME task', phase' # "none"
      PROVE  /\ \A i \in DOMAIN lines' : lines'[i] \notin Real
             /\ phase # "launched"
             /\ phase \in {"selected", "ready", "active"} => runtime' = physical
    <2>1. /\ \A i \in DOMAIN lines : lines[i] \in Real => i = 1 /\ lines[i] = physical
          /\ phase = "launched" => lines = <<>>
          /\ phase \in {"selected", "ready", "active"} =>
                runtime = physical \/ lines[1] \in Real
        BY <1>3 DEF PlayedIsKnown
    <2>2. \A i \in DOMAIN lines' : lines'[i] \notin Real
        BY <1>1, <2>1
    <2>3. phase \in {"selected", "ready", "active"} => runtime' = physical
        BY <1>1, <2>1
    <2> QED
        BY <2>1, <2>2, <2>3
<1>4. lines' # <<>> => 1 \in DOMAIN lines'
    BY <1>1
<1>5. PlayedIsKnown'
    BY <1>3, <1>4 DEF PlayedIsKnown
<1> QED
    BY <1>2, <1>5

(* The lines of the helper. *)
LEMMA ConsumeKeeps ==
    ASSUME IInv, ConsumeOutput \/ ConsumeReady \/ ConsumeActive \/ ConsumeDeselected
    PROVE  IInv'
<1>1. RouteOK /\ MemoryOK /\ LaunchOK /\ SystemRemembered /\ PlayedIsKnown
    BY DEF IInv
<1>2. CASE ConsumeOutput
    <2>1. /\ lines # <<>> /\ lines' = Tail(lines) /\ Head(lines) \in Real
          /\ runtime' = Head(lines)
          /\ UNCHANGED <<phase, explicit, physical, task, forwarding>>
          /\ UNCHANGED <<choice, saved, lastOutput, lastSystem, replaced, budget>>
        BY <1>2 DEF ConsumeOutput, appVars, helperVars, lastVars
    <2>2. LaunchOK' /\ PlayedIsKnown'
        BY <1>1, <2>1, TailKeeps
    <2>3. RouteOK' /\ SystemRemembered'
        BY <1>1, <1>2, RouteQuiet DEF ConsumeOutput
    <2>4. MemoryOK'
        BY <1>1, <2>1 DEF MemoryOK, Known
    <2> QED
        BY <2>1, <2>2, <2>3, <2>4 DEF IInv
<1>3. CASE ConsumeReady
    <2>1. /\ lines # <<>> /\ lines' = Tail(lines) /\ Head(lines) = "ready"
          /\ UNCHANGED <<phase, explicit, physical, task, forwarding, runtime>>
          /\ UNCHANGED <<choice, saved, budget>>
        BY <1>3 DEF ConsumeReady, appVars, helperVars
    <2>2. LaunchOK' /\ PlayedIsKnown'
        <3>1. Head(lines) \notin Real
            BY <2>1 DEF Words
        <3> QED
            BY <1>1, <2>1, <3>1, TailKeeps
    <2>3. CASE enabled
        <3>1. /\ lastOutput' = Captured(output, lastOutput)
              /\ lastSystem' = Captured(system, lastSystem)
              /\ output' = Virtual /\ system' = Virtual /\ UNCHANGED present
              /\ replaced' = IF IsPhysicalOutput(system) THEN system ELSE replaced
            BY <1>3, <2>3 DEF ConsumeReady, Capture, Route
        <3>2. RouteOK'
            BY <1>1, <3>1 DEF RouteOK
        <3>3. lastOutput' \in Known /\ lastSystem' \in Known
            BY <1>1, <3>1, CapturedIsKnown DEF MemoryOK
        <3>4. MemoryOK'
            BY <1>1, <2>1, <3>1, <3>3 DEF MemoryOK, Known, RouteOK, IsPhysicalOutput
        <3>5. SystemRemembered'
            BY <1>1, <3>1 DEF SystemRemembered, Captured, IsPhysicalOutput, RouteOK
        <3> QED
            BY <2>1, <2>2, <3>2, <3>4, <3>5 DEF IInv
    <2>4. CASE ~ enabled
        <3>1. UNCHANGED <<routeVars, lastVars, replaced>>
            BY <1>3, <2>4 DEF ConsumeReady
        <3>2. RouteOK' /\ SystemRemembered'
            BY <1>1, <3>1, RouteQuiet
        <3>3. MemoryOK'
            BY <1>1, <2>1, <3>1 DEF MemoryOK, Known, lastVars
        <3> QED
            BY <2>1, <2>2, <3>2, <3>3 DEF IInv
    <2> QED
        BY <2>3, <2>4
<1>4. CASE ConsumeActive
    <2>1. /\ lines # <<>> /\ lines' = Tail(lines) /\ Head(lines) = "active"
          /\ UNCHANGED <<phase, explicit, physical, task, runtime>>
          /\ UNCHANGED <<choice, saved, lastOutput, lastSystem, replaced, budget>>
        BY <1>4 DEF ConsumeActive, helperVars, lastVars
    <2>2. LaunchOK' /\ PlayedIsKnown'
        <3>1. Head(lines) \notin Real
            BY <2>1 DEF Words
        <3> QED
            BY <1>1, <2>1, <3>1, TailKeeps
    <2>3. RouteOK' /\ SystemRemembered'
        BY <1>1, <1>4, RouteQuiet DEF ConsumeActive
    <2>4. MemoryOK'
        BY <1>1, <2>1 DEF MemoryOK, Known
    <2> QED
        BY <2>1, <2>2, <2>3, <2>4 DEF IInv
<1>5. CASE ConsumeDeselected
    BY <1>5, GiveUpKeeps DEF ConsumeDeselected
<1> QED
    BY <1>2, <1>3, <1>4, <1>5

(* The other blocks of the main queue. *)
LEMMA BlocksKeep ==
    ASSUME IInv, Relaunch \/ HelperTerminated \/ StartupTimeout \/ DefaultDevicesDidChange
    PROVE  IInv'
<1>1. /\ RouteOK /\ MemoryOK /\ LaunchOK /\ SystemRemembered /\ PlayedIsKnown
      /\ physical \in Known /\ choice \in Known /\ lastOutput \in Known
    BY DEF IInv, LaunchOK, MemoryOK
<1>2. CASE Relaunch
    <2>1. LaunchOK' /\ PlayedIsKnown'
        BY <1>1, <1>2, LaunchKeeps DEF Relaunch
    <2>2. RouteOK' /\ SystemRemembered'
        BY <1>1, <1>2, RouteQuiet DEF Relaunch
    <2>3. MemoryOK' /\ UNCHANGED budget
        BY <1>1, <1>2 DEF MemoryOK, Relaunch, lastVars, Known
    <2> QED
        BY <2>1, <2>2, <2>3 DEF IInv
<1>3. CASE HelperTerminated
    <2>1. /\ task' = FALSE
          /\ UNCHANGED <<choice, runtime, saved, lastOutput, lastSystem, replaced, budget>>
          /\ UNCHANGED <<phase, explicit, physical>>
          /\ Route(Restored(choice, lastOutput).output, Restored(choice, lastOutput).system)
        BY <1>3 DEF HelperTerminated, helperVars, lastVars
    <2>2. lines' \in Seq(Real \union Words)
        <3>1. lines \in Seq(Real \union Words)
            BY <1>1 DEF LaunchOK
        <3>2. PICK n \in 0..Len(lines) : lines' = SubSeq(lines, 1, n)
            BY <1>3 DEF HelperTerminated
        <3> DEFINE T == Real \union Words
        <3> HIDE DEF T
        <3>3. lines \in Seq(T)
            BY <3>1 DEF T
        <3>4. SubSeq(lines, 1, n) \in Seq(T)
            BY <3>2, <3>3
        <3> QED
            BY <3>2, <3>4 DEF T
    <2>3. LaunchOK' /\ PlayedIsKnown'
        BY <1>1, <2>1, <2>2 DEF LaunchOK, PlayedIsKnown, Known, Phases, Words
    <2>4. RouteOK' /\ (system' = Virtual => system = Virtual)
        BY <1>1, <2>1, RestoredKeepsRoute DEF Route
    <2>5. MemoryOK'
        BY <1>1, <2>1 DEF MemoryOK, Known
    <2>6. SystemRemembered'
        BY <1>1, <2>1, <2>4, SystemKeeps
    <2> QED
        BY <2>1, <2>3, <2>4, <2>5, <2>6 DEF IInv
<1>4. CASE StartupTimeout
    BY <1>4, GiveUpKeeps DEF StartupTimeout
<1>5. CASE DefaultDevicesDidChange
    <2> DEFINE last == Captured(output, lastOutput)
               result == Restored(choice, last)
    <2>1. /\ lastOutput' = last
          /\ lastSystem' = Captured(system, lastSystem)
          /\ UNCHANGED <<choice, runtime, saved, budget, replaced>>
        BY <1>5 DEF DefaultDevicesDidChange, Capture
    <2>2. last \in Known /\ lastSystem' \in Known
        BY <1>1, <2>1, CapturedIsKnown DEF MemoryOK
    <2>3. MemoryOK'
        BY <1>1, <2>1, <2>2 DEF MemoryOK, Known
    <2>4. CASE enabled /\ forwarding /\ output # Virtual
        <3>1. /\ output' = result.output /\ system' = result.system /\ UNCHANGED present
              /\ Stop(FALSE)
            BY <1>5, <2>4 DEF DefaultDevicesDidChange
        <3>2. RouteOK' /\ (system' = Virtual => system = Virtual)
            <4> HIDE DEF last
            <4> QED
                BY <1>1, <2>2, <3>1, RestoredKeepsRoute
        <3>3. LaunchOK' /\ PlayedIsKnown'
            BY <1>1, <3>1, StopKeeps
        <3>4. SystemRemembered'
            BY <1>1, <2>1, <3>2, SystemKeeps
        <3> QED
            BY <2>1, <2>3, <3>2, <3>3, <3>4 DEF IInv
    <2>5. CASE ~ (enabled /\ forwarding /\ output # Virtual)
        <3>1. /\ UNCHANGED <<output, system, present>>
              /\ UNCHANGED <<lines, phase, explicit, physical, task, forwarding>>
            BY <1>5, <2>5 DEF DefaultDevicesDidChange, routeVars, helperVars
        <3>2. RouteOK'
            BY <1>1, <3>1 DEF RouteOK
        <3>3. LaunchOK' /\ PlayedIsKnown'
            BY <1>1, <2>1, <3>1, QuietKeeps
        <3>4. SystemRemembered'
            BY <1>1, <2>1, <3>1, SystemKeeps
        <3> QED
            BY <2>1, <2>3, <3>2, <3>3, <3>4 DEF IInv
    <2> QED
        BY <2>4, <2>5
<1> QED
    BY <1>2, <1>3, <1>4, <1>5

(* The helper chooses what is there, or nothing. *)
LEMMA SelectedResult ==
    ASSUME RouteOK, MemoryOK, LaunchOK
    PROVE  SelectPhysicalOutput \in present \union {NoDevice}
<1> DEFINE Devices == Known \union {Virtual}
<1>1. ByPriority \in Seq(Real) /\ explicit \in Known
    BY DEF LaunchOK
<1>2. BestAvailablePhysicalOutput \in present \union {NoDevice}
    BY <1>1, FirstIsPresent DEF BestAvailablePhysicalOutput
<1>3. /\ <<output, saved, BestAvailablePhysicalOutput>> \in Seq(Devices)
      /\ <<explicit>> \in Seq(Devices)
    <2>1. output \in Devices /\ saved \in Devices /\ explicit \in Devices
        BY <1>1 DEF RouteOK, MemoryOK, Known
    <2>2. BestAvailablePhysicalOutput \in Devices
        BY <1>2 DEF RouteOK, Known
    <2> HIDE DEF Devices
    <2> QED
        BY <2>1, <2>2
<1> HIDE DEF Devices
<1>4. /\ FirstPresent(<<output, saved, BestAvailablePhysicalOutput>>) \in
              present \union {NoDevice}
      /\ FirstPresent(<<explicit>>) \in present \union {NoDevice}
    BY <1>3, FirstIsPresent
<1> QED
    BY <1>4 DEF SelectPhysicalOutput

(* A printed line comes after those that were printed before.              *)
LEMMA PrintsResult ==
    ASSUME LaunchOK, NEW line \in Real \union Words, Prints(line)
    PROVE  /\ lines' \in Seq(Real \union Words)
           /\ ~ task => lines' = lines
           /\ task => /\ DOMAIN lines' = 1..(Len(lines) + 1)
                      /\ \A i \in DOMAIN lines : lines'[i] = lines[i] /\ i \in DOMAIN lines'
                      /\ lines'[Len(lines) + 1] = line
                      /\ DOMAIN lines = 1..Len(lines) /\ Len(lines) \in Nat
                      /\ lines # <<>> => 1 \in DOMAIN lines
<1> DEFINE T == Real \union Words
<1>1. lines \in Seq(T) /\ line \in T
    BY DEF LaunchOK
<1> HIDE DEF T
<1>2. /\ DOMAIN lines = 1..Len(lines) /\ Len(lines) \in Nat
      /\ Append(lines, line) \in Seq(T)
      /\ DOMAIN Append(lines, line) = 1..(Len(lines) + 1)
      /\ \A i \in 1..Len(lines) : Append(lines, line)[i] = lines[i]
      /\ Append(lines, line)[Len(lines) + 1] = line
    BY <1>1
<1>3. lines # <<>> => 1 \in DOMAIN lines
    BY <1>1, <1>2, EmptySeq
<1>4. (task => lines' = Append(lines, line)) /\ (~ task => lines' = lines)
    BY DEF Prints
<1>5. lines' \in Seq(Real \union Words)
    BY <1>1, <1>2, <1>4 DEF T
<1>6. ASSUME task
      PROVE  /\ DOMAIN lines' = 1..(Len(lines) + 1)
             /\ \A i \in DOMAIN lines : lines'[i] = lines[i] /\ i \in DOMAIN lines'
             /\ lines'[Len(lines) + 1] = line
    <2>1. lines' = Append(lines, line)
        BY <1>4, <1>6
    <2>2. \A i \in 1..Len(lines) : i \in 1..(Len(lines) + 1)
        BY <1>2
    <2> QED
        BY <1>2, <2>1, <2>2
<1> QED
    BY <1>2, <1>3, <1>4, <1>5, <1>6

(* The helper goes on, and prints what is not the name of an output. *)
LEMMA GoesKeeps ==
    ASSUME LaunchOK, PlayedIsKnown, phase \notin {"none", "launched"},
           phase' \in {"ready", "active", "leaving"},
           phase \in {"selected", "ready", "active"},
           NEW line \in Words, Prints(line),
           UNCHANGED <<task, forwarding, runtime, explicit, physical>>
    PROVE  LaunchOK' /\ PlayedIsKnown'
<1>1. line \in Real \union Words /\ line \notin Real
    OBVIOUS
<1>2. /\ lines' \in Seq(Real \union Words)
      /\ ~ task => lines' = lines
      /\ task => /\ DOMAIN lines' = 1..(Len(lines) + 1)
                 /\ \A i \in DOMAIN lines : lines'[i] = lines[i] /\ i \in DOMAIN lines'
                 /\ lines'[Len(lines) + 1] = line
                 /\ DOMAIN lines = 1..Len(lines) /\ Len(lines) \in Nat
                 /\ lines # <<>> => 1 \in DOMAIN lines
    BY <1>1, PrintsResult
<1>3. LaunchOK'
    BY <1>2 DEF LaunchOK, Known, Phases, Words
<1>4. ASSUME task PROVE PlayedIsKnown'
    <2>1. /\ \A i \in DOMAIN lines : lines[i] \in Real => i = 1 /\ lines[i] = physical
          /\ runtime = physical \/ (lines # <<>> /\ lines[1] \in Real)
          /\ lines # <<>> /\ lines[1] \in Real => ~ forwarding
        BY <1>4 DEF PlayedIsKnown
    <2>2. \A i \in DOMAIN lines' : i \in DOMAIN lines \/ i = Len(lines) + 1
        BY <1>2, <1>4
    <2>3. \A i \in DOMAIN lines' :
             lines'[i] \in Real => /\ i \in DOMAIN lines
                                   /\ i = 1 /\ lines[1] \in Real /\ lines'[i] = physical
        BY <1>1, <1>2, <1>4, <2>1, <2>2
    <2>4. lines' # <<>> => 1 \in DOMAIN lines'
        BY <1>2, <1>4
    <2>5. runtime' = physical' \/ (lines' # <<>> /\ lines'[1] \in Real)
        <3>1. CASE runtime = physical
            BY <3>1
        <3>2. CASE lines # <<>> /\ lines[1] \in Real
            <4>1. 1 \in DOMAIN lines' /\ lines'[1] = lines[1]
                BY <1>2, <1>4, <3>2
            <4> QED
                BY <3>2, <4>1
        <3> QED
            BY <2>1, <3>1, <3>2
    <2>6. lines' # <<>> /\ lines'[1] \in Real => ~ forwarding'
        <3>1. ASSUME lines' # <<>>, lines'[1] \in Real PROVE ~ forwarding
            <4>1. 1 \in DOMAIN lines /\ lines[1] \in Real
                BY <2>3, <2>4, <3>1
            <4> QED
                BY <2>1, <4>1
        <3> QED
            BY <3>1
    <2> QED
        BY <2>3, <2>5, <2>6 DEF PlayedIsKnown
<1>5. ASSUME ~ task PROVE PlayedIsKnown'
    BY <1>5 DEF PlayedIsKnown
<1> QED
    BY <1>3, <1>4, <1>5

(* The helper's steps. *)
LEMMA HelperKeeps == ASSUME IInv, HelperStep PROVE IInv'
<1>1. RouteOK /\ MemoryOK /\ LaunchOK /\ SystemRemembered /\ PlayedIsKnown
    BY DEF IInv
<1>2. /\ UNCHANGED <<routeVars, choice, runtime, lastVars, task, forwarding, budget>>
      /\ UNCHANGED replaced
    BY DEF HelperStep, HelperSelects, HelperReady, HelperActivates, HelperDeselected,
           HelperStops, HelperExits, Goes, appVars
<1>3. RouteOK' /\ SystemRemembered'
    BY <1>1, <1>2, RouteQuiet
<1>4. ASSUME saved' \in Known PROVE MemoryOK'
    BY <1>1, <1>2, <1>4 DEF MemoryOK, lastVars, Known
<1>5. CASE HelperSelects
    <2>1. SelectPhysicalOutput \in Known
        BY <1>1, SelectedResult DEF RouteOK, Known
    <2>2. phase = "launched" /\ UNCHANGED explicit
        BY <1>5 DEF HelperSelects
    <2>3. task => lines = <<>> /\ ~ forwarding
        BY <1>1, <2>2 DEF PlayedIsKnown
    <2>4. CASE SelectPhysicalOutput = NoDevice
        <3>1. phase' = "leaving" /\ UNCHANGED <<physical, saved, lines>>
            BY <1>5, <2>4 DEF HelperSelects
        <3>2. LaunchOK'
            BY <1>1, <2>2, <3>1 DEF LaunchOK, Known, Phases, Words
        <3>3. PlayedIsKnown'
            BY <1>1, <1>2, <2>2, <2>3, <3>1 DEF PlayedIsKnown
        <3> QED
            BY <1>1, <1>2, <1>3, <1>4, <3>1, <3>2, <3>3 DEF IInv, MemoryOK
    <2>5. CASE SelectPhysicalOutput # NoDevice
        <3> DEFINE new == SelectPhysicalOutput
        <3>1. /\ physical' = new /\ saved' = new /\ phase' \in {"selected", "leaving"}
              /\ Prints(new) /\ new \in Real
            BY <1>5, <2>1, <2>5 DEF HelperSelects, Known
        <3> HIDE DEF new
        <3>2. /\ lines' \in Seq(Real \union Words)
              /\ task => /\ DOMAIN lines' = 1..(Len(lines) + 1)
                         /\ lines'[Len(lines) + 1] = new
            BY <1>1, <3>1, PrintsResult
        <3>3. task => DOMAIN lines' = 1..1 /\ lines'[1] = new
            BY <2>3, <3>2
        <3>4. LaunchOK'
            BY <2>2, <1>1, <3>1, <3>2 DEF LaunchOK, Known, Phases, Words
        <3>5. PlayedIsKnown'
            <4>1. ASSUME task
                  PROVE  /\ \A i \in DOMAIN lines' : i = 1 /\ lines'[i] = physical'
                         /\ lines' # <<>> /\ lines'[1] \in Real
                         /\ ~ forwarding'
                <5>1. DOMAIN lines' = {1} /\ lines'[1] = new
                    BY <3>3, <4>1
                <5>2. lines' # <<>>
                    <6>1. DOMAIN <<>> = {}
                        OBVIOUS
                    <6>2. SUFFICES ASSUME lines' = <<>> PROVE FALSE
                        OBVIOUS
                    <6>3. DOMAIN lines' = DOMAIN <<>>
                        BY <6>2
                    <6> QED
                        BY <5>1, <6>1, <6>3
                <5> QED
                    BY <1>2, <2>3, <3>1, <4>1, <5>1, <5>2
            <4> QED
                BY <1>2, <3>1, <4>1 DEF PlayedIsKnown
        <3>6. MemoryOK'
            BY <1>4, <3>1 DEF Known
        <3> QED
            BY <1>2, <1>3, <3>4, <3>5, <3>6, <1>1 DEF IInv
    <2> QED
        BY <2>4, <2>5
<1>6. CASE HelperReady \/ HelperActivates \/ HelperDeselected
    <2>1. /\ phase \in {"selected", "ready", "active"}
          /\ phase' \in {"ready", "active", "leaving"}
          /\ UNCHANGED <<saved, explicit, physical>>
          /\ \E line \in Words : Prints(line)
        BY <1>6 DEF HelperReady, HelperActivates, HelperDeselected, Goes, Words
    <2>2. LaunchOK' /\ PlayedIsKnown'
        BY <1>1, <1>2, <2>1, GoesKeeps
    <2>3. MemoryOK'
        BY <1>1, <1>4, <2>1 DEF MemoryOK
    <2> QED
        BY <1>2, <1>3, <2>2, <2>3 DEF IInv
<1>7. CASE HelperStops
    <2>1. /\ phase \in {"launched", "selected", "ready", "active"} /\ phase' = "leaving"
          /\ UNCHANGED <<saved, explicit, physical, lines>>
        BY <1>7 DEF HelperStops, Goes
    <2>2. LaunchOK'
        BY <1>1, <2>1 DEF LaunchOK, Known, Phases, Words
    <2>3. PlayedIsKnown'
        BY <1>1, <1>2, <2>1 DEF PlayedIsKnown
    <2>4. MemoryOK'
        BY <1>1, <1>4, <2>1 DEF MemoryOK
    <2> QED
        BY <1>2, <1>3, <2>2, <2>3, <2>4 DEF IInv
<1>8. CASE HelperExits
    <2>1. /\ phase' = "none" /\ explicit' = NoDevice /\ physical' = NoDevice
          /\ UNCHANGED <<saved, lines>>
        BY <1>8 DEF HelperExits
    <2>2. LaunchOK'
        BY <1>1, <2>1 DEF LaunchOK, Known, Phases, Words
    <2>3. PlayedIsKnown'
        BY <2>1 DEF PlayedIsKnown
    <2>4. MemoryOK'
        BY <1>1, <1>4, <2>1 DEF MemoryOK
    <2> QED
        BY <1>2, <1>3, <2>2, <2>3, <2>4 DEF IInv
<1> QED
    BY <1>5, <1>6, <1>7, <1>8 DEF HelperStep

(* The user's. *)
LEMMA EnvironmentKeeps ==
    ASSUME IInv,
           \/ \E device \in present \union {Virtual} :
                 UserSelectsOutput(device) \/ UserSelectsSystem(device)
           \/ \E device \in present : Unplug(device)
           \/ \E device \in Real \ present : Plug(device)
    PROVE  IInv'
<1>1. /\ RouteOK /\ MemoryOK /\ LaunchOK /\ SystemRemembered /\ PlayedIsKnown
      /\ budget \in Nat
    BY DEF IInv
<1>2. Environment
    BY DEF UserSelectsOutput, UserSelectsSystem, Unplug, Plug
<1>3. /\ UNCHANGED <<choice, runtime, lastOutput, lastSystem, saved, task, forwarding>>
      /\ UNCHANGED <<lines, phase, explicit, physical>>
      /\ budget > 0 /\ budget' = budget - 1
    BY <1>2 DEF Environment, lastVars, appVars, helperVars
<1>4. LaunchOK' /\ PlayedIsKnown'
    BY <1>1, <1>3, QuietKeeps
<1>5. RouteOK' /\ SystemRemembered' /\ replaced' \in {replaced, NoDevice}
    <2>1. ASSUME NEW device \in present \union {Virtual},
                 UserSelectsOutput(device) \/ UserSelectsSystem(device)
          PROVE  RouteOK' /\ SystemRemembered' /\ replaced' \in {replaced, NoDevice}
        BY <1>1, <1>3, <2>1
        DEF UserSelectsOutput, UserSelectsSystem, RouteOK, SystemRemembered
    <2>2. ASSUME NEW device \in present, Unplug(device)
          PROVE  RouteOK' /\ SystemRemembered' /\ replaced' \in {replaced, NoDevice}
        BY <1>1, <1>3, <2>2 DEF Unplug, RouteOK, SystemRemembered
    <2>3. ASSUME NEW device \in Real \ present, Plug(device)
          PROVE  RouteOK' /\ SystemRemembered' /\ replaced' \in {replaced, NoDevice}
        BY <1>1, <1>3, <2>3 DEF Plug, RouteOK, SystemRemembered
    <2> QED
        BY <2>1, <2>2, <2>3
<1>6. MemoryOK'
    BY <1>1, <1>3, <1>5 DEF MemoryOK, Known
<1>7. budget' \in Nat
    BY <1>1, <1>3
<1> QED
    BY <1>4, <1>5, <1>6, <1>7 DEF IInv

-----------------------------------------------------------------------------
(* The theorems *)

(* The invariant holds of every state. *)
THEOREM Invariance == Spec => []IInv
<1>1. Init => IInv
    <2> SUFFICES ASSUME Init PROVE IInv
        OBVIOUS
    <2>1. RouteOK /\ MemoryOK /\ SystemRemembered
        BY DEF Init, RouteOK, MemoryOK, SystemRemembered, Known
    <2>2. LaunchOK
        BY EmptySeq DEF Init, LaunchOK, Known, Phases
    <2>3. PlayedIsKnown /\ budget \in Nat
        BY DEF Init, PlayedIsKnown
    <2> QED
        BY <2>1, <2>2, <2>3 DEF IInv
<1>2. IInv /\ [Next]_vars => IInv'
    <2> SUFFICES ASSUME IInv, [Next]_vars PROVE IInv'
        OBVIOUS
    <2>1. CASE DidFinishLaunching \/ Enable \/ Disable \/ Quit
        BY <2>1, AppKeeps
    <2>2. CASE \E device \in present \union {NoDevice} : ChooseOutput(device)
        BY <2>2, ChooseOutputKeeps
    <2>3. CASE MainQueue
        BY <2>3, ConsumeKeeps, BlocksKeep DEF MainQueue
    <2>4. CASE HelperStep
        BY <2>4, HelperKeeps
    <2>5. CASE \/ \E device \in present \union {Virtual} :
                     UserSelectsOutput(device) \/ UserSelectsSystem(device)
               \/ \E device \in present : Unplug(device)
               \/ \E device \in Real \ present : Plug(device)
        BY <2>5, EnvironmentKeeps
    <2>6. CASE UNCHANGED vars
        <3>1. /\ UNCHANGED <<routeVars, lastVars, replaced>>
              /\ UNCHANGED <<lines, phase, explicit, physical, task, forwarding, runtime>>
              /\ UNCHANGED <<choice, saved, budget>>
            BY <2>6 DEF vars, appVars, queueVars, helperVars
        <3>2. RouteOK' /\ SystemRemembered'
            BY <3>1, RouteQuiet DEF IInv
        <3>3. LaunchOK' /\ PlayedIsKnown'
            BY <3>1, QuietKeeps DEF IInv
        <3>4. MemoryOK' /\ budget' \in Nat
            BY <3>1 DEF IInv, MemoryOK, Known, lastVars
        <3> QED
            BY <3>2, <3>3, <3>4 DEF IInv
    <2> QED
        BY <2>1, <2>2, <2>3, <2>4, <2>5, <2>6 DEF Next
<1> QED
    BY <1>1, <1>2, PTL DEF Spec

(* What RestoreKeepsPlaying says of one step. *)
Returned ==
    /\ output = Virtual /\ output' # Virtual =>
          /\ output' \in present
          /\ Playing /\ choice \in {NoDevice, physical} => output' = physical
    /\ system = Virtual /\ system' # Virtual =>
          /\ system' \in present
          /\ replaced \in present => system' = replaced

(* A restoration gives back the output that plays, whichever the last real *)
(* default was, and the one that system sounds were taken from.            *)
LEMMA RestorationIsRight ==
    ASSUME IInv, NEW last \in Known, NEW r, r = Restored(choice, last),
           output' = r.output, system' = r.system
    PROVE  Returned
<1>1. /\ RouteOK /\ MemoryOK /\ physical \in Known /\ choice \in Known
      /\ SystemRemembered /\ PlayedIsKnown
    BY DEF IInv, LaunchOK, MemoryOK
<1>2. /\ output = Virtual => r.output \in present \union {Virtual}
      /\ system = Virtual => r.system \in present \union {Virtual}
      /\ output = Virtual /\ r.output # Virtual /\ physical \in present
            /\ runtime = physical /\ choice \in {NoDevice, physical} =>
            r.output = physical
      /\ system = Virtual /\ r.system # Virtual /\ lastSystem \in present =>
            r.system = lastSystem
    BY <1>1, RestoredResult
<1>3. Playing => physical \in present /\ runtime = physical
    <2>1. ASSUME Playing PROVE runtime = physical
        <3>1. forwarding /\ task /\ phase = "active"
            BY <2>1 DEF Playing
        <3>2. runtime = physical \/ (lines # <<>> /\ lines[1] \in Real)
            BY <1>1, <3>1 DEF PlayedIsKnown
        <3>3. ~ (lines # <<>> /\ lines[1] \in Real)
            BY <1>1, <3>1 DEF PlayedIsKnown
        <3> QED
            BY <3>2, <3>3
    <2> QED
        BY <2>1 DEF Playing
<1>4. system = Virtual /\ replaced \in present => lastSystem = replaced
    BY <1>1 DEF SystemRemembered, RouteOK
<1> QED
    BY <1>2, <1>3, <1>4 DEF Returned

(* However the app comes to give the outputs back, music continues where   *)
(* it plays (unless the menu has asked for another output in vain), system *)
(* sounds go where they came from, and no output that is gone is selected: *)
(* docs/manual-acceptance.md:45.                                           *)
THEOREM RestoreIsRight == Spec => RestoreKeepsPlaying
<1>1. ASSUME IInv, Next, OfProgram PROVE Returned
    <2>1. lastOutput \in Known /\ budget \in Nat /\ budget' = budget
        BY <1>1 DEF IInv, MemoryOK, OfProgram
    <2>2. GiveUp(lastOutput) => Returned
        BY <1>1, <2>1, RestorationIsRight DEF GiveUp, Route
    <2>3. CASE DidFinishLaunching \/ Enable \/ Relaunch \/ HelperStep
                  \/ ConsumeOutput \/ ConsumeActive
        <3>1. UNCHANGED <<output, system>>
            BY <2>3 DEF DidFinishLaunching, Enable, Relaunch, HelperStep, HelperSelects,
                        HelperReady, HelperActivates, HelperDeselected, HelperStops,
                        HelperExits, Goes, ConsumeOutput, ConsumeActive, routeVars
        <3> QED
            BY <3>1 DEF Returned
    <2>4. CASE Disable \/ Quit \/ ConsumeDeselected \/ StartupTimeout
        BY <2>2, <2>4 DEF Disable, Quit, ConsumeDeselected, StartupTimeout
    <2>5. CASE HelperTerminated
        BY <1>1, <2>1, <2>5, RestorationIsRight DEF HelperTerminated, Route
    <2>6. CASE ConsumeReady
        <3>1. (output' = Virtual /\ system' = Virtual) \/ UNCHANGED <<output, system>>
            BY <2>6 DEF ConsumeReady, Route, routeVars
        <3> QED
            BY <3>1 DEF Returned
    <2>7. CASE DefaultDevicesDidChange
        <3> DEFINE last == Captured(output, lastOutput)
                   r == Restored(choice, last)
        <3>1. (output' = r.output /\ system' = r.system) \/ UNCHANGED <<output, system>>
            BY <2>7 DEF DefaultDevicesDidChange, routeVars
        <3>2. last \in Known
            BY <1>1, <2>1, CapturedIsKnown DEF IInv
        <3>3. CASE output' = r.output /\ system' = r.system
            <4> HIDE DEF last
            <4> QED
                BY <1>1, <3>2, <3>3, RestorationIsRight
        <3>4. CASE UNCHANGED <<output, system>>
            BY <3>4 DEF Returned
        <3> QED
            BY <3>1, <3>3, <3>4
    <2>8. /\ \A device : ~ ChooseOutput(device)
          /\ ~ Environment
        <3>1. budget' # budget - 1
            BY <2>1
        <3>2. Environment => budget' = budget - 1
            BY DEF Environment
        <3>3. ASSUME NEW device, ChooseOutput(device) PROVE budget' = budget - 1
            BY <3>3 DEF ChooseOutput
        <3> QED
            BY <3>1, <3>2, <3>3
    <2>9. /\ ~ \E device \in present \union {NoDevice} : ChooseOutput(device)
          /\ ~ \E device \in present \union {Virtual} :
                  UserSelectsOutput(device) \/ UserSelectsSystem(device)
          /\ ~ \E device \in present : Unplug(device)
          /\ ~ \E device \in Real \ present : Plug(device)
        BY <2>8 DEF UserSelectsOutput, UserSelectsSystem, Unplug, Plug
    <2>10. CASE MainQueue
        BY <2>3, <2>4, <2>5, <2>6, <2>7, <2>10 DEF MainQueue
    <2>11. DidFinishLaunching \/ Enable \/ Disable \/ Quit \/ MainQueue \/ HelperStep
        BY <1>1, <2>9 DEF Next
    <2> QED
        BY <2>3, <2>4, <2>10, <2>11
<1>2. IInv /\ [Next]_vars => [OfProgram => Returned]_vars
    BY <1>1
<1>3. [][OfProgram => Returned]_vars => RestoreKeepsPlaying
    BY DEF Returned, RestoreKeepsPlaying
<1> QED
    BY <1>2, <1>3, Invariance, PTL DEF Spec

=============================================================================
