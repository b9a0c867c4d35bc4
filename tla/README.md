# SoundVolumeControl in TLA+

SoundVolumeControl gives macOS a software volume for outputs that have none. A
HAL plug-in (`src/driver`) publishes a virtual device "Sound Volume"; Core Audio
plays into it; the plug-in captures what is played into a ring of shared memory;
a helper process (`src/forwarder`) maps that ring, applies the volume and plays
it on a real output. A broker (`src/broker`) decides which helper may have the
ring, and a menu-bar app (`src/app`) launches the helper and moves the system's
default output to and from the virtual device.

These modules model the parts of that system that run concurrently and hand
memory, rights or the default output to one another. TLC checks them on small
instances; TLAPS proves the safety of each of them, the refinement included, for
every number of threads, rings, helpers, streams, launches or outputs.

    tlc -workers 2 -config MappingLease.cfg MCMappingLease
    tlapm MappingLease_proofs.tla

and likewise for the other configurations and the other `_proofs` modules.

## Inventory

| Component | State | Operations | Hard behaviour |
|---|---|---|---|
| Mapping leases, `common/SecureAudioWriter.c` | `currentAudio`, `leases`, rings waiting for `Retire` | `SVCWriterAcquire`, `SVCWriterRelease`, exchange in the rotate and error handlers, `Retire` | HAL threads and the control queue interleave at every atomic access; a retry by timer |
| Broker, `broker/main.c` | `writer`, `reader`, `pendingGrant`, `opened`, `generation` | hello, publish, open, peer errors, session change | messages of several connections in any order; death of any of the three processes |
| Helper connection, `common/SecureAudioReader.c` | mapping, `alive`, reference count | open, grant, failure, reset, close | the grant races the timeout; a reset races a grant |
| Audio ring, `common/SharedAudio.h`, `driver` (capture, reset), `forwarder/SharedAudioReader.c` | slots with tags, `writeFrame`, `streamStart`, `streamEpoch`, `writerActive`; the reader's position | capture, stream reset, StopIO, read | two processes without a lock; overrun, underrun, restart in the middle of a read |
| Menu-bar app, `app/main.m` | preference, shown state, task, launch generation | enable, disable, quit, choose output, react to helper lines, helper exits, watchdogs and default-device changes | blocks of the main queue in any order, a modal alert with a nested event loop, partial restoration |
| Helper lifecycle, `forwarder/main.m` | its phase, stop flag | startup, waiting for the route, forwarding, deselection, cleanup | its own view of the default output against the app's |
| Volume and mute, `driver/SoundVolumeControl.c`, `forwarder/main.m`, `forwarder/AudioProcessor.c` | the two controls; target gain, ramp | set, announce, read, listen, next frame | threads that set and announce in different orders; a change between a read and the installation of a listener; a ramp redirected under way |
| Driver as a HAL object, `driver/SoundVolumeControl.c` | reference count, running count, clock, stream state, volume, mute | references, StartIO, StopIO, timestamps, setting, every property of five objects | calls of several HAL threads; changes announced after the mutex is let go; five switches over one table, written apart |
| Output selection, `forwarder/main.m`, `app/main.m` | the menu's choice, the outputs that were last the default, the helper's last output | choose an output to play on, capture the defaults, restore them | outputs that are gone, or changed between two steps; two programs that remember apart |
| Signing policy, tools, installer, legacy transport | files | sequential | none that a model would reach |

The components interact in four ways. Core Audio's host process calls the driver
on its threads. Broker, driver and helper exchange XPC messages (hello, rotate,
publish, open, grant). The driver and the helper share the ring's memory. The
app and the helper talk through SIGTERM, the helper's standard output and exit,
and the default-output selectors, which both watch.

What makes each one correct:

- leases: no callback touches an unmapped ring, no ring is leaked or retired
  twice, a ring that is gone is silent for whoever still maps it;
- broker protocol: only the console user's one registered helper hears the
  driver; a granted ring is the one in service; every request is answered;
  driver and broker find each other after any crash;
- ring: only frames that were captured are rendered, under the right stream,
  once, and never before they are written;
- volume and mute: what is heard is the latest setting, without clicks;
- connection handle: it outlives every use and nothing else, and an open that
  does not succeed says why;
- HAL object: counts are exact under any interleaving, the host ends up knowing
  the current state, every answer is consistent with every other;
- app and helper: no helper is out of the app's sight, the real output comes
  back, and an enabled app does not lose its helper unnoticed;
- output selection: what is restored is there, and is what was playing.

## Modules

| Module | Models |
|---|---|
| `MappingLease` | the lease protocol of the driver, atomic access by atomic access |
| `ReaderHandle` | the helper's connection handle, access by access |
| `BrokerProtocol` | broker, driver's connection and helpers' connections, handler by handler |
| `RingLease` | the abstract promise that `BrokerProtocol` implements |
| `AudioRing` | driver and reader on one ring, shared access by shared access |
| `AppLifecycle` | the app's handlers, the helpers' phases, Core Audio's default selectors |
| `OutputSelection` | which real output is played on, remembered and restored |
| `GainControl` | the driver's volume and mute, the helper's listeners, the gain ramp |
| `HalObjects` | the driver's objects and properties, as the functions its switches are |
| `HalDevice` | references, IO, setting and announcing, called from several threads; it extends `HalObjects` |
| `..._proofs` | for each state machine above (all but `RingLease`): an inductive invariant, and the theorems |
| `MC...` | the values of constants that a `.cfg` cannot write |

### MappingLease

`current`, `leases`, `active` are `currentAudio`, `leases` and each ring's
`writerActive`. A HAL callback is `FetchAdd` and `LoadCurrent`
(`SVCWriterAcquire`), `Work`, `FetchSub` (`SVCWriterRelease`). The control
queue's blocks are `RotateEnabled` or `DetachRing`, then `Exchange`, then
`Retire` as `PollLeases`, `Deactivate`, `Deallocate`; a busy poll leaves the ring
in `timers`, and `TimerFires` looks again. `memory` tells when a ring's mapping
exists. The audio work of a callback is reduced to what it does to
`writerActive`.

### BrokerProtocol and RingLease

The broker's variables have the names of the source (`pending` says that
`pendingGrant` is not NULL). A handler is one action: each process runs its
handlers on one serial queue. Connections are queues of undelivered events;
`Peers` numbers the driver's connections, because a restarted driver, or one that
was interrupted, comes back over a new peer while the old one still has events
to deliver. A ring is a number, in the order of allocation. `lent` records what
each helper was granted; nothing but properties reads it.

`RingLease` says what the pair promises: a ring enters service fresh from
allocation, none comes back, and each is lent at most once. `Lease` is its
instance with `used <- 1..allocated`, and `LeaseIsExclusive` says that every
behaviour of `BrokerProtocol` is one of it.

### ReaderHandle

`BrokerProtocol` takes the end of a connection for one step; `ReaderHandle` has
one handle of `common/SecureAudioReader.c` with every access to its memory a step
of its own. `main` runs `SVCReaderOpen` (`Create` to `CheckAlive`) and
`SVCReaderClose` (`StoreClosed`, `Cancel`, `ReleaseConnection`); XPC runs the
event handler and the reply handler one at a time on the connection's queue
(`HandleEvent`, `HandleReply`, `Map`, then `FailReader` as `StoreError`,
`StoreAlive`, `Signal`), and the finalizer when nobody holds the connection. The
flags `alive` and `closed` are one variable: whoever finds `closed` set does not
look at `alive`. Whether a reply may still be handled after the finalizer is not
documented, and the code counts a reference for it; so does the model.

### AudioRing

One action for each load or store of shared memory, on both sides:
`ResetEpoch`, `ResetWriteFrame`, `ResetStart`, `ClearTag` (stream reset),
`CheckActive`, `ZeroTag`, `StoreStereo`, `SetTag`, `Advance`, `RaiseActive`
(capture), `LoadActive`, `LoadEpoch`, `LoadWriteFrame`, `LoadStartAndDecide`,
`FirstTag`, `LoadStereo`, `SecondTag`, `CheckEpoch`, `CheckWriterActive`
(`SVCSharedAudioReaderRead`). A stereo sample is the pair of the stream and the
frame that it was captured as. The reader's fractional position counts units of
1/`Scale` frame and the clock correction, at most half a percent in the code, is
one unit: this keeps the rounding and the extra frame for interpolation, and
leaves out the values in between. Memory is sequentially consistent: the code's
atomics are either that or release/acquire pairs.

### AppLifecycle

The app's handlers are atomic (they run on the main queue), except that the
alert of a failed Disable runs a nested event loop; `alert` says that it is up.
The app's output is in `enabled` and `appState`; `live` is the launch whose
generation is the current one, which is how the code tells blocks of an earlier
launch. `lines`, `exitDue`, `changes`, `watchdogs` and `relaunchDue` are blocks
on their way to the main queue. Each helper goes through the phases of its
`main`. Real outputs are not told apart: a selector holds the virtual device or
a real one.

### OutputSelection

`AppLifecycle` asks whether a real output comes back, `OutputSelection` which
one. The helper's `SelectPhysicalOutput` and the app's `OutputUID` are two
functions of what each of them remembers: `explicit` (`--physical-uid`), `saved`
(the helper's preference), `choice` (the menu's), `runtime` (the output that the
last helper printed), `lastOutput` and `lastSystem` (`capturePhysicalDefaults`).
Around them are the app's handlers and the helper's phases once more, without
failures, and a user who selects, plugs and unplugs outputs between any two of
them. Names and transports matter only for which output comes first, so they are
two rankings of the outputs, `ByPriority` and `ByName`. `replaced` is the output
that sounded system sounds before the app selected the virtual device; only the
property reads it.

### HalObjects and HalDevice

`HalObjects` translates each switch of the driver into a function of object and
address, separately, as the code has them: which selectors an object has
(`HasProperty`), in which scopes (`ValidScopes`), which can be set
(`IsPropertySettable`), how large they are (`GetPropertyDataSize`), what they
contain (`GetPropertyData`) and what setting does (`SetPropertyData`); further
`FilteredOwnedObjects` with its class qualifier and the volume curve, with
libm's logarithm and power as two tables (`Logs`, `Powers`), neither of which is
taken for the inverse of the other.

`HalDevice` is the concurrent part. `AddRef`, `Release` and `ReleaseExchange` are
the reference count with its compare-and-exchange loop; `StartIO` and
`ResetSharedAudioStream`, `StopIO`, `StopExchange`, `StopRefused` and
`LowerWriterActive` the running count likewise; `SetActive`, `SetVolume` and
`SetMute` the critical section of `DriverSetPropertyData`; `Notify` the
announcement after it, upon which the host reads the property again (`seen`).
`Ask` puts one question to a driver at rest, for the properties about answers.

### GainControl

`SetVolume` and `SetMute` are `DriverSetPropertyData` up to the unlock; `Notify`
is the announcement that the same thread makes afterwards, so that announcements
of two threads may come in another order than the changes. The helper's `main`
reads both controls (`StartsWithVolume`, `StartsWithMute`), installs the two
listeners (`ListensToVolume`, `ListensToMute`) and starts physical IO
(`StartsIO`). `ControlChanged` is `HearsVolume` and `HearsMute`: both controls are
read again, one after the other. `GainForNextFrame` is one frame of the ramp.
Volumes and gains are whole percents: the square law is `v * v / 100`, and the
division of the ramp rounds, as the float division does in its last digits.

## Runs

| Run | Configuration | States | Shows |
|---|---|---|---|
| `lease` | 2 threads, 3 rings | 39 thousand | safety, reclamation and the inductive invariant |
| `broker_safety` | 3 helpers of 2 users, all failures | 2.8 million (symmetry) | `CaptureIsAuthorized`, `GrantIsLive`, `NobodyIsStranded`, refinement of `RingLease` |
| `broker_liveness` | a helper of each user, no memory failure or timeout | 170 thousand | opens are answered, closed rings detached, the driver registered |
| `app_safety` | 2 sessions, 2 launches, all faults | 644 thousand | no stray helper, an enabled app keeps its helper, Quit restores the outputs |
| `app_liveness` | 2 launches, failing helpers | 42 thousand | silence ends, startup is decided, deselection is noticed |
| `ring` | 8 slots, 2 streams of 12 frames, gaps, long writes | 3.4 million | restarts are clean, nothing is read ahead, overwritten slots are recognized, a stalled tail is not replayed |
| `reader` | one handle, up to 3 errors | 5 thousand | the handle is freed once and not early, and an open is honest |
| `outputs` | 3 outputs, 3 actions of the user | 2.1 million | what is restored is there, and is what was playing |
| `hal` | 2 threads, 2 references each, every property | 206 thousand | counts, announcements, an idle device is inactive, a late stop heals; the volume is read in its ranges; the switches agree |
| `gain` | 2 callers, 3 changes, ramp of 3 frames | 16 thousand | the settled gain is the latest, no click, the ramp arrives |

Two further runs, `ring_stale_stream` and `gain_missed`, expect a violation; see
Findings. Deadlock is checked in `lease`, `gain` and `outputs`. Elsewhere the
system may stop: bounds of the environment run out, and an app that has quit, a
handle that has been closed or a host that stops IO leaves nothing to do.

**Why these bounds.** *Leases*: the hazards need one callback that started before
an exchange and one that started after it, hence two threads; and a ring that is
installed while one is being retired and another waits for its timer, hence
three rings. *Broker*: three helpers are needed
for one that holds the ring, one of the same user that follows or competes, and
one of the next user; a session change, a restart and a crash can each come
before, between and after the steps of a grant. `TwoMishaps` cuts runs where all
three happen, to keep the run short; helpers `a` and `b` of the same user are
symmetric. *Ring*: eight slots with a latency of three
give a full set of cases (backlog too short, underrun, follow, lost, overrun);
twelve frames lap the ring once and a half; a write of nine frames is longer than
the ring; one restart makes two streams, whose frames can be confused. *Gain*:
two callers for announcements out of order, three changes for two that cross the
helper's startup or a call of its listener and one after them, a ramp of three
frames for one that is redirected at its start, in its middle and at its end. *App*: two launches are an old
helper and a new one, whose blocks can be confused; two sessions are an app that
was relaunched while a helper of the earlier session lives; two changes let the
user undo one. The queue of notifications holds at most two, since their handler
reads the selectors and not the message. *Outputs*: with three of them, the one
that plays, the one that was the default and the first of a ranking are
different; three actions suffice to select one, unplug another and plug it in
again, and they fall between any two steps of the programs. The two rankings
differ in their first element. *HAL*: a lost count needs two threads between load
and exchange, a late stop one that stops and one that starts; two references per
thread let the reference loop fail and go round again. Questions are asked in
every scope, of two elements and an unknown object and selector, with buffers
around every size that occurs. The volumes set are one below the announced
range, one whose decibels are rounded, infinities and NaN; the two tables give
another volume back for the rounded one. *Reader*: the first error is kept and the others
are not, so two are needed.

The theorems below hold without these bounds: for safety, the constants of a
configuration are there to find a mistake early. What stays bounded is liveness.

## Fairness

- Serial queues run the blocks they hold and finish the ones they start; timers
  fire; XPC delivers. A retire timer competes with messages for the control queue
  and is enabled only between blocks, hence strong fairness of `TimerFires`.
- A HAL callback that has started returns. The host is not obliged to call in,
  and `RetiredIsReclaimed` assumes that it eventually stops: with callbacks that
  keep overlapping, `Retire` may find one at every poll, and the code has no bound
  for that either.
- A helper goes on through `main`: it neither hangs in startup nor ignores what
  its loops poll once a second. (The app's watchdog is there for one that hangs;
  `StartupTimeout` is an action like any other, and the mutant that spares some
  launches breaks `StartupIsDecided`.)
- The alert is dismissed. Users, Core Audio's failures, crashes and restarts are
  never fair.
- In `GainControl` a thread that set a control announces it, Core Audio tells the
  listener, and physical IO keeps calling back; the helper need not come up.
- In `HalDevice` a call returns, as a wait-free call does (an exchange fails only
  if another one succeeded, and `StreamHeals` asks for calls to have ended), and
  a device that is started is given audio: that is what IO is.
- `AudioRing`, `ReaderHandle` and `OutputSelection` state no fairness: their
  properties are safety only.

## Assumed of the outside

- XPC delivers each connection in order; connections are not ordered with one
  another; what is sent to a dead process is lost; the other end of a cancelled
  connection gets what was delivered and then one error event. launchd restarts
  the broker on demand.
- Core Audio, asked to change a default device, obeys, refuses, or accepts and
  does not carry it out; the selection code, which reads back what it wrote,
  expects all three.
- The HAL host captures between StartIO and StopIO, never turns its sample time
  back in between, and may skip some of it.
- The host starts a client before it stops it, hands over audio only in between,
  may stop a device nobody started, and reads a property whenever it is told of
  it. It takes references before it initializes the driver, never gives back more
  than it took, and does not give up the driver while it is in use.
- An XPC connection hands over a reply once, errors any number of times, one error
  after a cancellation, and runs its finalizer after the last event.
- Uid -1 and root never own the console in the model's user set; the login window
  is `NoUser`. The code-signing checks of peers are made by the system.

## What is proved

Each `_proofs` module proves an inductive invariant of its specification
(`Invariance`; in `MappingLease_proofs`, `LeaseInvariantHolds`) from the named
assumption on its constants and nothing else, one lemma or step for each action;
the theorems follow from it. Each invariant was first given to TLC as an
invariant of that module's safety run; that of `AudioRing` a second time, with
buffers of two frames and positions in thirds of a frame.

| Specification | From | Theorems |
|---|---|---|
| `MappingLease` | `LeaseAssumption`: finitely many HAL threads; the null pointer is not a ring | `LeaseSafety` (no use after free), `LeaseSilence`, `LeaseAccounting`, `LeaseTypes` |
| `ReaderHandle` | `HandleAssumption`: the bound on errors is a natural number | `HandleSafety`, `OpenHonesty`, `HandleTypes` |
| `BrokerProtocol` | `ProtocolAssumption`: nobody is no helper and no user; the bounds are natural numbers | `CaptureAuthorized`, `GrantLive`, `NobodyStranded`, `LeaseImplemented` (`RingLease` is implemented), `LentOnce`, `ProtocolTypes` |
| `AudioRing` | `RingAssumption`: buffers and writes have a frame, a frame two positions, and the latency is some frames short of the capacity | `CleanRestart`, `GenuineRendering`, `NeverAhead`, `NoReplay`, `RingTypes` |
| `GainControl` | `GainAssumption`: volumes are integers, a ramp has a frame | `SettledGain`, `RampIsSmooth`, `GainTypes` |
| `HalDevice` | `HostAssumption`, `SettingAssumption`, `CurveAssumption`, `BufferAssumption`: finitely many threads; the tables have the values that are set, no logarithm is positive, and a power is a volume; a buffer has a size and a pointer | `ExactCounts`, `HostIsCurrent`, `IdleIsInactive`, `SwitchesAgreeing`, `OneTree`, `DeviceTypes` |
| `AppLifecycle` | `LifecycleAssumption`: the bounds are natural numbers, outcomes and faults are those there are | `NoStray`, `HelperStaysServed`, `LifecycleTypes`; under a hypothesis `QuitRestores` |
| `OutputSelection` | `SelectionAssumption`: each ranking has every output; devices are told from the words a helper prints | `RestoreIsRight` |

The driver keeps `RingAssumption`'s latency by `ClampTargetLatency`: at most a
quarter of the ring. No assumption bounds a set or number that a configuration
bounds, other than to make it finite.

### Leases

`NoUseAfterFree` is not inductive alone. When `Deallocate` runs, nothing in it
says that no callback holds the doomed ring; that was established two steps
earlier, at the poll, and has to be carried across the steps between.
`LeaseInvariant` adds:

- `LeasesCountCallbacks`: the count is the number of threads inside a callback
  (so a poll that reads zero proves that nobody is inside);
- `BlockShape`: `doomed` and `fresh` are set exactly in the steps that use them;
- `DoomedIsUnheld`: from the successful poll on, no callback holds the doomed
  ring. It is kept by `LoadCurrent`, since `NoRingLost` says the doomed ring is
  not the installed one: this is where "count first, load second" matters;
- `DoomedIsSilent`: `writerActive` is 0 from `Deactivate` to `Deallocate`, since
  `Work` touches only held rings;
- `NoRingLost`, which `Exchange` and `TimerFires` need for the doomed ring to be
  neither installed nor waiting.

### The helper's connection

The reference count is exact per holder (one reference for the finalizer, one for
the reply), which makes memory and count go together. What is missing for a step
to keep that is who may still come:

- `MainShape`: how far `main` is decides what the connection is, and until it is
  released the finalizer is due, so `main` itself never uses a freed handle;
- `HandlerShape`: a reply handler runs exactly while its reply does, and an event
  handler only before the finalizer;
- `WokenForAReason`: a handler signals after it has mapped the ring or marked the
  handle dead, and marks it dead after it has stored the error. This is what
  makes the relaxed reading of the flags after the semaphore sound, and it must
  hold of each signal that was given and not yet taken, since an error and a
  reply may both signal.

### Broker

`CaptureIsAuthorized` and `GrantIsLive` relate a ring in service to what the
broker knows of it, and the two are a channel apart. The invariant says what is
in the channels:

- `LiveConnection`, `DeadConnections`: the driver's connection has said hello,
  is the writer, or is severed; what a dead process leaves ends with the news of
  its death, so that nobody waits for a peer that says nothing. `FewLeft` is why
  a free peer exists when the driver comes back;
- `GenerationsGrow`: generations grow along the channel to the driver, and a
  publication of the latest one is of the ring in service, with nothing else
  under way. This is what the broker's comparison of generations is worth;
- `PublishedOnce`, `GrantsAreRings`, `OpensOnce`: a ring is under way to the
  broker once, before it is lent, and a helper asks and is answered once. With
  them, each step of the protocol is a step of `RingLease` or a stutter;
- `LentInService`, `GrantInService`: the two properties, in the form that a step
  keeps; they lose a ring only by a message that a rotation puts on its way.

`NobodyIsStranded` is what the liveness of the protocol rests on, as a state that
can be checked and proved under every failure, crash and timeout: an open that
waits is on its way to the broker, is answered, or has the reader's place with its
request pending (`OpenIsInHand`); for a reader that waits, the driver has been
asked for this generation, has published for it, with memory or without, or its
death is under way (`AnswerIsUnderWay`); a helper that closed, or whose open
expired, is followed by that news while it has the place or may yet get it
(`EndIsTold`); a helper that lost the place hears a reset (`LossIsTold`). Since
the channels deliver and handlers run, a wait ends. `InHand` is their inductive
form: it says what a helper's queue holds exactly (its open; after its end, the
notice, with the open before it or not), and speaks of an answer on the live
connection of the driver only, since a dead one ends with the news of it.

### Ring

Neither side locks, so what the reader knows may be stale at every step, and the
invariant is about what can still have happened since:

- `TagsAreGenuine`: outside the wipe of a reset, a tag that is not 0 tells what
  its slot holds, for the present stream. It needs the driver's order: the tag
  is zeroed before the samples are stored, and set after them;
- `Undisturbed`: a read whose epoch is still the stream's has found the ring
  wiped, since `streamEpoch` changes before the wipe and `writerActive` is up
  only after it. That holds of every read but those that loaded `writerActive`
  before the restart and the epoch after it (`disturbed`; finding 1 below);
- `WithinWritten`: the position at the end of the buffer, with its rounding and
  the frame for interpolation, is below what the read loaded. Multiplication is
  monotone, and this is where all the arithmetic is;
- `Stalled`: while the driver does nothing, a reader that keeps its position is
  past what it played, and one that has lost it will find the latency past that.

### Volume, mute and the HAL object

`GainOnCourse` says that, unless a change was missed at startup (finding 2),
what main or the listener has read is the present value, or news of a later one
is on its way; announcements may overtake one another because each reader reads
the present values. `RampOnCourse` says that the frames that are left of a ramp
suffice for the rest of the way, at `MaxStep` each, however often it is
redirected.

In `HalDevice` the counts are those of the threads between their increment and
their decrement (`CountedThreads`, `References`). `Informed` says of each property
that the host knows it or that a thread is about to announce it: a thread that
overtakes another one makes the other's announcement carry the new value.
`ActiveIsOwned` says who will lower `writerActive`. Of the volume curve only the
ranges are stated (`VolumeIsReadInRange`): what is read lies in the ranges that
were announced, whatever was set. That a volume survives being read in decibels
and written back is true up to the rounding of libm only, and the repository's
own unit test checks it with a tolerance.

`SwitchesAgreeing` and `OneTree` need no invariant: they hold in every state, for
every question, and nothing is assumed of its qualifier. `Fits` (a size that is
told, and data of that size) is proved of each object's switch, `HonestAnswer`
then of any buffer; `OwnedObjectsListed` says which objects a list has, and
`ClassTree` that the classes an object answers to are those its class derives
from. The proof is about the written definitions, in which a CASE chooses freely
between arms that overlap; the switches that rely on the order of their tests
are therefore written with IF.

### App and helpers

`Sighted` (a helper that was not told to stop is the task) is not inductive
without `LaunchedInOrder`, which makes the next launch a fresh one, and
`DueIsTrue`: a termination that is due is of the live launch, and its helper is
gone; a relaunch is due only without a helper. `AppOK` says that a task is that
of a running app that means to be enabled.

`EnabledIsServed` is an action property, since finding 3 below makes the state
property false: no step makes an enabled app one without a helper (a live one
that was not told to stop, one whose end is still to be handled, or a relaunch
that is due), except that the alert of a failed Disable is dismissed. It holds
whatever Core Audio answers, and so does its theorem `HelperStaysServed`. The
invariant is `TaskIsServed`: the app's task either runs and was not told to stop,
or its termination is due; so whoever takes the task away is the handler of that
termination, which clears the preference, or one that stops the helper, which
clears it too or leaves a relaunch.

`QuitRestoresOutputs` is false for some of what Core Audio may do (finding 4
below). Its theorem has the hypothesis that excludes exactly that: no write is
accepted and then dropped. Refusals are allowed, and Quit then stays. The run
checks it on an instance that satisfies the hypothesis.

### Outputs

`RestoreKeepsPlaying` compares what the app restores with what the helper plays
on, which the app knows only from a line. `PlayedIsKnown` says that the name of
the output is the first line of its launch and is read before the one that says
the helper is active; `SystemRemembered`, that while system sounds are virtual
the app remembers where it took them from. `FirstFound` and `FirstIsPresent` are
the lemmas about the order of candidates: the first that is present is found,
and nothing before it is.

## What is only model-checked

Liveness (`RetiredIsReclaimed`, `OpenIsAnswered`, `ClosedRingIsDetached`,
`DriverIsRegistered`, `SilenceEnds`, `StartupIsDecided`, `DeselectionIsNoticed`,
`GainReachesTarget`, `StreamHeals`), which the prover does not reach under
fairness. Every invariant and action property of a passing run has a theorem, one
of them (`QuitRestoresOutputs`) under the hypothesis above.

## Findings

Two are the counterexamples of runs that expect a violation.

1. `ring_stale_stream`: the reader loads `writerActive` before `streamEpoch`; a
   restart between the two lets it render frames of the old stream under the new
   epoch. `RestartIsClean` shows that this window is the only one.
2. `gain_missed`: the helper reads volume and mute first and listens afterwards;
   a mute pressed in between is not heard of, and a muted device goes on
   playing until the next change.

Three are in `AppLifecycle`: the exception of a property, a case outside what the
run is given, which a change of one line of its configuration shows, and one that
no property forbids.

3. A helper that exits while the alert of a failed Disable is up is taken for one
   that was asked to stop; dismissing the alert sets the preference again
   (`src/app/main.m:904`), and the app stays enabled without a helper, where
   `docs/menu-bar-app.md:59` has it stop. `EnabledIsServed` excepts the dismissal;
   `HelperStaysServed` shows that there is no other way.
4. Restoration does not read back what it wrote (`src/app/main.m:479`), unlike
   selection; a write that is accepted and not kept lets Quit go ahead with the
   virtual device selected, against `docs/menu-bar-app.md:56`. In `AppSafety.cfg`,
   `SetOutcomes <- ObeyedOrDropped` makes `QuitRestoresOutputs` fail.
5. The last lines of a helper can be handled after its termination, since the
   termination handler (`src/app/main.m:714`) leaves the launch generation alone;
   the menu then shows Enabled with volume control disabled until it is used
   again.

Two were met in translating, and are modelled as the code has them.
`docs/user-guide.md:60` says that the remembered real outputs are restored; the
code (`src/app/main.m:462`) prefers the output chosen in the menu, and the one
that played, to the one that was the default before. `RestoreKeepsPlaying` is the
rule that does hold. And `DriverSetPropertyData` (from
`src/driver/SoundVolumeControl.c:1269`) does not look at scope and element, which
`DriverIsPropertySettable` does: a value can be set at an address where the
property is said not to exist.

Two more behaviours are in the models, without a run of their own. A gap inside
the latency window, and a writer that then stalls with `writerActive` set, make
every other read resynchronize to the same place and play the same tail again;
`WholeTailIsNeverReplayed` has it as its only exception. And Disable followed at
once by Enable makes the new helper open while the old one still holds the
broker's reader place, so it is refused and the app reports that another helper
is connected, with only one copy running. Choosing another output waits a second
and a half for this reason; Enable does not.

## Not modelled

- The clock behind `GetZeroTimeStamp`: its time is the machine's, and the HAL
  uses it as a line through two points.
- HAL calls that the driver refuses or answers without a change of state (device
  creation, clients, configuration changes, Will/Begin/EndIOOperation).
- Failing reads of the virtual device's properties. `SoftwareGain` ignores their
  status and falls back to full volume, not muted.
- The buffer that splits a helper's output into lines: one thread, within one
  block, with nothing that comes between. Lines that are not yet handled are
  modelled.
- A crash or force-quit of the menu-bar app itself. Only a normal end restores the
  outputs and stops the helper (`src/app/main.m:307`), so the next session may
  find both as they were. A session of `AppLifecycle` ends by Quit; a helper that
  outlives it is modelled.
- What becomes of frames that are wiped by a StartIO still under way
  (`src/driver/SoundVolumeControl.c:1370`): they are lost. `StreamHeals` shows
  that the device is active again afterwards, not that nothing was lost.
- The mapping of channels and the values between two frames: sequential
  arithmetic on floating-point numbers, with unit tests in the repository.
- The names, transports and channel counts that make an output eligible; the
  menu's contents, Start at Login, the helper's diagnostic options.
- Code signing, which the system checks, and the signing policy, a file read at
  start; diagnostic tools; installer scripts; the legacy transport that only
  tests use. They are sequential and share no state with the rest.

## Plan

Done: every state machine above is modelled and checked, and its invariants and
action properties are proved; eight `_proofs` modules, and `LeaseImplemented` for
the refinement of `RingLease`.

The broker's liveness has its safety core proved (`NobodyStranded`).

Next: the same for the other liveness properties (that of silence, that of
startup), as theorems of the same modules; and a session of the app that ends by
a crash.
