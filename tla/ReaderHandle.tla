----------------------------- MODULE ReaderHandle -----------------------------
(***************************************************************************)
(* The helper's handle of its connection to the broker                     *)
(* (common/SecureAudioReader.c): main opens and closes it, while XPC runs  *)
(* the event handler and the reply handler on the connection's serial      *)
(* queue, and a finalizer once the connection is no longer referenced.     *)
(* Each access to the memory of the handle is a step.                      *)
(*                                                                         *)
(* XPC (external) hands over every reply once, errors any number of times, *)
(* and one last error after a cancellation.  As the code does, this module *)
(* does not rely on a reply being handled before the finalizer.            *)
(***************************************************************************)
EXTENDS Integers

CONSTANT MaxErrors  \* bound: errors of one connection, before it is cancelled

ASSUME HandleAssumption == MaxErrors \in Nat

VARIABLES
    \* main
    mpc,
    result,         \* errno
    \* the handle
    memory,
    references,
    state,          \* the flags alive and closed
    error,
    audio,          \* the mapping
    ready,          \* the semaphore
    \* XPC
    connection,
    finalizer,      \* it has yet to run
    event,          \* the error that is due
    reply,
    errors,         \* what is left of the bound
    \* the handler that runs
    handler,
    failing         \* the error it reports

mainVars == <<mpc, result>>
xpcVars == <<connection, finalizer, event, reply, errors>>
handlerVars == <<handler, failing>>
vars == <<mainVars, memory, references, state, error, audio, ready, xpcVars,
                handlerVars>>

NoError == "none"
ConnectionErrors == {"EACCES", "ECONNRESET"}
ReportedErrors == ConnectionErrors \union {"EBUSY", "EPROTO"}
OpenErrors == ReportedErrors \union {"ENOMEM", "ECONNREFUSED", "ETIMEDOUT"}

Init ==
    /\ mpc = "idle" /\ result = NoError
    /\ memory = "none" /\ references = 0
    /\ state = "none" /\ error = NoError
    /\ audio = "none" /\ ready = 0
    /\ connection = "none" /\ finalizer = "none"
    /\ event = NoError /\ reply = "none" /\ errors = MaxErrors
    /\ handler = "idle" /\ failing = NoError

-----------------------------------------------------------------------------
(* main: SVCReaderOpen *)

Create ==
    /\ mpc = "idle"
    /\ memory' = "allocated" /\ references' = 1 /\ state' = "alive"
    /\ connection' = "inactive" /\ finalizer' = "due"
    /\ mpc' = "activate"
    /\ UNCHANGED <<result, error, audio, ready, event, reply, errors, handlerVars>>

(* There is no memory; or no connection, whose finalizer then will not     *)
(* free the handle.                                                        *)
CreateFails ==
    /\ mpc = "idle"
    /\ \/ result' = "ENOMEM" /\ UNCHANGED memory
       \/ result' = "ECONNREFUSED" /\ memory' = "freed"
    /\ mpc' = "failed"
    /\ UNCHANGED <<references, state, error, audio, ready, xpcVars, handlerVars>>

(* The requirement on the peer is not accepted: the connection is given up *)
(* before it was active.                                                   *)
RequirementFails ==
    /\ mpc = "activate"
    /\ connection' = "released"
    /\ result' = "EACCES"
    /\ mpc' = "failed"
    /\ UNCHANGED <<memory, references, state, error, audio, ready, finalizer, event,
                   reply, errors, handlerVars>>

Activate ==
    /\ mpc = "activate"
    /\ connection' = "active"
    /\ mpc' = "send"
    /\ UNCHANGED <<result, memory, references, state, error, audio, ready, finalizer,
                   event, reply, errors, handlerVars>>

(* Mutant: the reply has no reference of its own. *)
SendUncounted ==
    /\ mpc = "send"
    /\ reply' = "due"
    /\ mpc' = "wait"
    /\ UNCHANGED <<result, memory, references, state, error, audio, ready, connection,
                   finalizer, event, errors, handlerVars>>

Send ==
    /\ mpc = "send"
    /\ references' = references + 1
    /\ reply' = "due"
    /\ mpc' = "wait"
    /\ UNCHANGED <<result, memory, state, error, audio, ready, connection, finalizer,
                   event, errors, handlerVars>>

Woken ==
    /\ mpc = "wait" /\ ready > 0
    /\ ready' = ready - 1
    /\ mpc' = "check"
    /\ UNCHANGED <<result, memory, references, state, error, audio, xpcVars,
                   handlerVars>>

TimesOut ==
    /\ mpc = "wait" /\ ready = 0
    /\ result' = "ETIMEDOUT"
    /\ mpc' = "close"
    /\ UNCHANGED <<memory, references, state, error, audio, ready, xpcVars,
                   handlerVars>>

CheckAlive ==
    /\ mpc = "check"
    /\ IF state = "alive"
       THEN mpc' = "open" /\ UNCHANGED result
       ELSE mpc' = "close" /\ result' = error
    /\ UNCHANGED <<memory, references, state, error, audio, ready, xpcVars,
                   handlerVars>>

-----------------------------------------------------------------------------
(* main: SVCReaderClose, by the caller or when the open has failed *)

CloseCalled ==
    /\ mpc = "open"
    /\ mpc' = "close"
    /\ UNCHANGED <<result, memory, references, state, error, audio, ready, xpcVars,
                   handlerVars>>

(* closed, and no longer alive: no handler can tell that these are stored  *)
(* one after the other, since one that finds closed ignores alive.         *)
StoreClosed ==
    /\ mpc = "close"
    /\ state' = "closed"
    /\ mpc' = "cancel"
    /\ UNCHANGED <<result, memory, references, error, audio, ready, xpcVars, handlerVars>>

Cancel ==
    /\ mpc = "cancel"
    /\ connection' = "cancelled"
    /\ event' = "ECONNRESET"
    /\ mpc' = "release"
    /\ UNCHANGED <<result, memory, references, state, error, audio, ready, finalizer,
                   reply, errors, handlerVars>>

ReleaseConnection ==
    /\ mpc = "release"
    /\ connection' = "released"
    /\ mpc' = IF result = NoError THEN "closed" ELSE "failed"
    /\ UNCHANGED <<result, memory, references, state, error, audio, ready, finalizer,
                   event, reply, errors, handlerVars>>

-----------------------------------------------------------------------------
(* XPC *)

ErrorArrives ==
    /\ connection = "active" /\ event = NoError
    /\ errors > 0 /\ errors' = errors - 1
    /\ event' \in ConnectionErrors
    /\ UNCHANGED <<mainVars, memory, references, state, error, audio, ready,
                   connection, finalizer, reply, handlerVars>>

(* ReleaseReader: the last one gives up the mapping and the memory. *)
ReleaseReader ==
    /\ references' = references - 1
    /\ IF references = 1
       THEN /\ memory' = "freed"
            /\ audio' = "none"
       ELSE UNCHANGED <<memory, audio>>

(* When nobody holds the connection, and its event handler is done. *)
Finalize ==
    /\ connection = "released" /\ finalizer = "due"
    /\ event = NoError /\ handler \in {"idle", "replyMap", "replySignal", "replyRelease"}
    /\ finalizer' = "done"
    /\ ReleaseReader
    /\ UNCHANGED <<mainVars, state, error, ready, connection, event, reply, errors,
                   handlerVars>>

-----------------------------------------------------------------------------
(* The handlers *)

Idle == handler = "idle"

(* FailReader, in steps: the first error is kept; *)
Fails(kind, what) ==
    /\ handler' = kind
    /\ failing' = what

HandleEvent ==
    /\ Idle /\ event # NoError
    /\ event' = NoError
    /\ IF state = "closed" THEN UNCHANGED handlerVars ELSE Fails("eventError", event)
    /\ UNCHANGED <<mainVars, memory, references, state, error, audio, ready,
                   connection, finalizer, reply, errors>>

(* The reply: an error of the connection, no dictionary or one of another  *)
(* kind, the broker's refusal, or a grant.                                 *)
HandleReply ==
    /\ Idle /\ reply = "due"
    /\ reply' = "running"
    /\ IF state # "alive"
       THEN handler' = "replyRelease" /\ UNCHANGED failing
       ELSE \/ \E what \in ReportedErrors : Fails("replyError", what)
            \/ handler' = "replyMap" /\ UNCHANGED failing
    /\ UNCHANGED <<mainVars, memory, references, state, error, audio, ready,
                   connection, finalizer, event, errors>>

(* Mutant: main is woken whatever has become of the mapping. *)
MapUnchecked ==
    /\ handler = "replyMap"
    /\ audio' \in {"none", "mapped"}
    /\ handler' = "replySignal"
    /\ UNCHANGED <<mainVars, memory, references, state, error, ready, xpcVars,
                   failing>>

Map ==
    /\ handler = "replyMap"
    /\ \/ audio' = "mapped" /\ handler' = "replySignal" /\ UNCHANGED failing
       \/ Fails("replyError", "EPROTO") /\ UNCHANGED audio
    /\ UNCHANGED <<mainVars, memory, references, state, error, ready, xpcVars>>

StoreError ==
    /\ handler \in {"eventError", "replyError"}
    /\ error' = IF error = NoError THEN failing ELSE error
    /\ handler' = IF handler = "eventError" THEN "eventAlive" ELSE "replyAlive"
    /\ UNCHANGED <<mainVars, memory, references, state, audio, ready, xpcVars,
                   failing>>

(* the handle is dead; *)
StoreAlive ==
    /\ handler \in {"eventAlive", "replyAlive"}
    /\ state' = IF state = "alive" THEN "dead" ELSE state
    /\ handler' = IF handler = "eventAlive" THEN "eventSignal" ELSE "replySignal"
    /\ UNCHANGED <<mainVars, memory, references, error, audio, ready, xpcVars,
                   failing>>

(* and main is woken, as it is by a grant. *)
Signal ==
    /\ handler \in {"eventSignal", "replySignal"}
    /\ ready' = ready + 1
    /\ handler' = IF handler = "eventSignal" THEN "idle" ELSE "replyRelease"
    /\ failing' = NoError
    /\ UNCHANGED <<mainVars, memory, references, state, error, audio, xpcVars>>

ReplyDone ==
    /\ handler = "replyRelease"
    /\ ReleaseReader
    /\ reply' = "done"
    /\ handler' = "idle"
    /\ UNCHANGED <<mainVars, state, error, ready, connection, finalizer, event,
                   errors, failing>>

-----------------------------------------------------------------------------
OpenStep ==
    \/ Create \/ CreateFails \/ RequirementFails \/ Activate \/ Send
    \/ Woken \/ TimesOut \/ CheckAlive

CloseStep == StoreClosed \/ Cancel \/ ReleaseConnection

XPCStep ==
    \/ ErrorArrives \/ Finalize
    \/ HandleEvent \/ HandleReply \/ Map \/ StoreError \/ StoreAlive \/ Signal \/ ReplyDone

Next == OpenStep \/ CloseCalled \/ CloseStep \/ XPCStep

Spec == Init /\ [][Next]_vars

-----------------------------------------------------------------------------
(* Properties *)

TypeOK ==
    /\ mpc \in {"idle", "activate", "send", "wait", "check", "open", "close", "cancel",
                "release", "failed", "closed"}
    /\ result \in OpenErrors \union {NoError}
    /\ memory \in {"none", "allocated", "freed"}
    /\ references \in Nat /\ ready \in Nat
    /\ state \in {"none", "alive", "dead", "closed"}
    /\ finalizer \in {"none", "due", "done"}
    /\ error \in ReportedErrors \union {NoError}
    /\ audio \in {"none", "mapped"}
    /\ connection \in {"none", "inactive", "active", "cancelled", "released"}
    /\ event \in ConnectionErrors \union {NoError}
    /\ reply \in {"none", "due", "running", "done"}
    /\ errors \in Nat
    /\ failing \in ReportedErrors \union {NoError}

(* Main, a handler or the finalizer is about to use the handle's memory. *)
InUse ==
    \/ mpc \in {"activate", "send", "wait", "check", "open", "close", "cancel", "release"}
    \/ handler # "idle" \/ event # NoError \/ reply = "due"
    \/ finalizer = "due"

(* The reference count is what its two holders make of it, the memory and  *)
(* the mapping are there as long as anybody will still use them, whichever *)
(* of main, finalizer and reply comes last, and no longer.                 *)
HandleInvariant ==
    /\ TypeOK
    /\ references = (IF finalizer = "due" THEN 1 ELSE 0)
                    + (IF reply \in {"due", "running"} THEN 1 ELSE 0)
    /\ memory = "allocated" <=> references > 0
    /\ InUse => memory = "allocated"
    /\ audio = "mapped" => memory = "allocated"

(* An open that succeeds comes with a mapping, one that was woken by a     *)
(* failure has its reason, which main prints (forwarder/main.m:724): also  *)
(* when an error, the reply and the timeout race for the handle.           *)
OpenIsHonest ==
    /\ mpc = "open" => audio = "mapped"
    /\ mpc = "check" /\ state # "alive" => error # NoError
=============================================================================
