-------------------------- MODULE ReaderHandle_proofs --------------------------
(***************************************************************************)
(* Proofs about ReaderHandle, for any number of errors of the connection:  *)
(* the memory of the handle outlives every use of it and is not leaked,    *)
(* and an open ends with a mapping or with a reason.                       *)
(***************************************************************************)
EXTENDS ReaderHandle, TLAPS

ErrorHandler == handler \in {"eventError", "eventAlive", "eventSignal"}
ReplyHandler ==
    handler \in {"replyMap", "replyError", "replyAlive", "replySignal", "replyRelease"}

(* How far main is decides what the connection is, and the finalizer is    *)
(* there from its creation until it is released.                           *)
MainShape ==
    /\ mpc = "idle" =>
          /\ connection = "none" /\ memory = "none" /\ audio = "none"
          /\ state = "none" /\ ready = 0
    /\ mpc \in {"activate", "send"} => reply = "none"
    /\ mpc = "activate" => ready = 0 /\ event = NoError /\ handler = "idle"
    /\ connection = "inactive" <=> mpc = "activate"
    /\ connection = "active" <=> mpc \in {"send", "wait", "check", "open", "close", "cancel"}
    /\ connection = "cancelled" <=> mpc = "release"
    /\ connection \in {"inactive", "active", "cancelled"} => finalizer = "due"
    /\ connection = "none" => finalizer = "none" /\ reply = "none"

(* A handler runs on behalf of a reply or of an error, and an error, unlike *)
(* a reply, comes before the finalizer.                                    *)
HandlerShape ==
    /\ handler = "idle" \/ ErrorHandler \/ ReplyHandler
    /\ ReplyHandler <=> reply = "running"
    /\ ErrorHandler \/ event # NoError => finalizer = "due"

(* Main is woken once the mapping is made or the handle is dead; a handle  *)
(* that dies before main has closed it has an error.                       *)
WokenForAReason ==
    /\ ready > 0 \/ mpc = "check" \/ handler = "replySignal" =>
          audio = "mapped" \/ state # "alive"
    /\ handler = "eventSignal" => state # "alive"
    /\ handler \in {"eventError", "replyError"} => failing # NoError
    /\ handler \in {"eventAlive", "replyAlive"} => error # NoError
    /\ mpc \in {"activate", "send", "wait", "check"} => state = "alive" \/ error # NoError
    /\ connection \in {"cancelled", "released"} /\ state = "alive" =>
          ready = 0 /\ handler = "idle" /\ reply = "none" /\ event = NoError
    /\ mpc = "cancel" => state # "alive"

IInv ==
    /\ HandleInvariant
    /\ MainShape
    /\ HandlerShape
    /\ WokenForAReason
    /\ OpenIsHonest

-----------------------------------------------------------------------------
(* A handle that has not been opened satisfies the invariant. *)
LEMMA InitInvariant == Init => IInv
BY HandleAssumption
   DEF Init, IInv, HandleInvariant, TypeOK, InUse, MainShape, HandlerShape, ErrorHandler,
       ReplyHandler, WokenForAReason, OpenIsHonest, NoError, ReportedErrors,
       ConnectionErrors, OpenErrors

(* Every step of main, of a handler and of the finalizer keeps it: each     *)
(* access to the handle is made by a holder of a reference, and each store *)
(* of a handler comes before the signal that lets main see it.             *)
LEMMA StepInvariant == IInv /\ [Next]_vars => IInv'
<1> SUFFICES ASSUME IInv, [Next]_vars PROVE IInv'
    OBVIOUS
<1> USE DEF IInv, HandleInvariant, TypeOK, InUse, MainShape, HandlerShape, ErrorHandler,
            ReplyHandler, WokenForAReason, OpenIsHonest, NoError, ReportedErrors,
            ConnectionErrors, OpenErrors, mainVars, xpcVars, handlerVars
<1>1. CASE Create
    BY <1>1 DEF Create
<1>2. CASE CreateFails
    BY <1>2 DEF CreateFails
<1>3. CASE RequirementFails
    BY <1>3 DEF RequirementFails
<1>4. CASE Activate
    BY <1>4 DEF Activate
<1>5. CASE Send
    BY <1>5 DEF Send
<1>6. CASE Woken
    BY <1>6 DEF Woken
<1>7. CASE TimesOut
    BY <1>7 DEF TimesOut
<1>8. CASE CheckAlive
    BY <1>8 DEF CheckAlive
<1>9. CASE CloseCalled
    BY <1>9 DEF CloseCalled
<1>10. CASE StoreClosed
    BY <1>10 DEF StoreClosed
<1>11. CASE Cancel
    BY <1>11 DEF Cancel
<1>12. CASE ReleaseConnection
    BY <1>12 DEF ReleaseConnection
<1>13. CASE ErrorArrives
    BY <1>13 DEF ErrorArrives
<1>14. CASE Finalize
    BY <1>14 DEF Finalize, ReleaseReader
<1>15. CASE HandleEvent
    BY <1>15 DEF HandleEvent, Idle, Fails
<1>16. CASE HandleReply
    BY <1>16 DEF HandleReply, Idle, Fails
<1>17. CASE Map
    BY <1>17 DEF Map, Fails
<1>18. CASE StoreError
    BY <1>18 DEF StoreError
<1>19. CASE StoreAlive
    BY <1>19 DEF StoreAlive
<1>20. CASE Signal
    BY <1>20 DEF Signal
<1>21. CASE ReplyDone
    BY <1>21 DEF ReplyDone, ReleaseReader
<1>22. CASE UNCHANGED vars
    BY <1>22 DEF vars
<1> QED
    BY <1>1, <1>2, <1>3, <1>4, <1>5, <1>6, <1>7, <1>8, <1>9, <1>10,
       <1>11, <1>12, <1>13, <1>14, <1>15, <1>16, <1>17, <1>18, <1>19, <1>20,
       <1>21, <1>22
    DEF Next, OpenStep, CloseStep, XPCStep

(* The strengthened invariant holds, for any number of errors. *)
THEOREM Invariance == Spec => []IInv
BY InitInvariant, StepInvariant, PTL DEF Spec

(* The reference count is exact, and the memory and the mapping of a handle *)
(* outlive every use by main, the handlers and the finalizer, and nothing  *)
(* else (common/SecureAudioReader.c:15, 65).                               *)
THEOREM HandleSafety == Spec => []HandleInvariant
<1>1. IInv => HandleInvariant
    BY DEF IInv
<1> QED
    BY <1>1, Invariance, PTL

(* SVCReaderOpen returns a handle with a mapping, or a reason.             *)
THEOREM OpenHonesty == Spec => []OpenIsHonest
<1>1. IInv => OpenIsHonest
    BY DEF IInv
<1> QED
    BY <1>1, Invariance, PTL

(* Type correctness. *)
THEOREM HandleTypes == Spec => []TypeOK
<1>1. IInv => TypeOK
    BY DEF IInv, HandleInvariant
<1> QED
    BY <1>1, Invariance, PTL
=============================================================================
