--------------------------- MODULE MCAppLifecycle ---------------------------
(* What Core Audio may answer and what may fail, for the configurations of *)
(* AppLifecycle.                                                           *)
EXTENDS AppLifecycle

Obeyed == {"ok"}
ObeyedOrRejected == {"ok", "rejected"}
ObeyedOrDropped == {"ok", "dropped"}

HelperFaults == {"launch", "crash"}
AllFaults == {"launch", "unplug", "driver", "crash"}
=============================================================================
