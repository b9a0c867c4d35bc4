-------------------------- MODULE MCOutputSelection --------------------------
(* OutputSelection with three real outputs, which the helper and the app   *)
(* rank differently.                                                       *)
EXTENDS OutputSelection

CONSTANTS speaker, display, headphones

MCReal == {speaker, display, headphones}
MCByPriority == <<display, headphones, speaker>>
MCByName == <<headphones, speaker, display>>
=============================================================================
