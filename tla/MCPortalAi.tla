----------------------------- MODULE MCPortalAi -----------------------------
(***************************************************************************)
(* One prompt after another, with the model's full name and another tag of *)
(* it among the names Ollama may list.                                     *)
(***************************************************************************)
EXTENDS PortalAi

DefaultPolicy ==
  [high_total |-> 24, high_available |-> 8, high_cores |-> 8,
   medium_total |-> 8, medium_available |-> 2, medium_cores |-> 4]
Qwen == [total |-> 24, available |-> 8, vram |-> 0]
=============================================================================
