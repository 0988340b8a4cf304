------------------------------- MODULE MCSolo -------------------------------
(***************************************************************************)
(* One thread: the command loop without the portal, a script or a test.    *)
(***************************************************************************)
EXTENDS DeviceSystem

CONSTANTS Cli, Calls, CliOps

SoloMenu == [t \in {Cli} |-> CliOps]
SoloCalls == [t \in {Cli} |-> Calls]
=============================================================================
