------------------------------- MODULE MCPair -------------------------------
(***************************************************************************)
(* Two threads on one client object: the command loop, and a handler       *)
(* thread of the portal, which outlives portal.stop().                     *)
(***************************************************************************)
EXTENDS DeviceSystem, TLC

CONSTANTS Cli, Portal, CliCalls, PortalCalls, CliOps, PortalOps

PairMenu == [t \in {Cli, Portal} |-> IF t = Cli THEN CliOps ELSE PortalOps]
PairCalls == [t \in {Cli, Portal} |-> IF t = Cli THEN CliCalls ELSE PortalCalls]
ConnSymmetry == Permutations(Conns)
=============================================================================
