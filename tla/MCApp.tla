-------------------------------- MODULE MCApp --------------------------------
(***************************************************************************)
(* The program with one handler thread of the portal.                      *)
(***************************************************************************)
EXTENDS DeviceApp, TLC

CONSTANTS Http, CliCalls, HttpCalls

ConnSymmetry == Permutations(Conns)

AppMenu ==
  [t \in {Cli, Http} |->
     IF t = Cli THEN {"login", "connect", "register", "request", "reconnect",
                      "shutdown"}
     ELSE {"request", "reconnect"}]
AppCalls == [t \in {Cli, Http} |-> IF t = Cli THEN CliCalls ELSE HttpCalls]
=============================================================================
