---------------------------- MODULE MCPortalShown ----------------------------
(***************************************************************************)
(* What the portal shows: the summary of the session, the recent records   *)
(* and the network.  The three share no state and no property speaks of    *)
(* two, so a behaviour moves one of them, whichever, and only that one.    *)
(*                                                                         *)
(* The session: one thread calls the client and a reader displays it.  The *)
(* first lease runs out while the clock runs, the second has no date.      *)
(* The network: the step is half the latitudes' limit, and the coordinates *)
(* hold a tie, the limit and a number beyond it.                           *)
(***************************************************************************)
EXTENDS SessionView, PortalRecent, PortalNetwork, TLC

CONSTANTS Cli, Calls, First

ViewMenu ==
  [t \in {Cli} |-> {"login", "reconnect", "mark_disconnected"}]
ViewCalls == [t \in {Cli} |-> Calls]
ViewExpiry == [c \in Conns |-> IF c = First THEN 2 ELSE None]

Symmetric == Permutations(Handlers) \cup Permutations(Devices)

VARIABLE part   \* the part that moves

ShownVars == <<part, svVars, recentVars, networkVars>>

ShownInit ==
  /\ part \in {"session", "recent", "network"}
  /\ Init /\ ViewInit
  /\ RecentInit
  /\ NetworkInit /\ (part # "network" => host = {})

ShownNext ==
  \/ part = "session" /\ ViewNext /\ UNCHANGED <<part, recentVars, networkVars>>
  \/ part = "recent" /\ RecentNext /\ UNCHANGED <<part, svVars, networkVars>>
  \/ part = "network" /\ NetworkNext /\ UNCHANGED <<part, svVars, recentVars>>

ShownSpec == ShownInit /\ [][ShownNext]_ShownVars
=============================================================================
