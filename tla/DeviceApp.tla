------------------------------ MODULE DeviceApp ------------------------------
(***************************************************************************)
(* The running program: main and its command loop, the portal with its     *)
(* handler threads, the client object they share, and the host.            *)
(***************************************************************************)
EXTENDS DeviceCli, CoreHost

appVars == <<clientVars, portalVars, cliVars, hostVars, link>>

AppInit == WireInit /\ ClientInit /\ PortalInit /\ CliInit /\ HostInit

\* The process has ended and the host has nothing left to do.
Over ==
  /\ main = "exited"
  /\ UNCHANGED appVars

AppMain == Main /\ UNCHANGED hostVars

AppHandler(t) ==
  main # "exited" /\ Handle(t) /\ UNCHANGED <<cliVars, hostVars>>

HostHandler(c) == Handler(c) /\ UNCHANGED <<clientVars, portalVars, cliVars>>

\* The user at the prompt, the browser, and what befalls the host.
Outside ==
  \/ (Prompt \/ Interrupt) /\ UNCHANGED hostVars
  \/ \E t \in Handlers :
       main # "exited" /\ Accept(t) /\ UNCHANGED <<cliVars, hostVars, link>>
  \/ Environment /\ UNCHANGED <<clientVars, portalVars, cliVars>>

AppNext ==
  \/ AppMain
  \/ \E t \in Handlers : AppHandler(t)
  \/ \E c \in Conns : HostHandler(c)
  \/ Outside
  \/ Over

AppSpec == AppInit /\ [][AppNext]_appVars

\* Every thread inside a call goes on, since every socket operation has a
\* timeout, and so do the host's handlers.  The user need not type, the
\* browser need not ask, and nobody need interrupt.
AppFairness ==
  /\ WF_appVars(AppMain)
  /\ \A t \in Handlers : WF_appVars(AppHandler(t))
  /\ \A c \in Conns : WF_appVars(HostHandler(c))

AppFairSpec == AppSpec /\ AppFairness

AppTypeOK ==
  WireTypeOK /\ ClientTypeOK /\ PortalTypeOK /\ CliTypeOK /\ HostTypeOK

-----------------------------------------------------------------------------
\* Once a shutdown that no handler's call overlapped has ended, the client is
\* empty and stays so: a handler that passed its check before the shutdown is
\* refused by the guards of the call it makes after it.
ShutdownIsFinal ==
  closedBy = "alone" =>
    credential = None /\ sock = None /\ token = None /\ ~registered

\* An answer claims something of the host's: devices or records it lists, or
\* the online of /api/devices and /api/rescs.
Claims(t) ==
  answer[t].listed \/ (serves[t] = "devices" /\ answer[t].says = "online")

\* What the portal lists, and its claim with it that the host is online, is
\* what the host itself answered to that very request, as a device registered
\* on the connection the request was sent on; never what the session looked
\* like when it was checked.  The online of /api/network claims less: that a
\* probe of the port got through.
ListedIsAnswered ==
  [][\A t \in Handlers :
       ~Claims(t) /\ Claims(t)' =>
         /\ resp[t] # None
         /\ resp[t].type = "RESPONSE" /\ resp[t].rid = msg[t].rid
         /\ held[t] \in device /\ msg[t].secret = held[t]]_appVars

\* Every call the command loop has begun returns: main never waits for ever
\* for the lock, whatever the handlers do in their calls.
CallsReturn == pc[Cli] # "idle" ~> pc[Cli] = "idle"

\* Every HTTP request is answered, or the process ends.
RequestsAnswered ==
  \A t \in Handlers : stage[t] # "free" ~> stage[t] = "free" \/ main = "exited"

\* Once the loop is left, the process ends, whatever the handlers are doing.
QuitEnds == main = "stop" ~> main = "exited"

\* What the client has closed, by a call or by the end of the process, the
\* host forgets: its handler finishes and the registry does not name it.  So
\* the device is marked offline after "Quit" (docs/lan-testing.md, step 7).
ClosedIsForgotten ==
  \A c \in Conns : cEnd[c] = "closed" ~> regConn # c /\ hpc[c] = "finished"

-----------------------------------------------------------------------------
(* What the repository says and the code does not keep *)

\* "client reconnect (same open app, no re-login) restores online"
\* (docs/lan-testing.md:47-49): a reconnect command that fails leaves the app
\* open and the user logged in.
ReconnectKeepsLogin == [][main = "reconnect" => main' # "stop"]_appVars
=============================================================================
