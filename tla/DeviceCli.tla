------------------------------ MODULE DeviceCli ------------------------------
(***************************************************************************)
(* main of client/core_device_client.py from login on: connect, register,  *)
(* start the portal, the command loop, and the finally clause.  The main   *)
(* thread is Cli; Ctrl-C may reach it anywhere.                            *)
(***************************************************************************)
EXTENDS ClientPortal

CONSTANTS
  Cli,        \* the main thread
  CtrlC       \* whether the user may press it

ASSUME CliAssumption == Cli \in Threads \ Handlers /\ CtrlC \in BOOLEAN

VARIABLES
  main,     \* where main is
  closedBy  \* history: how shutdown ended: none, alone, or overlapped by a
            \* call of a handler

cliVars == <<main, closedBy>>

\* The places where main is in a call on the client object, with that call.
MainCall == [login |-> "login", connect |-> "connect", register |-> "register",
             discover |-> "request", reconnect |-> "reconnect",
             shutdown |-> "shutdown"]
Mains == DOMAIN MainCall \cup {"portal", "prompt", "stop", "ended", "exited"}

CliTypeOK ==
  /\ main \in Mains
  /\ closedBy \in {"none", "alone", "overlapped"}

CliInit == main = "login" /\ closedBy = "none"

-----------------------------------------------------------------------------
MainCalls ==
  /\ main \in DOMAIN MainCall
  /\ Call(Cli) /\ op'[Cli] = MainCall[main]
  /\ UNCHANGED <<portalVars, cliVars>>

MainContinues ==
  /\ pc[Cli] # "return" /\ Continue(Cli)
  /\ UNCHANGED <<portalVars, cliVars>>

\* Where main goes on when its call ends.  The loop reports a
\* DeviceClientError and prompts again; anything else leaves it.
NextMain(m, how) ==
  CASE m = "login" -> "connect"
    [] m = "connect" -> IF how = "ok" THEN "register" ELSE "stop"
    [] m = "register" -> IF how = "ok" THEN "portal" ELSE "stop"
    [] m \in {"discover", "reconnect"} -> IF how = "raw" THEN "stop" ELSE "prompt"
    [] m = "shutdown" -> "ended"

MainReturns ==
  /\ pc[Cli] = "return"
  /\ main' = NextMain(main, result[Cli])
  /\ closedBy' = IF main # "shutdown" THEN closedBy
                 ELSE IF overlap[Cli] THEN "overlapped" ELSE "alone"
  /\ Return(Cli)
  /\ UNCHANGED portalVars

StartPortal ==
  /\ main = "portal"
  /\ StartServer
  /\ main' = "prompt"
  /\ UNCHANGED <<closedBy, clientVars, link>>

\* quit, exit and end of file leave the loop; session only displays.  A call
\* is kept back for shutdown.
Prompt ==
  /\ main = "prompt"
  /\ \/ main' = "stop"
     \/ calls[Cli] + 1 < MaxCalls[Cli] /\ main' \in {"discover", "reconnect"}
  /\ UNCHANGED <<closedBy, portalVars, clientVars, link>>

StopPortal ==
  /\ main = "stop"
  /\ StopServer
  /\ main' = "shutdown"
  /\ UNCHANGED <<closedBy, clientVars, link>>

\* KeyboardInterrupt in main's call: with and finally clauses run, except
\* Exception does not.  A read may be cut within a frame.
Abort ==
  /\ pc[Cli] # "idle"
  /\ pc' = [pc EXCEPT ![Cli] = "idle"]
  /\ op' = [op EXCEPT ![Cli] = "none"]
  /\ ret' = [ret EXCEPT ![Cli] = "return"]
  /\ closing' = [closing EXCEPT ![Cli] = None]
  /\ held' = [held EXCEPT ![Cli] = None]
  /\ msg' = [msg EXCEPT ![Cli] = None]
  /\ resp' = [resp EXCEPT ![Cli] = None]
  /\ oldId' = [oldId EXCEPT ![Cli] = None]
  /\ result' = [result EXCEPT ![Cli] = "none"]
  /\ overlap' = [overlap EXCEPT ![Cli] = FALSE]
  /\ ioLock' = IF ioLock = Cli THEN None ELSE ioLock
  /\ LET s == held[Cli] IN
       IF ioLock = Cli
         THEN /\ unclean' = unclean \cup {s}
              /\ \E b \in {torn[s], down[s] # <<>>} : torn' = [torn EXCEPT ![s] = b]
         ELSE UNCHANGED <<unclean, torn>>
  /\ Collected(sock, closing', held')
  /\ UNCHANGED <<credential, sock, session, calls, listening, hEnd, up>>

\* Before the finally clause Ctrl-C leads to it; within it, out of it.  Before
\* the try statement there is nothing to clean up.
Interrupt ==
  /\ CtrlC
  /\ main \notin {"login", "ended", "exited"}
  /\ Abort \/ (pc[Cli] = "idle" /\ UNCHANGED <<clientVars, link>>)
  /\ main' = IF main \in {"stop", "shutdown"} THEN "ended" ELSE "stop"
  /\ UNCHANGED <<closedBy, portalVars>>

\* The process ends: the handlers are daemon threads, and the kernel closes
\* what is open.
Exit ==
  /\ main = "ended"
  /\ main' = "exited"
  /\ ClientCloses({c \in Conns : cEnd[c] = "open"})
  /\ UNCHANGED <<closedBy, portalVars, clientVars, listening, hEnd, up, torn,
                 unclean>>

\* What main does without the user.
Main ==
  \/ MainCalls \/ MainContinues \/ MainReturns
  \/ StartPortal \/ StopPortal \/ Exit
=============================================================================
