------------------------------ MODULE AppProofs ------------------------------
(***************************************************************************)
(* Proofs about DeviceApp, for any number of handler threads, connections  *)
(* and calls: its types, that what a portal lists is an answer of the      *)
(* host, and that a shutdown nobody overlaps leaves nothing behind.        *)
(* What SoloProofs and DeviceSystemProofs show of any threads that use the *)
(* client object holds here too: the program adds Ctrl-C and its own end.  *)
(***************************************************************************)
EXTENDS DeviceApp, SoloProofs

-----------------------------------------------------------------------------
(* Where main and the handlers are *)

\* A thread is in a call on the client object exactly where its own place in
\* the program says so, and in that call; no other thread is in any.  Only
\* api_network probes a second time.
StageOK ==
  /\ \A t \in Handlers :
       IF stage[t] = "calling" THEN op[t] = CallOf(serves[t]) /\ pc[t] # "idle"
       ELSE pc[t] = "idle"
  /\ \A t \in Handlers : stage[t] = "reprobe" => serves[t] = "network"
  /\ pc[Cli] # "idle" => main \in DOMAIN MainCall /\ op[Cli] = MainCall[main]
  /\ \A t \in Threads \ (Handlers \cup {Cli}) : pc[t] = "idle"

Staged == PortalTypeOK /\ CliTypeOK /\ StageOK

\* The host served the request of t, on the connection it was sent on.
Answered(t) ==
  /\ resp[t] \in DownFrames
  /\ resp[t].type = "RESPONSE" /\ resp[t].rid = msg[t].rid
  /\ held[t] \in device /\ msg[t].secret = held[t]

\* A request can only succeed by an answer: its other ways out, and the close
\* of the socket that some of them take, end in an error.
RequestCall(t) ==
  op[t] = "request" =>
    /\ pc[t] \in {"cs_swap", "cs_shut", "cs_clear", "l_clear", "return"}
                 \cup RequestPcs
    /\ pc[t] \in {"cs_swap", "cs_shut", "cs_clear"} => ret[t] = "l_clear"
    /\ result[t] = "ok" => pc[t] = "return" /\ Answered(t)

\* A shutdown that no other call overlaps has taken the session down as far as
\* it has come, and then the login.
Ends ==
  pc[Cli] # "idle" /\ op[Cli] = "shutdown" /\ ~overlap[Cli] =>
    /\ Sound(Cli)
    /\ pc[Cli] \in {"cs_swap", "cs_shut", "cs_clear", "o_close", "o_cred",
                    "l_clear", "return"}
    /\ pc[Cli] \in {"cs_swap", "cs_shut", "cs_clear"} =>
         ret[Cli] \in {"o_close", "o_cred"}
    /\ pc[Cli] \in {"l_clear", "return"} => credential = None

\* After it the client object is empty, and the guards refuse every call.
Final ==
  closedBy = "alone" =>
    /\ main \in {"ended", "exited"}
    /\ credential = None /\ sock = None /\ Clear
    /\ \A t \in Threads : pc[t] \in {"idle", "return"}

\* What holds of any threads that use the client object.
Inherited == Shared /\ IOExclusion /\ RequestInv /\ LoneInv

AppInv ==
  /\ Inherited
  /\ Staged
  /\ \A t \in Threads : RequestCall(t)
  /\ Ends /\ Final

-----------------------------------------------------------------------------
(* What the program adds to the threads of the client *)

\* Besides the calls of its threads the program only has Ctrl-C and its end.
LEMMA AppSteps ==
  ASSUME [AppNext]_appVars
  PROVE  \/ [Next]_vars
         \/ (Abort \/ Exit) /\ UNCHANGED hostVars
<1> USE PortalAssumption, CliAssumption
<1>1. ASSUME AppMain
      PROVE  [Next]_vars \/ (Exit /\ UNCHANGED hostVars)
  BY <1>1 DEF AppMain, Main, MainCalls, MainContinues, MainReturns, StartPortal,
     StopPortal, Next, Continue, vars
<1>2. ASSUME NEW t \in Handlers, AppHandler(t) PROVE [Next]_vars
  BY <1>2 DEF AppHandler, Handle, Probe, Gate, Reprobe, Use, Reply, Next, Continue,
     vars
<1>3. ASSUME NEW c \in Conns, HostHandler(c) PROVE [Next]_vars
  BY <1>3 DEF HostHandler, Next, vars
<1>4. ASSUME Outside PROVE [Next]_vars \/ (Abort /\ UNCHANGED hostVars)
  BY <1>4 DEF Outside, Prompt, Interrupt, Accept, Next, vars
<1>5. ASSUME Over \/ UNCHANGED appVars PROVE [Next]_vars
  BY <1>5 DEF Over, appVars, vars
<1> QED BY <1>1, <1>2, <1>3, <1>4, <1>5 DEF AppNext

\* A step of a thread or of the host keeps what it kept without the program.
LEMMA InheritedNext == Inherited /\ [Next]_vars => Inherited'
BY SharedNext, IOExclusionNext, RequestNext, LoneInvNext DEF Inherited, Shared

\* Ctrl-C in a call of main releases the lock main holds, and drops the locals
\* of the call; no other call is then free of overlap.
LEMMA AbortKeeps ==
  ASSUME Inherited, Abort, UNCHANGED hostVars
  PROVE  Inherited'
<1> USE CliAssumption, WireAssumption
<1> DEFINE s == held[Cli]
<1>0. /\ TypeInv /\ Told /\ RegistryBacked /\ OneOnline
      /\ IOExclusion /\ RequestInv /\ LoneInv
  BY DEF Inherited, Shared
<1>1. /\ WireTypeOK /\ ClientTypeOK /\ HostTypeOK /\ LocalsOK
      /\ pc \in [Threads -> Pcs]
  BY <1>0 DEF TypeInv, TypeOK, ClientTypeOK
<1>2. ioLock = Cli => s \in Conns
  BY <1>0, <1>1 DEF IOExclusion, LocalsOK, HeldPcs
<1>3. /\ Cli \in Threads /\ pc[Cli] # "idle"
      /\ pc' = [pc EXCEPT ![Cli] = "idle"] /\ pc'[Cli] = "idle"
      /\ \A u \in Threads \ {Cli} : pc'[u] = pc[u]
  BY <1>1 DEF Abort
<1>4. \A u \in Threads \ {Cli} :
        /\ op'[u] = op[u] /\ ret'[u] = ret[u] /\ closing'[u] = closing[u]
        /\ held'[u] = held[u] /\ msg'[u] = msg[u] /\ resp'[u] = resp[u]
        /\ oldId'[u] = oldId[u] /\ result'[u] = result[u]
        /\ overlap'[u] = overlap[u]
  BY <1>1, Zenon DEF Abort, ClientTypeOK
<1>5. /\ held'[Cli] = None /\ closing'[Cli] = None /\ oldId'[Cli] = None
      /\ result'[Cli] = "none"
  BY <1>1, <1>3 DEF Abort, ClientTypeOK
<1>6. /\ UNCHANGED <<credential, sock, session, calls, listening, hEnd, up>>
      /\ UNCHANGED <<device, hpc, regConn, devConn, status, identity>>
      /\ Collected(sock, closing', held')
  BY DEF Abort, hostVars, registry
<1>7. \A c \in Conns : /\ Frames(down'[c]) \subseteq Frames(down[c])
                       /\ cEnd'[c] = "unused" => cEnd[c] = "unused"
  BY <1>1, <1>6, ClosingDrops DEF Collected, ClientCloses
<1>8. TypeInv'
  <2>1. cEnd' \in [Conns -> EndStates] /\ down' \in [Conns -> Seq(DownFrames)]
    BY <1>1, <1>6, CollectedTyped
  <2>2. torn' \in [Conns -> BOOLEAN] /\ unclean' \subseteq Conns
    <3>1. CASE ioLock = Cli
      <4>1. PICK b \in {torn[s], down[s] # <<>>} : torn' = [torn EXCEPT ![s] = b]
        BY <3>1 DEF Abort
      <4>2. b \in BOOLEAN
        BY <1>1, <1>2, <3>1, <4>1 DEF WireTypeOK
      <4> QED BY <1>1, <1>2, <3>1, <4>1, <4>2 DEF WireTypeOK, Abort
    <3>2. CASE ioLock # Cli
      BY <1>1, <3>2 DEF WireTypeOK, Abort
    <3> QED BY <3>1, <3>2
  <2>3. WireTypeOK'
    BY <1>1, <1>6, <2>1, <2>2 DEF WireTypeOK
  <2>4. ClientTypeOK'
    <3>1. overlap' \in [Threads -> BOOLEAN]
      BY <1>1 DEF Abort, ClientTypeOK
    <3> QED
      BY <1>1, <3>1 DEF Abort, ClientTypeOK, Pcs, ReturnPcs, Results, session
  <2>5. HostTypeOK'
    BY <1>1 DEF HostTypeOK, hostVars, registry
  <2>6. LocalsOK'
    BY <1>1, <1>3, <1>4 DEF LocalsOK, MsgPcs, HeldPcs, RespPcs, ReceivePcs
  <2> QED BY <2>3, <2>4, <2>5, <2>6 DEF TypeInv, TypeOK
<1>9. Told'
  <2>1. DownSays'
    BY <1>0, <1>6, <1>7 DEF Told, DownSays
  <2>2. RespSays'
    BY <1>0, <1>3, <1>4, <1>6 DEF Told, RespSays
  <2>3. Dialled'
    BY <1>0, <1>4, <1>5, <1>6, <1>7 DEF Told, Dialled, session
  <2> QED BY <2>1, <2>2, <2>3 DEF Told
<1>10. RegistryBacked' /\ OneOnline'
  BY <1>0, <1>6 DEF RegistryBacked, OneOnline
<1>11. IOExclusion'
  <2>1. ioLock' = IF ioLock = Cli THEN None ELSE ioLock
    BY DEF Abort
  <2> QED BY <1>0, <1>3, <2>1 DEF IOExclusion, ReceivePcs
<1>12. RequestInv'
  <2>2. MsgOwn' /\ ReplyOwn' /\ ServedInOwnSession'
    BY <1>0, <1>3, <1>4, <1>6
    DEF RequestInv, MsgOwn, ReplyOwn, ServedInOwnSession, RequestPcs, DrawnPcs
  <2>3. RidsPast'
    BY <1>0, <1>3, <1>6, <1>7 DEF RequestInv, RidsPast, DrawnPcs
  <2>4. \A u \in Threads : pc'[u] = "q_recv" => pc[u] = "q_recv" /\ msg'[u] = msg[u]
    BY <1>3, <1>4
  <2>5. UpOwn'
    BY <1>0, <1>6, <2>4 DEF RequestInv, UpOwn
  <2>6. DownOwn'
    BY <1>0, <1>6, <1>7, <2>4 DEF RequestInv, DownOwn
  <2> QED BY <2>2, <2>3, <2>5, <2>6 DEF RequestInv
<1>13. LoneInv'
  BY <1>0, <1>3, <1>4, <1>5 DEF LoneInv, OverlapSeen
<1> QED
  BY <1>8, <1>9, <1>10, <1>11, <1>12, <1>13 DEF Inherited, Shared

\* The end of the process closes what is open, and changes nothing else.
LEMMA ExitKeeps ==
  ASSUME Inherited, Exit, UNCHANGED hostVars
  PROVE  Inherited'
<1>0. /\ TypeInv /\ Told /\ RegistryBacked /\ OneOnline
      /\ IOExclusion /\ RequestInv /\ LoneInv
      /\ WireTypeOK /\ ClientTypeOK /\ HostTypeOK /\ LocalsOK
  BY DEF Inherited, Shared, TypeInv, TypeOK
<1>1. /\ UNCHANGED <<clientVars, listening, hEnd, up, torn, unclean>>
      /\ UNCHANGED <<credential, sock, token, connId, authenticated, registered,
                     lease, ioLock, pc, op, calls, ret, closing, held, msg,
                     resp, oldId, result, overlap>>
      /\ UNCHANGED <<hpc, identity, device, status, regConn, devConn, relays>>
      /\ ClientCloses({c \in Conns : cEnd[c] = "open"})
  BY DEF Exit, clientVars, object, session, inCall, locals, hostVars, registry
<1>2. \A c \in Conns : /\ Frames(down'[c]) \subseteq Frames(down[c])
                       /\ cEnd'[c] = "unused" => cEnd[c] = "unused"
  BY <1>0, <1>1, ClosingDrops DEF ClientCloses
<1>3. TypeInv'
  <2>1. WireTypeOK'
    BY <1>0, <1>1 DEF WireTypeOK, ClientCloses, EndStates
  <2>2. ClientTypeOK' /\ HostTypeOK' /\ LocalsOK'
    BY <1>0, <1>1 DEF ClientTypeOK, HostTypeOK, LocalsOK
  <2> QED BY <2>1, <2>2 DEF TypeInv, TypeOK
<1>4. DownSays' /\ RespSays' /\ Dialled'
  BY <1>0, <1>1, <1>2 DEF Told, DownSays, RespSays, Dialled
<1>5. RegistryBacked' /\ OneOnline' /\ IOExclusion'
  BY <1>0, <1>1 DEF RegistryBacked, OneOnline, IOExclusion
<1>6. MsgOwn' /\ ReplyOwn' /\ ServedInOwnSession'
  BY <1>0, <1>1 DEF RequestInv, MsgOwn, ReplyOwn, ServedInOwnSession
<1>7. RidsPast' /\ UpOwn' /\ DownOwn'
  BY <1>0, <1>1, <1>2 DEF RequestInv, RidsPast, UpOwn, DownOwn
<1>8. LoneInv'
  <2>1. \A t \in Threads : Sound(t)' = Sound(t) /\ Renews(t)' = Renews(t)
    BY <1>1 DEF Sound, Coherent, Clear, Renews
  <2> QED BY <1>0, <1>1, <2>1 DEF LoneInv, OverlapSeen
<1> QED
  BY <1>3, <1>4, <1>5, <1>6, <1>7, <1>8 DEF Inherited, Shared, Told, RequestInv

\* The program keeps what it inherits from the client and the host.
LEMMA InheritedKept == Inherited /\ [AppNext]_appVars => Inherited'
BY AppSteps, InheritedNext, AbortKeeps, ExitKeeps

-----------------------------------------------------------------------------
(* Where main and the handlers are *)

\* A call in progress only ends where it returns.
LEMMA GoesOn ==
  ASSUME TypeInv, NEW t \in Threads, Continue(t), pc[t] # "return"
  PROVE  pc'[t] # "idle"
<1> USE DEF TypeInv, TypeOK, ClientTypeOK, Goto, Finish, CloseThen, ConnectionLost
<1>1. CASE \/ CloseSwap(t) \/ CloseShut(t) \/ CloseClear(t) \/ ClearAgain(t)
           \/ LogoutCredential(t) \/ ShutdownLogout(t)
  BY <1>1 DEF CloseSwap, CloseShut, CloseClear, ClearAgain, LogoutCredential,
     ShutdownLogout, ReturnPcs
<1>2. CASE Send(t) \/ SendOnly(t) \/ Receive(t)
  BY <1>2 DEF Send, SendOnly, Receive, AfterSend, AfterReceive, ReceivePcs
<1>3. CASE \/ SendFails(t) \/ ReceiveFails(t) \/ ReceiveTorn(t)
           \/ ReceiveResync(t)
  BY <1>3, FailureMoves DEF SendFails, ReceiveFails, ReceiveTorn, ReceiveResync
<1>4. CASE RegisterBind(t)
  BY <1>4, FailureMoves DEF RegisterBind
<1>5. CASE \/ Dial(t) \/ DialFails(t) \/ Store(t) \/ Hello(t)
           \/ CommitHandshake(t) \/ TrackHandshake(t) \/ NoToken(t)
           \/ LeaseHandshake(t)
  BY <1>5 DEF Dial, DialFails, Store, Hello, CommitHandshake, TrackHandshake,
     NoToken, LeaseHandshake
<1>6. CASE \/ RegisterGuard(t) \/ CheckRegister(t) \/ TrackRegister(t)
           \/ LeaseRegister(t) \/ CheckReconnect(t) \/ RequestBind(t)
           \/ CheckResponse(t)
  BY <1>6 DEF RegisterGuard, CheckRegister, TrackRegister, LeaseRegister,
     CheckReconnect, RequestBind, CheckResponse
<1> QED
  BY <1>1, <1>2, <1>3, <1>4, <1>5, <1>6 DEF Continue, Return

\* Only its own return forgets that a call was overlapped.
LEMMA OverlapKept ==
  ASSUME TypeInv, NEW t \in Threads, Continue(t), NEW u \in Threads, u # t
  PROVE  overlap'[u] = overlap[u]
<1>1. CASE Return(t)
  BY <1>1 DEF Return, TypeInv, TypeOK, ClientTypeOK
<1>2. CASE ~Return(t)
  BY <1>2 DEF Continue, CloseSwap, CloseShut, CloseClear, ClearAgain,
     LogoutCredential, ShutdownLogout, Send, SendOnly, SendFails, Receive,
     ReceiveFails, ReceiveTorn, ReceiveResync, Dial, DialFails, Store, Hello,
     CommitHandshake, TrackHandshake, NoToken, LeaseHandshake, RegisterGuard,
     RegisterBind, CheckRegister, TrackRegister, LeaseRegister, CheckReconnect,
     RequestBind, CheckResponse, inCall
<1> QED BY <1>1, <1>2

\* Where a call returns it does nothing else,
LEMMA OnlyReturns ==
  ASSUME NEW t \in Threads, Continue(t), pc[t] = "return"
  PROVE  Return(t)
BY DEF Continue, CloseSwap, CloseShut, CloseClear, ClearAgain,
   LogoutCredential, ShutdownLogout, Send, SendOnly, SendFails, Receive,
   ReceiveFails, ReceiveTorn, ReceiveResync, ReceivePcs, Dial, DialFails,
   Store, Hello, CommitHandshake, TrackHandshake, NoToken, LeaseHandshake,
   RegisterGuard, RegisterBind, CheckRegister, TrackRegister, LeaseRegister,
   CheckReconnect, RequestBind, CheckResponse

\* ... and with its return the thread is in none.
LEMMA ReturnsIdle ==
  ASSUME TypeInv, NEW t \in Threads, Return(t)
  PROVE  pc[t] = "return" /\ pc'[t] = "idle" /\ op'[t] = "none"
BY DEF TypeInv, TypeOK, ClientTypeOK, Return, Goto

\* A call runs only while main or its handler waits for it, and a handler only
\* while the server takes requests.
LEMMA StageNext ==
  ASSUME TypeInv, Staged, [AppNext]_appVars
  PROVE  Staged'
<1> USE PortalAssumption, CliAssumption
<1>0. ASSUME NEW t \in Threads, Call(t) \/ Continue(t), NEW u \in Threads, u # t
      PROVE  pc'[u] = pc[u] /\ op'[u] = op[u]
  BY <1>0, OthersRest
<1>1. CASE MainCalls
  <2> USE DEF Staged, PortalTypeOK, CliTypeOK, StageOK
  <2>1. pc'[Cli] # "idle" /\ op'[Cli] = MainCall[main]
    BY <1>1, CallOverlaps DEF MainCalls
  <2> QED
    BY <1>0, <1>1, <2>1 DEF MainCalls, portalVars, cliVars
<1>2. CASE MainContinues
  <2> USE DEF Staged, PortalTypeOK, CliTypeOK, StageOK
  <2>1. pc[Cli] # "idle" /\ pc'[Cli] # "idle" /\ op'[Cli] = op[Cli]
    BY <1>2, ContinueAlone, GoesOn DEF MainContinues
  <2> QED
    BY <1>0, <1>2, <2>1 DEF MainContinues, portalVars, cliVars
<1>3. CASE MainReturns
  <2> USE DEF Staged, PortalTypeOK, CliTypeOK, StageOK
  <2>1. pc[Cli] = "return" /\ pc'[Cli] = "idle" /\ Continue(Cli)
    BY <1>3, ReturnsIdle DEF MainReturns, Continue
  <2>2. main \in DOMAIN MainCall
    BY <2>1
  <2>3. main' \in Mains /\ closedBy' \in {"none", "alone", "overlapped"}
    BY <1>3, <2>2 DEF MainReturns, NextMain, Mains, MainCall
  <2> QED
    BY <1>0, <1>3, <2>1, <2>3 DEF MainReturns, portalVars
<1>4. CASE StartPortal \/ StopPortal \/ Exit
  <2> USE DEF Staged, PortalTypeOK, CliTypeOK, StageOK
  <2> QED BY <1>4 DEF StartPortal, StopPortal, StartServer, StopServer, Exit, Mains,
     MainCall, clientVars, inCall, portalVars
<1>5. ASSUME NEW t \in Handlers, AppHandler(t)
      PROVE  Staged'
  <2> USE DEF Staged, PortalTypeOK, CliTypeOK, StageOK
  <2> USE <1>5 DEF At, Respond
  <2>0. UNCHANGED cliVars
    BY DEF AppHandler
  <2>1. CASE Probe(t) \/ Gate(t) \/ Reprobe(t)
    <3>1. CASE Probe(t)
      BY <2>0, <3>1 DEF Probe, clientVars, inCall, cliVars
    <3>2. CASE Gate(t)
      <4>1. CASE MayProceed(serves[t])
        BY <2>0, <3>2, <4>1 DEF Gate, clientVars, inCall, cliVars
      <4>2. CASE ~MayProceed(serves[t])
        <5>1. PICK a \in {"offline", "unavailable"} : Respond(t, a)
          BY <3>2, <4>2 DEF Gate
        <5>2. answer' \in [Handlers -> Answers]
          <6> DEFINE s == IF serves[t] = "network" THEN "none" ELSE a
          <6>1. s \in Statuses /\ (a = "online") = FALSE
            BY DEF Statuses
          <6>2. answer' = [answer EXCEPT ![t] = [says |-> s, listed |-> FALSE]]
            BY <5>1, <6>1
          <6> HIDE DEF s
          <6> QED BY <6>1, <6>2 DEF Answers
        <5> QED BY <2>0, <3>2, <5>1, <5>2 DEF Gate, clientVars, inCall, cliVars
      <4> QED BY <4>1, <4>2
    <3>3. CASE Reprobe(t)
      BY <2>0, <3>3 DEF Reprobe, Answers, Statuses, clientVars, inCall, cliVars
    <3> QED BY <2>1, <3>1, <3>2, <3>3
  <2>2. CASE Use(t)
    <3>1. pc'[t] # "idle" /\ op'[t] = CallOf(serves[t])
      BY <2>2, CallOverlaps DEF Use
    <3> QED BY <1>0, <2>0, <2>2, <3>1 DEF Use, cliVars
  <2>3. CASE Reply(t)
    <3>1. pc'[t] = "idle" /\ Continue(t)
      BY <2>3, ReturnsIdle DEF Reply, Continue
    <3>2. PICK a \in Outcomes(serves[t], result[t]) : Respond(t, a)
      BY <2>3 DEF Reply
    <3>3. a \in Statuses
      BY <3>2 DEF Outcomes, Statuses
    <3>4. answer' \in [Handlers -> Answers]
      <4> DEFINE b == a = "online"
                 s == IF serves[t] = "network" THEN "none" ELSE a
      <4>1. b \in BOOLEAN /\ s \in Statuses
        BY <3>3 DEF Statuses
      <4>2. answer' = [answer EXCEPT ![t] = [says |-> s, listed |-> b]]
        BY <3>2
      <4> HIDE DEF b, s
      <4> QED BY <4>1, <4>2 DEF Answers
    <3>5. /\ stage' = [stage EXCEPT ![t] = IF serves[t] = "network" THEN "reprobe"
                                           ELSE "free"]
          /\ UNCHANGED <<server, serves>>
      BY <3>2
    <3> QED BY <1>0, <2>0, <2>3, <3>1, <3>4, <3>5 DEF cliVars
  <2>4. CASE /\ stage[t] = "calling" /\ pc[t] # "return" /\ Continue(t)
             /\ UNCHANGED portalVars
    <3>1. pc'[t] # "idle" /\ op'[t] = op[t]
      BY <2>4, ContinueAlone, GoesOn
    <3> QED BY <1>0, <2>0, <2>4, <3>1 DEF portalVars, cliVars
  <2> QED BY <2>1, <2>2, <2>3, <2>4 DEF AppHandler, Handle
<1>6. CASE Prompt \/ (Interrupt /\ ~Abort)
  <2> USE DEF Staged, PortalTypeOK, CliTypeOK, StageOK
  <2> QED BY <1>6 DEF Prompt, Interrupt, Mains, MainCall, clientVars, inCall, portalVars
<1>7. CASE Interrupt /\ Abort
  <2> USE DEF Staged, PortalTypeOK, CliTypeOK, StageOK
  <2>1. pc'[Cli] = "idle" /\ \A u \in Threads \ {Cli} : pc'[u] = pc[u] /\ op'[u] = op[u]
    BY <1>7 DEF Abort, TypeInv, TypeOK, ClientTypeOK
  <2> QED BY <1>7, <2>1 DEF Interrupt, Mains, portalVars
<1>8. ASSUME NEW t \in Handlers, Accept(t), UNCHANGED cliVars
      PROVE  Staged'
  <2> USE DEF Staged, PortalTypeOK, CliTypeOK, StageOK
  <2> QED
    BY <1>8 DEF Accept, At, Answers, NoAnswer, Statuses, clientVars, inCall, cliVars
<1>9. CASE UNCHANGED <<clientVars, portalVars, cliVars>>
  <2> USE DEF Staged, PortalTypeOK, CliTypeOK, StageOK
  <2> QED BY <1>9 DEF clientVars, inCall, portalVars, cliVars
<1> QED
  BY <1>1, <1>2, <1>3, <1>4, <1>5, <1>6, <1>7, <1>8, <1>9
  DEF AppNext, AppMain, Main, HostHandler, Outside, Over, appVars

-----------------------------------------------------------------------------
(* A request succeeds only by an answer *)

\* A step of the thread itself: the answer it matches came on the connection
\* that the request went out on, from a host that knew the device there.
LEMMA RequestCallStep ==
  ASSUME TypeInv, RequestInv, LoneInv, NEW t \in Threads, RequestCall(t),
         Call(t) \/ Continue(t), UNCHANGED hostVars
  PROVE  RequestCall(t)'
<1> USE DEF TypeInv, TypeOK, ClientTypeOK, Goto, Finish, CloseThen, ConnectionLost
<1> USE DEF RequestPcs, DrawnPcs
<1>0. UNCHANGED device
  BY DEF hostVars
<1>1. CASE Call(t)
  <2> SUFFICES ASSUME op'[t] = "request" PROVE RequestCall(t)'
    BY DEF RequestCall
  <2>1. result[t] = "none" /\ CallRequest(t)
    BY <1>1 DEF LoneInv, Call, CallTeardown, CallLogin, CallConnect,
       CallRegister, CallRequest, Enter
  <2> QED BY <2>1 DEF CallRequest, Enter, RequestCall
<1>2. CASE Return(t)
  BY <1>2, ReturnsIdle DEF RequestCall
<1>3. CASE Continue(t) /\ op[t] # "request" /\ pc[t] # "return"
  <2>1. op'[t] = op[t]
    BY <1>3, ContinueAlone, GoesOn
  <2> QED BY <1>3, <2>1 DEF RequestCall
<1>4. ASSUME Continue(t), op[t] = "request", pc[t] # "return"
      PROVE  RequestCall(t)'
  <2>0. /\ pc[t] \in {"cs_swap", "cs_shut", "cs_clear", "l_clear"} \cup RequestPcs
        /\ pc[t] \in {"cs_swap", "cs_shut", "cs_clear"} => ret[t] = "l_clear"
        /\ result[t] # "ok"
    BY <1>4 DEF RequestCall
  <2>1. CASE CloseSwap(t) \/ CloseShut(t) \/ CloseClear(t) \/ ClearAgain(t)
    BY <2>0, <2>1 DEF CloseSwap, CloseShut, CloseClear, ClearAgain, RequestCall
  <2>2. CASE RequestBind(t) \/ Send(t) \/ Receive(t)
    <3>1. pc'[t] \in RequestPcs /\ result'[t] = result[t]
      BY <2>0, <2>2 DEF RequestBind, Send, Receive, ReceivePcs, AfterSend,
         AfterReceive
    <3> QED BY <2>0, <3>1 DEF RequestCall
  <2>3. CASE SendFails(t) \/ ReceiveFails(t) \/ ReceiveTorn(t) \/ ReceiveResync(t)
    <3>1. PICK e : IOFailure(t, e)
      BY <2>3 DEF SendFails, ReceiveFails, ReceiveTorn, ReceiveResync
    <3>2. /\ pc'[t] \in {"return", "cs_swap"}
          /\ pc'[t] = "cs_swap" => ret'[t] = "l_clear"
          /\ result'[t] = "DeviceClientError"
      BY <2>0, <3>1 DEF IOFailure
    <3> QED BY <3>2 DEF RequestCall
  <2>4. CASE CheckResponse(t)
    <3>1. CASE resp[t].rid # msg[t].rid
      BY <2>4, <3>1 DEF CheckResponse, RequestCall
    <3>2. CASE resp[t].rid = msg[t].rid /\ resp[t].type = "ERROR"
      BY <2>4, <3>2 DEF CheckResponse, RequestCall
    <3>3. CASE resp[t].rid = msg[t].rid /\ resp[t].type # "ERROR"
      <4>1. resp[t] \in DownFrames /\ resp[t].type = "RESPONSE"
        BY <2>4, <3>3
        DEF CheckResponse, RequestInv, ReplyOwn, LocalsOK, RespPcs
      <4>2. Answered(t)
        BY <2>4, <3>3, <4>1
        DEF CheckResponse, RequestInv, ServedInOwnSession, Answered
      <4>3. Answered(t)'
        BY <1>0, <2>4, <4>2 DEF CheckResponse, locals, Answered
      <4> QED BY <2>0, <2>4, <4>3 DEF CheckResponse, RequestCall
    <3> QED BY <3>1, <3>2, <3>3
  <2>5. /\ ~ShutdownLogout(t) /\ ~LogoutCredential(t) /\ ~SendOnly(t)
        /\ ~Dial(t) /\ ~DialFails(t) /\ ~Store(t) /\ ~Hello(t)
        /\ ~CommitHandshake(t) /\ ~TrackHandshake(t) /\ ~NoToken(t)
        /\ ~LeaseHandshake(t)
        /\ ~RegisterGuard(t) /\ ~RegisterBind(t) /\ ~CheckRegister(t)
        /\ ~TrackRegister(t) /\ ~LeaseRegister(t) /\ ~CheckReconnect(t)
    BY <2>0 DEF ShutdownLogout, LogoutCredential, SendOnly, Dial, DialFails,
       Store, Hello, CommitHandshake, TrackHandshake, NoToken, LeaseHandshake,
       RegisterGuard, RegisterBind, CheckRegister, TrackRegister,
       LeaseRegister, CheckReconnect
  <2>6. ~Return(t)
    BY <1>4 DEF Return
  <2> QED BY <1>4, <2>1, <2>2, <2>3, <2>4, <2>5, <2>6 DEF Continue
<1> QED BY <1>1, <1>2, <1>3, <1>4, OnlyReturns

\* What is not a step of thread t leaves its call as it was.
LEMMA RequestCallRests ==
  ASSUME NEW t \in Threads, RequestCall(t), device \subseteq device',
         /\ pc'[t] = pc[t] /\ op'[t] = op[t] /\ ret'[t] = ret[t]
         /\ result'[t] = result[t] /\ resp'[t] = resp[t]
         /\ msg'[t] = msg[t] /\ held'[t] = held[t]
  PROVE  RequestCall(t)'
BY DEF RequestCall, Answered

\* A step of anyone: no other thread and not the host can undo that.
LEMMA RequestCallNext ==
  ASSUME TypeInv, RequestInv, LoneInv, \A t \in Threads : RequestCall(t),
         [AppNext]_appVars
  PROVE  \A t \in Threads : RequestCall(t)'
<1>1. ASSUME NEW t \in Threads, Call(t) \/ Continue(t), UNCHANGED hostVars,
             NEW u \in Threads
      PROVE  RequestCall(u)'
  <2>1. CASE u = t
    BY <1>1, <2>1, RequestCallStep
  <2>2. CASE u # t
    BY <1>1, <2>2, OthersRest, RequestCallRests DEF hostVars
  <2> QED BY <2>1, <2>2
<1>2. ASSUME UNCHANGED clientVars, device \subseteq device', NEW u \in Threads
      PROVE  RequestCall(u)'
  BY <1>2, RequestCallRests DEF clientVars, inCall, locals
<1>3. ASSUME Environment \/ \E c \in Conns : Handler(c)
      PROVE  device \subseteq device'
  BY <1>3 DEF Environment, Handler, Handshake, Register, ConfirmRegister,
     Answer, Route, Finalise, RelayIn, ForceClose, Stop, hostVars
<1>4. ASSUME [Next]_vars, NEW u \in Threads PROVE RequestCall(u)'
  BY <1>1, <1>2, <1>3, <1>4 DEF Next, Terminated, vars, hostVars
<1>5. ASSUME Abort, UNCHANGED hostVars, NEW u \in Threads PROVE RequestCall(u)'
  <2> USE CliAssumption
  <2>1. CASE u = Cli
    BY <1>5, <2>1 DEF Abort, RequestCall, TypeInv, TypeOK, ClientTypeOK
  <2>2. CASE u # Cli
    <3>1. /\ pc'[u] = pc[u] /\ op'[u] = op[u] /\ ret'[u] = ret[u]
          /\ result'[u] = result[u] /\ resp'[u] = resp[u]
          /\ msg'[u] = msg[u] /\ held'[u] = held[u]
      BY <1>5, <2>2 DEF Abort, TypeInv, TypeOK, ClientTypeOK
    <3> QED BY <1>5, <3>1, RequestCallRests DEF hostVars
  <2> QED BY <2>1, <2>2
<1>6. ASSUME Exit, UNCHANGED hostVars, NEW u \in Threads PROVE RequestCall(u)'
  BY <1>2, <1>6 DEF Exit, hostVars
<1> QED BY AppSteps, <1>4, <1>5, <1>6

-----------------------------------------------------------------------------
(* What a shutdown leaves *)

\* main's own steps take a lone shutdown on; a step of a handler is a call, or
\* part of one, that overlaps it.
LEMMA EndsNext ==
  ASSUME TypeInv, Told, LoneInv, Staged, Ends, [AppNext]_appVars
  PROVE  Ends'
<1> USE PortalAssumption, CliAssumption
<1> USE DEF TypeInv, TypeOK, ClientTypeOK
<1> SUFFICES ASSUME pc'[Cli] # "idle", op'[Cli] = "shutdown", ~overlap'[Cli]
             PROVE  Ends'
  BY DEF Ends
<1>1. ASSUME Call(Cli), UNCHANGED hostVars PROVE Ends'
  <2>1. CallTeardown(Cli)
    BY <1>1 DEF Call, CallTeardown, CallLogin, CallConnect, CallRegister,
       CallRequest, Enter
  <2>2. pc'[Cli] = "cs_swap" /\ ret'[Cli] = "o_close"
    BY <2>1 DEF CallTeardown, Enter, CloseThen, Goto, AfterClose
  <2> QED
    BY <2>2 DEF Ends, Sound, ClosingPcs, ClosedPcs, HelloPcs, CommitPcs,
       RestPcs, RegisterPcs
<1>2. ASSUME Continue(Cli), UNCHANGED hostVars PROVE Ends'
  <2>1. pc[Cli] # "idle" /\ op[Cli] = "shutdown" /\ ~overlap[Cli]
    BY <1>2, ContinueAlone
  <2>2. Sound(Cli)'
    BY <1>2, <2>1, SoundStep DEF Ends
  <2>3. /\ pc'[Cli] \in {"cs_swap", "cs_shut", "cs_clear", "o_close", "o_cred",
                         "l_clear", "return"}
        /\ pc'[Cli] \in {"cs_swap", "cs_shut", "cs_clear"} =>
             ret'[Cli] \in {"o_close", "o_cred"}
        /\ pc'[Cli] \in {"l_clear", "return"} => credential' = None
    <3>1. CASE \/ CloseSwap(Cli) \/ CloseShut(Cli) \/ CloseClear(Cli)
               \/ ClearAgain(Cli) \/ LogoutCredential(Cli) \/ ShutdownLogout(Cli)
      BY <2>1, <3>1 DEF Ends, CloseSwap, CloseShut, CloseClear, ClearAgain,
         LogoutCredential, ShutdownLogout, CloseThen, Goto, object
    <3>2. ~Return(Cli)
      BY ReturnsIdle
    <3>3. CASE \/ Send(Cli) \/ SendOnly(Cli) \/ SendFails(Cli) \/ Receive(Cli)
               \/ ReceiveFails(Cli) \/ ReceiveTorn(Cli) \/ ReceiveResync(Cli)
               \/ Dial(Cli) \/ DialFails(Cli) \/ Store(Cli) \/ Hello(Cli)
               \/ CommitHandshake(Cli) \/ TrackHandshake(Cli) \/ NoToken(Cli)
               \/ LeaseHandshake(Cli) \/ RegisterGuard(Cli)
               \/ RegisterBind(Cli) \/ CheckRegister(Cli) \/ TrackRegister(Cli)
               \/ LeaseRegister(Cli) \/ CheckReconnect(Cli)
               \/ RequestBind(Cli) \/ CheckResponse(Cli)
      BY <2>1, <3>3 DEF Ends, Send, SendOnly, SendFails, Receive, ReceiveFails,
         ReceiveTorn, ReceiveResync, ReceivePcs, Dial, DialFails, Store, Hello,
         CommitHandshake, TrackHandshake, NoToken, LeaseHandshake,
         RegisterGuard, RegisterBind, CheckRegister, TrackRegister,
         LeaseRegister, CheckReconnect, RequestBind, CheckResponse
    <3> QED BY <1>2, <3>1, <3>2, <3>3 DEF Continue
  <2> QED BY <2>2, <2>3 DEF Ends
<1>3. ASSUME NEW t \in Threads, t # Cli, Call(t) \/ Continue(t) PROVE FALSE
  <2>1. pc[Cli] # "idle" /\ op[Cli] = "shutdown"
    BY <1>3, OthersRest
  <2>2. CASE Call(t)
    BY <1>3, <2>1, <2>2, CallOverlaps
  <2>3. CASE Continue(t)
    <3>1. pc[t] # "idle"
      BY <2>3, ContinueAlone
    <3>2. overlap[Cli]
      BY <1>3, <2>1, <3>1 DEF LoneInv, OverlapSeen
    <3>3. overlap'[Cli]
      BY <1>3, <2>3, <3>2, OverlapKept
    <3> QED BY <3>3
  <2> QED BY <1>3, <2>2, <2>3
<1>4. ASSUME UNCHANGED clientVars, device \subseteq device' PROVE Ends'
  BY <1>4 DEF Ends, Sound, Coherent, Clear, clientVars, object, session, inCall,
     locals
<1>5. ASSUME Environment \/ \E c \in Conns : Handler(c)
      PROVE  device \subseteq device'
  BY <1>5 DEF Environment, Handler, Handshake, Register, ConfirmRegister,
     Answer, Route, Finalise, RelayIn, ForceClose, Stop, hostVars
<1>6. ASSUME [Next]_vars PROVE Ends'
  BY <1>1, <1>2, <1>3, <1>4, <1>5, <1>6 DEF Next, Terminated, vars, hostVars
<1>7. ASSUME Abort PROVE FALSE
  BY <1>7 DEF Abort
<1>8. ASSUME Exit, UNCHANGED hostVars PROVE Ends'
  BY <1>4, <1>8 DEF Exit, hostVars
<1> QED BY AppSteps, <1>6, <1>7, <1>8

\* After a lone shutdown main only ends, and a call of a handler is refused by
\* its guard.
LEMMA FinalNext ==
  ASSUME TypeInv, LoneInv, Staged, Ends, Final, [AppNext]_appVars
  PROVE  Final'
<1> USE PortalAssumption, CliAssumption
<1> USE DEF TypeInv, TypeOK, ClientTypeOK
<1> SUFFICES ASSUME closedBy' = "alone" PROVE Final'
  BY DEF Final
<1>1. CASE closedBy # "alone"
  <2>1. MainReturns /\ main = "shutdown" /\ ~overlap[Cli]
    BY <1>1
    DEF AppNext, AppMain, Main, MainCalls, MainContinues, MainReturns,
        StartPortal, StopPortal, Exit, AppHandler, HostHandler, Outside,
        Prompt, Interrupt, Over, appVars, cliVars
  <2>2. pc[Cli] = "return" /\ op[Cli] = "shutdown"
    BY <2>1, ReturnsIdle DEF MainReturns, Staged, StageOK, MainCall
  <2>3. credential = None /\ Sound(Cli)
    BY <2>1, <2>2 DEF Ends
  <2>4. sock = None /\ Clear
    BY <2>2, <2>3 DEF Sound, RestPcs, Coherent
  <2>5. \A u \in Threads \ {Cli} : pc[u] = "idle"
    BY <2>1, <2>2 DEF LoneInv, OverlapSeen
  <2>6. \A u \in Threads : pc'[u] = "idle"
    BY <2>1, <2>5 DEF MainReturns, Return, Goto
  <2>7. main' = "ended" /\ UNCHANGED <<credential, sock, session>>
    BY <2>1 DEF MainReturns, Return, NextMain, object
  <2> QED BY <2>3, <2>4, <2>6, <2>7 DEF Final, Clear, session
<1>2. CASE closedBy = "alone"
  <2>0. /\ main \in {"ended", "exited"}
        /\ credential = None /\ sock = None /\ Clear
        /\ \A u \in Threads : pc[u] \in {"idle", "return"}
    BY <1>2 DEF Final
  <2>1. pc[Cli] = "idle"
    BY <2>0 DEF Staged, StageOK, MainCall
  <2>2. ASSUME NEW t \in Handlers, Call(t), op'[t] = CallOf(serves[t])
        PROVE  Final'
    <3>1. op'[t] \in {"request", "reconnect"}
      BY <2>2 DEF CallOf
    <3>2. CallConnect(t) \/ CallRequest(t)
      BY <2>2, <3>1 DEF Call, CallTeardown, CallLogin, CallRegister, Enter
    <3>3. pc'[t] = "return" /\ UNCHANGED object
      BY <2>0, <3>2 DEF CallConnect, CallRequest, Finish, Goto
    <3>4. \A u \in Threads \ {t} : pc'[u] = pc[u]
      BY <2>2, OthersRest
    <3>5. main' = main
      BY <2>0, <2>1, <2>2, <3>3, ReturnsIdle, CallOverlaps
      DEF AppNext, AppMain, Main, MainCalls, MainContinues, MainReturns,
          StartPortal, StopPortal, Exit, AppHandler, HostHandler, Outside,
          Prompt, Interrupt, Over, appVars, cliVars, MainCall, clientVars
    <3> QED BY <2>0, <3>3, <3>4, <3>5 DEF Final, Clear, object, session
  <2>3. ASSUME NEW t \in Handlers, Continue(t), main' = main PROVE Final'
    <3>1. pc[t] = "return"
      BY <2>0, <2>3, ContinueAlone
    <3>2. Return(t)
      BY <2>3, <3>1, OnlyReturns
    <3> QED
      BY <2>0, <2>3, <3>2 DEF Return, Goto, Final, Clear, object, session
  <2>4. ASSUME UNCHANGED clientVars, main' \in {main, "exited"} PROVE Final'
    BY <2>0, <2>4 DEF Final, Clear, clientVars, object, session
  <2>5. CASE AppMain
    <3>1. Exit
      BY <2>0, <2>1, <2>5, ContinueAlone
      DEF AppMain, Main, MainCalls, MainContinues, MainReturns, StartPortal,
          StopPortal, MainCall
    <3> QED BY <2>4, <3>1 DEF Exit
  <2>6. ASSUME NEW t \in Handlers, AppHandler(t) PROVE Final'
    <3>1. CASE Probe(t) \/ Gate(t) \/ Reprobe(t)
      BY <2>4, <2>6, <3>1 DEF AppHandler, Probe, Gate, Reprobe, cliVars
    <3>2. CASE ~(Probe(t) \/ Gate(t) \/ Reprobe(t))
      BY <2>2, <2>3, <2>6, <3>2
      DEF AppHandler, Handle, Use, Reply, Continue, cliVars
    <3> QED BY <3>1, <3>2
  <2>7. CASE Outside
    BY <2>0, <2>4, <2>7 DEF Outside, Prompt, Interrupt, Accept, cliVars
  <2>8. CASE Over \/ UNCHANGED appVars \/ \E c \in Conns : HostHandler(c)
    BY <2>4, <2>8 DEF Over, appVars, HostHandler, cliVars
  <2> QED BY <2>5, <2>6, <2>7, <2>8 DEF AppNext
<1> QED BY <1>1, <1>2

-----------------------------------------------------------------------------
(* The theorems *)

\* A launch starts so.
LEMMA AppInvInit == AppInit => AppInv
<1> SUFFICES ASSUME AppInit PROVE AppInv
  OBVIOUS
<1> USE PortalAssumption, CliAssumption
<1>1. Init
  BY DEF AppInit, Init
<1>2. Inherited
  BY <1>1, SharedInit, IOExclusionInit, RequestInit, LoneInvInit DEF Inherited
<1>3. Staged
  BY DEF AppInit, ClientInit, PortalInit, CliInit, Staged, PortalTypeOK,
     CliTypeOK, StageOK, Endpoints, Answers, NoAnswer, Statuses, Mains, MainCall
<1>4. /\ \A t \in Threads : RequestCall(t)
      /\ Ends /\ Final
  BY DEF AppInit, ClientInit, CliInit, RequestCall, Ends, Final
<1> QED BY <1>2, <1>3, <1>4 DEF AppInv

\* The invariant of the program is inductive.
LEMMA AppInvNext == AppInv /\ [AppNext]_appVars => AppInv'
<1> SUFFICES ASSUME AppInv, [AppNext]_appVars PROVE AppInv'
  OBVIOUS
<1>1. /\ Inherited /\ Staged /\ Ends /\ Final
      /\ TypeInv /\ Told /\ RequestInv /\ LoneInv
      /\ \A t \in Threads : RequestCall(t)
  BY DEF AppInv, Inherited, Shared
<1>2. Inherited' /\ Staged'
  BY <1>1, InheritedKept, StageNext
<1>3. \A t \in Threads : RequestCall(t)'
  BY <1>1, RequestCallNext
<1>4. Ends' /\ Final'
  BY <1>1, EndsNext, FinalNext
<1> QED BY <1>2, <1>3, <1>4 DEF AppInv

\* The program is typed: main, its handlers, the client, the wire, the host.
THEOREM AppTypeCorrect == AppSpec => []AppTypeOK
<1>1. AppInv => AppTypeOK
  BY DEF AppInv, Inherited, Shared, TypeInv, TypeOK, Staged, AppTypeOK
<1> QED
  BY <1>1, AppInvInit, AppInvNext, PTL DEF AppSpec

\* What the portal lists, and its online with it, is what the host answered to
\* that very request (portal/server.py:289-310 and 343-382).
THEOREM ListedIsAnsweredHolds == AppSpec => ListedIsAnswered
<1> DEFINE Served(t) ==
      /\ resp[t] # None
      /\ resp[t].type = "RESPONSE" /\ resp[t].rid = msg[t].rid
      /\ held[t] \in device /\ msg[t].secret = held[t]
    ListedStep == \A t \in Handlers : ~Claims(t) /\ Claims(t)' => Served(t)
<1>1. ASSUME AppInv, [AppNext]_appVars PROVE ListedStep
  <2> SUFFICES ASSUME NEW t \in Handlers, ~Claims(t), Claims(t)'
               PROVE  Served(t)
    OBVIOUS
  <2> USE PortalAssumption DEF AppInv, Staged, PortalTypeOK, Claims
  <2>1. Reply(t)
    <3>1. ASSUME NEW u \in Handlers, Probe(u) \/ Gate(u) \/ Reprobe(u) PROVE FALSE
      <4>1. CASE Probe(u)
        BY <4>1 DEF Probe
      <4>2. CASE Gate(u)
        BY <1>1, <4>2 DEF Gate, Respond, At, Answers, MayProceed
      <4>3. CASE Reprobe(u)
        BY <1>1, <4>3 DEF Reprobe, Answers, StageOK
      <4> QED BY <3>1, <4>1, <4>2, <4>3
    <3>2. ASSUME NEW u \in Handlers, Accept(u) PROVE FALSE
      <4>1. CASE u = t
        <5>1. answer'[t] = NoAnswer
          BY <1>1, <3>2, <4>1 DEF Accept
        <5> QED BY <5>1 DEF NoAnswer
      <4>2. CASE u # t
        <5>1. answer'[t] = answer[t] /\ serves'[t] = serves[t]
          BY <3>2, <4>2 DEF Accept
        <5> QED BY <5>1
      <4> QED BY <4>1, <4>2
    <3>3. ASSUME NEW u \in Handlers, Reply(u), u # t PROVE FALSE
      <4>1. answer'[t] = answer[t] /\ serves'[t] = serves[t]
        BY <3>3 DEF Reply, Respond
      <4> QED BY <4>1
    <3>4. ~(UNCHANGED <<answer, serves>>)
      OBVIOUS
    <3>5. ASSUME NEW u \in Handlers, AppHandler(u) PROVE Reply(t)
      BY <3>1, <3>3, <3>4, <3>5 DEF AppHandler, Handle, Use, portalVars
    <3>6. ~AppMain
      BY <3>4 DEF AppMain, Main, MainCalls, MainContinues, MainReturns,
         StartPortal, StartServer, StopPortal, StopServer, Exit, portalVars
    <3>7. ~Outside
      BY <3>2, <3>4 DEF Outside, Prompt, Interrupt, portalVars
    <3>8. /\ ~Over /\ ~(UNCHANGED appVars)
          /\ \A c \in Conns : ~HostHandler(c)
      BY <3>4 DEF Over, appVars, HostHandler, portalVars
    <3> QED BY <1>1, <3>5, <3>6, <3>7, <3>8 DEF AppNext
  <2>2. serves[t] # "reconnect" /\ result[t] = "ok" /\ stage[t] = "calling"
    <3>1. PICK a \in Outcomes(serves[t], result[t]) : Respond(t, a)
      BY <2>1 DEF Reply
    <3>2. a = "online"
      <4>1. /\ answer'[t].listed = (a = "online")
            /\ serves'[t] = serves[t]
            /\ serves[t] # "network" => answer'[t].says = a
        BY <3>1 DEF Respond
      <4> QED BY <4>1
    <3> QED BY <2>1, <3>1, <3>2 DEF Reply, Outcomes
  <2>3. op[t] = "request"
    BY <1>1, <2>2 DEF StageOK, CallOf
  <2>4. Answered(t)
    BY <1>1, <2>2, <2>3 DEF RequestCall
  <2> QED BY <2>4, FrameAssumption DEF Answered
<1>2. AppSpec => [][ListedStep]_appVars
  BY <1>1, AppInvInit, AppInvNext, PTL DEF AppSpec
<1> QED BY <1>2, Zenon DEF ListedIsAnswered

\* Once a shutdown that nothing overlapped has ended, the client is empty for
\* good, whatever the handlers still try (core_device_client.py:871-874, and
\* the guards of connect and request, 531-532 and 774-775).
THEOREM ShutdownIsFinalHolds == AppSpec => []ShutdownIsFinal
<1>1. AppInv => ShutdownIsFinal
  BY DEF AppInv, Final, Clear, ShutdownIsFinal
<1> QED
  BY <1>1, AppInvInit, AppInvNext, PTL DEF AppSpec

\* In the whole program too, with Ctrl-C in main's calls, _io_lock excludes, the
\* registry is backed by its handler, a request is served in its own session
\* only, and a lone reconnect heals.
THEOREM ProgramKeepsSession ==
  AppSpec => [](/\ IOExclusion /\ RegistryBacked
                /\ ServedInOwnSession /\ LoneReconnectHeals)
<1>1. AppInv => /\ IOExclusion /\ RegistryBacked
                /\ ServedInOwnSession /\ LoneReconnectHeals
  BY LoneInvHeals DEF AppInv, Inherited, Shared, RequestInv
<1> QED
  BY <1>1, AppInvInit, AppInvNext, PTL DEF AppSpec
=============================================================================
