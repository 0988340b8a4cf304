------------------------- MODULE DeviceSystemProofs -------------------------
(***************************************************************************)
(* Proofs about DeviceSystem, for any number of threads, connections and   *)
(* calls: its type invariant, the exclusion that _io_lock gives, the       *)
(* invariant of the host's registry, and what becomes of the frames that   *)
(* carry the request_id of a call in progress.                             *)
(***************************************************************************)
EXTENDS DeviceSystem, TLAPS

-----------------------------------------------------------------------------
(* Types *)

\* Where a thread has a message to send, a socket to use, an answer to read.
\* TypeOK alone is not inductive: it lets these locals be None, and a send of
\* None would not leave a sequence of frames behind.
MsgPcs == {"q_bind", "c_send", "r_send", "q_send", "d_send"}
HeldPcs == {"c_store", "c_hello", "c_send", "c_check", "r_bind"} \cup ReceivePcs
RespPcs == {"c_check", "c_track", "c_lease", "r_check", "r_track", "r_lease",
            "q_check"}

LocalsOK ==
  \A t \in Threads :
    /\ pc[t] \in MsgPcs => msg[t] \in UpFrames
    /\ pc[t] \in HeldPcs => held[t] \in Conns
    /\ pc[t] \in RespPcs => resp[t] \in DownFrames

TypeInv == TypeOK /\ LocalsOK

\* A failed send or receive ends the call, or closes the socket first.
LEMMA FailureMoves ==
  ASSUME ClientTypeOK, NEW t \in Threads, NEW e, IOFailure(t, e)
  PROVE  /\ pc' \in [Threads -> Pcs]
         /\ ret' \in [Threads -> ReturnPcs]
         /\ result' \in [Threads -> Results]
         /\ \E p \in {"return", "cs_swap"} : pc' = [pc EXCEPT ![t] = p]
         /\ \A u \in Threads \ {t} : ret'[u] = ret[u] /\ result'[u] = result[u]
BY DEF ClientTypeOK, IOFailure, CloseThen, ConnectionLost, Finish, Goto, Pcs,
       ReturnPcs, Results

\* Entering a call keeps the types of what it records of the call.
LEMMA EnterTyped ==
  ASSUME ClientTypeOK, NEW t \in Threads, NEW o, Enter(t, o)
  PROVE  /\ op' \in [Threads -> Ops \cup {"none"}]
         /\ calls' \in [Threads -> Nat]
         /\ overlap' \in [Threads -> BOOLEAN]
         /\ calls'[t] \in Nat
<1>1. o \in Ops
  BY ClientAssumption DEF Enter
<1>2. op' \in [Threads -> Ops \cup {"none"}] /\ calls' \in [Threads -> Nat]
  BY <1>1 DEF Enter, ClientTypeOK
<1>3. overlap' \in [Threads -> BOOLEAN]
  <2>1. \A u \in Threads : overlap[u] \in BOOLEAN
    BY DEF ClientTypeOK
  <2> QED BY <2>1, Zenon DEF Enter
<1> QED BY <1>2, <1>3

\* What closes an end, or puts a frame on a connection, keeps the types of the
\* wire.
LEMMA CollectedTyped ==
  ASSUME WireTypeOK, NEW s, NEW k, NEW h, Collected(s, k, h)
  PROVE  cEnd' \in [Conns -> EndStates] /\ down' \in [Conns -> Seq(DownFrames)]
BY DEF WireTypeOK, Collected, ClientCloses, EndStates

\* Closing, sending and answering keep the types of the connections.
LEMMA HostClosesTyped ==
  ASSUME WireTypeOK, NEW C, HostCloses(C)
  PROVE  hEnd' \in [Conns -> EndStates] /\ up' \in [Conns -> Seq(UpFrames)]
BY DEF WireTypeOK, HostCloses, EndStates

\* A frame sent up keeps them.
LEMMA SendUpTyped ==
  ASSUME WireTypeOK, NEW c \in Conns, NEW f \in UpFrames, SendUp(c, f)
  PROVE  up' \in [Conns -> Seq(UpFrames)]
<1>1. Append(up[c], f) \in Seq(UpFrames)
  BY DEF WireTypeOK
<1> QED
  BY <1>1 DEF WireTypeOK, SendUp

\* The frames left of a stream when some at its front were lost.
LEMMA SubSeqTyped ==
  ASSUME NEW S, NEW s \in Seq(S), NEW k \in 1 .. Len(s)
  PROVE  SubSeq(s, k + 1, Len(s)) \in Seq(S)
OBVIOUS

\* A frame sent down keeps them.
LEMMA SendDownTyped ==
  ASSUME WireTypeOK, NEW c \in Conns, NEW f \in DownFrames, SendDown(c, f)
  PROVE  down' \in [Conns -> Seq(DownFrames)]
<1>1. Append(down[c], f) \in Seq(DownFrames)
  BY DEF WireTypeOK
<1> QED
  BY <1>1 DEF WireTypeOK, SendDown

\* Every step of a thread of the client keeps the types, action by action.
LEMMA ClientStep ==
  ASSUME TypeInv, NEW t \in Threads, Call(t) \/ Continue(t), UNCHANGED hostVars
  PROVE  TypeInv'
<1> USE WireAssumption, ClientAssumption
<1> USE DEF TypeInv, TypeOK
<1>0. HostTypeOK' BY DEF HostTypeOK, hostVars, registry
<1> SUFFICES WireTypeOK' /\ ClientTypeOK' /\ LocalsOK'
  BY <1>0

<1>1. CASE CallTeardown(t)
  <2>1. WireTypeOK'
    BY <1>1 DEF CallTeardown, WireTypeOK, link
  <2>2. ClientTypeOK'
    BY <1>1, EnterTyped DEF CallTeardown, ClientTypeOK, object, session,
       inCall, locals, Goto, Pcs, ReturnPcs, ReceivePcs, CloseThen, Results,
       AfterClose
  <2>3. LocalsOK'
    BY <1>1 DEF CallTeardown, LocalsOK, ClientTypeOK, MsgPcs, HeldPcs,
       RespPcs, ReceivePcs, locals, Goto, Enter, CloseThen
  <2> QED BY <2>1, <2>2, <2>3
<1>2. CASE CallLogin(t)
  <2>1. WireTypeOK'
    BY <1>2 DEF CallLogin, WireTypeOK, link
  <2>2. ClientTypeOK'
    BY <1>2, EnterTyped DEF CallLogin, ClientTypeOK, object, session, inCall,
       locals, Goto, Pcs, ReturnPcs, ReceivePcs, Finish, Results
  <2>3. LocalsOK'
    BY <1>2 DEF CallLogin, LocalsOK, ClientTypeOK, MsgPcs, HeldPcs, RespPcs,
       ReceivePcs, locals, Goto, Enter, Finish
  <2> QED BY <2>1, <2>2, <2>3
<1>3. CASE CallConnect(t)
  <2>1. WireTypeOK'
    BY <1>3 DEF CallConnect, WireTypeOK, link
  <2>2. ClientTypeOK'
    BY <1>3, EnterTyped DEF CallConnect, ClientTypeOK, object, session,
       inCall, locals, Goto, Pcs, ReturnPcs, ReceivePcs, CloseThen, Finish,
       Results
  <2>3. LocalsOK'
    BY <1>3 DEF CallConnect, LocalsOK, ClientTypeOK, MsgPcs, HeldPcs, RespPcs,
       ReceivePcs, locals, Goto, Enter, CloseThen, Finish
  <2> QED BY <2>1, <2>2, <2>3
<1>4. CASE CallRegister(t)
  <2>1. WireTypeOK'
    BY <1>4 DEF CallRegister, WireTypeOK, link
  <2>2. ClientTypeOK'
    BY <1>4, EnterTyped DEF CallRegister, ClientTypeOK, object, session,
       inCall, locals, Goto, Pcs, ReturnPcs, ReceivePcs
  <2>3. LocalsOK'
    BY <1>4 DEF CallRegister, LocalsOK, ClientTypeOK, MsgPcs, HeldPcs,
       RespPcs, ReceivePcs, locals, Goto, Enter
  <2> QED BY <2>1, <2>2, <2>3
<1>5. CASE CallRequest(t)
  <2>1. WireTypeOK'
    BY <1>5 DEF CallRequest, WireTypeOK, link
  <2>2. ClientTypeOK'
    BY <1>5, EnterTyped DEF CallRequest, ClientTypeOK, object, session,
       inCall, locals, Goto, Pcs, ReturnPcs, ReceivePcs, Finish, Results,
       Frame, UpFrames, UpTypes, RequestIds, Secrets, RequestType
  <2>3. LocalsOK'
    BY <1>5, EnterTyped DEF CallRequest, LocalsOK, ClientTypeOK, MsgPcs,
       HeldPcs, RespPcs, ReceivePcs, locals, Goto, Finish, Frame, UpFrames,
       UpTypes, RequestIds, Secrets, RequestType
  <2> QED BY <2>1, <2>2, <2>3
<1>6. CASE Return(t)
  <2>1. WireTypeOK'
    BY <1>6, CollectedTyped DEF Return, WireTypeOK, link
  <2>2. ClientTypeOK'
    BY <1>6 DEF Return, ClientTypeOK, object, session, inCall, locals, Goto,
       Pcs, ReturnPcs, ReceivePcs, Results
  <2>3. LocalsOK'
    BY <1>6 DEF Return, LocalsOK, ClientTypeOK, MsgPcs, HeldPcs, RespPcs,
       ReceivePcs, locals, Goto
  <2> QED BY <2>1, <2>2, <2>3
<1>7. CASE CloseSwap(t)
  <2>1. WireTypeOK'
    BY <1>7 DEF CloseSwap, WireTypeOK, link
  <2>2. ClientTypeOK'
    BY <1>7 DEF CloseSwap, ClientTypeOK, object, session, inCall, locals,
       Goto, Pcs, ReturnPcs, ReceivePcs
  <2>3. LocalsOK'
    BY <1>7 DEF CloseSwap, LocalsOK, ClientTypeOK, MsgPcs, HeldPcs, RespPcs,
       ReceivePcs, locals, Goto
  <2> QED BY <2>1, <2>2, <2>3
<1>8. CASE CloseShut(t)
  <2>1. WireTypeOK'
    BY <1>8 DEF CloseShut, WireTypeOK, link, ClientCloses, EndStates
  <2>2. ClientTypeOK'
    BY <1>8 DEF CloseShut, ClientTypeOK, object, session, inCall, locals,
       Goto, Pcs, ReturnPcs, ReceivePcs
  <2>3. LocalsOK'
    BY <1>8 DEF CloseShut, LocalsOK, ClientTypeOK, MsgPcs, HeldPcs, RespPcs,
       ReceivePcs, locals, Goto
  <2> QED BY <2>1, <2>2, <2>3
<1>9. CASE CloseClear(t)
  <2>1. WireTypeOK'
    BY <1>9 DEF CloseClear, WireTypeOK, link
  <2>2. ClientTypeOK'
    BY <1>9 DEF CloseClear, ClientTypeOK, object, session, inCall, locals,
       Goto, Pcs, ReturnPcs, ReceivePcs, ClearSession
  <2>3. LocalsOK'
    BY <1>9 DEF CloseClear, LocalsOK, ClientTypeOK, MsgPcs, HeldPcs, RespPcs,
       ReceivePcs, locals, Goto, ReturnPcs
  <2> QED BY <2>1, <2>2, <2>3
<1>10. CASE ClearAgain(t)
  <2>1. WireTypeOK'
    BY <1>10 DEF ClearAgain, WireTypeOK, link
  <2>2. ClientTypeOK'
    BY <1>10 DEF ClearAgain, ClientTypeOK, object, session, inCall, locals,
       Goto, Pcs, ReturnPcs, ReceivePcs, ClearSession
  <2>3. LocalsOK'
    BY <1>10 DEF ClearAgain, LocalsOK, ClientTypeOK, MsgPcs, HeldPcs, RespPcs,
       ReceivePcs, locals, Goto
  <2> QED BY <2>1, <2>2, <2>3
<1>11. CASE LogoutCredential(t)
  <2>1. WireTypeOK'
    BY <1>11 DEF LogoutCredential, WireTypeOK, link
  <2>2. ClientTypeOK'
    BY <1>11 DEF LogoutCredential, ClientTypeOK, object, session, inCall,
       locals, Goto, Pcs, ReturnPcs, ReceivePcs
  <2>3. LocalsOK'
    BY <1>11 DEF LogoutCredential, LocalsOK, ClientTypeOK, MsgPcs, HeldPcs,
       RespPcs, ReceivePcs, locals, Goto
  <2> QED BY <2>1, <2>2, <2>3
<1>12. CASE ShutdownLogout(t)
  <2>1. WireTypeOK'
    BY <1>12 DEF ShutdownLogout, WireTypeOK, link
  <2>2. ClientTypeOK'
    BY <1>12 DEF ShutdownLogout, ClientTypeOK, object, session, inCall,
       locals, Goto, Pcs, ReturnPcs, ReceivePcs, CloseThen
  <2>3. LocalsOK'
    BY <1>12 DEF ShutdownLogout, LocalsOK, ClientTypeOK, MsgPcs, HeldPcs,
       RespPcs, ReceivePcs, locals, Goto, CloseThen
  <2> QED BY <2>1, <2>2, <2>3
<1>13. CASE Send(t)
  <2>1. WireTypeOK'
    <3> DEFINE s == SendSocket(t)
    <3>1. s \in Conns
      BY <1>13 DEF Send, SendSocket, ClientTypeOK
    <3>2. msg[t] \in UpFrames
      BY <1>13 DEF Send, LocalsOK, MsgPcs
    <3>3. SendUp(s, msg[t])
      BY <1>13 DEF Send
    <3>4. up' \in [Conns -> Seq(UpFrames)]
      BY <3>1, <3>2, <3>3, SendUpTyped
    <3> QED
      BY <1>13, <3>4 DEF Send, WireTypeOK
  <2>2. ClientTypeOK'
    BY <1>13 DEF Send, ClientTypeOK, object, session, inCall, locals, Goto,
       Pcs, ReturnPcs, ReceivePcs, SendSocket, AfterSend, Acquire
  <2>3. LocalsOK'
    BY <1>13 DEF Send, LocalsOK, ClientTypeOK, MsgPcs, HeldPcs, RespPcs,
       ReceivePcs, locals, Goto, SendSocket, AfterSend
  <2> QED BY <2>1, <2>2, <2>3
<1>14. CASE SendOnly(t)
  <2>1. WireTypeOK'
    BY <1>14, SendUpTyped DEF SendOnly, WireTypeOK, link, LocalsOK,
       ClientTypeOK, MsgPcs
  <2>2. ClientTypeOK'
    BY <1>14 DEF SendOnly, ClientTypeOK, object, session, inCall, locals,
       Goto, Pcs, ReturnPcs, ReceivePcs, Finish, Results
  <2>3. LocalsOK'
    BY <1>14 DEF SendOnly, LocalsOK, ClientTypeOK, MsgPcs, HeldPcs, RespPcs,
       ReceivePcs, locals, Goto, Finish
  <2> QED BY <2>1, <2>2, <2>3
<1>15. CASE SendFails(t)
  <2>1. WireTypeOK'
    BY <1>15 DEF SendFails, WireTypeOK, link
  <2>2. ClientTypeOK'
    BY <1>15, FailureMoves DEF SendFails, ClientTypeOK, object, session,
       inCall, locals, Goto, Pcs, ReturnPcs, ReceivePcs
  <2>3. LocalsOK'
    <3>1. \E p \in {"return", "cs_swap"} : pc' = [pc EXCEPT ![t] = p]
      BY <1>15, FailureMoves DEF SendFails
    <3> QED
      BY <1>15, <3>1 DEF SendFails, LocalsOK, ClientTypeOK, MsgPcs, HeldPcs,
         RespPcs, ReceivePcs, locals
  <2> QED BY <2>1, <2>2, <2>3
<1>16. CASE Receive(t)
  <2>1. WireTypeOK'
    BY <1>16 DEF Receive, WireTypeOK, link, LocalsOK, HeldPcs
  <2>2. ClientTypeOK'
    BY <1>16 DEF Receive, ClientTypeOK, object, session, inCall, locals, Goto,
       Pcs, ReturnPcs, ReceivePcs, AfterReceive, Release, WireTypeOK,
       LocalsOK, HeldPcs
  <2>3. LocalsOK'
    BY <1>16 DEF Receive, LocalsOK, ClientTypeOK, MsgPcs, HeldPcs, RespPcs,
       ReceivePcs, locals, Goto, AfterReceive, WireTypeOK
  <2> QED BY <2>1, <2>2, <2>3
<1>17. CASE ReceiveFails(t)
  <2>1. WireTypeOK'
    BY <1>17 DEF ReceiveFails, WireTypeOK, link, LocalsOK, HeldPcs
  <2>2. ClientTypeOK'
    BY <1>17, FailureMoves DEF ReceiveFails, ClientTypeOK, object, session,
       inCall, locals, Goto, Pcs, ReturnPcs, ReceivePcs, Release
  <2>3. LocalsOK'
    <3>1. \E p \in {"return", "cs_swap"} : pc' = [pc EXCEPT ![t] = p]
      BY <1>17, FailureMoves DEF ReceiveFails
    <3> QED
      BY <1>17, <3>1 DEF ReceiveFails, LocalsOK, ClientTypeOK, MsgPcs, HeldPcs,
         RespPcs, ReceivePcs, locals
  <2> QED BY <2>1, <2>2, <2>3
<1>18. CASE ReceiveTorn(t)
  <2>1. WireTypeOK'
    BY <1>18 DEF ReceiveTorn, WireTypeOK, link, LocalsOK, HeldPcs
  <2>2. ClientTypeOK'
    BY <1>18, FailureMoves DEF ReceiveTorn, ClientTypeOK, object, session,
       inCall, locals, Goto, Pcs, ReturnPcs, ReceivePcs, Release
  <2>3. LocalsOK'
    <3>1. \E p \in {"return", "cs_swap"} : pc' = [pc EXCEPT ![t] = p]
      BY <1>18, FailureMoves DEF ReceiveTorn
    <3> QED
      BY <1>18, <3>1 DEF ReceiveTorn, LocalsOK, ClientTypeOK, MsgPcs, HeldPcs,
         RespPcs, ReceivePcs, locals
  <2> QED BY <2>1, <2>2, <2>3
<1>35. CASE ReceiveResync(t)
  <2> DEFINE s == held[t]
  <2>1. WireTypeOK'
    <3>1. s \in Conns /\ down[s] \in Seq(DownFrames)
      BY <1>35 DEF ReceiveResync, WireTypeOK, LocalsOK, HeldPcs
    <3>2. PICK k \in 1 .. Len(down[s]) :
            down' = [down EXCEPT ![s] = SubSeq(@, k + 1, Len(@))]
      BY <1>35 DEF ReceiveResync
    <3>3. SubSeq(down[s], k + 1, Len(down[s])) \in Seq(DownFrames)
      BY <3>1, SubSeqTyped
    <3>4. down' \in [Conns -> Seq(DownFrames)]
      BY <3>1, <3>2, <3>3 DEF WireTypeOK
    <3> QED
      BY <1>35, <3>1, <3>4 DEF ReceiveResync, WireTypeOK
  <2>2. ClientTypeOK'
    BY <1>35, FailureMoves DEF ReceiveResync, ClientTypeOK, object, session,
       inCall, locals, Goto, Pcs, ReturnPcs, ReceivePcs, Release
  <2>3. LocalsOK'
    <3>1. \E p \in {"return", "cs_swap"} : pc' = [pc EXCEPT ![t] = p]
      BY <1>35, FailureMoves DEF ReceiveResync
    <3> QED
      BY <1>35, <3>1 DEF ReceiveResync, LocalsOK, ClientTypeOK, MsgPcs, HeldPcs,
         RespPcs, ReceivePcs, locals
  <2> QED BY <2>1, <2>2, <2>3
<1>19. CASE Dial(t)
  <2>1. WireTypeOK'
    BY <1>19 DEF Dial, WireTypeOK, link, Open, EndStates
  <2>2. ClientTypeOK'
    BY <1>19 DEF Dial, ClientTypeOK, object, session, inCall, locals, Goto,
       Pcs, ReturnPcs, ReceivePcs
  <2>3. LocalsOK'
    BY <1>19 DEF Dial, LocalsOK, ClientTypeOK, MsgPcs, HeldPcs, RespPcs,
       ReceivePcs, locals, Goto
  <2> QED BY <2>1, <2>2, <2>3
<1>20. CASE DialFails(t)
  <2>1. WireTypeOK'
    BY <1>20 DEF DialFails, WireTypeOK, link
  <2>2. ClientTypeOK'
    BY <1>20 DEF DialFails, ClientTypeOK, object, session, inCall, locals,
       Goto, Pcs, ReturnPcs, ReceivePcs, Finish, Results
  <2>3. LocalsOK'
    BY <1>20 DEF DialFails, LocalsOK, ClientTypeOK, MsgPcs, HeldPcs, RespPcs,
       ReceivePcs, locals, Goto, Finish
  <2> QED BY <2>1, <2>2, <2>3
<1>21. CASE Store(t)
  <2>1. WireTypeOK'
    BY <1>21, CollectedTyped DEF Store, WireTypeOK, link
  <2>2. ClientTypeOK'
    BY <1>21 DEF Store, ClientTypeOK, object, session, inCall, locals, Goto,
       Pcs, ReturnPcs, ReceivePcs
  <2>3. LocalsOK'
    BY <1>21 DEF Store, LocalsOK, ClientTypeOK, MsgPcs, HeldPcs, RespPcs,
       ReceivePcs, locals, Goto
  <2> QED BY <2>1, <2>2, <2>3
<1>22. CASE Hello(t)
  <2>1. WireTypeOK'
    BY <1>22 DEF Hello, WireTypeOK, link
  <2>2. ClientTypeOK'
    BY <1>22 DEF Hello, ClientTypeOK, object, session, inCall, locals, Goto,
       Pcs, ReturnPcs, ReceivePcs, Frame, UpFrames, UpTypes, RequestIds,
       Secrets
  <2>3. LocalsOK'
    BY <1>22 DEF Hello, LocalsOK, ClientTypeOK, MsgPcs, HeldPcs, RespPcs,
       ReceivePcs, locals, Goto, Frame, UpFrames, UpTypes, RequestIds, Secrets
  <2> QED BY <2>1, <2>2, <2>3
<1>23. CASE CommitHandshake(t)
  <2>1. WireTypeOK'
    BY <1>23 DEF CommitHandshake, WireTypeOK, link
  <2>2. ClientTypeOK'
    BY <1>23 DEF CommitHandshake, ClientTypeOK, object, session, inCall,
       locals, Goto, Pcs, ReturnPcs, ReceivePcs, FreshSession, CloseThen,
       Results
  <2>3. LocalsOK'
    BY <1>23 DEF CommitHandshake, LocalsOK, ClientTypeOK, MsgPcs, HeldPcs,
       RespPcs, ReceivePcs, locals, Goto, CloseThen
  <2> QED BY <2>1, <2>2, <2>3
<1>24. CASE TrackHandshake(t)
  <2>1. WireTypeOK'
    BY <1>24 DEF TrackHandshake, WireTypeOK, link
  <2>2. ClientTypeOK'
    BY <1>24 DEF TrackHandshake, ClientTypeOK, object, session, inCall,
       locals, Goto, Pcs, ReturnPcs, ReceivePcs, CloseThen, Results,
       DownFrames, LocalsOK, RespPcs
  <2>3. LocalsOK'
    BY <1>24 DEF TrackHandshake, LocalsOK, ClientTypeOK, MsgPcs, HeldPcs,
       RespPcs, ReceivePcs, locals, Goto, CloseThen
  <2> QED BY <2>1, <2>2, <2>3
<1>25. CASE NoToken(t)
  <2>1. WireTypeOK'
    BY <1>25 DEF NoToken, WireTypeOK, link
  <2>2. ClientTypeOK'
    BY <1>25 DEF NoToken, ClientTypeOK, object, session, inCall, locals, Goto,
       Pcs, ReturnPcs, ReceivePcs
  <2>3. LocalsOK'
    BY <1>25 DEF NoToken, LocalsOK, ClientTypeOK, MsgPcs, HeldPcs, RespPcs,
       ReceivePcs, locals, Goto
  <2> QED BY <2>1, <2>2, <2>3
<1>26. CASE LeaseHandshake(t)
  <2>1. WireTypeOK'
    BY <1>26, CollectedTyped DEF LeaseHandshake, WireTypeOK, link
  <2>2. ClientTypeOK'
    BY <1>26 DEF LeaseHandshake, ClientTypeOK, object, session, inCall,
       locals, Goto, Pcs, ReturnPcs, ReceivePcs, Finish, Results, DownFrames,
       LocalsOK, RespPcs
  <2>3. LocalsOK'
    BY <1>26 DEF LeaseHandshake, LocalsOK, ClientTypeOK, MsgPcs, HeldPcs,
       RespPcs, ReceivePcs, locals, Goto, Finish
  <2> QED BY <2>1, <2>2, <2>3
<1>27. CASE RegisterGuard(t)
  <2>1. WireTypeOK'
    BY <1>27 DEF RegisterGuard, WireTypeOK, link
  <2>2. ClientTypeOK'
    BY <1>27 DEF RegisterGuard, ClientTypeOK, object, session, inCall, locals,
       Goto, Pcs, ReturnPcs, ReceivePcs, Finish, Results, Frame, UpFrames,
       UpTypes, RequestIds, Secrets
  <2>3. LocalsOK'
    BY <1>27 DEF RegisterGuard, LocalsOK, ClientTypeOK, MsgPcs, HeldPcs,
       RespPcs, ReceivePcs, locals, Goto, Finish, Frame, UpFrames, UpTypes,
       RequestIds, Secrets
  <2> QED BY <2>1, <2>2, <2>3
<1>28. CASE RegisterBind(t)
  <2>1. WireTypeOK'
    BY <1>28, CollectedTyped DEF RegisterBind, WireTypeOK, link, ClientTypeOK,
       LocalsOK, HeldPcs
  <2>2. ClientTypeOK'
    BY <1>28, FailureMoves DEF RegisterBind, ClientTypeOK, object, session,
       inCall, locals, Goto, Pcs, ReturnPcs, ReceivePcs, Release
  <2>3. LocalsOK'
    BY <1>28, FailureMoves DEF RegisterBind, LocalsOK, ClientTypeOK, MsgPcs,
       HeldPcs, RespPcs, ReceivePcs, locals, Goto
  <2> QED BY <2>1, <2>2, <2>3
<1>29. CASE CheckRegister(t)
  <2>1. WireTypeOK'
    BY <1>29 DEF CheckRegister, WireTypeOK, link
  <2>2. ClientTypeOK'
    BY <1>29 DEF CheckRegister, ClientTypeOK, object, session, inCall, locals,
       Goto, Pcs, ReturnPcs, ReceivePcs, Finish, Results
  <2>3. LocalsOK'
    BY <1>29 DEF CheckRegister, LocalsOK, ClientTypeOK, MsgPcs, HeldPcs,
       RespPcs, ReceivePcs, locals, Goto, Finish
  <2> QED BY <2>1, <2>2, <2>3
<1>30. CASE TrackRegister(t)
  <2>1. WireTypeOK'
    BY <1>30 DEF TrackRegister, WireTypeOK, link
  <2>2. ClientTypeOK'
    BY <1>30 DEF TrackRegister, ClientTypeOK, object, session, inCall, locals,
       Goto, Pcs, ReturnPcs, ReceivePcs, DownFrames, LocalsOK, RespPcs
  <2>3. LocalsOK'
    BY <1>30 DEF TrackRegister, LocalsOK, ClientTypeOK, MsgPcs, HeldPcs,
       RespPcs, ReceivePcs, locals, Goto
  <2> QED BY <2>1, <2>2, <2>3
<1>31. CASE LeaseRegister(t)
  <2>1. WireTypeOK'
    BY <1>31 DEF LeaseRegister, WireTypeOK, link
  <2>2. ClientTypeOK'
    BY <1>31 DEF LeaseRegister, ClientTypeOK, object, session, inCall, locals,
       Goto, Pcs, ReturnPcs, ReceivePcs, Finish, Results, DownFrames,
       LocalsOK, RespPcs
  <2>3. LocalsOK'
    BY <1>31 DEF LeaseRegister, LocalsOK, ClientTypeOK, MsgPcs, HeldPcs,
       RespPcs, ReceivePcs, locals, Goto, Finish
  <2> QED BY <2>1, <2>2, <2>3
<1>32. CASE CheckReconnect(t)
  <2>1. WireTypeOK'
    BY <1>32 DEF CheckReconnect, WireTypeOK, link
  <2>2. ClientTypeOK'
    BY <1>32 DEF CheckReconnect, ClientTypeOK, object, session, inCall,
       locals, Goto, Pcs, ReturnPcs, ReceivePcs, Finish, Results
  <2>3. LocalsOK'
    BY <1>32 DEF CheckReconnect, LocalsOK, ClientTypeOK, MsgPcs, HeldPcs,
       RespPcs, ReceivePcs, locals, Goto, Finish
  <2> QED BY <2>1, <2>2, <2>3
<1>33. CASE RequestBind(t)
  <2>1. WireTypeOK'
    BY <1>33 DEF RequestBind, WireTypeOK, link
  <2>2. ClientTypeOK'
    BY <1>33 DEF RequestBind, ClientTypeOK, object, session, inCall, locals,
       Goto, Pcs, ReturnPcs, ReceivePcs
  <2>3. LocalsOK'
    BY <1>33 DEF RequestBind, LocalsOK, ClientTypeOK, MsgPcs, HeldPcs,
       RespPcs, ReceivePcs, locals, Goto
  <2> QED BY <2>1, <2>2, <2>3
<1>34. CASE CheckResponse(t)
  <2>1. WireTypeOK'
    BY <1>34 DEF CheckResponse, WireTypeOK, link
  <2>2. ClientTypeOK'
    BY <1>34 DEF CheckResponse, ClientTypeOK, object, session, inCall, locals,
       Goto, Pcs, ReturnPcs, ReceivePcs, Finish, Results, ConnectionLost,
       CloseThen
  <2>3. LocalsOK'
    BY <1>34 DEF CheckResponse, LocalsOK, ClientTypeOK, MsgPcs, HeldPcs,
       RespPcs, ReceivePcs, locals, Goto, ConnectionLost, CloseThen, Finish
  <2> QED BY <2>1, <2>2, <2>3
<1> QED
  BY <1>1, <1>2, <1>3, <1>4, <1>5, <1>6, <1>7, <1>8, <1>9, <1>10, <1>11,
     <1>12, <1>13, <1>14, <1>15, <1>16, <1>17, <1>18, <1>35, <1>19, <1>20, <1>21,
     <1>22, <1>23, <1>24, <1>25, <1>26, <1>27, <1>28, <1>29, <1>30, <1>31,
     <1>32, <1>33, <1>34 DEF Call, Continue

\* A handler takes a frame off its stream, and answers with one.
LEMMA TakesTyped ==
  ASSUME WireTypeOK, NEW c \in Conns, NEW type, Takes(c, type)
  PROVE  /\ up' \in [Conns -> Seq(UpFrames)]
         /\ Head(up[c]) \in UpFrames
BY DEF WireTypeOK, Takes

\* An answer of the host is a frame.
LEMMA RepliesTyped ==
  ASSUME WireTypeOK, NEW c \in Conns, Head(up[c]) \in UpFrames,
         NEW type \in DownTypes, NEW secret \in Conns \cup {None},
         Replies(c, type, secret)
  PROVE  down' \in [Conns -> Seq(DownFrames)]
<1>1. Frame(type, Head(up[c]).rid, secret) \in DownFrames
  BY DEF Frame, UpFrames, DownFrames
<1> QED
  BY <1>1, SendDownTyped DEF Replies

\* Every step of the host keeps the types, action by action.
LEMMA HostStep ==
  ASSUME TypeInv, UNCHANGED clientVars,
         Environment \/ \E c \in Conns : Handler(c)
  PROVE  TypeInv'
<1> USE WireAssumption, HostAssumption
<1> USE DEF TypeInv, TypeOK
<1>0. ClientTypeOK' /\ LocalsOK'
  BY DEF ClientTypeOK, LocalsOK, clientVars, object, session, inCall, locals
<1> SUFFICES WireTypeOK' /\ HostTypeOK'
  BY <1>0
<1>1. ASSUME NEW c \in Conns, Handshake(c) PROVE WireTypeOK' /\ HostTypeOK'
  <2>1. up' \in [Conns -> Seq(UpFrames)] /\ Head(up[c]) \in UpFrames
    BY <1>1, TakesTyped DEF Handshake
  <2>2. down' \in [Conns -> Seq(DownFrames)]
    BY <1>1, <2>1, RepliesTyped DEF Handshake, DownTypes
  <2> QED
    BY <1>1, <2>1, <2>2 DEF Handshake, WireTypeOK, HostTypeOK, registry
<1>2. ASSUME NEW c \in Conns, Register(c) PROVE WireTypeOK' /\ HostTypeOK'
  <2>1. up' \in [Conns -> Seq(UpFrames)] /\ Head(up[c]) \in UpFrames
    BY <1>2, TakesTyped DEF Register
  <2>2. down' \in [Conns -> Seq(DownFrames)]
    BY <1>2, <2>1, RepliesTyped DEF Register, DownTypes, WireTypeOK
  <2> QED
    BY <1>2, <2>1, <2>2 DEF Register, WireTypeOK, HostTypeOK, registry
<1>3. ASSUME NEW c \in Conns, ConfirmRegister(c)
      PROVE  WireTypeOK' /\ HostTypeOK'
  <2>1. Frame("REGISTERED", None, c) \in DownFrames
    BY DEF Frame, DownFrames, DownTypes
  <2>2. down' \in [Conns -> Seq(DownFrames)]
    BY <1>3, <2>1, SendDownTyped DEF ConfirmRegister
  <2> QED
    BY <1>3, <2>2 DEF ConfirmRegister, WireTypeOK, HostTypeOK, registry
<1>4. ASSUME NEW c \in Conns, Answer(c) PROVE WireTypeOK' /\ HostTypeOK'
  <2>1. up' \in [Conns -> Seq(UpFrames)] /\ Head(up[c]) \in UpFrames
    BY <1>4, TakesTyped DEF Answer
  <2>2. down' \in [Conns -> Seq(DownFrames)]
    BY <1>4, <2>1, RepliesTyped DEF Answer, DownTypes
  <2> QED
    BY <1>4, <2>1, <2>2 DEF Answer, WireTypeOK, HostTypeOK, registry
<1>5. ASSUME NEW c \in Conns, Route(c) PROVE WireTypeOK' /\ HostTypeOK'
  <2>1. up' \in [Conns -> Seq(UpFrames)] /\ Head(up[c]) \in UpFrames
    BY <1>5, TakesTyped DEF Route
  <2>2. down' \in [Conns -> Seq(DownFrames)]
    BY <1>5, <2>1, RepliesTyped DEF Route, DownTypes, WireTypeOK
  <2> QED
    BY <1>5, <2>1, <2>2 DEF Route, WireTypeOK, HostTypeOK, registry
<1>6. ASSUME NEW c \in Conns, Finalise(c) PROVE WireTypeOK' /\ HostTypeOK'
  BY <1>6, HostClosesTyped DEF Finalise, WireTypeOK, HostTypeOK
<1>7. ASSUME NEW c \in Conns, RelayIn(c) PROVE WireTypeOK' /\ HostTypeOK'
  <2>1. Frame("RELAY", None, None) \in DownFrames
    BY DEF Frame, DownFrames, DownTypes
  <2>2. down' \in [Conns -> Seq(DownFrames)]
    BY <1>7, <2>1, SendDownTyped DEF RelayIn
  <2> QED
    BY <1>7, <2>2 DEF RelayIn, WireTypeOK, HostTypeOK, registry
<1>8. CASE ForceClose
  BY <1>8, HostClosesTyped
  DEF ForceClose, WireTypeOK, HostTypeOK, hostVars, registry
<1>9. CASE Stop
  <2>1. WireTypeOK'
    <3>1. hEnd' \in [Conns -> EndStates] /\ up' \in [Conns -> Seq(UpFrames)]
      BY <1>9, HostClosesTyped DEF Stop
    <3>2. listening' \in BOOLEAN
      BY <1>9, Zenon DEF Stop
    <3> QED BY <1>9, <3>1, <3>2 DEF Stop, WireTypeOK
  <2>2. HostTypeOK'
    BY <1>9 DEF Stop, HostTypeOK, registry
  <2> QED BY <2>1, <2>2
<1> QED
  BY <1>1, <1>2, <1>3, <1>4, <1>5, <1>6, <1>7, <1>8, <1>9
  DEF Environment, Handler

\* The strengthened type invariant is inductive.
LEMMA TypeInvInit == Init => TypeInv
<1> USE WireAssumption, ClientAssumption, HostAssumption
<1> SUFFICES ASSUME Init PROVE TypeInv
  OBVIOUS
<1>1. WireTypeOK
  BY DEF Init, WireInit, WireTypeOK, EndStates
<1>2. ClientTypeOK
  BY DEF Init, ClientInit, ClientTypeOK, Pcs, ReturnPcs, Results
<1>3. HostTypeOK
  BY DEF Init, HostInit, HostTypeOK
<1>4. LocalsOK
  BY DEF Init, ClientInit, LocalsOK, MsgPcs, HeldPcs, RespPcs, ReceivePcs
<1> QED BY <1>1, <1>2, <1>3, <1>4 DEF TypeInv, TypeOK

\* ... and every step keeps it.
LEMMA TypeInvNext == TypeInv /\ [Next]_vars => TypeInv'
<1> SUFFICES ASSUME TypeInv, [Next]_vars PROVE TypeInv'
  OBVIOUS
<1>1. ASSUME NEW t \in Threads, Call(t) \/ Continue(t), UNCHANGED hostVars
      PROVE  TypeInv'
  BY <1>1, ClientStep
<1>2. CASE UNCHANGED clientVars /\ (Environment \/ \E c \in Conns : Handler(c))
  BY <1>2, HostStep
<1>3. CASE UNCHANGED vars
  BY <1>3 DEF TypeInv, TypeOK, LocalsOK, WireTypeOK, ClientTypeOK, HostTypeOK,
     vars, link, clientVars, hostVars, registry, object, session, inCall, locals
<1> QED
  BY <1>1, <1>2, <1>3 DEF Next, Terminated

\* In every reachable state every attribute of the client object, every local of
\* its threads and every frame on the wire is of the type the code gives it; in
\* particular no answer reaches a thread that is not a frame of the host.
THEOREM TypeCorrect == Spec => []TypeOK
<1>1. TypeInv => TypeOK
  BY DEF TypeInv
<1> QED
  BY <1>1, TypeInvInit, TypeInvNext, PTL DEF Spec

-----------------------------------------------------------------------------
(* The lock *)

\* Where a thread holds _io_lock.
LockPcs == ReceivePcs \cup {"r_bind"}

\* A step of t that neither takes nor gives up the lock.
LEMMA LockKept ==
  ASSUME ClientTypeOK, IOExclusion, NEW t \in Threads, NEW p, p \notin LockPcs,
         pc[t] \notin LockPcs, pc' = [pc EXCEPT ![t] = p], UNCHANGED ioLock
  PROVE  IOExclusion'
BY DEF ClientTypeOK, IOExclusion, LockPcs

\* A step of t that ends the time it holds the lock.
LEMMA LockReleased ==
  ASSUME ClientTypeOK, IOExclusion, NEW t \in Threads, NEW p, p \notin LockPcs,
         pc[t] \in LockPcs, pc' = [pc EXCEPT ![t] = p], Release(t)
  PROVE  IOExclusion'
BY WireAssumption DEF ClientTypeOK, IOExclusion, LockPcs, Release

\* A thread of the client in any step: the lock is taken by Send alone, and
\* given up by whatever ends the wait for the answer.
LEMMA IOExclusionClient ==
  ASSUME TypeInv, IOExclusion, NEW t \in Threads, Call(t) \/ Continue(t)
  PROVE  IOExclusion'
<1> USE DEF TypeInv, TypeOK
<1>1. CASE Send(t)
  <2>1. ioLock = None /\ ioLock' = t
    BY <1>1 DEF Send, Acquire
  <2>2. \E p \in LockPcs : pc' = [pc EXCEPT ![t] = p]
    BY <1>1 DEF Send, Goto, AfterSend, LockPcs, ReceivePcs
  <2> QED
    BY <2>1, <2>2, WireAssumption DEF ClientTypeOK, IOExclusion, LockPcs
<1>2. CASE Receive(t)
  <2>1. pc[t] \in LockPcs /\ Release(t)
    BY <1>2 DEF Receive, LockPcs
  <2>2. \E p \in {"c_check", "r_check", "q_check"} : pc' = [pc EXCEPT ![t] = p]
    BY <1>2 DEF Receive, Goto, AfterReceive, ReceivePcs
  <2> QED
    BY <2>1, <2>2, LockReleased DEF LockPcs, ReceivePcs
<1>3. CASE ReceiveFails(t) \/ ReceiveTorn(t) \/ ReceiveResync(t)
  <2>1. pc[t] \in LockPcs /\ Release(t)
    BY <1>3 DEF ReceiveFails, ReceiveTorn, ReceiveResync, LockPcs
  <2>2. \E p \in {"return", "cs_swap"} : pc' = [pc EXCEPT ![t] = p]
    BY <1>3, FailureMoves DEF ReceiveFails, ReceiveTorn, ReceiveResync
  <2> QED
    BY <2>1, <2>2, LockReleased DEF LockPcs, ReceivePcs
<1>4. CASE RegisterBind(t)
  <2>1. pc[t] \in LockPcs
    BY <1>4 DEF RegisterBind, LockPcs
  <2>2. CASE sock = None
    <3>1. /\ Release(t)
          /\ \E p \in {"return", "cs_swap"} : pc' = [pc EXCEPT ![t] = p]
      BY <1>4, <2>2, FailureMoves DEF RegisterBind
    <3> QED
      BY <2>1, <3>1, LockReleased DEF LockPcs, ReceivePcs
  <2>3. CASE sock # None
    <3>1. pc' = [pc EXCEPT ![t] = "r_recv"] /\ UNCHANGED ioLock
      BY <1>4, <2>3 DEF RegisterBind, Goto
    <3> QED
      BY <2>1, <3>1 DEF ClientTypeOK, IOExclusion, LockPcs, ReceivePcs
  <2> QED BY <2>2, <2>3
<1>5. CASE SendFails(t)
  <2>1. pc[t] \notin LockPcs /\ UNCHANGED ioLock
    BY <1>5 DEF SendFails, object, LockPcs, ReceivePcs
  <2>2. \E p \in {"return", "cs_swap"} : pc' = [pc EXCEPT ![t] = p]
    BY <1>5, FailureMoves DEF SendFails
  <2> QED
    BY <2>1, <2>2, LockKept DEF LockPcs, ReceivePcs
<1>6. CASE Call(t)
  <2>1. pc[t] = "idle" /\ UNCHANGED ioLock
    BY <1>6 DEF Call, CallTeardown, CallLogin, CallConnect, CallRegister,
       CallRequest, Enter, object
  <2>2. \E p \in {"return", "cs_swap", "r_guard", "d_send", "q_bind"} :
          pc' = [pc EXCEPT ![t] = p]
    BY <1>6 DEF Call, CallTeardown, CallLogin, CallConnect, CallRegister,
       CallRequest, CloseThen, Finish, Goto
  <2> QED
    BY <2>1, <2>2, LockKept DEF LockPcs, ReceivePcs
<1>7. CASE \/ Return(t) \/ CloseSwap(t) \/ CloseShut(t) \/ CloseClear(t)
           \/ ClearAgain(t) \/ LogoutCredential(t) \/ ShutdownLogout(t)
  <2>1. pc[t] \notin LockPcs /\ UNCHANGED ioLock
    BY <1>7 DEF Return, CloseSwap, CloseShut, CloseClear, ClearAgain,
       LogoutCredential, ShutdownLogout, object, LockPcs, ReceivePcs
  <2>2. \E p \in {"idle", "cs_swap", "cs_shut", "cs_clear", "l_clear"}
                 \cup ReturnPcs : pc' = [pc EXCEPT ![t] = p]
    BY <1>7 DEF Return, CloseSwap, CloseShut, CloseClear, ClearAgain,
       LogoutCredential, ShutdownLogout, CloseThen, Goto, ReturnPcs,
       ClientTypeOK
  <2> QED
    BY <2>1, <2>2, LockKept DEF LockPcs, ReceivePcs, ReturnPcs
<1>8. CASE \/ SendOnly(t) \/ Dial(t) \/ DialFails(t) \/ Store(t) \/ Hello(t)
           \/ CommitHandshake(t) \/ TrackHandshake(t) \/ NoToken(t)
           \/ LeaseHandshake(t)
  <2>1. pc[t] \notin LockPcs /\ UNCHANGED ioLock
    BY <1>8 DEF SendOnly, Dial, DialFails, Store, Hello, CommitHandshake,
       TrackHandshake, NoToken, LeaseHandshake, object, LockPcs, ReceivePcs
  <2>2. \E p \in {"return", "cs_swap", "c_store", "c_hello", "c_send",
                  "c_track", "c_lease", "r_guard"} : pc' = [pc EXCEPT ![t] = p]
    BY <1>8 DEF SendOnly, Dial, DialFails, Store, Hello, CommitHandshake,
       TrackHandshake, NoToken, LeaseHandshake, CloseThen, Finish, Goto
  <2> QED
    BY <2>1, <2>2, LockKept DEF LockPcs, ReceivePcs
<1>9. CASE \/ RegisterGuard(t) \/ CheckRegister(t) \/ TrackRegister(t)
           \/ LeaseRegister(t) \/ CheckReconnect(t) \/ RequestBind(t)
           \/ CheckResponse(t)
  <2>1. pc[t] \notin LockPcs /\ UNCHANGED ioLock
    BY <1>9 DEF RegisterGuard, CheckRegister, TrackRegister, LeaseRegister,
       CheckReconnect, RequestBind, CheckResponse, object, LockPcs, ReceivePcs
  <2>2. \E p \in {"return", "cs_swap", "r_send", "r_track", "r_lease",
                  "x_check", "q_send"} : pc' = [pc EXCEPT ![t] = p]
    BY <1>9 DEF RegisterGuard, CheckRegister, TrackRegister, LeaseRegister,
       CheckReconnect, RequestBind, CheckResponse, ConnectionLost, CloseThen,
       Finish, Goto
  <2> QED
    BY <2>1, <2>2, LockKept DEF LockPcs, ReceivePcs
<1> QED
  BY <1>1, <1>2, <1>3, <1>4, <1>5, <1>6, <1>7, <1>8, <1>9 DEF Continue

\* At first no thread has the lock.
LEMMA IOExclusionInit == Init => IOExclusion
BY WireAssumption DEF Init, ClientInit, IOExclusion, ReceivePcs

\* A step of the host leaves the lock alone.
LEMMA IOExclusionNext == TypeInv /\ IOExclusion /\ [Next]_vars => IOExclusion'
<1> SUFFICES ASSUME TypeInv, IOExclusion, [Next]_vars PROVE IOExclusion'
  OBVIOUS
<1>1. ASSUME NEW t \in Threads, Call(t) \/ Continue(t) PROVE IOExclusion'
  BY <1>1, IOExclusionClient
<1>2. CASE UNCHANGED clientVars
  BY <1>2 DEF IOExclusion, clientVars, object
<1> QED
  BY <1>1, <1>2 DEF Next, Terminated, vars

\* However many threads share the client, exactly the one that waits for an
\* answer holds _io_lock, so two threads never read one stream at a time
\* (request, register, connect: core_device_client.py:565-567, 623-625,
\* 802-804).
THEOREM IOExclusionHolds == Spec => []IOExclusion
BY IOExclusionInit, IOExclusionNext, TypeInvInit, TypeInvNext, PTL DEF Spec

-----------------------------------------------------------------------------
(* The registry *)

\* Every step keeps the registry backed by a handler: Register puts its own
\* connection in, and only the handler of that connection takes it out.
LEMMA RegistryNext ==
  ASSUME HostTypeOK, RegistryBacked, [Next]_vars
  PROVE  RegistryBacked'
<1> USE WireAssumption DEF HostTypeOK, RegistryBacked
<1>1. ASSUME NEW c \in Conns, Handshake(c) PROVE RegistryBacked'
  BY <1>1 DEF Handshake, registry
<1>2. ASSUME NEW c \in Conns, Register(c) PROVE RegistryBacked'
  BY <1>2 DEF Register, registry
<1>3. ASSUME NEW c \in Conns, ConfirmRegister(c) PROVE RegistryBacked'
  BY <1>3 DEF ConfirmRegister, registry
<1>4. ASSUME NEW c \in Conns, Answer(c) \/ Route(c) \/ RelayIn(c)
      PROVE  RegistryBacked'
  BY <1>4 DEF Answer, Route, RelayIn, registry
<1>5. ASSUME NEW c \in Conns, Finalise(c) PROVE RegistryBacked'
  <2>1. CASE OwnsRecord(c)
    BY <1>5, <2>1 DEF Finalise, OwnsRecord
  <2>2. CASE ~OwnsRecord(c)
    BY <1>5, <2>2 DEF Finalise, OwnsRecord
  <2> QED BY <2>1, <2>2
<1>6. CASE ForceClose \/ Stop \/ UNCHANGED hostVars
  BY <1>6 DEF ForceClose, Stop, hostVars, registry
<1> QED
  BY <1>1, <1>2, <1>3, <1>4, <1>5, <1>6
  DEF Next, Handler, Environment, Terminated, vars

\* Whatever connections a client opens and in whatever order their handlers
\* end, the registry lists the device as online exactly while the handler
\* that registered it runs (fake_host.py:239-282, 468-483).
THEOREM RegistryHolds == Spec => []RegistryBacked
<1>1. Init => RegistryBacked
  BY DEF Init, HostInit, RegistryBacked
<1>2. TypeInv /\ RegistryBacked /\ [Next]_vars => RegistryBacked'
  BY RegistryNext DEF TypeInv, TypeOK
<1> QED
  BY <1>1, <1>2, TypeInvInit, TypeInvNext, PTL DEF Spec

-----------------------------------------------------------------------------
(* Requests: where the frames that carry the request_id of a call in       *)
(* progress can be, and what they say                                      *)

\* The frames of a stream.
Frames(s) == {s[i] : i \in DOMAIN s}

\* A thread has drawn its request_id and sent nothing yet; it has drawn it and
\* has not yet compared the answer.
DrawnPcs == {"q_bind", "q_send"}
RequestPcs == DrawnPcs \cup {"q_recv", "q_check"}

\* A request_id names the call that drew it; handshake and registration carry
\* none.
MsgOwn ==
  \A t \in Threads :
    /\ pc[t] \in RequestPcs \cup {"d_send"} => msg[t].rid = <<t, calls[t]>>
    /\ pc[t] \in {"c_send", "r_send"} => msg[t].rid = None
    /\ pc[t] \in RequestPcs => msg[t].type = "REQUEST"

\* No frame under way carries a request_id that was not sent yet.
RidsPast ==
  \A c \in Conns : \A f \in Frames(up[c]) \cup Frames(down[c]) :
    \A t \in Threads, n \in Nat :
      f.rid = <<t, n>> =>
        n < calls[t] \/ (n = calls[t] /\ pc[t] \notin DrawnPcs)

\* The request of a waiting thread is under way as that thread built it.
UpOwn ==
  \A c \in Conns : \A f \in Frames(up[c]) : \A t \in Threads :
    pc[t] = "q_recv" /\ f.rid = msg[t].rid =>
      f.type = "REQUEST" /\ f.secret = msg[t].secret

\* The host answers it, and serves it only on the connection whose token it
\* carries.
DownOwn ==
  \A c \in Conns : \A f \in Frames(down[c]) : \A t \in Threads :
    pc[t] = "q_recv" /\ f.rid = msg[t].rid =>
      /\ f.type \in {"RESPONSE", "ERROR"}
      /\ f.type = "RESPONSE" => msg[t].secret = c /\ c \in device

\* What a thread is about to compare with its request is an answer, if it
\* carries its request_id.
ReplyOwn ==
  \A t \in Threads :
    pc[t] = "q_check" /\ resp[t].rid = msg[t].rid =>
      resp[t].type \in {"RESPONSE", "ERROR"}

RequestInv ==
  MsgOwn /\ RidsPast /\ UpOwn /\ DownOwn /\ ReplyOwn /\ ServedInOwnSession

-----------------------------------------------------------------------------
(* Streams *)

\* Appending a frame to a stream adds that frame,
LEMMA FramesAppend ==
  ASSUME NEW S, NEW s \in Seq(S), NEW f \in S
  PROVE  Frames(Append(s, f)) = Frames(s) \cup {f}
<1> DEFINE a == Append(s, f)
<1>1. /\ DOMAIN a = 1 .. Len(s) + 1
      /\ DOMAIN s = 1 .. Len(s)
      /\ Len(s) \in Nat
      /\ a[Len(s) + 1] = f
      /\ \A i \in 1 .. Len(s) : a[i] = s[i]
  OBVIOUS
<1>2. Frames(a) \subseteq Frames(s) \cup {f}
  BY <1>1 DEF Frames
<1>3. Frames(s) \cup {f} \subseteq Frames(a)
  BY <1>1 DEF Frames
<1> QED BY <1>2, <1>3

\* ... and taking one off the front adds none.
LEMMA FramesTail ==
  ASSUME NEW S, NEW s \in Seq(S), s # <<>>
  PROVE  Frames(Tail(s)) \subseteq Frames(s) /\ Head(s) \in Frames(s)
<1>1. /\ DOMAIN s = 1 .. Len(s) /\ Len(s) \in Nat \ {0}
      /\ DOMAIN Tail(s) = 1 .. Len(s) - 1
      /\ \A i \in 1 .. Len(s) - 1 : Tail(s)[i] = s[i + 1]
      /\ Head(s) = s[1]
  OBVIOUS
<1> QED BY <1>1 DEF Frames

\* ... nor does losing some of them.
LEMMA FramesSubSeq ==
  ASSUME NEW S, NEW s \in Seq(S), NEW k \in 1 .. Len(s)
  PROVE  Frames(SubSeq(s, k + 1, Len(s))) \subseteq Frames(s)
<1> DEFINE r == SubSeq(s, k + 1, Len(s))
<1>1. /\ DOMAIN s = 1 .. Len(s) /\ DOMAIN r = 1 .. Len(s) - k
      /\ \A i \in 1 .. Len(s) - k : r[i] = s[i + k]
  OBVIOUS
<1>2. \A i \in 1 .. Len(s) - k : i + k \in 1 .. Len(s)
  OBVIOUS
<1> QED BY <1>1, <1>2 DEF Frames

\* One frame taken off a stream of one leaves none.
LEMMA TailOfOne ==
  ASSUME NEW S, NEW s \in Seq(S), Len(s) = 1
  PROVE  Tail(s) = <<>> /\ s = <<Head(s)>>
<1>1. Tail(s) \in Seq(S) /\ Len(Tail(s)) = 0
  OBVIOUS
<1>2. \A r \in Seq(S) : Len(r) = 0 => r = <<>>
  OBVIOUS
<1>3. s = <<Head(s)>>
  OBVIOUS
<1> QED BY <1>1, <1>2, <1>3

\* An empty stream carries nothing.
LEMMA FramesEmpty == Frames(<<>>) = {}
BY DEF Frames

\* A client closing an end drops frames, and so does the host.
LEMMA ClosingDrops ==
  ASSUME WireTypeOK
  PROVE  /\ \A C : ClientCloses(C) =>
              \A c \in Conns : Frames(down'[c]) \subseteq Frames(down[c])
         /\ \A C : HostCloses(C) =>
              \A c \in Conns : Frames(up'[c]) \subseteq Frames(up[c])
<1>1. ASSUME NEW C, ClientCloses(C), NEW c \in Conns
      PROVE  Frames(down'[c]) \subseteq Frames(down[c])
  <2>1. down'[c] = <<>> \/ down'[c] = down[c]
    BY <1>1 DEF ClientCloses
  <2> QED BY <2>1, FramesEmpty
<1>2. ASSUME NEW C, HostCloses(C), NEW c \in Conns
      PROVE  Frames(up'[c]) \subseteq Frames(up[c])
  <2>1. up'[c] = <<>> \/ up'[c] = up[c]
    BY <1>2 DEF HostCloses
  <2> QED BY <2>1, FramesEmpty
<1> QED BY <1>1, <1>2

\* A thread only takes frames off the streams towards the client.
LEMMA ClientTakes ==
  ASSUME TypeInv, NEW t \in Threads, Call(t) \/ Continue(t), NEW c \in Conns
  PROVE  Frames(down'[c]) \subseteq Frames(down[c])
<1> USE DEF TypeInv, TypeOK
<1>1. CASE UNCHANGED down
  BY <1>1
<1>2. CASE Return(t) \/ Store(t) \/ RegisterBind(t)
  BY <1>2, ClosingDrops DEF Return, Store, RegisterBind, Collected
<1>3. CASE LeaseHandshake(t)
  BY <1>3, ClosingDrops DEF LeaseHandshake, Collected
<1>4. CASE CloseShut(t)
  BY <1>4, ClosingDrops DEF CloseShut
<1>5. CASE Receive(t)
  <2> DEFINE s == held[t]
  <2>1. s \in Conns /\ down[s] \in Seq(DownFrames) /\ down[s] # <<>>
    BY <1>5 DEF Receive, LocalsOK, HeldPcs, WireTypeOK
  <2>2. down' = [down EXCEPT ![s] = Tail(@)]
    BY <1>5 DEF Receive
  <2>3. Frames(Tail(down[s])) \subseteq Frames(down[s])
    BY <2>1, FramesTail
  <2>4. down'[c] = IF c = s THEN Tail(down[s]) ELSE down[c]
    BY <2>1, <2>2 DEF WireTypeOK
  <2> QED BY <2>3, <2>4
<1>6. CASE ReceiveResync(t)
  <2> DEFINE s == held[t]
  <2>1. s \in Conns /\ down[s] \in Seq(DownFrames)
    BY <1>6 DEF ReceiveResync, LocalsOK, HeldPcs, WireTypeOK
  <2>2. PICK k \in 1 .. Len(down[s]) :
          down' = [down EXCEPT ![s] = SubSeq(@, k + 1, Len(@))]
    BY <1>6 DEF ReceiveResync
  <2>3. Frames(SubSeq(down[s], k + 1, Len(down[s]))) \subseteq Frames(down[s])
    BY <2>1, FramesSubSeq
  <2>4. down'[c] = IF c = s THEN SubSeq(down[s], k + 1, Len(down[s]))
                   ELSE down[c]
    BY <2>1, <2>2 DEF WireTypeOK
  <2> QED BY <2>3, <2>4
<1> QED
  BY <1>1, <1>2, <1>3, <1>4, <1>5, <1>6
  DEF Call, Continue, CallTeardown, CallLogin, CallConnect, CallRegister,
      CallRequest, CloseSwap, CloseClear, ClearAgain, LogoutCredential,
      ShutdownLogout, Send, SendOnly, SendFails, ReceiveFails, ReceiveTorn,
      Dial, DialFails, Hello, CommitHandshake, TrackHandshake, NoToken,
      RegisterGuard, CheckRegister, TrackRegister, LeaseRegister,
      CheckReconnect, RequestBind, CheckResponse, link

\* What a thread puts on a stream is its own message.
LEMMA ClientPuts ==
  ASSUME TypeInv, NEW t \in Threads, Call(t) \/ Continue(t), NEW c \in Conns,
         NEW f \in Frames(up'[c])
  PROVE  f \in Frames(up[c]) \/ (f = msg[t] /\ (Send(t) \/ SendOnly(t)))
<1> USE DEF TypeInv, TypeOK
<1>1. CASE UNCHANGED up
  BY <1>1
<1>2. CASE Send(t) \/ SendOnly(t)
  <2>1. msg[t] \in UpFrames
    BY <1>2 DEF Send, SendOnly, LocalsOK, MsgPcs
  <2>2. PICK s \in Conns : SendUp(s, msg[t])
    <3>1. CASE Send(t)
      BY <3>1 DEF Send, SendSocket, ClientTypeOK
    <3>2. CASE SendOnly(t)
      BY <3>2 DEF SendOnly, ClientTypeOK
    <3> QED BY <1>2, <3>1, <3>2
  <2>3. Frames(Append(up[s], msg[t])) = Frames(up[s]) \cup {msg[t]}
    BY <2>1, FramesAppend DEF WireTypeOK
  <2>4. up'[c] = up[c] \/ (c = s /\ up'[c] = Append(up[s], msg[t]))
    BY <2>2 DEF SendUp, WireTypeOK
  <2> QED BY <1>2, <2>3, <2>4
<1> QED
  BY <1>1, <1>2
  DEF Call, Continue, CallTeardown, CallLogin, CallConnect, CallRegister,
      CallRequest, Return, CloseSwap, CloseShut, CloseClear, ClearAgain,
      LogoutCredential, ShutdownLogout, SendFails, Receive, ReceiveFails,
      ReceiveTorn, ReceiveResync, Dial, DialFails, Store, Hello, CommitHandshake,
      TrackHandshake, NoToken, LeaseHandshake, RegisterGuard, RegisterBind,
      CheckRegister, TrackRegister, LeaseRegister, CheckReconnect, RequestBind,
      CheckResponse, link

\* A handler only takes frames off the streams towards the host.
LEMMA HostTakes ==
  ASSUME TypeInv, Environment \/ \E d \in Conns : Handler(d), NEW c \in Conns
  PROVE  Frames(up'[c]) \subseteq Frames(up[c])
<1> USE DEF TypeInv, TypeOK
<1>1. CASE UNCHANGED up
  BY <1>1
<1>2. ASSUME NEW d \in Conns, NEW type, Takes(d, type)
      PROVE  Frames(up'[c]) \subseteq Frames(up[c])
  <2>1. up[d] \in Seq(UpFrames) /\ up[d] # <<>>
    BY <1>2 DEF Takes, WireTypeOK
  <2>2. Frames(Tail(up[d])) \subseteq Frames(up[d])
    BY <2>1, FramesTail
  <2>3. up'[c] = IF c = d THEN Tail(up[d]) ELSE up[c]
    BY <1>2 DEF Takes, WireTypeOK
  <2> QED BY <2>2, <2>3
<1>3. ASSUME NEW C, HostCloses(C) PROVE Frames(up'[c]) \subseteq Frames(up[c])
  BY <1>3, ClosingDrops
<1> QED
  BY <1>1, <1>2, <1>3
  DEF Environment, Handler, Handshake, Register, ConfirmRegister, Answer,
      Route, Finalise, RelayIn, ForceClose, Stop

\* What the host puts on a stream carries no request_id, or answers a frame
\* that was under way on the same connection; a RESPONSE only if the handler
\* has registered and that frame carried its session token.
LEMMA HostPuts ==
  ASSUME TypeInv, Environment \/ \E d \in Conns : Handler(d), NEW c \in Conns,
         NEW f \in Frames(down'[c])
  PROVE  \/ f \in Frames(down[c])
         \/ f.rid = None
         \/ \E g \in Frames(up[c]) :
              /\ f.rid = g.rid
              /\ g.type = "REQUEST" => f.type \in {"RESPONSE", "ERROR"}
              /\ f.type = "RESPONSE" => g.secret = c /\ c \in device
<1> USE DEF TypeInv, TypeOK
<1>1. CASE UNCHANGED down
  BY <1>1
<1>2. ASSUME NEW d \in Conns, NEW e \in DownFrames, SendDown(d, e)
      PROVE  f \in Frames(down[c]) \/ (c = d /\ f = e)
  <2>1. Frames(Append(down[d], e)) = Frames(down[d]) \cup {e}
    BY <1>2, FramesAppend DEF WireTypeOK
  <2>2. down'[c] = down[c] \/ (c = d /\ down'[c] = Append(down[d], e))
    BY <1>2 DEF SendDown, WireTypeOK
  <2> QED BY <2>1, <2>2
<1>3. ASSUME NEW d \in Conns, NEW type, Takes(d, type), NEW type2 \in DownTypes,
             NEW secret \in Conns \cup {None}, Replies(d, type2, secret)
      PROVE  \/ f \in Frames(down[c])
             \/ /\ c = d /\ f.type = type2 /\ f.rid = Head(up[d]).rid
                /\ Head(up[d]) \in Frames(up[c]) /\ Head(up[d]).type = type
  <2>1. Head(up[d]) \in Frames(up[d]) /\ Head(up[d]) \in UpFrames
    BY <1>3, FramesTail DEF Takes, WireTypeOK
  <2>2. Frame(type2, Head(up[d]).rid, secret) \in DownFrames
    BY <2>1 DEF Frame, UpFrames, DownFrames
  <2> QED
    BY <1>2, <1>3, <2>1, <2>2 DEF Replies, Frame, Takes
<1>4. ASSUME NEW d \in Conns, Handshake(d)
      PROVE  \/ f \in Frames(down[c])
             \/ \E g \in Frames(up[c]) :
                  f.rid = g.rid /\ g.type # "REQUEST" /\ f.type # "RESPONSE"
  BY <1>3, <1>4 DEF Handshake, DownTypes
<1>5. ASSUME NEW d \in Conns, Register(d) \/ Route(d)
      PROVE  \/ f \in Frames(down[c])
             \/ \E g \in Frames(up[c]) :
                  f.rid = g.rid /\ g.type # "REQUEST" /\ f.type # "RESPONSE"
  BY <1>1, <1>3, <1>5 DEF Register, Route, DownTypes
<1>6. ASSUME NEW d \in Conns, Answer(d)
      PROVE  \/ f \in Frames(down[c])
             \/ \E g \in Frames(up[c]) :
                  /\ f.rid = g.rid /\ f.type \in {"RESPONSE", "ERROR"}
                  /\ f.type = "RESPONSE" => g.secret = c /\ c \in device
  <2>1. PICK type \in DownTypes :
          /\ Replies(d, type, None) /\ type \in {"RESPONSE", "ERROR"}
          /\ type = "RESPONSE" => Registered(d)
    BY <1>6 DEF Answer, DownTypes
  <2>2. Takes(d, "REQUEST")
    BY <1>6 DEF Answer
  <2> QED
    BY <1>3, <2>1, <2>2 DEF Registered
<1>7. ASSUME NEW d \in Conns, ConfirmRegister(d)
      PROVE  f \in Frames(down[c]) \/ f.rid = None
  <2>1. Frame("REGISTERED", None, d) \in DownFrames
    BY DEF Frame, DownFrames, DownTypes
  <2> QED
    BY <1>2, <1>7, <2>1 DEF ConfirmRegister, Frame
<1>8. ASSUME NEW d \in Conns, RelayIn(d)
      PROVE  f \in Frames(down[c]) \/ f.rid = None
  <2>1. Frame("RELAY", None, None) \in DownFrames
    BY DEF Frame, DownFrames, DownTypes
  <2> QED
    BY <1>2, <1>8, <2>1 DEF RelayIn, Frame
<1> QED
  BY <1>1, <1>4, <1>5, <1>6, <1>7, <1>8
  DEF Environment, Handler, Finalise, ForceClose, Stop

-----------------------------------------------------------------------------
(* Threads *)

\* A step of t leaves the other threads where they are.
LEMMA OthersRest ==
  ASSUME TypeInv, NEW t \in Threads, Call(t) \/ Continue(t),
         NEW u \in Threads, u # t
  PROVE  /\ pc'[u] = pc[u] /\ msg'[u] = msg[u] /\ calls'[u] = calls[u]
         /\ held'[u] = held[u] /\ resp'[u] = resp[u] /\ oldId'[u] = oldId[u]
         /\ op'[u] = op[u] /\ ret'[u] = ret[u] /\ result'[u] = result[u]
         /\ closing'[u] = closing[u]
<1> USE DEF TypeInv, TypeOK
<1> USE DEF ClientTypeOK, Goto, Finish, CloseThen, inCall, locals
<1>1. CASE Call(t)
  <2>1. ASSUME NEW o, Enter(t, o)
        PROVE  calls'[u] = calls[u] /\ op'[u] = op[u]
    BY <2>1 DEF Enter
  <2>2. CASE CallTeardown(t) \/ CallLogin(t)
    BY <2>1, <2>2 DEF CallTeardown, CallLogin
  <2>3. CASE CallConnect(t) \/ CallRegister(t)
    BY <2>1, <2>3 DEF CallConnect, CallRegister
  <2>4. CASE CallRequest(t)
    BY <2>1, <2>4 DEF CallRequest
  <2> QED BY <1>1, <2>2, <2>3, <2>4 DEF Call
<1>2. CASE \/ Return(t) \/ CloseSwap(t) \/ CloseShut(t) \/ CloseClear(t)
           \/ ClearAgain(t) \/ LogoutCredential(t) \/ ShutdownLogout(t)
  BY <1>2 DEF Return, CloseSwap, CloseShut, CloseClear, ClearAgain,
     LogoutCredential, ShutdownLogout
<1>3. CASE \/ SendFails(t) \/ ReceiveFails(t) \/ ReceiveTorn(t)
           \/ ReceiveResync(t)
  BY <1>3, FailureMoves DEF SendFails, ReceiveFails, ReceiveTorn, ReceiveResync
<1>4. CASE Send(t) \/ SendOnly(t) \/ Receive(t)
  BY <1>4 DEF Send, SendOnly, Receive
<1>5. CASE \/ Dial(t) \/ DialFails(t) \/ Store(t) \/ Hello(t)
           \/ CommitHandshake(t) \/ TrackHandshake(t) \/ NoToken(t)
           \/ LeaseHandshake(t)
  BY <1>5 DEF Dial, DialFails, Store, Hello, CommitHandshake, TrackHandshake,
     NoToken, LeaseHandshake
<1>6. CASE RegisterBind(t)
  BY <1>6, FailureMoves DEF RegisterBind
<1>7. CASE \/ RegisterGuard(t) \/ CheckRegister(t) \/ TrackRegister(t)
           \/ LeaseRegister(t) \/ CheckReconnect(t) \/ RequestBind(t)
           \/ CheckResponse(t)
  BY <1>7 DEF RegisterGuard, CheckRegister, TrackRegister, LeaseRegister,
     CheckReconnect, RequestBind, CheckResponse, ConnectionLost
<1> QED
  BY <1>1, <1>2, <1>3, <1>4, <1>5, <1>6, <1>7 DEF Continue

\* The steps a request takes: the thread draws a request_id, binds the socket,
\* sends, receives.  It may also build a message without a request_id.  Any
\* other step leaves it outside a request.
Draws(t) ==
  /\ pc[t] = "idle" /\ pc'[t] \in {"q_bind", "d_send"}
  /\ calls'[t] = calls[t] + 1
  /\ msg'[t].rid = <<t, calls'[t]>>
  /\ pc'[t] = "q_bind" => msg'[t].type = "REQUEST"
Builds(t) ==
  /\ pc'[t] \in {"c_send", "r_send"}
  /\ calls'[t] = calls[t]
  /\ msg'[t].rid = None
Binds(t) ==
  /\ pc[t] = "q_bind" /\ pc'[t] = "q_send"
  /\ calls'[t] = calls[t] /\ msg'[t] = msg[t]
Sends(t) ==
  /\ pc[t] = "q_send" /\ pc'[t] = "q_recv"
  /\ calls'[t] = calls[t] /\ msg'[t] = msg[t]
Receives(t) ==
  /\ pc[t] = "q_recv" /\ pc'[t] = "q_check"
  /\ calls'[t] = calls[t] /\ msg'[t] = msg[t] /\ held'[t] = held[t]
  /\ held[t] \in Conns /\ resp'[t] \in Frames(down[held[t]])
Leaves(t) ==
  /\ pc'[t] \notin RequestPcs \cup {"d_send", "c_send", "r_send"}
  /\ calls'[t] \in {calls[t], calls[t] + 1}

\* Each step of a thread is one of these.
LEMMA RequestSteps ==
  ASSUME TypeInv, NEW t \in Threads, Call(t) \/ Continue(t)
  PROVE  \/ Draws(t) \/ Builds(t) \/ Binds(t) \/ Sends(t) \/ Receives(t)
         \/ Leaves(t)
<1> USE DEF TypeInv, TypeOK, RequestPcs, DrawnPcs
<1> USE DEF ClientTypeOK, Goto, Finish, CloseThen, inCall, locals
<1>1. CASE CallRequest(t)
  BY <1>1 DEF CallRequest, Enter, Frame, RequestType, Draws, Leaves
<1>2. CASE CallTeardown(t) \/ CallLogin(t) \/ CallConnect(t) \/ CallRegister(t)
  BY <1>2 DEF CallTeardown, CallLogin, CallConnect, CallRegister, Enter, Leaves
<1>3. CASE \/ Return(t) \/ CloseSwap(t) \/ CloseShut(t) \/ CloseClear(t)
           \/ ClearAgain(t) \/ LogoutCredential(t) \/ ShutdownLogout(t)
  BY <1>3 DEF Return, CloseSwap, CloseShut, CloseClear, ClearAgain,
     LogoutCredential, ShutdownLogout, ReturnPcs, Leaves
<1>4. CASE \/ SendFails(t) \/ ReceiveFails(t) \/ ReceiveTorn(t)
           \/ ReceiveResync(t)
  BY <1>4, FailureMoves DEF SendFails, ReceiveFails, ReceiveTorn,
     ReceiveResync, Leaves
<1>5. CASE Send(t)
  BY <1>5 DEF Send, AfterSend, Sends, Leaves
<1>6. CASE SendOnly(t)
  BY <1>6 DEF SendOnly, Leaves
<1>7. CASE Receive(t)
  <2>1. held[t] \in Conns /\ down[held[t]] # <<>>
    BY <1>7 DEF Receive, LocalsOK, HeldPcs
  <2>2. resp'[t] \in Frames(down[held[t]])
    BY <1>7, <2>1, FramesTail DEF Receive, WireTypeOK
  <2> QED
    BY <1>7, <2>1, <2>2 DEF Receive, AfterReceive, ReceivePcs, Receives, Leaves
<1>8. CASE Hello(t) \/ RegisterGuard(t)
  BY <1>8 DEF Hello, RegisterGuard, Frame, Builds, Leaves
<1>9. CASE RequestBind(t)
  BY <1>9 DEF RequestBind, Binds
<1>10. CASE RegisterBind(t)
  BY <1>10, FailureMoves DEF RegisterBind, Leaves
<1>11. CASE \/ Dial(t) \/ DialFails(t) \/ Store(t) \/ CommitHandshake(t)
            \/ TrackHandshake(t) \/ NoToken(t) \/ LeaseHandshake(t)
  BY <1>11 DEF Dial, DialFails, Store, CommitHandshake, TrackHandshake,
     NoToken, LeaseHandshake, Leaves
<1>12. CASE \/ CheckRegister(t) \/ TrackRegister(t) \/ LeaseRegister(t)
            \/ CheckReconnect(t) \/ CheckResponse(t)
  BY <1>12 DEF CheckRegister, TrackRegister, LeaseRegister, CheckReconnect,
     CheckResponse, ConnectionLost, Leaves
<1> QED
  BY <1>1, <1>2, <1>3, <1>4, <1>5, <1>6, <1>7, <1>8, <1>9, <1>10, <1>11, <1>12
  DEF Call, Continue

-----------------------------------------------------------------------------
(* The invariant *)

\* The parts of the invariant are kept by every step of a thread,
LEMMA RequestClient ==
  ASSUME TypeInv, RequestInv, NEW t \in Threads, Call(t) \/ Continue(t),
         UNCHANGED hostVars
  PROVE  RequestInv'
<1> USE DEF TypeInv, TypeOK, RequestInv
<1>1. /\ \A u \in Threads \ {t} :
           /\ pc'[u] = pc[u] /\ msg'[u] = msg[u] /\ calls'[u] = calls[u]
           /\ held'[u] = held[u] /\ resp'[u] = resp[u]
  BY OthersRest
<1>2. Draws(t) \/ Builds(t) \/ Binds(t) \/ Sends(t) \/ Receives(t) \/ Leaves(t)
  BY RequestSteps
<1>3. \A c \in Conns : Frames(down'[c]) \subseteq Frames(down[c])
  BY ClientTakes
<1>4. ASSUME NEW c \in Conns, NEW f \in Frames(up'[c])
      PROVE  f \in Frames(up[c]) \/ (f = msg[t] /\ (Send(t) \/ SendOnly(t)))
  BY <1>4, ClientPuts
<1>5. calls \in [Threads -> Nat] /\ calls'[t] \in {calls[t], calls[t] + 1}
  BY <1>2 DEF ClientTypeOK, Draws, Builds, Binds, Sends, Receives, Leaves
<1>6. ASSUME Send(t) \/ SendOnly(t)
      PROVE  /\ msg[t].rid \in {None, <<t, calls[t]>>}
             /\ calls'[t] = calls[t] /\ pc'[t] \notin DrawnPcs
  <2>1. pc[t] \in {"c_send", "r_send", "q_send", "d_send"}
    BY <1>6 DEF Send, SendOnly
  <2>2. UNCHANGED calls
    BY <1>6 DEF Send, SendOnly, inCall
  <2>3. pc'[t] \in {"c_recv", "r_bind", "q_recv", "return"}
    BY <1>6 DEF Send, SendOnly, AfterSend, Finish, Goto, ClientTypeOK
  <2> QED
    BY <2>1, <2>2, <2>3 DEF MsgOwn, RequestPcs, DrawnPcs
<1>7. MsgOwn'
  BY <1>1, <1>2 DEF MsgOwn, Draws, Builds, Binds, Sends, Receives, Leaves,
     RequestPcs, DrawnPcs
<1>8. RidsPast'
  <2> SUFFICES ASSUME NEW c \in Conns,
                      NEW f \in Frames(up'[c]) \cup Frames(down'[c]),
                      NEW u \in Threads, NEW n \in Nat, f.rid = <<u, n>>
               PROVE  n < calls'[u] \/ (n = calls'[u] /\ pc'[u] \notin DrawnPcs)
    BY DEF RidsPast
  <2>1. CASE f \in Frames(up[c]) \cup Frames(down[c])
    <3>1. n < calls[u] \/ (n = calls[u] /\ pc[u] \notin DrawnPcs)
      BY <2>1 DEF RidsPast
    <3>2. CASE u # t
      BY <3>1, <3>2, <1>1
    <3>3. CASE u = t
      BY <3>1, <3>3, <1>2, <1>5
      DEF Draws, Builds, Binds, Sends, Receives, Leaves, RequestPcs, DrawnPcs
    <3> QED BY <3>2, <3>3
  <2>2. CASE f \notin Frames(up[c]) \cup Frames(down[c])
    <3>1. f = msg[t] /\ (Send(t) \/ SendOnly(t))
      BY <2>2, <1>3, <1>4
    <3>2. u = t /\ n = calls[t]
      BY <3>1, <1>6, WireAssumption
    <3> QED BY <3>1, <3>2, <1>6
  <2> QED BY <2>1, <2>2
<1>9. ASSUME NEW u \in Threads, NEW c \in Conns, pc'[u] = "q_recv",
             NEW f \in Frames(up[c]) \cup Frames(down[c]), f.rid = msg'[u].rid
      PROVE  u # t
  <2> SUFFICES ASSUME u = t PROVE FALSE
    OBVIOUS
  <2>1. Sends(t)
    BY <1>2, <1>9
    DEF Draws, Builds, Binds, Receives, Leaves, RequestPcs, DrawnPcs
  <2>2. f.rid = <<t, calls[t]>> /\ pc[t] \in DrawnPcs
    BY <2>1, <1>9 DEF Sends, MsgOwn, RequestPcs, DrawnPcs
  <2> QED
    BY <2>2, <1>5 DEF RidsPast
<1>10. UpOwn'
  <2> SUFFICES ASSUME NEW c \in Conns, NEW f \in Frames(up'[c]),
                      NEW u \in Threads,
                      pc'[u] = "q_recv", f.rid = msg'[u].rid
               PROVE  f.type = "REQUEST" /\ f.secret = msg'[u].secret
    BY DEF UpOwn
  <2>1. CASE f \in Frames(up[c])
    BY <2>1, <1>1, <1>9 DEF UpOwn
  <2>2. CASE f \notin Frames(up[c])
    <3>1. f = msg[t] /\ (Send(t) \/ SendOnly(t))
      BY <2>2, <1>4
    <3>2. CASE u = t
      BY <3>1, <3>2, <1>2
      DEF Draws, Builds, Binds, Sends, Receives, Leaves, MsgOwn, RequestPcs,
          DrawnPcs
    <3>3. CASE u # t
      <4>1. msg[u].rid = <<u, calls[u]>> /\ f.rid = msg[u].rid
        BY <3>3, <1>1 DEF MsgOwn, RequestPcs
      <4> QED
        BY <3>1, <3>3, <4>1, <1>5, <1>6, WireAssumption
    <3> QED BY <3>2, <3>3
  <2> QED BY <2>1, <2>2
<1>11. DownOwn'
  <2> SUFFICES ASSUME NEW c \in Conns, NEW f \in Frames(down'[c]),
                      NEW u \in Threads,
                      pc'[u] = "q_recv", f.rid = msg'[u].rid
               PROVE  /\ f.type \in {"RESPONSE", "ERROR"}
                      /\ f.type = "RESPONSE" =>
                           msg'[u].secret = c /\ c \in device'
    BY DEF DownOwn
  <2>1. f \in Frames(down[c])
    BY <1>3
  <2>2. u # t
    BY <2>1, <1>9
  <2> QED
    BY <2>1, <2>2, <1>1 DEF DownOwn, hostVars
<1>12. ReplyOwn' /\ ServedInOwnSession'
  <2> SUFFICES ASSUME NEW u \in Threads, pc'[u] = "q_check",
                      resp'[u].rid = msg'[u].rid
               PROVE  /\ resp'[u].type \in {"RESPONSE", "ERROR"}
                      /\ resp'[u].type = "RESPONSE" =>
                           msg'[u].secret = held'[u] /\ held'[u] \in device'
    BY DEF ServedInOwnSession, ReplyOwn
  <2>1. CASE u # t
    BY <2>1, <1>1 DEF ServedInOwnSession, ReplyOwn, hostVars
  <2>2. CASE u = t
    <3>1. Receives(t)
      BY <2>2, <1>2
      DEF Draws, Builds, Binds, Sends, Leaves, RequestPcs, DrawnPcs
    <3> QED
      BY <2>2, <3>1 DEF Receives, DownOwn, hostVars
  <2> QED BY <2>1, <2>2
<1> QED BY <1>7, <1>8, <1>10, <1>11, <1>12

\* ... and by every step of the host.
LEMMA RequestHost ==
  ASSUME TypeInv, RequestInv, UNCHANGED clientVars,
         Environment \/ \E c \in Conns : Handler(c)
  PROVE  RequestInv'
<1> USE DEF TypeInv, TypeOK, RequestInv
<1>1. UNCHANGED <<pc, msg, calls, held, resp>>
  BY DEF clientVars, inCall, locals
<1>2. \A c \in Conns : Frames(up'[c]) \subseteq Frames(up[c])
  BY HostTakes
<1>3. ASSUME NEW c \in Conns, NEW f \in Frames(down'[c])
      PROVE  \/ f \in Frames(down[c])
             \/ f.rid = None
             \/ \E g \in Frames(up[c]) :
                  /\ f.rid = g.rid
                  /\ g.type = "REQUEST" => f.type \in {"RESPONSE", "ERROR"}
                  /\ f.type = "RESPONSE" => g.secret = c /\ c \in device
  BY <1>3, HostPuts
<1>4. device \subseteq device'
  BY DEF Environment, Handler, Handshake, Register, ConfirmRegister, Answer,
     Route, Finalise, RelayIn, ForceClose, Stop, hostVars
<1>5. MsgOwn' /\ ReplyOwn' /\ ServedInOwnSession'
  BY <1>1, <1>4 DEF MsgOwn, ReplyOwn, ServedInOwnSession
<1>6. RidsPast'
  <2> SUFFICES ASSUME NEW c \in Conns,
                      NEW f \in Frames(up'[c]) \cup Frames(down'[c]),
                      NEW u \in Threads, NEW n \in Nat, f.rid = <<u, n>>
               PROVE  n < calls[u] \/ (n = calls[u] /\ pc[u] \notin DrawnPcs)
    BY <1>1 DEF RidsPast
  <2>1. f.rid # None
    BY WireAssumption
  <2>2. \E g \in Frames(up[c]) \cup Frames(down[c]) : g.rid = <<u, n>>
    <3>1. CASE f \in Frames(up'[c])
      BY <3>1, <1>2
    <3>2. CASE f \in Frames(down'[c])
      <4>1. f \in Frames(down[c]) \/ \E g \in Frames(up[c]) : f.rid = g.rid
        BY <3>2, <2>1, <1>3
      <4> QED BY <4>1
    <3> QED BY <3>1, <3>2
  <2> QED BY <2>2 DEF RidsPast
<1>7. UpOwn'
  BY <1>1, <1>2 DEF UpOwn
<1>8. DownOwn'
  <2> SUFFICES ASSUME NEW c \in Conns, NEW f \in Frames(down'[c]),
                      NEW u \in Threads,
                      pc[u] = "q_recv", f.rid = msg[u].rid
               PROVE  /\ f.type \in {"RESPONSE", "ERROR"}
                      /\ f.type = "RESPONSE" =>
                           msg[u].secret = c /\ c \in device
    BY <1>1, <1>4 DEF DownOwn
  <2>1. f.rid # None
    <3>1. f.rid = <<u, calls[u]>>
      BY DEF MsgOwn, RequestPcs
    <3>2. <<u, calls[u]>> \in Threads \X Nat
      BY DEF ClientTypeOK
    <3> QED BY <3>1, <3>2, WireAssumption
  <2>2. CASE f \in Frames(down[c])
    BY <2>2 DEF DownOwn
  <2>3. CASE f \notin Frames(down[c])
    <3>1. PICK g \in Frames(up[c]) :
            /\ f.rid = g.rid
            /\ g.type = "REQUEST" => f.type \in {"RESPONSE", "ERROR"}
            /\ f.type = "RESPONSE" => g.secret = c /\ c \in device
      BY <1>3, <2>1, <2>3
    <3> QED BY <3>1 DEF UpOwn
  <2> QED BY <2>2, <2>3
<1> QED BY <1>5, <1>6, <1>7, <1>8

\* No frame is under way at the start, and no thread is in a call.
LEMMA RequestInit == Init => RequestInv
<1> SUFFICES ASSUME Init PROVE RequestInv
  OBVIOUS
<1>1. \A c \in Conns : Frames(up[c]) = {} /\ Frames(down[c]) = {}
  BY FramesEmpty DEF Init, WireInit
<1>2. \A t \in Threads : pc[t] = "idle"
  BY DEF Init, ClientInit
<1> QED
  BY <1>1, <1>2 DEF RequestInv, MsgOwn, RidsPast, UpOwn, DownOwn,
     ReplyOwn, ServedInOwnSession, RequestPcs, DrawnPcs

\* ... and any step of the system.
LEMMA RequestNext == TypeInv /\ RequestInv /\ [Next]_vars => RequestInv'
<1> SUFFICES ASSUME TypeInv, RequestInv, [Next]_vars PROVE RequestInv'
  OBVIOUS
<1>1. ASSUME NEW t \in Threads, Call(t) \/ Continue(t), UNCHANGED hostVars
      PROVE  RequestInv'
  BY <1>1, RequestClient
<1>2. CASE /\ UNCHANGED clientVars
           /\ Environment \/ \E c \in Conns : Handler(c)
  BY <1>2, RequestHost
<1>3. CASE UNCHANGED vars
  BY <1>3 DEF RequestInv, MsgOwn, RidsPast, UpOwn, DownOwn, ReplyOwn,
     ServedInOwnSession, vars, link, clientVars, hostVars, inCall, locals
<1> QED
  BY <1>1, <1>2, <1>3 DEF Next, Terminated

\* However many threads share the client and reconnect around each other, a
\* request that is served was sent with the session token of the connection it
\* was sent on, by a handler that has registered the device
\* (core_device_client.py:786-804, fake_host.py:283-296).
THEOREM ServedInOwnSessionHolds == Spec => []ServedInOwnSession
<1>1. RequestInv => ServedInOwnSession
  BY DEF RequestInv
<1> QED
  BY <1>1, RequestInit, RequestNext, TypeInvInit, TypeInvNext, PTL DEF Spec

-----------------------------------------------------------------------------
(* Nothing else is under way *)

\* Nothing is under way on connection c, and no confirmation is to come.
Quiet(c) ==
  up[c] = <<>> /\ down[c] = <<>> /\ hpc[c] # "confirming"

\* One thing is under way on c: message m, or the answer to it, or the host is
\* between taking m and answering it.
InFlight(c, m) ==
  \/ up[c] = <<m>> /\ down[c] = <<>> /\ hpc[c] # "confirming"
  \/ up[c] = <<>> /\ down[c] = <<>> /\ m.rid = None
  \/ /\ up[c] = <<>> /\ Len(down[c]) = 1 /\ Head(down[c]).rid = m.rid
     /\ hpc[c] # "confirming"

\* On a connection where nothing was abandoned, one thing is under way at most,
\* and it belongs to the thread that waits on that connection with the lock.
CleanInv ==
  \A c \in Conns \ unclean :
    \/ Quiet(c)
    \/ \E t \in Threads :
         pc[t] \in LockPcs /\ held[t] = c /\ InFlight(c, msg[t])

\* A registration carries no request_id.
RegistersBare ==
  \A t \in Threads :
    pc[t] \in MsgPcs \cup LockPcs /\ msg[t].type = "DEVICE_REGISTER" =>
      msg[t].rid = None

MismatchInv == CleanInv /\ RegistersBare /\ MismatchOnlyAfterLoss

\* What a thread builds is a request of its own, or carries no request_id.
LEMMA RegistersBareStep ==
  ASSUME TypeInv, RegistersBare, NEW t \in Threads, Call(t) \/ Continue(t)
  PROVE  RegistersBare'
<1> USE DEF TypeInv, TypeOK, RegistersBare
<1> USE DEF ClientTypeOK, Goto, Finish, CloseThen, inCall, locals
<1>1. \A u \in Threads \ {t} : pc'[u] = pc[u] /\ msg'[u] = msg[u]
  BY OthersRest
<1>2. CASE pc'[t] \notin MsgPcs \cup LockPcs
  BY <1>1, <1>2
<1>3. CASE pc[t] \in MsgPcs \cup LockPcs /\ UNCHANGED msg
  BY <1>1, <1>3
<1>4. CASE Hello(t) \/ RegisterGuard(t)
  <2>1. msg'[t].rid = None \/ pc'[t] = "return"
    BY <1>4 DEF Hello, RegisterGuard, Frame
  <2> QED BY <1>1, <2>1 DEF MsgPcs, LockPcs, ReceivePcs
<1>5. CASE CallRequest(t)
  <2>1. msg'[t].type # "DEVICE_REGISTER" \/ pc'[t] = "return"
    BY <1>5 DEF CallRequest, RequestType, Frame
  <2> QED BY <1>1, <2>1 DEF MsgPcs, LockPcs, ReceivePcs
<1>6. CASE Send(t) \/ RequestBind(t) \/ RegisterBind(t)
  BY <1>3, <1>6 DEF Send, RequestBind, RegisterBind, MsgPcs, LockPcs
<1>7. CASE \/ SendFails(t) \/ ReceiveFails(t) \/ ReceiveTorn(t)
           \/ ReceiveResync(t)
  <2>1. pc'[t] \in {"return", "cs_swap"}
    BY <1>7, FailureMoves
    DEF SendFails, ReceiveFails, ReceiveTorn, ReceiveResync
  <2> QED BY <1>2, <2>1 DEF MsgPcs, LockPcs, ReceivePcs
<1>8. CASE CallTeardown(t) \/ CallLogin(t) \/ CallConnect(t) \/ CallRegister(t)
  BY <1>2, <1>8 DEF CallTeardown, CallLogin, CallConnect, CallRegister, MsgPcs,
     LockPcs, ReceivePcs
<1>9. CASE \/ Return(t) \/ CloseSwap(t) \/ CloseShut(t) \/ CloseClear(t)
           \/ ClearAgain(t) \/ LogoutCredential(t) \/ ShutdownLogout(t)
  BY <1>2, <1>9 DEF Return, CloseSwap, CloseShut, CloseClear, ClearAgain,
     LogoutCredential, ShutdownLogout, MsgPcs, LockPcs, ReceivePcs, ReturnPcs
<1>10. CASE \/ SendOnly(t) \/ Receive(t) \/ Dial(t) \/ DialFails(t) \/ Store(t)
            \/ CommitHandshake(t) \/ TrackHandshake(t) \/ NoToken(t)
            \/ LeaseHandshake(t)
  BY <1>2, <1>10 DEF SendOnly, Receive, AfterReceive, Dial, DialFails, Store,
     CommitHandshake, TrackHandshake, NoToken, LeaseHandshake, MsgPcs, LockPcs,
     ReceivePcs
<1>11. CASE \/ CheckRegister(t) \/ TrackRegister(t) \/ LeaseRegister(t)
            \/ CheckReconnect(t) \/ CheckResponse(t)
  BY <1>2, <1>11 DEF CheckRegister, TrackRegister, LeaseRegister,
     CheckReconnect, CheckResponse, ConnectionLost, MsgPcs, LockPcs, ReceivePcs
<1> QED
  BY <1>4, <1>5, <1>6, <1>7, <1>8, <1>9, <1>10, <1>11 DEF Call, Continue

\* A step of t that puts nothing on a stream keeps the invariant, if on each
\* connection that stays clean it at most drops what was to be read, and t was
\* not the one that waited there, or it leaves nothing under way.
LEMMA CleanKept ==
  ASSUME TypeInv, CleanInv, NEW t \in Threads, Call(t) \/ Continue(t),
         UNCHANGED <<up, hpc>>, unclean \subseteq unclean',
         \A c \in Conns \ unclean' :
           \/ Quiet(c)'
           \/ /\ down'[c] \in {down[c], <<>>}
              /\ ~(pc[t] \in LockPcs /\ held[t] = c)
  PROVE  CleanInv'
<1> SUFFICES ASSUME NEW c \in Conns \ unclean', ~Quiet(c)'
             PROVE  \E u \in Threads :
                      pc'[u] \in LockPcs /\ held'[u] = c /\ InFlight(c, msg[u])'
  BY DEF CleanInv
<1>1. /\ c \in Conns \ unclean
      /\ down'[c] \in {down[c], <<>>}
      /\ ~(pc[t] \in LockPcs /\ held[t] = c)
  OBVIOUS
<1>2. ~Quiet(c)
  BY <1>1 DEF Quiet
<1>3. PICK u \in Threads :
        pc[u] \in LockPcs /\ held[u] = c /\ InFlight(c, msg[u])
  BY <1>1, <1>2 DEF CleanInv
<1>4. pc'[u] = pc[u] /\ held'[u] = held[u] /\ msg'[u] = msg[u]
  BY <1>1, <1>3, OthersRest
<1>5. InFlight(c, msg[u])'
  BY <1>1, <1>3, <1>4 DEF InFlight, Quiet
<1> QED BY <1>3, <1>4, <1>5

\* A thread that takes an answer off a clean connection takes its own, and
\* leaves nothing under way.
LEMMA TakesOwn ==
  ASSUME TypeInv, IOExclusion, CleanInv, NEW t \in Threads, Receive(t),
         held[t] \notin unclean, UNCHANGED hpc
  PROVE  /\ resp'[t].rid = msg[t].rid
         /\ Quiet(held[t])'
<1> DEFINE c == held[t]
<1> USE DEF TypeInv, TypeOK
<1>1. c \in Conns /\ down[c] \in Seq(DownFrames) /\ down[c] # <<>>
  BY DEF Receive, LocalsOK, HeldPcs, WireTypeOK
<1>2. ~Quiet(c)
  BY <1>1 DEF Quiet
<1>3. PICK u \in Threads :
        pc[u] \in LockPcs /\ held[u] = c /\ InFlight(c, msg[u])
  BY <1>1, <1>2 DEF CleanInv
<1>4. u = t
  BY <1>3 DEF IOExclusion, LockPcs, Receive
<1>5. /\ up[c] = <<>> /\ Len(down[c]) = 1 /\ hpc[c] # "confirming"
      /\ Head(down[c]).rid = msg[t].rid
  BY <1>1, <1>3, <1>4 DEF InFlight
<1>6. resp'[t] = Head(down[c])
  BY DEF Receive, ClientTypeOK
<1>7. down'[c] = Tail(down[c]) /\ up'[c] = up[c] /\ held'[t] = held[t]
  BY <1>1 DEF Receive, WireTypeOK
<1>8. Tail(down[c]) = <<>>
  BY <1>1, <1>5, TailOfOne
<1> QED BY <1>5, <1>6, <1>7, <1>8 DEF Quiet

\* The steps of a thread keep every clean connection so: with the lock, only
\* its holder puts a message on a connection and waits there.
LEMMA CleanClient ==
  ASSUME TypeInv, IOExclusion, CleanInv, NEW t \in Threads,
         Call(t) \/ Continue(t), UNCHANGED hostVars
  PROVE  CleanInv'
<1> USE DEF TypeInv, TypeOK
<1>0. UNCHANGED hpc
  BY DEF hostVars
<1>1. ASSUME NEW C, ClientCloses(C)
      PROVE  \A c \in Conns : down'[c] \in {down[c], <<>>}
  BY <1>1 DEF ClientCloses
<1>2. CASE Send(t)
  <2> DEFINE s == SendSocket(t)
  <2>1. s \in Conns /\ SendUp(s, msg[t]) /\ UNCHANGED <<down, unclean, msg>>
    BY <1>2 DEF Send, SendSocket, ClientTypeOK
  <2>2. \A u \in Threads : pc[u] \notin LockPcs
    BY <1>2, WireAssumption DEF Send, Acquire, IOExclusion, LockPcs
  <2>3. \A c \in Conns \ unclean : Quiet(c)
    BY <2>2 DEF CleanInv
  <2>4. pc'[t] \in LockPcs /\ held'[t] = s
    BY <1>2 DEF Send, Goto, AfterSend, LockPcs, ReceivePcs, ClientTypeOK
  <2>5. ASSUME NEW c \in Conns \ unclean
        PROVE  Quiet(c)' \/ (c = s /\ InFlight(c, msg[t])')
    <3>1. /\ up[c] = <<>> /\ down'[c] = <<>> /\ hpc'[c] # "confirming"
      BY <1>0, <2>1, <2>3 DEF Quiet
    <3>2. up'[c] = up[c] \/ (c = s /\ up'[c] = Append(up[c], msg[t]))
      BY <2>1 DEF SendUp, WireTypeOK
    <3>3. Append(<<>>, msg[t]) = <<msg[t]>>
      OBVIOUS
    <3> QED BY <2>1, <3>1, <3>2, <3>3 DEF Quiet, InFlight
  <2> QED
    BY <2>1, <2>4, <2>5 DEF CleanInv
<1>3. CASE SendOnly(t)
  <2>1. /\ sock \in Conns /\ SendUp(sock, msg[t])
        /\ unclean' = unclean \cup {sock} /\ UNCHANGED <<down, msg, held>>
        /\ pc[t] \notin LockPcs
    BY <1>3 DEF SendOnly, ClientTypeOK, locals, LockPcs, ReceivePcs
  <2>2. \A c \in Conns \ unclean' : up'[c] = up[c] /\ c \in Conns \ unclean
    BY <2>1 DEF SendUp, WireTypeOK
  <2>3. \A u \in Threads : pc[u] \in LockPcs => pc'[u] = pc[u]
    BY <2>1, OthersRest
  <2> QED
    BY <1>0, <2>1, <2>2, <2>3 DEF CleanInv, Quiet, InFlight
<1>4. CASE Receive(t)
  <2>1. /\ UNCHANGED <<up, unclean, held>>
        /\ down' = [down EXCEPT ![held[t]] = Tail(@)]
    BY <1>4 DEF Receive
  <2>2. ASSUME NEW c \in Conns \ unclean'
        PROVE  \/ Quiet(c)'
               \/ down'[c] \in {down[c], <<>>} /\ held[t] # c
    <3>1. CASE c = held[t]
      BY <1>0, <1>4, <2>1, <3>1, TakesOwn
    <3>2. CASE c # held[t]
      BY <2>1, <3>2 DEF WireTypeOK
    <3> QED BY <3>1, <3>2
  <2> QED
    BY <1>0, <2>1, <2>2, CleanKept
<1>5. CASE ReceiveFails(t) \/ ReceiveTorn(t) \/ ReceiveResync(t)
  <2>1. /\ UNCHANGED up
        /\ unclean' = unclean \cup {held[t]}
        /\ \A c \in Conns \ {held[t]} : down'[c] = down[c]
    BY <1>5 DEF ReceiveFails, ReceiveTorn, ReceiveResync, WireTypeOK
  <2> QED
    BY <1>0, <2>1, CleanKept
<1>6. CASE RegisterBind(t)
  <2>1. /\ UNCHANGED <<up, msg>> /\ unclean \subseteq unclean'
        /\ \A c \in Conns : down'[c] \in {down[c], <<>>}
    BY <1>1, <1>6 DEF RegisterBind, Collected
  <2>2. CASE sock # held[t]
    <3>1. held[t] \in unclean'
      BY <1>6, <2>2 DEF RegisterBind
    <3> QED
      BY <1>0, <2>1, <3>1, CleanKept
  <2>3. CASE sock = held[t]
    <3>1. held[t] \in Conns
      BY <1>6 DEF RegisterBind, LocalsOK, HeldPcs
    <3>2. /\ pc[t] \in LockPcs /\ pc'[t] \in LockPcs
          /\ held'[t] = held[t] /\ unclean' = unclean
      BY <1>6, <2>3, <3>1, WireAssumption
      DEF RegisterBind, LockPcs, ReceivePcs, Goto, ClientTypeOK
    <3>3. ASSUME NEW u \in Threads, pc[u] \in LockPcs
          PROVE  pc'[u] \in LockPcs /\ held'[u] = held[u] /\ msg'[u] = msg[u]
      BY <2>1, <3>2, <3>3, OthersRest
    <3>4. ASSUME NEW c \in Conns, NEW u \in Threads, InFlight(c, msg[u])
          PROVE  Quiet(c)' \/ InFlight(c, msg[u])'
      BY <1>0, <2>1, <3>4 DEF Quiet, InFlight
    <3>5. ASSUME NEW c \in Conns, Quiet(c) PROVE Quiet(c)'
      BY <1>0, <2>1, <3>5 DEF Quiet
    <3> QED
      BY <3>2, <3>3, <3>4, <3>5 DEF CleanInv
  <2> QED BY <2>2, <2>3
<1>7. CASE /\ UNCHANGED <<up, unclean>> /\ pc[t] \notin LockPcs
           /\ \A c \in Conns : down'[c] \in {down[c], <<>>}
  BY <1>0, <1>7, CleanKept
<1>8. CASE Return(t) \/ Store(t) \/ LeaseHandshake(t) \/ CloseShut(t)
  BY <1>1, <1>7, <1>8 DEF Return, Store, LeaseHandshake, CloseShut, Collected,
     LockPcs, ReceivePcs
<1>9. CASE Call(t)
  BY <1>7, <1>9 DEF Call, CallTeardown, CallLogin, CallConnect, CallRegister,
     CallRequest, Enter, link, LockPcs, ReceivePcs
<1>10. CASE \/ CloseSwap(t) \/ CloseClear(t) \/ ClearAgain(t)
            \/ LogoutCredential(t) \/ ShutdownLogout(t) \/ SendFails(t)
            \/ Dial(t) \/ DialFails(t) \/ Hello(t) \/ CommitHandshake(t)
            \/ TrackHandshake(t) \/ NoToken(t)
  BY <1>7, <1>10 DEF CloseSwap, CloseClear, ClearAgain, LogoutCredential,
     ShutdownLogout, SendFails, Dial, DialFails, Hello, CommitHandshake,
     TrackHandshake, NoToken, link, LockPcs, ReceivePcs
<1>11. CASE \/ RegisterGuard(t) \/ CheckRegister(t) \/ TrackRegister(t)
            \/ LeaseRegister(t) \/ CheckReconnect(t) \/ RequestBind(t)
            \/ CheckResponse(t)
  BY <1>7, <1>11 DEF RegisterGuard, CheckRegister, TrackRegister, LeaseRegister,
     CheckReconnect, RequestBind, CheckResponse, link, LockPcs, ReceivePcs
<1> QED
  BY <1>2, <1>3, <1>4, <1>5, <1>6, <1>8, <1>9, <1>10, <1>11 DEF Continue

\* What a handler takes off a clean connection is what its client waits for.
LEMMA TakesWaited ==
  ASSUME TypeInv, CleanInv, NEW c \in Conns \ unclean, NEW type, Takes(c, type)
  PROVE  \E t \in Threads :
           /\ pc[t] \in LockPcs /\ held[t] = c
           /\ up[c] = <<msg[t]>> /\ down[c] = <<>> /\ hpc[c] = "serving"
           /\ Head(up[c]) = msg[t] /\ up'[c] = <<>>
<1>1. up[c] # <<>> /\ hpc[c] = "serving" /\ up'[c] = Tail(up[c])
  BY DEF Takes, TypeInv, TypeOK, WireTypeOK
<1>2. PICK t \in Threads :
        pc[t] \in LockPcs /\ held[t] = c /\ InFlight(c, msg[t])
  BY <1>1 DEF CleanInv, Quiet
<1>3. up[c] = <<msg[t]>> /\ down[c] = <<>>
  BY <1>1, <1>2 DEF InFlight
<1>4. Head(<<msg[t]>>) = msg[t] /\ Tail(<<msg[t]>>) = <<>>
  OBVIOUS
<1> QED BY <1>1, <1>2, <1>3, <1>4

\* A frame put on an empty stream towards the client is the only one there.
LEMMA SendsOne ==
  ASSUME TypeInv, NEW c \in Conns, down[c] = <<>>, NEW f, SendDown(c, f)
  PROVE  \/ down'[c] = <<>>
         \/ Len(down'[c]) = 1 /\ Head(down'[c]) = f
<1>1. down'[c] = down[c] \/ down'[c] = Append(down[c], f)
  BY DEF SendDown, TypeInv, TypeOK, WireTypeOK
<1>2. Len(Append(<<>>, f)) = 1 /\ Head(Append(<<>>, f)) = f
  OBVIOUS
<1> QED BY <1>1, <1>2

\* The steps of the host keep every clean connection so: one answer to one
\* message, with its request_id, and nothing unasked but a relay.
LEMMA CleanHost ==
  ASSUME TypeInv, CleanInv, RegistersBare, UNCHANGED clientVars,
         Environment \/ \E c \in Conns : Handler(c)
  PROVE  CleanInv'
<1> USE DEF TypeInv, TypeOK
<1>1. UNCHANGED <<pc, held, msg>>
  BY DEF clientVars, locals
<1>2. ASSUME NEW d \in Conns, UNCHANGED unclean,
             \A c \in Conns \ {d} :
               up'[c] = up[c] /\ down'[c] = down[c] /\ hpc'[c] = hpc[c],
             d \notin unclean =>
               \/ Quiet(d)'
               \/ \E t \in Threads :
                    pc[t] \in LockPcs /\ held[t] = d /\ InFlight(d, msg[t])'
      PROVE  CleanInv'
  BY <1>1, <1>2 DEF CleanInv, Quiet, InFlight
<1>3. ASSUME NEW d \in Conns, NEW type, Takes(d, type), NEW type2, NEW secret,
             Replies(d, type2, secret), UNCHANGED <<hpc, unclean>>
      PROVE  CleanInv'
  <2>1. \A c \in Conns \ {d} :
          up'[c] = up[c] /\ down'[c] = down[c] /\ hpc'[c] = hpc[c]
    BY <1>3 DEF Takes, Replies, SendDown, WireTypeOK
  <2>2. ASSUME d \notin unclean
        PROVE  \/ Quiet(d)'
               \/ \E t \in Threads :
                    pc[t] \in LockPcs /\ held[t] = d /\ InFlight(d, msg[t])'
    <3>1. PICK t \in Threads :
            /\ pc[t] \in LockPcs /\ held[t] = d
            /\ down[d] = <<>> /\ hpc[d] = "serving"
            /\ Head(up[d]) = msg[t] /\ up'[d] = <<>>
      BY <1>3, <2>2, TakesWaited
    <3>2. \/ down'[d] = <<>>
          \/ Len(down'[d]) = 1 /\ Head(down'[d]).rid = msg[t].rid
      BY <1>3, <3>1, SendsOne DEF Replies, Frame
    <3> QED BY <1>1, <1>3, <3>1, <3>2 DEF Quiet, InFlight
  <2> QED BY <1>2, <1>3, <2>1, <2>2
<1>4. ASSUME NEW d \in Conns, Handshake(d) \/ Answer(d) PROVE CleanInv'
  BY <1>3, <1>4 DEF Handshake, Answer
<1>5. ASSUME NEW d \in Conns, Register(d) PROVE CleanInv'
  <2>1. CASE Replies(d, "ERROR", None) /\ UNCHANGED hpc
    BY <1>3, <1>5, <2>1 DEF Register
  <2>2. CASE UNCHANGED down /\ hpc' = [hpc EXCEPT ![d] = "confirming"]
    <3>1. \A c \in Conns \ {d} :
            up'[c] = up[c] /\ down'[c] = down[c] /\ hpc'[c] = hpc[c]
      BY <1>5, <2>2 DEF Register, Takes, WireTypeOK, HostTypeOK
    <3>2. ASSUME d \notin unclean
          PROVE  \E t \in Threads :
                   pc[t] \in LockPcs /\ held[t] = d /\ InFlight(d, msg[t])'
      <4>1. PICK t \in Threads :
              /\ pc[t] \in LockPcs /\ held[t] = d /\ down[d] = <<>>
              /\ Head(up[d]) = msg[t] /\ up'[d] = <<>>
        BY <1>5, <3>2, TakesWaited DEF Register
      <4>2. msg[t].rid = None
        BY <1>5, <4>1 DEF Register, Takes, RegistersBare
      <4> QED BY <1>1, <2>2, <4>1, <4>2 DEF InFlight
    <3> QED BY <1>2, <1>5, <3>1, <3>2 DEF Register
  <2> QED BY <1>5, <2>1, <2>2 DEF Register
<1>6. ASSUME NEW d \in Conns, ConfirmRegister(d) PROVE CleanInv'
  <2>1. \A c \in Conns \ {d} :
          up'[c] = up[c] /\ down'[c] = down[c] /\ hpc'[c] = hpc[c]
    BY <1>6 DEF ConfirmRegister, SendDown, WireTypeOK, HostTypeOK
  <2>2. ASSUME d \notin unclean
        PROVE  \E t \in Threads :
                 pc[t] \in LockPcs /\ held[t] = d /\ InFlight(d, msg[t])'
    <3>1. PICK t \in Threads :
            pc[t] \in LockPcs /\ held[t] = d /\ InFlight(d, msg[t])
      BY <1>6, <2>2 DEF CleanInv, Quiet, ConfirmRegister
    <3>2. up[d] = <<>> /\ down[d] = <<>> /\ msg[t].rid = None
      BY <1>6, <3>1 DEF InFlight, ConfirmRegister
    <3>3. up'[d] = <<>> /\ hpc'[d] # "confirming"
      BY <1>6, <3>2 DEF ConfirmRegister, HostTypeOK
    <3>4. down'[d] = <<>> \/ (Len(down'[d]) = 1 /\ Head(down'[d]).rid = None)
      BY <1>6, <3>2, SendsOne DEF ConfirmRegister, Frame
    <3> QED BY <1>1, <3>1, <3>2, <3>3, <3>4 DEF InFlight
  <2> QED BY <1>2, <1>6, <2>1, <2>2 DEF ConfirmRegister
<1>7. ASSUME NEW d \in Conns, Route(d) PROVE CleanInv'
  <2>1. CASE Replies(d, "ERROR", None)
    BY <1>3, <1>7, <2>1 DEF Route
  <2>2. CASE UNCHANGED down
    <3>1. \A c \in Conns \ {d} :
            up'[c] = up[c] /\ down'[c] = down[c] /\ hpc'[c] = hpc[c]
      BY <1>7, <2>2 DEF Route, Takes, WireTypeOK
    <3>2. ASSUME d \notin unclean PROVE Quiet(d)'
      <4>1. down[d] = <<>> /\ hpc[d] = "serving" /\ up'[d] = <<>>
        BY <1>7, <3>2, TakesWaited DEF Route
      <4> QED BY <1>7, <2>2, <4>1 DEF Quiet, Route
    <3> QED BY <1>2, <1>7, <3>1, <3>2 DEF Route
  <2> QED BY <1>7, <2>1, <2>2 DEF Route
<1>8. ASSUME NEW C, HostCloses(C), UNCHANGED <<down, unclean>>,
             \A c \in Conns : hpc'[c] \in {hpc[c], "finished"}
      PROVE  CleanInv'
  <2>1. \A c \in Conns : up'[c] \in {up[c], <<>>}
    BY <1>8 DEF HostCloses
  <2>2. ASSUME NEW c \in Conns, Quiet(c) PROVE Quiet(c)'
    BY <1>8, <2>1, <2>2 DEF Quiet
  <2>3. ASSUME NEW c \in Conns, NEW t \in Threads, InFlight(c, msg[t])
        PROVE  Quiet(c)' \/ InFlight(c, msg[t])'
    BY <1>1, <1>8, <2>1, <2>3 DEF Quiet, InFlight
  <2> QED BY <1>1, <1>8, <2>2, <2>3 DEF CleanInv
<1>9. ASSUME NEW d \in Conns, Finalise(d) PROVE CleanInv'
  BY <1>8, <1>9 DEF Finalise, HostTypeOK
<1>10. CASE ForceClose \/ Stop
  BY <1>8, <1>10 DEF ForceClose, Stop, hostVars
<1>11. ASSUME NEW d \in Conns, RelayIn(d) PROVE CleanInv'
  <2>1. /\ UNCHANGED <<up, hpc>> /\ unclean' = unclean \cup {d}
        /\ \A c \in Conns \ {d} : down'[c] = down[c]
    BY <1>11 DEF RelayIn, SendDown, WireTypeOK
  <2> QED BY <1>1, <2>1 DEF CleanInv, Quiet, InFlight
<1> QED
  BY <1>4, <1>5, <1>6, <1>7, <1>9, <1>10, <1>11 DEF Environment, Handler

\* No step of a thread makes a connection clean again.
LEMMA UncleanGrows ==
  ASSUME NEW t \in Threads, Call(t) \/ Continue(t)
  PROVE  unclean \subseteq unclean'
BY DEF Call, Continue, CallTeardown, CallLogin, CallConnect, CallRegister,
    CallRequest, Return, CloseSwap, CloseShut, CloseClear, ClearAgain,
    LogoutCredential, ShutdownLogout, Send, SendOnly, SendFails, Receive,
    ReceiveFails, ReceiveTorn, ReceiveResync, Dial, DialFails, Store, Hello,
    CommitHandshake, TrackHandshake, NoToken, LeaseHandshake, RegisterGuard,
    RegisterBind, CheckRegister, TrackRegister, LeaseRegister,
    CheckReconnect, RequestBind, CheckResponse, link

\* A thread compares an answer only once it has received it, so a mismatch on
\* a clean connection is impossible.
LEMMA MismatchClient ==
  ASSUME TypeInv, IOExclusion, CleanInv, MismatchOnlyAfterLoss,
         NEW t \in Threads, Call(t) \/ Continue(t), UNCHANGED hostVars
  PROVE  MismatchOnlyAfterLoss'
<1> SUFFICES ASSUME NEW u \in Threads, pc'[u] = "q_check",
                    held'[u] \notin unclean'
             PROVE  resp'[u].rid = msg'[u].rid
  BY DEF MismatchOnlyAfterLoss
<1> USE DEF TypeInv, TypeOK
<1>1. unclean \subseteq unclean'
  BY UncleanGrows
<1>2. CASE u # t
  BY <1>1, <1>2, OthersRest DEF MismatchOnlyAfterLoss
<1>3. CASE u = t
  <2>1. Receives(t)
    BY <1>3, RequestSteps
    DEF Draws, Builds, Binds, Sends, Leaves, RequestPcs, DrawnPcs
  <2>2. Receive(t)
    <3>1. pc[t] = "q_recv" /\ pc'[t] = "q_check"
      BY <2>1 DEF Receives
    <3>2. Receive(t) \/ ReceiveFails(t) \/ ReceiveTorn(t) \/ ReceiveResync(t)
      BY <3>1 DEF Call, Continue, CallTeardown, CallLogin, CallConnect,
         CallRegister, CallRequest, Enter, Return, CloseSwap, CloseShut,
         CloseClear, ClearAgain, LogoutCredential, ShutdownLogout, Send,
         SendOnly, SendFails, Dial, DialFails, Store, Hello, CommitHandshake,
         TrackHandshake, NoToken, LeaseHandshake, RegisterGuard, RegisterBind,
         CheckRegister, TrackRegister, LeaseRegister, CheckReconnect,
         RequestBind, CheckResponse
    <3>3. CASE ReceiveFails(t) \/ ReceiveTorn(t) \/ ReceiveResync(t)
      <4>1. pc'[t] \in {"return", "cs_swap"}
        BY <3>3, FailureMoves
        DEF ReceiveFails, ReceiveTorn, ReceiveResync, ClientTypeOK
      <4> QED BY <3>1, <4>1
    <3> QED BY <3>2, <3>3
  <2>3. held'[t] = held[t] /\ msg'[t] = msg[t]
    BY <2>1 DEF Receives
  <2> QED
    BY <1>1, <1>3, <2>2, <2>3, TakesOwn DEF hostVars
<1> QED BY <1>2, <1>3

\* Nothing is under way at the start,
LEMMA MismatchInvInit == Init => IOExclusion /\ MismatchInv
BY WireAssumption
DEF Init, ClientInit, WireInit, HostInit, IOExclusion, ReceivePcs, MismatchInv,
    CleanInv, Quiet, RegistersBare, MsgPcs, LockPcs, MismatchOnlyAfterLoss

\* ... and every step keeps it so, up to what was abandoned.
LEMMA MismatchInvNext ==
  TypeInv /\ IOExclusion /\ MismatchInv /\ [Next]_vars => MismatchInv'
<1> SUFFICES ASSUME TypeInv, IOExclusion, MismatchInv, [Next]_vars
             PROVE  MismatchInv'
  OBVIOUS
<1>1. ASSUME NEW t \in Threads, Call(t) \/ Continue(t), UNCHANGED hostVars
      PROVE  MismatchInv'
  BY <1>1, CleanClient, RegistersBareStep, MismatchClient DEF MismatchInv
<1>2. CASE /\ UNCHANGED clientVars
           /\ Environment \/ \E c \in Conns : Handler(c)
  <2>1. unclean \subseteq unclean'
    BY <1>2 DEF Environment, Handler, Handshake, Register, ConfirmRegister,
       Answer, Route, Finalise, RelayIn, ForceClose, Stop
  <2>2. CleanInv'
    BY <1>2, CleanHost DEF MismatchInv
  <2> QED
    BY <1>2, <2>1, <2>2
    DEF MismatchInv, MismatchOnlyAfterLoss, RegistersBare, clientVars, object,
        locals
<1>3. CASE UNCHANGED vars
  BY <1>3 DEF MismatchInv, CleanInv, Quiet, InFlight, RegistersBare,
     MismatchOnlyAfterLoss, vars, link, clientVars, hostVars, object, locals
<1> QED
  BY <1>1, <1>2, <1>3 DEF Next, Terminated

\* However many threads share the client, a connection on which no call was
\* given up, no message was sent without waiting and no peer relayed anything
\* is never dropped because an answer carries another request_id
\* (core_device_client.py:793-833, fake_host.py:283-296).
THEOREM MismatchOnlyAfterLossHolds == Spec => []MismatchOnlyAfterLoss
<1>1. MismatchInv => MismatchOnlyAfterLoss
  BY DEF MismatchInv
<1> QED
  BY <1>1, MismatchInvInit, MismatchInvNext, IOExclusionNext, TypeInvInit,
     TypeInvNext, PTL DEF Spec

-----------------------------------------------------------------------------
(* Registrations *)

\* A confirmation names the connection it travels on.
ConfirmsHere ==
  \A c \in Conns : \A f \in Frames(down[c]) :
    f.type = "REGISTERED" => f.secret = c

\* What a thread waits for on a clean connection, if it is a confirmation, is
\* one of the session token that thread sent.
ConfirmedTo ==
  \A c \in Conns \ unclean : \A t \in Threads :
    /\ pc[t] \in LockPcs /\ held[t] = c
    /\ hpc[c] = "confirming" \/ \E f \in Frames(down[c]) : f.type = "REGISTERED"
    => msg[t].secret = c

\* The same of the confirmation a thread has in hand.
ConfirmationInHand ==
  \A t \in Threads :
    /\ pc[t] = "r_track" => resp[t].type = "REGISTERED"
    /\ /\ pc[t] \in {"r_check", "r_track"} /\ resp[t].type = "REGISTERED"
       /\ held[t] \notin unclean
       => msg[t].secret = held[t] /\ resp[t].secret = held[t]

ConfirmationInv == ConfirmsHere /\ ConfirmedTo /\ ConfirmationInHand

\* A thread that comes to hold the lock on a clean connection finds nothing
\* under way there.
LEMMA StartsQuiet ==
  ASSUME TypeInv, IOExclusion, CleanInv, NEW t \in Threads,
         Call(t) \/ Continue(t), pc'[t] \in LockPcs, held'[t] \notin unclean'
  PROVE  \/ /\ pc[t] \in LockPcs
            /\ held'[t] = held[t] /\ msg'[t] = msg[t]
         \/ Quiet(held'[t])
<1> USE DEF TypeInv, TypeOK
<1>1. CASE Send(t)
  <2>1. held'[t] \in Conns /\ UNCHANGED <<down, unclean>>
    BY <1>1 DEF Send, SendSocket, ClientTypeOK
  <2>2. \A u \in Threads : pc[u] \notin LockPcs
    BY <1>1, WireAssumption DEF Send, Acquire, IOExclusion, LockPcs
  <2> QED BY <2>1, <2>2 DEF CleanInv
<1>2. CASE RegisterBind(t)
  <2>1. pc[t] \in LockPcs /\ msg'[t] = msg[t] /\ held'[t] = sock
    BY <1>2 DEF RegisterBind, LockPcs, ClientTypeOK
  <2>2. CASE sock = held[t]
    BY <2>1, <2>2
  <2>3. CASE sock # held[t]
    <3>1. sock \in Conns
      <4>1. pc'[t] \notin {"return", "cs_swap"}
        BY DEF LockPcs, ReceivePcs
      <4>2. sock # None
        BY <1>2, <4>1, FailureMoves DEF RegisterBind, ClientTypeOK
      <4> QED BY <4>2 DEF ClientTypeOK
    <3>2. ASSUME NEW u \in Threads, pc[u] \in LockPcs PROVE held[u] # sock
      BY <2>1, <2>3, <3>2 DEF IOExclusion, LockPcs
    <3>3. sock \notin unclean
      BY <2>1, UncleanGrows
    <3>4. Quiet(sock)
      BY <3>1, <3>2, <3>3 DEF CleanInv
    <3> QED BY <2>1, <3>4
  <2> QED BY <2>2, <2>3
<1>3. CASE pc'[t] \in {"return", "cs_swap"}
  BY <1>3 DEF LockPcs, ReceivePcs
<1>4. CASE \/ SendFails(t) \/ ReceiveFails(t) \/ ReceiveTorn(t)
           \/ ReceiveResync(t)
  BY <1>3, <1>4, FailureMoves
  DEF SendFails, ReceiveFails, ReceiveTorn, ReceiveResync, ClientTypeOK
<1>5. CASE Call(t)
  BY <1>5 DEF Call, CallTeardown, CallLogin, CallConnect, CallRegister,
     CallRequest, CloseThen, Finish, Goto, ClientTypeOK, LockPcs, ReceivePcs
<1>6. CASE \/ Return(t) \/ CloseSwap(t) \/ CloseShut(t) \/ CloseClear(t)
           \/ ClearAgain(t) \/ LogoutCredential(t) \/ ShutdownLogout(t)
           \/ SendOnly(t) \/ Receive(t) \/ Dial(t) \/ DialFails(t)
           \/ Store(t) \/ Hello(t)
  BY <1>6 DEF Return, CloseSwap, CloseShut, CloseClear, ClearAgain,
     LogoutCredential, ShutdownLogout, SendOnly, Receive, AfterReceive, Dial,
     DialFails, Store, Hello, CloseThen, Finish, Goto, ClientTypeOK, LockPcs,
     ReceivePcs, ReturnPcs
<1>7. CASE \/ CommitHandshake(t) \/ TrackHandshake(t) \/ NoToken(t)
           \/ LeaseHandshake(t) \/ RegisterGuard(t) \/ CheckRegister(t)
           \/ TrackRegister(t) \/ LeaseRegister(t) \/ CheckReconnect(t)
           \/ RequestBind(t) \/ CheckResponse(t)
  BY <1>7 DEF CommitHandshake, TrackHandshake, NoToken, LeaseHandshake,
     RegisterGuard, CheckRegister, TrackRegister, LeaseRegister,
     CheckReconnect, RequestBind, CheckResponse, ConnectionLost, CloseThen,
     Finish, Goto, ClientTypeOK, LockPcs, ReceivePcs
<1> QED BY <1>1, <1>2, <1>4, <1>5, <1>6, <1>7 DEF Call, Continue

\* The steps by which a thread comes to have a confirmation in hand: it
\* receives it, or accepts the one it had received.
LEMMA ConfirmationSteps ==
  ASSUME TypeInv, NEW t \in Threads, Call(t) \/ Continue(t),
         pc'[t] \in {"r_check", "r_track"}
  PROVE  /\ held'[t] = held[t] /\ msg'[t] = msg[t]
         /\ \/ /\ pc[t] = "r_recv" /\ pc'[t] = "r_check"
               /\ held[t] \in Conns /\ resp'[t] \in Frames(down[held[t]])
            \/ /\ pc[t] = "r_check" /\ pc'[t] = "r_track"
               /\ resp'[t] = resp[t] /\ resp[t].type = "REGISTERED"
<1> USE DEF TypeInv, TypeOK
<1> USE DEF ClientTypeOK, Goto, Finish, CloseThen
<1>1. CASE Receive(t)
  <2>1. held[t] \in Conns /\ down[held[t]] # <<>>
    BY <1>1 DEF Receive, LocalsOK, HeldPcs
  <2>2. resp'[t] \in Frames(down[held[t]])
    BY <1>1, <2>1, FramesTail DEF Receive, WireTypeOK
  <2> QED
    BY <1>1, <2>1, <2>2 DEF Receive, AfterReceive, ReceivePcs
<1>2. CASE CheckRegister(t)
  BY <1>2 DEF CheckRegister, Confirms, locals
<1>3. CASE \/ SendFails(t) \/ ReceiveFails(t) \/ ReceiveTorn(t)
           \/ ReceiveResync(t) \/ RegisterBind(t)
  BY <1>3, FailureMoves
  DEF SendFails, ReceiveFails, ReceiveTorn, ReceiveResync, RegisterBind
<1>4. CASE Call(t)
  BY <1>4 DEF Call, CallTeardown, CallLogin, CallConnect, CallRegister,
     CallRequest
<1>5. CASE \/ Return(t) \/ CloseSwap(t) \/ CloseShut(t) \/ CloseClear(t)
           \/ ClearAgain(t) \/ LogoutCredential(t) \/ ShutdownLogout(t)
           \/ Send(t) \/ SendOnly(t) \/ Dial(t) \/ DialFails(t)
           \/ Store(t) \/ Hello(t)
  BY <1>5 DEF Return, CloseSwap, CloseShut, CloseClear, ClearAgain,
     LogoutCredential, ShutdownLogout, Send, AfterSend, SendOnly, Dial,
     DialFails, Store, Hello, ReturnPcs
<1>6. CASE \/ CommitHandshake(t) \/ TrackHandshake(t) \/ NoToken(t)
           \/ LeaseHandshake(t) \/ RegisterGuard(t) \/ TrackRegister(t)
           \/ LeaseRegister(t) \/ CheckReconnect(t) \/ RequestBind(t)
           \/ CheckResponse(t)
  BY <1>6 DEF CommitHandshake, TrackHandshake, NoToken, LeaseHandshake,
     RegisterGuard, TrackRegister, LeaseRegister, CheckReconnect, RequestBind,
     CheckResponse, ConnectionLost
<1> QED BY <1>1, <1>2, <1>3, <1>4, <1>5, <1>6 DEF Call, Continue

\* A thread takes its own confirmation, with the lock,
LEMMA ConfirmationClient ==
  ASSUME TypeInv, IOExclusion, CleanInv, ConfirmationInv, NEW t \in Threads,
         Call(t) \/ Continue(t), UNCHANGED hostVars
  PROVE  ConfirmationInv'
<1> USE DEF ConfirmationInv
<1>1. \A c \in Conns : Frames(down'[c]) \subseteq Frames(down[c])
  BY ClientTakes
<1>2. unclean \subseteq unclean' /\ hpc' = hpc
  BY UncleanGrows DEF hostVars
<1>3. ConfirmsHere'
  BY <1>1 DEF ConfirmsHere
<1>4. ConfirmedTo'
  <2> SUFFICES ASSUME NEW c \in Conns, c \notin unclean', NEW u \in Threads,
                      pc'[u] \in LockPcs, held'[u] = c,
                      \/ hpc[c] = "confirming"
                      \/ \E f \in Frames(down'[c]) : f.type = "REGISTERED"
               PROVE  msg'[u].secret = c
    BY <1>2 DEF ConfirmedTo
  <2>1. \/ hpc[c] = "confirming"
        \/ \E f \in Frames(down[c]) : f.type = "REGISTERED"
    BY <1>1
  <2>2. ~Quiet(c)
    BY <2>1, FramesEmpty DEF Quiet
  <2>3. pc[u] \in LockPcs /\ held'[u] = held[u] /\ msg'[u] = msg[u]
    BY <2>2, OthersRest, StartsQuiet
  <2> QED BY <1>2, <2>1, <2>3 DEF ConfirmedTo
<1>5. ConfirmationInHand'
  <2> SUFFICES ASSUME NEW u \in Threads, pc'[u] \in {"r_check", "r_track"}
               PROVE  /\ pc'[u] = "r_track" => resp'[u].type = "REGISTERED"
                      /\ resp'[u].type = "REGISTERED" /\ held'[u] \notin unclean'
                         => msg'[u].secret = held'[u] /\ resp'[u].secret = held'[u]
    BY DEF ConfirmationInHand
  <2>1. CASE u # t
    BY <1>2, <2>1, OthersRest DEF ConfirmationInHand
  <2>2. CASE u = t
    <3>1. /\ held'[t] = held[t] /\ msg'[t] = msg[t]
          /\ \/ /\ pc[t] = "r_recv" /\ pc'[t] = "r_check"
                /\ held[t] \in Conns /\ resp'[t] \in Frames(down[held[t]])
             \/ /\ pc[t] = "r_check" /\ pc'[t] = "r_track"
                /\ resp'[t] = resp[t] /\ resp[t].type = "REGISTERED"
      BY <2>2, ConfirmationSteps
    <3>2. CASE pc[t] = "r_recv"
      BY <1>2, <2>2, <3>1, <3>2
      DEF ConfirmsHere, ConfirmedTo, LockPcs, ReceivePcs
    <3>3. CASE pc[t] = "r_check"
      BY <1>2, <2>2, <3>1, <3>3 DEF ConfirmationInHand
    <3> QED BY <3>1, <3>2, <3>3
  <2> QED BY <2>1, <2>2
<1> QED BY <1>3, <1>4, <1>5

\* The host confirms to the connection whose session token it was sent.
LEMMA ConfirmsSent ==
  ASSUME TypeInv, Environment \/ \E d \in Conns : Handler(d), NEW c \in Conns,
         NEW f \in Frames(down'[c]), f.type = "REGISTERED"
  PROVE  f \in Frames(down[c]) \/ (f.secret = c /\ hpc[c] = "confirming")
<1> USE DEF TypeInv, TypeOK
<1>1. CASE UNCHANGED down
  BY <1>1
<1>2. ASSUME NEW d \in Conns, NEW e \in DownFrames, SendDown(d, e)
      PROVE  f \in Frames(down[c]) \/ (c = d /\ f = e)
  <2>1. Frames(Append(down[d], e)) = Frames(down[d]) \cup {e}
    BY <1>2, FramesAppend DEF WireTypeOK
  <2>2. down'[c] = down[c] \/ (c = d /\ down'[c] = Append(down[d], e))
    BY <1>2 DEF SendDown, WireTypeOK
  <2> QED BY <2>1, <2>2
<1>3. ASSUME NEW d \in Conns, NEW type, Takes(d, type), NEW type2 \in DownTypes,
             NEW secret \in Conns \cup {None}, Replies(d, type2, secret)
      PROVE  f \in Frames(down[c]) \/ f.type = type2
  <2>1. Frame(type2, Head(up[d]).rid, secret) \in DownFrames
    BY <1>3, TakesTyped DEF Frame, UpFrames, DownFrames
  <2> QED
    BY <1>2, <1>3, <2>1 DEF Replies, Frame
<1>4. ASSUME NEW d \in Conns,
             Handshake(d) \/ Register(d) \/ Answer(d) \/ Route(d)
      PROVE  f \in Frames(down[c])
  BY <1>1, <1>3, <1>4 DEF Handshake, Register, Answer, Route, DownTypes
<1>5. ASSUME NEW d \in Conns, ConfirmRegister(d)
      PROVE  f \in Frames(down[c]) \/ (f.secret = c /\ hpc[c] = "confirming")
  <2>1. Frame("REGISTERED", None, d) \in DownFrames
    BY DEF Frame, DownFrames, DownTypes
  <2> QED
    BY <1>2, <1>5, <2>1 DEF ConfirmRegister, Frame
<1>6. ASSUME NEW d \in Conns, RelayIn(d) PROVE f \in Frames(down[c])
  <2>1. Frame("RELAY", None, None) \in DownFrames
    BY DEF Frame, DownFrames, DownTypes
  <2> QED
    BY <1>2, <1>6, <2>1 DEF RelayIn, Frame
<1> QED
  BY <1>1, <1>4, <1>5, <1>6
  DEF Environment, Handler, Finalise, ForceClose, Stop

\* ... and the steps of the host keep the invariant.
LEMMA ConfirmationHost ==
  ASSUME TypeInv, IOExclusion, CleanInv, ConfirmationInv, UNCHANGED clientVars,
         Environment \/ \E c \in Conns : Handler(c)
  PROVE  ConfirmationInv'
<1> USE DEF TypeInv, TypeOK, ConfirmationInv
<1>1. UNCHANGED <<pc, held, msg, resp>>
  BY DEF clientVars, locals
<1>2. unclean \subseteq unclean'
  BY DEF Environment, Handler, Handshake, Register, ConfirmRegister, Answer,
     Route, Finalise, RelayIn, ForceClose, Stop
<1>3. ConfirmsHere'
  BY ConfirmsSent DEF ConfirmsHere
<1>4. ConfirmedTo'
  <2> SUFFICES ASSUME NEW c \in Conns \ unclean, NEW t \in Threads,
                      pc[t] \in LockPcs, held[t] = c,
                      \/ hpc'[c] = "confirming"
                      \/ \E f \in Frames(down'[c]) : f.type = "REGISTERED"
               PROVE  msg[t].secret = c
    BY <1>1, <1>2 DEF ConfirmedTo
  <2>1. CASE \/ hpc[c] = "confirming"
             \/ \E f \in Frames(down[c]) : f.type = "REGISTERED"
    BY <2>1 DEF ConfirmedTo
  <2>2. CASE hpc'[c] = "confirming" /\ hpc[c] # "confirming"
    <3>1. Register(c) /\ Head(up[c]).secret = c
      BY <2>2 DEF Environment, Handler, Handshake, Register, ConfirmRegister,
         Answer, Route, Finalise, RelayIn, ForceClose, Stop, hostVars,
         HostTypeOK
    <3>2. PICK u \in Threads :
            pc[u] \in LockPcs /\ held[u] = c /\ Head(up[c]) = msg[u]
      BY <3>1, TakesWaited DEF Register
    <3>3. u = t
      BY <3>2 DEF IOExclusion, LockPcs
    <3> QED BY <3>1, <3>2, <3>3
  <2> QED BY <2>1, <2>2, ConfirmsSent
<1>5. ConfirmationInHand'
  BY <1>1, <1>2 DEF ConfirmationInHand
<1> QED BY <1>3, <1>4, <1>5

\* However many threads reconnect or register around each other, the
\* confirmation a registration goes on with, on a connection where nothing was
\* left in flight, is its own: for the token it sent, on the connection it
\* sent it on (core_device_client.py:623-639, fake_host.py:213-248).
THEOREM OwnConfirmationHolds == Spec => []OwnConfirmation
<1>1. Init => ConfirmationInv
  BY FramesEmpty
  DEF Init, ClientInit, WireInit, HostInit, ReceivePcs, LockPcs,
      ConfirmationInv, ConfirmsHere, ConfirmedTo, ConfirmationInHand
<1>2. /\ TypeInv /\ IOExclusion /\ MismatchInv /\ ConfirmationInv /\ [Next]_vars
      => ConfirmationInv'
  <2> SUFFICES ASSUME TypeInv, IOExclusion, CleanInv, ConfirmationInv,
                      [Next]_vars
               PROVE  ConfirmationInv'
    BY DEF MismatchInv
  <2>1. ASSUME NEW t \in Threads, Call(t) \/ Continue(t), UNCHANGED hostVars
        PROVE  ConfirmationInv'
    BY <2>1, ConfirmationClient
  <2>2. CASE /\ UNCHANGED clientVars
             /\ Environment \/ \E c \in Conns : Handler(c)
    BY <2>2, ConfirmationHost
  <2>3. CASE UNCHANGED vars
    BY <2>3 DEF ConfirmationInv, ConfirmsHere, ConfirmedTo, ConfirmationInHand,
       vars, link, clientVars, hostVars, object, locals
  <2> QED
    BY <2>1, <2>2, <2>3 DEF Next, Terminated
<1>3. ConfirmationInv => OwnConfirmation
  BY DEF ConfirmationInv, ConfirmationInHand, OwnConfirmation
<1> QED
  BY <1>1, <1>2, <1>3, MismatchInvInit, MismatchInvNext, IOExclusionNext,
     TypeInvInit, TypeInvNext, PTL DEF Spec
=============================================================================
