----------------------------- MODULE SoloProofs -----------------------------
(***************************************************************************)
(* What a call that no other overlaps makes of the session, for any number *)
(* of threads and connections; and, for a client that one thread uses,     *)
(* that the object and the host always speak of one session, and that it   *)
(* keeps the promise of SessionLifecycle.                                  *)
(***************************************************************************)
EXTENDS DeviceSystemProofs

-----------------------------------------------------------------------------
(* What a call does to the session *)

Clear ==
  /\ token = None /\ connId = None /\ lease = None
  /\ ~authenticated /\ ~registered

\* The object has no socket and nothing of a session, or a socket and the
\* whole session that was opened on it; a registered one the host has met.
Coherent ==
  /\ sock = None => Clear
  /\ sock # None =>
       /\ token = sock /\ connId = sock /\ lease = sock
       /\ authenticated /\ credential # None
  /\ registered => sock \in device

ClosingPcs == {"cs_shut", "cs_clear"}
ClosedPcs == {"c_dial", "c_store", "c_untoken", "l_clear", "o_close", "o_cred"}
HelloPcs == {"c_hello", "c_send", "c_recv", "c_check"}
CommitPcs == {"c_track", "c_lease"}
RegisterPcs == {"r_guard", "r_send", "r_bind", "r_recv", "r_check", "r_track",
                "r_lease", "x_check"}
RestPcs == {"idle", "return", "d_send", "q_bind", "q_send", "q_recv", "q_check"}
           \cup RegisterPcs

\* Where thread t is in its call, the session is as far as the call has
\* brought it, whatever it was before the call closed the socket.
Sound(t) ==
  /\ pc[t] \in ClosingPcs => sock = None
  /\ pc[t] \in ClosedPcs => sock = None /\ Clear
  /\ pc[t] \in HelloPcs => sock = held[t] /\ Clear
  /\ pc[t] \in CommitPcs =>
       /\ sock = held[t] /\ connId = held[t] /\ held[t] \in Conns
       /\ authenticated /\ ~registered /\ lease = None
  /\ pc[t] = "c_track" => token = None /\ resp[t].secret \in {None, held[t]}
  /\ pc[t] = "c_lease" => token = held[t] /\ resp[t].secret = held[t]
  /\ \/ pc[t] \in {"c_dial", "c_store"} \cup HelloPcs \cup CommitPcs
     \/ pc[t] \in {"cs_swap"} \cup ClosingPcs /\ ret[t] = "c_dial"
     => credential # None
  /\ pc[t] \in RestPcs => Coherent
  /\ pc[t] \in {"r_send", "r_track", "r_lease"} => sock # None
  /\ pc[t] \in {"r_bind", "r_recv", "r_check"} => sock = held[t]
  /\ pc[t] \in {"r_track", "r_lease"} => registered /\ resp[t].secret = sock

\* A reconnect drops the session it found, and is online only if it succeeds.
Renews(t) ==
  op[t] = "reconnect" =>
    /\ pc[t] \notin {"o_close", "o_cred", "d_send", "q_bind", "q_send",
                     "q_recv", "q_check"}
    /\ pc[t] \in {"cs_swap"} \cup ClosingPcs =>
         ret[t] \in {"return", "c_dial", "c_untoken", "l_clear"}
    /\ pc[t] \in {"c_store"} \cup HelloPcs => held[t] # oldId[t]
    /\ pc[t] \in CommitPcs \cup RegisterPcs => connId # oldId[t]
    /\ pc[t] \in {"r_guard", "r_send", "r_bind", "r_recv", "r_check"} =>
         ~registered
    /\ pc[t] = "x_check" => registered
    /\ IF pc[t] = "return" THEN registered <=> result[t] = "ok"
       ELSE result[t] # "ok"

-----------------------------------------------------------------------------
(* What the host says, and which connections were ever dialled *)

DownSays ==
  /\ \A c \in Conns : hpc[c] = "confirming" => c \in device
  /\ \A c \in Conns : \A f \in Frames(down[c]) :
       /\ f.type = "AUTHENTICATED" => f.secret \in {None, c}
       /\ f.type = "REGISTERED" => f.secret = c /\ c \in device

RespSays ==
  \A t \in Threads : pc[t] \in {"c_check", "r_check"} =>
    /\ resp[t].type = "AUTHENTICATED" => resp[t].secret \in {None, held[t]}
    /\ resp[t].type = "REGISTERED" => resp[t].secret = held[t]
                                      /\ held[t] \in device

\* What the object or a thread names was dialled once, and what was not dialled
\* the host has not met.
Dialled ==
  /\ \A c \in Conns : cEnd[c] = "unused" =>
       /\ hEnd[c] = "unused" /\ c \notin device
       /\ sock # c /\ connId # c
       /\ \A t \in Threads : held[t] # c /\ oldId[t] # c /\ closing[t] # c

\* The connections on which the host has registered the device, and that it has
\* not closed, are the one the registry lists.
OneOnline == \A c \in device : hEnd[c] = "open" => regConn = c

-----------------------------------------------------------------------------
(* The invariants *)

Told == DownSays /\ RespSays /\ Dialled

\* A call in progress that overlaps no other is the only one in progress.
OverlapSeen ==
  \A t \in Threads :
    pc[t] # "idle" /\ ~overlap[t] => \A u \in Threads \ {t} : pc[u] = "idle"

LoneInv ==
  /\ OverlapSeen
  /\ \A t \in Threads : pc[t] = "idle" => result[t] = "none" 
  /\ \A t \in Threads :
       /\ pc[t] # "idle" /\ ~overlap[t]
       /\ op[t] \in {"connect", "reconnect"} /\ credential # None
       => Sound(t) /\ Renews(t)

SoloInv == \A t \in Threads : Sound(t)

-----------------------------------------------------------------------------
(* What the host says is so, and stays so *)

\* A thread that is about to read an answer has just received it.
LEMMA AnswerReceived ==
  ASSUME TypeInv, NEW t \in Threads, Call(t) \/ Continue(t),
         pc'[t] \in {"c_check", "r_check", "q_check"}
  PROVE  Receive(t)
<1> USE DEF TypeInv, TypeOK, ClientTypeOK, Goto, Finish, CloseThen,
            ConnectionLost
<1>1. CASE \/ SendFails(t) \/ ReceiveFails(t) \/ ReceiveTorn(t)
           \/ ReceiveResync(t)
  BY <1>1, FailureMoves DEF SendFails, ReceiveFails, ReceiveTorn, ReceiveResync
<1>2. CASE RegisterBind(t)
  BY <1>2, FailureMoves DEF RegisterBind
<1>3. CASE Call(t)
  BY <1>3 DEF Call, CallTeardown, CallLogin, CallConnect, CallRegister,
     CallRequest
<1>4. CASE \/ Return(t) \/ CloseSwap(t) \/ CloseShut(t) \/ CloseClear(t)
           \/ ClearAgain(t) \/ LogoutCredential(t) \/ ShutdownLogout(t)
  BY <1>4 DEF Return, CloseSwap, CloseShut, CloseClear, ClearAgain,
     LogoutCredential, ShutdownLogout, ReturnPcs
<1>5. CASE Send(t) \/ SendOnly(t)
  BY <1>5 DEF Send, SendOnly, AfterSend
<1>6. CASE \/ Dial(t) \/ DialFails(t) \/ Store(t) \/ Hello(t)
           \/ CommitHandshake(t) \/ TrackHandshake(t) \/ NoToken(t)
           \/ LeaseHandshake(t)
  BY <1>6 DEF Dial, DialFails, Store, Hello, CommitHandshake, TrackHandshake,
     NoToken, LeaseHandshake
<1>7. CASE \/ RegisterGuard(t) \/ CheckRegister(t) \/ TrackRegister(t)
           \/ LeaseRegister(t) \/ CheckReconnect(t) \/ RequestBind(t)
           \/ CheckResponse(t)
  BY <1>7 DEF RegisterGuard, CheckRegister, TrackRegister, LeaseRegister,
     CheckReconnect, RequestBind, CheckResponse
<1> QED
  BY <1>1, <1>2, <1>3, <1>4, <1>5, <1>6, <1>7 DEF Continue

\* A thread dials only what was never dialled, and names nothing that was not.
LEMMA DialledClient ==
  ASSUME TypeInv, Dialled, NEW t \in Threads, Call(t) \/ Continue(t),
         UNCHANGED hostVars
  PROVE  Dialled'
<1> USE DEF TypeInv, TypeOK, WireTypeOK, ClientTypeOK, HostTypeOK
<1>1. \A u \in Threads \ {t} :
        held'[u] = held[u] /\ oldId'[u] = oldId[u] /\ closing'[u] = closing[u]
  BY OthersRest
<1>2. ASSUME NEW c \in Conns, cEnd[c] = "unused", cEnd'[c] = "unused",
             hEnd'[c] = hEnd[c], sock' \in {sock, held[t], None},
             connId' \in {connId, held[t], None},
             held'[t] \in {held[t], sock, None} \cup (Conns \ {c}),
             oldId'[t] \in {oldId[t], connId, None},
             closing'[t] \in {closing[t], sock, None}
      PROVE  /\ hEnd'[c] = "unused" /\ c \notin device' /\ sock' # c
             /\ connId' # c
             /\ \A u \in Threads :
                  held'[u] # c /\ oldId'[u] # c /\ closing'[u] # c
  <2>1. /\ hEnd[c] = "unused" /\ c \notin device /\ sock # c /\ connId # c
        /\ \A u \in Threads : held[u] # c /\ oldId[u] # c /\ closing[u] # c
    BY <1>2 DEF Dialled
  <2>2. c # None
    BY WireAssumption
  <2>3. held'[t] # c /\ oldId'[t] # c /\ closing'[t] # c
    BY <1>2, <2>1, <2>2
  <2>4. device' = device
    BY DEF hostVars
  <2>5. sock' # c /\ connId' # c
    BY <1>2, <2>1, <2>2
  <2>6. \A u \in Threads : held'[u] # c /\ oldId'[u] # c /\ closing'[u] # c
    BY <1>1, <2>1, <2>3
  <2> QED BY <1>2, <2>1, <2>4, <2>5, <2>6
<1>3. ASSUME \A c \in Conns : cEnd'[c] = "unused" => cEnd[c] = "unused",
             UNCHANGED hEnd, sock' \in {sock, held[t], None},
             connId' \in {connId, held[t], None},
             held'[t] \in {held[t], sock, None},
             oldId'[t] \in {oldId[t], connId, None},
             closing'[t] \in {closing[t], sock, None}
      PROVE  Dialled'
  BY <1>2, <1>3 DEF Dialled
<1>4. ASSUME NEW C, ClientCloses(C)
      PROVE  \A c \in Conns : cEnd'[c] = "unused" => cEnd[c] = "unused"
  BY <1>4 DEF ClientCloses
<1>5. CASE Dial(t)
  <2>1. PICK d \in Conns : Open(d) /\ held' = [held EXCEPT ![t] = d]
    BY <1>5 DEF Dial
  <2>2. ASSUME NEW c \in Conns, cEnd'[c] = "unused"
        PROVE  c # d /\ cEnd[c] = "unused" /\ hEnd'[c] = hEnd[c]
    BY <2>1, <2>2 DEF Open
  <2>3. /\ sock' = sock /\ connId' = connId /\ oldId'[t] = oldId[t]
        /\ held'[t] = d /\ closing'[t] = closing[t]
    BY <1>5, <2>1 DEF Dial, object, session
  <2> QED BY <1>2, <2>2, <2>3 DEF Dialled
<1>6. CASE Return(t) \/ Store(t) \/ RegisterBind(t)
  BY <1>3, <1>4, <1>6 DEF Return, Store, RegisterBind, Collected, object,
     session, locals
<1>7. CASE CloseShut(t) \/ LeaseHandshake(t)
  BY <1>3, <1>4, <1>7 DEF CloseShut, LeaseHandshake, Collected, object, session
<1>8. CASE CallTeardown(t) \/ CallLogin(t) \/ CallConnect(t) \/ CallRegister(t)
           \/ CallRequest(t)
  BY <1>3, <1>8 DEF CallTeardown, CallLogin, CallConnect, CallRegister,
     CallRequest, object, session, locals, link
<1>9. CASE \/ CloseSwap(t) \/ CloseClear(t) \/ ClearAgain(t)
           \/ LogoutCredential(t) \/ ShutdownLogout(t)
  BY <1>3, <1>9 DEF CloseSwap, CloseClear, ClearAgain, LogoutCredential,
     ShutdownLogout, ClearSession, object, session, locals, link
<1>10. CASE \/ Send(t) \/ SendOnly(t) \/ SendFails(t) \/ Receive(t)
            \/ ReceiveFails(t) \/ ReceiveTorn(t) \/ ReceiveResync(t)
  BY <1>3, <1>10 DEF Send, SendSocket, SendOnly, SendFails, Receive,
     ReceiveFails, ReceiveTorn, ReceiveResync, object, session, locals, link
<1>11. CASE \/ DialFails(t) \/ Hello(t) \/ CommitHandshake(t)
            \/ TrackHandshake(t) \/ NoToken(t)
  BY <1>3, <1>11 DEF DialFails, Hello, CommitHandshake, FreshSession,
     TrackHandshake, NoToken, object, session, locals, link
<1>12. CASE \/ RegisterGuard(t) \/ CheckRegister(t) \/ TrackRegister(t)
            \/ LeaseRegister(t) \/ CheckReconnect(t) \/ RequestBind(t)
            \/ CheckResponse(t)
  BY <1>3, <1>12 DEF RegisterGuard, CheckRegister, TrackRegister,
     LeaseRegister, CheckReconnect, RequestBind, CheckResponse, object,
     session, locals, link
<1> QED
  BY <1>5, <1>6, <1>7, <1>8, <1>9, <1>10, <1>11, <1>12 DEF Call, Continue

\* A thread believes of its connection what the host said there.
LEMMA ToldClient ==
  ASSUME TypeInv, Told, NEW t \in Threads, Call(t) \/ Continue(t),
         UNCHANGED hostVars
  PROVE  Told'
<1>1. DownSays'
  BY ClientTakes DEF Told, DownSays, hostVars
<1>2. RespSays'
  <2> SUFFICES ASSUME NEW u \in Threads, pc'[u] \in {"c_check", "r_check"}
               PROVE  /\ resp'[u].type = "AUTHENTICATED" =>
                           resp'[u].secret \in {None, held'[u]}
                      /\ resp'[u].type = "REGISTERED" =>
                           resp'[u].secret = held'[u] /\ held'[u] \in device'
    BY DEF RespSays
  <2>1. CASE u # t
    BY <2>1, OthersRest DEF Told, RespSays, hostVars
  <2>2. CASE u = t
    <3>1. Receive(t)
      BY <2>2, AnswerReceived
    <3>2. held[t] \in Conns /\ down[held[t]] \in Seq(DownFrames)
      BY <3>1 DEF Receive, TypeInv, TypeOK, LocalsOK, HeldPcs, WireTypeOK
    <3>3. Head(down[held[t]]) \in Frames(down[held[t]])
      BY <3>1, <3>2, FramesTail DEF Receive
    <3>4. resp'[t] = Head(down[held[t]]) /\ held'[t] = held[t]
      BY <3>1 DEF Receive, TypeInv, TypeOK, ClientTypeOK
    <3> QED
      BY <2>2, <3>2, <3>3, <3>4 DEF Told, DownSays, hostVars
  <2> QED BY <2>1, <2>2
<1>3. Dialled'
  BY DialledClient DEF Told
<1> QED BY <1>1, <1>2, <1>3 DEF Told

\* A host names its own connection in what it sends, confirms a registration
\* once it has made it, and has met only who dialled it.
LEMMA ToldHost ==
  ASSUME TypeInv, Told, UNCHANGED clientVars,
         Environment \/ \E c \in Conns : Handler(c)
  PROVE  Told'
<1> USE DEF TypeInv, TypeOK, WireTypeOK, HostTypeOK
<1>1. device \subseteq device'
  BY DEF Environment, Handler, Handshake, Register, ConfirmRegister, Answer,
     Route, Finalise, RelayIn, ForceClose, Stop, hostVars
<1>2. RespSays'
  BY <1>1 DEF Told, RespSays, clientVars, locals
<1>3. ASSUME NEW d \in Conns, NEW e \in DownFrames, SendDown(d, e),
             NEW c \in Conns, NEW f \in Frames(down'[c])
      PROVE  f \in Frames(down[c]) \/ (c = d /\ f = e)
  <2>1. Frames(Append(down[d], e)) = Frames(down[d]) \cup {e}
    BY <1>3, FramesAppend
  <2>2. down'[c] = down[c] \/ (c = d /\ down'[c] = Append(down[d], e))
    BY <1>3 DEF SendDown
  <2> QED BY <1>3, <2>1, <2>2
<1>4. ASSUME NEW d \in Conns, NEW e \in DownFrames, SendDown(d, e),
             \/ e.type \notin {"AUTHENTICATED", "REGISTERED"}
             \/ e.type = "AUTHENTICATED" /\ e.secret \in {None, d}
             \/ e.type = "REGISTERED" /\ e.secret = d /\ d \in device',
             \A c \in Conns : hpc'[c] = "confirming" => hpc[c] = "confirming"
      PROVE  DownSays'
  BY <1>1, <1>3, <1>4 DEF Told, DownSays
<1>5. ASSUME NEW d \in Conns, NEW type, Takes(d, type), NEW type2 \in DownTypes,
             NEW secret \in Conns \cup {None}, Replies(d, type2, secret),
             \/ type2 \notin {"AUTHENTICATED", "REGISTERED"}
             \/ type2 = "AUTHENTICATED" /\ secret \in {None, d},
             UNCHANGED hpc
      PROVE  DownSays'
  <2> DEFINE e == Frame(type2, Head(up[d]).rid, secret)
  <2>1. e \in DownFrames
    BY <1>5, TakesTyped DEF Frame, UpFrames, DownFrames
  <2>2. e.type = type2 /\ e.secret = secret
    BY DEF Frame
  <2> QED BY <1>4, <1>5, <2>1, <2>2 DEF Replies
<1>6. ASSUME UNCHANGED down,
             \A c \in Conns :
               hpc'[c] = "confirming" => hpc[c] = "confirming" \/ c \in device'
      PROVE  DownSays'
  BY <1>1, <1>6 DEF Told, DownSays
<1>7. ASSUME NEW c \in Conns, Handshake(c) \/ Answer(c) \/ Route(c)
      PROVE  DownSays'
  <2>1. CASE Handshake(c)
    BY <1>5, <1>7, <2>1 DEF Handshake, DownTypes
  <2>2. CASE Answer(c)
    BY <1>5, <1>7, <2>2 DEF Answer, DownTypes
  <2>3. CASE Route(c)
    BY <1>5, <1>6, <1>7, <2>3 DEF Route, DownTypes
  <2> QED BY <1>7, <2>1, <2>2, <2>3
<1>8. ASSUME NEW c \in Conns, Register(c) PROVE DownSays'
  BY <1>5, <1>6, <1>8 DEF Register, DownTypes
<1>9. ASSUME NEW c \in Conns, ConfirmRegister(c) PROVE DownSays'
  <2> DEFINE e == Frame("REGISTERED", None, c)
  <2>1. e \in DownFrames /\ e.type = "REGISTERED" /\ e.secret = c
    BY DEF Frame, DownFrames, DownTypes
  <2>2. c \in device'
    BY <1>1, <1>9 DEF ConfirmRegister, Told, DownSays
  <2>3. \A d \in Conns : hpc'[d] = "confirming" => hpc[d] = "confirming"
    BY <1>9 DEF ConfirmRegister
  <2> QED BY <1>4, <1>9, <2>1, <2>2, <2>3 DEF ConfirmRegister
<1>10. ASSUME NEW c \in Conns, RelayIn(c) PROVE DownSays'
  <2> DEFINE e == Frame("RELAY", None, None)
  <2>1. e \in DownFrames /\ e.type = "RELAY"
    BY DEF Frame, DownFrames, DownTypes
  <2> QED BY <1>4, <1>10, <2>1 DEF RelayIn
<1>11. ASSUME NEW c \in Conns, Finalise(c) PROVE DownSays'
  BY <1>6, <1>11 DEF Finalise
<1>12. ASSUME ForceClose \/ Stop PROVE DownSays'
  BY <1>6, <1>12 DEF ForceClose, Stop, hostVars
<1>13. DownSays'
  BY <1>7, <1>8, <1>9, <1>10, <1>11, <1>12 DEF Environment, Handler
<1>14. UNCHANGED <<cEnd, sock, connId, held, oldId, closing>>
  BY DEF clientVars, object, session, locals, Environment, Handler, Handshake,
     Register, ConfirmRegister, Answer, Route, Finalise, RelayIn, ForceClose, Stop
<1>15. ASSUME NEW C, HostCloses(C), \A c \in C \cap Conns : cEnd[c] # "unused",
              UNCHANGED device
       PROVE  Dialled'
  BY <1>14, <1>15 DEF Told, Dialled, HostCloses
<1>16. ASSUME NEW c \in Conns, Finalise(c) PROVE Dialled'
  <2>1. cEnd[c] # "unused"
    BY <1>16 DEF Finalise, Broken, Told, Dialled
  <2> QED BY <1>15, <1>16, <2>1 DEF Finalise
<1>17. ASSUME ForceClose PROVE Dialled'
  <2>1. devConn \in Conns /\ hEnd[devConn] = "open"
    BY <1>17 DEF ForceClose
  <2>2. cEnd[devConn] # "unused"
    BY <2>1 DEF Told, Dialled
  <2> QED BY <1>15, <1>17, <2>2 DEF ForceClose, hostVars
<1>18. ASSUME Stop PROVE Dialled'
  BY <1>15, <1>18 DEF Stop, Told, Dialled
<1>19. ASSUME UNCHANGED hEnd,
              \A c \in device' \ device : hEnd[c] = "open"
       PROVE  Dialled'
  BY <1>14, <1>19 DEF Told, Dialled
<1>20. ASSUME NEW c \in Conns, \/ Handshake(c) \/ Register(c)
                               \/ ConfirmRegister(c) \/ Answer(c) \/ Route(c)
                               \/ RelayIn(c)
       PROVE  Dialled'
  BY <1>19, <1>20 DEF Handshake, Register, ConfirmRegister, Answer, Route,
     RelayIn, Takes
<1>21. Dialled'
  BY <1>16, <1>17, <1>18, <1>20 DEF Environment, Handler
<1> QED BY <1>2, <1>13, <1>21 DEF Told

-----------------------------------------------------------------------------
(* The steps of a call *)

\* A step of a call in progress keeps the session as far as the call has come:
\* the close clears everything, the handshake commits its own connection, and
\* the registration confirms that one.
LEMMA SoundStep ==
  ASSUME TypeInv, Told, NEW t \in Threads, Sound(t), Continue(t),
         UNCHANGED hostVars
  PROVE  Sound(t)'
<1> USE DEF TypeInv, TypeOK, ClientTypeOK, Goto, Finish, CloseThen, ConnectionLost
<1> USE DEF Sound, Coherent, Clear, ClosingPcs, ClosedPcs, HelloPcs, CommitPcs,
            RegisterPcs, RestPcs
<1> USE WireAssumption
<1>0. UNCHANGED device
  BY DEF hostVars
<1>1. CASE Return(t)
  BY <1>0, <1>1 DEF Return, object, session
<1>2. CASE CloseSwap(t)
  BY <1>0, <1>2 DEF CloseSwap, session
<1>3. CASE CloseShut(t)
  BY <1>0, <1>3 DEF CloseShut, object, session, inCall
<1>4. CASE CloseClear(t)
  BY <1>0, <1>4 DEF CloseClear, ClearSession, ReturnPcs
<1>5. CASE ClearAgain(t)
  BY <1>0, <1>5 DEF ClearAgain, ClearSession
<1>6. CASE LogoutCredential(t)
  BY <1>0, <1>6 DEF LogoutCredential, session
<1>7. CASE ShutdownLogout(t)
  BY <1>0, <1>7 DEF ShutdownLogout, object, session
<1>8. CASE Send(t)
  BY <1>0, <1>8 DEF Send, SendSocket, AfterSend, session
<1>9. CASE SendOnly(t)
  BY <1>0, <1>9 DEF SendOnly, object, session
<1>10. CASE SendFails(t)
  BY <1>0, <1>10 DEF SendFails, IOFailure, object, session
<1>11. CASE Receive(t)
  BY <1>0, <1>11 DEF Receive, AfterReceive, session, ReceivePcs
<1>12. CASE ReceiveFails(t)
  BY <1>0, <1>12 DEF ReceiveFails, IOFailure, session, ReceivePcs
<1>13. CASE ReceiveTorn(t) \/ ReceiveResync(t)
  BY <1>0, <1>13 DEF ReceiveTorn, ReceiveResync, IOFailure, session, ReceivePcs
<1>14. CASE Dial(t)
  BY <1>0, <1>14 DEF Dial, object, session
<1>15. CASE DialFails(t)
  BY <1>0, <1>15 DEF DialFails, object, session
<1>16. CASE Store(t)
  BY <1>0, <1>16 DEF Store, session, locals, LocalsOK, HeldPcs
<1>17. CASE Hello(t)
  BY <1>0, <1>17 DEF Hello, object, session
<1>18. CASE CommitHandshake(t)
  BY <1>0, <1>18 DEF CommitHandshake, FreshSession, session, locals, Told,
     RespSays, LocalsOK, HeldPcs
<1>19. CASE TrackHandshake(t)
  BY <1>0, <1>19 DEF TrackHandshake, locals
<1>20. CASE NoToken(t)
  BY <1>0, <1>20 DEF NoToken
<1>21. CASE LeaseHandshake(t)
  BY <1>0, <1>21 DEF LeaseHandshake
<1>22. CASE RegisterGuard(t)
  BY <1>0, <1>22 DEF RegisterGuard, object, session
<1>23. CASE RegisterBind(t)
  BY <1>0, <1>23 DEF RegisterBind, session, LocalsOK, HeldPcs
<1>24. CASE CheckRegister(t)
  <2>1. Confirms(resp[t]) => held[t] \in Conns /\ held[t] \in device
    BY <1>24 DEF CheckRegister, Confirms, Told, RespSays, HostTypeOK
  <2> QED
    BY <1>0, <1>24, <2>1 DEF CheckRegister, Confirms, session, locals, Told,
       RespSays
<1>25. CASE TrackRegister(t)
  BY <1>0, <1>25 DEF TrackRegister, locals
<1>26. CASE LeaseRegister(t)
  BY <1>0, <1>26 DEF LeaseRegister
<1>27. CASE CheckReconnect(t) \/ RequestBind(t) \/ CheckResponse(t)
  BY <1>0, <1>27 DEF CheckReconnect, RequestBind, CheckResponse, object, session
<1> QED
  BY <1>1, <1>2, <1>3, <1>4, <1>5, <1>6, <1>7, <1>8, <1>9, <1>10, <1>11,
     <1>12, <1>13, <1>14, <1>15, <1>16, <1>17, <1>18, <1>19, <1>20, <1>21,
     <1>22, <1>23, <1>24, <1>25, <1>26, <1>27 DEF Continue

\* A call that begins where the session is whole finds it so.
LEMMA SoundCall ==
  ASSUME TypeInv, NEW t \in Threads, Sound(t), Call(t), UNCHANGED hostVars
  PROVE  Sound(t)'
<1> USE DEF TypeInv, TypeOK, ClientTypeOK, Goto, Finish, CloseThen
<1> USE DEF Sound, Coherent, Clear, ClosingPcs, ClosedPcs, HelloPcs, CommitPcs,
            RegisterPcs, RestPcs
<1> USE WireAssumption
<1>0. UNCHANGED device
  BY DEF hostVars
<1>1. CASE CallTeardown(t)
  <2>1. \A o \in {"close_socket", "mark_disconnected", "logout", "shutdown"} :
          AfterClose(o) # "c_dial"
    BY DEF AfterClose
  <2> QED
    BY <1>0, <1>1, <2>1 DEF CallTeardown, Enter, object, session
<1>2. CASE CallLogin(t)
  BY <1>0, <1>2 DEF CallLogin, Enter, session
<1>3. CASE CallConnect(t)
  BY <1>0, <1>3 DEF CallConnect, Enter, object, session
<1>4. CASE CallRegister(t)
  BY <1>0, <1>4 DEF CallRegister, Enter, object, session
<1>5. CASE CallRequest(t)
  BY <1>0, <1>5 DEF CallRequest, Enter, object, session
<1> QED BY <1>1, <1>2, <1>3, <1>4, <1>5 DEF Call

\* The host does not touch the client, and forgets no connection it has met.
LEMMA SoundHost ==
  ASSUME NEW t \in Threads, Sound(t), UNCHANGED clientVars,
         Environment \/ \E c \in Conns : Handler(c)
  PROVE  Sound(t)'
<1>1. device \subseteq device'
  BY DEF Environment, Handler, Handshake, Register, ConfirmRegister, Answer,
     Route, Finalise, RelayIn, ForceClose, Stop, hostVars
<1> QED
  BY <1>1 DEF Sound, Coherent, Clear, clientVars, object, session, locals

-----------------------------------------------------------------------------
(* The registry knows one open connection of the device *)

\* No step of a client or of the host puts a second open connection into the
\* registry.
LEMMA OneOnlineNext ==
  ASSUME TypeInv, Dialled, RegistryBacked, OneOnline, [Next]_vars
  PROVE  OneOnline'
<1> USE DEF TypeInv, TypeOK, WireTypeOK, HostTypeOK
<1>1. ASSUME NEW t \in Threads, Call(t) \/ Continue(t), UNCHANGED hostVars
      PROVE  OneOnline'
  <2>1. CASE UNCHANGED hEnd
    BY <1>1, <2>1 DEF OneOnline, hostVars, registry
  <2>2. CASE Dial(t)
    <3>1. PICK d \in Conns : Open(d)
      BY <2>2 DEF Dial
    <3>2. d \notin device
      BY <3>1 DEF Open, Dialled
    <3> QED
      BY <1>1, <3>1, <3>2 DEF Open, OneOnline, hostVars, registry
  <2> QED
    BY <1>1, <2>1, <2>2
    DEF Call, Continue, CallTeardown, CallLogin, CallConnect, CallRegister,
      CallRequest, Return, CloseSwap, CloseShut, CloseClear, ClearAgain,
      LogoutCredential, ShutdownLogout, Send, SendOnly, SendFails, Receive,
      ReceiveFails, ReceiveTorn, ReceiveResync, DialFails, Store, Hello,
      CommitHandshake, TrackHandshake, NoToken, LeaseHandshake, RegisterGuard,
      RegisterBind, CheckRegister, TrackRegister, LeaseRegister,
      CheckReconnect, RequestBind, CheckResponse, link
<1>2. ASSUME NEW c \in Conns, Register(c) PROVE OneOnline'
  <2>1. CASE UNCHANGED <<device, registry>>
    BY <1>2, <2>1 DEF Register, OneOnline, registry
  <2>2. CASE regConn' = c /\ device' = device \cup {c} /\ ~Duplicate(c)
    BY <1>2, <2>2, WireAssumption
    DEF Register, OneOnline, Duplicate, RegistryBacked
  <2> QED BY <1>2, <2>1, <2>2 DEF Register
<1>3. ASSUME NEW c \in Conns, Finalise(c) PROVE OneOnline'
  BY <1>3 DEF Finalise, HostCloses, OwnsRecord, OneOnline
<1>4. ASSUME NEW c \in Conns, \/ Handshake(c) \/ ConfirmRegister(c)
                              \/ Answer(c) \/ Route(c) \/ RelayIn(c)
      PROVE  OneOnline'
  BY <1>4 DEF Handshake, ConfirmRegister, Answer, Route, RelayIn, OneOnline,
     registry
<1>5. CASE ForceClose \/ Stop
  BY <1>5 DEF ForceClose, Stop, HostCloses, OneOnline, hostVars, registry
<1>6. CASE UNCHANGED vars
  BY <1>6 DEF OneOnline, vars, link, hostVars, registry
<1> QED
  BY <1>1, <1>2, <1>3, <1>4, <1>5, <1>6
  DEF Next, Terminated, Environment, Handler

-----------------------------------------------------------------------------
(* One thread *)

\* What every execution keeps, however many threads there are.
Shared == TypeInv /\ Told /\ RegistryBacked /\ OneOnline

\* A client and a host start so.
LEMMA SharedInit == Init => Shared
<1> SUFFICES ASSUME Init PROVE Shared
  OBVIOUS
<1>1. TypeInv
  BY TypeInvInit
<1>2. DownSays
  BY FramesEmpty DEF Init, WireInit, HostInit, DownSays
<1>3. RespSays /\ Dialled /\ RegistryBacked /\ OneOnline
  BY WireAssumption
  DEF Init, WireInit, ClientInit, HostInit, RespSays, Dialled, RegistryBacked,
      OneOnline
<1> QED BY <1>1, <1>2, <1>3 DEF Shared, Told

\* Every step keeps it.
LEMMA SharedNext == Shared /\ [Next]_vars => Shared'
<1> SUFFICES ASSUME Shared, [Next]_vars PROVE Shared'
  OBVIOUS
<1> USE DEF Shared
<1>1. TypeInv'
  BY TypeInvNext
<1>2. RegistryBacked'
  BY RegistryNext DEF TypeInv, TypeOK
<1>3. OneOnline'
  BY OneOnlineNext DEF Told
<1>4. Told'
  <2>1. ASSUME NEW t \in Threads, Call(t) \/ Continue(t), UNCHANGED hostVars
        PROVE  Told'
    BY <2>1, ToldClient
  <2>2. CASE /\ UNCHANGED clientVars
             /\ Environment \/ \E c \in Conns : Handler(c)
    BY <2>2, ToldHost
  <2>3. CASE UNCHANGED vars
    BY <2>3 DEF Told, DownSays, RespSays, Dialled, vars, link, clientVars,
       hostVars, object, session, locals
  <2> QED BY <2>1, <2>2, <2>3 DEF Next, Terminated
<1> QED BY <1>1, <1>2, <1>3, <1>4

\* The one thread of the client finds the session as its last call left it.
LEMMA SoloNext ==
  ASSUME NEW cli, Threads = {cli}, Shared, SoloInv, [Next]_vars
  PROVE  SoloInv'
<1> USE DEF Shared, SoloInv
<1>1. CASE (Call(cli) \/ Continue(cli)) /\ UNCHANGED hostVars
  <2>1. Sound(cli)'
    BY <1>1, SoundStep, SoundCall
  <2> QED BY <2>1
<1>2. CASE /\ UNCHANGED clientVars
           /\ Environment \/ \E c \in Conns : Handler(c)
  BY <1>2, SoundHost
<1>3. CASE UNCHANGED vars
  BY <1>3 DEF Sound, Coherent, Clear, vars, link, clientVars, hostVars, object,
     session, locals
<1> QED BY <1>1, <1>2, <1>3 DEF Next, Terminated

\* A client starts without a session.
LEMMA SoloInit == Init => SoloInv
BY DEF Init, ClientInit, SoloInv, Sound, Coherent, Clear, ClosingPcs,
   ClosedPcs, HelloPcs, CommitPcs, RestPcs, RegisterPcs

\* Between the calls of a client that one thread uses, the object is offline
\* with nothing left of a session, or has the socket, the token, the
\* connection_id and the lease of one (core_device_client.py:529-590, 852-869).
THEOREM SessionCoherentHolds ==
  ASSUME NEW cli, Threads = {cli}
  PROVE  Spec => []SessionCoherent
<1>1. Shared /\ SoloInv /\ [Next]_vars => SoloInv'
  BY SoloNext
<1>2. SoloInv => SessionCoherent
  BY DEF SoloInv, Sound, Coherent, Clear, RestPcs, SessionCoherent, Idle
<1> QED
  BY <1>1, <1>2, SoloInit, SharedInit, SharedNext, PTL DEF Spec

\* Between those calls, a client that says ONLINE on a connection neither end
\* has closed is the device the registry lists, on that connection
\* (core_device_client.py:361-379, fake_host.py:239-282).
THEOREM OnlineAgreementHolds ==
  ASSUME NEW cli, Threads = {cli}
  PROVE  Spec => []OnlineAgreement
<1>1. Shared /\ SoloInv /\ [Next]_vars => SoloInv'
  BY SoloNext
<1>2. Shared /\ SoloInv => OnlineAgreement
  <2> SUFFICES ASSUME Shared, SoloInv, Idle, LeaseState = "ONLINE",
                      hEnd[sock] = "open"
               PROVE  status = "online" /\ regConn = sock
    BY DEF OnlineAgreement
  <2>1. registered
    BY DEF LeaseState
  <2>2. sock \in device
    BY <2>1 DEF SoloInv, Sound, Coherent, RestPcs, Idle
  <2>3. sock \in Conns
    BY <2>2 DEF Shared, TypeInv, TypeOK, HostTypeOK
  <2> QED
    BY <2>2, <2>3, WireAssumption DEF Shared, OneOnline, RegistryBacked
<1> QED
  BY <1>1, <1>2, SoloInit, SharedInit, SharedNext, PTL DEF Spec

-----------------------------------------------------------------------------
(* A reconnect among other threads *)

\* The steps of a reconnect: it begins with a result that is not "ok", dials a
\* connection it has no name for yet, and ends "ok" only past a confirmation.
LEMMA RenewsStep ==
  ASSUME TypeInv, Told, NEW t \in Threads, Sound(t), Renews(t), Continue(t),
         pc'[t] # "idle"
  PROVE  Renews(t)'
<1> USE DEF TypeInv, TypeOK, ClientTypeOK, Goto, Finish, CloseThen, ConnectionLost
<1> USE DEF Renews, ClosingPcs, HelloPcs, CommitPcs, RegisterPcs
<1>1. op'[t] = op[t]
  BY DEF Continue, Return, CloseSwap, CloseShut, CloseClear, ClearAgain,
     LogoutCredential, ShutdownLogout, Send, SendOnly, SendFails, Receive,
     ReceiveFails, ReceiveTorn, ReceiveResync, Dial, DialFails, Store, Hello,
     CommitHandshake, TrackHandshake, NoToken, LeaseHandshake, RegisterGuard,
     RegisterBind, CheckRegister, TrackRegister, LeaseRegister,
     CheckReconnect, RequestBind, CheckResponse, inCall
<1> SUFFICES ASSUME op[t] = "reconnect", op'[t] = "reconnect" PROVE Renews(t)'
  BY <1>1
<1>2. CASE CloseSwap(t) \/ CloseShut(t)
  BY <1>2 DEF CloseSwap, CloseShut, object, session
<1>3. CASE CloseClear(t)
  BY <1>3 DEF CloseClear, ClearSession, ReturnPcs
<1>4. CASE ClearAgain(t) \/ LogoutCredential(t) \/ ShutdownLogout(t)
  BY <1>4 DEF ClearAgain, ClearSession, LogoutCredential, ShutdownLogout,
     object, session
<1>5. CASE Send(t)
  BY <1>5 DEF Send, SendSocket, AfterSend, session
<1>6. CASE SendOnly(t) \/ SendFails(t)
  BY <1>6 DEF SendOnly, SendFails, IOFailure, object, session, locals
<1>7. CASE Receive(t)
  BY <1>7 DEF Receive, AfterReceive, session, ReceivePcs
<1>8. CASE ReceiveFails(t)
  BY <1>8 DEF ReceiveFails, IOFailure, session, ReceivePcs, locals
<1>9. CASE ReceiveTorn(t) \/ ReceiveResync(t)
  BY <1>9 DEF ReceiveTorn, ReceiveResync, IOFailure, session, ReceivePcs, locals
<1>10. CASE Dial(t)
  <2>1. PICK c \in Conns : Open(c) /\ held' = [held EXCEPT ![t] = c]
    BY <1>10 DEF Dial
  <2>2. c # oldId[t]
    BY <2>1 DEF Open, Told, Dialled
  <2> QED
    BY <1>10, <2>1, <2>2 DEF Dial, object, session
<1>11. CASE DialFails(t)
  BY <1>11 DEF DialFails, object, session, locals, Sound, Clear, ClosedPcs
<1>12. CASE Store(t) \/ Hello(t)
  BY <1>12 DEF Store, Hello, object, session, locals
<1>13. CASE CommitHandshake(t)
  BY <1>13 DEF CommitHandshake, FreshSession, session, locals
<1>14. CASE TrackHandshake(t) \/ NoToken(t)
  BY <1>14 DEF TrackHandshake, NoToken, locals, Sound, Clear, ClosedPcs
<1>15. CASE LeaseHandshake(t)
  BY <1>15 DEF LeaseHandshake, Sound
<1>16. CASE RegisterGuard(t)
  BY <1>16 DEF RegisterGuard, object, session
<1>17. CASE RegisterBind(t)
  BY <1>17 DEF RegisterBind, IOFailure, session
<1>18. CASE CheckRegister(t) \/ TrackRegister(t) \/ LeaseRegister(t)
  BY <1>18 DEF CheckRegister, TrackRegister, LeaseRegister, locals, Sound
<1>19. CASE CheckReconnect(t)
  BY <1>19 DEF CheckReconnect, object, session, locals
<1>20. CASE RequestBind(t) \/ CheckResponse(t)
  BY <1>20 DEF RequestBind, CheckResponse, object, session, locals
<1> QED
  BY <1>2, <1>3, <1>4, <1>5, <1>6, <1>7, <1>8, <1>9, <1>10, <1>11, <1>12,
     <1>13, <1>14, <1>15, <1>16, <1>17, <1>18, <1>19, <1>20
  DEF Continue, Return

\* A call that begins marks every call it overlaps, and itself if there is one.
LEMMA CallOverlaps ==
  ASSUME TypeInv, NEW t \in Threads, Call(t)
  PROVE  /\ pc[t] = "idle" /\ pc'[t] # "idle"
         /\ ~overlap'[t] => \A u \in Threads : pc[u] = "idle"
         /\ \A u \in Threads \ {t} : pc[u] # "idle" => overlap'[u]
<1> USE DEF TypeInv, TypeOK, ClientTypeOK, Goto, Finish, CloseThen
<1>1. \E o : Enter(t, o)
  BY DEF Call, CallTeardown, CallLogin, CallConnect, CallRegister, CallRequest
<1>2. pc'[t] # "idle"
  BY DEF Call, CallTeardown, CallLogin, CallConnect, CallRegister, CallRequest
<1>3. pc[t] = "idle"
  BY <1>1 DEF Enter
<1>4. ~overlap'[t] => \A u \in Threads : pc[u] = "idle"
  <2>1. overlap'[t] = \E v \in Threads : pc[v] # "idle"
    BY <1>1, Zenon DEF Enter
  <2> QED BY <2>1
<1>5. ASSUME NEW u \in Threads \ {t}, pc[u] # "idle" PROVE overlap'[u]
  <2>1. overlap'[u] = (overlap[u] \/ pc[u] # "idle")
    BY <1>1, Zenon DEF Enter
  <2> QED BY <1>5, <2>1
<1> QED BY <1>2, <1>3, <1>4, <1>5

\* A step of a call in progress records no overlap, and only a logout changes
\* the credential.
LEMMA ContinueAlone ==
  ASSUME TypeInv, NEW t \in Threads, Continue(t)
  PROVE  /\ pc[t] # "idle"
         /\ pc'[t] = "idle" => result'[t] = "none"
         /\ pc'[t] # "idle" => op'[t] = op[t] /\ overlap'[t] = overlap[t]
         /\ credential' \in {credential, None}
<1> USE DEF TypeInv, TypeOK, ClientTypeOK, Goto, Finish, CloseThen, ConnectionLost
<1>1. CASE Return(t)
  BY <1>1 DEF Return, object
<1>2. CASE \/ CloseSwap(t) \/ CloseShut(t) \/ CloseClear(t) \/ ClearAgain(t)
           \/ LogoutCredential(t) \/ ShutdownLogout(t)
  BY <1>2 DEF CloseSwap, CloseShut, CloseClear, ClearAgain, LogoutCredential,
     ShutdownLogout, ReturnPcs, object, inCall
<1>3. CASE Send(t) \/ SendOnly(t) \/ Receive(t)
  BY <1>3 DEF Send, SendOnly, Receive, AfterSend, AfterReceive, ReceivePcs,
     object, inCall
<1>4. CASE \/ SendFails(t) \/ ReceiveFails(t) \/ ReceiveTorn(t)
           \/ ReceiveResync(t)
  BY <1>4, FailureMoves DEF SendFails, ReceiveFails, ReceiveTorn, ReceiveResync,
     ReceivePcs, object, inCall
<1>5. CASE RegisterBind(t)
  BY <1>5, FailureMoves DEF RegisterBind, inCall
<1>6. CASE \/ Dial(t) \/ DialFails(t) \/ Store(t) \/ Hello(t)
           \/ CommitHandshake(t) \/ TrackHandshake(t) \/ NoToken(t)
           \/ LeaseHandshake(t)
  BY <1>6 DEF Dial, DialFails, Store, Hello, CommitHandshake, TrackHandshake,
     NoToken, LeaseHandshake, object, inCall
<1>7. CASE \/ RegisterGuard(t) \/ CheckRegister(t) \/ TrackRegister(t)
           \/ LeaseRegister(t) \/ CheckReconnect(t) \/ RequestBind(t)
           \/ CheckResponse(t)
  BY <1>7 DEF RegisterGuard, CheckRegister, TrackRegister, LeaseRegister,
     CheckReconnect, RequestBind, CheckResponse, object, inCall
<1> QED BY <1>1, <1>2, <1>3, <1>4, <1>5, <1>6, <1>7 DEF Continue

\* The steps of the threads keep what holds of a connect or reconnect that no
\* other call overlaps.
LEMMA LoneClient ==
  ASSUME TypeInv, Told, LoneInv, NEW t \in Threads, Call(t) \/ Continue(t),
         UNCHANGED hostVars
  PROVE  LoneInv'
<1> USE DEF LoneInv, OverlapSeen
<1>1. \A u \in Threads \ {t} :
        pc'[u] = pc[u] /\ op'[u] = op[u] /\ result'[u] = result[u]
  BY OthersRest
<1>2. CASE Call(t)
  <2>1. /\ pc[t] = "idle" /\ pc'[t] # "idle"
        /\ ~overlap'[t] => \A u \in Threads : pc[u] = "idle"
        /\ \A u \in Threads \ {t} : pc[u] # "idle" => overlap'[u]
    BY <1>2, CallOverlaps
  <2>2. OverlapSeen'
    BY <1>1, <2>1
  <2>3. ASSUME op'[t] \in {"connect", "reconnect"}, credential' # None
        PROVE  Sound(t)' /\ Renews(t)'
    <3> USE DEF TypeInv, TypeOK, ClientTypeOK
    <3>1. CallConnect(t)
      BY <1>2, <2>3 DEF Call, CallTeardown, CallLogin, CallConnect,
         CallRegister, CallRequest, Enter
    <3>2. pc'[t] = "cs_swap" /\ ret'[t] = "c_dial" /\ result'[t] = result[t]
      BY <2>3, <3>1 DEF CallConnect, CloseThen, Goto, object
    <3>3. result[t] = "none"
      BY <2>1
    <3> QED
      BY <2>3, <3>2, <3>3 DEF Sound, Renews, ClosingPcs, ClosedPcs, HelloPcs,
         CommitPcs, RegisterPcs, RestPcs
  <2> QED BY <1>1, <2>1, <2>2, <2>3
<1>3. CASE Continue(t)
  <2>1. /\ pc[t] # "idle"
        /\ pc'[t] = "idle" => result'[t] = "none"
        /\ pc'[t] # "idle" => op'[t] = op[t] /\ overlap'[t] = overlap[t]
        /\ credential' \in {credential, None}
    BY <1>3, ContinueAlone
  <2>2. \A u \in Threads \ {t} : pc[u] # "idle" => overlap[u]
    BY <2>1
  <2>4. \A u \in Threads \ {t} : overlap'[u] = overlap[u]
    <3>1. CASE Return(t)
      BY <3>1 DEF Return, TypeInv, TypeOK, ClientTypeOK
    <3>2. CASE ~Return(t)
      BY <1>3, <3>2 DEF Continue, CloseSwap, CloseShut, CloseClear, ClearAgain,
       LogoutCredential, ShutdownLogout, Send, SendOnly, SendFails, Receive,
       ReceiveFails, ReceiveTorn, ReceiveResync, Dial, DialFails, Store, Hello,
       CommitHandshake, TrackHandshake, NoToken, LeaseHandshake, RegisterGuard,
       RegisterBind, CheckRegister, TrackRegister, LeaseRegister,
       CheckReconnect, RequestBind, CheckResponse, inCall
    <3> QED BY <3>1, <3>2
  <2>5. \A u \in Threads \ {t} : pc'[u] # "idle" => overlap'[u]
    BY <1>1, <2>2, <2>4
  <2>6. OverlapSeen'
    BY <1>1, <2>1, <2>5
  <2>7. ASSUME pc'[t] # "idle", ~overlap'[t],
               op'[t] \in {"connect", "reconnect"}, credential' # None
        PROVE  Sound(t)' /\ Renews(t)'
    <3>1. Sound(t) /\ Renews(t)
      BY <2>1, <2>7
    <3> QED BY <1>3, <2>7, <3>1, SoundStep, RenewsStep
  <2> QED BY <1>1, <2>1, <2>5, <2>6, <2>7
<1> QED BY <1>2, <1>3

\* ... and so do those of the host.
LEMMA LoneInvNext == Shared /\ LoneInv /\ [Next]_vars => LoneInv'
<1> SUFFICES ASSUME Shared, LoneInv, [Next]_vars PROVE LoneInv'
  OBVIOUS
<1> USE DEF Shared
<1>1. ASSUME NEW t \in Threads, Call(t) \/ Continue(t), UNCHANGED hostVars
      PROVE  LoneInv'
  BY <1>1, LoneClient
<1>2. CASE /\ UNCHANGED clientVars
           /\ Environment \/ \E c \in Conns : Handler(c)
  <2>1. UNCHANGED <<pc, op, overlap, result, credential>>
    BY <1>2 DEF clientVars, object, inCall
  <2>2. ASSUME NEW t \in Threads, Renews(t) PROVE Renews(t)'
    BY <1>2, <2>2 DEF Renews, clientVars, object, session, inCall, locals
  <2> QED
    BY <1>2, <2>1, <2>2, SoundHost DEF LoneInv, OverlapSeen
<1>3. CASE UNCHANGED vars
  BY <1>3 DEF LoneInv, OverlapSeen, Sound, Coherent, Clear, Renews, vars,
     link, clientVars, hostVars, object, session, inCall, locals
<1> QED BY <1>1, <1>2, <1>3 DEF Next, Terminated

\* So a lone reconnect ends with a whole new session, or not online.
LEMMA LoneInvHeals == LoneInv => LoneReconnectHeals
<1> SUFFICES ASSUME LoneInv, NEW t \in Threads,
                    pc[t] = "return", op[t] = "reconnect", ~overlap[t],
                    credential # None
             PROVE  IF result[t] = "ok"
                      THEN /\ LeaseState = "ONLINE"
                           /\ token = sock /\ connId = sock /\ lease = sock
                      ELSE LeaseState # "ONLINE"
  BY DEF LoneReconnectHeals
<1>1. Sound(t) /\ Renews(t)
  BY DEF LoneInv
<1> QED
  BY <1>1 DEF Sound, Renews, RestPcs, Coherent, Clear, LeaseState

\* No call overlaps another before there is one.
LEMMA LoneInvInit == Init => LoneInv
BY DEF Init, ClientInit, LoneInv, OverlapSeen

\* Whatever the other threads did to the session before, a reconnect that none
\* of them overlaps ends with everything of one new session, or not online
\* (core_device_client.py:841-850).
THEOREM LoneReconnectHealsHolds == Spec => []LoneReconnectHeals
BY LoneInvInit, LoneInvHeals, LoneInvNext, SharedInit, SharedNext, PTL DEF Spec

-----------------------------------------------------------------------------
(* The lifecycle the client promises *)

\* The session of an authenticated socket is the one opened on it, also while
\* the call that is about to close it is at its first step.
OwnSession == sock # None /\ authenticated => connId = sock

\* Every step keeps it.
LEMMA OwnSessionNext ==
  ASSUME NEW cli, Threads = {cli}, Shared, SoloInv, SoloInv', OwnSession,
         [Next]_vars
  PROVE  OwnSession'
<1> USE DEF OwnSession, Shared, SoloInv, TypeInv, TypeOK, ClientTypeOK
<1>1. CASE UNCHANGED <<sock, authenticated, connId>>
  BY <1>1
<1>2. CASE pc'[cli] # "cs_swap"
  <2>1. pc'[cli] \in Pcs
    BY TypeInvNext
  <2> QED
    BY <1>2, <2>1 DEF Sound, Coherent, Clear, ClosingPcs, ClosedPcs, HelloPcs,
       CommitPcs, RegisterPcs, RestPcs, Pcs, ReceivePcs, ReturnPcs
<1>3. CASE Call(cli)
  BY <1>1, <1>3 DEF Call, CallTeardown, CallLogin, CallConnect, CallRegister,
     CallRequest, object, session
<1>4. CASE Continue(cli)
  <2>1. CASE CloseSwap(cli) \/ CloseClear(cli) \/ ClearAgain(cli) \/ Store(cli)
    BY <1>2, <2>1 DEF CloseSwap, CloseClear, ClearAgain, Store, Goto, ReturnPcs
  <2>2. CASE NoToken(cli) \/ CommitHandshake(cli)
    BY <1>1, <1>2, <2>2 DEF NoToken, CommitHandshake, CloseThen, Goto, session
  <2> QED
    BY <1>1, <1>4, <2>1, <2>2
    DEF Continue, Return, CloseShut, LogoutCredential, ShutdownLogout, Send,
      SendOnly, SendFails, Receive, ReceiveFails, ReceiveTorn, ReceiveResync,
      Dial, DialFails, Hello, TrackHandshake, LeaseHandshake, RegisterGuard,
      RegisterBind, CheckRegister, TrackRegister, LeaseRegister,
      CheckReconnect, RequestBind, CheckResponse, object, session
<1>5. CASE UNCHANGED clientVars
  BY <1>1, <1>5 DEF clientVars, object, session
<1> QED BY <1>3, <1>4, <1>5 DEF Next, Terminated, vars

\* The lifecycle's variables.
Current == IF LeaseState = "DISCONNECTED" THEN None ELSE connId
Spent == {c \in Conns : /\ cEnd[c] # "unused"
                        /\ sock # c
                        /\ \A t \in Threads : pc[t] = "c_store" => held[t] # c}

\* A step that leaves the lifecycle's variables alone is no step of it.
LEMMA LifecycleRests ==
  ASSUME UNCHANGED credential, LeaseState' = LeaseState, Current' = Current,
         Spent' = Spent
  PROVE  UNCHANGED Lifecycle!vars
BY DEF Lifecycle!vars, Current, Spent

\* A connection is spent by what the client does with its socket alone.
LEMMA SpentSame ==
  ASSUME NEW cli, Threads = {cli}, UNCHANGED sock,
         pc[cli] # "c_store", pc'[cli] # "c_store",
         \A c \in Conns : cEnd'[c] = "unused" <=> cEnd[c] = "unused"
  PROVE  Spent' = Spent
BY DEF Spent

\* Only dialling uses a connection up.
LEMMA UsedUp ==
  ASSUME TypeInv, Told, NEW t \in Threads, Call(t) \/ Continue(t), ~Dial(t)
  PROVE  \A c \in Conns : cEnd'[c] = "unused" <=> cEnd[c] = "unused"
<1>1. CASE UNCHANGED cEnd
  BY <1>1
<1>2. ASSUME NEW s, NEW k, NEW h, Collected(s, k, h)
      PROVE  \A c \in Conns : cEnd'[c] = "unused" <=> cEnd[c] = "unused"
  BY <1>2 DEF Collected, ClientCloses
<1>3. CASE CloseShut(t)
  BY <1>3 DEF CloseShut, ClientCloses, Told, Dialled
<1>4. CASE Return(t) \/ Store(t) \/ LeaseHandshake(t) \/ RegisterBind(t)
  BY <1>1, <1>2, <1>4 DEF Return, Store, LeaseHandshake, RegisterBind
<1> QED
  BY <1>1, <1>3, <1>4
  DEF Call, Continue, CallTeardown, CallLogin, CallConnect, CallRegister,
      CallRequest, CloseSwap, CloseClear, ClearAgain, LogoutCredential,
      ShutdownLogout, Send, SendOnly, SendFails, Receive, ReceiveFails,
      ReceiveTorn, ReceiveResync, DialFails, Hello, CommitHandshake,
      TrackHandshake, NoToken, RegisterGuard, CheckRegister, TrackRegister,
      LeaseRegister, CheckReconnect, RequestBind, CheckResponse, link

\* Each step of the thread is a step of the lifecycle, or none of it.
LEMMA LifecycleClient ==
  ASSUME NEW cli, Threads = {cli}, Shared, SoloInv, OwnSession,
         Call(cli) \/ Continue(cli), UNCHANGED hostVars
  PROVE  Lifecycle!Next \/ UNCHANGED Lifecycle!vars
<1> USE DEF Shared, TypeInv, TypeOK, ClientTypeOK
<1>0. Sound(cli)
  BY DEF SoloInv
<1>1. ~Dial(cli) => \A c \in Conns : cEnd'[c] = "unused" <=> cEnd[c] = "unused"
  BY UsedUp
<1>2. ASSUME UNCHANGED <<credential, sock, authenticated, registered, connId>>,
             pc[cli] # "c_store", pc'[cli] # "c_store", ~Dial(cli)
      PROVE  UNCHANGED Lifecycle!vars
  BY <1>1, <1>2, LifecycleRests, SpentSame DEF LeaseState, Current
<1>3. ASSUME sock = None, sock' = None, UNCHANGED credential,
             pc[cli] # "c_store", pc'[cli] # "c_store", ~Dial(cli)
      PROVE  UNCHANGED Lifecycle!vars
  BY <1>1, <1>3, LifecycleRests, SpentSame DEF LeaseState, Current
<1>4. CASE CloseSwap(cli)
  <2>1. /\ sock' = None /\ UNCHANGED <<credential, cEnd>>
        /\ pc[cli] # "c_store" /\ pc'[cli] # "c_store"
    BY <1>4 DEF CloseSwap, link, Goto
  <2>2. LeaseState' = "DISCONNECTED" /\ Current' = None
    BY <2>1 DEF LeaseState, Current
  <2>3. CASE sock = None
    BY <1>3, <1>4, <2>1, <2>3 DEF Dial, CloseSwap
  <2>4. CASE sock # None
    <3>1. cEnd[sock] # "unused" /\ sock \in Conns
      BY <2>4 DEF Told, Dialled
    <3>2. Spent' = Spent \cup {sock}
      BY <2>1, <3>1, WireAssumption DEF Spent
    <3>3. CASE authenticated
      <4>1. Current = sock /\ connId = sock
        BY <2>4, <3>3 DEF Current, LeaseState, OwnSession
      <4> QED
        BY <2>1, <2>2, <2>4, <3>2, <4>1
        DEF Lifecycle!Next, Lifecycle!End, Current, Spent
    <3>4. CASE ~authenticated
      <4>1. Current = None /\ LeaseState = "DISCONNECTED"
        BY <3>4 DEF Current, LeaseState
      <4> QED
        BY <2>1, <2>2, <3>1, <3>2, <4>1
        DEF Lifecycle!Next, Lifecycle!Fail, Current, Spent
    <3> QED BY <3>3, <3>4
  <2> QED BY <2>3, <2>4
<1>5. CASE \/ CloseShut(cli) \/ CloseClear(cli) \/ ClearAgain(cli)
           \/ NoToken(cli)
  BY <1>0, <1>3, <1>5 DEF CloseShut, CloseClear, ClearAgain, NoToken, object,
     Goto, Dial, Sound, ClosingPcs, ClosedPcs, ReturnPcs
<1>6. CASE LogoutCredential(cli)
  <2>1. sock = None /\ credential' = None /\ UNCHANGED <<sock, session>>
    BY <1>0, <1>6 DEF LogoutCredential, Sound, ClosedPcs
  <2>2. Spent' = Spent
    BY <1>1, <1>6, SpentSame DEF LogoutCredential, Goto, Dial
  <2>3. LeaseState = "DISCONNECTED" /\ LeaseState' = "DISCONNECTED"
    BY <2>1 DEF LeaseState
  <2> QED
    BY <2>1, <2>2, <2>3
    DEF Lifecycle!Next, Lifecycle!LogOut, Current, Spent
<1>7. CASE CallLogin(cli)
  <2>1. credential' # None /\ UNCHANGED <<sock, session>>
    BY <1>7, WireAssumption DEF CallLogin
  <2>2. Spent' = Spent
    BY <1>1, <1>7, SpentSame DEF CallLogin, Enter, Finish, Goto, Dial
  <2>3. LeaseState' = LeaseState /\ Current' = Current
    BY <2>1 DEF LeaseState, Current, session
  <2> QED
    BY <2>1, <2>2, <2>3
    DEF Lifecycle!Next, Lifecycle!LogIn, Current, Spent
<1>8. CASE Dial(cli)
  <2>1. PICK d \in Conns : Open(d) /\ held' = [held EXCEPT ![cli] = d]
    BY <1>8 DEF Dial
  <2>2. /\ pc[cli] = "c_dial" /\ pc'[cli] = "c_store" /\ held'[cli] = d
        /\ UNCHANGED object
    BY <1>8, <2>1 DEF Dial, Goto
  <2>3. \A c \in Conns \ {d} : cEnd'[c] = cEnd[c]
    BY <2>1 DEF Open
  <2>4. Spent' = Spent
    BY <2>1, <2>2, <2>3 DEF Spent, Open, object
  <2> QED
    BY <2>2, <2>4, LifecycleRests DEF object, session, LeaseState, Current
<1>9. CASE Store(cli)
  <2>1. sock = None /\ ~authenticated /\ sock' = held[cli]
        /\ UNCHANGED <<credential, session, held>>
    BY <1>0, <1>9 DEF Store, Sound, ClosedPcs, Clear, locals
  <2>2. pc[cli] = "c_store" /\ pc'[cli] = "c_hello" /\ held[cli] \in Conns
    BY <1>9 DEF Store, Goto, LocalsOK, HeldPcs
  <2>3. Spent' = Spent
    BY <1>1, <1>9, <2>1, <2>2, WireAssumption DEF Spent, Dial
  <2> QED
    BY <2>1, <2>3, LifecycleRests DEF session, LeaseState, Current
<1>10. CASE CommitHandshake(cli)
  <2>1. /\ sock = held[cli] /\ ~authenticated /\ credential # None
        /\ held[cli] \in Conns /\ UNCHANGED <<sock, credential>>
        /\ pc[cli] = "c_check" /\ pc'[cli] # "c_store"
    BY <1>0, <1>10 DEF CommitHandshake, Sound, HelloPcs, Clear, Goto, CloseThen,
       LocalsOK, HeldPcs
  <2>2. Spent' = Spent /\ held[cli] \notin Spent
    BY <1>1, <2>1, SpentSame DEF Dial, Spent
  <2>3. CASE UNCHANGED session
    BY <1>2, <2>1, <2>3 DEF session, Dial
  <2>4. CASE FreshSession(held[cli])
    <3>1. LeaseState = "DISCONNECTED" /\ LeaseState' = "AUTHENTICATED"
      BY <2>1, <2>4, WireAssumption DEF LeaseState, FreshSession
    <3>2. Current' = held[cli]
      BY <2>4, <3>1 DEF Current, FreshSession
    <3> QED
      BY <2>1, <2>2, <3>1, <3>2
      DEF Lifecycle!Next, Lifecycle!Authenticate, Current, Spent
  <2> QED BY <1>10, <2>3, <2>4 DEF CommitHandshake
<1>11. CASE CheckRegister(cli)
  <2>1. /\ UNCHANGED <<credential, sock, connId, authenticated>>
        /\ pc[cli] = "r_check" /\ pc'[cli] # "c_store"
        /\ registered' = registered \/ registered' = TRUE
    BY <1>11 DEF CheckRegister, Finish, Goto
  <2>2. CASE registered' = registered
    BY <1>2, <2>1, <2>2 DEF Dial
  <2>3. CASE ~registered /\ registered' = TRUE
    <3>1. sock # None /\ authenticated
      <4>1. Confirms(resp[cli])
        BY <1>11, <2>3 DEF CheckRegister
      <4>2. held[cli] \in device /\ sock = held[cli]
        BY <1>0, <2>1, <4>1 DEF Confirms, Told, RespSays, Sound
      <4>3. sock # None
        BY <4>2, WireAssumption DEF HostTypeOK
      <4> QED
        BY <1>0, <2>1, <4>3 DEF Sound, RestPcs, RegisterPcs, Coherent
    <3>2. LeaseState = "AUTHENTICATED" /\ LeaseState' = "ONLINE"
      BY <2>1, <2>3, <3>1 DEF LeaseState
    <3>3. Spent' = Spent /\ Current' = Current
      BY <1>1, <2>1, <3>2, SpentSame DEF Dial, Current
    <3> QED
      BY <2>1, <3>2, <3>3
      DEF Lifecycle!Next, Lifecycle!GoOnline, Current, Spent
  <2> QED BY <2>1, <2>2, <2>3
<1>12. CASE CallTeardown(cli) \/ CallConnect(cli) \/ CallRegister(cli)
            \/ CallRequest(cli)
  <2>1. UNCHANGED object /\ pc[cli] = "idle"
    BY <1>12 DEF CallTeardown, CallConnect, CallRegister, CallRequest, Enter
  <2>2. pc'[cli] # "c_store"
    BY <1>12 DEF CallTeardown, CallConnect, CallRegister, CallRequest,
       CloseThen, Finish, Goto
  <2> QED
    BY <1>2, <2>1, <2>2 DEF Dial, object, session
<1>13. CASE \/ Return(cli) \/ ShutdownLogout(cli) \/ DialFails(cli)
            \/ Hello(cli) \/ TrackHandshake(cli) \/ LeaseHandshake(cli)
  BY <1>2, <1>13 DEF Return, ShutdownLogout, DialFails, Hello, TrackHandshake,
     LeaseHandshake, CloseThen, Finish, Goto, Dial, object, session
<1>14. CASE Send(cli) \/ SendOnly(cli) \/ Receive(cli)
  BY <1>2, <1>14 DEF Send, SendOnly, Receive, AfterSend, AfterReceive,
     ReceivePcs, Finish, Goto, Dial, object, session
<1>15. CASE \/ SendFails(cli) \/ ReceiveFails(cli) \/ ReceiveTorn(cli)
            \/ ReceiveResync(cli)
  <2>1. pc'[cli] # "c_store"
    BY <1>15, FailureMoves
    DEF SendFails, ReceiveFails, ReceiveTorn, ReceiveResync
  <2> QED
    BY <1>2, <1>15, <2>1 DEF SendFails, ReceiveFails, ReceiveTorn, ReceiveResync,
       ReceivePcs, Dial, object, session
<1>16. CASE RegisterBind(cli)
  <2>1. pc'[cli] # "c_store"
    BY <1>16, FailureMoves DEF RegisterBind, Goto
  <2> QED
    BY <1>2, <1>16, <2>1 DEF RegisterBind, Dial, session
<1>17. CASE \/ RegisterGuard(cli) \/ TrackRegister(cli) \/ LeaseRegister(cli)
            \/ CheckReconnect(cli) \/ RequestBind(cli) \/ CheckResponse(cli)
  BY <1>2, <1>17 DEF RegisterGuard, TrackRegister, LeaseRegister,
     CheckReconnect, RequestBind, CheckResponse, ConnectionLost, CloseThen,
     Finish, Goto, Dial, object, session
<1> QED
  BY <1>4, <1>5, <1>6, <1>7, <1>8, <1>9, <1>10, <1>11, <1>12, <1>13, <1>14,
     <1>15, <1>16, <1>17 DEF Call, Continue

\* A client that one thread uses keeps what SessionLifecycle promises, step by
\* step, whatever the host and the network do: a session is opened only while
\* logged in and never twice, goes online only once authenticated, and ends as
\* a whole (core_device_client.py:1-20, 361-370).
THEOREM LifecycleKept ==
  ASSUME NEW cli, Threads = {cli}
  PROVE  Spec => ImplementsLifecycle
<1>1. Init => OwnSession /\ Lifecycle!Init
  <2> SUFFICES ASSUME Init PROVE OwnSession /\ Lifecycle!Init
    OBVIOUS
  <2> QED
    BY DEF Init, WireInit, ClientInit, OwnSession, Lifecycle!Init, LeaseState
<1>2. Shared /\ SoloInv /\ OwnSession /\ [Next]_vars => SoloInv' /\ OwnSession'
  BY SoloNext, OwnSessionNext
<1>3. Shared /\ SoloInv /\ OwnSession /\ [Next]_vars
        => [Lifecycle!Next]_(Lifecycle!vars)
  <2> SUFFICES ASSUME Shared, SoloInv, OwnSession, [Next]_vars
               PROVE  Lifecycle!Next \/ UNCHANGED Lifecycle!vars
    OBVIOUS
  <2>1. CASE (Call(cli) \/ Continue(cli)) /\ UNCHANGED hostVars
    BY <2>1, LifecycleClient
  <2>2. CASE UNCHANGED <<clientVars, cEnd>>
    <3>1. Spent' = Spent
      BY <2>2 DEF Spent, clientVars, object, locals
    <3> QED
      BY <2>2, <3>1, LifecycleRests
      DEF LeaseState, Current, clientVars, object, session
  <2>3. CASE /\ UNCHANGED clientVars
             /\ Environment \/ \E c \in Conns : Handler(c)
    BY <2>2, <2>3 DEF Environment, Handler, Handshake, Register,
       ConfirmRegister, Answer, Route, Finalise, RelayIn, ForceClose, Stop
  <2> QED
    BY <2>1, <2>2, <2>3 DEF Next, Terminated, vars, link
<1> QED
  BY <1>1, <1>2, <1>3, SoloInit, SharedInit, SharedNext, PTL
  DEF Spec, ImplementsLifecycle, Lifecycle!Spec
=============================================================================
