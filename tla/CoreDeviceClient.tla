-------------------------- MODULE CoreDeviceClient --------------------------
(***************************************************************************)
(* client/core_device_client.py: one CoreDeviceClient object, shared by    *)
(* the threads of the process (the command loop and the portal's HTTP      *)
(* handler threads).                                                       *)
(*                                                                         *)
(* The only lock is _io_lock, held from a send to the end of the receive.  *)
(* A step of a thread runs to the next point where another thread can run  *)
(* with an effect on it: a blocking call, a lock, or a call into another   *)
(* method between two accesses to self.  Straight-line attribute stores    *)
(* (the assignments of _clear_session, `sock, self._sock = self._sock,     *)
(* None`) are one step: CPython switches threads at calls and backward     *)
(* jumps only.  Acquiring the lock and sending are one step, and so are    *)
(* the end of a receive and the release.                                   *)
(***************************************************************************)
EXTENDS Wire

CONSTANTS
  Menu,       \* Menu[t]: the calls thread t may make
  MaxCalls    \* MaxCalls[t]: bound on the number of calls of thread t

Ops == {"login", "connect", "register", "reconnect", "request",
        "bad_request", "send_to_device", "logout", "mark_disconnected",
        "close_socket", "shutdown"}

ASSUME ClientAssumption ==
  /\ Menu \in [Threads -> SUBSET Ops]
  /\ MaxCalls \in [Threads -> Nat]

VARIABLES
  \* attributes of the object
  credential,      \* _provisioning_credential
  sock,            \* _sock
  token,           \* _session_token
  connId,          \* _connection_id
  authenticated,   \* _authenticated
  registered,      \* _registered
  lease,           \* _lease_expires_at (and its two companions)
  ioLock,          \* holder of _io_lock
  \* each thread: where it is, in which call, and that call's locals
  pc, op, calls,
  ret,             \* where close_socket returns to
  closing,         \* close_socket's local sock
  held,            \* the socket a caller's local or argument refers to
  msg, resp,       \* the frame to send, the frame received
  oldId,           \* reconnect's old_id
  result,          \* how the call is about to end
  overlap          \* history: another call ran during this one

session == <<token, connId, authenticated, registered, lease>>
object == <<credential, sock, session, ioLock>>
inCall == <<op, calls, overlap>>
locals == <<closing, held, msg, resp, oldId>>
clientVars == <<object, pc, inCall, ret, result, locals>>

ReceivePcs == {"c_recv", "r_recv", "q_recv"}
ReturnPcs == {"return", "c_dial", "c_untoken", "l_clear", "o_close", "o_cred"}
Pcs == {"idle", "cs_swap", "cs_shut", "cs_clear",
        "c_store", "c_hello", "c_send", "c_check", "c_track", "c_lease",
        "r_guard", "r_send", "r_bind", "r_check", "r_track", "r_lease",
        "x_check", "q_bind", "q_send", "q_check", "d_send"}
       \cup ReceivePcs \cup ReturnPcs

\* What a caller sees: the call returned, raised DeviceClientError, or let
\* another exception through.
Results == {"none", "ok", "DeviceClientError", "raw"}

ClientTypeOK ==
  /\ credential \in Credentials \cup {None}
  /\ sock \in Conns \cup {None}
  /\ token \in Conns \cup {None}
  /\ connId \in Conns \cup {None}
  /\ authenticated \in BOOLEAN
  /\ registered \in BOOLEAN
  /\ lease \in Conns \cup {None}
  /\ ioLock \in Threads \cup {None}
  /\ pc \in [Threads -> Pcs]
  /\ op \in [Threads -> Ops \cup {"none"}]
  /\ calls \in [Threads -> Nat]
  /\ ret \in [Threads -> ReturnPcs]
  /\ closing \in [Threads -> Conns \cup {None}]
  /\ held \in [Threads -> Conns \cup {None}]
  /\ msg \in [Threads -> UpFrames \cup {None}]
  /\ resp \in [Threads -> DownFrames \cup {None}]
  /\ oldId \in [Threads -> Conns \cup {None}]
  /\ result \in [Threads -> Results]
  /\ overlap \in [Threads -> BOOLEAN]

\* __init__: nothing of a session survives from an earlier process.
ClientInit ==
  /\ credential = None
  /\ sock = None
  /\ token = None
  /\ connId = None
  /\ authenticated = FALSE
  /\ registered = FALSE
  /\ lease = None
  /\ ioLock = None
  /\ pc = [t \in Threads |-> "idle"]
  /\ op = [t \in Threads |-> "none"]
  /\ calls = [t \in Threads |-> 0]
  /\ ret = [t \in Threads |-> "return"]
  /\ closing = [t \in Threads |-> None]
  /\ held = [t \in Threads |-> None]
  /\ msg = [t \in Threads |-> None]
  /\ resp = [t \in Threads |-> None]
  /\ oldId = [t \in Threads |-> None]
  /\ result = [t \in Threads |-> "none"]
  /\ overlap = [t \in Threads |-> FALSE]

-----------------------------------------------------------------------------
(* Control *)

Goto(t, label) == pc' = [pc EXCEPT ![t] = label]

\* self.close_socket(), after which the thread goes on at label.
CloseThen(t, label) ==
  /\ Goto(t, "cs_swap")
  /\ ret' = [ret EXCEPT ![t] = label]

Finish(t, how) ==
  /\ Goto(t, "return")
  /\ result' = [result EXCEPT ![t] = how]
  /\ UNCHANGED ret

\* _connection_lost: mark_disconnected, then raise.
ConnectionLost(t) ==
  /\ CloseThen(t, "l_clear")
  /\ result' = [result EXCEPT ![t] = "DeviceClientError"]

\* Mutants of ClearSession, each with a reset missing.
ClearSessionKeepsLease ==
  /\ token' = None /\ authenticated' = FALSE /\ registered' = FALSE
  /\ connId' = None
  /\ UNCHANGED lease
ClearSessionKeepsAuth ==
  /\ token' = None /\ registered' = FALSE /\ connId' = None /\ lease' = None
  /\ UNCHANGED authenticated

\* _clear_session
ClearSession ==
  /\ token' = None
  /\ authenticated' = FALSE
  /\ registered' = FALSE
  /\ connId' = None
  /\ lease' = None

\* CPython closes a socket object when its last reference goes: s, k and h
\* are the references that remain.
Collected(s, k, h) ==
  ClientCloses({c \in Conns : /\ cEnd[c] = "open"
                              /\ s # c
                              /\ \A t \in Threads : k[t] # c /\ h[t] # c})

\* Entering a call: one of the calls of the thread's menu.
Enter(t, o) ==
  /\ pc[t] = "idle"
  /\ o \in Menu[t]
  /\ calls[t] < MaxCalls[t]
  /\ calls' = [calls EXCEPT ![t] = @ + 1]
  /\ op' = [op EXCEPT ![t] = o]
  /\ overlap' = [u \in Threads |->
                   IF u = t THEN \E v \in Threads : pc[v] # "idle"
                   ELSE overlap[u] \/ pc[u] # "idle"]

\* The call returns or raises: its locals go.
Return(t) ==
  /\ pc[t] = "return"
  /\ Goto(t, "idle")
  /\ op' = [op EXCEPT ![t] = "none"]
  /\ ret' = [ret EXCEPT ![t] = "return"]
  /\ held' = [held EXCEPT ![t] = None]
  /\ msg' = [msg EXCEPT ![t] = None]
  /\ resp' = [resp EXCEPT ![t] = None]
  /\ oldId' = [oldId EXCEPT ![t] = None]
  /\ result' = [result EXCEPT ![t] = "none"]
  /\ overlap' = [overlap EXCEPT ![t] = FALSE]
  /\ Collected(sock, closing, held')
  /\ UNCHANGED <<object, calls, closing, listening, hEnd, up, torn, unclean>>

-----------------------------------------------------------------------------
(* close_socket, mark_disconnected, logout, shutdown, login *)

\* sock, self._sock = self._sock, None
CloseSwap(t) ==
  /\ pc[t] = "cs_swap"
  /\ closing' = [closing EXCEPT ![t] = sock]
  /\ sock' = None
  /\ Goto(t, IF sock = None THEN "cs_clear" ELSE "cs_shut")
  /\ UNCHANGED <<credential, session, ioLock, inCall, ret, result,
                 held, msg, resp, oldId, link>>

\* sock.shutdown(); sock.close()
CloseShut(t) ==
  /\ pc[t] = "cs_shut"
  /\ ClientCloses({closing[t]})
  /\ closing' = [closing EXCEPT ![t] = None]
  /\ Goto(t, "cs_clear")
  /\ UNCHANGED <<object, inCall, ret, result, held, msg, resp, oldId,
                 listening, hEnd, up, torn, unclean>>

CloseClear(t) ==
  /\ pc[t] = "cs_clear"
  /\ ClearSession
  /\ Goto(t, ret[t])
  /\ UNCHANGED <<credential, sock, ioLock, inCall, ret, result, locals, link>>

\* The second _clear_session of mark_disconnected and logout.
ClearAgain(t) ==
  /\ pc[t] = "l_clear"
  /\ ClearSession
  /\ Goto(t, "return")
  /\ UNCHANGED <<credential, sock, ioLock, inCall, ret, result, locals, link>>

\* Mutant of LogoutCredential: the login survives.
LogoutKeepsCredential(t) ==
  /\ pc[t] = "o_cred"
  /\ Goto(t, "l_clear")
  /\ UNCHANGED <<credential, sock, session, ioLock, inCall, ret, result, locals,
                 link>>

\* logout, once close_socket has returned
LogoutCredential(t) ==
  /\ pc[t] = "o_cred"
  /\ credential' = None
  /\ Goto(t, "l_clear")
  /\ UNCHANGED <<sock, session, ioLock, inCall, ret, result, locals, link>>

\* shutdown: close_socket, then logout from its first line
ShutdownLogout(t) ==
  /\ pc[t] = "o_close"
  /\ CloseThen(t, "o_cred")
  /\ UNCHANGED <<object, inCall, result, locals, link>>

\* The four calls that tear the session down differ in what follows the
\* first close_socket.
AfterClose(o) == CASE o = "close_socket" -> "return"
                   [] o = "mark_disconnected" -> "l_clear"
                   [] o = "logout" -> "o_cred"
                   [] o = "shutdown" -> "o_close"

CallTeardown(t) ==
  \E o \in {"close_socket", "mark_disconnected", "logout", "shutdown"} :
    /\ Enter(t, o)
    /\ CloseThen(t, AfterClose(o))
    /\ result' = [result EXCEPT ![t] = "ok"]
    /\ UNCHANGED <<object, locals, link>>

\* An empty credential is refused, which changes nothing.
CallLogin(t) ==
  /\ Enter(t, "login")
  /\ credential' \in Credentials
  /\ Finish(t, "ok")
  /\ UNCHANGED <<sock, session, ioLock, locals, link>>

-----------------------------------------------------------------------------
(* Sending and receiving on a socket s, with _io_lock *)

\* Mutants of Acquire: no wait for the lock; the lock held for the send only.
AcquireNoWait(t) == ioLock' = t
AcquireForSend(t) == ioLock = None /\ UNCHANGED ioLock
\* Mutant of Release: the lock is not released.
ReleaseNever(t) == UNCHANGED ioLock

\* with self._io_lock:
Acquire(t) == ioLock = None /\ ioLock' = t
Release(t) == ioLock' = None

\* How sendall on s may fail: self._sock was None (AttributeError), s was
\* closed by another thread, or the host has gone.
SendErrors(s) ==
  IF s = None THEN {"io"}
  ELSE (IF cEnd[s] = "closed" THEN {"io", "reset"} ELSE {})
       \cup (IF hEnd[s] = "closed" THEN {"reset"} ELSE {})

\* How _recv_frame on s may fail: the socket timeout expires, or s was closed
\* under the reader ("io" is the EBADF of a read after the close), the host
\* closed it, or the stream is out of step.
RecvErrors(s) ==
  {"io"} \cup (IF s # None /\ cEnd[s] = "closed" THEN {"eof"} ELSE {})
         \cup (IF s # None /\ hEnd[s] = "closed" THEN {"eof", "reset"} ELSE {})
         \cup (IF s # None /\ torn[s] THEN {"framing"} ELSE {})

\* eof and framing are raised as DeviceClientError by the wire helpers;
\* _is_closure_error knows eof and reset.
IsClientError(e) == e \in {"eof", "framing"}
IsClosure(e) == e \in {"eof", "reset"}

\* What each call does with a failed send or receive.
IOFailure(t, e) ==
  \/ /\ pc[t] \in {"c_send", "c_recv"}
     /\ CloseThen(t, "return")
     /\ result' = [result EXCEPT ![t] =
                     IF IsClientError(e) THEN "DeviceClientError" ELSE "raw"]
  \/ /\ pc[t] \in {"r_send", "r_bind", "r_recv"}
     /\ IF IsClientError(e) \/ IsClosure(e) THEN ConnectionLost(t)
        ELSE Finish(t, "raw")
  \/ /\ pc[t] \in {"q_send", "q_recv"}
     /\ IF IsClientError(e) \/ IsClosure(e) THEN ConnectionLost(t)
        ELSE Finish(t, "DeviceClientError")
  \/ /\ pc[t] = "d_send"
     /\ IF IsClosure(e) THEN ConnectionLost(t)
        ELSE Finish(t, "DeviceClientError")

\* The socket a send goes to: connect and request use a local, register and
\* send_to_device read self._sock again once they hold the lock.
SendSocket(t) == IF pc[t] \in {"c_send", "q_send"} THEN held[t] ELSE sock

AfterSend(p) == CASE p = "c_send" -> "c_recv"
                  [] p = "r_send" -> "r_bind"
                  [] p = "q_send" -> "q_recv"

Send(t) ==
  LET s == SendSocket(t) IN
  /\ pc[t] \in {"c_send", "r_send", "q_send"}
  /\ op[t] # "bad_request"
  /\ Acquire(t)
  /\ s # None /\ cEnd[s] = "open"
  /\ SendUp(s, msg[t])
  /\ held' = [held EXCEPT ![t] = s]
  /\ Goto(t, AfterSend(pc[t]))
  /\ UNCHANGED <<credential, sock, session, inCall, ret, result, closing,
                 msg, resp, oldId, listening, cEnd, hEnd, down, torn, unclean>>

\* send_to_device: no receive follows, so a refusal by the host stays unread.
SendOnly(t) ==
  /\ pc[t] = "d_send"
  /\ ioLock = None
  /\ sock # None /\ cEnd[sock] = "open"
  /\ SendUp(sock, msg[t])
  /\ unclean' = unclean \cup {sock}
  /\ Finish(t, "ok")
  /\ UNCHANGED <<object, inCall, locals, listening, cEnd, hEnd, down, torn>>

\* A payload that does not serialise, or whose frame is too large, fails
\* like a framing error before a byte is written.
SendFails(t) ==
  /\ pc[t] \in {"c_send", "r_send", "q_send", "d_send"}
  /\ ioLock = None
  /\ \E e \in IF op[t] = "bad_request" THEN {"framing"}
             ELSE SendErrors(SendSocket(t)) :
       IOFailure(t, e)
  /\ UNCHANGED <<object, inCall, locals, link>>

AfterReceive(p) == CASE p = "c_recv" -> "c_check"
                     [] p = "r_recv" -> "r_check"
                     [] p = "q_recv" -> "q_check"

Receive(t) ==
  LET s == held[t] IN
  /\ pc[t] \in ReceivePcs
  /\ cEnd[s] = "open" /\ ~torn[s] /\ down[s] # <<>>
  /\ resp' = [resp EXCEPT ![t] = Head(down[s])]
  /\ down' = [down EXCEPT ![s] = Tail(@)]
  /\ Release(t)
  /\ Goto(t, AfterReceive(pc[t]))
  /\ UNCHANGED <<credential, sock, session, inCall, ret, result, closing,
                 held, msg, oldId, listening, cEnd, hEnd, up, torn, unclean>>

\* The answer that was not waited for may still come.
ReceiveFails(t) ==
  /\ pc[t] \in ReceivePcs
  /\ Release(t)
  /\ unclean' = unclean \cup {held[t]}
  /\ \E e \in RecvErrors(held[t]) : IOFailure(t, e)
  /\ UNCHANGED <<credential, sock, session, inCall, locals,
                 listening, cEnd, hEnd, up, down, torn>>

\* The timeout expires halfway through a frame: the bytes read are dropped
\* with _recv_exact's buffer and the stream has lost its place.
ReceiveTorn(t) ==
  LET s == held[t] IN
  /\ pc[t] \in ReceivePcs
  /\ cEnd[s] = "open" /\ ~torn[s] /\ down[s] # <<>>
  /\ torn' = [torn EXCEPT ![s] = TRUE]
  /\ unclean' = unclean \cup {s}
  /\ Release(t)
  /\ IOFailure(t, "io")
  /\ UNCHANGED <<credential, sock, session, inCall, locals,
                 listening, cEnd, hEnd, up, down>>

\* Out of step, a read takes what comes for a header and waits for a body of
\* that length: a timeout drops all it has read, and if that ended with the
\* last byte of a frame, the stream is in step again, without the frames lost.
ReceiveResync(t) ==
  LET s == held[t] IN
  /\ pc[t] \in ReceivePcs
  /\ cEnd[s] = "open" /\ torn[s]
  /\ \E k \in 1 .. Len(down[s]) :
       down' = [down EXCEPT ![s] = SubSeq(@, k + 1, Len(@))]
  /\ torn' = [torn EXCEPT ![s] = FALSE]
  /\ unclean' = unclean \cup {s}
  /\ Release(t)
  /\ IOFailure(t, "io")
  /\ UNCHANGED <<credential, sock, session, inCall, locals,
                 listening, cEnd, hEnd, up>>

-----------------------------------------------------------------------------
(* connect *)

\* The guard of connect, and for reconnect its own guard and old_id first.
CallConnect(t) ==
  \E o \in {"connect", "reconnect"} :
    /\ Enter(t, o)
    /\ IF credential = None
         THEN /\ Finish(t, "DeviceClientError")
              /\ UNCHANGED oldId
         ELSE /\ CloseThen(t, "c_dial")
              /\ oldId' = [oldId EXCEPT ![t] =
                             IF o = "reconnect" THEN connId ELSE None]
              /\ UNCHANGED result
    /\ UNCHANGED <<object, closing, held, msg, resp, link>>

\* create_connection and wrap_socket succeed.
Dial(t) ==
  /\ pc[t] = "c_dial"
  /\ \E c \in Conns :
       /\ Open(c)
       /\ held' = [held EXCEPT ![t] = c]
  /\ Goto(t, "c_store")
  /\ UNCHANGED <<object, inCall, ret, result, closing, msg, resp, oldId,
                 listening, up, down, torn, unclean>>

\* The host cannot be reached, or TLS fails: OSError and ssl.SSLError go
\* through, a protocol version below TLS 1.2 is a DeviceClientError.
DialFails(t) ==
  /\ pc[t] = "c_dial"
  /\ \E how \in {"raw", "DeviceClientError"} : Finish(t, how)
  /\ UNCHANGED <<object, inCall, locals, link>>

\* self._sock = sock: what another thread stored meanwhile loses a reference.
Store(t) ==
  /\ pc[t] = "c_store"
  /\ sock' = held[t]
  /\ Collected(sock', closing, held)
  /\ Goto(t, "c_hello")
  /\ UNCHANGED <<credential, session, ioLock, inCall, ret, result, locals,
                 listening, hEnd, up, torn, unclean>>

Hello(t) ==
  /\ pc[t] = "c_hello"
  /\ msg' = [msg EXCEPT ![t] = Frame("CORE_HANDSHAKE", None, credential)]
  /\ Goto(t, "c_send")
  /\ UNCHANGED <<object, inCall, ret, result, closing, held, resp, oldId, link>>

\* Mutant of FreshSession: the new connection_id is not stored.
FreshSessionNoId(c) ==
  /\ token' = None /\ authenticated' = TRUE /\ registered' = FALSE
  /\ lease' = None
  /\ UNCHANGED connId

\* The session state a handshake on connection c starts with.
FreshSession(c) ==
  /\ connId' = c
  /\ token' = None
  /\ authenticated' = TRUE
  /\ registered' = FALSE
  /\ lease' = None

\* The handshake response: a fresh session, or nothing at all.
CommitHandshake(t) ==
  /\ pc[t] = "c_check"
  /\ IF resp[t].type = "AUTHENTICATED"
       THEN /\ FreshSession(held[t])
            /\ Goto(t, "c_track")
            /\ UNCHANGED <<ret, result>>
       ELSE /\ CloseThen(t, "return")
            /\ result' = [result EXCEPT ![t] = "DeviceClientError"]
            /\ UNCHANGED session
  /\ UNCHANGED <<credential, sock, ioLock, inCall, locals, link>>

\* _track_session(payload), then `if not self._session_token`
TrackHandshake(t) ==
  /\ pc[t] = "c_track"
  /\ token' = IF resp[t].secret = None THEN token ELSE resp[t].secret
  /\ IF token' = None
       THEN /\ CloseThen(t, "c_untoken")
            /\ result' = [result EXCEPT ![t] = "DeviceClientError"]
       ELSE /\ Goto(t, "c_lease")
            /\ UNCHANGED <<ret, result>>
  /\ UNCHANGED <<credential, sock, connId, authenticated, registered, lease,
                 ioLock, inCall, locals, link>>

NoToken(t) ==
  /\ pc[t] = "c_untoken"
  /\ authenticated' = FALSE
  /\ Goto(t, "return")
  /\ UNCHANGED <<credential, sock, token, connId, registered, lease, ioLock,
                 inCall, ret, result, locals, link>>

\* _track_lease(payload); connect returns, and its local sock goes.
LeaseHandshake(t) ==
  /\ pc[t] = "c_lease"
  /\ lease' = resp[t].secret
  /\ IF op[t] = "reconnect"
       THEN /\ Goto(t, "r_guard")
            /\ held' = [held EXCEPT ![t] = None]
            /\ Collected(sock, closing, held')
            /\ UNCHANGED <<ret, result>>
       ELSE /\ Finish(t, "ok")
            /\ UNCHANGED <<held, cEnd, down>>
  /\ UNCHANGED <<credential, sock, token, connId, authenticated, registered,
                 ioLock, inCall, closing, msg, resp, oldId,
                 listening, hEnd, up, torn, unclean>>

-----------------------------------------------------------------------------
(* register, and the end of reconnect *)

CallRegister(t) ==
  /\ Enter(t, "register")
  /\ Goto(t, "r_guard")
  /\ UNCHANGED <<object, ret, result, locals, link>>

RegisterGuard(t) ==
  /\ pc[t] = "r_guard"
  /\ IF sock = None \/ ~authenticated \/ token = None
       THEN /\ Finish(t, "DeviceClientError")
            /\ UNCHANGED msg
       ELSE /\ msg' = [msg EXCEPT ![t] = Frame("DEVICE_REGISTER", None, token)]
            /\ Goto(t, "r_send")
            /\ UNCHANGED <<ret, result>>
  /\ UNCHANGED <<object, inCall, closing, held, resp, oldId, link>>

\* _recv_frame(self._sock): self._sock may have changed since the send.
RegisterBind(t) ==
  /\ pc[t] = "r_bind"
  /\ held' = [held EXCEPT ![t] = sock]
  /\ Collected(sock, closing, held')
  /\ unclean' = IF sock = held[t] THEN unclean ELSE unclean \cup {held[t]}
  /\ IF sock = None
       THEN /\ Release(t)
            /\ IOFailure(t, "io")
       ELSE /\ Goto(t, "r_recv")
            /\ UNCHANGED <<ioLock, ret, result>>
  /\ UNCHANGED <<credential, sock, session, inCall, closing, msg, resp,
                 oldId, listening, hEnd, up, torn>>

\* Mutant of Confirms: any answer will do.
ConfirmsAnything(f) == f # None

\* No correlation here: any DEVICE_REGISTER_RESPONSE confirms.
Confirms(f) == f.type = "REGISTERED"

CheckRegister(t) ==
  /\ pc[t] = "r_check"
  /\ IF Confirms(resp[t])
       THEN /\ registered' = TRUE
            /\ Goto(t, "r_track")
            /\ UNCHANGED <<ret, result>>
       ELSE /\ Finish(t, "DeviceClientError")
            /\ UNCHANGED registered
  /\ UNCHANGED <<credential, sock, token, connId, authenticated, lease, ioLock,
                 inCall, locals, link>>

TrackRegister(t) ==
  /\ pc[t] = "r_track"
  /\ token' = resp[t].secret
  /\ Goto(t, "r_lease")
  /\ UNCHANGED <<credential, sock, connId, authenticated, registered, lease,
                 ioLock, inCall, ret, result, locals, link>>

LeaseRegister(t) ==
  /\ pc[t] = "r_lease"
  /\ lease' = resp[t].secret
  /\ IF op[t] = "reconnect"
       THEN Goto(t, "x_check") /\ UNCHANGED <<ret, result>>
       ELSE Finish(t, "ok")
  /\ UNCHANGED <<credential, sock, token, connId, authenticated, registered,
                 ioLock, inCall, locals, link>>

\* A reconnect must have changed the connection_id.
CheckReconnect(t) ==
  /\ pc[t] = "x_check"
  /\ Finish(t, IF oldId[t] # None /\ connId = oldId[t]
                 THEN "DeviceClientError" ELSE "ok")
  /\ UNCHANGED <<object, inCall, locals, link>>

-----------------------------------------------------------------------------
(* request, send_to_device *)

\* Mutant of RequestType: the call's own name goes on the wire.
RequestTypeRaw(o) == o

RequestType(o) == IF o = "send_to_device" THEN "DISPATCH" ELSE "REQUEST"

\* The guard; the session token and a fresh request_id go into the message.
CallRequest(t) ==
  \E o \in {"request", "bad_request", "send_to_device"} :
    /\ Enter(t, o)
    /\ IF sock = None \/ ~registered
         THEN /\ Finish(t, "DeviceClientError")
              /\ UNCHANGED msg
         ELSE /\ msg' = [msg EXCEPT ![t] =
                            Frame(RequestType(o), <<t, calls'[t]>>, token)]
              /\ Goto(t, IF o = "send_to_device" THEN "d_send" ELSE "q_bind")
              /\ UNCHANGED <<ret, result>>
    /\ UNCHANGED <<object, closing, held, resp, oldId, link>>

\* sock = self._sock, before the wait for the lock
RequestBind(t) ==
  /\ pc[t] = "q_bind"
  /\ held' = [held EXCEPT ![t] = sock]
  /\ Goto(t, "q_send")
  /\ UNCHANGED <<object, inCall, ret, result, closing, msg, resp, oldId, link>>

\* A response that is not this request's is fatal to the session; an error
\* of the host is not.
CheckResponse(t) ==
  /\ pc[t] = "q_check"
  /\ IF resp[t].rid # msg[t].rid THEN ConnectionLost(t)
     ELSE Finish(t, IF resp[t].type = "ERROR" THEN "DeviceClientError"
                    ELSE "ok")
  /\ UNCHANGED <<object, inCall, locals, link>>

-----------------------------------------------------------------------------
Call(t) == CallTeardown(t) \/ CallLogin(t) \/ CallConnect(t) \/ CallRegister(t)
           \/ CallRequest(t)

\* The steps of a call that has begun: always enabled, but for the lock.
Continue(t) ==
  \/ Return(t)
  \/ CloseSwap(t) \/ CloseShut(t) \/ CloseClear(t) \/ ClearAgain(t)
  \/ LogoutCredential(t) \/ ShutdownLogout(t)
  \/ Send(t) \/ SendOnly(t) \/ SendFails(t)
  \/ Receive(t) \/ ReceiveFails(t) \/ ReceiveTorn(t)
  \/ ReceiveResync(t)
  \/ Dial(t) \/ DialFails(t) \/ Store(t) \/ Hello(t)
  \/ CommitHandshake(t) \/ TrackHandshake(t) \/ NoToken(t) \/ LeaseHandshake(t)
  \/ RegisterGuard(t) \/ RegisterBind(t) \/ CheckRegister(t)
  \/ TrackRegister(t) \/ LeaseRegister(t) \/ CheckReconnect(t)
  \/ RequestBind(t) \/ CheckResponse(t)

Idle == \A t \in Threads : pc[t] = "idle"

\* lease_state, without the clock: what the client says of itself.
LeaseState ==
  IF sock = None \/ ~authenticated THEN "DISCONNECTED"
  ELSE IF ~registered THEN "AUTHENTICATED" ELSE "ONLINE"
=============================================================================
