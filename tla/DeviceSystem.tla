---------------------------- MODULE DeviceSystem ----------------------------
(***************************************************************************)
(* One device: the client object with its threads, the transport, and the  *)
(* host.  The properties are about what the two sides believe of the same  *)
(* session, and about what the threads of the client do to each other.     *)
(***************************************************************************)
EXTENDS CoreDeviceClient, CoreHost

vars == <<clientVars, hostVars, link>>

Init == WireInit /\ ClientInit /\ HostInit

\* Every thread has made its calls and every call has returned: the process
\* has nothing more to do.
Terminated ==
  /\ Idle
  /\ \A t \in Threads : calls[t] = MaxCalls[t]
  /\ UNCHANGED vars

Next ==
  \/ \E t \in Threads : (Call(t) \/ Continue(t)) /\ UNCHANGED hostVars
  \/ \E c \in Conns : Handler(c) /\ UNCHANGED clientVars
  \/ Environment /\ UNCHANGED clientVars
  \/ Terminated

Spec == Init /\ [][Next]_vars

TypeOK == WireTypeOK /\ ClientTypeOK /\ HostTypeOK

-----------------------------------------------------------------------------
(* The threads of the client *)

\* _io_lock is held by a thread exactly while it waits for an answer, so no
\* two threads read the same stream, and no answer is taken by a thread that
\* did not ask (core_device_client.py:247, "concurrent threads cannot
\* interleave frames").
IOExclusion ==
  \A t \in Threads : pc[t] \in ReceivePcs \cup {"r_bind"} <=> ioLock = t

\* The answer request() is about to compare is the answer to its own request,
\* unless something was left in flight on that connection before: a call that
\* gave up, a message sent without waiting, or a peer's relay.  So a healthy
\* connection is never dropped for a request_id mismatch, whatever the other
\* threads do.
MismatchOnlyAfterLoss ==
  \A t \in Threads :
    pc[t] = "q_check" /\ held[t] \notin unclean => resp[t].rid = msg[t].rid

\* The confirmation a registration goes on with is its own, for the session
\* token it sent and on the connection it sent it on, unless something was left
\* in flight there before: register() reads self._sock again for the receive
\* and compares no request_id (core_device_client.py:623-639), so only the lock
\* and the host's check of the token keep two registrations apart.
OwnConfirmation ==
  \A t \in Threads :
    pc[t] = "r_track" /\ held[t] \notin unclean =>
      msg[t].secret = held[t] /\ resp[t].secret = held[t]

\* A request is served only under the session token of the very connection it
\* was sent on: a thread that read self._session_token and self._sock around
\* another thread's reconnect is refused, never served in the wrong session.
ServedInOwnSession ==
  \A t \in Threads :
    /\ pc[t] = "q_check"
    /\ resp[t].type = "RESPONSE" /\ resp[t].rid = msg[t].rid
    => msg[t].secret = held[t] /\ held[t] \in device

\* Threads that reconnect at the same time can mix up the attributes of two
\* sessions, but not for good: a reconnect that no other call overlaps ends
\* with everything of one new session, or is not online.
LoneReconnectHeals ==
  \A t \in Threads :
    /\ pc[t] = "return" /\ op[t] = "reconnect"
    /\ ~overlap[t] /\ credential # None
    => IF result[t] = "ok"
        THEN /\ LeaseState = "ONLINE"
             /\ token = sock /\ connId = sock /\ lease = sock
        ELSE LeaseState # "ONLINE"

-----------------------------------------------------------------------------
(* The host's registry *)

\* A device is online in the registry exactly as long as the handler that
\* registered it has not finished: a stale handler that ends late never takes
\* the record of a newer connection with it, and no record outlives its
\* handler.
RegistryBacked ==
  /\ (status = "online") = (regConn # None)
  /\ devConn = regConn
  /\ regConn # None =>
       regConn \in identity /\ regConn \in device /\ hpc[regConn] # "finished"

-----------------------------------------------------------------------------
(* Both sides, when one thread at a time calls the client *)

\* Between calls the object is in one of four states: offline with nothing
\* left of a session, or with a socket, the token, the connection_id and the
\* lease that belong to it, authenticated, and registered or not.
SessionCoherent ==
  Idle =>
    /\ sock = None => token = None /\ connId = None /\ lease = None
                      /\ ~authenticated /\ ~registered
    /\ sock # None => token = sock /\ connId = sock /\ lease = sock
                      /\ authenticated /\ credential # None

\* A client that says ONLINE on a connection neither end of which is closed
\* is the device the host's registry lists as online, on that connection.
OnlineAgreement ==
  Idle /\ LeaseState = "ONLINE" /\ hEnd[sock] = "open" =>
    status = "online" /\ regConn = sock

-----------------------------------------------------------------------------
(* What the repository says and the code does not keep *)

\* "the host-issued session token is always discarded and never reused"
\* (close_socket, core_device_client.py:855-857): a client with no socket and
\* no call in progress has no session token.
TokenDiscarded == Idle /\ sock = None => token = None

\* "Full shutdown destroys the session; next launch requires login"
\* (core_device_client.py:19): a client that was logged out, with no call in
\* progress, has neither a connection nor a token.
ShutdownDestroysSession ==
  Idle /\ credential = None => sock = None /\ token = None

\* "Reconnect -> online, same IDs, same join_name, new connection_id"
\* (docs/lan-testing.md:72, and tests/test_lifecycle.py:90): with a valid
\* credential and a host that answers every call in time, no reconnect is
\* refused.
ReconnectAccepted ==
  \A t \in Threads :
    pc[t] = "r_check" /\ op[t] = "reconnect" /\ unclean = {} =>
      resp[t].type = "REGISTERED"

\* "Framing/encoding failures leave the stream desynced" (request,
\* core_device_client.py:808-810): request() gives a connection up before its
\* message was sent only if the stream is no longer usable.
DropOnlyIfDesynced ==
  [][\A t \in Threads :
       pc[t] = "q_send" /\ pc'[t] = "cs_swap" =>
         \/ held[t] = None
         \/ cEnd[held[t]] # "open" \/ hEnd[held[t]] # "open"
         \/ torn[held[t]] \/ held[t] \in unclean]_vars

-----------------------------------------------------------------------------
\* The client's state as SessionLifecycle sees it.  A connection is spent once
\* the client has let go of it, whether or not a session came of it.
Lifecycle == INSTANCE SessionLifecycle WITH
  Sessions <- Conns,
  NoSession <- None,
  loggedIn <- credential # None,
  state <- LeaseState,
  current <- IF LeaseState = "DISCONNECTED" THEN None ELSE connId,
  spent <- {c \in Conns : /\ cEnd[c] # "unused"
                         /\ sock # c
                         /\ \A t \in Threads : pc[t] = "c_store" => held[t] # c}

\* Every step of the client, of the host and of the network is a step of the
\* lifecycle the client promises, or changes nothing in it: a session is
\* opened only while logged in and never twice, goes online only once
\* authenticated, and ends as a whole (core_device_client.py:1-20, 361-370).
ImplementsLifecycle == Lifecycle!Spec
=============================================================================
