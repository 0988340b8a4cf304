------------------------------ MODULE CoreHost ------------------------------
(***************************************************************************)
(* The C.O.R.E. host as the client meets it: tests/fake_host.py, the       *)
(* in-process host of the test suite, which mirrors the external           *)
(* C.O.R.E.-HOST.  One handler thread per connection and a registry of     *)
(* devices under a lock; here the registry keeps the record of the one     *)
(* device whose client is modelled.  Its peers appear as the origin of     *)
(* relayed messages and as the targets of dispatched ones.                 *)
(***************************************************************************)
EXTENDS Wire

CONSTANTS
  MaxRelays,    \* bound on the messages peers relay to the device
  Tokenless,    \* whether the host may authenticate without a session token
  HostFaults    \* what may befall the host's side of a connection

ASSUME HostAssumption ==
  /\ MaxRelays \in Nat
  /\ Tokenless \in BOOLEAN
  /\ HostFaults \subseteq {"force_close", "stop"}

VARIABLES
  hpc,        \* where each connection's handler is
  identity,   \* connections whose handler authenticated its peer
  device,     \* connections whose handler registered the device
  status,     \* the device record: status
  regConn,    \* ... and connection_id
  devConn,    \* _device_conns[device_id]
  relays      \* how many messages peers have relayed

registry == <<status, regConn, devConn>>
hostVars == <<hpc, identity, device, registry, relays>>

HostTypeOK ==
  /\ hpc \in [Conns -> {"serving", "confirming", "finished"}]
  /\ identity \subseteq Conns
  /\ device \subseteq Conns
  /\ status \in {"absent", "online", "offline"}
  /\ regConn \in Conns \cup {None}
  /\ devConn \in Conns \cup {None}
  /\ relays \in 0 .. MaxRelays

HostInit ==
  /\ hpc = [c \in Conns |-> "serving"]
  /\ identity = {}
  /\ device = {}
  /\ status = "absent"
  /\ regConn = None
  /\ devConn = None
  /\ relays = 0

-----------------------------------------------------------------------------
\* The handler of c takes the next frame of the given type off its socket.
Takes(c, type) ==
  /\ hpc[c] = "serving"
  /\ hEnd[c] = "open" /\ listening
  /\ up[c] # <<>> /\ Head(up[c]).type = type
  /\ up' = [up EXCEPT ![c] = Tail(@)]

Replies(c, type, secret) == SendDown(c, Frame(type, Head(up[c]).rid, secret))

\* CORE_HANDSHAKE: a valid credential opens a session of its own.
Handshake(c) ==
  /\ Takes(c, "CORE_HANDSHAKE")
  /\ IF Head(up[c]).secret = ValidCredential
       THEN /\ identity' = identity \cup {c}
            /\ \E s \in {c} \cup (IF Tokenless THEN {None} ELSE {}) :
                 Replies(c, "AUTHENTICATED", s)
       ELSE /\ Replies(c, "REJECTED", None)
            /\ UNCHANGED identity
  /\ UNCHANGED <<hpc, device, registry, relays,
                 listening, cEnd, hEnd, torn, unclean>>

\* The device is online on another connection.
Duplicate(c) == status = "online" /\ regConn # c

\* DEVICE_REGISTER up to the registry update.  The confirmation is sent
\* after the registry lock is released.
Register(c) ==
  /\ Takes(c, "DEVICE_REGISTER")
  /\ IF \/ c \notin identity
        \/ Head(up[c]).secret # c
        \/ Duplicate(c)
       THEN /\ Replies(c, "ERROR", None)
            /\ UNCHANGED <<hpc, device, registry>>
       ELSE /\ status' = "online"
            /\ regConn' = c
            /\ devConn' = c
            /\ device' = device \cup {c}
            /\ hpc' = [hpc EXCEPT ![c] = "confirming"]
            /\ UNCHANGED down
  /\ UNCHANGED <<identity, relays, listening, cEnd, hEnd, torn, unclean>>

ConfirmRegister(c) ==
  /\ hpc[c] = "confirming"
  /\ hEnd[c] = "open"
  /\ hpc' = [hpc EXCEPT ![c] = "serving"]
  /\ SendDown(c, Frame("REGISTERED", None, c))
  /\ UNCHANGED <<identity, device, registry, relays,
                 listening, cEnd, hEnd, up, torn, unclean>>

\* Mutant of Registered: the session token is not compared.
RegisteredAnyToken(c) == c \in identity /\ c \in device

\* The checks every application message passes first.
Registered(c) == c \in identity /\ c \in device /\ Head(up[c]).secret = c

\* DEVICE_DISCOVER, DEVICE_INFO, DATA_REQUEST, SERVICE_REQUEST: one answer,
\* which echoes the request_id; a valid request may still be refused.
Answer(c) ==
  /\ Takes(c, "REQUEST")
  /\ \E type \in {"ERROR"} \cup (IF Registered(c) THEN {"RESPONSE"} ELSE {}) :
       Replies(c, type, None)
  /\ UNCHANGED <<hpc, identity, device, registry, relays,
                 listening, cEnd, hEnd, torn, unclean>>

\* Device-to-device routing: no answer on success.
Route(c) ==
  /\ Takes(c, "DISPATCH")
  /\ \/ Registered(c) /\ UNCHANGED down
     \/ Replies(c, "ERROR", None)
  /\ UNCHANGED <<hpc, identity, device, registry, relays,
                 listening, cEnd, hEnd, torn, unclean>>

\* A peer's handler forwards a message to the device's current connection.
RelayIn(c) ==
  /\ relays < MaxRelays /\ listening
  /\ devConn = c /\ status = "online" /\ hEnd[c] = "open"
  /\ relays' = relays + 1
  /\ SendDown(c, Frame("RELAY", None, None))
  /\ unclean' = unclean \cup {c}
  /\ UNCHANGED <<hpc, identity, device, registry,
                 listening, cEnd, hEnd, up, torn>>

\* Mutant of Broken: the peer's close goes unnoticed.
BrokenHere(c) == hEnd[c] = "closed"

\* The handler's read fails: its peer has closed, or its own end was closed.
Broken(c) == cEnd[c] = "closed" \/ hEnd[c] = "closed"

\* Mutant of OwnsRecord: the handler knows its device once it has confirmed.
OwnsConfirmedRecord(c) == c \in device /\ regConn = c /\ hpc[c] = "serving"

\* The record still carries the connection_id of this handler.
OwnsRecord(c) == c \in device /\ regConn = c

\* The handler's loop ends on a broken connection, and its
\* finally clause takes its own registration out of the registry.  Requests
\* not read yet may be lost: the client closed with answers unread (RST).
Finalise(c) ==
  /\ hpc[c] # "finished"
  /\ Broken(c)
  /\ hpc' = [hpc EXCEPT ![c] = "finished"]
  /\ IF OwnsRecord(c)
       THEN status' = "offline" /\ regConn' = None
       ELSE UNCHANGED <<status, regConn>>
  /\ devConn' = IF c \in device /\ devConn = c THEN None ELSE devConn
  /\ HostCloses({c})
  /\ UNCHANGED <<identity, device, relays,
                 listening, cEnd, down, torn, unclean>>

\* force_close: the lease expires, or an operator disconnects the device.
ForceClose ==
  /\ "force_close" \in HostFaults
  /\ devConn # None /\ hEnd[devConn] = "open"
  /\ HostCloses({devConn})
  /\ UNCHANGED <<hostVars, listening, cEnd, down, torn, unclean>>

Stop ==
  /\ "stop" \in HostFaults
  /\ listening
  /\ listening' = FALSE
  /\ HostCloses({c \in Conns : hEnd[c] = "open"})
  /\ UNCHANGED <<hpc, identity, device, registry, relays,
                 cEnd, down, torn, unclean>>

\* What the handler threads do without anything from outside.
Handler(c) ==
  \/ Handshake(c) \/ Register(c) \/ ConfirmRegister(c) \/ Answer(c) \/ Route(c)
  \/ Finalise(c)

Environment == ForceClose \/ Stop \/ \E c \in Conns : RelayIn(c)
=============================================================================
