-------------------------------- MODULE Wire --------------------------------
(***************************************************************************)
(* The transport between a CORE-CLIENT device and its C.O.R.E. host: a set *)
(* of stream connections, each carrying length-prefixed JSON frames in     *)
(* order in both directions.  A frame is atomic here: the loss of a frame  *)
(* boundary, which the client causes itself when a read times out halfway  *)
(* through one, is the flag torn.                                          *)
(*                                                                         *)
(* A host names a connection and its session token afresh at every         *)
(* handshake (uuid4, token_urlsafe), and a client handshakes once on a     *)
(* connection, so the connection itself stands for its connection_id, its  *)
(* session_token and its lease.  A request_id is a fresh uuid4: it is      *)
(* named by the call that drew it.                                         *)
(***************************************************************************)
EXTENDS Naturals, Sequences, FiniteSets

CONSTANTS
  Conns,            \* the connections that can ever be dialled
  Threads,          \* the threads that call into the client object
  Credentials,      \* provisioning credentials a user may type at login
  ValidCredential,  \* the one the host was provisioned with
  None              \* Python's None

ASSUME WireAssumption ==
  /\ ValidCredential \in Credentials
  /\ None \notin Conns \cup Threads \cup Credentials
  /\ None \notin Threads \X Nat
  /\ Conns \cap Credentials = {}

VARIABLES
  listening, \* the host accepts connections
  cEnd,     \* the client's end of each connection
  hEnd,     \* the host's end of each connection
  up,       \* frames on their way to the host
  down,     \* frames on their way to the client
  torn,     \* the client consumed part of a frame of this connection
  unclean   \* history: connections where a frame may be in flight down
            \* that no call waits for; no guard reads it

link == <<listening, cEnd, hEnd, up, down, torn, unclean>>

EndStates == {"unused", "open", "closed"}
RequestIds == Threads \X Nat
Secrets == Conns \cup Credentials \cup {None}

\* DISPATCH is send_to_device without a reply; REQUEST stands for every
\* message type request() carries.
UpTypes == {"CORE_HANDSHAKE", "DEVICE_REGISTER", "REQUEST", "DISPATCH"}
\* AUTHENTICATED and REJECTED are the two CORE_HANDSHAKE_RESPONSE payloads,
\* ERROR is DEVICE_ERROR or DATA_ERROR, RELAY a peer's forwarded message.
DownTypes == {"AUTHENTICATED", "REJECTED", "REGISTERED", "RESPONSE",
              "ERROR", "RELAY"}

\* _new_message and the host's _envelope, reduced to the fields that the
\* other side branches on.
Frame(type, rid, secret) == [type |-> type, rid |-> rid, secret |-> secret]

UpFrames == [type : UpTypes, rid : RequestIds \cup {None}, secret : Secrets]
DownFrames == [type : DownTypes, rid : RequestIds \cup {None},
               secret : Conns \cup {None}]

ASSUME FrameAssumption == None \notin UpFrames \cup DownFrames

WireInit ==
  /\ listening = TRUE
  /\ cEnd = [c \in Conns |-> "unused"]
  /\ hEnd = [c \in Conns |-> "unused"]
  /\ up = [c \in Conns |-> <<>>]
  /\ down = [c \in Conns |-> <<>>]
  /\ torn = [c \in Conns |-> FALSE]
  /\ unclean = {}

WireTypeOK ==
  /\ listening \in BOOLEAN
  /\ cEnd \in [Conns -> EndStates]
  /\ hEnd \in [Conns -> EndStates]
  /\ up \in [Conns -> Seq(UpFrames)]
  /\ down \in [Conns -> Seq(DownFrames)]
  /\ torn \in [Conns -> BOOLEAN]
  /\ unclean \subseteq Conns

\* TLS 1.2 or TCP alone: a new connection, accepted by the host.
Open(c) ==
  /\ listening
  /\ cEnd[c] = "unused"
  /\ cEnd' = [cEnd EXCEPT ![c] = "open"]
  /\ hEnd' = [hEnd EXCEPT ![c] = "open"]

\* sendall on an open socket: the frame is lost if the peer has closed.
SendUp(c, f) ==
  up' = IF hEnd[c] = "open" THEN [up EXCEPT ![c] = Append(@, f)] ELSE up

\* Closing an end discards what has arrived there and was not read.
ClientCloses(C) ==
  /\ cEnd' = [c \in Conns |-> IF c \in C THEN "closed" ELSE cEnd[c]]
  /\ down' = [c \in Conns |-> IF c \in C THEN <<>> ELSE down[c]]

HostCloses(C) ==
  /\ hEnd' = [c \in Conns |-> IF c \in C THEN "closed" ELSE hEnd[c]]
  /\ up' = [c \in Conns |-> IF c \in C THEN <<>> ELSE up[c]]

SendDown(c, f) ==
  down' = IF cEnd[c] = "open" THEN [down EXCEPT ![c] = Append(@, f)] ELSE down
=============================================================================
