------------------------------- MODULE Framing -------------------------------
(***************************************************************************)
(* The bytes below Wire: _send_frame, _recv_exact and _recv_frame of       *)
(* client/core_device_client.py on one direction of one connection.  A     *)
(* read takes any number of the bytes that have arrived, and may time out  *)
(* between any two of them.                                                *)
(*                                                                         *)
(* Byte <<f, i>> is the i-th byte of frame f.  Its value is a digit of the *)
(* length in the header, and Text in the body.  The constants scale the    *)
(* code's 4, 256 and 10 MiB down and keep what relates them: the first     *)
(* digit of a valid length is 0, and a length that starts with a byte of   *)
(* JSON text is too large.                                                 *)
(***************************************************************************)
EXTENDS Naturals, Sequences

CONSTANTS
  HeaderSize,  \* HEADER_SIZE
  Base,        \* the number of values of a byte
  Text,        \* the value of a byte of a body
  MaxFrame,    \* MAX_FRAME_SIZE
  Sizes,       \* the body sizes the host sends
  MaxFrames    \* bound on the frames it sends

\* What a digit of the header is worth that k others follow: Base ^ k.
Weight[k \in 0 .. HeaderSize] == IF k = 0 THEN 1 ELSE Base * Weight[k - 1]

ASSUME FramingAssumption ==
  /\ HeaderSize \in Nat \ {0, 1} /\ Base \in Nat \ {0, 1}
  /\ Text \in 1 .. Base - 1
  /\ MaxFrame \in 1 .. Weight[HeaderSize - 1] - 1
  /\ Sizes \subseteq 1 .. MaxFrame
  /\ MaxFrames \in Nat

VARIABLES
  sizes,   \* the body sizes of the frames sent so far
  stream,  \* bytes sent and not read
  header,  \* _recv_frame's header, once complete
  buf,     \* _recv_exact's buf
  state,   \* idle, reading, closed
  got      \* what _recv_frame returned

frVars == <<sizes, stream, header, buf, state, got>>

Body(f, n) == [i \in 1 .. n |-> <<f, HeaderSize + i>>]
FrameBytes(f, n) == [i \in 1 .. HeaderSize + n |-> <<f, i>>]

\* struct.pack("!I", n), digit by digit.
Value(b) ==
  IF b[2] > HeaderSize THEN Text
  ELSE (sizes[b[1]] \div Weight[HeaderSize - b[2]]) % Base

\* struct.unpack("!I", header): what the first i digits make, and all of them.
Parts(h) ==
  LET part[i \in 0 .. HeaderSize] ==
        IF i = 0 THEN 0 ELSE Base * part[i - 1] + Value(h[i])
  IN  part
Length(h) == Parts(h)[HeaderSize]

ValidLength(n) == 0 < n /\ n <= MaxFrame

IsWhole(b) == b = Body(b[1][1], sizes[b[1][1]])

\* Mutant of MayDecode: anything decodes.
MayDecodeAny(b) == b # <<>>

\* json.loads and the checks after it: a whole body is a message.  A buffer
\* with a header's control bytes in it is not, nor one that starts within the
\* first key of a body; a later part of one body may happen to be.
MayDecode(b) ==
  \/ IsWhole(b)
  \/ \A i \in DOMAIN b : b[i][1] = b[1][1] /\ b[i][2] > 2 * HeaderSize

FrInit ==
  /\ sizes = <<>> /\ stream = <<>> /\ header = <<>> /\ buf = <<>>
  /\ state = "idle" /\ got = <<>>

\* The host sends a frame: sendall(header + body).
SendFrame ==
  /\ Len(sizes) < MaxFrames
  /\ \E n \in Sizes :
       /\ sizes' = Append(sizes, n)
       /\ stream' = stream \o FrameBytes(Len(sizes'), n)
  /\ UNCHANGED <<header, buf, state, got>>

BeginRecv ==
  /\ state = "idle"
  /\ state' = "reading"
  /\ UNCHANGED <<sizes, stream, header, buf, got>>

\* How many bytes _recv_exact was asked for.
Wanted == IF header = <<>> THEN HeaderSize ELSE Length(header)

\* _recv_frame raised DeviceClientError, and the caller closes the socket.
Refuse ==
  /\ state' = "closed"
  /\ UNCHANGED <<header, got>>

HeaderDone(h) ==
  IF ValidLength(Length(h))
    THEN header' = h /\ buf' = <<>> /\ UNCHANGED <<state, got>>
    ELSE Refuse /\ buf' = h

BodyDone(b) ==
  \/ /\ MayDecode(b)
     /\ got' = Append(got, b)
     /\ header' = <<>> /\ buf' = <<>> /\ state' = "idle"
  \/ ~IsWhole(b) /\ Refuse /\ buf' = b

\* One sock.recv of the loop in _recv_exact.
RecvBytes ==
  /\ state = "reading"
  /\ \E k \in 1 .. Wanted - Len(buf) :
       /\ k <= Len(stream)
       /\ stream' = SubSeq(stream, k + 1, Len(stream))
       /\ LET b == buf \o SubSeq(stream, 1, k) IN
            IF Len(b) < Wanted THEN buf' = b /\ UNCHANGED <<header, state, got>>
            ELSE IF header = <<>> THEN HeaderDone(b) ELSE BodyDone(b)
  /\ UNCHANGED sizes

\* Mutants of TimeOut: the bytes of the header are kept, but not that they are
\* the header; the header is kept, but not what was read of the body.
TimeOutKeepsBuf ==
  /\ state = "reading" /\ state' = "idle"
  /\ header' = <<>>
  /\ UNCHANGED <<sizes, stream, buf, got>>
TimeOutKeepsHeader ==
  /\ state = "reading" /\ state' = "idle"
  /\ buf' = <<>>
  /\ UNCHANGED <<sizes, stream, header, got>>

\* socket.timeout leaves _recv_frame: its locals go, the connection stays.
TimeOut ==
  /\ state = "reading"
  /\ state' = "idle"
  /\ header' = <<>> /\ buf' = <<>>
  /\ UNCHANGED <<sizes, stream, got>>

Ended ==
  /\ state = "closed" \/ Len(sizes) = MaxFrames
  /\ UNCHANGED frVars

FrNext == SendFrame \/ BeginRecv \/ RecvBytes \/ TimeOut \/ Ended

FrSpec == FrInit /\ [][FrNext]_frVars

-----------------------------------------------------------------------------
FrTypeOK ==
  /\ sizes \in Seq(Sizes)
  /\ state \in {"idle", "reading", "closed"}
  /\ \A s \in {stream, header, buf} : \A i \in DOMAIN s :
       s[i][1] \in 1 .. Len(sizes) /\ s[i][2] \in 1 .. HeaderSize + sizes[s[i][1]]
  /\ Len(header) \in {0, HeaderSize} /\ Len(buf) <= Wanted

\* The bytes from the start of the read in progress.
Rest == header \o buf \o stream

InStep == Rest = <<>> \/ Rest[1][2] = 1

\* Out of step, the reader never takes part of one frame, or parts of several,
\* for a message: a length that is not too large was read at least partly in
\* a header, so what follows starts within a first key.
OnlyWholeFrames == \A i \in DOMAIN got : IsWhole(got[i])

\* What DeviceSystem assumes of a connection holds of the bytes: frames are
\* delivered in order, and lost only after a timeout within one.
Channel == INSTANCE FrameChannel WITH
  Frames <- 1 .. MaxFrames,
  queue <- IF Rest = <<>> THEN <<>>
           ELSE [i \in 1 .. Len(sizes) + 1 - Rest[1][1] |-> Rest[1][1] + i - 1],
  torn <- ~InStep,
  got <- [i \in DOMAIN got |-> got[i][1][1]],
  closed <- state = "closed"
ImplementsChannel == Channel!Spec

-----------------------------------------------------------------------------
\* "test_partial_frame_survives_read_timeout" (tests/test_audit_regressions.py:82):
\* a read that times out halfway through a frame loses nothing of it.
FrameSurvivesTimeout == InStep
=============================================================================
