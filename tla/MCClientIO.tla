----------------------------- MODULE MCClientIO -----------------------------
(***************************************************************************)
(* What the client reads and writes: the bytes of its socket, the timeout  *)
(* of the socket, and the remembered-device file.  The three share no      *)
(* state and no property speaks of two, so their interleavings are not of  *)
(* interest: a behaviour moves one of them, whichever, and only that one.  *)
(*                                                                         *)
(* The devices: two identities with texts of different lengths, one saved  *)
(* with two ports.                                                         *)
(***************************************************************************)
EXTENDS Framing, SocketTimeout, Remembered, TLC

CONSTANTS Mac, Pc

MCDevices == {[id |-> Mac, port |-> "p"], [id |-> Mac, port |-> "q"],
              [id |-> Pc, port |-> "p"]}
MCTextLength == [d \in MCDevices |-> IF d.id = Pc THEN 1 ELSE 2]
MCOverrides == [id : {Absent, Mac}, port : {Absent, "q"}]

\* Documents edited by hand, one for each check of load_remembered
\* and of the constructor.
Edited == {[Object(Mac, Mac, "p") EXCEPT !.isUTF8 = FALSE],
           Object(Mac, Mac, "unusable"), Object(Mac, Absent, "p"),
           Object(Mac, Pc, "p"), Object(Absent, Mac, "p"), Object(Mac, Mac, Absent),
           [Object(Mac, Mac, "p") EXCEPT !.usable = FALSE],
           [Object(Mac, Mac, "p") EXCEPT !.unknown = TRUE],
           [Object(Mac, Mac, "p") EXCEPT !.isObject = FALSE]}

Callers == Permutations(Threads)

VARIABLE part   \* the part that moves

IOVars == <<part, frVars, vars, fileVars>>

IOInit ==
  /\ part \in {"bytes", "timeout", "file"}
  /\ FrInit /\ TimeoutInit
  /\ RememberedInit /\ (part # "file" => file = Absent)

IONext ==
  \/ part = "bytes" /\ FrNext /\ UNCHANGED <<part, vars, fileVars>>
  \/ part = "timeout" /\ Next /\ UNCHANGED <<part, frVars, fileVars>>
  \/ part = "file" /\ FileNext /\ UNCHANGED <<part, frVars, vars>>

IOSpec == IOInit /\ [][IONext]_IOVars
=============================================================================
