------------------------------ MODULE Remembered ------------------------------
(***************************************************************************)
(* The remembered-device file: save_remembered() of any number of          *)
(* processes on one path, dying or failing at any step, and what           *)
(* load_remembered() makes of the file at every moment.                    *)
(*                                                                         *)
(* write_text opens the file for writing, which empties it, and then       *)
(* writes the text with one write at the start of the file.  The text of   *)
(* a device is abstracted to TextLength[d] cells that carry its name: a    *)
(* file is the text of d when it consists of exactly the cells of d, and   *)
(* with cells of another device after it, or none at all, it is not JSON.  *)
(***************************************************************************)
EXTENDS Naturals, Sequences

CONSTANTS Savers,    \* processes that may call save_remembered
          Devices,   \* remembered states: records with the fields id and port
          TextLength, \* cells of the text of each device
          Foreign,   \* documents not written by this program, see Object
          Overrides, \* arguments of load_remembered: id and port, or Absent
          Absent

(* A client has an identity and a port that it dials; main takes the port  *)
(* of its arguments for a number before it passes it on.                   *)
ASSUME RememberedAssumption ==
    /\ TextLength \in [Devices -> Nat \ {0}]
    /\ \A d \in Devices : d.id # Absent /\ d.port \notin {Absent, "unusable"}
    /\ \A a \in Overrides : a.port # "unusable"
    /\ Absent \notin Devices \cup Savers \cup [cells : Seq(Devices)]

VARIABLES
    file,     \* Absent, [cells |-> ...] or [document |-> ...]
    saver,    \* "idle" or, after the file was opened, "write"
    device,   \* what each saver is saving
    alone,    \* history: the saver that opened the file with no other saving
    settled   \* history: the device of the last save, if it ran alone and ended

fileVars == <<file, saver, device, alone, settled>>

(* A document as far as load_remembered looks: it decodes, it is a JSON    *)
(* object, it has a key of no known name, the values it reads, and whether *)
(* the constructor can use the others: a join_name that is no string, or   *)
(* capabilities that are no list, raise where they are used.               *)
Object(id, identity, port) ==
    [isUTF8 |-> TRUE, isObject |-> TRUE, unknown |-> FALSE, usable |-> TRUE,
     id |-> id, identity |-> identity, port |-> port]

Saving == {s \in Savers : saver[s] = "write"}

RememberedInit ==
    /\ file \in {Absent} \cup {[document |-> x] : x \in Foreign}
    /\ saver = [s \in Savers |-> "idle"]
    /\ device = [s \in Savers |-> Absent]
    /\ alone = Absent
    /\ settled = Absent

----------------------------------------------------------------------------
(* Mutant: opened without being emptied.                                   *)
OpenFileKeeping(s, d) ==
    /\ saver[s] = "idle"
    /\ file' = IF file # Absent /\ "cells" \in DOMAIN file
               THEN file ELSE [cells |-> <<>>]
    /\ saver' = [saver EXCEPT ![s] = "write"]
    /\ device' = [device EXCEPT ![s] = d]
    /\ alone' = IF Saving = {} THEN s ELSE Absent
    /\ settled' = Absent

(* open(path, "w"): from here on the old text is gone.                     *)
OpenFile(s, d) ==
    /\ saver[s] = "idle"
    /\ file' = [cells |-> <<>>]
    /\ saver' = [saver EXCEPT ![s] = "write"]
    /\ device' = [device EXCEPT ![s] = d]
    /\ alone' = IF Saving = {} THEN s ELSE Absent
    /\ settled' = Absent

(* The write starts at the beginning of the file whatever another process  *)
(* has written there since.  The chmod after it cannot fail the save.      *)
WriteFile(s) ==
    /\ saver[s] = "write"
    /\ LET d == device[s]
           rest == SubSeq(file.cells, TextLength[d] + 1, Len(file.cells))
       IN file' = [cells |-> [i \in 1..TextLength[d] |-> d] \o rest]
    /\ saver' = [saver EXCEPT ![s] = "idle"]
    /\ device' = [device EXCEPT ![s] = Absent]
    /\ settled' = IF alone = s THEN device[s] ELSE Absent
    /\ UNCHANGED alone

(* The process dies, or the write fails: nothing of the text is written.   *)
Die(s) ==
    /\ saver[s] = "write"
    /\ saver' = [saver EXCEPT ![s] = "idle"]
    /\ device' = [device EXCEPT ![s] = Absent]
    /\ UNCHANGED <<file, alone, settled>>

FileNext == \E s \in Savers :
            \/ \E d \in Devices : OpenFile(s, d)
            \/ WriteFile(s)
            \/ Die(s)

RememberedSpec == RememberedInit /\ [][FileNext]_fileVars

----------------------------------------------------------------------------
ClientError == [raises |-> "DeviceClientError"]
(* ValueError, TypeError, AttributeError or OverflowError.                 *)
OtherError == [raises |-> "another"]

(* The devices whose text is the whole file.                               *)
Texts == {d \in Devices :
            /\ file # Absent /\ "cells" \in DOMAIN file
            /\ file.cells = [i \in 1..TextLength[d] |-> d]}

(* The argument wins over the file when it is given.                       *)
Overridden(argument, value) == IF argument = Absent THEN value ELSE argument

(* Mutant: the identity of the file is not compared.                       *)
AnyIdentity(identity, id) == identity = identity /\ id = id

SameIdentity(identity, id) == identity \in {Absent, id}

(* The checks, the constructor, and the comparison of the identities, on a *)
(* document and the arguments.  Only the constructor looks at the port,    *)
(* which int() must take, and at the values that describe the device.      *)
Build(x, argument) ==
    LET id   == Overridden(argument.id, x.id)
        port == Overridden(argument.port, x.port)
    IN  IF ~x.isObject \/ x.unknown \/ id = Absent \/ port = Absent THEN ClientError
        ELSE IF port = "unusable" \/ ~x.usable THEN OtherError
        ELSE IF ~SameIdentity(x.identity, id) THEN ClientError
        ELSE [id |-> id, port |-> port]

(* What load_remembered(device_file, **argument) does now.                 *)
Load(argument) ==
    IF file = Absent THEN ClientError
    ELSE IF "document" \in DOMAIN file
         THEN IF ~file.document.isUTF8 THEN OtherError
              ELSE Build(file.document, argument)
    ELSE IF Texts = {} THEN ClientError
    ELSE LET d == CHOOSE d \in Texts : TRUE
         IN  Build(Object(d.id, d.id, d.port), argument)

----------------------------------------------------------------------------
(* Whatever savers were interrupted and however they overlapped, a file    *)
(* that this program wrote loads as one saver's whole device under its     *)
(* own identity, or load_remembered raises the error that main reports:    *)
(* never a mixture, never another exception.  A file that was edited, or   *)
(* written over an edited one, never loads under a second identity.        *)
LoadsWholeOrRefuses ==
    \A a \in Overrides :
        \/ Load(a) = ClientError
        \/ \E d \in Texts : Load(a) = [id |-> d.id, port |-> Overridden(a.port, d.port)]
        \/ /\ file # Absent /\ "document" \in DOMAIN file
           /\ \/ Load(a) = OtherError
              \/ file.document.identity \in {Absent, Load(a).id}

(* A save that ran alone to its end is what the next launch loads, however *)
(* long the text it replaced and whatever crashed save came before it.     *)
SavedThenLoaded ==
    \A d \in Devices :
        settled = d => Load([id |-> Absent, port |-> Absent]) = [id |-> d.id, port |-> d.port]

(* "test_bad_remembered_values_are_client_errors"                          *)
(* (tests/test_audit_regressions.py:110): whatever is in the file,         *)
(* load_remembered returns a client or raises DeviceClientError, which     *)
(* main reports in a line.                                                 *)
BadValuesAreClientErrors == \A a \in Overrides : Load(a) # OtherError
=============================================================================
