--------------------------- MODULE ClientIOProofs ---------------------------
(***************************************************************************)
(* What the client reads and writes: for any number of callers, sockets    *)
(* and timeouts, that a request that has its socket to itself waits as it  *)
(* was told and leaves the socket as it found it; for any number of        *)
(* processes that save, and any devices, what a launch loads.              *)
(***************************************************************************)
EXTENDS SocketTimeout, Remembered, SequenceTheorems, TLAPS

-----------------------------------------------------------------------------
(* The timeout of a socket.  The two invariants of the run are not         *)
(* inductive without what a request on a socket of its own remembers.      *)

(* On a socket never shared there is one request at most, and the socket   *)
(* has the client's own timeout before it sets its own.                    *)
LoneCaller ==
    \A s \in Socks \ shared :
        /\ \A t, u \in Using(s) : t = u
        /\ Using(s) = {} => timeout[s] = Default
        /\ \A t \in Using(s) :
              /\ pc[t] \in {"look", "set"} => timeout[s] = Default
              /\ pc[t] \notin {"look", "set"} => timeout[s] = wait[t]
              /\ pc[t] # "look" => previous[t] = Default
              /\ under[t] \in {None, wait[t]}

(* A thread outside the exchange is not in a blocking call.                *)
NotBlocked == \A t \in Threads : pc[t] # "io" => under[t] = None

TimeoutInv == TimeoutTypeOK /\ NotBlocked /\ LoneCaller

(* The types hold before any request.                                      *)
LEMMA TimeoutTypeInit == TimeoutInit => TimeoutTypeOK /\ NotBlocked
BY TimeoutAssumption DEF TimeoutInit, TimeoutTypeOK, NotBlocked

(* Every step keeps them, given that only a blocked thread has a timeout.  *)
LEMMA TimeoutTypeStep ==
    TimeoutTypeOK /\ NotBlocked /\ [Next]_vars => TimeoutTypeOK' /\ NotBlocked'
<1> SUFFICES ASSUME TimeoutTypeOK, NotBlocked, [Next]_vars
             PROVE  TimeoutTypeOK' /\ NotBlocked'
    OBVIOUS
<1> USE TimeoutAssumption DEF TimeoutTypeOK, NotBlocked
<1>1. ASSUME NEW t \in Threads, NEW w \in Waits \cup {None}, CallRequest(t, w)
      PROVE  TimeoutTypeOK' /\ NotBlocked'
    BY <1>1 DEF CallRequest
<1>2. ASSUME NEW t \in Threads, Look(t) PROVE TimeoutTypeOK' /\ NotBlocked'
    BY <1>2 DEF Look
<1>3. ASSUME NEW t \in Threads, SetTimeout(t) PROVE TimeoutTypeOK' /\ NotBlocked'
    BY <1>3 DEF SetTimeout, locals
<1>4. ASSUME NEW t \in Threads, Acquire(t) PROVE TimeoutTypeOK' /\ NotBlocked'
    BY <1>4 DEF Acquire, locals
<1>5. ASSUME NEW t \in Threads, Block(t) PROVE TimeoutTypeOK' /\ NotBlocked'
    BY <1>5 DEF Block, locals
<1>6. ASSUME NEW t \in Threads, Finish(t) PROVE TimeoutTypeOK' /\ NotBlocked'
    BY <1>6 DEF Finish, locals
<1>7. ASSUME NEW t \in Threads, Restore(t) PROVE TimeoutTypeOK' /\ NotBlocked'
    BY <1>7 DEF Restore, locals
<1>8. CASE Renew
    BY <1>8 DEF Renew, locals
<1>9. CASE UNCHANGED vars
    BY <1>9 DEF vars
<1> QED BY <1>1, <1>2, <1>3, <1>4, <1>5, <1>6, <1>7, <1>8, <1>9 DEF Next

(* One step of a thread, on the socket it uses and on the others: only the *)
(* arrival of a second request can break LoneCaller, and it marks the      *)
(* socket as shared.                                                       *)
LEMMA LoneCallerStep ==
    TimeoutTypeOK /\ NotBlocked /\ LoneCaller /\ [Next]_vars => LoneCaller'
<1> SUFFICES ASSUME TimeoutTypeOK, NotBlocked, LoneCaller, [Next]_vars
             PROVE  LoneCaller'
    OBVIOUS
<1> USE TimeoutAssumption DEF TimeoutTypeOK, NotBlocked, LoneCaller, Using
<1>1. ASSUME NEW t \in Threads, NEW w \in Waits \cup {None}, CallRequest(t, w)
      PROVE  LoneCaller'
    BY <1>1 DEF CallRequest
<1>2. ASSUME NEW t \in Threads, Look(t) PROVE LoneCaller'
    BY <1>2 DEF Look
<1>3. ASSUME NEW t \in Threads, SetTimeout(t) PROVE LoneCaller'
    BY <1>3 DEF SetTimeout, locals
<1>4. ASSUME NEW t \in Threads, Acquire(t) PROVE LoneCaller'
    BY <1>4 DEF Acquire, locals
<1>5. ASSUME NEW t \in Threads, Block(t) PROVE LoneCaller'
    BY <1>5 DEF Block, locals
<1>6. ASSUME NEW t \in Threads, Finish(t) PROVE LoneCaller'
    BY <1>6 DEF Finish, locals
<1>7. ASSUME NEW t \in Threads, Restore(t) PROVE LoneCaller'
    BY <1>7 DEF Restore, locals
<1>8. CASE Renew
    BY <1>8 DEF Renew, locals
<1>9. CASE UNCHANGED vars
    BY <1>9 DEF vars
<1> QED BY <1>1, <1>2, <1>3, <1>4, <1>5, <1>6, <1>7, <1>8, <1>9 DEF Next

(* Every socket has a timeout that some caller or the client chose, and a  *)
(* request in its exchange has the lock (request, core_device_client.py:   *)
(* 793-820).                                                               *)
THEOREM TimeoutTypeCorrect == Spec => []TimeoutTypeOK
BY TimeoutTypeInit, TimeoutTypeStep, PTL DEF Spec

(* Two requests that overlap can mix up the timeout of their socket; one   *)
(* that has the socket to itself reads under its own timeout and leaves    *)
(* the client's default behind.                                            *)
THEOREM LoneRequestTimedHolds == Spec => []LoneRequestTimed
<1>1. TimeoutInit => TimeoutInv
    BY TimeoutTypeInit, TimeoutAssumption
    DEF TimeoutInv, TimeoutInit, LoneCaller, Using
<1>2. TimeoutInv /\ [Next]_vars => TimeoutInv'
    BY TimeoutTypeStep, LoneCallerStep DEF TimeoutInv
<1>3. TimeoutInv => LoneRequestTimed
    BY DEF TimeoutInv, LoneCaller, LoneRequestTimed, Using
<1> QED BY <1>1, <1>2, <1>3, PTL DEF Spec

-----------------------------------------------------------------------------
(* The remembered device *)

(* The text of a device.                                                   *)
Text(d) == [i \in 1..TextLength[d] |-> d]

FileTypes ==
    /\ saver \in [Savers -> {"idle", "write"}]
    /\ device \in [Savers -> Devices \cup {Absent}]
    /\ \A s \in Saving : device[s] \in Devices

(* The saver that opened the file with no other saving is still alone and  *)
(* has an empty file before it; what it wrote then stays as it is as long  *)
(* as settled says so.                                                     *)
FileInv ==
    /\ FileTypes
    /\ alone \in Savers /\ saver[alone] = "write" =>
          Saving = {alone} /\ file = [cells |-> <<>>]
    /\ settled # Absent =>
          Saving = {} /\ settled \in Devices /\ file = [cells |-> Text(settled)]

(* A text written at the start of an empty file is the file.               *)
LEMMA WholeText ==
    ASSUME NEW d \in Devices
    PROVE  Text(d) \o SubSeq(<<>>, TextLength[d] + 1, Len(<<>>)) = Text(d)
<1>1. TextLength[d] \in Nat /\ TextLength[d] # 0
    BY RememberedAssumption
<1>2. Text(d) \in Seq(Devices)
    BY <1>1 DEF Text
<1>3. SubSeq(<<>>, TextLength[d] + 1, Len(<<>>)) = <<>>
    BY <1>1
<1> QED BY <1>2, <1>3, ConcatEmptySeq

(* Only one device has a given text.                                       *)
LEMMA OneText ==
    ASSUME NEW d \in Devices, file = [cells |-> Text(d)]
    PROVE  Texts = {d}
<1>1. d \in Texts
    <2>1. TextLength[d] \in Nat
        BY RememberedAssumption
    <2>2. file \in [cells : Seq(Devices)]
        BY <2>1 DEF Text
    <2>3. file # Absent
        BY <2>2, RememberedAssumption
    <2> QED BY <2>3 DEF Texts, Text
<1>2. ASSUME NEW e \in Texts PROVE e = d
    <2>1. Text(e) = Text(d) /\ TextLength[e] \in Nat \ {0}
        BY <1>2, RememberedAssumption DEF Texts, Text
    <2>2. TextLength[d] \in Nat \ {0}
        BY RememberedAssumption
    <2>3. Text(e)[1] = e /\ Text(d)[1] = d
        BY <2>1, <2>2 DEF Text
    <2> QED BY <2>1, <2>3
<1> QED BY <1>1, <1>2

(* Before a launch there is no saver.                                      *)
LEMMA FileInvInit == RememberedInit => FileInv
BY RememberedAssumption DEF RememberedInit, FileInv, FileTypes, Saving

(* Every open, every write and every death of a saver keeps it.            *)
LEMMA FileInvStep == FileInv /\ [FileNext]_fileVars => FileInv'
<1> SUFFICES ASSUME FileInv, [FileNext]_fileVars PROVE FileInv'
    OBVIOUS
<1> USE RememberedAssumption DEF FileInv, FileTypes
<1>1. ASSUME NEW s \in Savers, NEW d \in Devices, OpenFile(s, d) PROVE FileInv'
    <2>1. Saving' = Saving \cup {s}
        BY <1>1 DEF OpenFile, Saving
    <2>2. FileTypes'
        BY <1>1, <2>1 DEF OpenFile, Saving
    <2> QED BY <1>1, <2>1, <2>2 DEF OpenFile
<1>2. ASSUME NEW s \in Savers, WriteFile(s) PROVE FileInv'
    <2>1. saver[s] = "write" /\ s \in Saving /\ device[s] \in Devices
        BY <1>2 DEF WriteFile, Saving
    <2>2. Saving' = Saving \ {s}
        BY <1>2, <2>1 DEF WriteFile, Saving
    <2>3. FileTypes'
        BY <1>2, <2>2 DEF WriteFile, Saving
    <2>4. CASE alone = s
        <3>1. Saving = {s} /\ file.cells = <<>>
            BY <2>1, <2>4
        <3>2. file' = [cells |-> Text(device[s])]
            BY <1>2, <2>1, <3>1, WholeText DEF WriteFile, Text
        <3>3. settled' = device[s] /\ Saving' = {} /\ saver'[s] = "idle"
            BY <1>2, <2>2, <2>4, <3>1 DEF WriteFile
        <3> QED BY <1>2, <2>1, <2>3, <2>4, <3>2, <3>3 DEF WriteFile
    <2>5. CASE alone # s
        <3>1. settled' = Absent /\ alone' = alone
            BY <1>2, <2>5 DEF WriteFile
        <3>2. ~(alone \in Savers /\ saver[alone] = "write")
            BY <2>1, <2>5
        <3>3. ~(alone' \in Savers /\ saver'[alone'] = "write")
            BY <1>2, <3>1, <3>2 DEF WriteFile
        <3> QED BY <2>3, <3>1, <3>3
    <2> QED BY <2>4, <2>5
<1>3. ASSUME NEW s \in Savers, Die(s) PROVE FileInv'
    <2>1. saver[s] = "write" /\ s \in Saving
        BY <1>3 DEF Die, Saving
    <2>2. Saving' = Saving \ {s}
        BY <1>3, <2>1 DEF Die, Saving
    <2>3. FileTypes'
        BY <1>3, <2>2 DEF Die, Saving
    <2>4. settled' = Absent
        BY <1>3, <2>1 DEF Die
    <2>5. ~(alone' \in Savers /\ saver'[alone'] = "write")
        BY <1>3, <2>1 DEF Die
    <2> QED BY <2>3, <2>4, <2>5
<1>4. CASE UNCHANGED fileVars
    BY <1>4 DEF fileVars, Saving, Text
<1> QED BY <1>1, <1>2, <1>3, <1>4 DEF FileNext

(* However the launches before it crashed, overlapped or failed, and       *)
(* whatever the file was before this program wrote it, load_remembered     *)
(* gives one saved device whole, refuses, or is given a document of        *)
(* somebody else's (core_device_client.py:266-330).                        *)
THEOREM LoadsWholeOrRefusesHolds == RememberedSpec => []LoadsWholeOrRefuses
<1>1. LoadsWholeOrRefuses
    <2> SUFFICES ASSUME NEW a \in Overrides
                 PROVE
          \/ Load(a) = ClientError
          \/ \E d \in Texts :
                Load(a) = [id |-> d.id, port |-> Overridden(a.port, d.port)]
          \/ /\ file # Absent /\ "document" \in DOMAIN file
             /\ \/ Load(a) = OtherError
                \/ file.document.identity \in {Absent, Load(a).id}
        BY DEF LoadsWholeOrRefuses
    <2>1. CASE file = Absent
        BY <2>1 DEF Load
    <2>2. CASE file # Absent /\ "document" \in DOMAIN file
        BY <2>2 DEF Load, Build, SameIdentity
    <2>3. CASE file # Absent /\ "document" \notin DOMAIN file /\ Texts = {}
        BY <2>3 DEF Load
    <2>4. CASE file # Absent /\ "document" \notin DOMAIN file /\ Texts # {}
        <3> DEFINE d == CHOOSE d \in Texts : TRUE
        <3>1. d \in Texts /\ d \in Devices
            BY <2>4 DEF Texts
        <3>2. Load(a) = Build(Object(d.id, d.id, d.port), a)
            BY <2>4 DEF Load
        <3>3. /\ d.id # Absent /\ d.port \notin {Absent, "unusable"}
              /\ a.port # "unusable"
            BY <3>1, RememberedAssumption
        <3>4. \/ Load(a) = ClientError
              \/ Load(a) = [id |-> d.id, port |-> Overridden(a.port, d.port)]
            BY <3>2, <3>3 DEF Build, Object, Overridden, SameIdentity
        <3> QED BY <3>1, <3>4
    <2> QED BY <2>1, <2>2, <2>3, <2>4
<1> QED BY <1>1, PTL

(* A save that ran alone to its end is what the next launch loads          *)
(* (save_remembered and load_remembered, core_device_client.py:266-330).   *)
THEOREM SavedThenLoadedHolds == RememberedSpec => []SavedThenLoaded
<1>1. FileInv => SavedThenLoaded
    <2> SUFFICES ASSUME FileInv, NEW d \in Devices, settled = d
                 PROVE  Load([id |-> Absent, port |-> Absent])
                          = [id |-> d.id, port |-> d.port]
        BY DEF SavedThenLoaded
    <2>1. file = [cells |-> Text(d)] /\ Texts = {d}
        BY OneText, RememberedAssumption DEF FileInv
    <2>2. file # Absent /\ "document" \notin DOMAIN file
        BY <2>1, RememberedAssumption DEF Texts
    <2>3. Load([id |-> Absent, port |-> Absent])
            = Build(Object(d.id, d.id, d.port), [id |-> Absent, port |-> Absent])
        BY <2>1, <2>2 DEF Load
    <2> QED
        BY <2>3, RememberedAssumption DEF Build, Object, Overridden, SameIdentity
<1> QED BY <1>1, FileInvInit, FileInvStep, PTL DEF RememberedSpec
=============================================================================
