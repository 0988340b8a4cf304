------------------------- MODULE PortalShownProofs -------------------------
(***************************************************************************)
(* What the portal shows: the summary of the session of a client that one  *)
(* thread uses, however its steps fall among the client's; the recent      *)
(* records; and the network, for any number of handlers and devices, any   *)
(* step of the rounding and any coordinates.                               *)
(***************************************************************************)
EXTENDS SoloProofs, SessionView, PortalRecent, PortalNetwork, FiniteSetTheorems

-----------------------------------------------------------------------------
(* The summary, read beside a client that one thread uses *)

Statuses == {"DISCONNECTED", "AUTHENTICATED", "ONLINE", "EXPIRING", "EXPIRED"}

Summaries == [remaining : Int \cup {None}, status : Statuses,
              connId : Conns \cup {None}, token : Conns \cup {None},
              lease : Conns \cup {None}]

ViewTypes ==
  /\ now \in Nat
  /\ reading \in {"remaining", "flags", "expiry", "rest"}
  /\ summary \in Summaries /\ displayed \in Summaries
  /\ disturbed \in BOOLEAN /\ alone \in BOOLEAN

\* The lease of connection c has no more left than was read of it in v.
Left(v, c) ==
  IF RemainingOf(c) = None THEN v.remaining = None
  ELSE v.remaining # None /\ RemainingOf(c) <= v.remaining

\* The status in v is one that c's lease has come to, or was in since v's
\* remaining lease was read.
Fits(v, c) ==
  /\ Left(v, c)
  /\ v.status \in {"ONLINE", "EXPIRING", "EXPIRED"}
  /\ v.remaining = None => v.status = "ONLINE"
  /\ v.status = "EXPIRED" => RemainingOf(c) <= 0
  /\ v.status = "EXPIRING" => RemainingOf(c) <= Soon /\ v.remaining > 0
  /\ v.status = "ONLINE" /\ v.remaining # None => v.remaining > Soon

\* While no call disturbs the reading, what has been read is still so.
ReadSoFar ==
  reading # "remaining" /\ ~disturbed =>
    /\ Idle
    /\ Left(summary, lease)
    /\ reading = "expiry" => LeaseState = "ONLINE"
    /\ reading = "rest" =>
         IF LeaseState = "ONLINE" THEN Fits(summary, lease)
         ELSE summary.status = LeaseState

\* What is displayed, if no call disturbed its reading, is of one session.
ShownFits ==
  alone =>
    IF displayed.status = "DISCONNECTED"
      THEN /\ displayed.connId = None /\ displayed.token = None
           /\ displayed.lease = None /\ displayed.remaining = None
      ELSE /\ displayed.connId # None
           /\ displayed.token = displayed.connId
           /\ displayed.lease = displayed.connId
           /\ displayed.status # "AUTHENTICATED" =>
                Fits(displayed, displayed.lease)

\* Connection c has been used, and will only be current while registered.
Past(t, c) ==
  /\ c \in Conns /\ cEnd[c] # "unused"
  /\ pc[t] \in {"c_store"} \cup HelloPcs \cup CommitPcs => held[t] # c
  /\ connId = c => registered

ShownPast ==
  alone /\ displayed.status \in {"ONLINE", "EXPIRING", "EXPIRED"} =>
    \A t \in Threads : Past(t, displayed.connId)

\* What is being read of the displayed session is not earlier than it.
Running ==
  /\ reading # "remaining" /\ ~disturbed
  /\ alone /\ displayed.connId # None /\ connId = displayed.connId
  => /\ displayed.status = "EXPIRING" => summary.remaining <= Soon
     /\ displayed.status = "EXPIRED" => summary.remaining <= 0

ViewInv == ViewTypes /\ ReadSoFar /\ ShownFits /\ ShownPast /\ Running

\* A lease has a time left, or none.
LEMMA RemainingTyped ==
  ASSUME ViewTypes, NEW c \in Conns \cup {None}
  PROVE  RemainingOf(c) \in Int \cup {None}
BY WireAssumption, ViewAssumption DEF ViewTypes, RemainingOf

\* From one look to the next, with no call in between, the client is as it was.
LEMMA IdleRests ==
  ASSUME TypeInv, Idle, Idle', [Next]_vars
  PROVE  UNCHANGED clientVars
<1>1. ASSUME NEW t \in Threads, Call(t) PROVE FALSE
  BY <1>1, CallOverlaps DEF Idle
<1>2. ASSUME NEW t \in Threads, Continue(t) PROVE pc[t] # "idle"
  BY <1>2
  DEF Continue, Return, CloseSwap, CloseShut, CloseClear, ClearAgain,
      LogoutCredential, ShutdownLogout, Send, SendOnly, SendFails, Receive,
      ReceiveFails, ReceiveTorn, ReceiveResync, Dial, DialFails, Store, Hello,
      CommitHandshake, TrackHandshake, NoToken, LeaseHandshake, RegisterGuard,
      RegisterBind, CheckRegister, TrackRegister, LeaseRegister,
      CheckReconnect, RequestBind, CheckResponse, ReceivePcs
<1> QED BY <1>1, <1>2 DEF Next, Idle, Terminated, vars

\* Once used, a connection is not dialled again, and is registered if current.
LEMMA PastStep ==
  ASSUME Shared, NEW t \in Threads, Sound(t), Call(t) \/ Continue(t), NEW c,
         Past(t, c)
  PROVE  Past(t, c)'
<1> USE DEF Shared, TypeInv, TypeOK, ClientTypeOK, Past, HelloPcs, CommitPcs
<1>1. cEnd'[c] # "unused"
  <2>1. CASE Dial(t)
    BY <2>1 DEF Dial, Open, WireTypeOK
  <2>2. CASE ~Dial(t)
    BY <2>2, UsedUp
  <2> QED BY <2>1, <2>2
<1>2. CASE Dial(t)
  <2>1. PICK d \in Conns : Open(d) /\ held' = [held EXCEPT ![t] = d]
    BY <1>2 DEF Dial
  <2>2. d # c
    BY <2>1 DEF Open
  <2> QED
    BY <1>1, <1>2, <2>1, <2>2 DEF Dial, object, session
<1>3. CASE CloseClear(t) \/ ClearAgain(t)
  <2>1. pc'[t] \notin {"c_store"} \cup HelloPcs \cup CommitPcs
    BY <1>3 DEF CloseClear, ClearAgain, Goto, ReturnPcs
  <2>2. connId' # c
    BY <1>3, WireAssumption DEF CloseClear, ClearAgain, ClearSession
  <2> QED BY <1>1, <2>1, <2>2
<1>4. CASE CommitHandshake(t)
  BY <1>1, <1>4 DEF CommitHandshake, FreshSession, Goto, CloseThen, session,
     locals
<1>5. CASE CheckRegister(t) \/ TrackRegister(t) \/ LeaseRegister(t)
  BY <1>1, <1>5 DEF CheckRegister, TrackRegister, LeaseRegister, Finish, Goto,
     locals
<1>6. CASE Store(t) \/ Hello(t) \/ Receive(t)
  BY <1>1, <1>6 DEF Store, Hello, Receive, AfterReceive, ReceivePcs, Goto,
     object, session, locals
<1>7. CASE TrackHandshake(t) \/ NoToken(t) \/ LeaseHandshake(t)
  BY <1>1, <1>7 DEF TrackHandshake, NoToken, LeaseHandshake, CloseThen, Finish,
     Goto, locals
<1>8. CASE \/ SendFails(t) \/ ReceiveFails(t) \/ ReceiveTorn(t)
           \/ ReceiveResync(t)
  <2>1. pc'[t] \notin {"c_store"} \cup HelloPcs \cup CommitPcs
    BY <1>8, FailureMoves
    DEF SendFails, ReceiveFails, ReceiveTorn, ReceiveResync
  <2> QED
    BY <1>1, <1>8, <2>1 DEF SendFails, ReceiveFails, ReceiveTorn,
       ReceiveResync, object, session
<1>9. CASE RegisterBind(t)
  BY <1>1, <1>9, FailureMoves DEF RegisterBind, Goto, session
<1>10. CASE Call(t)
  BY <1>1, <1>10 DEF Call, CallTeardown, CallLogin, CallConnect, CallRegister,
     CallRequest, Goto, Finish, CloseThen, object, session
<1>11. CASE \/ Return(t) \/ CloseSwap(t) \/ CloseShut(t)
            \/ LogoutCredential(t) \/ ShutdownLogout(t) \/ SendOnly(t)
            \/ DialFails(t)
  BY <1>1, <1>11 DEF Return, CloseSwap, CloseShut, LogoutCredential,
     ShutdownLogout, SendOnly, DialFails, Goto, Finish, CloseThen, object,
     session
<1>12. CASE \/ RegisterGuard(t) \/ CheckReconnect(t) \/ RequestBind(t)
            \/ CheckResponse(t)
  BY <1>1, <1>12 DEF RegisterGuard, CheckReconnect, RequestBind, CheckResponse,
     ConnectionLost, Goto, Finish, CloseThen, object, session
<1>13. CASE Send(t)
  BY <1>1, <1>13 DEF Send, SendSocket, AfterSend, Goto, session
<1> QED
  BY <1>2, <1>3, <1>4, <1>5, <1>6, <1>7, <1>8, <1>9, <1>10, <1>11, <1>12,
     <1>13 DEF Continue

\* The reader's own steps.
LEMMA ViewReads ==
  ASSUME NEW cli, Threads = {cli}, Shared, SoloInv, ViewInv,
         Summarize, UNCHANGED vars
  PROVE  ViewInv'
<1> USE DEF ViewInv, ViewTypes, Proceed
<1>1. /\ UNCHANGED <<lease, connId, token, sock, registered, cEnd, pc, held>>
      /\ Idle' = Idle /\ LeaseState' = LeaseState
      /\ \A c : Past(cli, c)' = Past(cli, c)
  BY DEF vars, clientVars, link, object, session, locals, Idle, LeaseState, Past
<1>2. /\ lease \in Conns \cup {None} /\ connId \in Conns \cup {None}
      /\ token \in Conns \cup {None}
  BY DEF Shared, TypeInv, TypeOK, ClientTypeOK
<1>3. RemainingOf(lease) \in Int \cup {None}
  BY <1>2, RemainingTyped
<1>4. now' = now
  BY DEF Summarize, ReadRemaining, ReadFlags, ReadExpiry, ReadRest
<1>5. \A c : RemainingOf(c)' = RemainingOf(c)
  BY <1>4 DEF RemainingOf
<1>6. LeaseState \in {"DISCONNECTED", "AUTHENTICATED", "ONLINE"}
  BY DEF LeaseState
<1>7. CASE ReadRemaining
  <2>1. /\ summary' = [remaining |-> RemainingOf(lease),
                       status |-> "DISCONNECTED", connId |-> None,
                       token |-> None, lease |-> None]
        /\ reading' = "flags" /\ disturbed' = ~Idle
        /\ UNCHANGED <<displayed, alone>>
    BY <1>7 DEF ReadRemaining, Blank
  <2>2. ViewTypes'
    BY <1>3, <1>4, <2>1 DEF Summaries, Statuses
  <2>3. ReadSoFar'
    <3>1. RemainingOf(lease)' = RemainingOf(lease)
      BY <1>1, <1>4 DEF RemainingOf
    <3>2. summary'.remaining = RemainingOf(lease)
      BY <2>1
    <3>3. Left(summary, lease)'
      BY <1>3, <3>1, <3>2, ViewAssumption DEF Left
    <3>4. reading' = "flags" /\ disturbed' = ~Idle
      BY <2>1
    <3> QED
      BY <1>1, <3>3, <3>4 DEF ReadSoFar
  <2>4. ShownFits' /\ ShownPast'
    BY <1>1, <1>5, <2>1 DEF ShownFits, ShownPast, Fits, Left
  <2>5. Running'
    <3> SUFFICES ASSUME Idle, alone, displayed.connId # None,
                        connId = displayed.connId
                 PROVE  /\ displayed.status = "EXPIRING" =>
                             RemainingOf(lease) <= Soon
                        /\ displayed.status = "EXPIRED" => RemainingOf(lease) <= 0
      BY <1>1, <2>1 DEF Running
    <3>1. lease = connId
      BY DEF Idle, SoloInv, Sound, RestPcs, Coherent, Clear
    <3> QED
      BY <3>1 DEF ShownFits, Fits
  <2> QED BY <2>2, <2>3, <2>4, <2>5
<1>8. CASE ReadFlags
  <2>1. /\ summary' = [summary EXCEPT !.status = LeaseState]
        /\ reading = "flags"
        /\ reading' = IF LeaseState = "ONLINE" THEN "expiry" ELSE "rest"
        /\ UNCHANGED <<displayed, disturbed, alone>>
    BY <1>8 DEF ReadFlags
  <2>2. ViewTypes' /\ summary'.remaining = summary.remaining
        /\ summary'.status = LeaseState
    BY <1>4, <1>6, <2>1 DEF Summaries, Statuses
  <2>3. ReadSoFar'
    <3>1. RemainingOf(lease)' = RemainingOf(lease)
      BY <1>1, <1>4 DEF RemainingOf
    <3> QED
      BY <1>1, <2>1, <2>2, <3>1 DEF ReadSoFar, Left
  <2>4. ShownFits' /\ ShownPast'
    BY <1>1, <1>5, <2>1 DEF ShownFits, ShownPast, Fits, Left
  <2>5. Running'
    BY <1>1, <2>1, <2>2 DEF Running
  <2> QED BY <2>2, <2>3, <2>4, <2>5
<1>9. CASE ReadExpiry
  <2> DEFINE left == RemainingOf(lease)
  <2>1. /\ summary' = [summary EXCEPT !.status = StatusOf(left)]
        /\ reading = "expiry" /\ reading' = "rest"
        /\ UNCHANGED <<displayed, disturbed, alone>>
    BY <1>9 DEF ReadExpiry
  <2>2. /\ left = None => StatusOf(left) = "ONLINE"
        /\ left # None => left \in Int
        /\ left # None /\ left <= 0 => StatusOf(left) = "EXPIRED"
        /\ left # None /\ left > 0 /\ left <= Soon => StatusOf(left) = "EXPIRING"
        /\ left # None /\ left > 0 /\ left > Soon => StatusOf(left) = "ONLINE"
    BY <1>3, ViewAssumption DEF StatusOf
  <2>3. StatusOf(left) \in {"ONLINE", "EXPIRING", "EXPIRED"}
    BY <2>2, ViewAssumption
  <2> HIDE DEF left
  <2>4. ViewTypes' /\ summary'.remaining = summary.remaining
        /\ summary'.status = StatusOf(left)
    BY <1>4, <2>1, <2>3 DEF Summaries, Statuses
  <2>5. ReadSoFar'
    <3> SUFFICES ASSUME ~disturbed
                 PROVE  Idle /\ LeaseState = "ONLINE" /\ Fits(summary', lease)
      <4>1. Fits(summary, lease)' = Fits(summary', lease)
        BY <1>1, <1>4 DEF Fits, Left, RemainingOf
      <4> QED
        BY <1>1, <2>1, <4>1 DEF ReadSoFar, Fits
    <3>1. Idle /\ LeaseState = "ONLINE" /\ Left(summary, lease)
      BY <2>1 DEF ReadSoFar
    <3>2. Left(summary', lease)
      BY <2>4, <3>1 DEF Left
    <3>3. summary.remaining \in Int \cup {None}
      BY DEF Summaries
    <3> QED
      BY <2>2, <2>3, <2>4, <3>1, <3>2, <3>3, ViewAssumption
      DEF Fits, Left, left
  <2>6. ShownFits' /\ ShownPast'
    BY <1>1, <1>5, <2>1 DEF ShownFits, ShownPast, Fits, Left
  <2>7. Running'
    BY <1>1, <2>1, <2>4 DEF Running
  <2> QED BY <2>4, <2>5, <2>6, <2>7
<1>10. CASE ReadRest
  <2>1. /\ displayed' = [summary EXCEPT !.connId = connId, !.token = token,
                                        !.lease = lease]
        /\ reading = "rest" /\ reading' = "remaining"
        /\ alone' = ~disturbed /\ summary' = Blank /\ disturbed' = FALSE
    BY <1>10 DEF ReadRest
  <2>2. Blank \in Summaries
    BY DEF Blank, Summaries, Statuses
  <2>3. /\ displayed' \in Summaries
        /\ displayed'.remaining = summary.remaining
        /\ displayed'.status = summary.status
        /\ displayed'.connId = connId /\ displayed'.token = token
        /\ displayed'.lease = lease
    BY <1>2, <2>1 DEF Summaries
  <2>4. ViewTypes'
    BY <1>4, <2>1, <2>2, <2>3
  <2>5. ReadSoFar' /\ Running'
    BY <2>1 DEF ReadSoFar, Running
  <2> SUFFICES ASSUME ~disturbed PROVE ShownFits' /\ ShownPast'
    BY <2>1, <2>4, <2>5 DEF ShownFits, ShownPast
  <2>6. /\ Idle /\ Left(summary, lease)
        /\ IF LeaseState = "ONLINE" THEN Fits(summary, lease)
           ELSE summary.status = LeaseState
    BY <2>1 DEF ReadSoFar
  <2>7. Coherent
    BY <2>6 DEF Idle, SoloInv, Sound, RestPcs
  <2>8. ShownFits'
    <3>1. CASE sock = None
      <4>1. summary.status = "DISCONNECTED" /\ summary.remaining = None
        BY <2>6, <2>7, <3>1 DEF LeaseState, Coherent, Clear, Left, RemainingOf
      <4> QED
        BY <2>3, <2>7, <3>1, <4>1 DEF ShownFits, Coherent, Clear
    <3>2. CASE sock # None
      <4>1. /\ connId # None /\ token = connId /\ lease = connId
            /\ summary.status # "DISCONNECTED"
            /\ LeaseState = "ONLINE" \/ LeaseState = "AUTHENTICATED"
        BY <2>6, <2>7, <3>2 DEF LeaseState, Coherent, Fits
      <4>2. summary.status # "AUTHENTICATED" => Fits(summary, lease)
        BY <2>6, <4>1
      <4>3. Fits(displayed, displayed.lease)' = Fits(summary, lease)
        BY <1>4, <2>3 DEF Fits, Left, RemainingOf
      <4> QED
        BY <2>3, <4>1, <4>2, <4>3 DEF ShownFits
    <3> QED BY <3>1, <3>2
  <2>9. ShownPast'
    <3> SUFFICES ASSUME displayed'.status \in {"ONLINE", "EXPIRING", "EXPIRED"}
                 PROVE  Past(cli, connId)
      BY <1>1, <2>3 DEF ShownPast, Past
    <3>1. LeaseState = "ONLINE"
      BY <2>3, <2>6 DEF LeaseState
    <3>2. connId = sock /\ sock \in Conns /\ registered
      BY <1>2, <2>7, <3>1 DEF LeaseState, Coherent, Shared, TypeInv, TypeOK,
         ClientTypeOK
    <3> QED
      BY <2>6, <3>2 DEF Past, Shared, Told, Dialled, Idle, HelloPcs, CommitPcs
  <2> QED BY <2>8, <2>9
<1> QED
  BY <1>7, <1>8, <1>9, <1>10 DEF Summarize

\* The clock only shortens what a lease has left.
LEMMA ViewTicks ==
  ASSUME ViewInv, TypeInv, Tick, UNCHANGED vars
  PROVE  ViewInv'
<1> USE DEF ViewInv, ViewTypes
<1>1. /\ UNCHANGED <<reading, summary, displayed, disturbed, alone>>
      /\ now' = now + 1
  BY DEF Tick
<1>2. /\ UNCHANGED <<lease, connId>>
      /\ Idle' = Idle /\ LeaseState' = LeaseState
      /\ \A t, c : Past(t, c)' = Past(t, c)
  BY DEF vars, clientVars, link, object, session, locals, Idle, LeaseState, Past
<1>3. ASSUME NEW c \in Conns \cup {None}
      PROVE  \/ RemainingOf(c) = None /\ RemainingOf(c)' = None
             \/ /\ RemainingOf(c) \in Int /\ RemainingOf(c)' \in Int
                /\ RemainingOf(c)' <= RemainingOf(c)
                /\ RemainingOf(c) # None /\ RemainingOf(c)' # None
  BY <1>1, <1>3, WireAssumption, ViewAssumption DEF RemainingOf
<1>4. ASSUME NEW v \in Summaries, NEW c \in Conns \cup {None}
      PROVE  /\ Left(v, c) => Left(v, c)'
             /\ Fits(v, c) => Fits(v, c)'
  <2>1. v.remaining \in Int \cup {None}
    BY DEF Summaries
  <2> QED
    BY <1>3, <2>1, ViewAssumption DEF Left, Fits
<1>5. lease \in Conns \cup {None} /\ displayed.lease \in Conns \cup {None}
  BY DEF TypeInv, TypeOK, ClientTypeOK, Summaries
<1>6. ReadSoFar'
  <2>1. /\ Left(summary, lease) => Left(summary, lease)'
        /\ Fits(summary, lease) => Fits(summary, lease)'
    BY <1>1, <1>2, <1>4, <1>5 DEF Left, Fits, RemainingOf
  <2> QED BY <1>1, <1>2, <2>1 DEF ReadSoFar
<1>7. ShownFits'
  <2>1. Fits(displayed, displayed.lease) => Fits(displayed, displayed.lease)'
    BY <1>1, <1>4, <1>5 DEF Left, Fits, RemainingOf
  <2> QED BY <1>1, <2>1 DEF ShownFits
<1>8. ShownPast' /\ Running'
  BY <1>1, <1>2 DEF ShownPast, Running
<1> QED BY <1>1, <1>6, <1>7, <1>8

\* A call disturbs the reading; what was displayed stays true beside it.
LEMMA ViewBeside ==
  ASSUME NEW cli, Threads = {cli}, Shared, SoloInv, ViewInv, SystemStep
  PROVE  ViewInv'
<1> USE DEF ViewInv, ViewTypes
<1>1. /\ UNCHANGED <<now, reading, summary, displayed, alone>>
      /\ disturbed' = (disturbed \/ (reading # "remaining" /\ ~Idle'))
      /\ Next
  BY DEF SystemStep
<1>2. ViewTypes'
  BY <1>1
<1>3. ASSUME reading # "remaining", ~disturbed'
      PROVE  /\ UNCHANGED <<lease, connId>> /\ ~disturbed
             /\ Idle' /\ LeaseState' = LeaseState
  <2>1. ~disturbed /\ Idle'
    BY <1>1, <1>3
  <2>2. Idle
    BY <1>3, <2>1 DEF ReadSoFar
  <2>3. UNCHANGED clientVars
    BY <1>1, <2>1, <2>2, IdleRests DEF Shared
  <2> QED
    BY <2>1, <2>3 DEF clientVars, object, session, LeaseState
<1>4. ReadSoFar'
  <2> SUFFICES ASSUME reading # "remaining", ~disturbed' PROVE ReadSoFar'
    BY <1>1 DEF ReadSoFar
  <2>1. /\ Left(summary, lease)' = Left(summary, lease)
        /\ Fits(summary, lease)' = Fits(summary, lease)
    BY <1>1, <1>3 DEF Left, Fits, RemainingOf
  <2> QED BY <1>1, <1>3, <2>1 DEF ReadSoFar
<1>5. ShownFits'
  <2>1. Fits(displayed, displayed.lease)' = Fits(displayed, displayed.lease)
    BY <1>1 DEF Left, Fits, RemainingOf
  <2> QED BY <1>1, <2>1 DEF ShownFits
<1>6. ShownPast'
  <2> SUFFICES ASSUME NEW c, Past(cli, c) PROVE Past(cli, c)'
    BY <1>1 DEF ShownPast
  <2>1. CASE UNCHANGED <<clientVars, cEnd>>
    BY <2>1 DEF Past, clientVars, object, session, locals
  <2>2. CASE Call(cli) \/ Continue(cli)
    BY <2>2, PastStep DEF SoloInv
  <2>3. CASE /\ UNCHANGED clientVars
             /\ Environment \/ \E d \in Conns : Handler(d)
    BY <2>1, <2>3 DEF Environment, Handler, Handshake, Register,
       ConfirmRegister, Answer, Route, Finalise, RelayIn, ForceClose, Stop
  <2> QED
    BY <1>1, <2>1, <2>2, <2>3 DEF Next, Terminated, vars, link
<1>7. Running'
  BY <1>1, <1>3 DEF Running
<1> QED BY <1>2, <1>4, <1>5, <1>6, <1>7

\* A portal starts with nothing shown.
LEMMA ViewInvInit == Init /\ ViewInit => ViewInv
<1> SUFFICES ASSUME ViewInit PROVE ViewInv
  OBVIOUS
<1>1. Blank \in Summaries /\ Blank.status = "DISCONNECTED"
      /\ Blank.connId = None /\ Blank.token = None
      /\ Blank.lease = None /\ Blank.remaining = None
  BY DEF Blank, Summaries, Statuses
<1> QED
  BY <1>1 DEF ViewInit, ViewInv, ViewTypes, ReadSoFar, ShownFits, ShownPast,
     Running

\* A summary speaks of the client as its last call left it.
LEMMA ViewInvNext ==
  ASSUME NEW cli, Threads = {cli}, Shared, SoloInv, ViewInv,
         [ViewNext]_svVars
  PROVE  ViewInv' /\ [Next]_vars
<1>1. CASE SystemStep
  BY <1>1, ViewBeside DEF SystemStep
<1>2. CASE Tick /\ UNCHANGED vars
  BY <1>2, ViewTicks DEF Shared
<1>3. CASE Summarize /\ UNCHANGED vars
  BY <1>3, ViewReads
<1>4. CASE UNCHANGED svVars
  <2>1. UNCHANGED <<vars, viewVars>>
    BY <1>4 DEF svVars
  <2> QED
    BY <2>1 DEF viewVars, vars, clientVars, link, object, session, locals,
       ViewInv, ViewTypes, ReadSoFar, ShownFits, ShownPast, Running, Past,
       Fits, Left, RemainingOf, Idle, LeaseState
<1> QED BY <1>1, <1>2, <1>3, <1>4 DEF ViewNext

\* A summary that no call overlapped shows one session or none, with a status
\* its lease was in while it was read, the clock running
\* (session_summary and lease_state, core_device_client.py:361-379, 468-487;
\* session_view, server.py).
THEOREM LoneSummaryCoherentHolds ==
  ASSUME NEW cli, Threads = {cli}
  PROVE  ViewSpec => []LoneSummaryCoherent
<1>1. Shared /\ SoloInv /\ ViewInv /\ [ViewNext]_svVars
        => Shared' /\ SoloInv' /\ ViewInv'
  BY ViewInvNext, SharedNext, SoloNext
<1>2. ViewInv => LoneSummaryCoherent
  <2> SUFFICES ASSUME ViewInv, alone PROVE LoneSummaryCoherent
    BY DEF LoneSummaryCoherent
  <2>1. displayed.status \in Statuses
    BY DEF ViewInv, ViewTypes, Summaries
  <2>2. CASE displayed.status = "DISCONNECTED"
    <3> DEFINE view == SessionView(displayed)
    <3>1. None # "ACTIVE"
      BY ViewAssumption
    <3>2. /\ ~view.authenticated /\ view.tokenState = None
          /\ view.connId = None /\ displayed.lease = displayed.connId
          /\ view.remaining = None
      BY <2>2 DEF ViewInv, ShownFits, SessionView
    <3> HIDE DEF view
    <3> QED BY <2>2, <3>1, <3>2 DEF LoneSummaryCoherent, view
  <2>3. CASE displayed.status # "DISCONNECTED"
    <3> DEFINE view == SessionView(displayed)
    <3>1. /\ view.authenticated /\ view.tokenState = "ACTIVE"
          /\ view.connId # None /\ displayed.lease = displayed.connId
          /\ view.remaining = displayed.remaining
      BY <2>3 DEF ViewInv, ShownFits, SessionView
    <3>2. displayed.status # "AUTHENTICATED" => Fits(displayed, displayed.lease)
      BY <2>3 DEF ViewInv, ShownFits
    <3> HIDE DEF view
    <3>3. /\ displayed.status = "EXPIRED" => RemainingOf(displayed.lease) <= 0
          /\ displayed.status = "EXPIRING" =>
               RemainingOf(displayed.lease) <= Soon /\ view.remaining > 0
          /\ displayed.status = "ONLINE" /\ view.remaining # None =>
               view.remaining > Soon
      BY <3>1, <3>2 DEF Fits
    <3> QED BY <3>1, <3>3 DEF LoneSummaryCoherent, view
  <2> QED BY <2>2, <2>3
<1> QED
  BY <1>1, <1>2, SoloInit, SharedInit, ViewInvInit, PTL DEF ViewSpec

\* In the middle of a call too, what the object has is of one session.
OneSession ==
  /\ lease # None => token = lease
  /\ token # None => connId = token

\* The steps of a call store and clear the parts of the session in that order:
\* a handshake finds them cleared, and a registration finds them whole.
LEMMA OneSessionStep ==
  ASSUME TypeInv, NEW t \in Threads, Sound(t), OneSession,
         Call(t) \/ Continue(t)
  PROVE  OneSession'
<1> USE DEF OneSession
<1>1. CASE CloseClear(t) \/ ClearAgain(t)
  BY <1>1 DEF CloseClear, ClearAgain, ClearSession
<1>2. CASE CommitHandshake(t)
  BY <1>2 DEF CommitHandshake, FreshSession, session
<1>3. CASE TrackHandshake(t)
  <2>1. /\ lease = None /\ token = None /\ connId = held[t]
        /\ resp[t].secret \in {None, held[t]}
    BY <1>3 DEF TrackHandshake, Sound, CommitPcs
  <2>2. lease' = lease /\ connId' = connId
    BY <1>3 DEF TrackHandshake
  <2>3. token' \in {None, held[t]}
    BY <1>3, <2>1 DEF TrackHandshake
  <2> QED BY <2>1, <2>2, <2>3
<1>4. CASE LeaseHandshake(t)
  <2>1. token = held[t] /\ resp[t].secret = held[t]
    BY <1>4 DEF LeaseHandshake, Sound
  <2> QED BY <1>4, <2>1 DEF LeaseHandshake
<1>5. CASE TrackRegister(t) \/ LeaseRegister(t)
  <2>1. /\ sock # None /\ resp[t].secret = sock
        /\ token = sock /\ connId = sock /\ lease = sock
    BY <1>5 DEF TrackRegister, LeaseRegister, Sound, Coherent, RestPcs,
       RegisterPcs
  <2> QED BY <1>5, <2>1 DEF TrackRegister, LeaseRegister
<1>6. CASE UNCHANGED <<token, connId, lease>>
  BY <1>6
<1>7. CASE Call(t)
  BY <1>6, <1>7 DEF Call, CallTeardown, CallLogin, CallConnect, CallRegister,
     CallRequest, object, session
<1>8. CASE \/ Return(t) \/ CloseSwap(t) \/ CloseShut(t) \/ Send(t)
           \/ LogoutCredential(t) \/ ShutdownLogout(t) \/ SendOnly(t)
           \/ SendFails(t) \/ Receive(t) \/ ReceiveFails(t)
           \/ ReceiveTorn(t) \/ ReceiveResync(t)
  BY <1>6, <1>8 DEF Return, CloseSwap, CloseShut, Send, LogoutCredential,
     ShutdownLogout, SendOnly, SendFails, Receive, ReceiveFails, ReceiveTorn,
     ReceiveResync, object, session
<1>9. CASE \/ Dial(t) \/ DialFails(t) \/ Store(t) \/ Hello(t) \/ NoToken(t)
           \/ RegisterGuard(t) \/ RegisterBind(t) \/ CheckRegister(t)
           \/ CheckReconnect(t) \/ RequestBind(t) \/ CheckResponse(t)
  BY <1>6, <1>9 DEF Dial, DialFails, Store, Hello, NoToken, RegisterGuard,
     RegisterBind, CheckRegister, CheckReconnect, RequestBind, CheckResponse,
     object, session
<1> QED
  BY <1>1, <1>2, <1>3, <1>4, <1>5, <1>7, <1>8, <1>9 DEF Continue

\* A summary overlapped by any call names one session at most: the lease comes
\* with its token and the token with its connection_id, wherever the call was
\* when they were read (session_summary, core_device_client.py:467-483).
THEOREM SummaryOfOneSessionHolds ==
  ASSUME NEW cli, Threads = {cli}
  PROVE  ViewSpec => []SummaryOfOneSession
<1> DEFINE Both == OneSession /\ SummaryOfOneSession
<1>1. Init /\ ViewInit => Both
  BY DEF Init, ClientInit, ViewInit, Blank, OneSession, SummaryOfOneSession
<1>2. [ViewNext]_svVars => [Next]_vars
  BY DEF ViewNext, SystemStep, svVars
<1>3. Shared /\ SoloInv /\ ViewInv /\ Both /\ [ViewNext]_svVars => Both'
  <2> SUFFICES ASSUME Shared, SoloInv, ViewInv, Both, [ViewNext]_svVars PROVE Both'
    OBVIOUS
  <2>1. OneSession'
    <3>1. CASE UNCHANGED <<token, connId, lease>>
      BY <3>1 DEF OneSession
    <3>2. CASE Call(cli) \/ Continue(cli)
      BY <3>2, OneSessionStep DEF Shared, SoloInv
    <3>3. UNCHANGED clientVars \/ UNCHANGED vars =>
            UNCHANGED <<token, connId, lease>>
      BY DEF vars, clientVars, object, session
    <3> QED BY <1>2, <3>1, <3>2, <3>3 DEF Next, Terminated
  <2>2. SummaryOfOneSession'
    <3>1. CASE UNCHANGED displayed
      BY <3>1 DEF SummaryOfOneSession
    <3>2. CASE ReadRest
      <4>1. /\ displayed'.lease = lease /\ displayed'.token = token
            /\ displayed'.connId = connId
        BY <3>2 DEF ReadRest, ViewInv, ViewTypes, Summaries
      <4> QED BY <4>1 DEF OneSession, SummaryOfOneSession
    <3> QED
      BY <3>1, <3>2 DEF ViewNext, SystemStep, Tick, Summarize, ReadRemaining,
         ReadFlags, ReadExpiry, svVars, viewVars
  <2> QED BY <2>1, <2>2
<1>4. Both => SummaryOfOneSession
  OBVIOUS
<1> HIDE DEF Both
<1> QED
  BY <1>1, <1>2, <1>3, <1>4, SoloInit, SharedInit, ViewInvInit, ViewInvNext,
     SharedNext, SoloNext, PTL DEF ViewSpec

\* Of two summaries that follow one another undisturbed and show the same
\* connection, the second never shows an earlier stage of its life: a session
\* that was registered stays so, and its lease has no more time than it had.
THEOREM LeaseOnlyRunsOutHolds ==
  ASSUME NEW cli, Threads = {cli}
  PROVE  ViewSpec => LeaseOnlyRunsOut
<1> DEFINE Order ==
      /\ alone /\ alone'
      /\ displayed.connId # None /\ displayed'.connId = displayed.connId
      => Rank[displayed.status] <= Rank[displayed'.status]
<1>1. Shared /\ SoloInv /\ ViewInv /\ [ViewNext]_svVars
        => Shared' /\ SoloInv' /\ ViewInv'
  BY ViewInvNext, SharedNext, SoloNext
<1>2. Shared /\ SoloInv /\ ViewInv /\ [ViewNext]_svVars => [Order]_displayed
  <2> SUFFICES ASSUME Shared, SoloInv, ViewInv, ReadRest, UNCHANGED vars,
                      alone, alone', displayed.connId # None,
                      displayed'.connId = displayed.connId
               PROVE  Rank[displayed.status] <= Rank[displayed'.status]
    BY DEF ViewNext, Summarize, SystemStep, Tick, ReadRemaining, ReadFlags,
       ReadExpiry, svVars, viewVars
  <2>1. displayed' = [summary EXCEPT !.connId = connId, !.token = token,
                                      !.lease = lease]
    BY DEF ReadRest
  <2>2. summary \in Summaries /\ displayed \in Summaries
    BY DEF ViewInv, ViewTypes
  <2>3. displayed'.status = summary.status /\ connId = displayed.connId
    BY <2>1, <2>2 DEF Summaries
  <2>4. /\ Idle /\ Running
        /\ IF LeaseState = "ONLINE" THEN Fits(summary, lease)
           ELSE summary.status = LeaseState
    BY DEF ReadRest, Proceed, ViewInv, ReadSoFar
  <2>5. /\ displayed.status = "EXPIRING" => summary.remaining <= Soon
        /\ displayed.status = "EXPIRED" => summary.remaining <= 0
    BY <2>3 DEF ViewInv, Running, ReadRest, Proceed
  <2>6. sock # None /\ authenticated
    BY <2>3, <2>4 DEF SoloInv, Sound, RestPcs, Coherent, Clear, Idle
  <2>7. displayed.status \in {"ONLINE", "EXPIRING", "EXPIRED"} =>
          LeaseState = "ONLINE"
    BY <2>3, <2>6 DEF ViewInv, ShownPast, Past, LeaseState
  <2>8. summary.status \in Statuses \ {"DISCONNECTED"}
    BY <2>2, <2>4, <2>6 DEF Summaries, LeaseState, Fits
  <2>9. displayed.status \in Statuses \ {"DISCONNECTED"}
    BY <2>2 DEF Summaries, ViewInv, ShownFits
  <2>10. summary.remaining \in Int \cup {None}
    BY <2>2 DEF Summaries
  <2>11. CASE displayed.status = "AUTHENTICATED"
    BY <2>3, <2>8, <2>11 DEF Rank, Statuses
  <2>12. CASE displayed.status = "ONLINE"
    BY <2>3, <2>4, <2>7, <2>8, <2>12 DEF Rank, Statuses, Fits
  <2>13. CASE displayed.status \in {"EXPIRING", "EXPIRED"}
    <3>1. Fits(summary, lease)
      BY <2>4, <2>7, <2>13
    <3>2. Fits(displayed, displayed.lease)
      BY <2>13 DEF ViewInv, ShownFits
    <3>3. lease = displayed.lease
      BY <2>3, <2>4, <2>13 DEF ViewInv, ShownFits, SoloInv, Sound, RestPcs,
         Coherent, Clear, Idle
    <3>4. summary.remaining \in Int
      BY <2>10, <2>13, <3>1, <3>2, <3>3 DEF Fits, Left
    <3> QED
      BY <2>3, <2>5, <2>8, <2>13, <3>1, <3>4, ViewAssumption
      DEF Rank, Statuses, Fits
  <2> QED BY <2>9, <2>11, <2>12, <2>13 DEF Statuses
<1> QED
  BY <1>1, <1>2, SoloInit, SharedInit, ViewInvInit, PTL
  DEF ViewSpec, LeaseOnlyRunsOut

-----------------------------------------------------------------------------
(* Locations: none is fabricated *)

\* A nearest multiple of Step does not leave a range that ends at a multiple.
LEMMA RoundedStays ==
  ASSUME NEW M \in Nat, M % Step = 0, NEW c \in -M..M, NEW r \in Rounded(c)
  PROVE  r \in -M..M
<1> DEFINE m == M \div Step
           k == r \div Step
<1>1. Step \in Nat /\ Step > 0 /\ r \in Int /\ c \in Int
  BY NetworkAssumption DEF Rounded
<1>2. r % Step = 0 /\ 2 * (r - c) <= Step /\ 2 * (c - r) <= Step
  BY DEF Rounded
<1>3. m \in Int /\ k \in Int /\ M = m * Step /\ r = k * Step
  BY <1>1, <1>2
<1> HIDE DEF m, k
<1>4. k <= m
  <2> SUFFICES ASSUME k >= m + 1 PROVE FALSE
    BY <1>3
  <2>1. k * Step >= (m + 1) * Step
    BY <1>1, <1>3
  <2>2. (m + 1) * Step = M + Step
    BY <1>1, <1>3
  <2> QED
    BY <1>1, <1>2, <1>3, <2>1, <2>2
<1>5. k >= -m
  <2> SUFFICES ASSUME k <= -m - 1 PROVE FALSE
    BY <1>3
  <2>1. k * Step <= (-m - 1) * Step
    BY <1>1, <1>3
  <2>2. (-m - 1) * Step = -M - Step
    BY <1>1, <1>3
  <2> QED
    BY <1>1, <1>2, <1>3, <2>1, <2>2
<1>6. k * Step <= m * Step /\ k * Step >= (-m) * Step
  BY <1>1, <1>3, <1>4, <1>5
<1>7. (-m) * Step = -M
  BY <1>1, <1>3
<1> QED
  BY <1>1, <1>3, <1>6, <1>7

\* What apply_precision makes of a location is nowhere, or coarse and on the
\* globe; and nowhere if the location is.
LEMMA PrecisionCoarse ==
  ASSUME NEW p \in Location, NEW s \in ApplyPrecision(p)
  PROVE  s = Unknown \/ (~Hidden /\ p \in Position /\ Coarse(s, p))
<1> SUFFICES ASSUME ~Hidden, HasCoordinates(p), s \in Rounded(p[1]) \X Rounded(p[2])
             PROVE  p \in Position /\ Coarse(s, p)
  BY DEF ApplyPrecision
<1>1. p \in Position
  BY DEF HasCoordinates, Location
<1>2. p[1] \in -MaxLat..MaxLat /\ p[2] \in -MaxLon..MaxLon
  BY <1>1 DEF Position
<1>3. s[1] \in Rounded(p[1]) /\ s[2] \in Rounded(p[2]) /\ s = <<s[1], s[2]>>
  OBVIOUS
<1>4. s[1] \in -MaxLat..MaxLat /\ s[2] \in -MaxLon..MaxLon
  BY <1>2, <1>3, RoundedStays, NetworkAssumption
<1>5. s \in Position
  BY <1>3, <1>4 DEF Position
<1> QED
  BY <1>1, <1>3, <1>5 DEF Coarse, Rounded

\* What is shown of a location is a location.
LEMMA PrecisionLocation ==
  ASSUME NEW p \in Location, NEW s \in ApplyPrecision(p)
  PROVE  s \in Location
BY PrecisionCoarse DEF Coarse, Location

\* What is made of a report is a location.
LEMMA MakeLocationType ==
  ASSUME NEW lat, NEW lon
  PROVE  MakeLocation(lat, lon) \in Location
BY DEF MakeLocation, Location

-----------------------------------------------------------------------------
\* What is stored is what was reported, so what is shown of it was, too.
StoredWasReported == \A d \in Places : locations[d] \in reported[d] \cup {Unknown}
NetworkInv == NetworkTypeOK /\ StoredWasReported /\ ShownWasReported

\* s may be shown of d.
MayShow(s, d) == s = Unknown \/ (~Hidden /\ \E p \in reported[d] : Coarse(s, p))

\* What is stored may be shown, at any precision that applies.
LEMMA StoredMayShow ==
  ASSUME NetworkTypeOK, StoredWasReported,
         NEW d \in Places, NEW s \in ApplyPrecision(locations[d])
  PROVE  s \in Location /\ MayShow(s, d)
<1>1. locations[d] \in Location
  BY DEF NetworkTypeOK
<1>2. Unknown \notin Position
  BY NetworkAssumption DEF Position
<1> QED
  BY <1>1, <1>2, PrecisionCoarse, PrecisionLocation DEF StoredWasReported, MayShow

\* An answer that is extended with a place is an answer.
LEMMA ShownExtended ==
  ASSUME NEW f \in Shown, NEW d \in Places, NEW s \in Location
  PROVE  [e \in (DOMAIN f) \cup {d} |-> IF e = d THEN s ELSE f[e]] \in Shown
<1> DEFINE L == (DOMAIN f) \cup {d}
           g == [e \in L |-> IF e = d THEN s ELSE f[e]]
<1>1. PICK K \in SUBSET Places : f \in [K -> Location]
  BY DEF Shown
<1>2. L \in SUBSET Places /\ DOMAIN f = K
  BY <1>1
<1>3. g \in [L -> Location]
  BY <1>1, <1>2
<1> QED
  BY <1>2, <1>3 DEF Shown

\* An answer may name one device, or none.
LEMMA ShownOne ==
  ASSUME NEW d \in Places, NEW s \in Location
  PROVE  [e \in {d} |-> s] \in Shown /\ Nowhere \in Shown
<1>1. [e \in {d} |-> s] \in [{d} -> Location] /\ Nowhere \in [{} -> Location]
  BY DEF Nowhere
<1>2. {d} \in SUBSET Places /\ {} \in SUBSET Places
  OBVIOUS
<1> QED
  BY <1>1, <1>2 DEF Shown

\* A step that gives one handler a new answer, or none, shows nothing that was
\* not reported, as long as the answer does not.
LEMMA OneAnswer ==
  ASSUME NetworkInv, NEW h \in Handlers, NEW f \in Shown,
         shown' = [shown EXCEPT ![h] = f],
         \A d \in Places : reported[d] \subseteq reported'[d],
         \A d \in DOMAIN f :
           f[d] = Unknown \/ (~Hidden /\ \E p \in reported'[d] : Coarse(f[d], p))
  PROVE  shown' \in [Handlers -> Shown] /\ ShownWasReported'
<1>1. shown' \in [Handlers -> Shown]
  BY DEF NetworkInv, NetworkTypeOK
<1>2. ASSUME NEW g \in Handlers, NEW d \in DOMAIN shown'[g]
      PROVE  \/ shown'[g][d] = Unknown
             \/ ~Hidden /\ \E p \in reported'[d] : Coarse(shown'[g][d], p)
  <2>1. CASE g = h
    BY <1>2, <2>1 DEF NetworkInv, NetworkTypeOK
  <2>2. CASE g # h
    <3>1. shown'[g] = shown[g]
      BY <2>2 DEF NetworkInv, NetworkTypeOK
    <3> shown[g] \in Shown
      BY DEF NetworkInv, NetworkTypeOK
    <3>2. PICK listing \in SUBSET Places : shown[g] \in [listing -> Location]
      BY DEF Shown
    <3>3. d \in Places
      BY <1>2, <3>1, <3>2
    <3>4. d \in DOMAIN shown[g]
      BY <1>2, <3>1
    <3> QED
      BY <3>1, <3>3, <3>4 DEF NetworkInv, ShownWasReported
  <2> QED
    BY <2>1, <2>2
<1> QED
  BY <1>1, <1>2 DEF ShownWasReported

\* A portal starts with no location stored and no answer under way.
LEMMA NetworkInvInit == NetworkInit => NetworkInv
<1> SUFFICES ASSUME NetworkInit PROVE NetworkInv
  OBVIOUS
<1>1. Unknown \in Location /\ Nowhere \in Shown /\ DOMAIN Nowhere = {}
  <2>1. Nowhere \in [{} -> Location] /\ {} \in SUBSET Places
    BY DEF Nowhere
  <2> QED
    BY <2>1 DEF Location, Shown, Nowhere
<1>2. NetworkTypeOK
  BY <1>1, NetworkAssumption DEF NetworkInit, NetworkTypeOK
<1>3. StoredWasReported /\ ShownWasReported
  BY <1>1 DEF NetworkInit, StoredWasReported, ShownWasReported
<1> QED
  BY <1>2, <1>3 DEF NetworkInv

\* What Report leaves of the invariant.
LEMMA StoreKeeps ==
  ASSUME NetworkInv, NEW d \in Places, NEW location \in Location, Report(d, location)
  PROVE  /\ locations' \in [Places -> Location]
         /\ reported' \in [Places -> SUBSET Position]
         /\ quiet' \in [Handlers -> BOOLEAN]
         /\ StoredWasReported'
         /\ \A e \in Places : reported[e] \subseteq reported'[e]
         /\ reported'[d] = reported[d] \cup ({location} \ {Unknown})
<1> USE DEF NetworkInv, NetworkTypeOK, Report
<1>1. locations' \in [Places -> Location] /\ quiet' \in [Handlers -> BOOLEAN]
  OBVIOUS
<1>2. {location} \ {Unknown} \subseteq Position
  BY DEF Location
<1>3. reported' \in [Places -> SUBSET Position]
  BY <1>2
<1>4. \A e \in Places : reported[e] \subseteq reported'[e]
  OBVIOUS
<1>5. reported'[d] = reported[d] \cup ({location} \ {Unknown})
  OBVIOUS
<1>6. ASSUME NEW e \in Places PROVE locations'[e] \in reported'[e] \cup {Unknown}
  <2>1. CASE e = d
    BY <1>5, <2>1
  <2>2. CASE e # d
    BY <1>4, <2>2 DEF StoredWasReported
  <2> QED
    BY <2>1, <2>2
<1> QED
  BY <1>1, <1>3, <1>4, <1>5, <1>6 DEF StoredWasReported

\* A count below its bound may grow by one.
LEMMA OneMoreFits ==
  ASSUME NEW m \in Nat, NEW r \in 0..m, r < m
  PROVE  r + 1 \in 0..m
OBVIOUS

\* What Begin leaves of it.
LEMMA BeginKeeps ==
  ASSUME NetworkInv, NEW h \in Handlers,
         NEW where \in {"free", "answer own", "devices", "distance"}, Begin(h, where)
  PROVE  /\ requests' \in 0..MaxRequests
         /\ at' \in [Handlers -> {"free", "answer own", "devices", "distance"}]
         /\ near' \in [Handlers -> SUBSET Devices]
<1>1. requests' \in 0..MaxRequests
  <2>1. requests \in 0..MaxRequests /\ requests < MaxRequests /\ requests' = requests + 1
    BY DEF NetworkInv, NetworkTypeOK, Begin
  <2>2. MaxRequests \in Nat
    BY NetworkAssumption
  <2> QED
    BY <2>1, <2>2, OneMoreFits
<1>2. at' \in [Handlers -> {"free", "answer own", "devices", "distance"}]
  BY DEF NetworkInv, NetworkTypeOK, Begin
<1>3. near' \in [Handlers -> SUBSET Devices]
  BY DEF NetworkInv, NetworkTypeOK, Begin
<1> QED
  BY <1>1, <1>2, <1>3

\* And what Remembers leaves.
LEMMA RemembersTyped ==
  ASSUME NetworkTypeOK, locations' \in [Places -> Location], NEW h, Remembers(h)
  PROVE  during' \in [Handlers -> [Places -> SUBSET Location]]
<1>1. ASSUME NEW g \in Handlers PROVE during'[g] \in [Places -> SUBSET Location]
  <2> DEFINE kept(d) == IF g = h THEN {locations'[d]}
                        ELSE IF at[g] = "free" THEN during[g][d]
                        ELSE during[g][d] \cup {locations'[d]}
  <2>1. during'[g] = [d \in Places |-> kept(d)]
    BY <1>1 DEF Remembers
  <2>2. ASSUME NEW d \in Places PROVE kept(d) \in SUBSET Location
    <3>1. during[g][d] \in SUBSET Location /\ locations'[d] \in Location
      BY <1>1, <2>2 DEF NetworkTypeOK
    <3> QED BY <3>1
  <2> HIDE DEF kept
  <2> QED BY <2>1, <2>2
<1> QED
  BY <1>1 DEF Remembers

\* Every handler, at every step, keeps what is stored and shown a report.
LEMMA NetworkInvStep == NetworkInv /\ [NetworkNext]_networkVars => NetworkInv'
<1> SUFFICES ASSUME NetworkInv, [NetworkNext]_networkVars PROVE NetworkInv'
  OBVIOUS
<1>t. NetworkTypeOK /\ StoredWasReported /\ ShownWasReported
  BY DEF NetworkInv
<1>1. CASE UNCHANGED networkVars
  BY <1>t, <1>1
     DEF networkVars, NetworkInv, NetworkTypeOK, StoredWasReported, ShownWasReported
<1>2. CASE Change
  BY <1>t, <1>2
     DEF Change, NetworkInv, NetworkTypeOK, StoredWasReported, ShownWasReported
<1>3. ASSUME NEW h \in Handlers, Fail(h) PROVE NetworkInv'
  <2>1. Nowhere \in Shown /\ DOMAIN Nowhere = {}
    BY DEF Nowhere, Shown
  <2>2. shown' \in [Handlers -> Shown] /\ ShownWasReported'
    BY <1>3, <2>1, OneAnswer DEF Fail
  <2>3. NetworkTypeOK' /\ StoredWasReported'
    BY <1>t, <1>3, <2>2, BeginKeeps DEF Fail, NetworkTypeOK, StoredWasReported
  <2> QED
    BY <2>2, <2>3 DEF NetworkInv
<1>4. ASSUME NEW h \in Handlers, NEW lat \in Inputs, NEW lon \in Inputs, SetOwn(h, lat, lon)
      PROVE  NetworkInv'
  <2> DEFINE location == MakeLocation(lat, lon)
  <2>1. location \in Location /\ Self \in Places /\ Report(Self, location)
    BY <1>4, MakeLocationType DEF SetOwn, Places
  <2>2. Nowhere \in Shown /\ DOMAIN Nowhere = {}
    BY DEF Nowhere, Shown
  <2> HIDE DEF location
  <2>3. /\ locations' \in [Places -> Location]
        /\ reported' \in [Places -> SUBSET Position]
        /\ quiet' \in [Handlers -> BOOLEAN]
        /\ StoredWasReported'
        /\ \A e \in Places : reported[e] \subseteq reported'[e]
    BY <2>1, StoreKeeps
  <2>4. shown' \in [Handlers -> Shown] /\ ShownWasReported'
    BY <1>4, <2>2, <2>3, OneAnswer DEF SetOwn
  <2>5. NetworkTypeOK'
    BY <1>t, <1>4, <2>3, <2>4, BeginKeeps, RemembersTyped
    DEF SetOwn, NetworkTypeOK
  <2> QED
    BY <2>3, <2>4, <2>5 DEF NetworkInv
<1>5. ASSUME NEW h \in Handlers, AnswerOwn(h) PROVE NetworkInv'
  <2>1. Self \in Places
    BY DEF Places
  <2>2. PICK s \in ApplyPrecision(locations[Self]) :
          shown' = [shown EXCEPT ![h] = [d \in {Self} |-> s]]
    BY <1>5 DEF AnswerOwn
  <2>3. s \in Location /\ MayShow(s, Self)
    BY <1>t, <2>1, StoredMayShow
  <2>4. [d \in {Self} |-> s] \in Shown
    BY <2>1, <2>3, ShownOne
  <2>5. reported' = reported
    BY <1>5 DEF AnswerOwn
  <2>6. shown' \in [Handlers -> Shown] /\ ShownWasReported'
    BY <2>2, <2>3, <2>4, <2>5, OneAnswer DEF MayShow
  <2>7. NetworkTypeOK' /\ StoredWasReported'
    BY <1>t, <1>5, <2>6 DEF AnswerOwn, NetworkTypeOK, StoredWasReported
  <2> QED
    BY <2>6, <2>7 DEF NetworkInv
<1>6. ASSUME NEW h \in Handlers, NEW d \in Devices,
             NEW lat \in Inputs, NEW lon \in Inputs, SetPeer(h, d, lat, lon)
      PROVE  NetworkInv'
  <2> DEFINE location == MakeLocation(lat, lon)
  <2>1. location \in Location /\ d \in Places /\ Report(d, location)
    BY <1>6, MakeLocationType DEF SetPeer, Places
  <2>2. PICK s \in ApplyPrecision(location) :
          shown' = [shown EXCEPT ![h] = [e \in {d} |-> s]]
    BY <1>6 DEF SetPeer
  <2> HIDE DEF location
  <2>3. /\ locations' \in [Places -> Location]
        /\ reported' \in [Places -> SUBSET Position]
        /\ quiet' \in [Handlers -> BOOLEAN]
        /\ StoredWasReported'
        /\ \A e \in Places : reported[e] \subseteq reported'[e]
        /\ reported'[d] = reported[d] \cup ({location} \ {Unknown})
    BY <2>1, StoreKeeps
  <2>4. s \in Location
    BY <2>1, PrecisionLocation
  <2>5. s = Unknown \/ (~Hidden /\ location \in Position /\ Coarse(s, location))
    BY <2>1, PrecisionCoarse
  <2>6. Unknown \notin Position
    BY NetworkAssumption DEF Position
  <2>7. s = Unknown \/ (~Hidden /\ \E p \in reported'[d] : Coarse(s, p))
    BY <2>3, <2>5, <2>6
  <2>8. [e \in {d} |-> s] \in Shown
    BY <2>1, <2>4, ShownOne
  <2>9. shown' \in [Handlers -> Shown] /\ ShownWasReported'
    BY <2>2, <2>3, <2>7, <2>8, OneAnswer
  <2>10. NetworkTypeOK'
    BY <1>t, <1>6, <2>3, <2>9, BeginKeeps, RemembersTyped
    DEF SetPeer, NetworkTypeOK
  <2> QED
    BY <2>3, <2>9, <2>10 DEF NetworkInv
<1>7. ASSUME NEW h \in Handlers, List(h) PROVE NetworkInv'
  <2>1. Nowhere \in Shown /\ DOMAIN Nowhere = {}
    BY DEF Nowhere, Shown
  <2>2. shown' \in [Handlers -> Shown] /\ ShownWasReported'
    BY <1>7, <2>1, OneAnswer DEF List
  <2>3. NetworkTypeOK' /\ StoredWasReported'
    BY <1>t, <1>7, <2>2, BeginKeeps, RemembersTyped
    DEF List, NetworkTypeOK, StoredWasReported
  <2> QED
    BY <2>2, <2>3 DEF NetworkInv
<1>8. ASSUME NEW h \in Handlers, NEW d \in Devices, Describe(h, d) PROVE NetworkInv'
  <2>1. d \in Places /\ shown[h] \in Shown
    BY <1>t DEF Places, NetworkTypeOK
  <2> DEFINE Extended(s) == [e \in (DOMAIN shown[h]) \cup {d} |->
                               IF e = d THEN s ELSE shown[h][e]]
  <2>2. PICK s \in ApplyPrecision(locations[d]) : shown' = [shown EXCEPT ![h] = Extended(s)]
    BY <1>t, <1>8 DEF Describe, PeerOf, NetworkTypeOK
  <2>3. s \in Location /\ MayShow(s, d)
    BY <1>t, <2>1, StoredMayShow
  <2>4. Extended(s) \in Shown
    BY <2>1, <2>3, ShownExtended
  <2>5. reported' = reported
    BY <1>8 DEF Describe
  <2>6. shown' \in [Handlers -> Shown] /\ ShownWasReported'
    BY <1>t, <2>2, <2>3, <2>4, <2>5, OneAnswer DEF MayShow, ShownWasReported
  <2>7. NetworkTypeOK' /\ StoredWasReported'
    BY <1>t, <1>8, <2>1, <2>6 DEF Describe, PeerOf, NetworkTypeOK, StoredWasReported
  <2> QED
    BY <2>6, <2>7 DEF NetworkInv
<1>9. ASSUME NEW h \in Handlers, NEW d \in Devices, Measure(h, d) PROVE NetworkInv'
  BY <1>t, <1>9
     DEF Measure, NetworkInv, NetworkTypeOK, StoredWasReported, ShownWasReported
<1>10. ASSUME NEW h \in Handlers, AnswerNetwork(h) PROVE NetworkInv'
  <2>1. Self \in Places /\ shown[h] \in Shown
    BY <1>t DEF Places, NetworkTypeOK
  <2> DEFINE Extended(s) == [e \in (DOMAIN shown[h]) \cup {Self} |->
                               IF e = Self THEN s ELSE shown[h][e]]
  <2>2. PICK s \in ApplyPrecision(locations[Self]) :
          shown' = [shown EXCEPT ![h] = Extended(s)]
    BY <1>t, <1>10 DEF AnswerNetwork, NetworkTypeOK
  <2>3. s \in Location /\ MayShow(s, Self)
    BY <1>t, <2>1, StoredMayShow
  <2>4. Extended(s) \in Shown
    BY <2>1, <2>3, ShownExtended
  <2>5. reported' = reported
    BY <1>10 DEF AnswerNetwork
  <2>6. shown' \in [Handlers -> Shown] /\ ShownWasReported'
    BY <1>t, <2>2, <2>3, <2>4, <2>5, OneAnswer DEF MayShow, ShownWasReported
  <2>7. NetworkTypeOK' /\ StoredWasReported'
    BY <1>t, <1>10, <2>6 DEF AnswerNetwork, NetworkTypeOK, StoredWasReported
  <2> QED
    BY <2>6, <2>7 DEF NetworkInv
<1> QED
  BY <1>1, <1>2, <1>3, <1>4, <1>5, <1>6, <1>7, <1>8, <1>9, <1>10 DEF NetworkNext, Post, Get

\* No answer of the portal shows a device at a place that was not reported for
\* that device: ShownWasReported holds of every portal, of any size, however its
\* threads interleave.  The induction needs that what is stored for a device
\* was reported for it (StoredWasReported).
THEOREM ShownWasReportedHolds == NetworkSpec => []ShownWasReported
<1>1. NetworkInv => ShownWasReported
  BY DEF NetworkInv
<1> QED
  BY <1>1, NetworkInvInit, NetworkInvStep, PTL DEF NetworkSpec

\* What the handlers hold is of the right type, and no stored location is off
\* the globe: make_location lets none through.
THEOREM NetworkTypeCorrect == NetworkSpec => []NetworkTypeOK
<1>1. NetworkInv => NetworkTypeOK
  BY DEF NetworkInv
<1> QED
  BY <1>1, NetworkInvInit, NetworkInvStep, PTL DEF NetworkSpec

-----------------------------------------------------------------------------
(* Distances: given for what is shown at a place, and for nothing else *)

\* Of the listing, the device at hand is the only one described and not yet
\* measured.
OneAtHand(h) ==
  /\ at[h] = "devices" => todo[h] \cap DOMAIN shown[h] = {}
  /\ at[h] = "distance" =>
       \E d \in Devices : /\ todo[h] \cap DOMAIN shown[h] = {d}
                          /\ quiet[h] => peer[h] = locations[d]

\* What was described and measured so far agrees with what is stored, while
\* no report comes in between.
AgreesSoFar(h) ==
  /\ \A d \in DOMAIN shown[h] : shown[h][d] # Unknown <=> HasCoordinates(locations[d])
  /\ near[h] = {d \in (DOMAIN shown[h]) \ todo[h] :
                  HasDistance(locations[Self], locations[d])}

Distances(h) ==
  near[h] = {d \in Devices \cap DOMAIN shown[h] :
               shown[h][d] # Unknown /\ shown[h][Self] # Unknown}

\* The answer of handler h, from the listing on.
Answering(h) ==
  /\ at[h] = "answer own" => ~quiet[h]
  /\ at[h] \in {"devices", "distance"} =>
       /\ DOMAIN shown[h] \subseteq Devices
       /\ OneAtHand(h)
       /\ quiet[h] /\ ~Hidden => AgreesSoFar(h)
  /\ at[h] = "free" /\ quiet[h] /\ Self \in DOMAIN shown[h] /\ ~Hidden => Distances(h)

QuietInv == \A h \in Handlers : Answering(h)

\* What is shown of a place is nowhere just when the place is.
LEMMA PrecisionKnown ==
  ASSUME ~Hidden, NEW p \in Location, NEW s \in ApplyPrecision(p)
  PROVE  s # Unknown <=> HasCoordinates(p)
<1>1. Position \subseteq Int \X Int /\ Unknown \notin Int \X Int
  BY NetworkAssumption DEF Position
<1>2. CASE HasCoordinates(p)
  <2>1. s \in Rounded(p[1]) \X Rounded(p[2])
    BY <1>2 DEF ApplyPrecision
  <2>2. p[1] \in Int /\ p[2] \in Int
    BY <1>1, <1>2 DEF HasCoordinates, Location
  <2>3. Rounded(p[1]) \subseteq Int /\ Rounded(p[2]) \subseteq Int
    BY <2>2, NetworkAssumption DEF Rounded
  <2> QED
    BY <1>1, <1>2, <2>1, <2>3
<1>3. CASE ~HasCoordinates(p)
  BY <1>3 DEF ApplyPrecision
<1> QED
  BY <1>2, <1>3

\* A step of another handler, or of the host, leaves an answer as it is, or
\* disturbs it.
LEMMA AnswerRests ==
  ASSUME NEW h \in Handlers, Answering(h),
         at'[h] = at[h], todo'[h] = todo[h], peer'[h] = peer[h],
         shown'[h] = shown[h], near'[h] = near[h],
         quiet'[h] => quiet[h] /\ locations' = locations
  PROVE  Answering(h)'
BY DEF Answering, OneAtHand, AgreesSoFar, Distances

\* A handler's step: its own answer must be shown to be right; the others rest.
LEMMA OneAnswering ==
  ASSUME QuietInv, NEW h \in Handlers, Answering(h)',
         \A g \in Handlers \ {h} :
           /\ at'[g] = at[g] /\ todo'[g] = todo[g] /\ peer'[g] = peer[g]
           /\ shown'[g] = shown[g] /\ near'[g] = near[g]
           /\ quiet'[g] => quiet[g] /\ locations' = locations
  PROVE  QuietInv'
<1>1. ASSUME NEW g \in Handlers, g # h PROVE Answering(g)'
  BY <1>1, AnswerRests DEF QuietInv
<1> QED
  BY <1>1 DEF QuietInv

\* A request that begins is not yet answered; and a report disturbs them all.
LEMMA PostAnswers ==
  ASSUME NetworkTypeOK, QuietInv, NEW h \in Handlers, Post(h)
  PROVE  QuietInv'
<1>1. ASSUME Fail(h) PROVE QuietInv'
  <2>1. at'[h] = "free" /\ Self \notin DOMAIN shown'[h]
    BY <1>1 DEF Fail, Begin, NetworkTypeOK, Nowhere
  <2>2. Answering(h)'
    BY <2>1 DEF Answering
  <2> QED
    BY <1>1, <2>2, OneAnswering DEF Fail, Begin, NetworkTypeOK
<1>2. ASSUME NEW lat, NEW lon, SetOwn(h, lat, lon) PROVE QuietInv'
  <2>1. at'[h] = "answer own" /\ \A g \in Handlers : ~quiet'[g]
    BY <1>2 DEF SetOwn, Begin, Report, NetworkTypeOK
  <2>2. Answering(h)'
    BY <2>1 DEF Answering
  <2> QED
    BY <1>2, <2>1, <2>2, OneAnswering DEF SetOwn, Begin, Report, NetworkTypeOK
<1>3. ASSUME NEW d, NEW lat, NEW lon, SetPeer(h, d, lat, lon) PROVE QuietInv'
  <2>1. at'[h] = "free" /\ \A g \in Handlers : ~quiet'[g]
    BY <1>3 DEF SetPeer, Begin, Report, NetworkTypeOK
  <2>2. Answering(h)'
    BY <2>1 DEF Answering
  <2>3. PICK a : shown' = [shown EXCEPT ![h] = a]
    BY <1>3 DEF SetPeer
  <2> QED
    BY <1>3, <2>1, <2>2, <2>3, OneAnswering DEF SetPeer, Begin, Report, NetworkTypeOK
<1> QED
  BY <1>1, <1>2, <1>3 DEF Post

\* POST /api/location's answer comes after its own report.
LEMMA OwnAnswers ==
  ASSUME NetworkTypeOK, QuietInv, NEW h \in Handlers, AnswerOwn(h)
  PROVE  QuietInv'
<1>1. at'[h] = "free" /\ ~quiet'[h]
  BY DEF AnswerOwn, QuietInv, Answering, NetworkTypeOK
<1>2. Answering(h)'
  BY <1>1 DEF Answering
<1>3. PICK a : shown' = [shown EXCEPT ![h] = a]
  BY DEF AnswerOwn
<1> QED
  BY <1>2, <1>3, OneAnswering DEF AnswerOwn, NetworkTypeOK

\* The listing: nothing of it is described yet.
LEMMA ListAnswers ==
  ASSUME NetworkTypeOK, QuietInv, NEW h \in Handlers, List(h)
  PROVE  QuietInv'
<1>1. at'[h] = "devices" /\ DOMAIN shown'[h] = {} /\ near'[h] = {}
  BY DEF List, Begin, NetworkTypeOK, Nowhere
<1>2. Answering(h)'
  BY <1>1 DEF Answering, OneAtHand, AgreesSoFar
<1> QED
  BY <1>2, OneAnswering DEF List, Begin, NetworkTypeOK

\* One device described: it is now the one at hand.
LEMMA DescribeAnswers ==
  ASSUME NetworkTypeOK, QuietInv, NEW h \in Handlers, NEW d \in Devices, Describe(h, d)
  PROVE  QuietInv'
<1>1. PICK s \in ApplyPrecision(locations[d]) :
        shown' = [shown EXCEPT ![h] = [e \in (DOMAIN shown[h]) \cup {d} |->
                                         IF e = d THEN s ELSE shown[h][e]]]
  BY DEF Describe, PeerOf, NetworkTypeOK
<1>2. /\ at[h] = "devices" /\ at'[h] = "distance"
      /\ d \in todo[h] /\ todo' = todo /\ near' = near /\ quiet' = quiet
      /\ locations' = locations /\ peer'[h] = locations[d]
  BY DEF Describe, PeerOf, NetworkTypeOK
<1>3. /\ DOMAIN shown'[h] = (DOMAIN shown[h]) \cup {d}
      /\ \A e \in DOMAIN shown'[h] : shown'[h][e] = IF e = d THEN s ELSE shown[h][e]
  BY <1>1 DEF NetworkTypeOK
<1>4. DOMAIN shown[h] \subseteq Devices /\ todo[h] \cap DOMAIN shown[h] = {}
  BY <1>2 DEF QuietInv, Answering, OneAtHand
<1>5. DOMAIN shown'[h] \subseteq Devices /\ OneAtHand(h)'
  BY <1>2, <1>3, <1>4 DEF OneAtHand
<1>6. ASSUME quiet[h], ~Hidden PROVE AgreesSoFar(h)'
  <2>1. AgreesSoFar(h)
    BY <1>2, <1>6 DEF QuietInv, Answering
  <2>2. s # Unknown <=> HasCoordinates(locations[d])
    BY <1>6, PrecisionKnown DEF NetworkTypeOK, Places
  <2>3. (DOMAIN shown'[h]) \ todo'[h] = (DOMAIN shown[h]) \ todo[h]
    BY <1>2, <1>3
  <2> QED
    BY <1>2, <1>3, <2>1, <2>2, <2>3 DEF AgreesSoFar, HasCoordinates, HasDistance
<1>7. Answering(h)'
  BY <1>2, <1>5, <1>6 DEF Answering
<1> QED
  BY <1>1, <1>7, OneAnswering DEF Describe, NetworkTypeOK

\* It is measured against this device, and is at hand no more.
LEMMA MeasureAnswers ==
  ASSUME NetworkTypeOK, QuietInv, NEW h \in Handlers, NEW d \in Devices, Measure(h, d)
  PROVE  QuietInv'
<1>1. /\ at[h] = "distance" /\ at'[h] = "devices"
      /\ d \in todo[h] \cap DOMAIN shown[h] /\ todo'[h] = todo[h] \ {d}
      /\ locations' = locations /\ shown' = shown /\ quiet' = quiet
      /\ near'[h] = IF HasDistance(locations[Self], peer[h]) THEN near[h] \cup {d}
                    ELSE near[h]
  BY DEF Measure, NetworkTypeOK
<1>2. /\ DOMAIN shown[h] \subseteq Devices
      /\ todo[h] \cap DOMAIN shown[h] = {d}
      /\ quiet[h] => peer[h] = locations[d]
  BY <1>1 DEF QuietInv, Answering, OneAtHand
<1>3. OneAtHand(h)'
  BY <1>1, <1>2 DEF OneAtHand
<1>4. ASSUME quiet[h], ~Hidden PROVE AgreesSoFar(h)'
  <2>1. AgreesSoFar(h)
    BY <1>1, <1>4 DEF QuietInv, Answering
  <2>2. (DOMAIN shown[h]) \ todo'[h] = ((DOMAIN shown[h]) \ todo[h]) \cup {d}
    BY <1>1, <1>2
  <2> QED
    BY <1>1, <1>2, <1>4, <2>1, <2>2 DEF AgreesSoFar, HasDistance, HasCoordinates
<1>5. Answering(h)'
  BY <1>1, <1>2, <1>3, <1>4 DEF Answering
<1> QED
  BY <1>5, OneAnswering DEF Measure, NetworkTypeOK

\* The whole listing is described: this device's own place is shown last.
LEMMA NetworkAnswers ==
  ASSUME NetworkTypeOK, QuietInv, NEW h \in Handlers, AnswerNetwork(h)
  PROVE  QuietInv'
<1>1. PICK s \in ApplyPrecision(locations[Self]) :
        shown' = [shown EXCEPT ![h] = [e \in (DOMAIN shown[h]) \cup {Self} |->
                                         IF e = Self THEN s ELSE shown[h][e]]]
  BY DEF AnswerNetwork, NetworkTypeOK
<1>2. /\ at[h] = "devices" /\ at'[h] = "free" /\ todo[h] = {}
      /\ near' = near /\ quiet' = quiet
  BY DEF AnswerNetwork, NetworkTypeOK
<1>3. /\ DOMAIN shown'[h] = (DOMAIN shown[h]) \cup {Self}
      /\ \A e \in DOMAIN shown'[h] : shown'[h][e] = IF e = Self THEN s ELSE shown[h][e]
  BY <1>1 DEF NetworkTypeOK
<1>4. DOMAIN shown[h] \subseteq Devices /\ Self \notin Devices
  BY <1>2, NetworkAssumption DEF QuietInv, Answering
<1>5. ASSUME quiet[h], ~Hidden PROVE Distances(h)'
  <2>1. AgreesSoFar(h)
    BY <1>2, <1>5 DEF QuietInv, Answering
  <2>2. s # Unknown <=> HasCoordinates(locations[Self])
    BY <1>5, PrecisionKnown DEF NetworkTypeOK, Places
  <2>3. near'[h] = {d \in DOMAIN shown[h] : HasDistance(locations[Self], locations[d])}
    BY <1>2, <2>1 DEF AgreesSoFar
  <2>4. Devices \cap DOMAIN shown'[h] = DOMAIN shown[h]
    BY <1>3, <1>4
  <2>5. shown'[h][Self] = s /\ \A d \in DOMAIN shown[h] : shown'[h][d] = shown[h][d]
    BY <1>3, <1>4
  <2> QED
    BY <2>1, <2>2, <2>3, <2>4, <2>5 DEF Distances, AgreesSoFar, HasDistance
<1>6. Answering(h)'
  BY <1>2, <1>5 DEF Answering
<1> QED
  BY <1>1, <1>6, OneAnswering DEF AnswerNetwork, NetworkTypeOK

\* Every step keeps what a handler that none interrupts has at hand in agreement
\* with what is stored.
LEMMA QuietInvStep == NetworkTypeOK /\ QuietInv /\ [NetworkNext]_networkVars => QuietInv'
<1> SUFFICES ASSUME NetworkTypeOK, QuietInv, [NetworkNext]_networkVars PROVE QuietInv'
  OBVIOUS
<1>1. CASE Change \/ UNCHANGED networkVars
  BY <1>1, AnswerRests DEF Change, networkVars, QuietInv
<1> QED
  BY <1>1, PostAnswers, OwnAnswers, ListAnswers, DescribeAnswers, MeasureAnswers,
     NetworkAnswers DEF NetworkNext, Get

\* An answer of /api/network that no report interrupts gives a distance for just
\* the devices it shows at a place while it shows this one at a place, however
\* many handlers answer at once: the handler's copies of what is stored
\* (OneAtHand, AgreesSoFar) agree with it all along.
THEOREM QuietAnswerCoherentHolds == NetworkSpec => []QuietAnswerCoherent
<1>1. NetworkInit => QuietInv
  BY DEF NetworkInit, QuietInv, Answering, Nowhere
<1>2. QuietInv => QuietAnswerCoherent
  BY DEF QuietInv, Answering, Distances, QuietAnswerCoherent
<1>3. NetworkInv => NetworkTypeOK
  BY DEF NetworkInv
<1> QED
  BY <1>1, <1>2, <1>3, NetworkInvInit, NetworkInvStep, QuietInvStep, PTL DEF NetworkSpec

-----------------------------------------------------------------------------
(* Each part of an answer is of its time *)

\* While h's request is under way, what is stored was stored meanwhile; so was
\* the location it holds of the device at hand, and one of the two of a device
\* it gave no distance was Unknown.
InTime(h) ==
  /\ OfItsTime(h)
  /\ at[h] # "free" => \A d \in Places : locations[d] \in during[h][d]
  /\ at[h] = "distance" =>
       \A d \in todo[h] \cap DOMAIN shown[h] : peer[h] \in during[h][d]
  /\ at[h] \in {"devices", "distance"} =>
       \A d \in (DOMAIN shown[h]) \ (todo[h] \cup near[h]) :
         Unknown \in during[h][d] \cup during[h][Self]

TimeInv == \A h \in Handlers : InTime(h)

\* What is shown of a location is one of those it is among.
LEMMA PrecisionShows ==
  ASSUME ~Hidden, NEW p \in Location, NEW s \in ApplyPrecision(p),
         NEW D, p \in D
  PROVE  ShowsOneOf(s, D)
<1>1. s # Unknown <=> p # Unknown
  BY PrecisionKnown DEF HasCoordinates
<1>2. s = Unknown \/ Coarse(s, p)
  BY PrecisionCoarse
<1> QED
  BY <1>1, <1>2 DEF ShowsOneOf

\* The time of an answer only grows, which keeps it an answer of its time.
LEMMA TimeRests ==
  ASSUME NetworkTypeOK, NEW g \in Handlers, InTime(g),
         at'[g] = at[g], todo'[g] = todo[g], peer'[g] = peer[g],
         shown'[g] = shown[g], near'[g] = near[g],
         \A d \in Places : during[g][d] \subseteq during'[g][d],
         at[g] # "free" => \A d \in Places : locations'[d] \in during'[g][d]
  PROVE  InTime(g)'
<1>1. DOMAIN shown[g] \subseteq Places /\ near[g] \subseteq Places /\ Self \in Places
  <2>1. shown[g] \in Shown /\ near[g] \subseteq Devices
    BY DEF NetworkTypeOK
  <2>2. PICK listing \in SUBSET Places : shown[g] \in [listing -> Location]
    BY <2>1 DEF Shown
  <2> QED BY <2>1, <2>2 DEF Places
<1>2. \A s, D, E : ShowsOneOf(s, D) /\ D \subseteq E => ShowsOneOf(s, E)
  BY DEF ShowsOneOf
<1>3. OfItsTime(g)'
  <2>1. ~Hidden => \A d \in DOMAIN shown'[g] : ShowsOneOf(shown'[g][d], during'[g][d])
    BY <1>1, <1>2 DEF InTime, OfItsTime
  <2> QED
    BY <1>1, <2>1 DEF InTime, OfItsTime, ShowsOneOf
<1> QED
  BY <1>1, <1>3 DEF InTime

\* The requests under way remember what is stored.
LEMMA RemembersRests ==
  ASSUME NEW h \in Handlers, NEW g \in Handlers, Remembers(h)
  PROVE  /\ g # h => \A d \in Places : during[g][d] \subseteq during'[g][d]
         /\ at[g] # "free" \/ g = h =>
              \A d \in Places : locations'[d] \in during'[g][d]
         /\ g = h => \A d \in Places : during'[g][d] = {locations'[d]}
BY DEF Remembers

\* A handler's step: its own answer must be shown to be of its time.
LEMMA OneInTime ==
  ASSUME NetworkTypeOK, TimeInv, NEW h \in Handlers, InTime(h)',
         \A g \in Handlers \ {h} :
           /\ at'[g] = at[g] /\ todo'[g] = todo[g] /\ peer'[g] = peer[g]
           /\ shown'[g] = shown[g] /\ near'[g] = near[g],
         Remembers(h) \/ UNCHANGED <<locations, during>>
  PROVE  TimeInv'
<1>1. ASSUME NEW g \in Handlers \ {h} PROVE InTime(g)'
  <2>1. \A d \in Places : during[g][d] \subseteq during'[g][d]
    BY RemembersRests
  <2>2. at[g] # "free" => \A d \in Places : locations'[d] \in during'[g][d]
    BY RemembersRests DEF TimeInv, InTime
  <2>3. InTime(g)
    BY DEF TimeInv
  <2> QED
    BY <1>1, <2>1, <2>2, <2>3, TimeRests
<1> QED
  BY <1>1 DEF TimeInv

\* A report is what is shown of it, or shows nothing yet.
LEMMA PostInTime ==
  ASSUME NetworkTypeOK, NetworkTypeOK', TimeInv, NEW h \in Handlers, Post(h)
  PROVE  TimeInv'
<1>0. Self \in Places /\ DOMAIN Nowhere = {}
  BY DEF Places, Nowhere
<1>1. ASSUME Fail(h) PROVE TimeInv'
  <2>1. at'[h] = "free" /\ DOMAIN shown'[h] = {} /\ near'[h] = {}
    BY <1>0, <1>1 DEF Fail, Begin, NetworkTypeOK
  <2>2. InTime(h)'
    BY <2>1 DEF InTime, OfItsTime
  <2> QED
    BY <1>1, <2>2, OneInTime DEF Fail, Begin, NetworkTypeOK
<1>2. ASSUME NEW lat, NEW lon, SetOwn(h, lat, lon) PROVE TimeInv'
  <2>1. at'[h] = "answer own" /\ DOMAIN shown'[h] = {} /\ near'[h] = {}
    BY <1>0, <1>2 DEF SetOwn, Begin, NetworkTypeOK
  <2>2. \A d \in Places : locations'[d] \in during'[h][d]
    BY <1>2, RemembersRests DEF SetOwn
  <2>3. InTime(h)'
    BY <2>1, <2>2 DEF InTime, OfItsTime
  <2> QED
    BY <1>2, <2>3, OneInTime DEF SetOwn, Begin, NetworkTypeOK
<1>3. ASSUME NEW d \in Devices, NEW lat, NEW lon, SetPeer(h, d, lat, lon)
      PROVE  TimeInv'
  <2>1. PICK s \in ApplyPrecision(MakeLocation(lat, lon)) :
          shown' = [shown EXCEPT ![h] = [e \in {d} |-> s]]
    BY <1>3 DEF SetPeer
  <2>2. /\ at'[h] = "free" /\ near'[h] = {}
        /\ DOMAIN shown'[h] = {d} /\ shown'[h][d] = s
    BY <1>3, <2>1 DEF SetPeer, Begin, NetworkTypeOK
  <2>3. d \in Places /\ d # Self
    BY NetworkAssumption DEF Places
  <2>4. MakeLocation(lat, lon) \in during'[h][d]
    <3>1. locations'[d] \in during'[h][d]
      BY <1>3, <2>3, RemembersRests DEF SetPeer
    <3>2. locations'[d] = MakeLocation(lat, lon)
      BY <1>3, <2>3 DEF SetPeer, Report, NetworkTypeOK
    <3> QED BY <3>1, <3>2
  <2>5. ~Hidden => ShowsOneOf(s, during'[h][d])
    BY <2>4, PrecisionShows, MakeLocationType
  <2>6. OfItsTime(h)'
    BY <2>2, <2>3, <2>5 DEF OfItsTime, ShowsOneOf
  <2>7. InTime(h)'
    BY <2>2, <2>6 DEF InTime
  <2> QED
    BY <1>3, <2>1, <2>7, OneInTime DEF SetPeer, Begin, NetworkTypeOK
<1> QED
  BY <1>1, <1>2, <1>3 DEF Post

\* The listing starts with nothing shown.
LEMMA ListInTime ==
  ASSUME NetworkTypeOK, TimeInv, NEW h \in Handlers, List(h)
  PROVE  TimeInv'
<1>1. at'[h] = "devices" /\ DOMAIN shown'[h] = {} /\ near'[h] = {}
  BY DEF List, Begin, NetworkTypeOK, Nowhere
<1>2. \A d \in Places : locations'[d] \in during'[h][d]
  BY RemembersRests DEF List
<1>3. InTime(h)'
  BY <1>1, <1>2 DEF InTime, OfItsTime
<1> QED
  BY <1>3, OneInTime DEF List, Begin, NetworkTypeOK

\* What is added to an answer is what is stored while the request runs.
LEMMA ShownInTime ==
  ASSUME NetworkTypeOK, TimeInv, NEW h \in Handlers, at[h] # "free",
         NEW d \in Places, NEW L, DOMAIN shown'[h] = L \cup {d},
         L \subseteq DOMAIN shown[h],
         NEW s \in ApplyPrecision(locations[d]), shown'[h][d] = s,
         \A e \in L \ {d} : shown'[h][e] = shown[h][e],
         during' = during
  PROVE  ~Hidden =>
           \A e \in DOMAIN shown'[h] : ShowsOneOf(shown'[h][e], during'[h][e])
<1>1. locations[d] \in during[h][d] /\ locations[d] \in Location
  BY DEF TimeInv, InTime, NetworkTypeOK
<1>2. ~Hidden => ShowsOneOf(s, during[h][d])
  BY <1>1, PrecisionShows
<1>3. ~Hidden =>
        \A e \in DOMAIN shown[h] : ShowsOneOf(shown[h][e], during[h][e])
  BY DEF TimeInv, InTime, OfItsTime
<1> QED
  BY <1>2, <1>3

\* The answer to a report of this device's own location reads it again.
LEMMA OwnInTime ==
  ASSUME NetworkTypeOK, TimeInv, NEW h \in Handlers, AnswerOwn(h)
  PROVE  TimeInv'
<1>1. PICK s \in ApplyPrecision(locations[Self]) :
        shown' = [shown EXCEPT ![h] = [d \in {Self} |-> s]]
  BY DEF AnswerOwn
<1>2. DOMAIN shown'[h] = {Self} /\ shown'[h][Self] = s /\ Self \notin Devices
  BY <1>1, NetworkAssumption DEF NetworkTypeOK
<1>3. /\ at[h] = "answer own" /\ at'[h] = "free"
      /\ near' = near /\ during' = during /\ locations' = locations
  BY DEF AnswerOwn, NetworkTypeOK
<1>4. Self \in Places
  BY DEF Places
<1>5. ~Hidden =>
        \A e \in DOMAIN shown'[h] : ShowsOneOf(shown'[h][e], during'[h][e])
  <2> DEFINE L == {}
  <2>1. DOMAIN shown'[h] = L \cup {Self} /\ L \subseteq DOMAIN shown[h]
    BY <1>2
  <2>2. at[h] # "free" /\ \A e \in L \ {Self} : shown'[h][e] = shown[h][e]
    BY <1>3
  <2> HIDE DEF L
  <2> QED
    BY <1>2, <1>3, <1>4, <2>1, <2>2, ShownInTime
<1>6. OfItsTime(h)'
  BY <1>2, <1>3, <1>5 DEF OfItsTime, TimeInv, InTime
<1>7. InTime(h)'
  BY <1>3, <1>6 DEF InTime
<1> QED
  BY <1>1, <1>3, <1>7, OneInTime DEF AnswerOwn, NetworkTypeOK

\* One device described: its location is at hand.
LEMMA DescribeInTime ==
  ASSUME NetworkTypeOK, QuietInv, TimeInv, NEW h \in Handlers, NEW d \in Devices,
         Describe(h, d)
  PROVE  TimeInv'
<1>1. PICK s \in ApplyPrecision(locations[d]) :
        shown' = [shown EXCEPT ![h] = [e \in (DOMAIN shown[h]) \cup {d} |->
                                         IF e = d THEN s ELSE shown[h][e]]]
  BY DEF Describe, PeerOf, NetworkTypeOK
<1>2. /\ at[h] = "devices" /\ at'[h] = "distance" /\ d \in todo[h]
      /\ todo' = todo /\ near' = near /\ during' = during
      /\ locations' = locations /\ peer'[h] = locations[d]
  BY DEF Describe, PeerOf, NetworkTypeOK
<1>3. /\ DOMAIN shown'[h] = (DOMAIN shown[h]) \cup {d}
      /\ \A e \in DOMAIN shown'[h] : shown'[h][e] = IF e = d THEN s ELSE shown[h][e]
  BY <1>1 DEF NetworkTypeOK
<1>4. /\ DOMAIN shown[h] \subseteq Devices /\ todo[h] \cap DOMAIN shown[h] = {}
      /\ d \in Places /\ Self \notin Devices
  BY <1>2, NetworkAssumption DEF QuietInv, Answering, OneAtHand, Places
<1>5. ~Hidden =>
        \A e \in DOMAIN shown'[h] : ShowsOneOf(shown'[h][e], during'[h][e])
  BY <1>2, <1>3, <1>4, ShownInTime
<1>6. OfItsTime(h)'
  BY <1>2, <1>3, <1>4, <1>5 DEF OfItsTime, TimeInv, InTime
<1>7. \A e \in Places : locations'[e] \in during'[h][e]
  BY <1>2 DEF TimeInv, InTime
<1>8. \A e \in todo'[h] \cap DOMAIN shown'[h] : peer'[h] \in during'[h][e]
  BY <1>2, <1>3, <1>4, <1>7
<1>9. \A e \in (DOMAIN shown'[h]) \ (todo'[h] \cup near'[h]) :
        Unknown \in during'[h][e] \cup during'[h][Self]
  BY <1>2, <1>3 DEF TimeInv, InTime
<1>10. InTime(h)'
  BY <1>2, <1>6, <1>7, <1>8, <1>9 DEF InTime
<1> QED
  BY <1>1, <1>2, <1>10, OneInTime DEF Describe, NetworkTypeOK

\* Its distance is given if both are at a place.
LEMMA MeasureInTime ==
  ASSUME NetworkTypeOK, QuietInv, TimeInv, NEW h \in Handlers, NEW d \in Devices,
         Measure(h, d)
  PROVE  TimeInv'
<1>1. /\ at[h] = "distance" /\ at'[h] = "devices"
      /\ d \in todo[h] \cap DOMAIN shown[h] /\ todo'[h] = todo[h] \ {d}
      /\ locations' = locations /\ shown' = shown /\ during' = during
      /\ near'[h] = IF HasDistance(locations[Self], peer[h]) THEN near[h] \cup {d}
                    ELSE near[h]
  BY DEF Measure, NetworkTypeOK
<1>2. todo[h] \cap DOMAIN shown[h] = {d} /\ DOMAIN shown[h] \subseteq Devices
  BY <1>1 DEF QuietInv, Answering, OneAtHand
<1>3. peer[h] \in during[h][d] /\ locations[Self] \in during[h][Self]
  BY <1>1 DEF TimeInv, InTime, Places
<1>4. Self \notin DOMAIN shown[h]
  BY <1>2, NetworkAssumption
<1>5. OfItsTime(h)'
  <2>1. \A e \in near'[h] :
          during[h][e] \ {Unknown} # {} /\ during[h][Self] \ {Unknown} # {}
    BY <1>1, <1>3 DEF TimeInv, InTime, OfItsTime, HasDistance, HasCoordinates
  <2> QED
    BY <1>1, <1>4, <2>1 DEF OfItsTime, TimeInv, InTime
<1>6. \A e \in (DOMAIN shown'[h]) \ (todo'[h] \cup near'[h]) :
        Unknown \in during'[h][e] \cup during'[h][Self]
  <2> SUFFICES ASSUME NEW e \in (DOMAIN shown[h]) \ (todo'[h] \cup near'[h])
               PROVE  Unknown \in during[h][e] \cup during[h][Self]
    BY <1>1
  <2>1. CASE e = d
    BY <1>1, <1>3, <2>1 DEF HasDistance, HasCoordinates
  <2>2. CASE e # d
    BY <1>1, <2>2 DEF TimeInv, InTime
  <2> QED BY <2>1, <2>2
<1>7. \A e \in Places : locations'[e] \in during'[h][e]
  BY <1>1 DEF TimeInv, InTime
<1>8. InTime(h)'
  BY <1>1, <1>5, <1>6, <1>7 DEF InTime
<1> QED
  BY <1>1, <1>8, OneInTime DEF Measure, NetworkTypeOK

\* The whole listing is described: this device's own place is shown last.
LEMMA NetworkInTime ==
  ASSUME NetworkTypeOK, QuietInv, TimeInv, NEW h \in Handlers, AnswerNetwork(h)
  PROVE  TimeInv'
<1>1. PICK s \in ApplyPrecision(locations[Self]) :
        shown' = [shown EXCEPT ![h] = [e \in (DOMAIN shown[h]) \cup {Self} |->
                                         IF e = Self THEN s ELSE shown[h][e]]]
  BY DEF AnswerNetwork, NetworkTypeOK
<1>2. /\ at[h] = "devices" /\ at'[h] = "free" /\ todo[h] = {}
      /\ near' = near /\ during' = during /\ locations' = locations
  BY DEF AnswerNetwork, NetworkTypeOK
<1>3. /\ DOMAIN shown'[h] = (DOMAIN shown[h]) \cup {Self}
      /\ \A e \in DOMAIN shown'[h] : shown'[h][e] = IF e = Self THEN s ELSE shown[h][e]
  BY <1>1 DEF NetworkTypeOK
<1>4. DOMAIN shown[h] \subseteq Devices /\ Self \notin Devices /\ Self \in Places
  BY <1>2, NetworkAssumption DEF QuietInv, Answering, Places
<1>5. ~Hidden =>
        \A e \in DOMAIN shown'[h] : ShowsOneOf(shown'[h][e], during'[h][e])
  BY <1>2, <1>3, <1>4, ShownInTime
<1>6. \A e \in (Devices \cap DOMAIN shown'[h]) \ near'[h] :
        Unknown \in during'[h][e] \cup during'[h][Self]
  BY <1>2, <1>3, <1>4 DEF TimeInv, InTime
<1>7. OfItsTime(h)'
  BY <1>2, <1>5, <1>6 DEF OfItsTime, TimeInv, InTime
<1>8. InTime(h)'
  BY <1>2, <1>7 DEF InTime
<1> QED
  BY <1>1, <1>2, <1>8, OneInTime DEF AnswerNetwork, NetworkTypeOK

\* Every step keeps the answers of their time.
LEMMA TimeInvStep ==
  /\ NetworkTypeOK /\ NetworkTypeOK' /\ QuietInv /\ TimeInv
  /\ [NetworkNext]_networkVars
  => TimeInv'
<1> SUFFICES ASSUME NetworkTypeOK, NetworkTypeOK', QuietInv, TimeInv,
                    [NetworkNext]_networkVars
             PROVE  TimeInv'
  OBVIOUS
<1>1. CASE Change \/ UNCHANGED networkVars
  <2>1. ASSUME NEW g \in Handlers PROVE InTime(g)'
    <3>1. InTime(g)
      BY DEF TimeInv
    <3>2. UNCHANGED <<locations, at, todo, peer, shown, near, during>>
      BY <1>1 DEF Change, networkVars
    <3>3. at[g] # "free" => \A d \in Places : locations'[d] \in during'[g][d]
      BY <3>1, <3>2 DEF InTime
    <3> QED
      BY <3>1, <3>2, <3>3, TimeRests
  <2> QED BY <2>1 DEF TimeInv
<1> QED
  BY <1>1, PostInTime, OwnInTime, ListInTime, DescribeInTime, MeasureInTime,
     NetworkInTime DEF NetworkNext, Get

\* However the reports of the handlers interleave with an answer of
\* /api/network or of POST /api/location, each part of the answer was true at
\* some moment of the request: the places, the devices that are nowhere, the
\* distances given and those missing (portal/server.py:312-341, 466-493).
THEOREM AnswersOfTheirTimeHolds == NetworkSpec => []AnswersOfTheirTime
<1>1. NetworkInit => TimeInv
  BY DEF NetworkInit, TimeInv, InTime, OfItsTime, Nowhere
<1>2. NetworkInit => QuietInv
  BY DEF NetworkInit, QuietInv, Answering, Nowhere
<1>3. NetworkInv => NetworkTypeOK
  BY DEF NetworkInv
<1>4. TimeInv => AnswersOfTheirTime
  BY DEF TimeInv, InTime, AnswersOfTheirTime
<1> QED
  BY <1>1, <1>2, <1>3, <1>4, NetworkInvInit, NetworkInvStep, QuietInvStep,
     TimeInvStep, PTL DEF NetworkSpec

-----------------------------------------------------------------------------
(* The recent records *)

\* What is listed before a record was asked for after that was inserted.
Ahead ==
  \A i, j \in 1 .. Len(recent) : i < j => recent[i] \in since[recent[j]]

\* What was inserted and is gone has been displaced.
Displaced ==
  \A r \in DOMAIN since : Known(r) \/ Cardinality(since[r]) >= Limit

\* KeptUntilDisplaced is not inductive without Ahead, by which a cut finds the
\* records that displaced what it drops, and without the finiteness of what is
\* counted.
RecentInv ==
  /\ recent \in Seq(Records)
  /\ \A r \in DOMAIN since : r \in Records /\ IsFiniteSet(since[r])
  /\ \A i \in 1 .. Len(recent) : recent[i] \in DOMAIN since
  /\ stage \in [Viewers -> {"free", "cut", "copy"}]
  /\ IsFiniteSet(Cutting)
  /\ RecentDistinct
  /\ Ahead
  /\ Displaced
  /\ Len(recent) <= Limit + Cardinality(Cutting)

\* A record put in front: the others move by one.
LEMMA InFront ==
  ASSUME NEW s \in Seq(Records), NEW r \in Records
  PROVE  /\ <<r>> \o s \in Seq(Records)
         /\ Len(<<r>> \o s) = Len(s) + 1
         /\ (<<r>> \o s)[1] = r
         /\ \A i \in 2 .. Len(s) + 1 : (<<r>> \o s)[i] = s[i - 1]
OBVIOUS

\* What the cut keeps.
LEMMA NewestKeeps ==
  ASSUME NEW s \in Seq(Records)
  PROVE  /\ Newest(s) \in Seq(Records)
         /\ Len(Newest(s)) = IF Len(s) < Limit THEN Len(s) ELSE Limit
         /\ \A i \in 1 .. Len(Newest(s)) : Newest(s)[i] = s[i]
BY RecentAssumption DEF Newest

\* A record is known by its place in the list.
LEMMA KnownPlace ==
  ASSUME recent \in Seq(Records), NEW r
  PROVE  Known(r) <=> \E i \in 1 .. Len(recent) : recent[i] = r
BY DEF Known, Range

\* What a request for r leaves of the history.
LEMMA NoteKeeps ==
  ASSUME RecentInv, NEW r \in Records, Note(r)
  PROVE  /\ DOMAIN since' = DOMAIN since \cup {r}
         /\ \A x \in DOMAIN since : x # r => since'[x] = since[x] \cup {r}
         /\ since'[r] = IF Known(r) THEN since[r] ELSE {}
         /\ \A x \in DOMAIN since' : x \in Records /\ IsFiniteSet(since'[x])
         /\ \A x \in DOMAIN since :
              x # r => Cardinality(since'[x]) >= Cardinality(since[x])
<1>1. /\ DOMAIN since' = DOMAIN since \cup {r}
      /\ \A x \in DOMAIN since : x # r => since'[x] = since[x] \cup {r}
      /\ since'[r] = IF Known(r) THEN since[r] ELSE {}
  BY DEF Note
<1>2. Known(r) => r \in DOMAIN since
  BY KnownPlace DEF RecentInv
<1>3. ASSUME NEW x \in DOMAIN since, x # r
      PROVE  /\ IsFiniteSet(since'[x])
             /\ Cardinality(since'[x]) >= Cardinality(since[x])
  <2>1. IsFiniteSet(since[x])
    BY DEF RecentInv
  <2>2. Cardinality(since[x]) \in Nat
    BY <2>1, FS_CardinalityType
  <2>3. /\ IsFiniteSet(since[x] \cup {r})
        /\ Cardinality(since[x] \cup {r}) =
             IF r \in since[x] THEN Cardinality(since[x])
             ELSE Cardinality(since[x]) + 1
    BY <2>1, FS_AddElement
  <2> QED BY <1>1, <1>3, <2>2, <2>3
<1>4. IsFiniteSet(since'[r])
  BY <1>1, <1>2, FS_EmptySet DEF RecentInv
<1> QED BY <1>1, <1>3, <1>4 DEF RecentInv

\* A portal starts with no records.
LEMMA RecentInvInit == RecentInit => RecentInv
<1> SUFFICES ASSUME RecentInit PROVE RecentInv
  OBVIOUS
<1>1. Cutting = {}
  BY DEF RecentInit, Cutting
<1> QED
  BY <1>1, FS_EmptySet, RecentAssumption
  DEF RecentInit, RecentInv, RecentDistinct, IsInjective, Ahead, Displaced

\* A record that is asked for again stays where it is.
LEMMA AskedAgain ==
  ASSUME RecentInv, NEW h \in Viewers, NEW r \in Records, Insert(h, r), Known(r)
  PROVE  RecentInv'
<1> USE DEF RecentInv
<1>1. Note(r) /\ recent' = recent /\ stage' = [stage EXCEPT ![h] = "copy"]
      /\ stage[h] = "free"
  BY DEF Insert
<1>2. Cutting' = Cutting
  BY <1>1 DEF Cutting
<1>3. /\ DOMAIN since' = DOMAIN since \cup {r}
      /\ \A x \in DOMAIN since : x # r => since'[x] = since[x] \cup {r}
      /\ since'[r] = since[r]
      /\ \A x \in DOMAIN since' : x \in Records /\ IsFiniteSet(since'[x])
      /\ \A x \in DOMAIN since :
           x # r => Cardinality(since'[x]) >= Cardinality(since[x])
  BY <1>1, NoteKeeps
<1>4. Ahead'
  BY <1>1, <1>3 DEF Ahead
<1>5. Displaced'
  <2> SUFFICES ASSUME NEW x \in DOMAIN since', ~Known(x)'
               PROVE  Cardinality(since'[x]) >= Limit
    BY DEF Displaced
  <2>1. x # r /\ x \in DOMAIN since /\ ~Known(x)
    BY <1>1, <1>3 DEF Known
  <2>2. /\ Cardinality(since[x]) \in Nat /\ Cardinality(since'[x]) \in Nat
        /\ Cardinality(since[x]) >= Limit
    BY <1>3, <2>1, FS_CardinalityType DEF Displaced
  <2> QED BY <1>3, <2>1, <2>2, RecentAssumption
<1> QED
  BY <1>1, <1>2, <1>3, <1>4, <1>5 DEF RecentDistinct

\* A record that is not listed goes to the front, ahead of all the others.
LEMMA PutInFront ==
  ASSUME RecentInv, NEW h \in Viewers, NEW r \in Records, Insert(h, r), ~Known(r)
  PROVE  RecentInv'
<1> USE DEF RecentInv
<1>0. Cardinality(Cutting) \in Nat
  BY FS_CardinalityType
<1>1. /\ recent' = <<r>> \o recent /\ Note(r)
      /\ stage' = [stage EXCEPT ![h] = "cut"] /\ stage[h] = "free"
  BY DEF Insert
<1>2. Cutting' = Cutting \cup {h} /\ h \notin Cutting
  BY <1>1 DEF Cutting
<1>3. /\ IsFiniteSet(Cutting')
      /\ Cardinality(Cutting') = Cardinality(Cutting) + 1
  BY <1>2, FS_AddElement
<1>4. /\ recent' \in Seq(Records) /\ Len(recent') = Len(recent) + 1
      /\ recent'[1] = r
      /\ \A i \in 2 .. Len(recent) + 1 : recent'[i] = recent[i - 1]
  BY <1>1, InFront
<1>5. /\ DOMAIN since' = DOMAIN since \cup {r}
      /\ \A x \in DOMAIN since : x # r => since'[x] = since[x] \cup {r}
      /\ \A x \in DOMAIN since' : x \in Records /\ IsFiniteSet(since'[x])
      /\ \A x \in DOMAIN since :
           x # r => Cardinality(since'[x]) >= Cardinality(since[x])
  BY <1>1, NoteKeeps
<1>6. \A i \in 1 .. Len(recent) : recent[i] # r
  BY KnownPlace
<1>7. ASSUME NEW i \in 1 .. Len(recent'), NEW j \in 1 .. Len(recent'),
             recent'[i] = recent'[j]
      PROVE  i = j
  <2>1. CASE i = 1 \/ j = 1
    BY <1>4, <1>6, <1>7, <2>1
  <2>2. CASE i # 1 /\ j # 1
    <3>1. /\ i - 1 \in 1 .. Len(recent) /\ j - 1 \in 1 .. Len(recent)
          /\ recent[i - 1] = recent[j - 1]
      BY <1>4, <1>7, <2>2
    <3>2. i - 1 = j - 1
      BY <3>1 DEF RecentDistinct, IsInjective
    <3> QED BY <3>2
  <2> QED BY <2>1, <2>2
<1>8. RecentDistinct'
  BY <1>4, <1>7 DEF RecentDistinct, IsInjective
<1>9. \A i \in 1 .. Len(recent') : recent'[i] \in DOMAIN since'
  <2> SUFFICES ASSUME NEW i \in 1 .. Len(recent')
               PROVE  recent'[i] \in DOMAIN since'
    OBVIOUS
  <2>1. CASE i = 1
    BY <1>4, <1>5, <2>1
  <2>2. CASE i # 1
    <3>1. i - 1 \in 1 .. Len(recent) /\ recent'[i] = recent[i - 1]
      BY <1>4, <2>2
    <3> QED BY <1>5, <3>1
  <2> QED BY <2>1, <2>2
<1>10. Ahead'
  <2> SUFFICES ASSUME NEW i \in 1 .. Len(recent'), NEW j \in 1 .. Len(recent'),
                      i < j
               PROVE  recent'[i] \in since'[recent'[j]]
    BY DEF Ahead
  <2>1. j - 1 \in 1 .. Len(recent) /\ recent'[j] = recent[j - 1]
    BY <1>4
  <2>2. since'[recent'[j]] = since[recent[j - 1]] \cup {r}
    BY <1>5, <1>6, <2>1
  <2>3. CASE i = 1
    BY <1>4, <2>2, <2>3
  <2>4. CASE i # 1
    <3>1. i - 1 \in 1 .. Len(recent) /\ recent'[i] = recent[i - 1] /\ i - 1 < j - 1
      BY <1>4, <2>4
    <3>2. recent[i - 1] \in since[recent[j - 1]]
      BY <2>1, <3>1 DEF Ahead
    <3> QED BY <2>2, <3>1, <3>2
  <2> QED BY <2>3, <2>4
<1>11. Displaced'
  <2> SUFFICES ASSUME NEW x \in DOMAIN since', ~Known(x)'
               PROVE  Cardinality(since'[x]) >= Limit
    BY DEF Displaced
  <2>0. \A i \in 1 .. Len(recent') : recent'[i] # x
    <3>1. DOMAIN recent' = 1 .. Len(recent')
      BY <1>4
    <3> QED BY <3>1 DEF Known, Range
  <2>1. x # r /\ x \in DOMAIN since
    BY <1>4, <1>5, <2>0
  <2>2. ~Known(x)
    <3> SUFFICES ASSUME NEW i \in 1 .. Len(recent) PROVE recent[i] # x
      BY KnownPlace
    <3>1. i + 1 \in 1 .. Len(recent') /\ recent'[i + 1] = recent[i]
      BY <1>4
    <3> QED BY <2>0, <3>1
  <2>3. /\ Cardinality(since[x]) \in Nat /\ Cardinality(since'[x]) \in Nat
        /\ Cardinality(since[x]) >= Limit
    BY <1>5, <2>1, <2>2, FS_CardinalityType DEF Displaced
  <2> QED BY <1>5, <2>1, <2>3, RecentAssumption
<1>12. Len(recent') <= Limit + Cardinality(Cutting')
  BY <1>0, <1>3, <1>4, RecentAssumption
<1>13. stage' \in [Viewers -> {"free", "cut", "copy"}]
  BY <1>1
<1> QED
  BY <1>3, <1>4, <1>5, <1>8, <1>9, <1>10, <1>11, <1>12, <1>13

\* What a cut drops has the Limit records that stay ahead of it.
LEMMA CutDisplaces ==
  ASSUME RecentInv, NEW k \in 1 .. Len(recent), k > Limit
  PROVE  Cardinality(since[recent[k]]) >= Limit
<1> DEFINE S == since[recent[k]]
           f == [i \in 1 .. Limit |-> recent[i]]
<1> USE RecentAssumption DEF RecentInv
<1>1. Limit \in Nat /\ Len(recent) \in Nat /\ \A i \in 1 .. Limit : i \in 1 .. Len(recent)
  OBVIOUS
<1>2. f \in [1 .. Limit -> S]
  BY <1>1 DEF Ahead
<1>3. \A i, j \in 1 .. Limit : f[i] = f[j] => i = j
  BY <1>1 DEF RecentDistinct, IsInjective
<1>4. f \in Injection(1 .. Limit, S)
  BY <1>2, <1>3 DEF Injection, IsInjective
<1>5. IsFiniteSet(S)
  OBVIOUS
<1> HIDE DEF f, S
<1>6. Cardinality(1 .. Limit) <= Cardinality(S)
  BY <1>4, <1>5, FS_Injection
<1>7. Cardinality(1 .. Limit) = Limit /\ Cardinality(S) \in Nat
  BY <1>1, <1>5, FS_Interval, FS_CardinalityType
<1> QED BY <1>6, <1>7 DEF S

\* A cut drops only what is displaced.
LEMMA CutKeeps ==
  ASSUME RecentInv, NEW h \in Viewers, Cut(h)
  PROVE  RecentInv'
<1> USE RecentAssumption DEF RecentInv
<1>1. /\ recent' = Newest(recent) /\ since' = since
      /\ stage' = [stage EXCEPT ![h] = "copy"] /\ stage[h] = "cut"
  BY DEF Cut
<1>2. /\ recent' \in Seq(Records)
      /\ Len(recent') = IF Len(recent) < Limit THEN Len(recent) ELSE Limit
      /\ \A i \in 1 .. Len(recent') : recent'[i] = recent[i]
  BY <1>1, NewestKeeps
<1>3. Cutting' = Cutting \ {h}
  BY <1>1 DEF Cutting
<1>4. IsFiniteSet(Cutting') /\ Cardinality(Cutting') \in Nat
  BY <1>3, FS_RemoveElement, FS_CardinalityType
<1>5. Len(recent) \in Nat /\ Len(recent') <= Len(recent) /\ Len(recent') \in Nat
  BY <1>2
<1>6. RecentDistinct'
  BY <1>2, <1>5 DEF RecentDistinct, IsInjective
<1>7. Ahead'
  BY <1>1, <1>2, <1>5 DEF Ahead
<1>8. Displaced'
  <2> SUFFICES ASSUME NEW x \in DOMAIN since, ~Known(x)'
               PROVE  Cardinality(since[x]) >= Limit
    BY <1>1 DEF Displaced
  <2>1. CASE Known(x)
    <3>1. PICK k \in 1 .. Len(recent) : recent[k] = x
      BY <2>1, KnownPlace
    <3>2. k \notin 1 .. Len(recent')
      BY <1>2, <3>1 DEF Known, Range
    <3>3. k > Limit
      BY <1>2, <3>2
    <3> QED BY <3>1, <3>3, CutDisplaces
  <2>2. CASE ~Known(x)
    BY <2>2 DEF Displaced
  <2> QED BY <2>1, <2>2
<1>9. Len(recent') <= Limit
  BY <1>2
<1>10. stage' \in [Viewers -> {"free", "cut", "copy"}]
  BY <1>1
<1> QED
  BY <1>1, <1>2, <1>4, <1>5, <1>6, <1>7, <1>8, <1>9, <1>10

\* Every step of every viewer keeps it, those that overlap another's included.
LEMMA RecentInvNext == RecentInv /\ [RecentNext]_recentVars => RecentInv'
<1> SUFFICES ASSUME RecentInv, [RecentNext]_recentVars PROVE RecentInv'
  OBVIOUS
<1>1. ASSUME NEW h \in Viewers, NEW r \in Records, Insert(h, r) PROVE RecentInv'
  BY <1>1, AskedAgain, PutInFront
<1>2. ASSUME NEW h \in Viewers, Cut(h) PROVE RecentInv'
  BY <1>2, CutKeeps
<1>3. ASSUME NEW h \in Viewers, Copy(h) PROVE RecentInv'
  <2>1. Cutting' = Cutting
    BY <1>3 DEF Copy, Cutting
  <2> QED
    BY <1>3, <2>1 DEF Copy, RecentInv, RecentDistinct, Ahead, Displaced, Known
<1>4. CASE UNCHANGED recentVars
  BY <1>4 DEF recentVars, Cutting, RecentInv, RecentDistinct, Ahead, Displaced, Known
<1> QED BY <1>1, <1>2, <1>3, <1>4 DEF RecentNext

\* However many handlers look at records at once, and wherever they are
\* between the insertion and the cut, no record is listed twice
\* (portal/server.py:380-384).
THEOREM RecentDistinctHolds == RecentSpec => []RecentDistinct
<1>1. RecentInv => RecentDistinct
  BY DEF RecentInv
<1> QED BY <1>1, RecentInvInit, RecentInvNext, PTL DEF RecentSpec

\* ... and what was inserted stays until Limit others were asked for after it,
\* with at most one record beyond the limit for each handler about to cut
\* (portal/server.py:380-384).
THEOREM KeptUntilDisplacedHolds == RecentSpec => []KeptUntilDisplaced
<1>1. RecentInv => KeptUntilDisplaced
  BY DEF RecentInv, Displaced, KeptUntilDisplaced
<1> QED BY <1>1, RecentInvInit, RecentInvNext, PTL DEF RecentSpec
=============================================================================
