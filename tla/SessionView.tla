----------------------------- MODULE SessionView -----------------------------
(***************************************************************************)
(* session_summary, read while threads call the client: what the command   *)
(* loop prints, and what the portal's handlers show through session_view   *)
(* and api_status.  It takes no lock, and is read in four steps, divided   *)
(* by the calls in it: the remaining lease; the flags of lease_state; the  *)
(* remaining lease again; the attributes.  The clock runs beside it.       *)
(***************************************************************************)
EXTENDS DeviceSystem, Integers

CONSTANTS
  Expiry,   \* Expiry[c]: lease_expires_at that the host gives connection c,
            \* None when there is none or it is not a date
  Soon,     \* five minutes
  MaxNow    \* bound on the clock

ASSUME ViewAssumption ==
  /\ Expiry \in [Conns -> Nat \cup {None}]
  /\ Soon \in Nat /\ MaxNow \in Nat
  /\ None \notin Int \cup {"ACTIVE"}

VARIABLES
  now,        \* the client's clock
  reading,    \* the step the reader is at
  summary,    \* what it has read of the next summary
  displayed,  \* the last summary
  disturbed,  \* history: a call was in progress during the reading
  alone       \* history: none was during the reading of displayed

viewVars == <<now, reading, summary, displayed, disturbed, alone>>
svVars == <<vars, viewVars>>

Blank == [remaining |-> None, status |-> "DISCONNECTED",
          connId |-> None, token |-> None, lease |-> None]

ViewInit ==
  /\ now = 0
  /\ reading = "remaining"
  /\ summary = Blank /\ displayed = Blank
  /\ disturbed = FALSE /\ alone = TRUE

-----------------------------------------------------------------------------
\* Mutant of RemainingOf: the lease counted from its end.
RemainingOfElapsed(c) ==
  IF c = None THEN None
  ELSE IF Expiry[c] = None THEN None ELSE now - Expiry[c]

\* lease_remaining_seconds: an attribute that another thread clears between
\* the test and its use is an exception, and None like one that is not a date.
RemainingOf(c) ==
  IF c = None THEN None
  ELSE IF Expiry[c] = None THEN None ELSE Expiry[c] - now

\* Mutant of StatusOf: a lease with nothing left is not expired yet.
StatusOfLate(remaining) ==
  IF remaining = None THEN "ONLINE"
  ELSE CASE remaining < 0 -> "EXPIRED"
         [] remaining \in 0 .. Soon -> "EXPIRING"
         [] remaining > Soon -> "ONLINE"

\* lease_state, once the flags say registered.
StatusOf(remaining) ==
  IF remaining = None THEN "ONLINE"
  ELSE CASE remaining <= 0 -> "EXPIRED"
         [] remaining \in 1 .. Soon -> "EXPIRING"
         [] remaining > Soon -> "ONLINE"

Proceed(from, to) == reading = from /\ reading' = to

ReadRemaining ==
  /\ Proceed("remaining", "flags")
  /\ summary' = [Blank EXCEPT !.remaining = RemainingOf(lease)]
  /\ disturbed' = ~Idle
  /\ UNCHANGED <<now, displayed, alone>>

ReadFlags ==
  /\ Proceed("flags", IF LeaseState = "ONLINE" THEN "expiry" ELSE "rest")
  /\ summary' = [summary EXCEPT !.status = LeaseState]
  /\ UNCHANGED <<now, displayed, disturbed, alone>>

ReadExpiry ==
  /\ Proceed("expiry", "rest")
  /\ summary' = [summary EXCEPT !.status = StatusOf(RemainingOf(lease))]
  /\ UNCHANGED <<now, displayed, disturbed, alone>>

ReadRest ==
  /\ Proceed("rest", "remaining")
  /\ displayed' = [summary EXCEPT !.connId = connId, !.token = token, !.lease = lease]
  /\ alone' = ~disturbed
  /\ summary' = Blank /\ disturbed' = FALSE
  /\ UNCHANGED now

Tick ==
  /\ now < MaxNow
  /\ now' = now + 1
  /\ UNCHANGED <<reading, summary, displayed, disturbed, alone>>

Summarize == ReadRemaining \/ ReadFlags \/ ReadExpiry \/ ReadRest

\* A step of the client, of the host or of the network.
SystemStep ==
  /\ Next
  /\ disturbed' = (disturbed \/ (reading # "remaining" /\ ~Idle'))
  /\ UNCHANGED <<now, reading, summary, displayed, alone>>

ViewNext == SystemStep \/ ((Tick \/ Summarize) /\ UNCHANGED vars)

ViewSpec == Init /\ ViewInit /\ [][ViewNext]_svVars

-----------------------------------------------------------------------------
\* session_view and api_status: what the portal shows of a summary.
SessionView(v) ==
  [authenticated |-> v.status # "DISCONNECTED",
   tokenState |-> IF v.token # None THEN "ACTIVE" ELSE None,
   connId |-> v.connId,
   remaining |-> v.remaining]

\* A summary no call overlapped shows one session or none: authenticated with
\* an active token, a connection_id and the lease they came with, or nothing
\* of the kind; and its status is what the lease it shows had left while it
\* was read, EXPIRING and EXPIRED included, with the clock running.
LoneSummaryCoherent ==
  alone =>
    LET view == SessionView(displayed) IN
    /\ view.authenticated <=> view.tokenState = "ACTIVE"
    /\ view.authenticated <=> view.connId # None
    /\ displayed.lease = displayed.connId
    /\ ~view.authenticated => view.remaining = None
    /\ displayed.status = "EXPIRED" => RemainingOf(displayed.lease) <= 0
    /\ displayed.status = "EXPIRING" =>
         RemainingOf(displayed.lease) <= Soon /\ view.remaining > 0
    /\ displayed.status = "ONLINE" /\ view.remaining # None =>
         view.remaining > Soon

Rank == [AUTHENTICATED |-> 1, ONLINE |-> 2, EXPIRING |-> 3, EXPIRED |-> 4,
         DISCONNECTED |-> 5]

\* The life of one connection is shown in order: of two summaries that follow
\* one another undisturbed and show the same connection, the second never
\* shows an earlier stage, as a lease that was about to end and has time again.
LeaseOnlyRunsOut ==
  [][/\ alone /\ alone'
     /\ displayed.connId # None /\ displayed'.connId = displayed.connId
     => Rank[displayed.status] <= Rank[displayed'.status]]_displayed

\* A summary that a close, a login or a reconnect does overlap may show a status
\* of before and identifiers of after, but these are never of two sessions: it
\* shows a lease only with the token it came with, and a token only with its
\* connection_id, in whatever state of the call it reads them.
SummaryOfOneSession ==
  /\ displayed.lease # None => displayed.token = displayed.lease
  /\ displayed.token # None => displayed.connId = displayed.token

\* "In-memory session snapshot for display" (session_summary,
\* core_device_client.py:468): a summary that says the device is registered
\* shows the connection_id, the token and the lease of one session.
SummaryIsSnapshot ==
  Rank[displayed.status] \in 2 .. 4 =>
    /\ displayed.connId # None
    /\ displayed.token = displayed.connId /\ displayed.lease = displayed.connId
=============================================================================
