-------------------------- MODULE SessionLifecycle --------------------------
(***************************************************************************)
(* What the client promises its user about sessions ("Option A login       *)
(* semantics", core_device_client.py:1-20): a session exists only while    *)
(* logged in; it is authenticated before it is online; whatever ends it    *)
(* ends all of it; and the next one is a new one, never an old one again.  *)
(***************************************************************************)
CONSTANTS
  Sessions,   \* names of sessions: the host issues each of them once
  NoSession

VARIABLES
  loggedIn,   \* a provisioning credential is in memory
  state,      \* lease_state
  current,    \* the session, if any
  spent       \* sessions that are over, or never came to be

vars == <<loggedIn, state, current, spent>>

TypeOK ==
  /\ loggedIn \in BOOLEAN
  /\ state \in {"DISCONNECTED", "AUTHENTICATED", "ONLINE"}
  /\ current \in Sessions \cup {NoSession}
  /\ spent \subseteq Sessions

Init ==
  /\ loggedIn = FALSE
  /\ state = "DISCONNECTED"
  /\ current = NoSession
  /\ spent = {}

LogIn ==
  /\ loggedIn' = TRUE
  /\ UNCHANGED <<state, current, spent>>

\* Only an offline client forgets its credential.
LogOut ==
  /\ state = "DISCONNECTED"
  /\ loggedIn' = FALSE
  /\ UNCHANGED <<state, current, spent>>

Authenticate(s) ==
  /\ loggedIn
  /\ state = "DISCONNECTED"
  /\ s \notin spent
  /\ state' = "AUTHENTICATED"
  /\ current' = s
  /\ UNCHANGED <<loggedIn, spent>>

GoOnline ==
  /\ state = "AUTHENTICATED"
  /\ state' = "ONLINE"
  /\ UNCHANGED <<loggedIn, current, spent>>

\* The session ends, for whatever reason.
End ==
  /\ current # NoSession
  /\ state' = "DISCONNECTED"
  /\ current' = NoSession
  /\ spent' = spent \cup {current}
  /\ UNCHANGED loggedIn

\* An attempt to open a session comes to nothing, and its name is spent.
Fail(s) ==
  /\ current = NoSession
  /\ spent' = spent \cup {s}
  /\ UNCHANGED <<loggedIn, state, current>>

Next ==
  \/ LogIn \/ LogOut \/ GoOnline \/ End
  \/ \E s \in Sessions : Authenticate(s) \/ Fail(s)

Spec == Init /\ [][Next]_vars

-----------------------------------------------------------------------------
(* What follows from the promise *)

\* A session and its state come and go together.
Whole == (state = "DISCONNECTED") = (current = NoSession)

\* Nothing but a login makes a session possible.
SessionNeedsLogin == current # NoSession => loggedIn

\* The session in use is not one that ended before.
Fresh == current \notin spent
=============================================================================
