----------------------- MODULE SessionLifecycleProofs -----------------------
(***************************************************************************)
(* What the lifecycle of SessionLifecycle guarantees, for every set of     *)
(* sessions.  DeviceSystem's ImplementsLifecycle carries each of these     *)
(* over to a client that one thread uses.                                  *)
(***************************************************************************)
EXTENDS SessionLifecycle, TLAPS

\* Whole, SessionNeedsLogin and Fresh hold each other up: LogOut keeps
\* SessionNeedsLogin because Whole makes a DISCONNECTED client one without a
\* session.
Promise == TypeOK /\ Whole /\ SessionNeedsLogin /\ Fresh

\* The promise is inductive, provided NoSession is the name of no session.
LEMMA PromiseNext ==
  ASSUME NoSession \notin Sessions, Promise, [Next]_vars
  PROVE  Promise'
<1> USE DEF Promise, TypeOK, Whole, SessionNeedsLogin, Fresh
<1>1. CASE LogIn
  BY <1>1 DEF LogIn
<1>2. CASE LogOut
  BY <1>2 DEF LogOut
<1>3. CASE GoOnline
  BY <1>3 DEF GoOnline
<1>4. CASE End
  BY <1>4 DEF End
<1>5. ASSUME NEW s \in Sessions, Authenticate(s)
      PROVE  Promise'
  BY <1>5 DEF Authenticate
<1>6. ASSUME NEW s \in Sessions, Fail(s)
      PROVE  Promise'
  BY <1>6 DEF Fail
<1>7. CASE UNCHANGED vars
  BY <1>7 DEF vars
<1> QED
  BY <1>1, <1>2, <1>3, <1>4, <1>5, <1>6, <1>7 DEF Next

\* A session has a state exactly while it exists, exists only while a
\* credential is in memory, and is never one that ended before
\* (core_device_client.py:1-20, "Option A login semantics").
THEOREM PromiseKept ==
  ASSUME NoSession \notin Sessions
  PROVE  Spec => [](TypeOK /\ Whole /\ SessionNeedsLogin /\ Fresh)
<1>1. Init => Promise
  BY DEF Init, Promise, TypeOK, Whole, SessionNeedsLogin, Fresh
<1>2. Promise /\ [Next]_vars => Promise'
  BY PromiseNext
<1>3. Promise => TypeOK /\ Whole /\ SessionNeedsLogin /\ Fresh
  BY DEF Promise
<1> QED
  BY <1>1, <1>2, <1>3, PTL DEF Spec
=============================================================================
