---------------------------- MODULE SocketTimeout ----------------------------
(***************************************************************************)
(* The timeout of the client's sockets under concurrent requests.          *)
(*                                                                         *)
(* request() sets the timeout it wants on the socket it captured, takes    *)
(* the I/O lock, sends, reads, and puts back the timeout it found.  Only   *)
(* the exchange is under the lock: the look, the set and the restore are   *)
(* not, and every blocking read waits as long as the socket says at the    *)
(* moment the read starts.  connect() puts a new socket, with the          *)
(* client's own timeout, in the place of the old one at any time.          *)
(* CoreDeviceClient leaves lengths of time out; this module is about them  *)
(* and leaves the content of the exchange out.                             *)
(***************************************************************************)
EXTENDS Naturals, FiniteSets

CONSTANTS Threads,   \* callers of request()
          Socks,     \* the sockets connect() creates, in their order: 1..n
          Default,   \* self.timeout
          Waits,     \* what callers may pass as timeout
          None

ASSUME TimeoutAssumption ==
    /\ Socks \subseteq Nat /\ 1 \in Socks
    /\ Default \in Waits
    /\ None \notin Waits \cup Threads

VARIABLES
    sock,       \* self._sock
    timeout,    \* sock.gettimeout() of every socket
    ioLock,     \* holder of self._io_lock
    pc,         \* where each thread is in request()
    mine,       \* its local sock
    wait,       \* its local wait
    previous,   \* its local previous
    under,      \* the timeout its current read started with
    shared      \* history: sockets that two requests had at the same time

vars == <<sock, timeout, ioLock, pc, mine, wait, previous, under, shared>>
locals == <<mine, wait, previous>>

TimeoutInit ==
    /\ sock = 1
    /\ timeout = [s \in Socks |-> Default]
    /\ ioLock = None
    /\ pc = [t \in Threads |-> "idle"]
    /\ mine = [t \in Threads |-> 1]
    /\ wait = [t \in Threads |-> Default]
    /\ previous = [t \in Threads |-> Default]
    /\ under = [t \in Threads |-> None]
    /\ shared = {}

Using(s) == {t \in Threads : pc[t] # "idle" /\ mine[t] = s}

----------------------------------------------------------------------------
(* request() with timeout w, None standing for no argument, up to its      *)
(* local copy of the socket.                                               *)
CallRequest(t, w) ==
    /\ pc[t] = "idle"
    /\ pc' = [pc EXCEPT ![t] = "look"]
    /\ mine' = [mine EXCEPT ![t] = sock]
    /\ wait' = [wait EXCEPT ![t] = IF w = None THEN Default ELSE w]
    /\ shared' = IF Using(sock) = {} THEN shared ELSE shared \cup {sock}
    /\ UNCHANGED <<sock, timeout, ioLock, previous, under>>

Look(t) ==
    /\ pc[t] = "look"
    /\ previous' = [previous EXCEPT ![t] = timeout[mine[t]]]
    /\ pc' = [pc EXCEPT ![t] = "set"]
    /\ UNCHANGED <<sock, timeout, ioLock, mine, wait, under, shared>>

SetTimeout(t) ==
    /\ pc[t] = "set"
    /\ timeout' = [timeout EXCEPT ![mine[t]] = wait[t]]
    /\ pc' = [pc EXCEPT ![t] = "lock"]
    /\ UNCHANGED <<sock, ioLock, locals, under, shared>>

(* Mutant: the exchange without the lock.                                  *)
AcquireNothing(t) ==
    /\ pc[t] = "lock"
    /\ pc' = [pc EXCEPT ![t] = "io"]
    /\ UNCHANGED <<sock, timeout, ioLock, locals, under, shared>>

Acquire(t) ==
    /\ pc[t] = "lock"
    /\ ioLock = None
    /\ ioLock' = t
    /\ pc' = [pc EXCEPT ![t] = "io"]
    /\ UNCHANGED <<sock, timeout, locals, under, shared>>

(* One blocking call on the socket: sendall, or a recv of _recv_exact.     *)
Block(t) ==
    /\ pc[t] = "io"
    /\ under' = [under EXCEPT ![t] = timeout[mine[t]]]
    /\ UNCHANGED <<sock, timeout, ioLock, pc, locals, shared>>

(* The exchange ends, well or with an exception; either way the lock is    *)
(* given back before the finally clause runs.                              *)
Finish(t) ==
    /\ pc[t] = "io" /\ under[t] # None
    /\ ioLock' = None
    /\ under' = [under EXCEPT ![t] = None]
    /\ pc' = [pc EXCEPT ![t] = "restore"]
    /\ UNCHANGED <<sock, timeout, locals, shared>>

(* Mutant: the socket read again instead of the captured one.              *)
RestoreCurrent(t) ==
    /\ pc[t] = "restore"
    /\ timeout' = [timeout EXCEPT ![sock] = previous[t]]
    /\ pc' = [pc EXCEPT ![t] = "idle"]
    /\ UNCHANGED <<sock, ioLock, locals, under, shared>>

Restore(t) ==
    /\ pc[t] = "restore"
    /\ timeout' = [timeout EXCEPT ![mine[t]] = previous[t]]
    /\ pc' = [pc EXCEPT ![t] = "idle"]
    /\ UNCHANGED <<sock, ioLock, locals, under, shared>>

(* connect() of any thread stores a socket of its own making.              *)
Renew ==
    /\ sock + 1 \in Socks
    /\ sock' = sock + 1
    /\ UNCHANGED <<timeout, ioLock, pc, locals, under, shared>>

Next ==
    \/ \E t \in Threads :
          \/ \E w \in Waits \cup {None} : CallRequest(t, w)
          \/ Look(t) \/ SetTimeout(t) \/ Acquire(t)
          \/ Block(t) \/ Finish(t) \/ Restore(t)
    \/ Renew

Spec == TimeoutInit /\ [][Next]_vars

----------------------------------------------------------------------------
(* Every socket has a timeout that some caller or the client chose, and    *)
(* the lock is held exactly during the exchange.                           *)
TimeoutTypeOK ==
    /\ sock \in Socks
    /\ timeout \in [Socks -> Waits]
    /\ ioLock \in Threads \cup {None}
    /\ pc \in [Threads -> {"idle", "look", "set", "lock", "io", "restore"}]
    /\ mine \in [Threads -> Socks]
    /\ wait \in [Threads -> Waits]
    /\ previous \in [Threads -> Waits]
    /\ under \in [Threads -> Waits \cup {None}]
    /\ shared \subseteq Socks
    /\ \A t \in Threads : pc[t] = "io" <=> ioLock = t

(* On a socket that no two requests ever had at the same time, the code    *)
(* of request() does what it is there for: each blocking call waits as     *)
(* long as the caller asked, and between requests the socket has the       *)
(* client's own timeout again, whatever other sockets went through.        *)
LoneRequestTimed ==
    \A s \in Socks \ shared :
        /\ Using(s) = {} => timeout[s] = Default
        /\ \A t \in Using(s) : under[t] \in {None, wait[t]}

(* README.md says that every call waits for one response for `timeout`,    *)
(* default 10 s: a blocking call of a request waits as long as that        *)
(* request was told to.  With two requests on a socket it does not.        *)
WaitsItsOwnTimeout ==
    \A t \in Threads : under[t] \in {None, wait[t]}
=============================================================================
