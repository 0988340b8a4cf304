---------------------------- MODULE ClientPortal ----------------------------
(***************************************************************************)
(* client/portal/server.py: the threads of ThreadingHTTPServer, each with  *)
(* one HTTP request at a time, on the client object of the process.  Three *)
(* endpoints stand for those that use the object: "devices" for            *)
(* GET /api/devices and /api/rescs, which check that the session is online *)
(* and then make a request; "network" for GET /api/network, which asks for *)
(* the devices in the same way between two probes of the host's port; and  *)
(* "reconnect" for POST /api/reconnect.  Check and use are two steps.      *)
(***************************************************************************)
EXTENDS CoreDeviceClient

CONSTANTS
  Handlers,   \* the portal's handler threads
  Asked       \* the endpoints a browser asks for

Endpoints == {"devices", "network", "reconnect"}

ASSUME PortalAssumption == Handlers \subseteq Threads /\ Asked \subseteq Endpoints

VARIABLES
  server,   \* none (never started, or its port was taken), serving, stopped
  serves,   \* the endpoint each handler serves
  stage,    \* how far it is
  answer    \* the last answer of each handler

portalVars == <<server, serves, stage, answer>>

\* unavailable and error are HTTP 503 and HTTP 500 or 400.
Statuses == {"none", "online", "offline", "reconnected", "unavailable", "error"}
\* What an answer says, and whether it lists devices or records of the host.
Answers == [says : Statuses, listed : BOOLEAN]
NoAnswer == [says |-> "none", listed |-> FALSE]

PortalTypeOK ==
  /\ server \in {"none", "serving", "stopped"}
  /\ serves \in [Handlers -> Endpoints]
  /\ stage \in [Handlers ->
                  {"free", "probe", "gate", "passed", "calling", "reprobe"}]
  /\ answer \in [Handlers -> Answers]

PortalInit ==
  /\ server = "none"
  /\ serves = [t \in Handlers |-> "devices"]
  /\ stage = [t \in Handlers |-> "free"]
  /\ answer = [t \in Handlers |-> NoAnswer]

-----------------------------------------------------------------------------
\* start: the port may be taken, which the command loop survives.
StartServer ==
  /\ server' \in {"serving", "none"}
  /\ UNCHANGED <<serves, stage, answer>>

\* Mutant of StopServer: it takes for granted that there is a server.
StopServerServing ==
  /\ server = "serving" /\ server' = "stopped"
  /\ UNCHANGED <<serves, stage, answer>>

\* stop: no further request is accepted; the handlers already running are
\* daemon threads, and are not waited for.
StopServer ==
  /\ server' = IF server = "serving" THEN "stopped" ELSE server
  /\ UNCHANGED <<serves, stage, answer>>

At(t, s) == stage' = [stage EXCEPT ![t] = s]

\* api_devices, api_rescs or reconnect_client is done.  The first has
\* api_network for a caller too, which keeps the devices of its answer and
\* drops what it says.
Respond(t, a) ==
  /\ At(t, IF serves[t] = "network" THEN "reprobe" ELSE "free")
  /\ answer' = [answer EXCEPT
       ![t] = [says |-> IF serves[t] = "network" THEN "none" ELSE a,
               listed |-> a = "online"]]
  /\ UNCHANGED <<server, serves>>

\* A browser's request, given a thread; no more than it has calls left.
Accept(t) ==
  /\ server = "serving" /\ stage[t] = "free"
  /\ calls[t] < MaxCalls[t]
  /\ \E e \in Asked :
       /\ serves' = [serves EXCEPT ![t] = e]
       /\ At(t, IF e = "network" THEN "probe" ELSE "gate")
  /\ answer' = [answer EXCEPT ![t] = NoAnswer]
  /\ UNCHANGED <<server, clientVars>>

\* _host_reachable: a TCP connection of its own, closed at once, which the
\* host's handler ends without a word.  It comes about only while the host
\* listens, and may fail all the same.
Reaches == {FALSE, listening}

\* api_network probes before it asks for the devices, for the reachable of its
\* host, which decides nothing and is left out; but it takes its time,
Probe(t) ==
  /\ stage[t] = "probe"
  /\ At(t, "gate")
  /\ UNCHANGED <<server, serves, answer, clientVars>>

\* ... and after it: its online is this probe, whatever became of the request.
Reprobe(t) ==
  /\ stage[t] = "reprobe"
  /\ \E r \in Reaches :
       answer' = [answer EXCEPT ![t].says = IF r THEN "online" ELSE "offline"]
  /\ At(t, "free")
  /\ UNCHANGED <<server, serves, clientVars>>

\* _require_online, and the login check of reconnect_client.
MayProceed(e) ==
  IF e = "reconnect" THEN credential # None ELSE LeaseState # "DISCONNECTED"

Gate(t) ==
  /\ stage[t] = "gate"
  /\ IF MayProceed(serves[t])
       THEN At(t, "passed") /\ UNCHANGED <<server, serves, answer>>
       ELSE Respond(t, IF serves[t] = "reconnect" THEN "unavailable" ELSE "offline")
  /\ UNCHANGED clientVars

\* discover and data_request are request by another name.
CallOf(e) == IF e = "reconnect" THEN "reconnect" ELSE "request"

Use(t) ==
  /\ stage[t] = "passed"
  /\ Call(t) /\ op'[t] = CallOf(serves[t])
  /\ At(t, "calling")
  /\ UNCHANGED <<server, serves, answer>>

\* Mutant of Outcomes: the cause of a failed request is not looked at.
OutcomesAlwaysOnline(e, how) == IF e = "reconnect" THEN {"error"} ELSE {"online"}

\* Mutant of Outcomes: what is not a DeviceClientError ends the thread.
OutcomesUncaught(e, how) ==
  IF how = "raw" THEN {}
  ELSE IF how = "ok" THEN {IF e = "reconnect" THEN "reconnected" ELSE "online"}
  ELSE {IF e = "reconnect" THEN "error" ELSE "offline"}

\* Any exception of a request for devices or records is an offline host.  An
\* exception of a reconnect is a 503 if it is a ConnectionError, a 400 or a
\* 500 otherwise.
Outcomes(e, how) ==
  IF e = "reconnect"
    THEN CASE how = "ok" -> {"reconnected"}
           [] how = "DeviceClientError" -> {"error"}
           [] OTHER -> {"unavailable", "error"}
    ELSE {IF how = "ok" THEN "online" ELSE "offline"}

Reply(t) ==
  /\ stage[t] = "calling"
  /\ \E a \in Outcomes(serves[t], result[t]) : Respond(t, a)
  /\ Return(t)

\* What a handler does once it has a request; only Use begins a call.
Handle(t) ==
  \/ (Probe(t) \/ Gate(t) \/ Reprobe(t)) /\ UNCHANGED link
  \/ Use(t)
  \/ Reply(t)
  \/ stage[t] = "calling" /\ pc[t] # "return" /\ Continue(t)
     /\ UNCHANGED portalVars
=============================================================================
