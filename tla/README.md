# CORE-CLIENT: a TLA+ model

CORE-CLIENT is the device side of a C.O.R.E. network: a Python client object
(`client/core_device_client.py`) that logs in, opens an authenticated session
with a host over TLS, registers a device and sends requests, used by a command
loop and, at the same time, by the handler threads of a local web portal
(`client/portal/server.py`). This directory models what can go wrong between
those threads, the network and the host, and proves part of it. Paths below
are relative to `src/`; `core_device_client.py` and `fake_host.py` stand for
`client/core_device_client.py` and `tests/fake_host.py`.

## 1. Inventory

| Component | State | Operations | Talks to | What makes it correct |
|---|---|---|---|---|
| Transport (`_send_frame`, `_recv_exact`, `_recv_frame`) | one TCP or TLS stream per connection | send a frame, read a frame, close | client and host | frames stay whole and in order; a lost boundary is never read over |
| `CoreDeviceClient`: session and requests | `_provisioning_credential`, `_sock`, `_session_token`, `_connection_id`, `_authenticated`, `_registered`, lease, `_io_lock` | `login`, `connect`, `register`, `reconnect`, `request` (and `discover`, `device_info`, `data_request`, `service_request`), `send_to_device`, `logout`, `mark_disconnected`, `close_socket`, `shutdown` | host by frames; command loop and portal by calls on one shared object | one whole session or none; the answer is the request's own; what the client says of itself is what the host has on record; calls return |
| Socket timeout | the timeout of the shared socket | set and restored by each `request` | every reader of the socket | a wait is as long as its caller asked |
| Session summary and lease | lease expiry, the clock | `lease_remaining_seconds`, `lease_state`, `session_summary`, `session_view` | command loop, portal | shows one session; EXPIRING and EXPIRED at their boundaries, in order |
| Remembered device file | a JSON file without secrets | `save_remembered`, `load_remembered` | file system, other processes | survives a crash and an overlap; loads whole or is refused |
| Command loop (`main`) | where it is | login, connect, register, `discover`/`reconnect`/`session`/`quit`, Ctrl-C | client, portal | what ends the loop; shutdown on every path; the process ends |
| C.O.R.E. host (`tests/fake_host.py`, in place of the external host) | per connection: identity, token, device; a registry of devices under a lock | handshake, register, answer, route, finalise, `force_close`, `stop` | client by frames | the registry matches the live handlers; tokens belong to one connection |
| Portal server (`client/portal/server.py`) | running server, handler threads, recent records, locations | `start`, `stop`, handlers of `/api/...`, `reconnect_client`, `ai_request` | client object, local Ollama, host | every request answered; checks before use; what is answered is true of somebody |
| Capability detection (`client/capabilities.py`) | none: probes of the machine | `detect_capabilities`, `evaluate_class` | portal | thresholds; what a missing reading does |
| Model catalogue and fit (`client/models.py`) | none | `ollama_models`, `find_model`, `evaluate_model` | portal | a model that is AVAILABLE runs |
| Locations (`client/geo.py`) | none | `make_location`, `apply_precision`, distances | portal | nothing fabricated, no more precision than asked for |
| Envelope and redaction (`client/portal/models.py`), launchers, monitoring, TLS context, docs, validation data | none | | | not modelled, see section 6 |

What is hard here: several threads share one client object whose only lock
covers a send and its receive, and nothing else; every other access to `self`
interleaves. The host's handler of a closed connection ends some time after
the client has gone on to the next. Reads time out, halfway through a frame if
need be. `register` has no correlation with its answer, and messages relayed
from peers come in where answers are expected. The portal's threads
check a session and use it later, share lists without a lock, and outlive the
loop that started them. `PROJECT.json` lists each of
these hazards at its line, with the properties that watch it.

## 2. Modules

```
Wire                   connections, frames, closing
 ├─ CoreDeviceClient   the client object and the threads that call into it
 │   └─ ClientPortal   the portal's handler threads, start and stop
 │       └─ DeviceCli  main: login, command loop, finally, Ctrl-C
 └─ CoreHost           the host: handlers and registry
DeviceSystem = CoreDeviceClient + CoreHost, properties
 ├─ MCSolo             one thread                  (run solo)
 ├─ MCPair             two threads                 (runs pair, pair_*)
 ├─ SessionView        summary, lease, clock
 └─ DeviceSystemProofs any number of threads
     └─ SoloProofs      one thread; lone calls among several
         ├─ AppProofs          the program        (with DeviceApp)
         └─ PortalShownProofs  what is displayed  (with SessionView,
                               PortalRecent, PortalNetwork)
DeviceApp = DeviceCli + CoreHost, fairness ─ MCApp (runs app, app_live)
SessionLifecycle ─ SessionLifecycleProofs   what the client promises (abstract)
Framing                bytes of one direction; implements FrameChannel (abstract)
 └─ FramingProofs
SocketTimeout, Remembered ─ ClientIOProofs
Capabilities
 └─ PortalAi ─ MCPortalAi                          (run portal_ai)
     └─ CapabilitiesProofs
PortalRecent
PortalNetwork
MCClientIO    = Framing, SocketTimeout, Remembered        (runs client_io, io_*)
MCPortalShown = SessionView, PortalRecent, PortalNetwork  (run portal_shown)
```

### Wire
A connection is a name in `Conns`. `cEnd` and `hEnd` say whether each end is
unused, open or closed; `up` and `down` are the frames in flight; `torn` says
that the client gave up reading in the middle of a frame (`_recv_exact` drops
the bytes it had). A frame has the fields that somebody branches on: its type,
its `request_id` and the secret it carries. The host draws a fresh
`connection_id` and `session_token` per handshake, and a client handshakes
once per connection, so the connection itself stands for all three of
connection_id, token and lease. `unclean` is a history variable: the
connections on which a frame may be under way that nobody waits for.

### CoreDeviceClient
The variables of the object are its attributes; the variables of a thread are
where it is (`pc`), which call it is in (`op`) and the locals of that call
(`closing`, `held`, `msg`, `resp`, `oldId`, `ret`, `result`). Labels start with
the method: `c_` connect, `r_` register, `x_` reconnect, `q_` request, `d_`
send_to_device, `cs_` close_socket, `l_`/`o_` logout, mark_disconnected and
shutdown.

*Atomicity.* A step runs to the next point where another thread's step makes a
difference: a blocking call, the lock, or a call to another method between two
accesses to `self`. Straight-line stores are one step, because CPython changes
threads only at calls and backward jumps. The guard of `register` and of
`request` and the building of the message after it are one step; taking the
lock and sending are one step, the end of a receive and the release are one.
`sendall` is taken not to block: frames are small beside a socket buffer.

*Failures.* A receive may time out at any time, before or within a frame; a
send or receive fails if either end is closed. `IOFailure` says what each call
makes of it: connect closes and re-raises, register lets errors other than
closure through, request turns a timeout into `DeviceClientError` and keeps
the connection, send_to_device likewise. A socket nobody refers to any more is
closed by CPython (`Collected`): two overlapping connects store into
`self._sock`, and the loser's socket closes once its thread has returned.

*Calls.* `Menu[t]` is what thread t calls. The command loop calls `login`,
`reconnect`, requests and `shutdown`; the portal's handlers `reconnect` and
requests. Programs built on the library call all of it, so run `solo` has the
whole interface and `pair` lets the second thread use `send_to_device`.

### CoreHost
`tests/fake_host.py` is the host the test suite runs against and mirrors the
external C.O.R.E.-HOST, whose source is not in this repository. One action per
message type; the registration and its confirmation are two, because the code
sends after it has released the registry lock. `Finalise` is the `finally`
clause of the handler with the closing of its socket. Only the modelled
device's record is kept: peers relay messages to it (`RelayIn`), at most
`MaxRelays`. `Tokenless` lets the host authenticate without a token, a case
that the client checks for and the fake host never produces. A request may be
refused for reasons of its payload, so `Answer` may always answer `ERROR`.

### SessionLifecycle
The promise of the client's docstring as a specification of its own: log in,
authenticate, go online, end, and never the same session twice. `DeviceSystem`
maps the client to it (`Lifecycle`) and run `solo` checks that it implements
it. `state` is `lease_state` without the clock, `current` the connection id
while there is a session, `spent` every connection the client has let go of.
With two threads it does not: the findings below are behaviours outside it.

### ClientPortal, DeviceCli, DeviceApp
`ThreadingHTTPServer` gives each HTTP request a thread; a handler here serves
one after another. `serves` is its endpoint, `stage` how far it is: `gate`
(`_require_online`, or the login check of `reconnect_client`), `passed`,
`calling`. Between `Gate` and `Use` anything may happen to the client. The
error mapping of `do_GET` and `do_POST`, with the one of `api_devices`, is
`Outcomes`. There are three endpoints. `devices` stands for `/api/devices` and
`/api/rescs`, which gate, request, and say online when the request succeeded.
`network` is `/api/network`: it probes the host's port (`Probe`), asks for the
devices through the same gate and call, keeps what they list and drops what they
say, and probes again (`Reprobe`); its `online` is that second probe and nothing
else, so it may say online with an empty list. `reconnect` is
`/api/reconnect`. An answer is therefore two things, what it `says` and whether
it `listed` anything of the host's. A probe may get through only while the host
listens (`Reaches`). `/api/status` and `/api/session` show the session's own
status and make no request; what they read is in `SessionView`. `Asked` is what
a browser of the instance asks for. `DeviceCli` is `main` from `login` on: `main` says where it is,
`MainCall` which call on the client that is, `NextMain` where each outcome
leads. `Interrupt` is Ctrl-C, at any step of the main thread: `with` and
`finally` run, `except Exception` does not (`Abort`). A second Ctrl-C in the
finally clause leaves it. `Exit` ends the process; the kernel closes what is
open, and handlers are daemon threads that end with it.

### FrameChannel, Framing
`Framing` has the bytes: `Value` is the digit of a length header or the text
of a body, `RecvBytes` one `sock.recv` of any size, `TimeOut` the exception
that throws away the locals of `_recv_exact` and `_recv_frame`. `HeaderSize`,
`Base` and `MaxFrame` scale 4, 256 and 10 MiB down and keep their relation: the
first byte of a valid length is zero, and text where the length should be is
too large. `Weight` is what a digit of the header is worth and `Parts` what its
first digits make, both recursive functions, so that `Length` (`struct.unpack`)
can be reasoned about for every header. `MayDecode` says which buffers could
pass `json.loads` and the check of `message_type`: never one with the control bytes of a header in it, never
one that begins inside the first key (`_new_message` begins every frame with
`{"message_id"`), but possibly a later part of a body. `FrameChannel` is what
the rest assumes of a connection; its `Lose` is `ReceiveResync` in
`CoreDeviceClient`, which drops any number of frames when a torn reader falls
back into step, and its `Notice` is `ReceiveFails` there.

### SocketTimeout
`request` looks at the socket's timeout, sets its own, takes the lock,
exchanges, and restores, and only the exchange is under the lock.
`CoreDeviceClient` lets any wait expire at any time, so lengths do not matter
there; this module has the lengths and leaves the content out. The command
loop and the portal never pass a timeout of their own; programs built on the
library may.

### SessionView
`session_summary` is read in four steps, divided where it calls another
method, beside the steps of `DeviceSystem` and a clock. `Expiry[c]` is the
expiry the host gives with connection c, or none.

### Remembered
The file is missing, a text in cells that carry the name of the device they
describe, or a foreign document. `OpenFile` truncates, `WriteFile` writes from
the start, `Die` is a crash between; any number of processes save. Texts are
smaller than the buffer of a Python file, so there is one write. `Load` is a
function of the file at every moment, with the overrides of the command line.
A document may be edited by hand: `usable` is FALSE of one that has a value the
constructor cannot use (a name that is no string, capabilities that are not
iterable), which raises `OtherError` there like an unusable port: a ValueError,
TypeError, AttributeError or OverflowError, which no caller tells apart.

### Capabilities, PortalAi
`readings` is what `detect_capabilities` would return now and `installed` what
Ollama would list. `EvaluateClass` and `EvaluateModel` are the two policies.
`PortalAi` walks through `ai_request` on top of it, one probe or call per step,
while readings, models, host and session change. `Served` says that the host
would serve the device now; the history `away` that it would not have at some
moment of the request. The probes of memory and GPU are sources that report any
amount or none: which operating system's tool gives the number is left out.

### PortalRecent
`api_rescs` puts what a handler looked at in `_recent`. CPython changes threads
at calls (and at backward jumps), so the test with the insertion, the cut and
the copy are three steps. The history `since` has, for each record that was ever
inserted, the others that were asked for since it last was: a measure of how
recent it is that does not depend on the order of the list.

### PortalNetwork
`geo.py` and the three handlers that record and show locations. A coordinate is
an integer of some unit; `Step` is the rounding of the precision and a tie may
go to either side. `Overflows` follows the order in which `make_location` tries
its conditions. `api_network` reads each peer and, for each distance, this
device's location again, in steps of their own. The history `during` has, for
each request, every location that was stored for each device while it ran.

## 3. Properties and runs

| Run | Instance | Checks | Distinct states |
|---|---|---|---|
| `solo` | 1 thread, 4 calls of any kind, 3 connections, good and bad credential, 1 relay, host may close, stop, omit the token | `TypeOK`, `SessionCoherent`, `OnlineAgreement`, `ImplementsLifecycle` | 2.0 million |
| `pair` | 3 + 1 calls (login, reconnect, request, shutdown; reconnect, request, send_to_device), 2 connections, 1 relay, forced close | `IOExclusion`, `MismatchOnlyAfterLoss`, `OwnConfirmation`, `ServedInOwnSession`, `RegistryBacked` | 3.2 million |
| `pair_reconnect` | 3 + 1 calls (login, reconnect), 3 connections | `LoneReconnectHeals` | 4.1 million |
| `app` | main with 5 calls and Ctrl-C, 1 handler with 2 requests of any endpoint, 2 connections, forced close | `AppTypeOK`, `ShutdownIsFinal`, `ListedIsAnswered` | 2.5 million |
| `app_live` | main with 5 calls, 1 handler with 1 request of `network` or `reconnect`, 2 connections, fairness; no Ctrl-C, no host faults | `CallsReturn`, `ClosedIsForgotten`, `RequestsAnswered`, `QuitEnds` | 277 thousand |
| `client_io` | 4 frames of 4 sizes under a 3-byte header; 3 callers, 2 sockets, 2 timeouts; 3 savers, texts of two lengths, edited files, overrides | `FrTypeOK`, `OnlyWholeFrames`, `ImplementsChannel`, `TimeoutTypeOK`, `LoneRequestTimed`, `LoadsWholeOrRefuses`, `SavedThenLoaded` | 262 thousand |
| `portal_shown` | 1 caller, 2 connections, a lease and a clock; 3 handlers on a list of 2, 4 uses; 2 handlers, 2 devices, 3 requests | `LoneSummaryCoherent`, `SummaryOfOneSession`, `LeaseOnlyRunsOut`, `RecentDistinct`, `KeptUntilDisplaced`, `NetworkTypeOK`, `ShownWasReported`, `QuietAnswerCoherent`, `AnswersOfTheirTime` | 1.6 million |
| `portal_ai` | one prompt, one change of the world | `HighFits`, `MoreIsNoWorse`, `RefusedForAReason`, `RightPlace`, `AiAnswered` | 2.0 million |
| `pair_shutdown`, `pair_online`, `io_frame`, `io_timeout` | | one property each, violated: section 4 | |

`client_io` and `portal_shown` each hold three modules that share no state. No
property speaks of two of them, so their interleavings say nothing more: a
behaviour of such a run moves one of the three, and the run is the union of
three.

- `SessionCoherent`: between the calls of one thread, socket, token,
  connection_id, lease and the two flags are all of one session, or all gone.
- `OnlineAgreement`: a client that says ONLINE on a connection with both ends
  open is online in the registry, on that connection. A forced close the
  client has not noticed is excluded: it notices at its next call.
- `IOExclusion`: the thread that waits for an answer holds `_io_lock`, no other.
- `MismatchOnlyAfterLoss`: `request` meets a foreign `request_id` only on a
  connection where a frame nobody waits for may be under way: after a timeout,
  a relayed message, a message sent without waiting, or a register whose
  socket was replaced. So a clean connection is never dropped for a mismatch.
- `OwnConfirmation`: `register` reads `self._sock` for its send and again for its
  receive, and compares no `request_id`. All the same, the confirmation it goes
  on with is of its own token, on the connection it was sent on, unless something
  was left in flight there. (What it then sets may be of another connection:
  finding 2.)
- `ServedInOwnSession`: a request built from the token of one session and the
  socket of another is refused by the host, never served.
- `LoneReconnectHeals`: whatever overlapping calls mixed up, a reconnect that
  none overlaps ends with all of one new session, or not ONLINE.
- `RegistryBacked`: online in the registry exactly while the handler that
  registered it runs; a late `Finalise` of an old handler takes nothing away.
- `ImplementsLifecycle`: every step is a step of `SessionLifecycle` or none.
- `ShutdownIsFinal`: after a shutdown that no handler's call overlapped, the
  client is empty for good: a handler that passed its gate before is refused by
  the guards of the call it makes after. (One that overlaps is finding 1.)
- `ListedIsAnswered`: what the portal lists of the host, and the online of
  `/api/devices` and `/api/rescs`, is the host's answer to that very request on
  that very connection, never what the session looked like when it was checked.
  A client whose connection the host has closed goes on reporting ONLINE until
  its next call; this says that no list is shown on the strength of it. The
  online of `/api/network`, a probe of the port, is not part of it.
- `CallsReturn`, `RequestsAnswered`, `QuitEnds`, `ClosedIsForgotten`: main never
  waits for ever in a call; every HTTP request is answered or the process ends;
  leaving the loop ends the process whatever the handlers do; and a connection
  that was closed, by a call or by that end, is forgotten at the host.
- `OnlyWholeFrames`, `ImplementsChannel`: after any timeout nothing but whole
  frames is returned, and the bytes behave as `Wire` assumes. This rests on the
  size limit being smaller than any length that begins with text.
- `LoneRequestTimed`: on a socket no two requests had at once, each wait has
  the length its caller asked for, and between requests the default is back.
- `LoadsWholeOrRefuses`, `SavedThenLoaded`: however savers overlap and die, a
  file of ours loads as one device or is refused with the error that `main`
  reports, and an edited one never loads under a second identity; a save that
  ran alone to its end is what the next launch loads.
- `LoneSummaryCoherent`, `LeaseOnlyRunsOut`: a summary that no call overlapped
  shows one session with the state its lease had; and one connection's stages
  are shown in order.
- `SummaryOfOneSession`: of the summaries that a call does overlap. Their status
  may be of an earlier moment than their identifiers (`SummaryIsSnapshot`,
  section 4), but a lease is shown only with its token and a token only with its
  connection_id, at whatever point of the call they were read.
- `HighFits`, `MoreIsNoWorse`: the class and the model's fit do not contradict
  each other; more of everything never lowers the class nor loses the model.
- `RefusedForAReason`, `RightPlace`, `AiAnswered`: a prompt goes where the
  probes said, and ends; however its probes are overtaken, it is refused only if
  the host was not there for the device at some moment of it, or its own model
  was AVAILABLE and failed.
- `RecentDistinct`, `KeptUntilDisplaced`: the unlocked list has no record twice,
  loses none to another handler's cut before `Limit` others were asked for, and
  exceeds its limit only by the handlers that are about to cut. Both hold of a
  list kept by first use, which the code has, and would of one kept by last
  use, which the docs promise (`RecentIsMRU`, section 4).
- `ShownWasReported`, `QuietAnswerCoherent`: a device is shown only where it was
  reported, as coarse as asked and within range; an answer that no report
  interrupts gives distances for just the devices it places.
- `AnswersOfTheirTime`: of the answers that reports do interrupt. Each place
  shown, each device shown nowhere, and each distance given or missing, was so
  at some moment of the request, though the whole may be of no one moment. (The
  precision of the run hides nothing; the theorems have all three.)

*Bounds.* `MaxCalls` bounds calls per thread, `Conns` the connections, and
`MaxRelays` relayed messages. A login and three more calls reach every state
of the object, and a fourth call from each; three connections allow an old one
whose handler is still running, a current one and a new one. Two threads with
one reconnect each already mix two sessions; `pair_reconnect` leaves the first
thread a further reconnect to heal it. When connections run out `Dial` is
disabled and only `DialFails` remains, which is a host that cannot be reached.
`app_live` leaves out `devices`, whose steps `network` takes between its probes.
Connections are interchangeable, and so are callers, handlers and places, hence
the symmetry. It is never used with liveness. `app`, `client_io` and
`portal_shown` combine it with action properties and a refinement of safety:
these speak of single steps, and permuting the symmetric values leaves each of them as it is.

The other modules: a direction with four frames has frames before, in and after
a torn read. Savers and texts of two lengths leave a shorter text over a longer
one. The lease in `portal_shown` passes `Soon` and its end while the clock runs,
and the second has no date, which reaches every stage; that host is without
faults, which `solo` covers. A list of two and three handlers fill it, overflow
it and have three cuts at a time. Three requests on the network are two reports
around one view, with coordinates inside, in a tie, at the limit and beyond.
The readings of `portal_ai` reach every class and both sides of the model's
needs; the theorems of section 5 cover every other value.

*Fairness.* In `app_live`, weak fairness of each thread inside a call: every
socket operation has a timeout, so a thread always goes on. Weak fairness of
each host handler: it polls with a half-second timeout. No fairness for
starting a call, for relays, forced closes or a stop. That a thread gets the
lock rests on the other threads making finitely many calls, which the bound on
calls gives; Python's locks promise no more to a thread that competes with an
endless stream of calls, and nothing is claimed about that. In
`DeviceApp` `main`, each handler and each host handler go on; the user, the
browser and Ctrl-C need not come. In `PortalAi` every step of a request is a
probe or a call with a timeout. Deadlock is checked except in `app_live`, where
the properties say what must not stop, and in `portal_ai` and `portal_shown`,
where the bound on requests ends the system.

## 4. Findings

Four are runs that TLC stops with a counterexample.

1. `pair_shutdown`: a portal handler inside `reconnect` stores its socket after
   `shutdown`'s `close_socket`: a logged-out client with a live session.
2. `pair_online`: two overlapping reconnects; the registration of one
   connection makes the client ONLINE on the other, which is not registered.
3. `io_frame`: a read that times out within a frame loses its place.
4. `io_timeout`: a request waiting for the lock changes the timeout of the one
   that reads.

More statements of the docs and tests are in the modules, under the properties
that hold. No run checks them. Each is violated in the instance named, when its
property list is replaced by the one property:

| Property | Instance | What the code does |
|---|---|---|
| `TokenDiscarded` | `MCPairShutdown.cfg` | `connect` commits `_session_token` and the lease after another thread's `close_socket` took its socket: a token remains with no socket |
| `ReconnectAccepted` | `MCPairOnline.cfg` | with a host that is slow to finish the old handler, `reconnect` is refused with DEVICE_ALREADY_REGISTERED |
| `DropOnlyIfDesynced` | `MCSolo.cfg` | a request that does not encode drops a healthy connection |
| `BadValuesAreClientErrors` | `MCClientIO.cfg` | a port or another value that the constructor cannot use, or bytes that are not UTF-8, leave `load_remembered` as something else than a DeviceClientError, in the initial state already: it is a fact of a function |
| `ReconnectKeepsLogin` | `MCApp.cfg`, `CtrlC = FALSE` | a `reconnect` command that cannot reach the host raises an OSError, which the loop does not catch: the program ends, logged out |
| `SummaryIsSnapshot` | `MCPortalShown.cfg` | a summary that overlaps a close says ONLINE without an id |
| `RecentIsMRU` | `MCPortalShown.cfg` | looking at a listed record again does not move it forward: the list is in the order of first use |
| `AvailableRuns` | `MCPortalAi.cfg` | a model installed under another tag is AVAILABLE, and the chat asks for the name that is not installed |
| `InvalidBecomesUnknown` | `MCPortalShown.cfg` | an integer beyond any float raises OverflowError |
| `HostFailureSurfaced` | `MCPortalAi.cfg` | a host answer with `success` false counts as executed |
| `MissingNeverRaises` | `MCPortalAi.cfg`, `Amounts = {7, 24}` | not reporting available memory raises the class |

The tests quoted by `FrameSurvivesTimeout`, `BadValuesAreClientErrors` and
`HostFailureSurfaced` (`tests/test_audit_regressions.py`), and the one of that
file on the tags of models, describe a version of the client ahead of the one in this tree.

## 5. Proofs

All are checked by TLAPS for every value of the constants that satisfies the
named assumptions of the modules. These say only that the constants are what
they stand for: None is no connection, thread, credential or frame
(`WireAssumption`, `FrameAssumption`); menus, bounds and thresholds are typed
(`ClientAssumption`, `HostAssumption`, `ViewAssumption`, `RecentAssumption`,
`RememberedAssumption`, `TimeoutAssumption`, `NetworkAssumption`,
`CapabilityAssumption`, `AiAssumption`); main is a thread and no handler
(`CliAssumption`, `PortalAssumption`). `FramingAssumption` carries the one fact
that the code's numbers have to supply: a valid length begins with a zero byte,
and text does not. With 4 bytes and 10 MiB both are so.

Every safety and action property of the passing runs is stated by a theorem.
Six of them are about a client that one thread uses (`Threads = {cli}`), as
the runs that check them are: overlapping calls break what they rest on
(section 4).

**The client and the host, any number of threads** (`DeviceSystemProofs`)

- `TypeCorrect`: `TypeOK` is not inductive: it lets a thread be about to send
  while its message is None. `TypeInv` adds `LocalsOK`, which locals are set
  where; `ClientStep` and `HostStep` show, action by action, that every step
  keeps it.
- `IOExclusionHolds`: inductive given the types. `Send` is the only step that
  takes the lock; the steps of a waiting thread release it, on success and on
  each failure; all others leave both the lock and the set of waiting threads
  alone (`LockKept`, `LockReleased`).
- `RegistryHolds`: inductive given the host's types: `Finalise` clears the
  record exactly if it is its own.
- `ServedInOwnSessionHolds`: the property speaks of the end of a request;
  `RequestInv` says what makes it so: a request_id that was not sent yet is on
  no stream (`RidsPast`), the request of a waiting thread travels with the token
  it was built with (`UpOwn`), and an answer that serves it is only on the
  connection of that token (`DownOwn`). The proof follows the frames: threads
  put only their own message on a stream (`ClientPuts`), the host only answers
  to what it took off (`HostPuts`).
- `MismatchOnlyAfterLossHolds`: on a connection where nothing was abandoned at
  most one thing is under way (a frame up, a frame down, or a registration the
  host has not confirmed), and it belongs to the thread that waits there with
  the lock (`CleanInv`, over `InFlight` and `Quiet`). So what it receives answers
  what it sent.
- `OwnConfirmationHolds`: `ConfirmationInv` follows a registration from its lock
  on: its answer, if there is one on the way, is on the connection and of the
  token it was sent with (`ConfirmsHere`, `ConfirmedTo`), and so is the one it
  has received (`ConfirmationInHand`). A thread whose second read of the socket
  gets another one finds that connection unclean, which it stays
  (`UncleanGrows`), or nothing under way there (`StartsQuiet`).

**One thread, and lone calls among several** (`SoloProofs`)

- `SessionCoherentHolds`: the property is about the moments between calls.
  `Sound(t)` says, label by label, how far the call has brought the session: a
  closing call has the socket off, a closed one also the rest, from the
  handshake on the socket is the call's own, and so on to `Coherent` at rest.
- `OnlineAgreementHolds`: adds what the host says, and when it is true: the
  confirmation of a registration is on the way, or was received, only of a
  connection that was registered (`Told`), one connection is registered at most
  (`OneOnline`), and nothing but its own end unregisters it.
- `LoneReconnectHealsHolds`, for any number of threads: a thread that no other
  overlaps (`OverlapSeen`) is as good as alone, so its reconnect is `Sound` from
  the close on, whatever it found. `LoneInv` is that, and that it renews the
  session.
- `LifecycleKept`: `Spec => ImplementsLifecycle`. Each step of client and host
  is shown to be one step of `SessionLifecycle` under the mapping, or none. It
  needs `Sound`, and that the session of an authenticated socket is the one opened
  on it, in the middle of a call too (`OwnSession`).
- `PromiseKept` (`SessionLifecycleProofs`): the lifecycle keeps state and
  session together, opens none without a login and never reopens one.

**The program** (`AppProofs`): main, any number of handlers, Ctrl-C.

- `AppTypeCorrect`; `ProgramKeepsSession`: the program takes steps of the client
  and the host, `Abort` and `Exit` (`AppSteps`), and all of them keep
  `Inherited`, the invariants above, with `IOExclusion`, `RegistryBacked`,
  `ServedInOwnSession` and `LoneReconnectHeals`.
- `ListedIsAnsweredHolds`: a request ends in success only by way of an answer
  that has its request_id (`RequestCall`), which `RequestInv` shows is the
  host's, to that request in that session; and nothing is listed but by `Reply`,
  after such an end. The probes of `/api/network` list nothing.
- `ShutdownIsFinalHolds`: while main shuts down and nobody overlaps, the object
  empties in order (`Ends`); after it (`Final`) every handler is outside a call
  or about to return, and the guard of each new call refuses.

**Below and beside it** (`FramingProofs`, `ClientIOProofs`)

- `FramingTypeCorrect`, `OnlyWholeFramesHolds`, `ChannelKept`: `FrInv` says that
  what is left to read is the end of the stream of frames (`Suffix`), that the
  bytes at hand continue it, that a header is kept only if `_recv_frame` accepts
  it, and that what was returned is whole bodies. The lemma it turns on is
  `ValidStartsInHeader`: four bytes that make a valid length begin in a header,
  for those that begin in a body make too much. `HeaderIsSize` is that `unpack`
  undoes `pack`. Then every step of the bytes is shown to be one of
  `FrameChannel`, or none; a timeout within a frame is its `Lose`. These rest on
  facts about every prefix of a stream and every digit of a header. `UpTo`
  gives them: of the numbers where a formula fails there would be a least one
  (`WFMin`), and the one before it leads to a contradiction.
- `TimeoutTypeCorrect`, `LoneRequestTimedHolds`: the invariant adds where each
  local is good: a lone request found the default and will put it back, and
  while it exchanges the socket has its timeout.
- `LoadsWholeOrRefusesHolds`: a fact about `Load`, of whatever the file holds,
  which is why no crash or overlap of savers matters to it.
- `SavedThenLoadedHolds`: `FileInv` says that the saver that opened the file with
  no other saving has it empty before it, and that what it wrote then stays.

**What the portal decides and shows** (`CapabilitiesProofs`, `PortalShownProofs`)

- `MoreIsNoWorseHolds`, `HighFitsHolds`: over all policies, profiles and
  readings; the second under `HighCoversModel`, that the thresholds of HIGH are
  no lower than the model's needs, which holds of `DEFAULT_POLICY` and every
  entry of `MODEL_PROFILES`.
- `RefusedForAReasonHolds`, `RightPlaceHolds`: a request decides by its own
  locals (`Decided`), and whatever turned the host away from it is noted
  (`AwayNoted`): a probe that failed and a guard that refused are moments at which
  the host was not there for the device. Both are about all requests, whatever
  changes between their steps.
- `LoneSummaryCoherentHolds`, `LeaseOnlyRunsOutHolds`: what has been read so far
  is the client's, as long as no call overlaps (`ReadSoFar`); a status once read
  is still reached as the clock runs (`ShownFits`, `ShownPast`).
- `SummaryOfOneSessionHolds`: a call stores and clears the parts of a session in
  the order connection_id, token, lease; `Sound` says what it finds stored where
  it does, so the object has parts of one session at every step (`OneSession`).
- `ShownWasReportedHolds`, `NetworkTypeCorrect`: what is stored for a device was
  reported for it (`StoredWasReported`); `RoundedStays` shows that a nearest
  multiple does not leave a range that ends at a multiple, so rounding keeps 90
  and 180.
- `AnswersOfTheirTimeHolds`: `InTime` says of a request under way what `during`
  knows of the copies it holds, and that what is stored now is in `during`, which
  only grows (`TimeRests`); each step of a handler adds one part to its answer
  and takes it from what is stored (`OneInTime`).
- `QuietAnswerCoherentHolds`: as long as no report interrupts, a handler's copies
  agree with what is stored (`OneAtHand`, `AgreesSoFar`), and the distances so
  far are those of the places so far.
- `RecentDistinctHolds`, `KeptUntilDisplacedHolds`: what is listed before a record
  was asked for after that one was inserted (`Ahead`), so a cut that drops a
  record has the `Limit` that displaced it in front, all different; a record that
  is gone stays displaced (`Displaced`). The length is bounded by counting the
  handlers about to cut, a finite set whose size grows and shrinks by one.

Only model-checked: liveness, which the prover does not reach under fairness
(`CallsReturn`, `ClosedIsForgotten`, `RequestsAnswered`, `QuitEnds`,
`AiAnswered`). The violated runs are counterexamples, which nothing is to be
proved of.

## 6. Not modelled

- `redact` and `envelope`: a filter of strings by key; all it promises concerns
  secrecy, which models without strings cannot express.
- The haversine formula: real trigonometry. Formatting and HTML.
- HTTP parsing, the endpoints that only format (`api_device`,
  `api_capabilities`, `api_services`), argument parsing, `--remember`.
- The flags of the TLS context (only that TLS may fail), the launchers,
  monitoring, whose metrics nothing updates.
- The external host may differ from the fake one that stands for it. The
  payloads of requests carry no control here. The fake host's own read timeout
  may fall inside a frame; clients send a frame in one piece, so this is left
  out.
- Other Python implementations: atomicity follows CPython with its lock.

## 7. What is left

1. Safety that liveness rests on, as theorems: that a thread inside a call is at a
   label from which a step of its own can be taken, but for the lock, and that
   whoever has the lock can go on.
2. `MismatchOnlyAfterLoss` for the whole program, and from `ChannelKept` to `Wire`:
   that a direction of `CoreDeviceClient` is a `FrameChannel` as well.
3. Two devices at one host, and a host that restarts: the fake host cannot, and
   the external one is not in the repository.
