---------------------------- MODULE PortalNetwork ----------------------------
(***************************************************************************)
(* The locations of client/geo.py and the handlers of                      *)
(* client/portal/server.py that record and show them: POST /api/location,  *)
(* POST /api/devices/location and GET /api/network, on the portal's        *)
(* threads and without a lock.  A coordinate is an integer of some unit    *)
(* of a degree; float arithmetic rounds a tie to either side.              *)
(***************************************************************************)
EXTENDS Integers

CONSTANTS
  Handlers,      \* the portal's handler threads
  Devices,       \* the ids a host may list
  Self,          \* the key of _own_location
  Coordinates,   \* the numbers a report may give
  NotANumber, TooLarge,  \* what else: no number; an integer no float holds
  MaxLat, MaxLon,  \* 90 and 180 degrees
  Step,          \* unit of the rounding: 1 (exact), 0.01 or 0.1 degrees
  Hidden,        \* location_precision is hidden
  Unknown,       \* the unknown location
  MaxRequests    \* bound on the number of requests

ASSUME NetworkAssumption ==
  /\ Self \notin Devices
  /\ Coordinates \subseteq Int /\ NotANumber \notin Int /\ TooLarge \notin Int
  /\ Step \in Nat \ {0} /\ Hidden \in BOOLEAN /\ MaxRequests \in Nat
  /\ MaxLat \in Nat /\ MaxLat % Step = 0
  /\ MaxLon \in Nat /\ MaxLon % Step = 0
  /\ Unknown \notin Int \X Int

VARIABLES
  locations,  \* _own_location (at Self) and _peer_locations
  host,       \* what the host lists, or {} if it is down or fails
  at,         \* where each handler is
  todo,       \* the devices of its listing not yet described
  peer,       \* the location it looked up for the device at hand
  shown,      \* the locations of its answer
  near,       \* the devices of its answer that have a distance
  requests,   \* requests so far
  reported,   \* history: the usable locations reported for each device
  quiet,      \* history: no report since the handler's request began
  during      \* history: what was stored for each place since then

networkVars ==
  <<locations, host, at, todo, peer, shown, near, requests, reported, quiet,
    during>>

Places == Devices \cup {Self}
Inputs == Coordinates \cup {NotANumber, TooLarge}
Position == (-MaxLat..MaxLat) \X (-MaxLon..MaxLon)
Location == Position \cup {Unknown}
Shown == UNION {[listing -> Location] : listing \in SUBSET Places}
Nowhere == [d \in {} |-> Unknown]

-----------------------------------------------------------------------------
\* make_location: the conditions are tried in this order, and the conversion
\* to a float of a coordinate that is tried may fail.
Overflows(lat, lon) ==
  /\ NotANumber \notin {lat, lon}
  /\ lat = TooLarge \/ (lat \in -MaxLat..MaxLat /\ lon = TooLarge)

\* Mutant of MakeLocation: the range is not looked at.
MakeLocationUnchecked(lat, lon) ==
  IF {lat, lon} \subseteq Int THEN <<lat, lon>> ELSE Unknown

MakeLocation(lat, lon) == IF <<lat, lon>> \in Position THEN <<lat, lon>> ELSE Unknown

HasCoordinates(location) == location # Unknown

\* The multiples of Step nearest to c; there are two in a tie.
Rounded(c) ==
  {r \in (c - Step)..(c + Step) :
     r % Step = 0 /\ 2 * (r - c) <= Step /\ 2 * (c - r) <= Step}

ApplyPrecision(location) ==
  IF Hidden \/ ~HasCoordinates(location) THEN {Unknown}
  ELSE Rounded(location[1]) \X Rounded(location[2])

-----------------------------------------------------------------------------
NetworkInit ==
  /\ locations = [d \in Places |-> Unknown]
  /\ host \in SUBSET Devices
  /\ at = [h \in Handlers |-> "free"]
  /\ todo = [h \in Handlers |-> {}]
  /\ peer = [h \in Handlers |-> Unknown]
  /\ shown = [h \in Handlers |-> Nowhere]
  /\ near = [h \in Handlers |-> {}]
  /\ requests = 0
  /\ reported = [d \in Places |-> {}]
  /\ quiet = [h \in Handlers |-> TRUE]
  /\ during = [h \in Handlers |-> [d \in Places |-> {Unknown}]]

Begin(h, where) ==
  /\ at[h] = "free" /\ requests < MaxRequests
  /\ requests' = requests + 1
  /\ at' = [at EXCEPT ![h] = where]
  /\ near' = [near EXCEPT ![h] = {}]

\* What is stored once the request of h has begun, or has stored something, is
\* the first of its time, and one more for the requests under way.
Remembers(h) ==
  during' = [g \in Handlers |-> [d \in Places |->
               IF g = h THEN {locations'[d]}
               ELSE IF at[g] = "free" THEN during[g][d]
               ELSE during[g][d] \cup {locations'[d]}]]

\* A report of a location, of this device or of another: it is stored, and
\* every request under way is disturbed by it.
Report(d, location) ==
  /\ locations' = [locations EXCEPT ![d] = location]
  /\ reported' = [reported EXCEPT ![d] = @ \cup ({location} \ {Unknown})]
  /\ quiet' = [g \in Handlers |-> FALSE]

\* do_POST answers 500 when make_location fails, and nothing is stored.
Fail(h) ==
  /\ Begin(h, "free")
  /\ shown' = [shown EXCEPT ![h] = Nowhere]
  /\ UNCHANGED <<locations, host, todo, peer, reported, quiet, during>>

\* set_own_location: the answer is made of _own_location, read once more.
SetOwn(h, lat, lon) ==
  /\ ~Overflows(lat, lon)
  /\ Begin(h, "answer own")
  /\ Report(Self, MakeLocation(lat, lon))
  /\ Remembers(h)
  /\ shown' = [shown EXCEPT ![h] = Nowhere]
  /\ UNCHANGED <<host, todo, peer>>

AnswerOwn(h) ==
  /\ at[h] = "answer own"
  /\ at' = [at EXCEPT ![h] = "free"]
  /\ \E s \in ApplyPrecision(locations[Self]) :
       shown' = [shown EXCEPT ![h] = [d \in {Self} |-> s]]
  /\ UNCHANGED <<locations, host, todo, peer, near, requests, reported, quiet,
                 during>>

\* set_peer_location: the answer is made of what it stored.
SetPeer(h, d, lat, lon) ==
  /\ ~Overflows(lat, lon)
  /\ Begin(h, "free")
  /\ Report(d, MakeLocation(lat, lon))
  /\ Remembers(h)
  /\ \E s \in ApplyPrecision(MakeLocation(lat, lon)) :
       shown' = [shown EXCEPT ![h] = [e \in {d} |-> s]]
  /\ UNCHANGED <<host, todo, peer>>

-----------------------------------------------------------------------------
\* api_network, down to the listing of the host.  The two probes of the host's
\* port do not bear on locations.
List(h) ==
  /\ Begin(h, "devices")
  /\ todo' = [todo EXCEPT ![h] = host]
  /\ shown' = [shown EXCEPT ![h] = Nowhere]
  /\ quiet' = [quiet EXCEPT ![h] = TRUE]
  /\ UNCHANGED <<locations, host, peer, reported>>
  /\ Remembers(h)

\* Mutant of PeerOf: a device without a report is where this one is.
PeerOfOrOwn(d) == IF HasCoordinates(locations[d]) THEN locations[d] ELSE locations[Self]

\* _peer_locations.get
PeerOf(d) == locations[d]

Describe(h, d) ==
  /\ at[h] = "devices" /\ d \in todo[h]
  /\ at' = [at EXCEPT ![h] = "distance"]
  /\ peer' = [peer EXCEPT ![h] = PeerOf(d)]
  /\ \E s \in ApplyPrecision(PeerOf(d)) :
       shown' = [shown EXCEPT ![h] =
                   [e \in (DOMAIN @) \cup {d} |-> IF e = d THEN s ELSE @[e]]]
  /\ UNCHANGED <<locations, host, todo, near, requests, reported, quiet,
                 during>>

\* Mutant of HasDistance: one side is enough.
HasDistanceOneSide(first, second) == HasCoordinates(second)

\* distance_between
HasDistance(first, second) == HasCoordinates(first) /\ HasCoordinates(second)

Measure(h, d) ==
  /\ at[h] = "distance" /\ d \in todo[h] \cap DOMAIN shown[h]
  /\ at' = [at EXCEPT ![h] = "devices"]
  /\ todo' = [todo EXCEPT ![h] = @ \ {d}]
  /\ near' = [near EXCEPT ![h] =
                IF HasDistance(locations[Self], peer[h]) THEN @ \cup {d} ELSE @]
  /\ UNCHANGED <<locations, host, peer, shown, requests, reported, quiet, during>>

AnswerNetwork(h) ==
  /\ at[h] = "devices" /\ todo[h] = {}
  /\ at' = [at EXCEPT ![h] = "free"]
  /\ \E s \in ApplyPrecision(locations[Self]) :
       shown' = [shown EXCEPT ![h] =
                   [e \in (DOMAIN @) \cup {Self} |-> IF e = Self THEN s ELSE @[e]]]
  /\ UNCHANGED <<locations, host, todo, peer, near, requests, reported, quiet,
                 during>>

\* Devices come and go at the host, and the host itself.
Change ==
  /\ host' \in SUBSET Devices
  /\ UNCHANGED <<locations, at, todo, peer, shown, near, requests, reported, quiet,
                 during>>

Post(h) ==
  \E lat, lon \in Inputs :
    \/ Overflows(lat, lon) /\ Fail(h)
    \/ SetOwn(h, lat, lon)
    \/ \E d \in Devices : SetPeer(h, d, lat, lon)

Get(h) ==
  \/ List(h)
  \/ \E d \in Devices : Describe(h, d) \/ Measure(h, d)
  \/ AnswerNetwork(h)

NetworkNext == Change \/ \E h \in Handlers : Post(h) \/ AnswerOwn(h) \/ Get(h)

NetworkSpec == NetworkInit /\ [][NetworkNext]_networkVars

-----------------------------------------------------------------------------
\* Places, devices and answers are what the handlers may put there, and no
\* stored location is off the globe.
NetworkTypeOK ==
  /\ locations \in [Places -> Location]
  /\ host \subseteq Devices
  /\ at \in [Handlers -> {"free", "answer own", "devices", "distance"}]
  /\ todo \in [Handlers -> SUBSET Devices]
  /\ peer \in [Handlers -> Location]
  /\ shown \in [Handlers -> Shown]
  /\ near \in [Handlers -> SUBSET Devices]
  /\ requests \in 0..MaxRequests
  /\ reported \in [Places -> SUBSET Position]
  /\ quiet \in [Handlers -> BOOLEAN]
  /\ during \in [Handlers -> [Places -> SUBSET Location]]

\* s is a position no finer than Step, within half a Step of p.
Coarse(s, p) ==
  /\ s \in Position
  /\ \A i \in {1, 2} :
       s[i] % Step = 0 /\ 2 * (s[i] - p[i]) <= Step /\ 2 * (p[i] - s[i]) <= Step

\* "Coordinates are never fabricated" (geo.py:3): in no answer, whatever the
\* handlers do meanwhile, is a device anywhere but at one of the places reported
\* for that very device, made as coarse as the precision asks and still a
\* position on the globe; and nowhere when the precision is hidden.
ShownWasReported ==
  \A h \in Handlers : \A d \in DOMAIN shown[h] :
    \/ shown[h][d] = Unknown
    \/ ~Hidden /\ \E p \in reported[d] : Coarse(shown[h][d], p)

\* "Haversine distance (both sides need coordinates)" (docs/client-portal.md:72):
\* an answer of /api/network that no report interrupts gives a distance for just
\* the devices that it shows at a place while it shows this one at a place.
QuietAnswerCoherent ==
  \A h \in Handlers :
    at[h] = "free" /\ quiet[h] /\ Self \in DOMAIN shown[h] /\ ~Hidden =>
      near[h] = {d \in Devices \cap DOMAIN shown[h] :
                   shown[h][d] # Unknown /\ shown[h][Self] # Unknown}

\* s is what a precision that hides nothing makes of one of the stored.
ShowsOneOf(s, stored) ==
  IF s = Unknown THEN Unknown \in stored
  ELSE \E p \in stored \ {Unknown} : Coarse(s, p)

\* api_network looks at its own location once for each device and once more at
\* the end, and at each device's location once, while reports change them
\* (portal/server.py:324-340); set_own_location reads back what it stored.  A
\* whole answer may be of no single moment, but each part of it is of its time:
\* a place shown was stored while the request ran, a device shown nowhere was
\* nowhere then, and a distance is given, or missing, only if both devices
\* were, or one was not, at a place meanwhile.
OfItsTime(h) ==
  /\ ~Hidden => \A d \in DOMAIN shown[h] : ShowsOneOf(shown[h][d], during[h][d])
  /\ \A d \in near[h] :
       during[h][d] \ {Unknown} # {} /\ during[h][Self] \ {Unknown} # {}
  /\ Self \in DOMAIN shown[h] =>
       \A d \in (Devices \cap DOMAIN shown[h]) \ near[h] :
         Unknown \in during[h][d] \cup during[h][Self]

AnswersOfTheirTime == \A h \in Handlers : OfItsTime(h)

\* "Build a location record; invalid coordinates become Unknown." (geo.py:43):
\* no request that reports a location fails for the coordinates it gives.
InvalidBecomesUnknown == [][\A h \in Handlers : ~Fail(h)]_networkVars
=============================================================================
