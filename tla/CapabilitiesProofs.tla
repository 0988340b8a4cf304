-------------------------- MODULE CapabilitiesProofs --------------------------
(***************************************************************************)
(* What the class of a device and the fit of its model mean, for every     *)
(* policy, every model profile and every size a probe may report; and that *)
(* an AI request is served where it should be, and refused only for a      *)
(* reason, though what it looks at may change between its steps.           *)
(***************************************************************************)
EXTENDS PortalAi, TLAPS

\* The probes report sizes or nothing, and Ollama names or nothing.
THEOREM CapabilityTypeCorrect == CapabilitySpec => []CapabilityTypeOK
<1>1. CapabilityInit => CapabilityTypeOK
  BY DEF CapabilityInit, CapabilityTypeOK
<1>2. CapabilityTypeOK /\ [CapabilityNext]_capabilityVars => CapabilityTypeOK'
  BY DEF CapabilityTypeOK, CapabilityNext, capabilityVars, Probe, Ollama
<1> QED
  BY <1>1, <1>2, PTL DEF CapabilitySpec

\* With more of everything, the same needs are met.
LEMMA MeetsMonotone ==
  ASSUME NEW r \in Readings, NEW s \in Readings,
         r.total # None, r.cores # None,
         AtLeast(s.total, r.total), AtLeast(s.available, r.available),
         AtLeast(s.cores, r.cores),
         NEW total \in Nat, NEW available \in Nat, NEW cores \in Nat,
         Meets(r, total, available, cores)
  PROVE  Meets(s, total, available, cores)
<1>1. /\ {r.total, s.total, r.available, s.available} \subseteq Nat \cup {None}
      /\ {r.cores, s.cores} \subseteq Nat \cup {None}
  BY CapabilityAssumption DEF Readings, TotalRam, AvailableRam, CpuCount
<1>2. s.total >= total
  BY <1>1, CapabilityAssumption DEF Meets, AtLeast
<1>3. s.cores >= cores
  BY <1>1, CapabilityAssumption DEF Meets, AtLeast
<1>4. Enough(s.available, available)
  BY <1>1, CapabilityAssumption DEF Meets, Enough, AtLeast
<1> QED BY <1>2, <1>3, <1>4 DEF Meets

\* More of each resource is never of a lower class.
LEMMA ClassMonotone ==
  ASSUME NEW r \in Readings, NEW s \in Readings,
         AtLeast(s.total, r.total), AtLeast(s.available, r.available),
         AtLeast(s.cores, r.cores)
  PROVE  Order[EvaluateClass(s)] >= Order[EvaluateClass(r)]
<1>1. CASE r.total = None \/ r.cores = None
  <2>1. EvaluateClass(r) = "UNKNOWN"
    BY <1>1 DEF EvaluateClass
  <2>2. EvaluateClass(s) \in {"UNKNOWN", "LOW", "MEDIUM", "HIGH"}
    BY DEF EvaluateClass
  <2> QED BY <2>1, <2>2 DEF Order
<1>2. CASE r.total # None /\ r.cores # None
  <2>1. s.total # None /\ s.cores # None
    BY <1>2 DEF AtLeast
  <2>2. Meets(r, Rules.high_total, Rules.high_available, Rules.high_cores)
        => Meets(s, Rules.high_total, Rules.high_available, Rules.high_cores)
    BY <1>2, MeetsMonotone, CapabilityAssumption DEF Thresholds
  <2>3. Meets(r, Rules.medium_total, Rules.medium_available, Rules.medium_cores)
        => Meets(s, Rules.medium_total, Rules.medium_available,
                 Rules.medium_cores)
    BY <1>2, MeetsMonotone, CapabilityAssumption DEF Thresholds
  <2> QED BY <1>2, <2>1, <2>2, <2>3 DEF EvaluateClass, Order
<1> QED BY <1>1, <1>2

\* A model that fits goes on fitting with more memory and the same GPU.
LEMMA FitMonotone ==
  ASSUME NEW r \in Readings, NEW s \in Readings, NEW names,
         AtLeast(s.total, r.total), AtLeast(s.available, r.available),
         s.gpu = r.gpu, EvaluateModel(s, names) = "INSUFFICIENT"
  PROVE  EvaluateModel(r, names) = "INSUFFICIENT"
<1>1. Needs # None /\ names # None /\ FindModel(names) # {} /\ Problems(s)
  BY DEF EvaluateModel
<1>2. Needs.total \in Nat /\ Needs.available \in Nat
  BY <1>1, CapabilityAssumption
<1>3. ~Enough(s.total, Needs.total) => ~Enough(r.total, Needs.total)
  BY <1>2, CapabilityAssumption DEF Enough, AtLeast, Readings, TotalRam
<1>4. ~Enough(s.available, Needs.available)
      => ~Enough(r.available, Needs.available)
  BY <1>2, CapabilityAssumption DEF Enough, AtLeast, Readings, AvailableRam
<1>5. Problems(r)
  BY <1>1, <1>3, <1>4 DEF Problems
<1> QED BY <1>1, <1>5 DEF EvaluateModel

\* More of everything never lowers the class, whatever the thresholds, and
\* never takes the model away.
THEOREM MoreIsNoWorseHolds == CapabilitySpec => MoreIsNoWorse
<1>1. CapabilityTypeOK /\ CapabilityTypeOK' =>
      [/\ AtLeast(readings'.total, readings.total)
       /\ AtLeast(readings'.available, readings.available)
       /\ AtLeast(readings'.cores, readings.cores)
       => /\ Order[EvaluateClass(readings')] >= Order[EvaluateClass(readings)]
          /\ readings'.gpu = readings.gpu /\ installed' = installed
             /\ EvaluateModel(readings', installed') = "INSUFFICIENT"
             => EvaluateModel(readings, installed) = "INSUFFICIENT"
      ]_capabilityVars
  BY ClassMonotone, FitMonotone DEF CapabilityTypeOK
<1> QED
  BY <1>1, CapabilityTypeCorrect, PTL DEF MoreIsNoWorse

\* Wherever the thresholds of HIGH are no lower than what the model needs, a
\* device of class HIGH has memory enough for it.
THEOREM HighFitsHolds ==
  ASSUME HighCoversModel PROVE CapabilitySpec => []HighFits
<1>1. CapabilityTypeOK => HighFits
  <2> SUFFICES ASSUME CapabilityTypeOK, EvaluateClass(readings) = "HIGH",
                      Needs # None, Needs.vram = 0
               PROVE  ~Problems(readings)
    BY DEF HighFits, EvaluateModel
  <2>1. Meets(readings, Rules.high_total, Rules.high_available, Rules.high_cores)
    BY DEF EvaluateClass
  <2>2. /\ Needs.total \in Nat /\ Needs.available \in Nat
        /\ Rules.high_total \in Nat /\ Rules.high_available \in Nat
    BY CapabilityAssumption DEF Thresholds
  <2>3. Enough(readings.total, Needs.total)
    BY <2>1, <2>2, HighCoversModel, CapabilityAssumption
    DEF HighCoversModel, Meets, Enough, CapabilityTypeOK, Readings, TotalRam
  <2>4. Enough(readings.available, Needs.available)
    BY <2>1, <2>2, HighCoversModel, CapabilityAssumption
    DEF HighCoversModel, Meets, Enough, CapabilityTypeOK, Readings, AvailableRam
  <2>5. Vram(readings.gpu) \in Nat
    <3>1. readings.gpu \in GpuInfo
      BY DEF CapabilityTypeOK, Readings
    <3>2. CASE readings.gpu \in [present : {TRUE}, vram : GpuAmounts \cup {None}]
      BY <3>2, CapabilityAssumption DEF Vram
    <3>3. CASE readings.gpu = [present |-> FALSE, vram |-> None]
      BY <3>3 DEF Vram
    <3> QED BY <3>1, <3>2, <3>3 DEF GpuInfo
  <2> QED BY <2>3, <2>4, <2>5, CapabilityAssumption DEF Problems
<1> QED
  BY <1>1, CapabilityTypeCorrect, PTL

-----------------------------------------------------------------------------
(* One AI request *)

\* What the request found, as far as it has come.  Its decision follows from
\* its own locals, whatever has changed since.
Decided ==
  /\ stage \in {"reach", "decide", "chat", "gate", "infer"} =>
       local = EvaluateModel(profile, models)
  /\ stage = "chat" => local = "AVAILABLE"
  /\ stage \in {"gate", "infer"} => local # "AVAILABLE"

\* What fails the device at any moment of the request is remembered, and so is
\* a host that could not be reached.
AwayNoted ==
  /\ stage # "idle" /\ ~Served => away
  /\ stage = "decide" /\ ~offer => away

AiInv ==
  /\ stage \in Stages
  /\ away \in BOOLEAN
  /\ stage # "idle" => answer = NoAnswer
  /\ Decided
  /\ AwayNoted
  /\ RefusedForAReason

\* An answer that refuses is not one that is yet to come, nor a host's.
LEMMA RefusalIsAnswer ==
  /\ NoAnswer # Unavailable
  /\ \A a \in [executed : {"host"}, success : BOOLEAN] : a # Unavailable
  /\ [executed |-> "local", success |-> TRUE] # Unavailable
BY DEF NoAnswer, Unavailable

\* No request has been made.
LEMMA AiInvInit == AiInit => AiInv
BY RefusalIsAnswer
DEF AiInit, AiInv, Stages, Decided, AwayNoted, RefusedForAReason

\* Each step of a request keeps AiInv; where it refuses, its guard is the reason.
LEMMA AiInvRequest == AiInv /\ Request => AiInv'
<1> SUFFICES ASSUME AiInv, Request PROVE AiInv'
  OBVIOUS
<1> USE DEF AiInv, Stages, Goto, Served, history
<1>1. CASE ListModels
  BY <1>1, RefusalIsAnswer
  DEF ListModels, world, capabilityVars, Decided, AwayNoted, RefusedForAReason
<1>2. CASE Evaluate
  BY <1>2, RefusalIsAnswer
  DEF Evaluate, world, capabilityVars, Decided, AwayNoted, RefusedForAReason
<1>3. CASE Reach
  BY <1>3, RefusalIsAnswer
  DEF Reach, world, capabilityVars, Decided, AwayNoted, RefusedForAReason
<1>4. CASE Decide
  BY <1>4, RefusalIsAnswer
  DEF Decide, Target, world, capabilityVars, Decided, AwayNoted, RefusedForAReason
<1>5. CASE Chat
  BY <1>5, RefusalIsAnswer
  DEF Chat, world, capabilityVars, Decided, AwayNoted, RefusedForAReason
<1>6. CASE Gate
  BY <1>6, RefusalIsAnswer
  DEF Gate, world, capabilityVars, Decided, AwayNoted, RefusedForAReason
<1>7. CASE Infer
  BY <1>7, RefusalIsAnswer
  DEF Infer, world, capabilityVars, Decided, AwayNoted, RefusedForAReason
<1> QED
  BY <1>1, <1>2, <1>3, <1>4, <1>5, <1>6, <1>7 DEF Request

\* So do a new request, and a change of the world during one.
LEMMA AiInvNext == AiInv /\ [AiNext]_aiVars => AiInv'
<1> SUFFICES ASSUME AiInv, [AiNext]_aiVars PROVE AiInv'
  OBVIOUS
<1>1. CASE Ask
  BY <1>1, RefusalIsAnswer
  DEF Ask, Goto, AiInv, Stages, world, capabilityVars, Decided, AwayNoted,
      RefusedForAReason, Served
<1>2. CASE Change
  <2>1. away' = (away \/ ~Served') /\ stage # "idle" /\ UNCHANGED requestVars
    BY <1>2 DEF Change
  <2>2. away' \in BOOLEAN
    BY <2>1, Zenon DEF AiInv
  <2> QED
    BY <2>1, <2>2, RefusalIsAnswer
    DEF AiInv, requestVars, Decided, AwayNoted, RefusedForAReason
<1>3. CASE UNCHANGED aiVars
  BY <1>3 DEF aiVars, world, requestVars, history, capabilityVars, AiInv, Decided,
     AwayNoted, RefusedForAReason, Served
<1> QED
  BY <1>1, <1>2, <1>3, AiInvRequest DEF AiNext

\* However the memory, Ollama, the host and the session change while it runs, a
\* request is refused only if the host or the session failed the device at some
\* moment of it, or its own model was found AVAILABLE and failed: the 503 of
\* ai_request always has a reason that was there (portal/server.py:400-451).
THEOREM RefusedForAReasonHolds == AiSpec => []RefusedForAReason
<1>1. AiInv => RefusedForAReason
  BY DEF AiInv
<1> QED
  BY <1>1, AiInvInit, AiInvNext, PTL DEF AiSpec

\* The local model runs only on memory that was found enough for it, and the
\* host is asked only for what was found not to fit, whatever changes meanwhile.
THEOREM RightPlaceHolds == AiSpec => []RightPlace
<1>1. AiInv => RightPlace
  BY DEF AiInv, Decided, RightPlace, EvaluateModel
<1> QED
  BY <1>1, AiInvInit, AiInvNext, PTL DEF AiSpec
=============================================================================
