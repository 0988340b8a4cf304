----------------------------- MODULE Capabilities -----------------------------
(***************************************************************************)
(* client/capabilities.py and client/models.py: what the probes report,    *)
(* the class of the device, and whether the local model fits it.  A probe  *)
(* runs at each request and may report something else each time, or        *)
(* nothing: the state is what it would report now, in GB.                  *)
(***************************************************************************)
EXTENDS Naturals

CONSTANTS
  Amounts,    \* sizes the probes may report
  GpuAmounts, \* sizes of GPU memory they may report
  Cores,      \* core counts they may report
  Rules,      \* the policy of evaluate_class: a record like DEFAULT_POLICY
  Needs,      \* the profile of the configured model in MODEL_PROFILES, or None
  Names,      \* the names Ollama may list
  Matching,   \* those that start with the id of the configured model
  None

Thresholds ==
  [high_total : Nat, high_available : Nat, high_cores : Nat,
   medium_total : Nat, medium_available : Nat, medium_cores : Nat]

ASSUME CapabilityAssumption ==
  /\ Amounts \cup GpuAmounts \subseteq Nat /\ Cores \subseteq Nat
  /\ None \notin Nat
  /\ Rules \in Thresholds
  /\ Needs \in [total : Nat, available : Nat, vram : Nat] \cup {None}
  /\ Matching \subseteq Names

VARIABLES
  readings,   \* what detect_capabilities would return
  installed   \* what ollama_models would return: None when it is unreachable

capabilityVars == <<readings, installed>>

\* Every probe degrades to None.
TotalRam == Amounts \cup {None}
AvailableRam == Amounts \cup {None}
CpuCount == Cores \cup {None}

\* A GPU that is found may have no memory of its own to report.
GpuInfo == [present : {TRUE}, vram : GpuAmounts \cup {None}]
           \cup {[present |-> FALSE, vram |-> None]}

Readings == [total : TotalRam, available : AvailableRam, cores : CpuCount,
             gpu : GpuInfo]

CapabilityInit ==
  /\ readings \in Readings
  /\ installed \in (SUBSET Names) \cup {None}

\* detect_capabilities at a later moment.
Probe ==
  /\ readings' \in Readings
  /\ UNCHANGED installed

\* Models are pulled and removed, Ollama is started and stopped.
Ollama ==
  /\ installed' \in (SUBSET Names) \cup {None}
  /\ UNCHANGED readings

CapabilityNext == Probe \/ Ollama

CapabilitySpec == CapabilityInit /\ [][CapabilityNext]_capabilityVars

-----------------------------------------------------------------------------
(* evaluate_class *)

\* What is not known is taken to be enough.
Enough(amount, needed) == IF amount = None THEN TRUE ELSE amount >= needed

Meets(r, total, available, cores) ==
  /\ r.total >= total
  /\ r.cores >= cores
  /\ Enough(r.available, available)

\* Mutant of EvaluateClass: MEDIUM ends where HIGH begins.
EvaluateClassBanded(r) ==
  IF r.total = None \/ r.cores = None THEN "UNKNOWN"
  ELSE IF Meets(r, Rules.high_total, Rules.high_available, Rules.high_cores)
    THEN "HIGH"
  ELSE IF /\ Meets(r, Rules.medium_total, Rules.medium_available, Rules.medium_cores)
          /\ r.total < Rules.high_total
    THEN "MEDIUM"
  ELSE "LOW"

EvaluateClass(r) ==
  IF r.total = None \/ r.cores = None THEN "UNKNOWN"
  ELSE IF Meets(r, Rules.high_total, Rules.high_available, Rules.high_cores)
    THEN "HIGH"
  ELSE IF Meets(r, Rules.medium_total, Rules.medium_available, Rules.medium_cores)
    THEN "MEDIUM"
  ELSE "LOW"

(* evaluate_model *)

\* find_model: any installed model whose name starts with the id.
FindModel(models) == models \cap Matching

\* An unknown amount of memory on a GPU counts as none.
Vram(gpu) == IF gpu.present /\ gpu.vram # None THEN gpu.vram ELSE 0

\* Mutant of Problems: what is just enough is not.
ProblemsAtLimit(r) ==
  \/ ~Enough(r.total, Needs.total + 1)
  \/ ~Enough(r.available, Needs.available + 1)
  \/ Vram(r.gpu) < Needs.vram

Problems(r) ==
  \/ ~Enough(r.total, Needs.total)
  \/ ~Enough(r.available, Needs.available)
  \/ Vram(r.gpu) < Needs.vram

EvaluateModel(r, models) ==
  IF Needs = None \/ models = None THEN "UNKNOWN"
  ELSE IF FindModel(models) = {} THEN "UNAVAILABLE"
  ELSE IF Problems(r) THEN "INSUFFICIENT"
  ELSE "AVAILABLE"

-----------------------------------------------------------------------------
CapabilityTypeOK ==
  /\ readings \in Readings
  /\ installed \in (SUBSET Names) \cup {None}

\* The thresholds of HIGH are no lower than the needs of the configured model.
HighCoversModel ==
  Needs # None =>
    Needs.total <= Rules.high_total /\ Needs.available <= Rules.high_available

\* The two policies agree: a device of class HIGH has what the configured
\* model needs of its main memory, so when the model is installed and asks
\* for no GPU, only Ollama or a missing profile can keep it from running here.
HighFits ==
  /\ EvaluateClass(readings) = "HIGH"
  /\ Needs # None /\ Needs.vram = 0
  => EvaluateModel(readings, installed) # "INSUFFICIENT"

Order == [UNKNOWN |-> 0, LOW |-> 1, MEDIUM |-> 2, HIGH |-> 3]

AtLeast(new, old) ==
  \/ new = old
  \/ new # None /\ old # None /\ new >= old

\* A device that has at least as much of everything is never classed lower,
\* whatever the thresholds, those of a caller's policy that contradict each
\* other included; and it does not lose its model for want of memory.
MoreIsNoWorse ==
  [][/\ AtLeast(readings'.total, readings.total)
     /\ AtLeast(readings'.available, readings.available)
     /\ AtLeast(readings'.cores, readings.cores)
     => /\ Order[EvaluateClass(readings')] >= Order[EvaluateClass(readings)]
        /\ readings'.gpu = readings.gpu /\ installed' = installed
           /\ EvaluateModel(readings', installed') = "INSUFFICIENT"
           => EvaluateModel(readings, installed) = "INSUFFICIENT"]_capabilityVars

\* "Missing data degrades toward UNKNOWN, never guesses" (evaluate_class,
\* capabilities.py:214): a device whose probe reports one thing less is never
\* classed higher for it.
MissingNeverRaises ==
  [][/\ readings'.total \in {readings.total, None}
     /\ readings'.available \in {readings.available, None}
     /\ readings'.cores \in {readings.cores, None}
     => Order[EvaluateClass(readings')] <= Order[EvaluateClass(readings)]
    ]_capabilityVars
=============================================================================
