------------------------------- MODULE PortalAi -------------------------------
(***************************************************************************)
(* ai_request of client/portal/server.py: one prompt, answered by the      *)
(* local model when it is AVAILABLE and by the host's agent service        *)
(* otherwise.  Everything it looks at may change between its steps: the    *)
(* memory, the models of Ollama, the host, the session of the device.      *)
(***************************************************************************)
EXTENDS Capabilities

CONSTANTS
  ModelId,      \* the configured model, by its full name
  MaxChanges,   \* bound on the changes of the world during a request
  MaxPrompts    \* bound on the number of requests

ASSUME AiAssumption == ModelId \in Matching /\ MaxChanges \in Nat /\ MaxPrompts \in Nat

VARIABLES
  host,       \* down, refusing this device's execution, or serving it
  session,    \* what session_summary says of the device: on or off
  stage,      \* where the request is
  profile, models,  \* its locals of _ai_state
  local, offer,     \* the state and the offload it found
  answer,     \* the last answer
  prompts,    \* requests so far
  changes,    \* history: changes of the world since the request began
  away        \* history: the host or the session failed the device meanwhile

world == <<capabilityVars, host, session>>
requestVars == <<stage, profile, models, local, offer, answer, prompts>>
history == <<changes, away>>
aiVars == <<world, requestVars, history>>

Hosts == {"down", "refusing", "serving"}
Stages == {"idle", "models", "evaluate", "reach", "decide", "chat", "gate", "infer"}

\* success is the host's own word in a payload it answers with.
NoAnswer == [executed |-> "none", success |-> TRUE]
Unavailable == [executed |-> "unavailable", success |-> FALSE]

AiInit ==
  /\ CapabilityInit
  /\ host \in Hosts /\ session \in BOOLEAN
  /\ stage = "idle"
  /\ profile = readings /\ models = None
  /\ local = "UNKNOWN" /\ offer = FALSE
  /\ answer = NoAnswer
  /\ prompts = 0 /\ changes = 0 /\ away = FALSE

-----------------------------------------------------------------------------
Goto(from, to) == stage = from /\ stage' = to

\* The host serves this device, and the device says it is online there.
Served == host = "serving" /\ session

\* POST /api/ai/request, down to detect_capabilities.
Ask ==
  /\ prompts < MaxPrompts
  /\ Goto("idle", "models")
  /\ profile' = readings
  /\ answer' = NoAnswer
  /\ prompts' = prompts + 1 /\ changes' = 0 /\ away' = ~Served
  /\ UNCHANGED <<world, models, local, offer>>

ListModels ==
  /\ Goto("models", "evaluate")
  /\ models' = installed
  /\ UNCHANGED <<world, profile, local, offer, answer, prompts, history>>

Evaluate ==
  /\ Goto("evaluate", "reach")
  /\ local' = EvaluateModel(profile, models)
  /\ UNCHANGED <<world, profile, models, offer, answer, prompts, history>>

\* _host_reachable: a connection of its own, closed at once.
Reach ==
  /\ Goto("reach", "decide")
  /\ offer' = (host # "down")
  /\ UNCHANGED <<world, profile, models, local, answer, prompts, history>>

\* Mutant of Target: a model that was not found is taken for a local one.
TargetUnknownIsLocal ==
  IF local \in {"AVAILABLE", "UNKNOWN"} THEN "chat"
  ELSE IF offer THEN "gate" ELSE "idle"

Target ==
  IF local = "AVAILABLE" THEN "chat" ELSE IF offer THEN "gate" ELSE "idle"

Decide ==
  /\ Goto("decide", Target)
  /\ answer' = IF Target = "idle" THEN Unavailable ELSE answer
  /\ UNCHANGED <<world, profile, models, local, offer, prompts, history>>

\* Ollama answers for the model of that very name, or with an error, or with
\* no content, or not in time.
Chat ==
  /\ Goto("chat", "idle")
  /\ \/ answer' = Unavailable
     \/ /\ installed # None /\ ModelId \in installed
        /\ answer' = [executed |-> "local", success |-> TRUE]
  /\ UNCHANGED <<world, profile, models, local, offer, prompts, history>>

\* _require_online
Gate ==
  /\ Goto("gate", IF session THEN "infer" ELSE "idle")
  /\ answer' = IF session THEN answer ELSE Unavailable
  /\ UNCHANGED <<world, profile, models, local, offer, prompts, history>>

\* Mutant of Infer: an exception of the request is not an answer.
InferUncaught ==
  /\ Served
  /\ Goto("infer", "idle")
  /\ answer' \in [executed : {"host"}, success : BOOLEAN]
  /\ UNCHANGED <<world, profile, models, local, offer, prompts, history>>

\* service_request("agent", "infer"): the payload is the answer, whatever it
\* says; an exception, an error frame of the host included, is not.
Infer ==
  /\ Goto("infer", "idle")
  /\ \/ Served /\ answer' \in [executed : {"host"}, success : BOOLEAN]
     \/ ~Served /\ answer' = Unavailable
  /\ UNCHANGED <<world, profile, models, local, offer, prompts, history>>

Request ==
  \/ ListModels \/ Evaluate \/ Reach \/ Decide \/ Chat \/ Gate \/ Infer

\* The probes, Ollama, the host and the session, during a request.
Change ==
  /\ changes < MaxChanges /\ stage # "idle"
  /\ changes' = changes + 1
  /\ \/ CapabilityNext /\ UNCHANGED <<host, session>>
     \/ host' \in Hosts \ {host} /\ UNCHANGED <<capabilityVars, session>>
     \/ session' = ~session /\ UNCHANGED <<capabilityVars, host>>
  /\ away' = (away \/ ~Served')
  /\ UNCHANGED requestVars

AiNext == Ask \/ Request \/ Change

AiSpec == AiInit /\ [][AiNext]_aiVars

\* Every step of a request is a probe or a call with a timeout.
AiFairSpec == AiSpec /\ WF_aiVars(Request)

-----------------------------------------------------------------------------
\* A request is turned away, with "local model insufficient and C.O.R.E. host
\* unreachable" or any other 503, only for a reason that was there while it
\* ran, however its probes were overtaken: the host did not serve the device or
\* the session was not online at some moment of it, or the device's own model
\* was found AVAILABLE and failed.  A device that was served throughout is
\* never refused for what an earlier probe said of its model.
RefusedForAReason ==
  answer = Unavailable => away \/ local = "AVAILABLE"

\* The host is never asked for what the device was found able to do, and the
\* local model is never run on memory that was found too small for it, though
\* the probes have other results by then.
RightPlace ==
  /\ stage = "chat" => Needs # None /\ ~Problems(profile)
  /\ stage \in {"gate", "infer"} =>
       Needs = None \/ models = None \/ FindModel(models) = {} \/ Problems(profile)

\* Every prompt is answered.
AiAnswered == stage # "idle" ~> stage = "idle"

\* "a host service failure is surfaced as an error" (docs/audit-notes.md:6, and
\* tests/test_audit_regressions.py:131): no answer that the host gives with
\* success false is passed on as one that was executed.
HostFailureSurfaced == answer.executed = "host" => answer.success

\* "Local model AVAILABLE -> `POST /api/ai/request` runs against local Ollama
\* ... and returns the text" (docs/client-portal.md:51): a model found
\* AVAILABLE answers, when nothing changes before it is asked.
AvailableRuns ==
  stage = "chat" /\ changes = 0 => ModelId \in installed
=============================================================================
