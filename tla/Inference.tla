------------------------------ MODULE Inference ------------------------------
(***************************************************************************)
(* Inference, crates/omniagent-inference/src: the router that chooses      *)
(* between local models and cloud providers (router.rs), the manager that  *)
(* finds an engine for the choice and asks it (engine.rs), and the         *)
(* sessions of streamed answers (stream.rs).  Operations run to completion *)
(* behind `&mut self'.                                                     *)
(*                                                                         *)
(* Latencies of models are in tenths of a millisecond, since the code      *)
(* sorts by whole milliseconds and compares fractions.  An engine is an    *)
(* object of a user's trait: what it can do, whether it is available and   *)
(* whether a call succeeds is up to it.                                    *)
(***************************************************************************)
EXTENDS Integers, SequencesExt

CONSTANTS
  Models,        \* ids of local models
  LocalInfos,    \* what models are registered with
  CloudInfos,    \* what cloud providers are registered with
  EngineNames,
  EngineKinds,   \* the engines that are registered
  Preferences,   \* the preferences of the router
  Requests,
  MaxInferences, MaxSessions, MaxChunks   \* bounds

(* types.rs *)
InferencePreference ==
  {"Auto", "LocalOnly", "CloudOnly", "LatencyFirst", "AccuracyFirst", "PrivacyFirst"}

PrivacyLevel == <<"Public", "Internal", "Sensitive", "Confidential">>

InferenceTask ==
  {"TextGeneration", "TextEmbedding", "ImageGeneration", "ImageUnderstanding",
   "SpeechRecognition", "SpeechSynthesis", "Translation", "Summarization",
   "CodeGeneration", "Classification"}

ModelAvailability == {"Available", "Loading", "Unavailable", "Error"}
LocalBackend == {"Candle", "OnnxRuntime", "Tract"}
CloudProvider == {"OpenAI", "Anthropic", "Google", "Mistral", "Azure", "Custom"}
InferenceProvider == LocalBackend \cup {"OpenAI", "Anthropic", "Google"}

IsModelRequest(r) ==
  r.task \in InferenceTask /\ r.preference \in InferencePreference /\ r.privacy_level \in 1 .. 4

IsLocalModelInfo(m) ==
  /\ m.backend \in LocalBackend /\ m.supported_tasks \subseteq InferenceTask
  /\ m.avg_latency \in Nat /\ m.availability \in ModelAvailability

IsCloudProviderInfo(p) ==
  p.provider \in CloudProvider /\ p.avg_latency \in Nat /\ p.is_configured \in BOOLEAN

ConstantsOK ==
  /\ \A m \in LocalInfos : IsLocalModelInfo(m)
  /\ \A p \in CloudInfos : IsCloudProviderInfo(p)
  /\ \A r \in Requests : IsModelRequest(r)
  /\ \A e \in EngineKinds : e.provider \in InferenceProvider /\ e.tasks \subseteq InferenceTask
  /\ Preferences \subseteq InferencePreference
  /\ {MaxInferences, MaxSessions, MaxChunks} \subseteq Nat

VARIABLES
  (* ModelRouter *)
  local_models, cloud_providers, preference,
  (* InferenceManager *)
  engines,       \* name -> engine, with what it says of itself
  inference_count, total_latency_ms,
  last,          \* history: the last call of infer and its outcome
  (* StreamManager *)
  sessions, next_session_id

routervars == <<local_models, cloud_providers, preference>>
managervars == <<engines, inference_count, total_latency_ms, last>>
streamvars == <<sessions, next_session_id>>
vars == <<routervars, managervars, streamvars>>

Put(f, k, v) == [i \in DOMAIN f \cup {k} |-> IF i = k THEN v ELSE f[i]]
Without(f, k) == [i \in DOMAIN f \ {k} |-> f[i]]

-----------------------------------------------------------------------------
(* ModelRouter                                                             *)

RegisterLocalModel(id, info) ==
  local_models' = Put(local_models, id, info) /\ UNCHANGED <<cloud_providers, preference>>

RegisterCloudProvider(info) ==
  cloud_providers' = Put(cloud_providers, info.provider, info) /\ UNCHANGED <<local_models, preference>>

UnregisterLocalModel(id) ==
  local_models' = Without(local_models, id) /\ UNCHANGED <<cloud_providers, preference>>

UnregisterCloudProvider(p) ==
  cloud_providers' = Without(cloud_providers, p) /\ UNCHANGED <<local_models, preference>>

SetPreference(p) == preference' = p /\ UNCHANGED <<local_models, cloud_providers>>

Availability(id) ==
  IF id \in DOMAIN local_models THEN local_models[id].availability ELSE "Unavailable"

None == [path |-> "none"]

(* The decisions for which no path is available *)
Placeholder == [path |-> "cloud", provider |-> "OpenAI", model_id |-> "fallback-model"]

IsAvailable(m) == m.availability = "Available"
SupportsTask(m, task) == task \in m.supported_tasks

(* Those that are the fastest in whole milliseconds; which of them is      *)
(* first in a hash map is open                                             *)
Fastest(table, candidates) ==
  {k \in candidates :
     \A other \in candidates : table[k].avg_latency \div 10 <= table[other].avg_latency \div 10}

LocalCandidates(task) ==
  {m \in DOMAIN local_models : IsAvailable(local_models[m]) /\ SupportsTask(local_models[m], task)}

FindBestLocal(task) ==
  LET candidates == LocalCandidates(task)
  IN  IF candidates = {} THEN {None}
      ELSE {[path |-> "local", backend |-> local_models[m].backend, model_id |-> m] :
              m \in Fastest(local_models, candidates)}

(* Mutated form of CloudCandidates: the key need not be configured. *)
AnyProviders == {p \in DOMAIN cloud_providers : cloud_providers[p].available_models # <<>>}

CloudCandidates ==
  {p \in DOMAIN cloud_providers :
     cloud_providers[p].is_configured /\ cloud_providers[p].available_models # <<>>}

FindBestCloud ==
  IF CloudCandidates = {} THEN {None}
  ELSE {[path |-> "cloud", provider |-> p, model_id |-> Head(cloud_providers[p].available_models)] :
          p \in Fastest(cloud_providers, CloudCandidates)}

GetLocalLatency(decision) == local_models[decision.model_id].avg_latency
GetCloudLatency(decision) == cloud_providers[decision.provider].avg_latency

First(decision, other) == IF decision # None THEN decision ELSE other

FallbackDecision(local, cloud) ==
  IF local # None /\ cloud # None
    THEN [path |-> "fallback", primary |-> local, fallback |-> cloud]
    ELSE First(First(local, cloud), Placeholder)

(* The preference of the router does not count, only the request's, and    *)
(* confidential requests are those that only local models should see       *)
RouteWith(request, local, cloud) ==
  CASE PrivacyLevel[request.privacy_level] = "Confidential" \/ request.preference = "LocalOnly" ->
         First(local, FallbackDecision(local, cloud))
    [] OTHER ->
         CASE request.preference = "CloudOnly" -> First(cloud, FallbackDecision(local, cloud))
           [] request.preference = "LatencyFirst" ->
                IF local # None /\ cloud # None
                  THEN IF GetLocalLatency(local) <= GetCloudLatency(cloud) THEN local ELSE cloud
                  ELSE First(First(local, cloud), FallbackDecision(local, cloud))
           [] request.preference = "AccuracyFirst" ->
                First(First(cloud, local), FallbackDecision(local, cloud))
           [] request.preference \in {"PrivacyFirst", "Auto"} ->
                First(First(local, cloud), FallbackDecision(local, cloud))

Route(request) ==
  {RouteWith(request, local, cloud) : local \in FindBestLocal(request.task), cloud \in FindBestCloud}

-----------------------------------------------------------------------------
(* InferenceManager                                                        *)

RegisterEngine(name, engine) ==
  engines' = Put(engines, name, engine) /\ UNCHANGED <<inference_count, total_latency_ms, last>>

UnregisterEngine(name) ==
  engines' = Without(engines, name) /\ UNCHANGED <<inference_count, total_latency_ms, last>>

(* An engine becomes available or unavailable *)
EngineTurns(name) ==
  /\ engines' = [engines EXCEPT ![name].available = ~@]
  /\ UNCHANGED <<inference_count, total_latency_ms, last>>

ResetStats ==
  inference_count' = 0 /\ total_latency_ms' = 0 /\ UNCHANGED <<engines, last>>

(* find_local_engine and find_cloud_engine: any engine of the provider,    *)
(* whatever the model                                                      *)
EnginesOf(provider) ==
  {name \in DOMAIN engines : engines[name].provider = provider /\ engines[name].available}

FindEngine(decision) ==
  CASE decision.path = "local" -> EnginesOf(decision.backend)
    [] decision.path = "cloud" -> EnginesOf(decision.provider)
    [] decision.path = "fallback" ->
         IF EnginesOf(decision.primary.backend) # {} THEN EnginesOf(decision.primary.backend)
         ELSE EnginesOf(decision.fallback.provider)

Answered(request, decision, provider, outcome) ==
  last' = [request |-> request, decision |-> decision, provider |-> provider, outcome |-> outcome]

(* latency is what the engine says of the call *)
Infer(request, latency) ==
  /\ \E decision \in Route(request) :
       \/ /\ FindEngine(decision) = {}
          /\ Answered(request, decision, "none", "ModelNotFound")
          /\ UNCHANGED <<inference_count, total_latency_ms>>
       \/ \E name \in FindEngine(decision) :
            IF request.task \notin engines[name].tasks
              THEN /\ Answered(request, decision, engines[name].provider, "UnsupportedTask")
                   /\ UNCHANGED <<inference_count, total_latency_ms>>
              ELSE \/ /\ Answered(request, decision, engines[name].provider, "InferenceFailed")
                      /\ UNCHANGED <<inference_count, total_latency_ms>>
                   \/ /\ Answered(request, decision, engines[name].provider, "Ok")
                      /\ inference_count' = inference_count + 1
                      /\ total_latency_ms' = total_latency_ms + latency
  /\ UNCHANGED engines

-----------------------------------------------------------------------------
(* StreamManager                                                           *)

StreamSession == [chunks |-> <<>>, total_tokens |-> 0, is_complete |-> FALSE]

CreateSession ==
  /\ sessions' = Put(sessions, next_session_id, StreamSession)
  /\ next_session_id' = next_session_id + 1

(* Tokens are the bytes of the chunk *)
WithChunk(session, chunk) ==
  [chunks |-> Append(session.chunks, chunk),
   total_tokens |-> session.total_tokens + chunk.length,
   is_complete |-> session.is_complete \/ chunk.is_final]

(* An unknown session and a complete one are refused *)
AddChunk(id, chunk) ==
  /\ id \in DOMAIN sessions /\ ~sessions[id].is_complete
  /\ sessions' = [sessions EXCEPT ![id] = WithChunk(@, chunk)]
  /\ UNCHANGED next_session_id

CompleteSession(id) ==
  /\ id \in DOMAIN sessions
  /\ sessions' = [sessions EXCEPT ![id].is_complete = TRUE]
  /\ UNCHANGED next_session_id

CancelSession(id) == sessions' = Without(sessions, id) /\ UNCHANGED next_session_id

ActiveSessions == {id \in DOMAIN sessions : ~sessions[id].is_complete}

CleanupCompleted ==
  /\ sessions' = [id \in ActiveSessions |-> sessions[id]]
  /\ UNCHANGED next_session_id

-----------------------------------------------------------------------------

Init ==
  /\ local_models = <<>> /\ cloud_providers = <<>> /\ preference = "Auto"
  /\ engines = <<>> /\ inference_count = 0 /\ total_latency_ms = 0
  /\ last = [outcome |-> "none"]
  /\ sessions = <<>> /\ next_session_id = 1

RouterNext ==
  \/ \E id \in Models, info \in LocalInfos : RegisterLocalModel(id, info)
  \/ \E info \in CloudInfos : RegisterCloudProvider(info)
  \/ \E id \in Models : UnregisterLocalModel(id)
  \/ \E p \in DOMAIN cloud_providers : UnregisterCloudProvider(p)
  \/ \E p \in Preferences : SetPreference(p)

ManagerNext ==
  \/ \E name \in EngineNames, engine \in EngineKinds : RegisterEngine(name, engine)
  \/ \E name \in EngineNames : UnregisterEngine(name)
  \/ \E name \in DOMAIN engines : EngineTurns(name)
  \/ ResetStats
  \/ \E request \in Requests, latency \in 1 .. 2 :
       inference_count < MaxInferences /\ Infer(request, latency)

StreamNext ==
  \/ next_session_id <= MaxSessions /\ CreateSession
  \/ \E id \in 1 .. MaxSessions, length \in 0 .. 2, final \in BOOLEAN :
       /\ AddChunk(id, [length |-> length, is_final |-> final])
       /\ Len(sessions'[id].chunks) <= MaxChunks
  \/ \E id \in 1 .. MaxSessions : CompleteSession(id) \/ CancelSession(id)
  \/ CleanupCompleted

Next ==
  \/ RouterNext /\ UNCHANGED <<managervars, streamvars>>
  \/ ManagerNext /\ UNCHANGED <<routervars, streamvars>>
  \/ StreamNext /\ UNCHANGED <<routervars, managervars>>

Spec == Init /\ [][Next]_vars

-----------------------------------------------------------------------------

(* The types of the variables. *)
TypeOK ==
  /\ \A m \in DOMAIN local_models : m \in Models /\ local_models[m] \in LocalInfos
  /\ \A p \in DOMAIN cloud_providers :
       cloud_providers[p] \in CloudInfos /\ cloud_providers[p].provider = p
  /\ preference \in InferencePreference
  /\ DOMAIN engines \subseteq EngineNames
  /\ inference_count \in 0 .. MaxInferences
  /\ DOMAIN sessions \subseteq 1 .. next_session_id - 1 /\ next_session_id \in 1 .. MaxSessions + 1

(* A route leads to a model that can do the task or to a configured        *)
(* provider; only if there is neither, to the placeholder, which is a      *)
(* cloud provider for every request.  No other of its kind, nor for        *)
(* LatencyFirst of the other, is faster by a millisecond.  A confidential  *)
(* request and the preferences for local models leave these only when none *)
(* can do the task, CloudOnly and AccuracyFirst leave the cloud only when  *)
(* no provider is configured.  That is what router.rs does; the comments   *)
(* promise more: LocalOnly uses only local models and never falls back to  *)
(* the cloud (types.rs:54, engine.rs:396), CloudOnly only the cloud        *)
(* (types.rs:56), Internal data stays in the intranet (types.rs:79).       *)
RouteOK(request, d) ==
  LET local == {m \in DOMAIN local_models :
                  /\ request.task \in local_models[m].supported_tasks
                  /\ local_models[m].availability = "Available"}
      cloud == {p \in DOMAIN cloud_providers :
                  cloud_providers[p].is_configured /\ cloud_providers[p].available_models # <<>>}
      latency == IF d.path = "local" THEN GetLocalLatency(d) ELSE GetCloudLatency(d)
      compared == request.preference = "LatencyFirst" /\ request.privacy_level < 4
  IN  IF local = {} /\ cloud = {} THEN d = Placeholder
      ELSE /\ \/ d.path = "local" /\ d.model_id \in local
              \/ d.path = "cloud" /\ d.provider \in cloud
           /\ (d.path = "local" \/ compared) =>
                \A m \in local : latency < local_models[m].avg_latency + 10
           /\ (d.path = "cloud" \/ compared) =>
                \A p \in cloud : latency < cloud_providers[p].avg_latency + 10
           /\ (d.path = "cloud" /\ local # {}) =>
                /\ request.privacy_level < 4
                /\ request.preference \in {"CloudOnly", "AccuracyFirst", "LatencyFirst"}
           /\ (d.path = "local" /\ cloud # {}) =>
                \/ request.privacy_level = 4
                \/ request.preference \notin {"CloudOnly", "AccuracyFirst"}

RoutesOK == \A request \in Requests : \A d \in Route(request) : RouteOK(request, d)

(* The mean latency lies between those of the calls, and an answer is that *)
(* of an engine of the provider the decision names.                        *)
StatsExact ==
  /\ inference_count <= total_latency_ms /\ total_latency_ms <= 2 * inference_count
  /\ last.outcome \notin {"none", "ModelNotFound"} =>
       last.provider = IF last.decision.path = "local" THEN last.decision.backend
                       ELSE last.decision.provider

(* A session counts the bytes of its chunks, and none came behind a final  *)
(* one.                                                                    *)
StreamsExact ==
  \A id \in DOMAIN sessions :
    LET chunks == sessions[id].chunks
    IN  /\ sessions[id].total_tokens = FoldLeft(LAMBDA n, c : n + c.length, 0, chunks)
        /\ \A i \in DOMAIN chunks : chunks[i].is_final => i = Len(chunks) /\ sessions[id].is_complete

(* Confidential data must be processed locally (types.rs:82, router.rs:59) *)
ConfidentialStaysLocal ==
  last.outcome = "Ok" /\ PrivacyLevel[last.request.privacy_level] = "Confidential" =>
    last.provider \in LocalBackend

=============================================================================
