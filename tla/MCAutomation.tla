---------------------------- MODULE MCAutomation -----------------------------
(***************************************************************************)
(* What agents use above the kernel, on small instances: the task          *)
(* scheduler and the workflow engine, packages, virtual machines, memory   *)
(* for tensors, inference, security, learning and conversations, and the   *)
(* desktop with what draws it.  They share no state, so that in a          *)
(* behaviour only one of them moves: `part', chosen at the start, says     *)
(* which one, and of the scheduler how careful its callers are.  An        *)
(* execution of a workflow makes a scheduler of its own and drops it.  In  *)
(* the part "values" nothing moves: it is there for what does not depend   *)
(* on a state.                                                             *)
(***************************************************************************)
EXTENDS TaskScheduler

VARIABLES
  part, workflows, active_executions, next_execution_id, begun, triggers, muted,
  packages, name_index, capability_index, agent_type_index, uninstalled, package_id,
  available, outcome,
  vms, next_vm_id, total_vcpus, total_memory_mb, wrapped,
  port_handlers, exit_count, exit_counts_by_reason, vcpu, handled, device,
  regions, tensors, total_used, next_region_id, underflow,
  local_models, cloud_providers, preference,
  engines, inference_count, total_latency_ms, last, streams, next_session_id,
  policies, audit_log, added, log, timestamp_counter, dropped,
  token, hashed, buffer, length,
  memories, short_term, long_term, memory_id, triples, entity_index, sessions,
  messages, max_messages, said, models, active_model,
  wm, dock, pointer, menubar, titled, bar, sorted, spotlight, root,
  windows, window_id, adding, overtaken, focus, themes, current, gpu, gpu_wrapped,
  renderer, advanced, rendered, animations

taskvars == vars
workflowvars == <<workflows, active_executions, next_execution_id, begun, triggers, muted>>
automationvars == <<taskvars, workflowvars>>
registryvars ==
  <<packages, name_index, capability_index, agent_type_index, uninstalled, package_id>>
resolvervars == <<available, outcome>>
packagevars == <<registryvars, resolvervars>>
vmvars == <<vms, next_vm_id, total_vcpus, total_memory_mb, wrapped>>
exitvars == <<port_handlers, exit_count, exit_counts_by_reason, vcpu, handled>>
machinevars == <<vmvars, exitvars, device>>
memoryvars == <<regions, tensors, total_used, next_region_id, underflow>>
routervars == <<local_models, cloud_providers, preference>>
managervars == <<engines, inference_count, total_latency_ms, last>>
streamvars == <<streams, next_session_id>>
aivars == <<routervars, managervars, streamvars>>
enginevars == <<policies, audit_log, added>>
logvars == <<log, timestamp_counter, dropped>>
hashvars == <<hashed, buffer, length>>
securityvars == <<enginevars, logvars, token, hashvars>>
memorystorevars == <<memories, short_term, long_term, memory_id>>
graphvars == <<triples, entity_index>>
talkvars == <<messages, max_messages, said>>
modelvars == <<models, active_model>>
assistantvars == <<memorystorevars, graphvars, sessions, talkvars, modelvars>>
dockvars == <<dock, pointer>>
menuvars == <<menubar, titled>>
barvars == <<bar, sorted, spotlight>>
desktopvars == <<wm, dockvars, menuvars, barvars, root>>
listvars == <<windows, window_id, adding, overtaken, focus>>
themevars == <<themes, current>>
gpuvars == <<gpu, gpu_wrapped>>
framevars == <<renderer, advanced, rendered>>
compositorvars == <<listvars, themevars, gpuvars, framevars, animations>>
mcvars == <<part, automationvars, packagevars, machinevars, memoryvars, aivars,
            securityvars, assistantvars, desktopvars, compositorvars>>

Three == 1 .. 3
UpToTwo(S) == {<<>>} \cup {<<a>> : a \in S} \cup {<<a, b>> : a, b \in S}

ShortDepLists == UpToTwo(Three)

(* Workflows of three tasks, some with cycles, repeated or missing         *)
(* dependencies, and one with a task twice                                 *)
Workflow(order, graph, handling) ==
  [tasks |-> order, graph |-> graph, handling |-> handling, exhausted |-> {}]

Trigger(kind, event, id) ==
  [kind |-> kind, event |-> event, workflow_id |-> id, enabled |-> TRUE, last_triggered |-> <<>>]
Happening(name, class) == [name |-> name, class |-> class]

Small == {Workflow(<<1, 2>>, <<<<>>, <<1>>>>, "Retry"), Workflow(<<1>>, <<<<1>>>>, "Fallback")}

Engine == INSTANCE WorkflowEngine WITH
  Ids <- {"a", "b"}, MaxExecutions <- 2,
  TriggerIds <- {"s", "t"}, Times <- {0, 1},
  TriggerKinds <- {Trigger("Schedule", "", "a"), Trigger("Event", "e", "a"),
                   Trigger("Manual", "", "b"), Trigger("Webhook", "", "a"),
                   Trigger("FileWatch", "Any", "b"), Trigger("FileWatch", "Created", "a")},
  Events <- SUBSET {Happening("e", "none"), Happening("f", "Created"), Happening("e", "Deleted")},
  Definitions <-
    Small \cup
    {Workflow(<<1, 1>>, <<<<>>>>, "FailFast"), Workflow(<<1>>, <<<<2>>>>, "FailFast")} \cup
    {Workflow(<<3, 1, 2>>, g, "FailFast") :
       g \in [Three -> {<<>>, <<1>>, <<2>>, <<1, 2>>, <<3, 3>>}]}

-----------------------------------------------------------------------------
(* Packages: cycles, diamonds, missing and optional dependencies, versions *)
(* that conflict; capabilities that several packages provide, also twice   *)
Dependency(n, op, version) ==
  [name |-> n, version_req |-> <<[op |-> op, version |-> version]>>, optional |-> FALSE]
Manifest(version, dependencies, capabilities) ==
  [version |-> version, dependencies |-> dependencies, capabilities |-> capabilities,
   agent_types |-> <<"worker">>]
AnyOf(n) == Dependency(n, ">=", <<1, 0, 0>>)

Resolved ==
  {Manifest(<<1, 0, 0>>, d, <<>>) :
     d \in {<<>>, <<AnyOf(1)>>, <<AnyOf(2)>>, <<AnyOf(3)>>, <<AnyOf(1), AnyOf(3)>>,
            <<AnyOf(2), Dependency(3, "^", <<2, 0, 0>>)>>,
            <<[AnyOf(1) EXCEPT !.optional = TRUE], AnyOf(4)>>}}
    \cup {Manifest(<<2, 0, 0>>, <<>>, <<>>), Manifest(<<>>, <<AnyOf(2), AnyOf(2)>>, <<>>)}
Registered == {Manifest(<<1, 0, 0>>, <<>>, c) : c \in {<<"x", "x">>, <<"x", "y">>}}

Resolver == INSTANCE Packages WITH
  Names <- Three, Manifests <- Resolved, Rootses <- {<<1>>, <<2>>, <<3, 1>>},
  Versions <- [1 .. 3 -> 0 .. 1], MaxId <- 3, next_id <- package_id

Registry == INSTANCE Packages WITH
  Names <- Three, Manifests <- Registered, Rootses <- {}, Versions <- {}, MaxId <- 3,
  next_id <- package_id

(* Machines within the quota and beyond it; sizes whose sum wraps *)
Virt == INSTANCE VirtualMachines WITH
  MachineNames <- {"a", "b", ""}, Vcpus <- {0, 1, 2}, Memory <- {1, 2, 15}, MaxVcpus <- 3,
  MaxMemory <- 3, Width <- 16, Ports <- {{}, {3}, {5}}, MaxMachines <- 3, MaxExits <- 2,
  MaxPackets <- 2

(* Regions that are not a multiple of the alignment *)
Tensor(dims, n) == [dims |-> dims, dtype |-> "F32", data |-> [i \in 1 .. n |-> i]]
TensorOf(data) == [dims |-> <<1, Len(data)>>, dtype |-> "F32", data |-> data]

Mem == INSTANCE TensorMemory WITH
  Capacity <- 24, RegionSizes <- {10, 13}, BlockSizes <- {1, 4}, ALIGNMENT <- 4,
  Alignments <- {3, 8}, AddrMod <- 64, TensorNames <- {"t"},
  Tensors <- {Tensor(<<2, 3>>, 6), Tensor(<<1, 2>>, 2), Tensor(<<3, 3>>, 9), Tensor(<<2, 2>>, 3),
              TensorOf(<<-7, 0, 300>>), TensorOf(<<5>>)},
  QuantRanges <- {-300, -3, 0, 5}, MaxRegions <- 2, MaxBlocks <- 2

(* Models and providers faster than others by more or less than a          *)
(* millisecond, of other tasks, loading or not configured                  *)
Local(backend, task, latency, availability) ==
  [backend |-> backend, supported_tasks |-> {task}, avg_latency |-> latency,
   availability |-> availability]
Cloud(provider, available_models, latency, is_configured) ==
  [provider |-> provider, available_models |-> available_models, avg_latency |-> latency,
   is_configured |-> is_configured]
Request(p, level) == [task |-> "CodeGeneration", preference |-> p, privacy_level |-> level]
EngineOf(provider, able) == [provider |-> provider, tasks |-> able, available |-> TRUE]
EnginesUsed ==
  {EngineOf("Candle", {"CodeGeneration"}), EngineOf("OpenAI", {"CodeGeneration"}), EngineOf("OpenAI", {})}

Router == INSTANCE Inference WITH
  Models <- {"a", "b"},
  LocalInfos <- {Local("Candle", "CodeGeneration", 12, "Available"),
                 Local("Tract", "CodeGeneration", 17, "Available"),
                 Local("OnnxRuntime", "CodeGeneration", 5, "Loading"),
                 Local("Candle", "Summarization", 30, "Available")},
  CloudInfos <- {Cloud("OpenAI", <<"m">>, 15, TRUE), Cloud("Mistral", <<"m">>, 9, TRUE),
                 Cloud("Mistral", <<"m">>, 2, FALSE), Cloud("Google", <<>>, 1, TRUE)},
  EngineNames <- {}, EngineKinds <- {}, Preferences <- {"Auto", "LocalOnly"},
  Requests <- {Request(p, 1) : p \in {"Auto", "LocalOnly", "CloudOnly", "LatencyFirst",
                                      "AccuracyFirst", "PrivacyFirst"}}
                \cup {Request("Auto", 4), Request("CloudOnly", 4), Request("PrivacyFirst", 3)},
  MaxInferences <- 0, MaxSessions <- 0, MaxChunks <- 0, sessions <- streams

Ai == INSTANCE Inference WITH
  Models <- {"a"},
  LocalInfos <- {Local("Candle", "CodeGeneration", 12, "Available"),
                 Local("Tract", "CodeGeneration", 17, "Available")},
  CloudInfos <- {Cloud("OpenAI", <<"m">>, 15, TRUE), Cloud("Mistral", <<"m">>, 9, TRUE)},
  EngineNames <- {"e"}, EngineKinds <- EnginesUsed, Preferences <- {"Auto"},
  Requests <- {Request("Auto", 4), Request("CloudOnly", 1), Request("LatencyFirst", 2)},
  MaxInferences <- 2, MaxSessions <- 2, MaxChunks <- 2, sessions <- streams

(* Policies of one id or one priority, with and without rules that match   *)
Any == <<"none">>
Rule(requester, resource, effect) ==
  [requester |-> requester, resource |-> resource, action |-> Any, effect |-> effect]
Policy(id, rules, default_decision, priority) ==
  [id |-> id, rules |-> rules, default_decision |-> default_decision, priority |-> priority]
Access(requester, resource) == [requester |-> requester, resource |-> resource, action |-> <<"x">>]
Filter(min, max, agent, since, until, types, limit) ==
  [min_level |-> min, max_level |-> max, agent_id |-> agent, since |-> since, until |-> until,
   event_types |-> types, limit |-> limit]
Strings(S, n) == UNION {[1 .. m -> S] : m \in 0 .. n}

Sec == INSTANCE Security WITH
  Policies <- {Policy("p", <<Rule(<<"a", "*">>, Any, "Allow")>>, "DefaultDeny", 1),
               Policy("q", <<Rule(<<"?">>, Any, "Deny"), Rule(Any, <<"/", "*">>, "Audit")>>,
                      "DefaultDeny", 1),
               Policy("r", <<>>, "Allow", 0), Policy("p", <<Rule(Any, Any, "Deny")>>, "Allow", 2)},
  AccessRequests <- {Access(<<"a">>, <<"/">>), Access(<<"a", "b">>, <<"a">>),
                     Access(<<"b", "b">>, <<"/", "a">>)},
  Patterns <- Strings({"a", "*", "?", "/"}, 4), Texts <- Strings({"a", "b", "/"}, 3),
  Filters <- {Filter(<<>>, <<>>, <<>>, <<>>, <<>>, {}, <<1>>),
              Filter(<<2>>, <<>>, <<"a">>, <<2>>, <<>>, {}, <<>>),
              Filter(<<>>, <<1>>, <<>>, <<>>, <<2>>, {"AgentKill"}, <<1>>)},
  AgentIds <- {"a", "b"}, LogSize <- 2, Width <- 8, Ttls <- {0, 3}, Block <- 4,
  LengthBytes <- 2, MaxPolicies <- 3, MaxDecisions <- 1, MaxEvents <- 3, MaxBytes <- 14,
  entries <- log, blocks <- hashed

(* Memories that expire or not; a graph that meets another one *)
Triple(s, p, o) == [subject |-> s, predicate |-> p, object |-> o]

Mind == INSTANCE Assistants WITH
  MemoryTypes <- {"ShortTerm", "LongTerm", "Working"}, Importances <- {1, 2},
  Expiries <- {<<>>, <<2>>}, Times <- {1, 2}, Entities <- {"x", "y", "z"}, Predicates <- {"p"},
  OtherGraphs <- {<<Triple("x", "p", "y"), Triple("y", "p", "x"), Triple("x", "p", "y")>>},
  SessionIds <- {"s"}, Accuracies <- {1, 2}, TargetAccuracy <- 2, Limits <- {0, 2},
  ModelNames <- {"m", "n"}, MimeTypes <- {"text/plain", "unknown"}, MaxMemories <- 3,
  MaxTriples <- 3, MaxMetrics <- 3, MaxMessages <- 4,
  entries <- memories, next_id <- memory_id

(* Windows that overlap, with and without limits of their size; a dock and *)
(* a menu bar with places between, at and behind their items; agents whose *)
(* names are found in another case; buttons that overlap, in a container   *)
(* of their own or disabled                                                *)
Rect(x, y, width, height) == [x |-> x, y |-> y, width |-> width, height |-> height]
At(x, y) == [x |-> x, y |-> y]
Size(width, height) == [width |-> width, height |-> height]
Letters == [l \in {"a", "A", "b", "B"} |-> CASE l = "A" -> "a" [] l = "B" -> "b" [] OTHER -> l]
Button(id, bounds, enabled) ==
  [kind |-> "Button", id |-> id, bounds |-> bounds, enabled |-> enabled, visible |-> TRUE,
   hovered |-> FALSE, pressed |-> FALSE]

Shell == INSTANCE Desktop WITH
  Bounds <- {Rect(0, 0, 2, 2)}, Limits <- {<<>>, <<Size(2, 1)>>}, Sizes <- {Size(1, 1)},
  Points <- {At(0, 0), At(1, 1)}, Screen <- Size(9, 7),
  DockIds <- {"f", "g", "h"}, DockStates <- {"Running"},
  DockPositions <- {"Bottom", "Left", "Right"}, Coordinates <- {-1, 0, 2, 3, 5, 85, 170},
  Icon <- 2, Spacing <- 1, TitleLengths <- {3, 7}, Agents <- {1, 2, 3},
  Names <- {<<"a", "b">>, <<"A">>}, Usages <- {0, 1}, Queries <- {<<>>, <<"A">>, <<"B">>},
  Lower <- Letters,
  Components <- {Button("u", Rect(0, 0, 2, 2), TRUE), Button("v", Rect(1, 1, 2, 1), TRUE),
                 Button("w", Rect(0, 0, 9, 9), FALSE), [kind |-> "Label", visible |-> TRUE],
                 [kind |-> "Container", visible |-> TRUE,
                  children |-> <<Button("x", Rect(1, 1, 1, 1), TRUE)>>]},
  MaxWindows <- 3, MaxItems <- 3, MaxMenus <- 3, MaxComponents <- 4

(* Sizes of resources whose sum wraps; surfaces nothing can be shown on;   *)
(* animations with and without an end, a delay and a duration              *)
Moving(duration, delay, easing, count, direction) ==
  [from |-> 0, to |-> 5, duration |-> duration, delay |-> delay, easing |-> easing,
   count |-> count, direction |-> direction]
Easings == [kind : {"EaseIn", "EaseOut"}, of : {"Quad", "Cubic", "Back"}]
             \cup [kind : {"EaseInOut"}, of : {"Quad", "Cubic"}]
             \cup {[kind |-> "Linear", of |-> "line"]}
Directions == {"Normal", "Reverse", "Alternate"}

Frame(x, y, width, height) ==
  [x |-> x, y |-> y, width |-> width, height |-> height, visible |-> TRUE]

Screens == INSTANCE Compositor WITH
  Threads <- {"a", "b"},
  Frames <- {Frame(0, 0, 2, 2), Frame(1, 1, 2, 1), [Frame(0, 0, 9, 9) EXCEPT !.visible = FALSE]},
  Points <- {At(0, 0), At(1, 1), At(2, 2)}, ThemeNames <- {"Aqua Dark", "t"},
  Looks <- {"light", "grey"},
  Textures <- {[width |-> w, height |-> 2, format |-> f, mip_levels |-> m] :
                 w \in {1, 4}, f \in {"RGB8", "R8"}, m \in {1, 3}},
  BufferSizes <- {0, 5, 60}, MaxMemory <- 24, Width <- 64,
  Surfaces <- {Size(0, 1), Size(2, 1)}, InFlight <- 2, MaxSamples <- 3,
  AnimationIds <- {"a"},
  Animations <- {Moving(3, 1, e, 2, d) : e \in Easings, d \in Directions}
                  \cup {Moving(2, 0, [kind |-> "Linear", of |-> "line"], c, d) :
                          c \in {0, 1, 2}, d \in Directions}
                  \cup {Moving(0, 2, [kind |-> "Linear", of |-> "line"], 1, d) : d \in Directions},
  Starts <- {0, 3}, Times <- 0 .. 12, Clock <- 11, MaxIds <- 3, MaxFrames <- 5,
  next_id <- window_id, wrapped <- gpu_wrapped

ASSUME
  /\ Shell!ConstantsOK /\ Screens!ConstantsOK
  /\ ConstantsOK /\ Engine!ConstantsOK
  /\ Resolver!ConstantsOK /\ Registry!ConstantsOK /\ Virt!ConstantsOK /\ Mem!ConstantsOK
  /\ Router!ConstantsOK /\ Ai!ConstantsOK /\ Sec!ConstantsOK /\ Mind!ConstantsOK

-----------------------------------------------------------------------------

TaskParts == {"careful", "careless", "workflows", "triggers"}
PackageParts == {"resolver", "registry"}
MachineParts == {"machines", "exits", "devices"}
AiParts == {"router", "manager", "streams"}
SecurityParts == {"policies", "security log", "token", "hash"}
AssistantParts == {"memories", "graph", "learning", "conversation", "models"}
DesktopParts == {"windows", "dock", "menu bar", "agent bar", "components"}
CompositorParts == {"window list", "themes", "gpu", "frames", "animations"}

MCInit ==
  /\ part \in TaskParts \cup PackageParts \cup MachineParts \cup {"regions", "values"}
             \cup AiParts \cup SecurityParts \cup AssistantParts
             \cup DesktopParts \cup CompositorParts
  /\ Init /\ (careful <=> part = "careful")
  /\ Engine!Init
  /\ Resolver!Init
  /\ Virt!Init /\ (part # "devices" => device.type = "Net")
  /\ Mem!Init
  /\ Ai!Init
  /\ Sec!Init
  /\ part # "token" => token = Sec!NewToken("a", {}, 0)
  /\ Mind!Init
  /\ Shell!Init /\ (part # "dock" => dock.position = "Bottom")
  /\ Screens!Init /\ (part # "frames" => renderer.surface.width # 0)

(* Bounds: careless callers use two tasks of fixed priorities and three    *)
(* lists of dependencies, two reverse edges and three times a task that is *)
(* handed out; only small workflows   *)
(* join another one                                                        *)
AutomationNext ==
  \/ /\ part = "careful"
     /\ Next
     /\ UNCHANGED workflowvars
  \/ /\ part = "careless"
     /\ Next
     /\ \A t \in DOMAIN tasks' : t # 3 /\ tasks'[t] = t
     /\ Range(dependency_graph') \subseteq {<<>>, <<1>>, <<2, 2>>}
     /\ \A t \in Three : handed'[t] <= 2
     /\ Len(reverse_deps'[1]) + Len(reverse_deps'[2]) <= 2
     /\ handed'[1] + handed'[2] <= 3
     /\ UNCHANGED workflowvars
  \/ /\ part = "workflows"
     /\ Engine!ExecutionNext
     /\ \A id \in DOMAIN workflows' :
          workflows'[id] \in Small \/ (DOMAIN workflows' = {id} /\ begun' = <<>>)
               \/ id \in DOMAIN workflows
     /\ UNCHANGED taskvars
  \/ part = "triggers" /\ Engine!TriggerNext /\ UNCHANGED taskvars

(* Bounds: two packages are uninstalled; the router of the manager has one *)
(* preference and its models are fixed once there is an engine             *)
PackageNext ==
  \/ part = "resolver" /\ Resolver!ResolverNext
  \/ part = "registry" /\ Registry!RegistryNext /\ Len(uninstalled') < 3

MachineNext ==
  \/ part = "machines" /\ Virt!ManagerNext
  \/ part = "exits" /\ Virt!ExitNext
  \/ part = "devices" /\ Virt!DeviceNext

AiNext ==
  \/ part = "router" /\ Router!RouterNext /\ UNCHANGED <<managervars, streamvars>>
  \/ /\ part = "manager" /\ engines = <<>>
     /\ Ai!RouterNext /\ UNCHANGED <<managervars, streamvars>>
  \/ part = "manager" /\ Ai!ManagerNext /\ UNCHANGED <<routervars, streamvars>>
  \/ part = "streams" /\ Ai!StreamNext /\ UNCHANGED <<routervars, managervars>>

SecurityNext ==
  \/ part = "policies" /\ Sec!EngineNext /\ UNCHANGED <<logvars, token, hashvars>>
  \/ part = "security log" /\ Sec!LogNext /\ UNCHANGED <<enginevars, token, hashvars>>
  \/ part = "token" /\ Sec!TokenNext /\ UNCHANGED <<enginevars, logvars, hashvars>>
  \/ part = "hash" /\ Sec!HashNext /\ UNCHANGED <<enginevars, logvars, token>>

AssistantNext ==
  \/ part = "memories" /\ Mind!MemoryNext /\ UNCHANGED <<graphvars, sessions, talkvars, modelvars>>
  \/ part = "graph" /\ Mind!GraphNext /\ UNCHANGED <<memorystorevars, sessions, talkvars, modelvars>>
  \/ part = "learning" /\ Mind!SessionNext /\ UNCHANGED <<memorystorevars, graphvars, talkvars, modelvars>>
  \/ part = "conversation" /\ Mind!TalkNext /\ UNCHANGED <<memorystorevars, graphvars, sessions, modelvars>>
  \/ part = "models" /\ Mind!ModelNext /\ UNCHANGED <<memorystorevars, graphvars, sessions, talkvars>>

(* Bounds: the first window may have limits and be maximised, the first    *)
(* agent has the longer name and an agent uses one of the two              *)
DesktopNext ==
  \/ /\ part = "windows" /\ Shell!WindowNext /\ UNCHANGED <<dockvars, menuvars, barvars, root>>
     /\ \A id \in DOMAIN wm'.windows \ {1} :
          /\ wm'.windows[id].min_size = <<>> /\ wm'.windows[id].max_size = <<>>
          /\ wm'.windows[id].state # "Maximized"
  \/ part = "dock" /\ Shell!DockNext /\ UNCHANGED <<wm, menuvars, barvars, root>>
  \/ part = "menu bar" /\ Shell!MenuNext /\ UNCHANGED <<wm, dockvars, barvars, root>>
  \/ /\ part = "agent bar" /\ Shell!BarNext /\ UNCHANGED <<wm, dockvars, menuvars, root>>
     /\ \A i \in DOMAIN bar' :
          /\ bar'[i].agent_handle = 1 <=> bar'[i].name = <<"a", "b">>
          /\ bar'[i].cpu_usage * bar'[i].memory_used = 0
  \/ part = "components" /\ Shell!ComponentNext /\ UNCHANGED <<wm, dockvars, menuvars, barvars>>

CompositorNext ==
  \/ part = "window list" /\ Screens!WindowNext
     /\ UNCHANGED <<themevars, gpuvars, framevars, animations>>
  \/ part = "themes" /\ Screens!ThemeNext
     /\ UNCHANGED <<listvars, gpuvars, framevars, animations>>
  \/ part = "gpu" /\ Screens!GpuNext
     /\ UNCHANGED <<listvars, themevars, framevars, animations>>
  \/ part = "frames" /\ Screens!FrameNext
     /\ UNCHANGED <<listvars, themevars, gpuvars, animations>>
  \/ part = "animations" /\ Screens!AnimationNext
     /\ UNCHANGED <<listvars, themevars, gpuvars, framevars>>

ServiceNext ==
  \/ /\ AutomationNext
     /\ UNCHANGED <<packagevars, machinevars, memoryvars, aivars, securityvars, assistantvars>>
  \/ /\ PackageNext
     /\ UNCHANGED <<automationvars, machinevars, memoryvars, aivars, securityvars, assistantvars>>
  \/ /\ MachineNext
     /\ UNCHANGED <<automationvars, packagevars, memoryvars, aivars, securityvars, assistantvars>>
  \/ /\ part = "regions" /\ Mem!Next
     /\ UNCHANGED <<automationvars, packagevars, machinevars, aivars, securityvars, assistantvars>>
  \/ /\ AiNext
     /\ UNCHANGED <<automationvars, packagevars, machinevars, memoryvars, securityvars, assistantvars>>
  \/ /\ SecurityNext
     /\ UNCHANGED <<automationvars, packagevars, machinevars, memoryvars, aivars, assistantvars>>
  \/ /\ AssistantNext
     /\ UNCHANGED <<automationvars, packagevars, machinevars, memoryvars, aivars, securityvars>>

MCNext ==
  /\ UNCHANGED part
  /\ \/ ServiceNext /\ UNCHANGED <<desktopvars, compositorvars>>
     \/ DesktopNext
        /\ UNCHANGED <<automationvars, packagevars, machinevars, memoryvars, aivars, securityvars,
                       assistantvars, compositorvars>>
     \/ CompositorNext
        /\ UNCHANGED <<automationvars, packagevars, machinevars, memoryvars, aivars, securityvars,
                       assistantvars, desktopvars>>

MCSpec == MCInit /\ [][MCNext]_mcvars

-----------------------------------------------------------------------------

(* The types of the parts' variables. *)
TypesOK ==
  CASE part \in TaskParts      -> TypeOK /\ Engine!TypeOK
    [] part = "resolver"       -> Resolver!TypeOK
    [] part = "registry"       -> Registry!TypeOK
    [] part \in MachineParts   -> Virt!TypeOK
    [] part = "regions"        -> Mem!TypeOK
    [] part = "router"         -> Router!TypeOK
    [] part \in AiParts        -> Ai!TypeOK
    [] part \in SecurityParts  -> Sec!TypeOK
    [] part \in AssistantParts -> Mind!TypeOK
    [] part \in DesktopParts   -> Shell!TypeOK
    [] part \in CompositorParts -> Screens!TypeOK
    [] part = "values"         -> TRUE

(* An execution of an acyclic workflow runs every task once, each after    *)
(* those it depends on, and completes; a cyclic workflow is refused.  What *)
(* triggers are disabled is not heard, and tasks that ended stay so.  What *)
(* the resolver says is ready can be installed in its order, the reasons   *)
(* it gives are true, and a version requirement stands for the interval it *)
(* describes; the three indexes of the registry lead to just the packages  *)
(* they should.                                                            *)
RunsInOrder ==
  CASE part = "triggers" -> Engine!TriggersExact
    [] part = "values"   -> Engine!TaskStatesEnd /\ Resolver!Intervals
    [] part = "resolver" -> Resolver!ResolveSound
    [] part = "registry" -> Registry!IndexesExact
    [] OTHER             -> Engine!RunsInOrder

(* The manager's totals are those of its machines and within the quota     *)
(* until one wraps, exits are counted once; a region counts its blocks,    *)
(* which are apart and within it until an offset wraps; tensors that are   *)
(* transposed, sliced and concatenated, or values that are quantised, come *)
(* back.  The GPU's totals are those of its textures and buffers, and the  *)
(* renderer has a swapchain just while it is initialized.                  *)
ResourcesExact ==
  CASE part = "machines" -> Virt!QuotaKept
    [] part = "exits"    -> Virt!ExitsCounted
    [] part = "regions"  -> Mem!RegionsExact
    [] part = "gpu"      -> Screens!GpuExact
    [] part = "frames"   -> Screens!FramesExact
    [] part = "values"   -> /\ Mem!TensorsKept /\ Mem!QuantizedBack /\ Mem!TensorsBack
                            /\ Mem!HalvesBack /\ Screens!RateExact
    [] OTHER             -> TRUE

(* Requests are routed to models that can answer them, and leave the kind  *)
(* they prefer, local or cloud, only when it has none (the comments of the *)
(* crate promise more, see RouteOK); statistics, streams, memories, the    *)
(* index of the graph and conversations have lost and doubled nothing.     *)
(* The user's events reach the window, item, title or button that is on    *)
(* top where they happen; an animation that is complete stays at its end.  *)
(* The policy of highest priority that has an answer decides, of several   *)
(* the first; a token lives no longer than it was issued for; a digest     *)
(* does not depend on the pieces in which the data came.                   *)
AnswersExact ==
  CASE part = "router"       -> Router!RoutesOK
    [] part = "manager"      -> Ai!RoutesOK /\ Ai!StatsExact
    [] part = "streams"      -> Ai!StreamsExact
    [] part = "memories"     -> Mind!MemoriesListed
    [] part = "graph"        -> Mind!GraphExact
    [] part = "learning"     -> Mind!SessionsExact
    [] part = "conversation" -> Mind!ConversationExact
    [] part = "models"       -> Mind!ModelsExact
    [] part = "windows"      -> Shell!WindowsExact
    [] part = "dock"         -> Shell!DockExact
    [] part = "menu bar"     -> Shell!MenuExact
    [] part = "agent bar"    -> Shell!BarExact
    [] part = "components"   -> Shell!ComponentsExact
    [] part = "window list"  -> Screens!WindowListExact
    [] part = "themes"       -> Screens!ThemesExact
    [] part = "animations"   -> Screens!AnimationsExact
    [] part = "policies"     -> Sec!DecisionsExact
    [] part = "security log" -> Sec!LogExact
    [] part = "token"        -> Sec!TokenExact
    [] part = "hash"         -> Sec!HashExact
    [] part = "values"       -> /\ Mind!MimeExact /\ Screens!EasingExact /\ Screens!PixelsExact
                                /\ Sec!GlobExact
    [] OTHER                 -> TRUE

(* Confidential data must be processed locally (types.rs:82 and            *)
(* router.rs:59 of omniagent-inference).                                   *)
ConfidentialStaysLocal == part = "manager" => Ai!ConfidentialStaysLocal

=============================================================================
