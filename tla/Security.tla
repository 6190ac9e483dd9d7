------------------------------ MODULE Security ------------------------------
(***************************************************************************)
(* The security crate, crates/omniagent-security/src: the engine that      *)
(* decides requests by policies and its patterns (access_control.rs), the  *)
(* log of events with its filters (audit.rs), tokens that expire and their *)
(* sets of capabilities (token.rs, capability.rs), and how a hash takes in *)
(* its data block by block (crypto.rs).  Operations run to completion      *)
(* behind `&mut self'.                                                     *)
(*                                                                         *)
(* Patterns and what they are compared with are sequences of characters.   *)
(* What the hash computes of a block is left out: a digest stands for the  *)
(* blocks it is computed from.                                             *)
(***************************************************************************)
EXTENDS Integers, SequencesExt

CONSTANTS
  Policies,        \* the policies that are added
  AccessRequests,
  Patterns, Texts, \* what patterns are checked with
  Filters,         \* the filters of queries
  AgentIds,
  LogSize,         \* max_entries
  Width,           \* times count modulo Width
  Ttls,
  Block,           \* bytes in a block; the length takes LengthBytes of them
  LengthBytes,
  MaxPolicies, MaxDecisions, MaxEvents, MaxBytes   \* bounds

AccessDecision == {"Allow", "Deny", "DefaultDeny", "Audit"}
AuditLevel == <<"Debug", "Info", "Warning", "Error", "Critical">>

AuditEventType ==
  {"Syscall", "CapabilityCheck", "AgentSpawn", "AgentKill", "AgentMessage", "FileAccess",
   "NetworkAccess", "SecurityViolation", "Authentication", "Authorization", "Custom"}

Capability ==
  {"SpawnAgent", "SpawnSystemAgent", "Network", "DeviceAccess", "Ipc", "SharedMemory",
   "Filesystem", "Admin", "Virtualization", "Enclave", "SpawnEnclaved",
   "ScreenAccess", "AudioAccess", "CameraAccess", "MicrophoneAccess", "ClipboardAccess",
   "NotificationAccess", "LocationAccess", "BluetoothAccess", "UsbAccess", "PrintAccess"}

(* An empty log would be asked to drop an entry it has not                 *)
ConstantsOK ==
  /\ \A p \in Policies :
       /\ p.default_decision \in AccessDecision /\ p.priority \in Nat
       /\ \A rule \in ToSet(p.rules) : rule.effect \in AccessDecision
  /\ LogSize \in Nat \ {0}
  /\ {Width, Block, LengthBytes, MaxPolicies, MaxDecisions, MaxEvents, MaxBytes} \subseteq Nat
  /\ Ttls \subseteq 0 .. Width - 1
  /\ LengthBytes < Block

VARIABLES
  (* AccessControlEngine *)
  policies,      \* each with the number of its addition
  audit_log,
  added,         \* history: the policies ever added
  (* SecurityAuditLog *)
  entries, timestamp_counter,
  dropped,       \* history: the entries dropped since the log was cleared
  (* A token in use *)
  token,
  (* A Hash *)
  blocks,        \* the blocks processed
  buffer, length

enginevars == <<policies, audit_log, added>>
logvars == <<entries, timestamp_counter, dropped>>
hashvars == <<blocks, buffer, length>>
vars == <<enginevars, logvars, token, hashvars>>

-----------------------------------------------------------------------------
(* Patterns.  glob_match keeps a place in the pattern and one in the text, *)
(* and where to go on when they stop to agree: behind the last star seen,  *)
(* one character further in the text.  Doubled stars come to the same as   *)
(* single ones, except that the slash behind them may be missing.          *)

GlobState(p, t, star, match) == [p |-> p, t |-> t, star |-> star, match |-> match]

CharAt(pattern, i) == IF i <= Len(pattern) THEN pattern[i] ELSE "end"

(* One round of the loop, with places that start at 1 *)
GlobStep(pattern, text, s) ==
  LET here == CharAt(pattern, s.p)
      next == CharAt(pattern, s.p + 1)
  IN  CASE here = "*" /\ next = "*" ->
             GlobState(IF CharAt(pattern, s.p + 2) = "/" THEN s.p + 3 ELSE s.p + 2, s.t, s.p, s.t)
        [] here = "*" /\ next # "*" -> GlobState(s.p + 1, s.t, s.p, s.t)
        [] here # "*" /\ here \in {"?", text[s.t]} -> GlobState(s.p + 1, s.t + 1, s.star, s.match)
        [] here \notin {"*", "?", text[s.t]} ->
             GlobState(s.star + 1, s.match + 1, s.star, s.match + 1)

OnlyStars(pattern) == \A i \in DOMAIN pattern : pattern[i] = "*"

RECURSIVE GlobLoop(_, _, _)
GlobLoop(pattern, text, s) ==
  IF s.t > Len(text) THEN OnlyStars(SubSeq(pattern, s.p, Len(pattern)))
  ELSE LET here == CharAt(pattern, s.p)
           twice == here = "*" /\ CharAt(pattern, s.p + 1) = "*"
       IN  IF twice /\ s.p + 1 = Len(pattern) THEN TRUE
           ELSE IF here \notin {"*", "?", text[s.t]} /\ s.star = 0 THEN FALSE
           ELSE GlobLoop(pattern, text, GlobStep(pattern, text, s))

GlobMatch(pattern, text) == GlobLoop(pattern, text, GlobState(1, 1, 0, 1))

-----------------------------------------------------------------------------
(* AccessControlEngine                                                     *)

NoPattern == <<"none">>

(* Conditions of rules are not looked at *)
RuleMatches(rule, request) ==
  \A field \in {"requester", "resource", "action"} :
    rule[field] = NoPattern \/ GlobMatch(rule[field], request[field])

(* The sort keeps the order of equal priorities: the new policy goes       *)
(* before the first one with less                                          *)
AddPolicy(policy) ==
  LET place == SelectInSeq(policies, LAMBDA p : p.priority < policy.priority)
      new == [number |-> Len(added) + 1] @@ policy
  IN  /\ policies' = InsertAt(policies, IF place = 0 THEN Len(policies) + 1 ELSE place, new)
      /\ added' = Append(added, new)
      /\ UNCHANGED audit_log

RemovePolicy(id) ==
  /\ policies' = SelectSeq(policies, LAMBDA p : p.id # id)
  /\ added' = [i \in DOMAIN added |-> IF added[i].id = id THEN [added[i] EXCEPT !.id = "gone"] ELSE added[i]]
  /\ UNCHANGED audit_log

FirstRule(policy, request) == SelectInSeq(policy.rules, LAMBDA rule : RuleMatches(rule, request))

(* A policy whose default is DefaultDeny leaves the decision to the next *)
Decides(policy, request) ==
  FirstRule(policy, request) # 0 \/ policy.default_decision # "DefaultDeny"

DecisionOf(policy, request) ==
  IF FirstRule(policy, request) # 0 THEN policy.rules[FirstRule(policy, request)].effect
  ELSE policy.default_decision

Decision(request) ==
  LET place == SelectInSeq(policies, LAMBDA p : Decides(p, request))
  IN  IF place = 0 THEN [request |-> request, decision |-> "DefaultDeny", policy_id |-> "none"]
      ELSE [request |-> request, decision |-> DecisionOf(policies[place], request),
            policy_id |-> policies[place].id]

Evaluate(request) ==
  audit_log' = Append(audit_log, Decision(request)) /\ UNCHANGED <<policies, added>>

ClearAuditLog == audit_log' = <<>> /\ UNCHANGED <<policies, added>>

-----------------------------------------------------------------------------
(* SecurityAuditLog                                                        *)

Log(level, event_type, agent_id) ==
  LET entry == [timestamp |-> timestamp_counter + 1, level |-> level,
                event_type |-> event_type, agent_id |-> agent_id]
      full == Len(entries) >= LogSize
  IN  /\ timestamp_counter' = timestamp_counter + 1
      /\ entries' = Append(IF full THEN Tail(entries) ELSE entries, entry)
      /\ dropped' = IF full THEN dropped + 1 ELSE dropped

ClearLog == entries' = <<>> /\ timestamp_counter' = 0 /\ dropped' = 0

(* A filter has a level, agent, time or type where it is not empty *)
FilterMatches(filter, entry) ==
  /\ filter.min_level # <<>> => entry.level >= filter.min_level[1]
  /\ filter.max_level # <<>> => entry.level <= filter.max_level[1]
  /\ filter.agent_id # <<>> => entry.agent_id = filter.agent_id[1]
  /\ filter.since # <<>> => entry.timestamp >= filter.since[1]
  /\ filter.until # <<>> => entry.timestamp <= filter.until[1]
  /\ filter.event_types # {} => entry.event_type \in filter.event_types

(* With a limit, the oldest that match *)
Query(filter) ==
  LET found == SelectSeq(entries, LAMBDA e : FilterMatches(filter, e))
  IN  IF filter.limit # <<>> /\ filter.limit[1] < Len(found)
        THEN SubSeq(found, 1, filter.limit[1]) ELSE found

-----------------------------------------------------------------------------
(* Tokens.  The sum and the difference wrap in a build without overflow    *)
(* checks.  The id is a hash of the agent and a constant time, so that all *)
(* tokens of an agent have the same.                                       *)

NewToken(agent_id, capabilities, ttl) ==
  [token_id |-> agent_id, agent_id |-> agent_id, capabilities |-> capabilities,
   issued_at |-> 0, expires_at |-> ttl]

WithTimestamps(t, issued_at, current_time) ==
  [t EXCEPT !.issued_at = issued_at,
            !.expires_at = (issued_at + @ - current_time) % Width]

IsExpired(t, now) == now >= t.expires_at
RemainingTtl(t, now) == IF now >= t.expires_at THEN 0 ELSE t.expires_at - now
HasCapability(t, cap) == cap \in t.capabilities
HasAllCapabilities(t, caps) == caps \subseteq t.capabilities

(* CapabilitySet *)
AddCapability(cap) == token' = [token EXCEPT !.capabilities = @ \cup {cap}]
RemoveCapability(cap) == token' = [token EXCEPT !.capabilities = @ \ {cap}]

-----------------------------------------------------------------------------
(* Hash                                                                    *)

(* process_block for each whole block, in a buffer without end *)
WholeBlocks(data) == Len(data) \div Block
Processed(done, data) ==
  done \o [i \in 1 .. WholeBlocks(data) |-> SubSeq(data, (i - 1) * Block + 1, i * Block)]
LeftOver(data) == SubSeq(data, WholeBlocks(data) * Block + 1, Len(data))

Update(data) ==
  /\ blocks' = Processed(blocks, buffer \o data)
  /\ buffer' = LeftOver(buffer \o data)
  /\ length' = length + Len(data)

(* finalize restores what it changes.  The padding is a mark and as many   *)
(* zeros as leave room for the length                                      *)
Zeros(n) == (Block - LengthBytes - (n + 1)) % Block
Padded(data, n) ==
  data \o <<"mark">> \o [i \in 1 .. Zeros(Len(data)) |-> 0] \o [i \in 1 .. LengthBytes |-> <<"length", n>>]

Finalize == Processed(blocks, Padded(buffer, length))

-----------------------------------------------------------------------------

Init ==
  /\ policies = <<>> /\ audit_log = <<>> /\ added = <<>>
  /\ entries = <<>> /\ timestamp_counter = 0 /\ dropped = 0
  /\ token \in {NewToken(a, caps, ttl) : a \in AgentIds, caps \in {{}, Capability}, ttl \in Ttls}
  /\ blocks = <<>> /\ buffer = <<>> /\ length = 0

EngineNext ==
  \/ \E p \in Policies : Len(added) < MaxPolicies /\ AddPolicy(p)
  \/ \E p \in Policies : RemovePolicy(p.id)
  \/ \E request \in AccessRequests : Len(audit_log) < MaxDecisions /\ Evaluate(request)
  \/ ClearAuditLog

LogNext ==
  \/ \E level \in 1 .. 2, type \in {"AgentKill", "AgentSpawn"}, agent \in AgentIds :
       timestamp_counter < MaxEvents /\ Log(level, type, agent)
  \/ ClearLog

TokenNext ==
  \/ \E issued_at, now \in 0 .. Width - 1 :
       /\ now \in token.issued_at .. token.expires_at
       /\ issued_at + token.expires_at - now < Width
       /\ token' = WithTimestamps(token, issued_at, now)
  \/ \E cap \in {"Ipc", "Admin"} : AddCapability(cap) \/ RemoveCapability(cap)

HashNext ==
  \E n \in 1 .. 2 * Block + 1 :
    /\ length + n <= MaxBytes
    /\ Update([i \in 1 .. n |-> length + i])

-----------------------------------------------------------------------------

(* The types of the variables. *)
TypeOK ==
  /\ Len(policies) <= MaxPolicies /\ Len(added) <= MaxPolicies
  /\ \A i \in DOMAIN audit_log : audit_log[i].decision \in AccessDecision
  /\ Len(entries) <= LogSize /\ timestamp_counter \in 0 .. MaxEvents
  /\ token.capabilities \subseteq Capability /\ token.expires_at \in 0 .. Width - 1
  /\ length \in 0 .. MaxBytes

(* What a pattern matches: stars any text, slashes included, a question    *)
(* mark any character.  Two stars and a slash match a text that ends in a  *)
(* slash with something before it, or nothing before what there is.        *)
RECURSIVE Matches(_, _)
Matches(pattern, text) ==
  LET Behind(k) == SubSeq(pattern, k + 1, Len(pattern))
      Rest(n) == SubSeq(text, n + 1, Len(text))
      doubled == Len(pattern) > 1 /\ Head(pattern) = "*" /\ pattern[2] = "*"
  IN  CASE pattern = <<>> -> text = <<>>
        [] doubled /\ CharAt(pattern, 3) = "/" ->
             /\ text # <<>>
             /\ \/ Matches(Behind(3), text)
                \/ \E n \in 1 .. Len(text) : Matches(Behind(2), Rest(n))
        [] doubled /\ CharAt(pattern, 3) # "/" -> \E n \in 0 .. Len(text) : Matches(Behind(2), Rest(n))
        [] ~doubled /\ CharAt(pattern, 1) = "*" -> \E n \in 0 .. Len(text) : Matches(Behind(1), Rest(n))
        [] CharAt(pattern, 1) \notin {"*", "end"} ->
             /\ text # <<>> /\ Head(pattern) \in {"?", Head(text)}
             /\ Matches(Behind(1), Rest(1))

(* The loop of glob_match finds a match where there is one, for patterns   *)
(* of up to five characters; in longer ones it does not try another place  *)
(* for a star in front of two stars and a slash.                           *)
GlobExact == \A pattern \in Patterns, text \in Texts : GlobMatch(pattern, text) = Matches(pattern, text)

(* A request is decided by the policy of highest priority that decides it, *)
(* of those the one added first.                                           *)
DecisionsExact ==
  \A request \in AccessRequests :
    LET deciding == {p \in ToSet(added) : p.id # "gone" /\ Decides(p, request)}
        d == Decision(request)
    IN  IF deciding = {} THEN d.decision = "DefaultDeny" /\ d.policy_id = "none"
        ELSE \E p \in deciding :
               /\ \A q \in deciding :
                    p.priority > q.priority \/ (p.priority = q.priority /\ p.number <= q.number)
               /\ d.policy_id = p.id /\ d.decision = DecisionOf(p, request)

(* The log holds the last events since it was cleared, numbered without a  *)
(* gap; a query finds those that match, or the first of them.              *)
LogExact ==
  /\ Len(entries) + dropped = timestamp_counter
  /\ dropped > 0 => Len(entries) = LogSize
  /\ \A i \in DOMAIN entries : entries[i].timestamp = dropped + i
  /\ \A filter \in Filters :
       LET found == ToSet(Query(filter))
           rest == ToSet(entries) \ found
       IN  /\ \A e \in found : FilterMatches(filter, e)
           /\ \A e \in rest : FilterMatches(filter, e) =>
                filter.limit # <<>> /\ Len(Query(filter)) = filter.limit[1]
                /\ \A f \in found : f.timestamp < e.timestamp

(* A token that has time left is not expired, and was given no more time   *)
(* than it was issued with.                                                *)
TokenExact ==
  /\ \A now \in 0 .. Width - 1 : IsExpired(token, now) <=> RemainingTtl(token, now) = 0
  /\ \E ttl \in Ttls : RemainingTtl(token, token.issued_at) <= ttl
  /\ HasAllCapabilities(token, Capability) <=> \A cap \in Capability : HasCapability(token, cap)

(* A digest depends on the data only, and not on the pieces in which it    *)
(* was given: the whole blocks of the data, the rest and the padding.      *)
HashExact ==
  LET data == [i \in 1 .. length |-> i]
  IN  /\ Finalize = Processed(<<>>, Padded(data, length))
      /\ FlattenSeq(Finalize) = Padded(data, length)

=============================================================================
