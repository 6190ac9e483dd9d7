------------------------------- MODULE Packages -------------------------------
(***************************************************************************)
(* The kernel's packages: the registry with its indexes                    *)
(* (kernel/src/package/registry.rs), the resolver that orders packages     *)
(* behind their dependencies (resolver.rs) and the matching of versions    *)
(* (manifest.rs).  Every operation of the registry runs behind the lock of *)
(* PACKAGE_REGISTRY and is one step.                                       *)
(*                                                                         *)
(* Names are numbers, in the order of the strings.  A version is a triple  *)
(* or Unparsable; a requirement is the sequence of its conditions.         *)
(***************************************************************************)
EXTENDS Integers, SequencesExt

CONSTANTS
  Names,         \* names of packages
  Manifests,     \* manifests that packages come with
  Rootses,       \* the lists of packages that callers have resolved
  Versions,      \* versions and requirements that matching is checked with
  MaxId          \* bound on registry ids

Unparsable == <<>>
Operators == {"^", "~", ">=", "<=", ">", "<", "=", ""}

ConstantsOK ==
  /\ Names \subseteq Nat /\ MaxId \in Nat
  /\ \A m \in Manifests :
       /\ DOMAIN m = {"version", "dependencies", "capabilities", "agent_types"}
       /\ \A d \in ToSet(m.dependencies) :
            /\ d.name \in Nat /\ d.optional \in BOOLEAN
            /\ \A c \in ToSet(d.version_req) : c.op \in Operators

VARIABLES
  (* PackageRegistry *)
  packages,      \* registry id -> package
  name_index,    \* name -> registry id
  capability_index, agent_type_index,   \* capability or agent type -> ids
  uninstalled,   \* names in the uninstall log
  next_id,
  (* A caller of the resolver *)
  available,     \* name -> manifest
  outcome        \* what the last call of resolve returned

registryvars ==
  <<packages, name_index, capability_index, agent_type_index, uninstalled, next_id>>
resolvervars == <<available, outcome>>
vars == <<registryvars, resolvervars>>

-----------------------------------------------------------------------------
(* Versions                                                                *)

(* The derived order of SemVersion *)
Below(v, w) ==
  \E i \in 1 .. 3 : v[i] < w[i] /\ \A j \in 1 .. i - 1 : v[j] = w[j]

CheckSingleCondition(cond, v) ==
  LET req == cond.version
  IN  /\ req # Unparsable
      /\ CASE cond.op = "^" -> ~Below(v, req) /\ v[1] = req[1]
           [] cond.op = "~" -> ~Below(v, req) /\ v[1] = req[1] /\ v[2] = req[2]
           [] cond.op = ">=" -> ~Below(v, req)
           [] cond.op = "<=" -> ~Below(req, v)
           [] cond.op = ">" -> Below(req, v)
           [] cond.op = "<" -> Below(v, req)
           [] cond.op \in {"=", ""} -> v = req

VersionMatches(req, version) ==
  IF version = Unparsable THEN "InvalidReq"
  ELSE IF \A cond \in ToSet(req) : CheckSingleCondition(cond, version) THEN "Match"
  ELSE "NoMatch"

-----------------------------------------------------------------------------
(* DependencyResolver                                                      *)

Required(found, name) == SelectSeq(found[name].dependencies, LAMBDA d : ~d.optional)
NamesOf(deps) == {d.name : d \in ToSet(deps)}

(* A requirement on a package that is not there is not checked *)
Conflicts(found, dep) ==
  /\ dep.name \in DOMAIN found
  /\ VersionMatches(dep.version_req, found[dep.name].version) = "NoMatch"

(* The walk from the roots; it looks at a requirement only if the package  *)
(* that is required was not visited before                                 *)
RECURSIVE Collect(_, _, _)
Collect(found, queue, visited) ==
  IF queue = <<>> THEN [error |-> "Ok", needed |-> visited]
  ELSE LET name == Head(queue)
           visiting == visited \cup {name}
           next == SelectSeq(Required(found, name), LAMBDA d : d.name \notin visiting)
       IN  CASE name \in visited -> Collect(found, Tail(queue), visited)
             [] name \notin visited /\ name \notin DOMAIN found ->
                  [error |-> "DependencyNotFound", needed |-> visiting]
             [] OTHER ->
                  IF \E d \in ToSet(next) : Conflicts(found, d)
                    THEN [error |-> "VersionConflict", needed |-> visiting]
                  ELSE Collect(found, Tail(queue) \o [i \in DOMAIN next |-> next[i].name],
                               visiting)

LeastOf(S) == CHOOSE n \in S : \A m \in S : n <= m

(* The packages whose degree is zero once those of `order' are installed   *)
Ready(found, needed, order) ==
  {n \in needed \ ToSet(order) :
     NamesOf(Required(found, n)) \cap needed \subseteq ToSet(order)}

RECURSIVE InstallOrder(_, _, _)
InstallOrder(found, needed, order) ==
  LET ready == Ready(found, needed, order)
  IN  IF ready = {} THEN order
      ELSE InstallOrder(found, needed, Append(order, LeastOf(ready)))

ResolveFor(found, roots) ==
  LET collected == Collect(found, roots, {})
      order == InstallOrder(found, collected.needed, <<>>)
  IN  IF collected.error # "Ok" THEN [error |-> collected.error, order |-> <<>>]
      ELSE IF Len(order) # Cardinality(collected.needed)
        THEN [error |-> "CircularDependency", order |-> <<>>]
      ELSE [error |-> "Ok", order |-> order]

(* detect_cycles: a search in depth that stops at a package on its stack   *)
RECURSIVE DfsCycle(_, _, _, _)
DfsCycle(found, current, visited, stack) ==
  LET deps == IF current \in DOMAIN found THEN Required(found, current) ELSE <<>>
      on == stack \cup {current}
      Follow(at, d) ==
        CASE at.cyclic                             -> at
          [] ~at.cyclic /\ d.name \notin at.visited -> DfsCycle(found, d.name, at.visited, on)
          [] OTHER                                 -> [at EXCEPT !.cyclic = d.name \in on]
  IN  FoldLeft(Follow, [cyclic |-> FALSE, visited |-> visited \cup {current}], deps)

DetectCycles(found, name) == DfsCycle(found, name, {}, {}).cyclic

CheckVersionConflicts(found, names) ==
  \E n \in ToSet(names) \cap DOMAIN found :
    \E d \in ToSet(Required(found, n)) : Conflicts(found, d)

NoOutcome == [roots |-> <<>>, error |-> "None", order |-> <<>>]

(* A manifest is published, or replaced by another version of it *)
Publish(name, manifest) ==
  /\ available' = (name :> manifest) @@ available
  /\ outcome' = NoOutcome
  /\ UNCHANGED registryvars

Resolve(roots) ==
  LET result == ResolveFor(available, roots)
  IN  /\ outcome' = [roots |-> roots, error |-> result.error, order |-> result.order]
      /\ UNCHANGED <<available, registryvars>>

ResolverNext ==
  \/ \E name \in Names, m \in Manifests : Publish(name, m)
  \/ \E roots \in Rootses : Resolve(roots)

-----------------------------------------------------------------------------
(* PackageRegistry                                                         *)

States == {"Installed", "Pending", "Removing", "Error"}

Entries(index, key) == IF key \in DOMAIN index THEN index[key] ELSE <<>>

(* A key that a manifest names twice gets the id twice *)
Pushed(index, keys, id) == FoldLeft(LAMBDA ix, k : (k :> Append(Entries(ix, k), id)) @@ ix, index, keys)

Dropped(index, keys, id) ==
  LET left(k) == IF k \in ToSet(keys) THEN SelectSeq(index[k], LAMBDA x : x # id) ELSE index[k]
  IN  [k \in {j \in DOMAIN index : left(j) # <<>>} |-> left(k)]

Register(name, m) ==
  /\ name \notin DOMAIN name_index
  /\ next_id <= MaxId
  /\ packages' = (next_id :> [name |-> name, manifest |-> m, state |-> "Pending"]) @@ packages
  /\ name_index' = (name :> next_id) @@ name_index
  /\ capability_index' = Pushed(capability_index, m.capabilities, next_id)
  /\ agent_type_index' = Pushed(agent_type_index, m.agent_types, next_id)
  /\ next_id' = next_id + 1
  /\ UNCHANGED <<uninstalled, resolvervars>>

Unregister(id) ==
  /\ id \in DOMAIN packages
  /\ LET package == packages[id]
     IN  /\ packages' = [i \in DOMAIN packages \ {id} |-> packages[i]]
         /\ name_index' = [n \in DOMAIN name_index \ {package.name} |-> name_index[n]]
         /\ capability_index' = Dropped(capability_index, package.manifest.capabilities, id)
         /\ agent_type_index' = Dropped(agent_type_index, package.manifest.agent_types, id)
         /\ uninstalled' = Append(uninstalled, package.name)
  /\ UNCHANGED <<next_id, resolvervars>>

(* No transition is refused: a package may be Installed again while it is  *)
(* Removing                                                                *)
UpdateState(id, state) ==
  /\ id \in DOMAIN packages
  /\ packages' = [packages EXCEPT ![id].state = state]
  /\ UNCHANGED <<name_index, capability_index, agent_type_index, uninstalled, next_id, resolvervars>>

MarkInstalled(id) == UpdateState(id, "Installed")

(* clear forgets the logs too, and goes on counting *)
Clear ==
  /\ packages' = <<>> /\ name_index' = <<>>
  /\ capability_index' = <<>> /\ agent_type_index' = <<>>
  /\ uninstalled' = <<>>
  /\ UNCHANGED <<next_id, resolvervars>>

FindByName(name) ==
  {packages[id] : id \in {name_index[n] : n \in {name} \cap DOMAIN name_index} \cap DOMAIN packages}

Found(index, key) == SelectSeq(Entries(index, key), LAMBDA id : id \in DOMAIN packages)
FindByCapability(cap) == Found(capability_index, cap)
FindByAgentType(type) == Found(agent_type_index, type)

RegistryNext ==
  \/ \E name \in Names, m \in Manifests : Register(name, m)
  \/ \E id \in 1 .. MaxId : Unregister(id) \/ MarkInstalled(id)
  \/ \E id \in 1 .. MaxId, s \in States : UpdateState(id, s)
  \/ Clear

Init ==
  /\ packages = <<>> /\ name_index = <<>> /\ capability_index = <<>> /\ agent_type_index = <<>>
  /\ uninstalled = <<>> /\ next_id = 1
  /\ available = <<>> /\ outcome = NoOutcome

-----------------------------------------------------------------------------

(* The types of the variables. *)
TypeOK ==
  /\ DOMAIN packages \subseteq 1 .. next_id - 1
  /\ \A id \in DOMAIN packages :
       /\ packages[id].name \in Names /\ packages[id].manifest \in Manifests
       /\ packages[id].state \in States
  /\ \A n \in DOMAIN name_index : n \in Names /\ name_index[n] \in Nat
  /\ ToSet(uninstalled) \subseteq Names /\ next_id \in 1 .. MaxId + 1
  /\ DOMAIN available \subseteq Names

(* What a walk from the roots needs, by definition *)
Closure(found, roots) ==
  LET Wider(S) == S \cup UNION {NamesOf(Required(found, n)) : n \in S \cap DOMAIN found}
  IN  FoldLeft(LAMBDA S, i : Wider(S), roots, [i \in 1 .. Cardinality(Names) + 1 |-> i])

(* Every subset has a package that requires none of the subset *)
Acyclic(found, S) ==
  \A T \in SUBSET S \ {{}} : \E n \in T : NamesOf(Required(found, n)) \cap T = {}

(* resolve gives every package it needs once and behind those it requires, *)
(* or says why there is no such order; the two searches for cycles agree.  *)
(* A conflict of versions that the walk does not look at - the package was *)
(* visited before it was required - is one check_version_conflicts finds.  *)
ResolveSound ==
  LET needed == Closure(available, ToSet(outcome.roots))
      order == outcome.order
      Matches(n) == \A d \in ToSet(Required(available, n)) : ~Conflicts(available, d)
  IN  outcome # NoOutcome =>
        CASE outcome.error = "Ok" ->
               /\ needed \subseteq DOMAIN available
               /\ IsInjective(order) /\ ToSet(order) = needed
               /\ \A i \in DOMAIN order : \A n \in NamesOf(Required(available, order[i])) :
                    n \in ToSet(SubSeq(order, 1, i - 1))
               /\ \A r \in ToSet(outcome.roots) : ~DetectCycles(available, r)
               /\ CheckVersionConflicts(available, order) \/ \A n \in needed : Matches(n)
          [] outcome.error = "DependencyNotFound" -> ~(needed \subseteq DOMAIN available)
          [] outcome.error = "CircularDependency" ->
               /\ ~Acyclic(available, needed)
               /\ \E r \in ToSet(outcome.roots) : DetectCycles(available, r)
          [] outcome.error = "VersionConflict" ->
               ~\A n \in needed \cap DOMAIN available : Matches(n)

(* ^ and ~ are what the comments say, the interval up to the next major or *)
(* minor version.                                                          *)
Intervals ==
  \A v, w \in Versions :
    LET Within(bound) == ~Below(v, w) /\ Below(v, bound)
        Allows(op) == VersionMatches(<<[op |-> op, version |-> w]>>, v) = "Match"
    IN  /\ Allows("^") <=> Within(<<w[1] + 1, 0, 0>>)
        /\ Allows("~") <=> Within(<<w[1], w[2] + 1, 0>>)

(* The indexes name exactly the packages that are registered, under what   *)
(* their manifests say, in the order of registration.                      *)
IndexesExact ==
  LET Exact(index, keys(_)) ==
        /\ \A k \in DOMAIN index :
             /\ index[k] # <<>> /\ \A i, j \in DOMAIN index[k] : i < j => index[k][i] <= index[k][j]
             /\ \A id \in ToSet(index[k]) : id \in DOMAIN packages /\ k \in ToSet(keys(id))
        /\ \A id \in DOMAIN packages : \A k \in ToSet(keys(id)) : id \in ToSet(Entries(index, k))
  IN  /\ Exact(capability_index, LAMBDA id : packages[id].manifest.capabilities)
      /\ Exact(agent_type_index, LAMBDA id : packages[id].manifest.agent_types)
      /\ \A n \in Names : FindByName(n) = {p \in {packages[id] : id \in DOMAIN packages} : p.name = n}
      /\ \A p, q \in DOMAIN packages : p # q => packages[p].name # packages[q].name

=============================================================================
