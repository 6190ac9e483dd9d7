----------------------------- MODULE KernelProofs -----------------------------
(***************************************************************************)
(* What the managers and the memory of the kernel promise, for any number  *)
(* of what they manage.  Their modules share no variable: a theorem is     *)
(* about the specification of one of them.                                 *)
(***************************************************************************)
EXTENDS CapabilityToken, Rights, ServiceManager, FrameAllocator, BumpHeap, SlabAllocator,
        AddressSpace, IpcChannel, AuditChain, Stores, PosixSyscall, FdTable, FiniteSetTheorems,
        SequenceTheorems, NaturalsInduction, WellFoundedInduction, TLAPS

(* A set of natural numbers that is not empty has a least one. *)
LEMMA LeastNumber ==
  ASSUME NEW S, S \subseteq Nat, S # {}
  PROVE  \E x \in S : \A y \in S : x <= y
<1> DEFINE Less == {ss \in Nat \X Nat : ss[1] < ss[2]}
<1>1. IsWellFoundedOn(Less, Nat)
  BY NatLessThanWellFounded DEF OpToRel
<1>2. PICK x \in S : \A y \in S : ~(<<y, x>> \in Less)
  BY <1>1, WFMin
<1>3. ASSUME NEW y \in S PROVE x <= y
  <2>1. x \in Nat /\ y \in Nat
    OBVIOUS
  <2>2. y < x => <<y, x>> \in Less
    BY <2>1
  <2> QED BY <1>2, <2>1, <2>2
<1> QED BY <1>3

-----------------------------------------------------------------------------
(* Capability tokens *)

LEMMA ChildrenFinite ==
  ASSUME TokensTypeOK, NEW id
  PROVE  IsFiniteSet(Children(id)) /\ Cardinality(Children(id)) \in Nat
<1>1. Ids = 1 .. Len(tokens) /\ Len(tokens) \in Nat
  BY DEF TokensTypeOK, Ids
<1>2. IsFiniteSet(Ids)
  BY <1>1, FS_Interval
<1> QED BY <1>2, FS_Subset, FS_CardinalityType DEF Children

(* Whatever changes of the tokens there are, if neither limits nor counts  *)
(* nor parents change, the invariant is kept.                              *)
LEMMA SameCounts ==
  ASSUME TokensInv, UNCHANGED parent, tokens' \in Seq(Token), Ids' = Ids,
         \A id \in Ids : /\ tokens'[id].delegate_count = tokens[id].delegate_count
                         /\ tokens'[id].max_delegates = tokens[id].max_delegates
  PROVE  TokensInv'
<1>1. Len(tokens') = Len(tokens)
  BY DEF Ids, TokensInv, TokensTypeOK
<1>2. TokensTypeOK'
  BY <1>1 DEF TokensInv, TokensTypeOK
<1>3. \A id : Children(id)' = Children(id)
  BY DEF Children
<1>4. DelegationsCounted'
  BY <1>3 DEF TokensInv, DelegationsCounted
<1>5. LimitsShrink'
  <2>1. \A id \in Ids : parent[id] # 0 => parent[id] \in Ids
    BY DEF TokensInv, TokensTypeOK, Ids
  <2> QED BY <2>1 DEF TokensInv, LimitsShrink
<1> QED BY <1>2, <1>4, <1>5 DEF TokensInv

LEMMA TokenTypes ==
  ASSUME TokensTypeOK, NEW id \in Ids
  PROVE  /\ tokens[id] \in Token /\ id \in 1 .. Len(tokens) /\ Len(tokens) \in Nat
         /\ tokens[id].delegate_count \in Nat /\ tokens[id].max_delegates \in Nat
         /\ tokens[id].max_delegates <= MaxDelegates
<1>1. tokens \in Seq(Token) /\ id \in DOMAIN tokens
  BY DEF TokensTypeOK, Ids
<1>2. tokens[id] \in Token /\ id \in 1 .. Len(tokens) /\ Len(tokens) \in Nat
  BY <1>1
<1> QED BY <1>2, TokensAssumption DEF Token

LEMMA InitTokensInv == TokensInit => TokensInv
BY TokensAssumption
   DEF TokensInit, TokensInv, TokensTypeOK, DelegationsCounted, LimitsShrink, Ids

(* A token without children is added at the end. *)
LEMMA IssueTokensInv ==
  ASSUME TokensInv, NEW owner \in Owners, IssueToken(owner)
  PROVE  TokensInv'
<1> DEFINE new == NewToken(owner, MaxDelegates)
<1>1. /\ tokens' = Append(tokens, new) /\ parent' = Append(parent, 0)
      /\ Len(tokens) < MaxTokens
  BY DEF IssueToken
<1>2. /\ tokens \in Seq(Token) /\ parent \in Seq(Nat) /\ Len(tokens) \in Nat
      /\ Len(parent) = Len(tokens) /\ Ids = 1 .. Len(tokens)
  BY DEF TokensInv, TokensTypeOK, Ids
<1> PICK n \in Nat : n = Len(tokens) + 1
  BY <1>2
<1>3. new \in Token
  BY TokensAssumption DEF NewToken, Token
<1>4. /\ tokens' \in Seq(Token) /\ Len(tokens') = n /\ Ids' = 1 .. n
      /\ tokens'[n] = new /\ \A id \in Ids : tokens'[id] = tokens[id]
  BY <1>1, <1>2, <1>3 DEF Ids
<1>5. /\ parent' \in Seq(Nat) /\ DOMAIN parent' = 1 .. n
      /\ parent'[n] = 0 /\ \A id \in Ids : parent'[id] = parent[id]
  BY <1>1, <1>2
<1> HIDE DEF new
<1>6. TokensTypeOK'
  BY <1>1, <1>2, <1>4, <1>5, TokensAssumption DEF TokensInv, TokensTypeOK
<1>7. /\ \A id \in Ids : parent[id] \in 0 .. id - 1
      /\ Ids' = Ids \cup {n} /\ n \notin Ids /\ 0 \notin Ids /\ n # 0
      /\ \A id \in Ids : parent[id] # n /\ (parent[id] # 0 => parent[id] \in Ids)
  <2>1. \A id \in Ids : parent[id] \in 0 .. id - 1
    BY DEF TokensInv, TokensTypeOK
  <2>2. Ids' = Ids \cup {n} /\ n \notin Ids /\ 0 \notin Ids /\ n # 0
    BY <1>2, <1>4
  <2>3. ASSUME NEW id \in Ids
        PROVE  parent[id] # n /\ (parent[id] # 0 => parent[id] \in Ids)
    <3>1. parent[id] \in 0 .. id - 1 /\ id \in 1 .. Len(tokens)
      BY <1>2, <2>1, <2>3
    <3> QED BY <1>2, <3>1
  <2> QED BY <2>1, <2>2, <2>3
<1>8. /\ \A id \in Ids : Children(id)' = Children(id)
      /\ Children(n)' = {}
  BY <1>5, <1>7 DEF Children
<1>9. new.delegate_count = 0 /\ new.max_delegates = MaxDelegates
  BY DEF new, NewToken
<1>10. DelegationsCounted'
  <2>1. /\ tokens'[n].delegate_count = Cardinality(Children(n)')
        /\ tokens'[n].delegate_count <= tokens'[n].max_delegates
    <3>1. Cardinality(Children(n)') = 0
      BY <1>8, FS_EmptySet
    <3> QED BY <1>4, <1>9, <3>1, TokensAssumption
  <2>2. \A id \in Ids : /\ tokens'[id].delegate_count = Cardinality(Children(id)')
                        /\ tokens'[id].delegate_count <= tokens'[id].max_delegates
    BY <1>4, <1>8 DEF TokensInv, DelegationsCounted
  <2> QED BY <1>7, <2>1, <2>2 DEF DelegationsCounted
<1>11. LimitsShrink'
  BY <1>4, <1>5, <1>7, <1>9 DEF TokensInv, LimitsShrink
<1> QED BY <1>6, <1>10, <1>11 DEF TokensInv

(* A delegation adds a child, and counts it; tokens stay revoked. *)
LEMMA DelegateTokensInv ==
  ASSUME TokensInv, NEW p \in Ids, NEW to \in Owners, Delegate(p, to)
  PROVE  TokensInv' /\ \A id \in Ids : tokens'[id].is_revoked = tokens[id].is_revoked
<1> DEFINE counted == [tokens[p] EXCEPT !.delegate_count = @ + 1]
           limit == tokens[p].max_delegates - 1
           new == NewToken(to, limit)
<1>1. /\ tokens \in Seq(Token) /\ parent \in Seq(Nat) /\ Len(tokens) \in Nat
      /\ Len(parent) = Len(tokens) /\ Ids = 1 .. Len(tokens) /\ p \in 1 .. Len(tokens)
  BY DEF TokensInv, TokensTypeOK, Ids
<1> PICK n \in Nat : n = Len(tokens) + 1
  BY <1>1
<1>2. /\ tokens[p] \in Token /\ tokens[p].delegate_count \in Nat
      /\ tokens[p].max_delegates \in 0 .. MaxDelegates
      /\ tokens[p].delegate_count < tokens[p].max_delegates
  BY TokenTypes DEF TokensInv, Delegate, MayDelegate, Token
<1>3. /\ tokens' = Append([tokens EXCEPT ![p] = counted], new)
      /\ parent' = Append(parent, p) /\ Len(tokens) < MaxTokens
  <2>1. ChildLimit(p) = limit
    BY <1>2 DEF ChildLimit
  <2> QED BY <2>1 DEF Delegate
<1>4. counted \in Token /\ counted.delegate_count = tokens[p].delegate_count + 1
      /\ counted.max_delegates = tokens[p].max_delegates
      /\ counted.is_revoked = tokens[p].is_revoked
  BY <1>2, TokensAssumption DEF Token
<1>5. new \in Token /\ new.delegate_count = 0 /\ new.max_delegates = limit
  BY <1>2, TokensAssumption DEF NewToken, Token
<1> HIDE DEF counted, new, limit
<1>6. /\ tokens' \in Seq(Token) /\ Len(tokens') = n /\ Ids' = 1 .. n
      /\ tokens'[n] = new /\ tokens'[p] = counted
      /\ \A id \in Ids \ {p} : tokens'[id] = tokens[id]
  <2> DEFINE s == [tokens EXCEPT ![p] = counted]
  <2>1. s \in Seq(Token) /\ Len(s) = Len(tokens)
    BY <1>1, <1>4
  <2>2. s[p] = counted /\ \A id \in Ids \ {p} : s[id] = tokens[id]
    BY <1>1
  <2>3. tokens' = Append(s, new)
    BY <1>3
  <2> HIDE DEF s
  <2>4. tokens' \in Seq(Token) /\ Len(tokens') = n /\ tokens'[n] = new
    BY <1>5, <2>1, <2>3, AppendProperties
  <2>5. \A id \in Ids : tokens'[id] = s[id]
    BY <1>1, <1>5, <2>1, <2>3, AppendProperties
  <2>6. Ids' = 1 .. n
    BY <2>4 DEF Ids
  <2> QED BY <2>2, <2>4, <2>5, <2>6
<1>7. /\ parent' \in Seq(Nat) /\ DOMAIN parent' = 1 .. n
      /\ parent'[n] = p /\ \A id \in Ids : parent'[id] = parent[id]
  <2>1. p \in Nat /\ parent' = Append(parent, p)
    BY <1>1, <1>3
  <2>2. /\ parent' \in Seq(Nat) /\ Len(parent') = n /\ parent'[n] = p
        /\ \A id \in 1 .. Len(parent) : parent'[id] = parent[id]
    BY <1>1, <2>1, AppendProperties
  <2> QED BY <1>1, <2>2
<1>8. TokensTypeOK'
  BY <1>1, <1>3, <1>6, <1>7, TokensAssumption DEF TokensInv, TokensTypeOK
<1>9. /\ \A id \in Ids : parent[id] \in 0 .. id - 1
      /\ Ids' = Ids \cup {n} /\ n \notin Ids /\ 0 \notin Ids /\ n # p
      /\ \A id \in Ids : parent[id] # n /\ (parent[id] # 0 => parent[id] \in Ids)
  <2>1. \A id \in Ids : parent[id] \in 0 .. id - 1
    BY DEF TokensInv, TokensTypeOK
  <2>2. Ids' = Ids \cup {n} /\ n \notin Ids /\ 0 \notin Ids /\ n # p
    BY <1>1, <1>6
  <2>3. \A id \in Ids : parent[id] # n /\ (parent[id] # 0 => parent[id] \in Ids)
    <3>1. ASSUME NEW id \in Ids PROVE parent[id] # n /\ (parent[id] # 0 => parent[id] \in Ids)
      <4>1. id \in 1 .. n - 1 /\ n \in Nat /\ Ids = 1 .. n - 1
        BY <1>1
      <4>2. parent[id] \in 0 .. id - 1
        BY <2>1
      <4> QED BY <4>1, <4>2
    <3> QED BY <3>1
  <2> QED BY <2>1, <2>2, <2>3
<1>10. /\ \A id \in Ids \ {p} : Children(id)' = Children(id)
       /\ Children(p)' = Children(p) \cup {n} /\ n \notin Children(p)
       /\ Children(n)' = {}
  BY <1>7, <1>9 DEF Children
<1>11. Cardinality(Children(p)') = tokens[p].delegate_count + 1
  <2>1. IsFiniteSet(Children(p)) /\ Cardinality(Children(p)) = tokens[p].delegate_count
    BY ChildrenFinite DEF TokensInv, DelegationsCounted
  <2> QED BY <1>10, <2>1, FS_AddElement
<1>12. DelegationsCounted'
  <2> DEFINE Fine(id) == /\ tokens'[id].delegate_count = Cardinality(Children(id)')
                         /\ tokens'[id].delegate_count <= tokens'[id].max_delegates
  <2>1. Fine(n)
    <3>1. Cardinality(Children(n)') = 0
      BY <1>10, FS_EmptySet
    <3>2. tokens'[n].delegate_count = 0 /\ 0 <= tokens'[n].max_delegates
      BY <1>2, <1>5, <1>6 DEF limit
    <3> QED BY <3>1, <3>2
  <2>2. Fine(p)
    BY <1>2, <1>4, <1>6, <1>11
  <2>3. \A id \in Ids \ {p} : Fine(id)
    BY <1>6, <1>10 DEF TokensInv, DelegationsCounted
  <2>4. \A id \in Ids' : Fine(id)
    BY <1>9, <2>1, <2>2, <2>3
  <2> QED BY <2>4 DEF DelegationsCounted
<1>13. LimitsShrink'
  <2>1. \A id \in Ids : tokens'[id].max_delegates = tokens[id].max_delegates
    BY <1>4, <1>6
  <2>2. p \in Ids /\ n \notin Ids /\ p # 0
    BY <1>1
  <2>3. tokens'[n].max_delegates = tokens'[parent'[n]].max_delegates - 1 /\ parent'[n] # 0
    BY <1>5, <1>6, <1>7, <2>1, <2>2 DEF limit
  <2>4. ASSUME NEW id \in Ids
        PROVE  tokens'[id].max_delegates =
                 IF parent'[id] = 0 THEN MaxDelegates
                 ELSE tokens'[parent'[id]].max_delegates - 1
    BY <1>7, <1>9, <2>1 DEF TokensInv, LimitsShrink
  <2> QED BY <1>9, <2>3, <2>4 DEF LimitsShrink
<1>14. \A id \in Ids : tokens'[id].is_revoked = tokens[id].is_revoked
  BY <1>4, <1>6
<1> QED BY <1>8, <1>12, <1>13, <1>14 DEF TokensInv

LEMMA NextTokensInv == TokensInv /\ [TokensNext]_tokenvars => TokensInv'
<1> SUFFICES ASSUME TokensInv, [TokensNext]_tokenvars PROVE TokensInv'
  OBVIOUS
<1>1. tokens \in Seq(Token) /\ Ids = 1 .. Len(tokens)
  BY DEF TokensInv, TokensTypeOK, Ids
<1>2. ASSUME NEW id \in Ids, RevokeToken(id) PROVE TokensInv'
  <2> DEFINE revoked == [tokens[id] EXCEPT !.is_revoked = TRUE]
  <2>1. revoked \in Token /\ revoked.delegate_count = tokens[id].delegate_count
        /\ revoked.max_delegates = tokens[id].max_delegates
    BY TokenTypes DEF TokensInv, Token
  <2>2. tokens' = [tokens EXCEPT ![id] = revoked] /\ UNCHANGED parent
    BY <1>2 DEF RevokeToken
  <2> HIDE DEF revoked
  <2>3. tokens' \in Seq(Token) /\ Ids' = Ids
    BY <1>1, <2>1, <2>2 DEF Ids
  <2>4. \A i \in Ids : /\ tokens'[i].delegate_count = tokens[i].delegate_count
                       /\ tokens'[i].max_delegates = tokens[i].max_delegates
    BY <1>1, <2>1, <2>2
  <2> QED BY <2>2, <2>3, <2>4, SameCounts
<1>3. ASSUME NEW owner \in Owners, RevokeAll(owner) PROVE TokensInv'
  <2> DEFINE Revoked(i) == [tokens[i] EXCEPT !.is_revoked = TRUE]
             Now(i) == IF tokens[i].owner = owner THEN Revoked(i) ELSE tokens[i]
  <2>1. ASSUME NEW i \in Ids
        PROVE  Now(i) \in Token /\ Now(i).delegate_count = tokens[i].delegate_count
               /\ Now(i).max_delegates = tokens[i].max_delegates
    BY TokenTypes DEF TokensInv, Token
  <2>2. tokens' = [i \in Ids |-> Now(i)] /\ UNCHANGED parent
    BY <1>3 DEF RevokeAll
  <2> HIDE DEF Now
  <2>3. tokens' \in Seq(Token) /\ Ids' = Ids
    <3>1. DOMAIN tokens' = Ids
      BY <2>2
    <3>2. tokens' \in [1 .. Len(tokens) -> Token]
      BY <1>1, <2>1, <2>2
    <3> QED BY <1>1, <3>1, <3>2, SeqDef DEF Ids
  <2>4. \A i \in Ids : /\ tokens'[i].delegate_count = tokens[i].delegate_count
                       /\ tokens'[i].max_delegates = tokens[i].max_delegates
    BY <2>1, <2>2
  <2> QED BY <2>2, <2>3, <2>4, SameCounts
<1>4. CASE UNCHANGED tokenvars
  BY <1>1, <1>4, SameCounts DEF tokenvars, Ids
<1> QED
  BY <1>2, <1>3, <1>4, IssueTokensInv, DelegateTokensInv DEF TokensNext

(* A chain of n delegations uses up n of the limit of its first token. *)
LEMMA LimitsBoundChains == TokensInv => ChainsBounded
<1> SUFFICES ASSUME TokensInv, NEW n \in 1 .. Len(tokens), NEW chain \in [0 .. n -> Ids],
                    IsChain(chain, n)
             PROVE  n <= MaxDelegates
  BY DEF ChainsBounded
<1> DEFINE Limit(i) == tokens[chain[i]].max_delegates
           Wrong == {i \in 0 .. n : Limit(i) + i # Limit(0)}
<1>1. n \in Nat /\ \A i \in 0 .. n : Limit(i) \in Nat /\ Limit(i) <= MaxDelegates
  <2>1. n \in Nat
    OBVIOUS
  <2>2. \A id \in Ids : tokens[id].max_delegates \in Nat /\ tokens[id].max_delegates <= MaxDelegates
    BY TokenTypes DEF TokensInv
  <2> QED BY <2>1, <2>2
<1>2. ASSUME NEW i \in 1 .. n PROVE Limit(i) = Limit(i - 1) - 1
  <2>1. i \in 0 .. n /\ i - 1 \in 0 .. n /\ chain[i] \in Ids /\ chain[i - 1] \in Ids
    BY <1>1
  <2>2. parent[chain[i]] = chain[i - 1]
    BY DEF IsChain
  <2>3. chain[i - 1] # 0
    BY <2>1, TokenTypes DEF TokensInv
  <2> QED BY <2>1, <2>2, <2>3 DEF TokensInv, LimitsShrink
<1> HIDE DEF Limit
<1>3. Wrong = {}
  <2> SUFFICES ASSUME Wrong # {} PROVE FALSE
    OBVIOUS
  <2>1. PICK i \in Wrong : \A j \in Wrong : i <= j
    <3>1. Wrong \subseteq Nat
      BY <1>1
    <3> HIDE DEF Wrong
    <3> QED BY <3>1, LeastNumber
  <2>2. i \in 1 .. n
    BY <1>1, <2>1
  <2>3. i - 1 \in 0 .. n /\ i - 1 \notin Wrong
    BY <1>1, <2>1, <2>2
  <2>4. Limit(i - 1) + (i - 1) = Limit(0)
    BY <2>3
  <2> QED BY <1>1, <1>2, <2>1, <2>2, <2>3, <2>4
<1>4. Limit(n) + n = Limit(0)
  BY <1>1, <1>3
<1> QED BY <1>1, <1>4, TokensAssumption

(* For any number of owners and tokens and any limit, each token's count   *)
(* is that of its delegations and within its limit, no chain of            *)
(* delegations is longer than MaxDelegates (delegate), and a token that    *)
(* was revoked stays revoked (revoke_token, revoke_all).                   *)
THEOREM DelegationsBounded == TokensSpec => TokensBounded
<1>1. TokensInv => DelegationsCounted /\ ChainsBounded
  BY LimitsBoundChains DEF TokensInv
<1>2. ASSUME TokensInv, [TokensNext]_tokenvars, NEW id \in Ids, tokens[id].is_revoked
      PROVE  tokens'[id].is_revoked
  <2>1. /\ tokens \in Seq(Token) /\ Len(tokens) \in Nat /\ Ids = 1 .. Len(tokens)
        /\ tokens[id] \in Token
    BY <1>2, TokenTypes DEF TokensInv, TokensTypeOK, Ids
  <2>2. ASSUME NEW owner \in Owners, IssueToken(owner) PROVE tokens'[id] = tokens[id]
    BY <2>1, <2>2 DEF IssueToken
  <2>3. ASSUME NEW i \in Ids, RevokeToken(i) PROVE tokens'[id].is_revoked
    <3>1. CASE i = id
      BY <2>1, <2>3, <3>1 DEF RevokeToken, Token
    <3>2. CASE i # id
      BY <1>2, <2>1, <2>3, <3>2 DEF RevokeToken
    <3> QED BY <3>1, <3>2
  <2>4. ASSUME NEW owner \in Owners, RevokeAll(owner) PROVE tokens'[id].is_revoked
    BY <1>2, <2>1, <2>4 DEF RevokeAll, Token
  <2>5. ASSUME NEW i \in Ids, NEW to \in Owners, Delegate(i, to) PROVE tokens'[id].is_revoked
    BY <1>2, <2>5, DelegateTokensInv
  <2> QED
    BY <1>2, <2>2, <2>3, <2>4, <2>5 DEF TokensNext, tokenvars
<1>3. TokensInv /\ [TokensNext]_tokenvars
        => [\A id \in Ids : tokens[id].is_revoked => tokens'[id].is_revoked]_tokenvars
  BY <1>2
<1> QED
  BY InitTokensInv, NextTokensInv, <1>1, <1>3, PTL
  DEF TokensSpec, TokensBounded, RevokedForEver


-----------------------------------------------------------------------------
(* Services *)

(* An element is inserted at one of the positions of a sequence, or behind *)
(* it.                                                                     *)
LEMMA InsertAtType ==
  ASSUME NEW S, NEW s \in Seq(S), NEW i \in 1 .. Len(s) + 1, NEW e \in S
  PROVE  InsertAt(s, i, e) \in Seq(S)
<1>1. SubSeq(s, 1, i - 1) \in Seq(S) /\ SubSeq(s, i, Len(s)) \in Seq(S)
  BY SubSeqProperties
<1> QED BY <1>1 DEF InsertAt

Snapshots == [state : {"Stopped", "Running"}, restart_count : Nat]

(* Snapshots of the registered services with restarts within the limits,   *)
(* all that the invariant needs of what an operation makes of them         *)
LEMMA SnapshotsInv ==
  ASSUME ServicesInv, UNCHANGED <<configs, start_order>>,
         DOMAIN snapshots' = Registered,
         \A s \in Registered : /\ snapshots'[s] \in Snapshots
                               /\ snapshots'[s].restart_count <= configs[s].max_restart_count
  PROVE  ServicesInv'
<1>1. Registered' = Registered
  BY DEF Registered
<1>2. ServicesTypeOK'
  BY <1>1 DEF ServicesInv, ServicesTypeOK, Snapshots
<1> QED BY <1>1, <1>2 DEF ServicesInv, RestartsBounded

LEMMA ServiceTypes ==
  ASSUME ServicesInv, NEW s \in Registered
  PROVE  /\ snapshots[s] \in Snapshots /\ DOMAIN snapshots = Registered
         /\ snapshots[s].restart_count <= configs[s].max_restart_count
         /\ configs[s] \in Configs /\ configs[s].max_restart_count \in Nat
BY ServicesAssumption DEF ServicesInv, ServicesTypeOK, RestartsBounded, Snapshots

LEMMA InitServicesInv == ServicesInit => ServicesInv
BY DEF ServicesInit, ServicesInv, ServicesTypeOK, RestartsBounded, Registered

LEMMA RegisterServicesInv ==
  ASSUME ServicesInv, NEW s \in Services, NEW config \in Configs, RegisterConfig(s, config)
  PROVE  ServicesInv'
<1> DEFINE new == [state |-> "Stopped", restart_count |-> 0]
<1>1. /\ configs' = With(configs, s, config) /\ snapshots' = With(snapshots, s, new)
      /\ start_order' = InsertAt(start_order, InsertPosition(configs', s), s)
  BY DEF RegisterConfig
<1>2. /\ Registered \subseteq Services /\ DOMAIN snapshots = Registered
      /\ \A x \in Registered : configs[x] \in Configs
      /\ start_order \in Seq(Registered)
  BY DEF ServicesInv, ServicesTypeOK
<1>3. /\ Registered' = Registered \cup {s} /\ DOMAIN snapshots' = Registered \cup {s}
      /\ configs'[s] = config /\ snapshots'[s] = new
      /\ \A x \in Registered \ {s} : configs'[x] = configs[x] /\ snapshots'[x] = snapshots[x]
  BY <1>1, <1>2 DEF With, Registered
<1>4. new \in Snapshots /\ 0 <= config.max_restart_count
  BY ServicesAssumption DEF Snapshots
<1>5. InsertPosition(configs', s) \in 1 .. Len(start_order) + 1
  <2> DEFINE later == {i \in DOMAIN start_order :
                         configs'[start_order[i]].start_order >= configs'[s].start_order}
             position == InsertPosition(configs', s)
  <2>1. Len(start_order) \in Nat /\ later \subseteq 1 .. Len(start_order)
    BY <1>2
  <2>2. later = {} => position = Len(start_order) + 1
    BY DEF InsertPosition
  <2>3. later # {} => position = CHOOSE i \in later : \A j \in later : i <= j
    BY DEF InsertPosition
  <2> HIDE DEF later, position
  <2>4. later # {} => \E i \in later : \A j \in later : i <= j
    <3>1. later \subseteq Nat
      BY <2>1
    <3> QED BY <3>1, LeastNumber
  <2>5. later # {} => position \in later
    BY <2>3, <2>4
  <2>6. position \in 1 .. Len(start_order) + 1
    <3> DEFINE n == Len(start_order)
    <3>1. n \in Nat /\ later \subseteq 1 .. n /\ (later = {} => position = n + 1)
      BY <2>1, <2>2
    <3> HIDE DEF n
    <3>2. position \in 1 .. n + 1
      <4>1. later = {} => position \in 1 .. n + 1
        BY <3>1
      <4>2. later # {} => position \in 1 .. n + 1
        <5>1. later # {} => position \in 1 .. n
          BY <2>5, <3>1
        <5> QED BY <3>1, <5>1
      <4> QED BY <4>1, <4>2
    <3> QED BY <3>2 DEF n
  <2> QED BY <2>6 DEF position
<1>6. start_order' \in Seq(Registered \cup {s})
  <2>1. start_order \in Seq(Registered \cup {s})
    BY <1>2
  <2> QED BY <1>1, <1>5, <2>1, InsertAtType
<1> HIDE DEF new
<1>7. \A x \in Registered' :
        /\ configs'[x] \in Configs /\ snapshots'[x] \in Snapshots
        /\ snapshots'[x].restart_count <= configs'[x].max_restart_count
  <2>1. new.restart_count = 0
    BY DEF new
  <2>2. \A x \in Registered : snapshots[x] \in Snapshots
                               /\ snapshots[x].restart_count <= configs[x].max_restart_count
    BY ServiceTypes
  <2> QED BY <1>2, <1>3, <1>4, <2>1, <2>2
<1>8. ServicesTypeOK'
  BY <1>2, <1>3, <1>6, <1>7 DEF ServicesTypeOK, Snapshots
<1> QED BY <1>7, <1>8 DEF ServicesInv, RestartsBounded

(* One service is started or stopped, or several. *)
LEMMA StatesOnly ==
  ASSUME ServicesInv, NEW S, NEW state \in {"Stopped", "Running"},
         UNCHANGED <<configs, start_order>>,
         snapshots' = [s \in Registered |-> IF s \in S THEN [snapshots[s] EXCEPT !.state = state]
                                           ELSE snapshots[s]]
  PROVE  ServicesInv'
<1>1. ASSUME NEW s \in Registered
      PROVE  LET t == [snapshots[s] EXCEPT !.state = state]
             IN t \in Snapshots /\ t.restart_count <= configs[s].max_restart_count
  BY ServiceTypes DEF Snapshots
<1>2. \A s \in Registered : /\ snapshots'[s] \in Snapshots
                            /\ snapshots'[s].restart_count <= configs[s].max_restart_count
  BY <1>1, ServiceTypes
<1> QED BY <1>2, SnapshotsInv

(* What one operation on one service does, as a case of the above *)
LEMMA OneState ==
  ASSUME ServicesInv, NEW s, NEW state
  PROVE  [snapshots EXCEPT ![s].state = state] =
           [x \in Registered |-> IF x \in {s} THEN [snapshots[x] EXCEPT !.state = state]
                                ELSE snapshots[x]]
<1>1. DOMAIN snapshots = Registered
  BY DEF ServicesInv, ServicesTypeOK
<1> QED BY <1>1

LEMMA RestartServicesInv ==
  ASSUME ServicesInv, NEW s, RestartService(s)
  PROVE  ServicesInv'
<1> DEFINE old == snapshots[s]
           Now(state) == [state |-> state, restart_count |-> old.restart_count + 1]
<1>1. /\ s \in Registered /\ old.restart_count < configs[s].max_restart_count
      /\ UNCHANGED <<configs, start_order>>
  BY DEF RestartService, MayRestart
<1>2. /\ old \in Snapshots /\ DOMAIN snapshots = Registered
      /\ configs[s].max_restart_count \in Nat
  BY <1>1, ServiceTypes
<1>3. \E state \in {"Stopped", "Running"} : snapshots' = [snapshots EXCEPT ![s] = Now(state)]
  <2> DEFINE stopped == [Stopped(snapshots, s) EXCEPT ![s].restart_count = @ + 1]
  <2>0. old = [state |-> old.state, restart_count |-> old.restart_count]
    BY <1>2 DEF Snapshots
  <2>1. stopped = [snapshots EXCEPT ![s] = Now("Stopped")]
    <3> DEFINE halted == [state |-> "Stopped", restart_count |-> old.restart_count]
    <3>1. [old EXCEPT !.state = "Stopped"] = halted
      BY <2>0
    <3>2. Stopped(snapshots, s) = [snapshots EXCEPT ![s] = halted]
      BY <3>1 DEF Stopped
    <3>3. [halted EXCEPT !.restart_count = @ + 1] = Now("Stopped")
      OBVIOUS
    <3> HIDE DEF halted
    <3>4. Stopped(snapshots, s)[s] = halted
      BY <1>1, <1>2, <3>2
    <3>5. stopped = [Stopped(snapshots, s) EXCEPT ![s] = Now("Stopped")]
      BY <3>3, <3>4
    <3> HIDE DEF Now, stopped
    <3> QED BY <3>2, <3>5
  <2>2. Started(stopped, s) = [snapshots EXCEPT ![s] = Now("Running")]
    <3>1. stopped[s] = Now("Stopped")
      BY <1>1, <1>2, <2>1
    <3>2. [Now("Stopped") EXCEPT !.state = "Running"] = Now("Running")
      OBVIOUS
    <3> HIDE DEF Now, stopped
    <3>3. Started(stopped, s) = [stopped EXCEPT ![s] = Now("Running")]
      BY <3>1, <3>2 DEF Started
    <3> QED BY <2>1, <3>3
  <2>3. snapshots' = stopped \/ snapshots' = Started(stopped, s)
    BY DEF RestartService
  <2> HIDE DEF stopped
  <2> QED BY <2>1, <2>2, <2>3
<1>4. PICK state \in {"Stopped", "Running"} : snapshots' = [snapshots EXCEPT ![s] = Now(state)]
  BY <1>3
<1>5. Now(state) \in Snapshots /\ Now(state).restart_count <= configs[s].max_restart_count
  BY <1>1, <1>2 DEF Snapshots
<1> HIDE DEF Now
<1>6. \A x \in Registered : /\ snapshots'[x] \in Snapshots
                            /\ snapshots'[x].restart_count <= configs[x].max_restart_count
  BY <1>2, <1>4, <1>5, ServiceTypes
<1> QED BY <1>1, <1>2, <1>4, <1>6, SnapshotsInv

LEMMA NextServicesInv == ServicesInv /\ [ServicesNext]_managervars => ServicesInv'
<1> SUFFICES ASSUME ServicesInv, [ServicesNext]_managervars PROVE ServicesInv'
  OBVIOUS
<1>1. ASSUME NEW s \in Services, StartService(s) PROVE ServicesInv'
  <2>1. snapshots' = Started(snapshots, s) /\ UNCHANGED <<configs, start_order>>
    BY <1>1 DEF StartService
  <2>2. snapshots' = [x \in Registered |-> IF x \in {s} THEN [snapshots[x] EXCEPT !.state = "Running"]
                                          ELSE snapshots[x]]
    BY <2>1, OneState DEF Started
  <2> QED BY <2>1, <2>2, StatesOnly
<1>2. ASSUME NEW s \in Services, StopService(s) PROVE ServicesInv'
  <2>1. snapshots' = Stopped(snapshots, s) /\ UNCHANGED <<configs, start_order>>
    BY <1>2 DEF StopService
  <2>2. snapshots' = [x \in Registered |-> IF x \in {s} THEN [snapshots[x] EXCEPT !.state = "Stopped"]
                                          ELSE snapshots[x]]
    BY <2>1, OneState DEF Stopped
  <2> QED BY <2>1, <2>2, StatesOnly
<1>3. CASE StartAll
  <2>1. PICK n : snapshots' = StartedThese(AutoBefore(n)) /\ UNCHANGED <<configs, start_order>>
    BY <1>3 DEF StartAll
  <2> QED BY <2>1, StatesOnly DEF StartedThese
<1>4. CASE StopAll
  BY <1>4, StatesOnly DEF StopAll
<1>5. CASE UNCHANGED managervars
  BY <1>5, SnapshotsInv, ServiceTypes DEF managervars, ServicesInv, ServicesTypeOK
<1> QED
  BY <1>1, <1>2, <1>3, <1>4, <1>5, RegisterServicesInv, RestartServicesInv DEF ServicesNext

(* For any services and configurations, dependencies in circles and        *)
(* services registered again included, no service is restarted more often  *)
(* than its configuration allows (restart_service), whatever fails.        *)
THEOREM RestartsStayBounded == ServicesSpec => []RestartsBounded
<1>1. ServicesInv => RestartsBounded
  BY DEF ServicesInv
<1> QED BY InitServicesInv, NextServicesInv, <1>1, PTL DEF ServicesSpec

(* What the property says of a step *)
StartsAfterDependencies ==
  \A s \in Registered : Running(snapshots', s) /\ ~Running(snapshots, s) =>
    \A d \in configs[s].dependencies : Running(snapshots', d)

LEMMA StartAllStarts ==
  ASSUME ServicesInv, StartAll
  PROVE  StartsAfterDependencies
<1>1. PICK n \in 1 .. Len(start_order) + 1 :
        /\ \A i \in 1 .. n - 1 : ~StopsAt(i)
        /\ snapshots' = StartedThese(AutoBefore(n))
  BY DEF StartAll
<1>2. /\ start_order \in Seq(Registered) /\ DOMAIN snapshots = Registered
      /\ Len(start_order) \in Nat
  BY DEF ServicesInv, ServicesTypeOK
<1> SUFFICES ASSUME NEW s \in Registered, Running(snapshots', s), ~Running(snapshots, s),
                    NEW d \in configs[s].dependencies
             PROVE  Running(snapshots', d)
  BY DEF StartsAfterDependencies
<1>3. s \in AutoBefore(n)
  BY <1>1, <1>2 DEF Running, StartedThese
<1>4. PICK j \in 1 .. n - 1 : start_order[j] = s /\ configs[s].auto_start
  BY <1>3 DEF AutoBefore
<1>5. Running(StartedThese(AutoBefore(j)), d)
  <2>1. j \in DOMAIN start_order
    BY <1>2
  <2> QED BY <1>1, <1>4, <2>1 DEF StopsAt, CanStart
<1>6. AutoBefore(j) \subseteq AutoBefore(n)
  BY <1>2 DEF AutoBefore
<1>7. d \in Registered /\ (d \in AutoBefore(j) \/ snapshots[d].state = "Running")
  BY <1>5 DEF Running, StartedThese
<1>8. snapshots[d] \in Snapshots
  BY <1>7, ServiceTypes
<1> QED BY <1>1, <1>6, <1>7, <1>8 DEF Running, StartedThese, Snapshots

(* For any services and configurations a service comes up only when all it *)
(* depends on is up, one by one (start_service, restart_service) or all    *)
(* together (start_all).                                                   *)
THEOREM DependenciesComeFirst == ServicesSpec => StartedAfterDependencies
<1>1. ASSUME ServicesInv, [ServicesNext]_managervars PROVE StartsAfterDependencies
  <2>0. /\ DOMAIN snapshots = Registered
        /\ \A s \in Registered : snapshots[s] \in Snapshots
    BY <1>1, ServiceTypes DEF ServicesInv, ServicesTypeOK
  <2>1. ASSUME NEW s \in Services, NEW config \in Configs, RegisterConfig(s, config)
        PROVE  StartsAfterDependencies
    BY <2>0, <2>1 DEF RegisterConfig, With, StartsAfterDependencies, Running
  <2>2. ASSUME NEW s \in Services, StartService(s) PROVE StartsAfterDependencies
    BY <2>0, <2>2 DEF StartService, CanStart, Started, StartsAfterDependencies, Running, Snapshots
  <2>3. ASSUME NEW s \in Services, StopService(s) PROVE StartsAfterDependencies
    BY <2>0, <2>3 DEF StopService, Stopped, StartsAfterDependencies, Running, Snapshots
  <2>4. ASSUME NEW s \in Services, RestartService(s) PROVE StartsAfterDependencies
    BY <2>0, <2>4
    DEF RestartService, CanStart, Started, Stopped, StartsAfterDependencies, Running, Snapshots
  <2>5. CASE StopAll
    BY <2>0, <2>5 DEF StopAll, StartsAfterDependencies, Running, Snapshots
  <2>6. CASE UNCHANGED managervars
    BY <2>6 DEF managervars, StartsAfterDependencies, Running
  <2> QED
    BY <1>1, <2>1, <2>2, <2>3, <2>4, <2>5, <2>6, StartAllStarts DEF ServicesNext
<1>2. ServicesInv /\ [ServicesNext]_managervars => [StartsAfterDependencies]_managervars
  BY <1>1
<1> QED
  BY InitServicesInv, NextServicesInv, <1>2, PTL
  DEF ServicesSpec, StartedAfterDependencies, StartsAfterDependencies

-----------------------------------------------------------------------------
(* The registry *)

(* The locals that belong to each step of a call *)
NamedCall(op, id, name) == [op |-> op, id |-> id, name |-> name]

LEMMA RegistryCallTypes ==
  ASSUME RegistryTypeOK, NEW t \in Threads
  PROVE  LET c == registry_call[t]
         IN /\ c \in RegistryCalls
            /\ c.op = "idle" <=> c = Idle
            /\ c.op \in {"check", "insert", "index", "get"} =>
                 /\ c.id \in ServiceIds /\ c.name \in Names
                 /\ c = NamedCall(c.op, c.id, c.name)
            /\ c.op = "unindex" => c.name \in Names
BY DEF RegistryTypeOK, RegistryCalls, Idle, NamedCall

LEMMA NamedCallType ==
  ASSUME NEW op \in {"check", "insert", "index", "get"}, NEW id \in ServiceIds, NEW name \in Names
  PROVE  /\ NamedCall(op, id, name) \in RegistryCalls
         /\ NamedCall(op, id, name).op = op /\ NamedCall(op, id, name).id = id
         /\ NamedCall(op, id, name).name = name
BY DEF RegistryCalls, NamedCall

LEMMA UnindexCallType ==
  ASSUME NEW name \in Names
  PROVE  [op |-> "unindex", name |-> name] \in RegistryCalls
BY DEF RegistryCalls

LEMMA IdleCallType == Idle \in RegistryCalls /\ Idle.op = "idle"
BY DEF RegistryCalls, Idle

(* What the invariant says when t's call is the only one *)
LEMMA BeforeStep ==
  ASSUME RegistryInv, RegistryLock, NEW t \in Threads,
         RegistryBegin(t) \/ registry_call[t].op # "idle"
  PROVE  LET c == registry_call[t]
         IN /\ \A u \in Threads \ {t} : registry_call[u] = Idle
            /\ CallAgrees(c)
            /\ \A id \in DOMAIN services :
                 (c.op = "index" /\ c.id = id)
                   \/ ( /\ services[id].name \in DOMAIN name_index
                        /\ name_index[services[id].name] = id )
            /\ \A name \in DOMAIN name_index :
                 (c.op = "unindex" /\ c.name = name)
                   \/ ( /\ name_index[name] \in DOMAIN services
                        /\ services[name_index[name]].name = name )
<1>1. \A u \in Threads \ {t} : registry_call[u] = Idle
  <2>1. RegistryTypeOK /\ \A u, v \in Threads : registry_call[u] # Idle /\ registry_call[v] # Idle => u = v
    BY DEF RegistryInv, IndexLags
  <2>2. registry_call[t].op # "idle" => registry_call[t] # Idle
    BY IdleCallType
  <2> QED BY <2>1, <2>2 DEF RegistryBegin
<1>2. \A u \in Threads : registry_call[u].op \in {"index", "unindex"} => u = t
  BY <1>1, IdleCallType
<1> QED
  BY <1>1, <1>2 DEF RegistryInv, IndexLags, Indexing, Unindexing

(* What has to be shown of a step of the only call *)
LEMMA AfterStep ==
  ASSUME registry_call \in [Threads -> RegistryCalls], NEW t \in Threads, NEW c \in RegistryCalls,
         \A u \in Threads \ {t} : registry_call[u] = Idle,
         registry_call' = [registry_call EXCEPT ![t] = c],
         c.op \in {"check", "insert"} => c.id \notin DOMAIN services',
         c.op \in {"insert", "index"} => c.name \notin DOMAIN name_index',
         c.op \in {"index", "get"} => c.id \in DOMAIN services' /\ services'[c.id].name = c.name,
         c.op = "unindex" => \A id \in DOMAIN services' : services'[id].name # c.name,
         \A id \in DOMAIN services' :
           (c.op = "index" /\ c.id = id)
             \/ ( /\ services'[id].name \in DOMAIN name_index'
                  /\ name_index'[services'[id].name] = id ),
         \A name \in DOMAIN name_index' :
           (c.op = "unindex" /\ c.name = name)
             \/ ( /\ name_index'[name] \in DOMAIN services'
                  /\ services'[name_index'[name]].name = name )
  PROVE  IndexLags'
<1>1. registry_call'[t] = c /\ \A u \in Threads \ {t} : registry_call'[u] = Idle
  OBVIOUS
<1>2. \A u \in Threads : CallAgrees(registry_call[u])'
  BY <1>1, IdleCallType DEF CallAgrees
<1>3. \A u, v \in Threads : registry_call'[u] # Idle /\ registry_call'[v] # Idle => u = v
  BY <1>1
<1>4. \A id : c.op = "index" /\ c.id = id => Indexing(id)'
  BY <1>1 DEF Indexing
<1>5. \A name : c.op = "unindex" /\ c.name = name => Unindexing(name)'
  BY <1>1 DEF Unindexing
<1> QED
  BY <1>2, <1>3, <1>4, <1>5 DEF IndexLags

(* The types of a call's step *)
LEMMA CallStepTypes ==
  ASSUME RegistryTypeOK, NEW t \in Threads, NEW c \in RegistryCalls,
         registry_call' = [registry_call EXCEPT ![t] = c],
         registry_id' \in 1 .. MaxIds + 1, registry_id <= registry_id',
         c.op \in {"check", "insert", "index"} => c.id < registry_id'
  PROVE  /\ registry_call' \in [Threads -> RegistryCalls]
         /\ \A u \in Threads :
              registry_call'[u].op \in {"check", "insert", "index"} => registry_call'[u].id < registry_id'
<1>1. registry_call \in [Threads -> RegistryCalls]
  BY DEF RegistryTypeOK
<1>2. registry_call' \in [Threads -> RegistryCalls]
  BY <1>1
<1>3. ASSUME NEW u \in Threads, registry_call'[u].op \in {"check", "insert", "index"}
      PROVE  registry_call'[u].id < registry_id'
  <2>1. CASE u = t
    BY <1>1, <1>3, <2>1
  <2>2. CASE u # t
    <3>1. registry_call'[u] = registry_call[u]
      BY <1>1, <2>2
    <3>2. registry_call[u].id < registry_id /\ registry_call[u].id \in ServiceIds
      BY <1>3, <3>1, RegistryCallTypes DEF RegistryTypeOK
    <3>3. registry_id \in Nat /\ registry_id' \in Nat
      BY RegistryAssumption DEF RegistryTypeOK
    <3>4. registry_call[u].id \in Nat
      BY <3>2 DEF ServiceIds
    <3> QED BY <3>1, <3>2, <3>3, <3>4
  <2> QED BY <2>1, <2>2
<1> QED BY <1>2, <1>3

LEMMA InitRegistryInv == RegistryInit => RegistryInv
<1> SUFFICES ASSUME RegistryInit PROVE RegistryInv
  OBVIOUS
<1>1. DOMAIN services = {} /\ DOMAIN name_index = {}
  BY DEF RegistryInit
<1>2. RegistryTypeOK
  BY <1>1, IdleCallType, RegistryAssumption DEF RegistryInit, RegistryTypeOK
<1>3. IndexLags
  BY <1>1, IdleCallType DEF RegistryInit, IndexLags, CallAgrees
<1> QED BY <1>2, <1>3 DEF RegistryInv

(* register, step by step *)
LEMMA RegisterTakesIdInv ==
  ASSUME RegistryInv, NEW t \in Threads, NEW name \in Names, RegisterTakesId(t, name)
  PROVE  RegistryInv'
<1>1. registry_id \in ServiceIds /\ registry_id \in Nat /\ RegistryTypeOK
  BY RegistryAssumption DEF RegistryInv, RegistryTypeOK, RegisterTakesId, ServiceIds
<1>2. PICK c \in RegistryCalls : c = NamedCall("check", registry_id, name)
  BY <1>1, NamedCallType
<1>3. c.op = "check" /\ c.id = registry_id /\ c.name = name
  BY <1>1, <1>2, NamedCallType
<1>4. /\ registry_call' = [registry_call EXCEPT ![t] = c]
      /\ registry_id' = registry_id + 1 /\ registry_id <= MaxIds
      /\ UNCHANGED <<services, name_index>>
      /\ RegistryBegin(t)
  BY <1>2 DEF RegisterTakesId, SetRegistryCall, NamedCall
<1>5. registry_id' \in 1 .. MaxIds + 1 /\ registry_id <= registry_id' /\ c.id < registry_id'
  BY <1>1, <1>3, <1>4, RegistryAssumption
<1>6. /\ registry_call' \in [Threads -> RegistryCalls]
      /\ \A u \in Threads :
           registry_call'[u].op \in {"check", "insert", "index"} => registry_call'[u].id < registry_id'
  BY <1>1, <1>4, <1>5, CallStepTypes
<1>7. RegistryTypeOK'
  BY <1>1, <1>4, <1>5, <1>6 DEF RegistryTypeOK
<1>8. ASSUME RegistryLock PROVE IndexLags'
  <2>1. registry_call[t] = Idle /\ registry_id \notin DOMAIN services
    BY <1>1, <1>4 DEF RegistryBegin, RegistryTypeOK
  <2>2. /\ \A u \in Threads \ {t} : registry_call[u] = Idle
        /\ \A id \in DOMAIN services :
             services[id].name \in DOMAIN name_index /\ name_index[services[id].name] = id
        /\ \A n \in DOMAIN name_index :
             name_index[n] \in DOMAIN services /\ services[name_index[n]].name = n
    BY <1>4, <1>8, <2>1, BeforeStep, IdleCallType
  <2> QED
    BY <1>1, <1>3, <1>4, <2>1, <2>2, AfterStep DEF RegistryTypeOK
<1> QED BY <1>7, <1>8, RegistryAssumption DEF RegistryInv

LEMMA RegisterChecksInv ==
  ASSUME RegistryInv, NEW t \in Threads, RegisterChecks(t)
  PROVE  RegistryInv'
<1>1. PICK old \in RegistryCalls : old = registry_call[t]
  BY RegistryCallTypes DEF RegistryInv
<1>2. /\ RegistryTypeOK /\ old.op = "check" /\ old.id \in ServiceIds /\ old.name \in Names
      /\ old = NamedCall("check", old.id, old.name)
      /\ old.id < registry_id
  BY <1>1, RegistryCallTypes DEF RegistryInv, RegistryTypeOK, RegisterChecks
<1>3. PICK c \in RegistryCalls :
        c = IF old.name \in DOMAIN name_index THEN Idle ELSE NamedCall("insert", old.id, old.name)
  BY <1>2, NamedCallType, IdleCallType
<1>4. [old EXCEPT !.op = "insert"] = NamedCall("insert", old.id, old.name)
  BY <1>2 DEF NamedCall
<1>5. /\ registry_call' = [registry_call EXCEPT ![t] = c]
      /\ UNCHANGED <<services, name_index, registry_id>>
  BY <1>1, <1>3, <1>4 DEF RegisterChecks, SetRegistryCall
<1>6. c.op = "idle" \/ (c.op = "insert" /\ c.id = old.id /\ c.name = old.name
                          /\ old.name \notin DOMAIN name_index)
  BY <1>2, <1>3, NamedCallType, IdleCallType
<1>7. registry_id' \in 1 .. MaxIds + 1 /\ registry_id <= registry_id'
  BY <1>2, <1>5, RegistryAssumption DEF RegistryTypeOK
<1>8. /\ registry_call' \in [Threads -> RegistryCalls]
      /\ \A u \in Threads :
           registry_call'[u].op \in {"check", "insert", "index"} => registry_call'[u].id < registry_id'
  BY <1>2, <1>5, <1>6, <1>7, CallStepTypes
<1>9. RegistryTypeOK'
  BY <1>2, <1>5, <1>7, <1>8 DEF RegistryTypeOK
<1>10. ASSUME RegistryLock PROVE IndexLags'
  <2>1. /\ old.id \notin DOMAIN services /\ \A u \in Threads \ {t} : registry_call[u] = Idle
        /\ \A id \in DOMAIN services :
             services[id].name \in DOMAIN name_index /\ name_index[services[id].name] = id
        /\ \A name \in DOMAIN name_index :
             name_index[name] \in DOMAIN services /\ services[name_index[name]].name = name
    BY <1>1, <1>2, <1>10, BeforeStep DEF CallAgrees
  <2> QED
    BY <1>2, <1>5, <1>6, <2>1, AfterStep DEF RegistryTypeOK
<1> QED BY <1>9, <1>10, RegistryAssumption DEF RegistryInv

LEMMA RegisterInsertsInv ==
  ASSUME RegistryInv, NEW t \in Threads, RegisterInserts(t)
  PROVE  RegistryInv'
<1>1. PICK old \in RegistryCalls : old = registry_call[t]
  BY RegistryCallTypes DEF RegistryInv
<1>2. /\ RegistryTypeOK /\ old.op = "insert" /\ old.id \in ServiceIds /\ old.name \in Names
      /\ old = NamedCall("insert", old.id, old.name)
      /\ old.id < registry_id
  BY <1>1, RegistryCallTypes DEF RegistryInv, RegistryTypeOK, RegisterInserts
<1>3. PICK c \in RegistryCalls : c = NamedCall("index", old.id, old.name)
  BY <1>2, NamedCallType
<1>4. [old EXCEPT !.op = "index"] = NamedCall("index", old.id, old.name)
  BY <1>2 DEF NamedCall
<1>5. /\ registry_call' = [registry_call EXCEPT ![t] = c]
      /\ services' = With(services, old.id, ServiceInfo(old.name))
      /\ UNCHANGED <<name_index, registry_id>>
  BY <1>1, <1>3, <1>4 DEF RegisterInserts, SetRegistryCall
<1>6. c.op = "index" /\ c.id = old.id /\ c.name = old.name
  BY <1>2, <1>3, NamedCallType
<1>7. registry_id' \in 1 .. MaxIds + 1 /\ registry_id <= registry_id' /\ c.id < registry_id'
  BY <1>2, <1>5, <1>6, RegistryAssumption DEF RegistryTypeOK
<1>8. /\ registry_call' \in [Threads -> RegistryCalls]
      /\ \A u \in Threads :
           registry_call'[u].op \in {"check", "insert", "index"} => registry_call'[u].id < registry_id'
  BY <1>2, <1>5, <1>7, CallStepTypes
<1>9. /\ DOMAIN services' = DOMAIN services \cup {old.id}
      /\ services'[old.id] = ServiceInfo(old.name)
      /\ \A id \in DOMAIN services \ {old.id} : services'[id] = services[id]
  BY <1>5 DEF With
<1>10. /\ ServiceInfo(old.name) \in [name : Names, service_type : Range(TypeOf),
                              state : ServiceStateEnum, restart_count : 0 .. MaxRestarts]
       /\ ServiceInfo(old.name).name = old.name
       /\ ServiceInfo(old.name).service_type = TypeOf[old.name]
  BY <1>2, RegistryAssumption DEF ServiceInfo, ServiceStateEnum, Range
<1>11. RegistryTypeOK'
  <2>1. DOMAIN services' \subseteq 1 .. registry_id' - 1
    BY <1>2, <1>5, <1>9 DEF RegistryTypeOK, ServiceIds
  <2>2. \A id \in DOMAIN services' :
          /\ services'[id] \in [name : Names, service_type : Range(TypeOf),
                               state : ServiceStateEnum, restart_count : 0 .. MaxRestarts]
          /\ services'[id].service_type = TypeOf[services'[id].name]
    BY <1>2, <1>9, <1>10 DEF RegistryTypeOK
  <2> QED BY <1>2, <1>5, <1>7, <1>8, <2>1, <2>2 DEF RegistryTypeOK
<1>12. ASSUME RegistryLock PROVE IndexLags'
  <2>1. /\ old.id \notin DOMAIN services /\ old.name \notin DOMAIN name_index
        /\ \A u \in Threads \ {t} : registry_call[u] = Idle
        /\ \A id \in DOMAIN services :
             services[id].name \in DOMAIN name_index /\ name_index[services[id].name] = id
        /\ \A name \in DOMAIN name_index :
             name_index[name] \in DOMAIN services /\ services[name_index[name]].name = name
    BY <1>1, <1>2, <1>12, BeforeStep DEF CallAgrees
  <2>2. c.id \in DOMAIN services' /\ services'[c.id].name = c.name
    BY <1>6, <1>9, <1>10
  <2>3. \A id \in DOMAIN services' :
          (c.op = "index" /\ c.id = id)
            \/ ( /\ services'[id].name \in DOMAIN name_index'
                 /\ name_index'[services'[id].name] = id )
    BY <1>5, <1>6, <1>9, <2>1
  <2>4. \A name \in DOMAIN name_index' :
          (c.op = "unindex" /\ c.name = name)
            \/ ( /\ name_index'[name] \in DOMAIN services'
                 /\ services'[name_index'[name]].name = name )
    BY <1>5, <1>9, <2>1
  <2>5. c.op = "index" /\ c.name \notin DOMAIN name_index'
    BY <1>5, <1>6, <2>1
  <2>6. registry_call \in [Threads -> RegistryCalls]
    BY <1>2 DEF RegistryTypeOK
  <2>7. /\ c.op \in {"check", "insert"} => c.id \notin DOMAIN services'
        /\ c.op \in {"insert", "index"} => c.name \notin DOMAIN name_index'
        /\ c.op \in {"index", "get"} => c.id \in DOMAIN services' /\ services'[c.id].name = c.name
        /\ c.op = "unindex" => \A id \in DOMAIN services' : services'[id].name # c.name
    BY <2>2, <2>5
  <2>8. registry_call' = [registry_call EXCEPT ![t] = c]
    BY <1>5
  <2>9. \A u \in Threads \ {t} : registry_call[u] = Idle
    BY <2>1
  <2>10. /\ c.op \in {"check", "insert"} => c.id \notin DOMAIN services'
         /\ c.op \in {"insert", "index"} => c.name \notin DOMAIN name_index'
    BY <2>7
  <2>11. /\ c.op \in {"index", "get"} => c.id \in DOMAIN services' /\ services'[c.id].name = c.name
         /\ c.op = "unindex" => \A id \in DOMAIN services' : services'[id].name # c.name
    BY <2>7
  <2> QED
    BY <2>3, <2>4, <2>6, <2>8, <2>9, <2>10, <2>11, AfterStep
<1> QED BY <1>11, <1>12, RegistryAssumption DEF RegistryInv

LEMMA RegisterIndexesInv ==
  ASSUME RegistryInv, NEW t \in Threads, RegisterIndexes(t)
  PROVE  RegistryInv'
<1>1. PICK old \in RegistryCalls : old = registry_call[t]
  BY RegistryCallTypes DEF RegistryInv
<1>2. /\ RegistryTypeOK /\ old.op = "index" /\ old.id \in ServiceIds /\ old.name \in Names
      /\ old.id < registry_id
  BY <1>1, RegistryCallTypes DEF RegistryInv, RegistryTypeOK, RegisterIndexes
<1>3. /\ registry_call' = [registry_call EXCEPT ![t] = Idle]
      /\ name_index' = With(name_index, old.name, old.id)
      /\ UNCHANGED <<services, registry_id>>
  BY <1>1 DEF RegisterIndexes, SetRegistryCall
<1>4. registry_id' \in 1 .. MaxIds + 1 /\ registry_id <= registry_id'
  BY <1>2, <1>3, RegistryAssumption DEF RegistryTypeOK
<1>5. /\ registry_call' \in [Threads -> RegistryCalls]
      /\ \A u \in Threads :
           registry_call'[u].op \in {"check", "insert", "index"} => registry_call'[u].id < registry_id'
  BY <1>2, <1>3, <1>4, CallStepTypes, IdleCallType
<1>6. /\ DOMAIN name_index' = DOMAIN name_index \cup {old.name}
      /\ name_index'[old.name] = old.id
      /\ \A name \in DOMAIN name_index \ {old.name} : name_index'[name] = name_index[name]
  BY <1>3 DEF With
<1>7. RegistryTypeOK'
  <2>1. old.id \in 1 .. registry_id' - 1
    BY <1>2, <1>3 DEF RegistryTypeOK, ServiceIds
  <2> QED BY <1>2, <1>3, <1>4, <1>5, <1>6, <2>1 DEF RegistryTypeOK
<1>8. ASSUME RegistryLock PROVE IndexLags'
  <2>1. /\ old.id \in DOMAIN services /\ services[old.id].name = old.name
        /\ old.name \notin DOMAIN name_index
        /\ \A u \in Threads \ {t} : registry_call[u] = Idle
        /\ \A id \in DOMAIN services :
             id = old.id
               \/ (services[id].name \in DOMAIN name_index /\ name_index[services[id].name] = id)
        /\ \A name \in DOMAIN name_index :
             name_index[name] \in DOMAIN services /\ services[name_index[name]].name = name
    BY <1>1, <1>2, <1>8, BeforeStep DEF CallAgrees
  <2>2. \A id \in DOMAIN services :
          services[id].name \in DOMAIN name_index' /\ name_index'[services[id].name] = id
    BY <1>6, <2>1
  <2>3. \A name \in DOMAIN name_index' :
          name_index'[name] \in DOMAIN services /\ services[name_index'[name]].name = name
    BY <1>6, <2>1
  <2>4. PICK c \in RegistryCalls : c = Idle
    BY IdleCallType
  <2>5. c.op = "idle"
    BY <2>4 DEF Idle
  <2>6. registry_call \in [Threads -> RegistryCalls] /\ registry_call' = [registry_call EXCEPT ![t] = c]
    BY <1>2, <1>3, <2>4 DEF RegistryTypeOK
  <2>7. \A u \in Threads \ {t} : registry_call[u] = Idle
    BY <2>1
  <2>8. \A id \in DOMAIN services' :
          (c.op = "index" /\ c.id = id)
            \/ ( /\ services'[id].name \in DOMAIN name_index'
                 /\ name_index'[services'[id].name] = id )
    BY <1>3, <2>2
  <2>9. \A name \in DOMAIN name_index' :
          (c.op = "unindex" /\ c.name = name)
            \/ ( /\ name_index'[name] \in DOMAIN services'
                 /\ services'[name_index'[name]].name = name )
    BY <1>3, <2>3
  <2>10. /\ c.op \in {"check", "insert"} => c.id \notin DOMAIN services'
         /\ c.op \in {"insert", "index"} => c.name \notin DOMAIN name_index'
    BY <2>5
  <2>11. /\ c.op \in {"index", "get"} => c.id \in DOMAIN services' /\ services'[c.id].name = c.name
         /\ c.op = "unindex" => \A id \in DOMAIN services' : services'[id].name # c.name
    BY <2>5
  <2> QED
    BY <2>6, <2>7, <2>8, <2>9, <2>10, <2>11, AfterStep
<1> QED BY <1>7, <1>8, RegistryAssumption DEF RegistryInv

(* unregister *)
LEMMA UnregisterRemovesInv ==
  ASSUME RegistryInv, NEW t \in Threads, NEW id0 \in ServiceIds, UnregisterRemoves(t, id0)
  PROVE  RegistryInv'
<1>1. RegistryTypeOK /\ id0 \in DOMAIN services /\ services[id0].name \in Names
  BY DEF RegistryInv, RegistryTypeOK, UnregisterRemoves
<1>2. PICK c \in RegistryCalls : c = [op |-> "unindex", name |-> services[id0].name]
  BY <1>1, UnindexCallType
<1>3. c.op = "unindex" /\ c.name = services[id0].name
  BY <1>2
<1>4. /\ registry_call' = [registry_call EXCEPT ![t] = c]
      /\ services' = Without(services, id0)
      /\ UNCHANGED <<name_index, registry_id>>
      /\ RegistryBegin(t)
  BY <1>2 DEF UnregisterRemoves, SetRegistryCall
<1>5. registry_id' \in 1 .. MaxIds + 1 /\ registry_id <= registry_id'
  BY <1>1, <1>4, RegistryAssumption DEF RegistryTypeOK
<1>6. /\ registry_call' \in [Threads -> RegistryCalls]
      /\ \A u \in Threads :
           registry_call'[u].op \in {"check", "insert", "index"} => registry_call'[u].id < registry_id'
  BY <1>1, <1>3, <1>4, <1>5, CallStepTypes
<1>7. /\ DOMAIN services' = DOMAIN services \ {id0}
      /\ \A id \in DOMAIN services' : services'[id] = services[id]
  BY <1>4 DEF Without, Restrict
<1>8. RegistryTypeOK'
  BY <1>1, <1>4, <1>5, <1>6, <1>7 DEF RegistryTypeOK
<1>9. ASSUME RegistryLock PROVE IndexLags'
  <2>1. registry_call[t] = Idle
    BY <1>4 DEF RegistryBegin
  <2>2. /\ \A u \in Threads \ {t} : registry_call[u] = Idle
        /\ \A id \in DOMAIN services :
             services[id].name \in DOMAIN name_index /\ name_index[services[id].name] = id
        /\ \A n \in DOMAIN name_index :
             name_index[n] \in DOMAIN services /\ services[name_index[n]].name = n
    BY <1>4, <1>9, <2>1, BeforeStep, IdleCallType
  <2>3. \A id \in DOMAIN services' : services'[id].name # c.name
    BY <1>1, <1>3, <1>7, <2>2
  <2>4. \A id \in DOMAIN services' :
          (c.op = "index" /\ c.id = id)
            \/ ( /\ services'[id].name \in DOMAIN name_index'
                 /\ name_index'[services'[id].name] = id )
    BY <1>4, <1>7, <2>2
  <2>5. \A name \in DOMAIN name_index' :
          (c.op = "unindex" /\ c.name = name)
            \/ ( /\ name_index'[name] \in DOMAIN services'
                 /\ services'[name_index'[name]].name = name )
    BY <1>3, <1>4, <1>7, <2>2
  <2>6. registry_call \in [Threads -> RegistryCalls]
    BY <1>1 DEF RegistryTypeOK
  <2>7. registry_call' = [registry_call EXCEPT ![t] = c]
    BY <1>4
  <2>8. /\ c.op \in {"check", "insert"} => c.id \notin DOMAIN services'
        /\ c.op \in {"insert", "index"} => c.name \notin DOMAIN name_index'
        /\ c.op \in {"index", "get"} => c.id \in DOMAIN services' /\ services'[c.id].name = c.name
        /\ c.op = "unindex" => \A id \in DOMAIN services' : services'[id].name # c.name
    BY <1>3, <2>3
  <2>9. \A u \in Threads \ {t} : registry_call[u] = Idle
    BY <2>2
  <2>10. /\ c.op \in {"check", "insert"} => c.id \notin DOMAIN services'
         /\ c.op \in {"insert", "index"} => c.name \notin DOMAIN name_index'
    BY <2>8
  <2>11. /\ c.op \in {"index", "get"} => c.id \in DOMAIN services' /\ services'[c.id].name = c.name
         /\ c.op = "unindex" => \A id \in DOMAIN services' : services'[id].name # c.name
    BY <2>8
  <2> QED
    BY <2>4, <2>5, <2>6, <2>7, <2>9, <2>10, <2>11, AfterStep
<1> QED BY <1>8, <1>9, RegistryAssumption DEF RegistryInv

LEMMA UnregisterUnindexesInv ==
  ASSUME RegistryInv, NEW t \in Threads, UnregisterUnindexes(t)
  PROVE  RegistryInv'
<1>1. PICK old \in RegistryCalls : old = registry_call[t]
  BY RegistryCallTypes DEF RegistryInv
<1>2. RegistryTypeOK /\ old.op = "unindex" /\ old.name \in Names
  BY <1>1, RegistryCallTypes DEF RegistryInv, UnregisterUnindexes
<1>3. /\ registry_call' = [registry_call EXCEPT ![t] = Idle]
      /\ name_index' = Without(name_index, old.name)
      /\ UNCHANGED <<services, registry_id>>
  BY <1>1 DEF UnregisterUnindexes, SetRegistryCall
<1>4. registry_id' \in 1 .. MaxIds + 1 /\ registry_id <= registry_id'
  BY <1>2, <1>3, RegistryAssumption DEF RegistryTypeOK
<1>5. /\ registry_call' \in [Threads -> RegistryCalls]
      /\ \A u \in Threads :
           registry_call'[u].op \in {"check", "insert", "index"} => registry_call'[u].id < registry_id'
  BY <1>2, <1>3, <1>4, CallStepTypes, IdleCallType
<1>6. /\ DOMAIN name_index' = DOMAIN name_index \ {old.name}
      /\ \A name \in DOMAIN name_index' : name_index'[name] = name_index[name]
  BY <1>3 DEF Without, Restrict
<1>7. RegistryTypeOK'
  BY <1>2, <1>3, <1>4, <1>5, <1>6 DEF RegistryTypeOK
<1>8. ASSUME RegistryLock PROVE IndexLags'
  <2>1. /\ \A id \in DOMAIN services : services[id].name # old.name
        /\ \A u \in Threads \ {t} : registry_call[u] = Idle
        /\ \A id \in DOMAIN services :
             services[id].name \in DOMAIN name_index /\ name_index[services[id].name] = id
        /\ \A name \in DOMAIN name_index : name = old.name
             \/ (name_index[name] \in DOMAIN services /\ services[name_index[name]].name = name)
    BY <1>1, <1>2, <1>8, BeforeStep DEF CallAgrees
  <2>2. \A id \in DOMAIN services :
          services[id].name \in DOMAIN name_index' /\ name_index'[services[id].name] = id
    BY <1>6, <2>1
  <2>3. \A name \in DOMAIN name_index' :
          name_index'[name] \in DOMAIN services /\ services[name_index'[name]].name = name
    BY <1>6, <2>1
  <2>4. registry_call \in [Threads -> RegistryCalls]
    BY <1>2 DEF RegistryTypeOK
  <2> QED
    BY <1>3, <2>1, <2>2, <2>3, <2>4, AfterStep, IdleCallType
<1> QED BY <1>7, <1>8, RegistryAssumption DEF RegistryInv

(* find_by_name *)
LEMMA FindLooksUpInv ==
  ASSUME RegistryInv, NEW t \in Threads, NEW name \in Names, FindLooksUp(t, name)
  PROVE  RegistryInv'
<1>1. RegistryTypeOK /\ name \in DOMAIN name_index /\ name_index[name] \in ServiceIds
  BY RegistryAssumption DEF RegistryInv, RegistryTypeOK, FindLooksUp, ServiceIds
<1>2. PICK c \in RegistryCalls : c = NamedCall("get", name_index[name], name)
  BY <1>1, NamedCallType
<1>3. c.op = "get" /\ c.id = name_index[name] /\ c.name = name
  BY <1>1, <1>2, NamedCallType
<1>4. /\ registry_call' = [registry_call EXCEPT ![t] = c]
      /\ UNCHANGED <<services, name_index, registry_id>>
      /\ RegistryBegin(t)
  BY <1>2 DEF FindLooksUp, SetRegistryCall, NamedCall
<1>5. registry_id' \in 1 .. MaxIds + 1 /\ registry_id <= registry_id'
  BY <1>1, <1>4, RegistryAssumption DEF RegistryTypeOK
<1>6. /\ registry_call' \in [Threads -> RegistryCalls]
      /\ \A u \in Threads :
           registry_call'[u].op \in {"check", "insert", "index"} => registry_call'[u].id < registry_id'
  BY <1>1, <1>3, <1>4, <1>5, CallStepTypes
<1>7. RegistryTypeOK'
  BY <1>1, <1>4, <1>5, <1>6 DEF RegistryTypeOK
<1>8. ASSUME RegistryLock PROVE IndexLags'
  <2>1. registry_call[t] = Idle
    BY <1>4 DEF RegistryBegin
  <2>2. /\ \A u \in Threads \ {t} : registry_call[u] = Idle
        /\ \A id \in DOMAIN services :
             services[id].name \in DOMAIN name_index /\ name_index[services[id].name] = id
        /\ \A n \in DOMAIN name_index :
             name_index[n] \in DOMAIN services /\ services[name_index[n]].name = n
    BY <1>4, <1>8, <2>1, BeforeStep, IdleCallType
  <2>3. c.id \in DOMAIN services' /\ services'[c.id].name = c.name
    BY <1>1, <1>3, <1>4, <2>2
  <2> QED
    BY <1>1, <1>3, <1>4, <2>2, <2>3, AfterStep DEF RegistryTypeOK
<1> QED BY <1>7, <1>8, RegistryAssumption DEF RegistryInv

(* An operation that leaves the index and the names in the table alone *)
LEMMA NamesKeptInv ==
  ASSUME RegistryInv, NEW t \in Threads, RegistryBegin(t) \/ registry_call[t].op = "get",
         registry_call' = [registry_call EXCEPT ![t] = Idle],
         UNCHANGED <<name_index, registry_id>>,
         DOMAIN services' = DOMAIN services,
         \A id \in DOMAIN services :
           /\ services'[id] \in [name : Names, service_type : Range(TypeOf),
                                state : ServiceStateEnum, restart_count : 0 .. MaxRestarts]
           /\ services'[id].name = services[id].name
           /\ services'[id].service_type = services[id].service_type
  PROVE  RegistryInv'
<1>1. RegistryTypeOK
  BY DEF RegistryInv
<1>2. registry_id' \in 1 .. MaxIds + 1 /\ registry_id <= registry_id'
  BY <1>1, RegistryAssumption DEF RegistryTypeOK
<1>3. /\ registry_call' \in [Threads -> RegistryCalls]
      /\ \A u \in Threads :
           registry_call'[u].op \in {"check", "insert", "index"} => registry_call'[u].id < registry_id'
  BY <1>1, <1>2, CallStepTypes, IdleCallType
<1>4. RegistryTypeOK'
  BY <1>1, <1>2, <1>3 DEF RegistryTypeOK
<1>5. ASSUME RegistryLock PROVE IndexLags'
  <2>1. registry_call[t].op \in {"idle", "get"}
    BY IdleCallType DEF RegistryBegin
  <2>2. /\ \A u \in Threads \ {t} : registry_call[u] = Idle
        /\ \A id \in DOMAIN services :
             services[id].name \in DOMAIN name_index /\ name_index[services[id].name] = id
        /\ \A n \in DOMAIN name_index :
             name_index[n] \in DOMAIN services /\ services[name_index[n]].name = n
    BY <1>5, <2>1, BeforeStep
  <2>3. /\ \A id \in DOMAIN services' :
             services'[id].name \in DOMAIN name_index' /\ name_index'[services'[id].name] = id
        /\ \A n \in DOMAIN name_index' :
             name_index'[n] \in DOMAIN services' /\ services'[name_index'[n]].name = n
    BY <2>2
  <2>4. registry_call \in [Threads -> RegistryCalls]
    BY <1>1 DEF RegistryTypeOK
  <2> QED
    BY <2>2, <2>3, <2>4, AfterStep, IdleCallType
<1> QED BY <1>4, <1>5, RegistryAssumption DEF RegistryInv

LEMMA NextRegistryInv == RegistryInv /\ [RegistryNext]_registryvars => RegistryInv'
<1> SUFFICES ASSUME RegistryInv, [RegistryNext]_registryvars PROVE RegistryInv'
  OBVIOUS
<1>1. ASSUME NEW t \in Threads, FindGets(t) PROVE RegistryInv'
  BY <1>1, NamesKeptInv DEF FindGets, SetRegistryCall, RegistryInv, RegistryTypeOK
<1>2. ASSUME NEW t \in Threads, RegistryBegin(t), UNCHANGED registry_call
      PROVE  registry_call' = [registry_call EXCEPT ![t] = Idle]
  BY <1>2 DEF RegistryInv, RegistryTypeOK, RegistryBegin
<1>3. ASSUME NEW t \in Threads, NEW id \in ServiceIds, NEW state \in States, UpdateState(t, id, state)
      PROVE  RegistryInv'
  <2>1. /\ RegistryBegin(t) /\ id \in DOMAIN services
        /\ services' = [services EXCEPT ![id].state = state]
        /\ UNCHANGED <<name_index, registry_id, registry_call>>
    BY <1>3 DEF UpdateState
  <2>2. state \in ServiceStateEnum
    BY RegistryAssumption
  <2> QED BY <1>2, <2>1, <2>2, NamesKeptInv DEF RegistryInv, RegistryTypeOK
<1>4. ASSUME NEW t \in Threads, NEW id \in ServiceIds, IncrementRestart(t, id)
      PROVE  RegistryInv'
  <2>1. /\ RegistryBegin(t) /\ id \in DOMAIN services
        /\ services[id].restart_count < MaxRestarts
        /\ services' = [services EXCEPT ![id].restart_count = @ + 1]
        /\ UNCHANGED <<name_index, registry_id, registry_call>>
    BY <1>4 DEF IncrementRestart
  <2>2. services[id].restart_count + 1 \in 0 .. MaxRestarts
    BY <2>1, RegistryAssumption DEF RegistryInv, RegistryTypeOK
  <2> QED BY <1>2, <2>1, <2>2, NamesKeptInv DEF RegistryInv, RegistryTypeOK
<1>5. CASE UNCHANGED registryvars
  BY <1>5 DEF registryvars, RegistryInv, RegistryTypeOK, IndexLags, Indexing, Unindexing, CallAgrees
<1> QED
  BY <1>1, <1>3, <1>4, <1>5, RegisterTakesIdInv, RegisterChecksInv, RegisterInsertsInv,
     RegisterIndexesInv, UnregisterRemovesInv, UnregisterUnindexesInv, FindLooksUpInv
  DEF RegistryNext

(* As many elements as there are values, if they are all different *)
LEMMA SameCardinality ==
  ASSUME NEW S, IsFiniteSet(S), NEW T, NEW f \in [S -> T],
         \A x, y \in S : f[x] = f[y] => x = y,
         \A v \in T : \E x \in S : f[x] = v
  PROVE  Cardinality(T) = Cardinality(S)
<1>1. f \in Bijection(S, T)
  BY DEF Bijection, Injection, Surjection, IsInjective
<1> QED BY <1>1, FS_Bijection DEF ExistsBijection

(* For any number of callers, names and ids, behind the global lock every  *)
(* service is found by its name between calls and nothing else is          *)
(* (register, unregister), and a lookup finds in the table the service     *)
(* that it has read of in the index (find_by_name).                        *)
THEOREM NamesFindServices ==
  ASSUME RegistryLock
  PROVE  RegistrySpec => []IndexInverse
<1>1. ASSUME RegistryInv PROVE IndexInverse
  <2>1. RegistryTypeOK /\ IndexLags
    BY <1>1 DEF RegistryInv
  <2>2. ASSUME NEW t \in Threads, registry_call[t].op = "get"
        PROVE  /\ registry_call[t].id \in DOMAIN services
               /\ services[registry_call[t].id].name = registry_call[t].name
    BY <2>1, <2>2 DEF IndexLags, CallAgrees
  <2>3. ASSUME RegistryAtRest
        PROVE  /\ \A id \in DOMAIN services :
                    services[id].name \in DOMAIN name_index /\ name_index[services[id].name] = id
               /\ \A name \in DOMAIN name_index :
                    name_index[name] \in DOMAIN services /\ services[name_index[name]].name = name
    BY <2>1, <2>3, IdleCallType DEF RegistryAtRest, IndexLags, Indexing, Unindexing
  <2>4. IsFiniteSet(DOMAIN services)
    <3>1. IsFiniteSet(1 .. registry_id - 1)
      BY <2>1, FS_Interval, RegistryAssumption DEF RegistryTypeOK
    <3> QED BY <2>1, <3>1, FS_Subset DEF RegistryTypeOK
  <2>5. RunningCount <= TotalCount
    <3>1. {id \in DOMAIN services : services[id].state = "Running"} \in SUBSET DOMAIN services
      OBVIOUS
    <3> QED BY <2>4, <3>1, FS_Subset DEF RunningCount, TotalCount
  <2>6. ASSUME RegistryAtRest PROVE TotalCount = Cardinality(DOMAIN name_index)
    <3> DEFINE f == [id \in DOMAIN services |-> services[id].name]
    <3>1. f \in [DOMAIN services -> DOMAIN name_index]
      BY <2>3, <2>6
    <3>2. \A x, y \in DOMAIN services : f[x] = f[y] => x = y
      BY <2>3, <2>6
    <3>3. \A name \in DOMAIN name_index : \E id \in DOMAIN services : f[id] = name
      BY <2>3, <2>6
    <3> HIDE DEF f
    <3> QED BY <2>4, <3>1, <3>2, <3>3, SameCardinality DEF TotalCount
  <2>7. ASSUME RegistryAtRest, NEW type \in Range(TypeOf)
        PROVE  Cardinality(FindByType(type))
                 = Cardinality({n \in DOMAIN name_index : TypeOf[n] = type})
    <3> DEFINE S == FindByType(type)
               T == {n \in DOMAIN name_index : TypeOf[n] = type}
               f == [id \in S |-> services[id].name]
    <3>0. S \subseteq DOMAIN services /\ \A id \in DOMAIN services :
                                            id \in S <=> TypeOf[services[id].name] = type
      BY <2>1 DEF FindByType, RegistryTypeOK
    <3>1. f \in [S -> T]
      BY <2>3, <2>7, <3>0
    <3>2. \A x, y \in S : f[x] = f[y] => x = y
      BY <2>3, <2>7, <3>0
    <3>3. \A name \in T : \E id \in S : f[id] = name
      BY <2>3, <2>7, <3>0
    <3>4. IsFiniteSet(S)
      BY <2>4, <3>0, FS_Subset
    <3> HIDE DEF f, S, T
    <3>5. Cardinality(T) = Cardinality(S)
      BY <3>1, <3>2, <3>3, <3>4, SameCardinality
    <3> QED BY <3>5 DEF S, T
  <2> QED BY <2>2, <2>3, <2>5, <2>6, <2>7 DEF IndexInverse
<1> QED BY InitRegistryInv, NextRegistryInv, <1>1, PTL DEF RegistrySpec

-----------------------------------------------------------------------------
(* Physical frames *)

(* A frame that allocate_frame takes is the lowest that is free: the hint  *)
(* never passes a free frame, so the search that wraps around, if it takes *)
(* place at all, has nothing to find.                                      *)
LEMMA NothingBehind ==
  ASSUME FramesTypeOK, HintBelowFree
  PROVE  /\ FreeBehind = {}
         /\ Candidates = FreeAhead
         /\ FreeAhead = Usable \ allocated
BY FrameCountAssumption DEF FramesTypeOK, HintBelowFree, FreeBehind, FreeAhead, Candidates, Usable

LEMMA UsableNat == Usable \subseteq Nat
BY FrameCountAssumption DEF Usable

LEMMA InitFramesInv == FramesInit => FramesInv
BY UsableNat DEF FramesInit, FramesInv, FramesTypeOK, HintBelowFree, FailsOnlyWhenFull, Pending, None

LEMMA NextFramesInv == FramesInv /\ [FramesNext]_framevars => FramesInv'
<1> SUFFICES ASSUME FramesInv, [FramesNext]_framevars PROVE FramesInv'
  OBVIOUS
<1> USE DEF FramesInv
<1>1. CASE Allocate
  <2>1. PICK i \in FreeAhead :
          /\ IsLeast(i, FreeAhead)
          /\ allocated' = allocated \cup {i}
          /\ next_free' = i + 1
          /\ result' = i
    BY <1>1, NothingBehind DEF Allocate, After
  <2>2. i \in Usable /\ i \in Nat
    BY <2>1, UsableNat DEF FreeAhead
  <2>3. FramesTypeOK'
    BY <2>1, <2>2 DEF FramesTypeOK
  <2>4. HintBelowFree'
    <3> SUFFICES ASSUME NEW j \in Usable, j < i + 1, j # i PROVE j \in allocated
      BY <2>1, <2>2 DEF HintBelowFree
    <3>1. j \in Nat /\ ~(i <= j)
      BY <2>2, UsableNat
    <3>2. j \notin FreeAhead
      BY <2>1, <3>1 DEF IsLeast
    <3> QED BY <3>2, NothingBehind
  <2>5. FailsOnlyWhenFull'
    BY <2>1, <2>2 DEF FailsOnlyWhenFull, None
  <2> QED BY <2>3, <2>4, <2>5
<1>2. CASE AllocateFails
  <2>1. Usable \subseteq allocated
    BY <1>2, NothingBehind DEF AllocateFails
  <2>2. FramesTypeOK' /\ HintBelowFree' /\ FailsOnlyWhenFull'
    BY <1>2, <2>1 DEF AllocateFails, FramesTypeOK, HintBelowFree, FailsOnlyWhenFull
  <2> QED BY <2>2
<1>3. ASSUME NEW i \in Usable, Deallocate(i) PROVE FramesInv'
  <2>1. i \in Nat
    BY UsableNat
  <2>2. FramesTypeOK'
    BY <1>3, <2>1 DEF Deallocate, FramesTypeOK
  <2>3. HintBelowFree'
    BY <1>3, <2>1, UsableNat DEF Deallocate, FramesTypeOK, HintBelowFree
  <2>4. FailsOnlyWhenFull'
    BY <1>3 DEF Deallocate, FailsOnlyWhenFull, None, Pending
  <2> QED BY <2>2, <2>3, <2>4
<1>4. CASE UNCHANGED framevars
  BY <1>4 DEF framevars, FramesTypeOK, HintBelowFree, FailsOnlyWhenFull, Usable
<1> QED BY <1>1, <1>2, <1>3, <1>4 DEF FramesNext

(* allocate_frame returns None only when every frame that has a bit is     *)
(* taken, although it gives up at the first frame without one and, with    *)
(* fewer bits than frames, never searches from the beginning.              *)
THEOREM NeverFailsEarly == FramesSpec => []FailsOnlyWhenFull
<1>1. FramesInv => FailsOnlyWhenFull
  BY DEF FramesInv
<1> QED BY InitFramesInv, NextFramesInv, <1>1, PTL DEF FramesSpec

(* No frame is handed out that is already in use: each step either leaves  *)
(* the frames in use alone, gives one back, or takes the lowest free one.  *)
THEOREM TakesLowestFree ==
  FramesSpec => [][Allocate => /\ result' \in Usable \ allocated
                         /\ \A j \in Usable \ allocated : result' <= j]_framevars
<1>1. FramesInv /\ Allocate => /\ result' \in Usable \ allocated
                          /\ \A j \in Usable \ allocated : result' <= j
  <2> SUFFICES ASSUME FramesInv, Allocate
               PROVE  /\ result' \in Usable \ allocated
                      /\ \A j \in Usable \ allocated : result' <= j
    OBVIOUS
  <2>1. PICK i \in Candidates : IsLeast(i, Candidates) /\ result' = i
    BY DEF Allocate
  <2>2. Candidates = Usable \ allocated
    BY NothingBehind DEF FramesInv
  <2> QED BY <2>1, <2>2 DEF IsLeast
<1> QED BY InitFramesInv, NextFramesInv, <1>1, PTL DEF FramesSpec

-----------------------------------------------------------------------------
(* The heap of brk *)

HeapRange == [top : 0 .. MaxBrk, start : 0 .. MaxBrk, end : 0 .. MaxBrk + HeapMax]

LoadedCall(pc, new, current, start) ==
  [pc |-> pc, new |-> new, current |-> current, start |-> start]

LEMMA BrkBounds == MaxBrk \in Nat /\ HeapMax \in Nat
BY PosixAssumption

LEMMA RangeInt == \A x : x \in 0 .. MaxBrk + HeapMax => x \in Int
OBVIOUS

LEMMA UpTo == \A i, j, k \in Int : i <= j /\ j <= k => i <= k
OBVIOUS

LEMMA NoLess == \A i \in Int : i <= i
OBVIOUS

LEMMA NewInt == \A x : x \in 1 .. MaxBrk => x \in Int
OBVIOUS

LEMMA StartInt == \A x : x \in 0 .. MaxBrk => x \in Int
OBVIOUS

LEMMA BrkCallTypes ==
  ASSUME HeapTypeOK, NEW t \in Callers
  PROVE  LET c == brk[t]
         IN /\ c \in BrkCalls
            /\ c.pc = "start" => c.new \in 1 .. MaxBrk /\ c.current \in 0 .. MaxBrk
            /\ c.pc \in {"end", "store start", "store end", "store top"} =>
                 /\ c.new \in 1 .. MaxBrk /\ c.current \in 0 .. MaxBrk /\ c.start \in 0 .. MaxBrk
                 /\ c = LoadedCall(c.pc, c.new, c.current, c.start)
<1> DEFINE c == brk[t]
<1>1. c \in BrkCalls
  BY DEF HeapTypeOK
<1>2. CASE c = BrkIdle
  BY <1>1, <1>2 DEF BrkIdle
<1>3. CASE c \in [pc : {"start"}, new : 1 .. MaxBrk, current : 0 .. MaxBrk]
  BY <1>1, <1>3
<1>4. CASE c \in [pc : {"end", "store start", "store end", "store top"},
                 new : 1 .. MaxBrk, current : 0 .. MaxBrk, start : 0 .. MaxBrk]
  <2>1. c = LoadedCall(c.pc, c.new, c.current, c.start)
    BY <1>4 DEF LoadedCall
  <2>2. c.pc # "start" /\ c.new \in 1 .. MaxBrk /\ c.current \in 0 .. MaxBrk /\ c.start \in 0 .. MaxBrk
    BY <1>4
  <2> HIDE DEF c
  <2> QED BY <1>1, <2>1, <2>2 DEF c
<1> HIDE DEF c
<1>5. c \in BrkCalls => \/ c = BrkIdle
                       \/ c \in [pc : {"start"}, new : 1 .. MaxBrk, current : 0 .. MaxBrk]
                       \/ c \in [pc : {"end", "store start", "store end", "store top"},
                                 new : 1 .. MaxBrk, current : 0 .. MaxBrk, start : 0 .. MaxBrk]
  BY DEF BrkCalls
<1> QED BY <1>1, <1>2, <1>3, <1>4, <1>5 DEF c

LEMMA LoadedCallType ==
  ASSUME NEW pc \in {"end", "store start", "store end", "store top"},
         NEW new \in 1 .. MaxBrk, NEW current \in 0 .. MaxBrk, NEW start \in 0 .. MaxBrk
  PROVE  LET c == LoadedCall(pc, new, current, start)
         IN c \in BrkCalls /\ c.pc = pc /\ c.new = new /\ c.start = start
BY DEF LoadedCall, BrkCalls

LEMMA IdleBrkType == BrkIdle \in BrkCalls /\ BrkIdle.pc = "idle"
BY DEF BrkIdle, BrkCalls

(* A step of t, which goes on with the locals c *)
LEMMA BrkStepInv ==
  ASSUME HeapInv, NEW t \in Callers, NEW c \in BrkCalls, brk' = [brk EXCEPT ![t] = c],
         heap' \in HeapRange, DOMAIN seen' = DOMAIN seen,
         seen'.first \subseteq Callers, seen'.raced \in BOOLEAN, seen.raced => seen'.raced,
         ~seen'.raced /\ RangeSetOnce =>
           /\ \A u, v \in seen'.first : u = v
           /\ heap'.start = 0 => heap'.top = 0 /\ heap'.end = 0
           /\ heap'.top # 0 => heap'.start <= heap'.top /\ heap'.top <= heap'.end
           /\ (c.pc = "store start" \/ (c.pc = "end" /\ c.start = 0)) =>
                t \in seen'.first /\ heap'.start = 0
           /\ c.pc = "store end" => t \in seen'.first /\ heap'.start = c.new /\ heap'.end = 0
           /\ c.pc = "end" /\ c.start # 0 => c.start = heap'.start
           /\ c.pc = "store top" =>
                heap'.start # 0 /\ heap'.start <= c.new /\ c.new <= heap'.end
           /\ seen.first \subseteq seen'.first
           /\ \A u \in Callers \ {t} :
                /\ FoundNoHeap(u) => heap'.start = heap.start
                /\ At(u, "store end") => heap'.start = heap.start /\ heap'.end = heap.end
                /\ At(u, "end") /\ brk[u].start # 0 => heap'.start = heap.start
                /\ At(u, "store top") => /\ heap'.start = heap.start
                                        /\ heap.end <= heap'.end
  PROVE  HeapInv'
<1>1. /\ brk' \in [Callers -> BrkCalls] /\ brk'[t] = c
      /\ \A u \in Callers \ {t} : brk'[u] = brk[u]
  BY DEF HeapInv, HeapTypeOK
<1>2. HeapTypeOK'
  BY <1>1 DEF HeapInv, HeapTypeOK, HeapRange
<1>3. ASSUME ~seen'.raced PROVE RangeSetOnce'
  <2>1. RangeSetOnce
    BY <1>3 DEF HeapInv, HeapTypeOK
  <2>2. KnowsHeap(t)'
    BY <1>1, <1>3, <2>1 DEF KnowsHeap, FoundNoHeap, At, InRange
  <2>3. ASSUME NEW u \in Callers \ {t} PROVE KnowsHeap(u)'
    <3>1. KnowsHeap(u) /\ brk'[u] = brk[u]
      BY <1>1, <2>1 DEF RangeSetOnce
    <3>2. /\ FoundNoHeap(u)' => FoundNoHeap(u)
          /\ \A pc : At(u, pc)' <=> At(u, pc)
      BY <3>1 DEF FoundNoHeap, At
    <3>3. /\ seen.first \subseteq seen'.first
          /\ FoundNoHeap(u) => heap'.start = heap.start
          /\ At(u, "store end") => heap'.start = heap.start /\ heap'.end = heap.end
          /\ At(u, "end") /\ brk[u].start # 0 => heap'.start = heap.start
          /\ At(u, "store top") => /\ heap'.start = heap.start
                                  /\ heap.end <= heap'.end
      BY <1>3, <2>1
    <3>4. (FoundNoHeap(u) => u \in seen.first /\ heap.start = 0)'
      BY <3>1, <3>2, <3>3 DEF KnowsHeap
    <3>5. (At(u, "store end") => u \in seen.first /\ heap.start = brk[u].new /\ heap.end = 0)'
      BY <3>1, <3>2, <3>3 DEF KnowsHeap
    <3>6. (At(u, "end") /\ brk[u].start # 0 => brk[u].start = heap.start)'
      BY <3>1, <3>2, <3>3 DEF KnowsHeap
    <3>7. (At(u, "store top") => heap.start # 0 /\ InRange(brk[u].new, heap.start, heap.end))'
      <4> SUFFICES ASSUME At(u, "store top")
                   PROVE  heap'.start # 0 /\ InRange(brk[u].new, heap'.start, heap'.end)
        BY <3>1, <3>2
      <4>1. heap.end \in 0 .. MaxBrk + HeapMax /\ heap'.end \in 0 .. MaxBrk + HeapMax
        BY DEF HeapInv, HeapTypeOK, HeapRange
      <4>2. heap.end \in Int /\ heap'.end \in Int
        BY <4>1, RangeInt
      <4>3. brk[u].new \in 1 .. MaxBrk
        BY BrkCallTypes DEF HeapInv, At
      <4>4. brk[u].new \in Int
        BY <4>3, NewInt
      <4>5. heap.start # 0 /\ InRange(brk[u].new, heap.start, heap.end)
        BY <3>1 DEF KnowsHeap
      <4>6. heap'.start = heap.start /\ heap.end <= heap'.end
        BY <3>3
      <4>7. heap'.start # 0
        BY <4>5, <4>6
      <4>8. brk[u].new >= heap'.start /\ brk[u].new <= heap.end
        BY <4>5, <4>6 DEF InRange
      <4>9. brk[u].new <= heap'.end
        BY <4>2, <4>4, <4>6, <4>8, UpTo
      <4> QED BY <4>7, <4>8, <4>9 DEF InRange
    <3> QED BY <3>4, <3>5, <3>6, <3>7 DEF KnowsHeap
  <2> QED BY <1>3, <2>1, <2>2, <2>3 DEF RangeSetOnce
<1> QED BY <1>2, <1>3 DEF HeapInv

LEMMA InitHeapInv == PosixInit => HeapInv
<1> SUFFICES ASSUME PosixInit PROVE HeapInv
  OBVIOUS
<1>1. HeapTypeOK
  BY BrkBounds, IdleBrkType DEF PosixInit, HeapTypeOK
<1>2. RangeSetOnce
  BY IdleBrkType DEF PosixInit, RangeSetOnce, KnowsHeap, FoundNoHeap, At
<1> QED BY <1>1, <1>2 DEF HeapInv

(* The calls that have nothing to do with the heap *)
LEMMA HeapAlone ==
  ASSUME HeapInv, UNCHANGED <<heap, brk>>, DOMAIN seen' = DOMAIN seen,
         seen'.first = seen.first, seen'.raced = seen.raced
  PROVE  HeapInv'
<1>1. HeapTypeOK'
  BY DEF HeapInv, HeapTypeOK
<1>2. ASSUME NEW u \in Callers PROVE KnowsHeap(u)' <=> KnowsHeap(u)
  BY DEF KnowsHeap, FoundNoHeap, At
<1>3. RangeSetOnce => RangeSetOnce'
  BY <1>2 DEF RangeSetOnce
<1> QED BY <1>1, <1>3 DEF HeapInv

(* A step of t that changes nothing but its locals *)
LEMMA LocalStepInv ==
  ASSUME HeapInv, NEW t \in Callers, NEW c \in BrkCalls, brk' = [brk EXCEPT ![t] = c],
         UNCHANGED <<heap, seen>>,
         RangeSetOnce =>
           /\ (c.pc = "store start" \/ (c.pc = "end" /\ c.start = 0)) =>
                t \in seen.first /\ heap.start = 0
           /\ c.pc = "store end" => t \in seen.first /\ heap.start = c.new /\ heap.end = 0
           /\ c.pc = "end" /\ c.start # 0 => c.start = heap.start
           /\ c.pc = "store top" => heap.start # 0 /\ heap.start <= c.new /\ c.new <= heap.end
  PROVE  HeapInv'
<1>1. heap' \in HeapRange /\ heap' = heap /\ seen' = seen
  BY DEF HeapInv, HeapTypeOK, HeapRange
<1>2. DOMAIN seen' = DOMAIN seen
  BY <1>1
<1>3. seen'.first \subseteq Callers /\ seen'.raced \in BOOLEAN /\ (seen.raced => seen'.raced)
  BY <1>1 DEF HeapInv, HeapTypeOK
<1>4. heap.end \in 0 .. MaxBrk + HeapMax
  BY <1>1 DEF HeapRange
<1>5. heap.end <= heap'.end
  <2>1. heap.end \in Int
    BY <1>4, RangeInt
  <2>2. heap.end <= heap.end
    BY <2>1, NoLess
  <2> QED BY <1>1, <2>2
<1>6. ASSUME ~seen'.raced, RangeSetOnce
      PROVE  /\ \A u, v \in seen'.first : u = v
             /\ heap'.start = 0 => heap'.top = 0 /\ heap'.end = 0
             /\ heap'.top # 0 => heap'.start <= heap'.top /\ heap'.top <= heap'.end
             /\ (c.pc = "store start" \/ (c.pc = "end" /\ c.start = 0)) =>
                  t \in seen'.first /\ heap'.start = 0
             /\ c.pc = "store end" => t \in seen'.first /\ heap'.start = c.new /\ heap'.end = 0
             /\ c.pc = "end" /\ c.start # 0 => c.start = heap'.start
             /\ c.pc = "store top" =>
                  heap'.start # 0 /\ heap'.start <= c.new /\ c.new <= heap'.end
             /\ seen.first \subseteq seen'.first
             /\ \A u \in Callers \ {t} :
                  /\ FoundNoHeap(u) => heap'.start = heap.start
                  /\ At(u, "store end") => heap'.start = heap.start /\ heap'.end = heap.end
                  /\ At(u, "end") /\ brk[u].start # 0 => heap'.start = heap.start
                  /\ At(u, "store top") => /\ heap'.start = heap.start
                                          /\ heap.end <= heap'.end
  BY <1>1, <1>5, <1>6 DEF RangeSetOnce
<1> QED BY <1>1, <1>2, <1>3, <1>6, BrkStepInv

LEMMA BrkCallInv ==
  ASSUME HeapInv, NEW t \in Callers, NEW new \in 0 .. MaxBrk, BrkCall(t, new)
  PROVE  HeapInv'
<1>1. CASE new = 0
  BY <1>1, HeapAlone DEF BrkCall
<1>2. CASE new # 0
  <2> DEFINE c == [pc |-> "start", new |-> new, current |-> heap.top]
  <2>1. heap.top \in 0 .. MaxBrk /\ new \in 1 .. MaxBrk
    BY <1>2 DEF HeapInv, HeapTypeOK
  <2>2. c \in BrkCalls /\ c.pc = "start"
    BY <2>1 DEF BrkCalls
  <2>3. brk' = [brk EXCEPT ![t] = c] /\ UNCHANGED <<heap, seen>>
    BY <1>2 DEF BrkCall, Goto
  <2> HIDE DEF c
  <2> QED BY <2>2, <2>3, LocalStepInv
<1> QED BY <1>1, <1>2

LEMMA BrkLoadEndInv ==
  ASSUME HeapInv, NEW t \in Callers, BrkLoadEnd(t)
  PROVE  HeapInv'
<1> DEFINE To(pc) == LoadedCall(pc, brk[t].new, brk[t].current, brk[t].start)
<1>1. /\ brk[t].new \in 1 .. MaxBrk /\ brk[t].current \in 0 .. MaxBrk /\ brk[t].start \in 0 .. MaxBrk
      /\ brk[t] = To(brk[t].pc)
  BY BrkCallTypes DEF HeapInv, BrkLoadEnd, At
<1>2. \A pc : [brk[t] EXCEPT !.pc = pc] = To(pc)
  BY <1>1 DEF LoadedCall
<1>3. \A pc \in {"end", "store start", "store end", "store top"} :
        To(pc) \in BrkCalls /\ To(pc).pc = pc /\ To(pc).new = brk[t].new /\ To(pc).start = brk[t].start
  <2> TAKE pc \in {"end", "store start", "store end", "store top"}
  <2>1. To(pc) \in BrkCalls
    BY <1>1, LoadedCallType
  <2>2. To(pc).pc = pc /\ To(pc).new = brk[t].new /\ To(pc).start = brk[t].start
    BY DEF LoadedCall
  <2> QED BY <2>1, <2>2
<1>4. UNCHANGED <<heap, seen>> /\ At(t, "end")
  BY DEF BrkLoadEnd
<1>5. RangeSetOnce => KnowsHeap(t)
  BY DEF RangeSetOnce
<1> HIDE DEF To
<1>6. CASE brk[t].start = 0
  <2> DEFINE c == To("store start")
  <2>1. brk' = [brk EXCEPT ![t] = c]
    BY <1>2, <1>6 DEF BrkLoadEnd, Goto
  <2>2. c \in BrkCalls /\ c.pc = "store start"
    BY <1>3
  <2>3. RangeSetOnce => t \in seen.first /\ heap.start = 0
    BY <1>4, <1>5, <1>6 DEF KnowsHeap, FoundNoHeap
  <2> HIDE DEF c
  <2> QED BY <1>4, <2>1, <2>2, <2>3, LocalStepInv
<1>7. CASE brk[t].start # 0 /\ InRange(brk[t].new, brk[t].start, heap.end)
  <2> DEFINE c == To("store top")
  <2>1. brk' = [brk EXCEPT ![t] = c]
    BY <1>2, <1>7 DEF BrkLoadEnd, Goto
  <2>2. c \in BrkCalls /\ c.pc = "store top" /\ c.new = brk[t].new
    BY <1>3
  <2>3. RangeSetOnce => brk[t].start = heap.start
    BY <1>4, <1>5, <1>7 DEF KnowsHeap
  <2>4. c.new >= brk[t].start /\ c.new <= heap.end
    BY <1>7, <2>2 DEF InRange
  <2>5. c.new \in Int /\ brk[t].start \in Int
    BY <1>1, <2>2, NewInt, StartInt
  <2>6. brk[t].start <= c.new
    BY <2>4, <2>5
  <2>7. RangeSetOnce => heap.start # 0 /\ heap.start <= c.new /\ c.new <= heap.end
    BY <1>7, <2>3, <2>4, <2>6
  <2> HIDE DEF c
  <2> QED BY <1>4, <2>1, <2>2, <2>7, LocalStepInv
<1>8. CASE brk[t].start # 0 /\ ~InRange(brk[t].new, brk[t].start, heap.end)
  <2>1. brk' = [brk EXCEPT ![t] = BrkIdle]
    BY <1>8 DEF BrkLoadEnd, Goto, Leave
  <2> QED BY <1>4, <2>1, IdleBrkType, LocalStepInv
<1> QED BY <1>6, <1>7, <1>8

(* What the stores of t may do to the range, if they do not touch the      *)
(* history                                                                 *)
LEMMA StoreStepInv ==
  ASSUME HeapInv, NEW t \in Callers, NEW c \in BrkCalls, brk' = [brk EXCEPT ![t] = c],
         heap' \in HeapRange, seen' = seen,
         RangeSetOnce =>
           /\ heap'.start = 0 => heap'.top = 0 /\ heap'.end = 0
           /\ heap'.top # 0 => heap'.start <= heap'.top /\ heap'.top <= heap'.end
           /\ c.pc \notin {"start", "end", "store start"}
           /\ c.pc = "store end" => t \in seen.first /\ heap'.start = c.new /\ heap'.end = 0
           /\ c.pc = "store top" =>
                heap'.start # 0 /\ heap'.start <= c.new /\ c.new <= heap'.end
           /\ \A u \in Callers \ {t} :
                /\ FoundNoHeap(u) => heap'.start = heap.start
                /\ At(u, "store end") => heap'.start = heap.start /\ heap'.end = heap.end
                /\ At(u, "end") /\ brk[u].start # 0 => heap'.start = heap.start
                /\ At(u, "store top") => /\ heap'.start = heap.start
                                        /\ heap.end <= heap'.end
  PROVE  HeapInv'
<1>2. DOMAIN seen' = DOMAIN seen
  OBVIOUS
<1>3. seen'.first \subseteq Callers /\ seen'.raced \in BOOLEAN /\ (seen.raced => seen'.raced)
  BY DEF HeapInv, HeapTypeOK
<1>6. ASSUME ~seen'.raced, RangeSetOnce
      PROVE  /\ \A u, v \in seen'.first : u = v
             /\ heap'.start = 0 => heap'.top = 0 /\ heap'.end = 0
             /\ heap'.top # 0 => heap'.start <= heap'.top /\ heap'.top <= heap'.end
             /\ (c.pc = "store start" \/ (c.pc = "end" /\ c.start = 0)) =>
                  t \in seen'.first /\ heap'.start = 0
             /\ c.pc = "store end" => t \in seen'.first /\ heap'.start = c.new /\ heap'.end = 0
             /\ c.pc = "end" /\ c.start # 0 => c.start = heap'.start
             /\ c.pc = "store top" =>
                  heap'.start # 0 /\ heap'.start <= c.new /\ c.new <= heap'.end
             /\ seen.first \subseteq seen'.first
             /\ \A u \in Callers \ {t} :
                  /\ FoundNoHeap(u) => heap'.start = heap.start
                  /\ At(u, "store end") => heap'.start = heap.start /\ heap'.end = heap.end
                  /\ At(u, "end") /\ brk[u].start # 0 => heap'.start = heap.start
                  /\ At(u, "store top") => /\ heap'.start = heap.start
                                          /\ heap.end <= heap'.end
  <2>1. \A u, v \in seen'.first : u = v
    BY <1>6 DEF RangeSetOnce
  <2> QED BY <1>6, <2>1
<1> QED BY <1>2, <1>3, <1>6, BrkStepInv

LEMMA BrkLoadStartInv ==
  ASSUME HeapInv, NEW t \in Callers, BrkLoadStart(t)
  PROVE  HeapInv'
<1> DEFINE c == LoadedCall("end", brk[t].new, brk[t].current, heap.start)
<1>1. heap \in HeapRange /\ heap' = heap
  BY DEF HeapInv, HeapTypeOK, HeapRange, BrkLoadStart
<1>2. c \in BrkCalls /\ c.pc = "end" /\ c.start = heap.start
  <2>1. brk[t].new \in 1 .. MaxBrk /\ brk[t].current \in 0 .. MaxBrk
    BY BrkCallTypes DEF HeapInv, BrkLoadStart, At
  <2>2. heap.start \in 0 .. MaxBrk
    BY <1>1 DEF HeapRange
  <2> QED BY <2>1, <2>2, LoadedCallType DEF LoadedCall
<1>3. brk' = [brk EXCEPT ![t] = c]
  BY DEF BrkLoadStart, Goto, LoadedCall
<1>4. /\ DOMAIN seen' = DOMAIN seen /\ seen.first \subseteq seen'.first
      /\ seen'.first \subseteq Callers /\ seen'.raced \in BOOLEAN /\ (seen.raced => seen'.raced)
      /\ heap.start # 0 => seen' = seen
      /\ heap.start = 0 => seen'.first = seen.first \cup {t} /\ (~seen'.raced => seen.first = {})
  <2>1. CASE heap.start # 0
    BY <2>1 DEF HeapInv, HeapTypeOK, BrkLoadStart
  <2>2. CASE heap.start = 0
    <3>1. seen' = [seen EXCEPT !.first = seen.first \cup {t},
                               !.raced = seen.raced \/ seen.first # {}]
      BY <2>2 DEF BrkLoadStart
    <3>2. /\ DOMAIN seen' = DOMAIN seen
          /\ seen'.first = seen.first \cup {t} /\ seen'.raced = (seen.raced \/ seen.first # {})
      BY <3>1 DEF HeapInv, HeapTypeOK
    <3>3. seen.first \subseteq Callers /\ seen.raced \in BOOLEAN
      BY DEF HeapInv, HeapTypeOK
    <3>4. seen'.raced \in BOOLEAN /\ (seen.raced => seen'.raced) /\ (~seen'.raced => seen.first = {})
      BY <3>2, <3>3
    <3> QED BY <2>2, <3>2, <3>3, <3>4
  <2> QED BY <2>1, <2>2
<1>5. heap.end <= heap'.end
  <2>1. heap.end \in 0 .. MaxBrk + HeapMax
    BY <1>1 DEF HeapRange
  <2>2. heap.end \in Int
    BY <2>1, RangeInt
  <2>3. heap.end <= heap.end
    BY <2>2, NoLess
  <2> QED BY <1>1, <2>3
<1> HIDE DEF c
<1>6. ASSUME ~seen'.raced, RangeSetOnce
      PROVE  /\ \A u, v \in seen'.first : u = v
             /\ heap'.start = 0 => heap'.top = 0 /\ heap'.end = 0
             /\ heap'.top # 0 => heap'.start <= heap'.top /\ heap'.top <= heap'.end
             /\ (c.pc = "store start" \/ (c.pc = "end" /\ c.start = 0)) =>
                  t \in seen'.first /\ heap'.start = 0
             /\ c.pc = "store end" => t \in seen'.first /\ heap'.start = c.new /\ heap'.end = 0
             /\ c.pc = "end" /\ c.start # 0 => c.start = heap'.start
             /\ c.pc = "store top" =>
                  heap'.start # 0 /\ heap'.start <= c.new /\ c.new <= heap'.end
             /\ seen.first \subseteq seen'.first
             /\ \A u \in Callers \ {t} :
                  /\ FoundNoHeap(u) => heap'.start = heap.start
                  /\ At(u, "store end") => heap'.start = heap.start /\ heap'.end = heap.end
                  /\ At(u, "end") /\ brk[u].start # 0 => heap'.start = heap.start
                  /\ At(u, "store top") => /\ heap'.start = heap.start
                                          /\ heap.end <= heap'.end
  <2>1. \A u, v \in seen'.first : u = v
    BY <1>4, <1>6 DEF RangeSetOnce
  <2>2. /\ heap'.start = 0 => heap'.top = 0 /\ heap'.end = 0
        /\ heap'.top # 0 => heap'.start <= heap'.top /\ heap'.top <= heap'.end
    BY <1>1, <1>6 DEF RangeSetOnce
  <2>3. c.start = 0 => t \in seen'.first /\ heap'.start = 0
    BY <1>1, <1>2, <1>4
  <2> QED BY <1>1, <1>2, <1>4, <1>5, <2>1, <2>2, <2>3
<1>7. heap' \in HeapRange
  BY <1>1
<1>8. /\ DOMAIN seen' = DOMAIN seen
      /\ seen'.first \subseteq Callers /\ seen'.raced \in BOOLEAN /\ (seen.raced => seen'.raced)
  BY <1>4
<1> QED BY <1>2, <1>3, <1>6, <1>7, <1>8, BrkStepInv

LEMMA HeapRecord ==
  ASSUME heap \in HeapRange, NEW v
  PROVE  /\ LET h == [heap EXCEPT !.start = v]
            IN h.start = v /\ h.top = heap.top /\ h.end = heap.end /\ (v \in 0 .. MaxBrk => h \in HeapRange)
         /\ LET h == [heap EXCEPT !.end = v]
            IN h.end = v /\ h.top = heap.top /\ h.start = heap.start
               /\ (v \in 0 .. MaxBrk + HeapMax => h \in HeapRange)
         /\ LET h == [heap EXCEPT !.top = v]
            IN h.top = v /\ h.start = heap.start /\ h.end = heap.end /\ (v \in 0 .. MaxBrk => h \in HeapRange)
BY DEF HeapRange

LEMMA NewRange == \A x \in 1 .. MaxBrk : x \in 0 .. MaxBrk /\ x # 0
BY BrkBounds

LEMMA LoadedMoves ==
  ASSUME NEW r, r = LoadedCall(r.pc, r.new, r.current, r.start), NEW pc
  PROVE  [r EXCEPT !.pc = pc] = LoadedCall(pc, r.new, r.current, r.start)
BY DEF LoadedCall

(* The next step of a call that has loaded the start *)
LEMMA NextPc ==
  ASSUME HeapTypeOK, NEW t \in Callers, brk[t].pc \in {"end", "store start", "store end", "store top"},
         NEW pc \in {"end", "store start", "store end", "store top"}
  PROVE  LET c == [brk[t] EXCEPT !.pc = pc]
         IN /\ c \in BrkCalls /\ c.pc = pc /\ c.new = brk[t].new /\ c.start = brk[t].start
            /\ brk[t].new \in 1 .. MaxBrk /\ brk[t].new \in 0 .. MaxBrk /\ brk[t].new # 0
<1> DEFINE To(p) == LoadedCall(p, brk[t].new, brk[t].current, brk[t].start)
<1>1. /\ brk[t].new \in 1 .. MaxBrk /\ brk[t].current \in 0 .. MaxBrk /\ brk[t].start \in 0 .. MaxBrk
      /\ brk[t] = To(brk[t].pc)
  BY BrkCallTypes
<1>2. [brk[t] EXCEPT !.pc = pc] = To(pc)
  BY <1>1, LoadedMoves
<1>3. To(pc) \in BrkCalls
  BY <1>1, LoadedCallType
<1>4. To(pc).pc = pc /\ To(pc).new = brk[t].new /\ To(pc).start = brk[t].start
  BY DEF LoadedCall
<1>5. brk[t].new \in 0 .. MaxBrk /\ brk[t].new # 0
  BY <1>1, NewRange
<1> HIDE DEF To
<1> QED BY <1>1, <1>2, <1>3, <1>4, <1>5

LEMMA BrkStoreStartInv ==
  ASSUME HeapInv, NEW t \in Callers, BrkStoreStart(t)
  PROVE  HeapInv'
<1> DEFINE c == [brk[t] EXCEPT !.pc = "store end"]
<1>1. HeapTypeOK /\ At(t, "store start") /\ brk[t].pc = "store start"
  BY DEF HeapInv, BrkStoreStart, At
<1>2. brk[t].new \in 1 .. MaxBrk /\ brk[t].new \in 0 .. MaxBrk /\ brk[t].new # 0
  BY <1>1, NextPc
<1>3. brk' = [brk EXCEPT ![t] = c] /\ seen' = seen
  BY DEF BrkStoreStart, Goto
<1>4. c \in BrkCalls /\ c.pc = "store end" /\ c.new = brk[t].new
  BY <1>1, NextPc
<1>5. heap \in HeapRange /\ brk[t].new \in 0 .. MaxBrk /\ brk[t].new # 0
  BY <1>2 DEF HeapInv, HeapTypeOK, HeapRange
<1>6. /\ heap' \in HeapRange /\ heap'.start = brk[t].new
      /\ heap'.top = heap.top /\ heap'.end = heap.end
  BY <1>5, HeapRecord DEF BrkStoreStart
<1> HIDE DEF c
<1>7. ASSUME RangeSetOnce
      PROVE  /\ heap'.start = 0 => heap'.top = 0 /\ heap'.end = 0
             /\ heap'.top # 0 => heap'.start <= heap'.top /\ heap'.top <= heap'.end
             /\ c.pc \notin {"start", "end", "store start"}
             /\ c.pc = "store end" => t \in seen.first /\ heap'.start = c.new /\ heap'.end = 0
             /\ c.pc = "store top" =>
                  heap'.start # 0 /\ heap'.start <= c.new /\ c.new <= heap'.end
             /\ \A u \in Callers \ {t} :
                  /\ FoundNoHeap(u) => heap'.start = heap.start
                  /\ At(u, "store end") => heap'.start = heap.start /\ heap'.end = heap.end
                  /\ At(u, "end") /\ brk[u].start # 0 => heap'.start = heap.start
                  /\ At(u, "store top") => /\ heap'.start = heap.start
                                          /\ heap.end <= heap'.end
  <2>1. t \in seen.first /\ heap.start = 0 /\ heap.top = 0 /\ heap.end = 0
    BY <1>1, <1>7 DEF RangeSetOnce, KnowsHeap, FoundNoHeap
  <2>2. ASSUME NEW u \in Callers \ {t}
        PROVE  /\ ~FoundNoHeap(u) /\ ~At(u, "store end") /\ ~At(u, "store top")
               /\ ~(At(u, "end") /\ brk[u].start # 0)
    <3>1. KnowsHeap(u) /\ u \notin seen.first
      BY <1>7, <2>1 DEF RangeSetOnce
    <3> QED BY <2>1, <3>1 DEF KnowsHeap
  <2> QED BY <1>4, <1>5, <1>6, <2>1, <2>2
<1> QED BY <1>3, <1>4, <1>6, <1>7, StoreStepInv

LEMMA BrkStoreEndInv ==
  ASSUME HeapInv, NEW t \in Callers, BrkStoreEnd(t)
  PROVE  HeapInv'
<1> DEFINE c == [brk[t] EXCEPT !.pc = "store top"]
<1>1. HeapTypeOK /\ At(t, "store end") /\ brk[t].pc = "store end"
  BY DEF HeapInv, BrkStoreEnd, At
<1>2. brk[t].new \in 1 .. MaxBrk /\ brk[t].new \in 0 .. MaxBrk /\ brk[t].new # 0
  BY <1>1, NextPc
<1>3. brk' = [brk EXCEPT ![t] = c] /\ seen' = seen
  BY DEF BrkStoreEnd, Goto
<1>4. c \in BrkCalls /\ c.pc = "store top" /\ c.new = brk[t].new
  BY <1>1, NextPc
<1>5. heap \in HeapRange /\ brk[t].new + HeapMax \in 0 .. MaxBrk + HeapMax
  <2>1. \A x \in 0 .. MaxBrk : x + HeapMax \in 0 .. MaxBrk + HeapMax
    BY BrkBounds
  <2> QED BY <1>2, <2>1 DEF HeapInv, HeapTypeOK, HeapRange
<1>6. /\ heap' \in HeapRange /\ heap'.end = brk[t].new + HeapMax
      /\ heap'.top = heap.top /\ heap'.start = heap.start
  BY <1>5, HeapRecord DEF BrkStoreEnd
<1>7. brk[t].new # 0 /\ brk[t].new <= brk[t].new /\ brk[t].new <= heap'.end /\ 0 <= heap'.end
  <2>1. brk[t].new # 0 /\ brk[t].new <= brk[t].new /\ brk[t].new <= brk[t].new + HeapMax
        /\ 0 <= brk[t].new + HeapMax
    <3>1. \A x \in 1 .. MaxBrk : /\ x # 0 /\ x <= x /\ x <= x + HeapMax
                                 /\ 0 <= x + HeapMax
      BY BrkBounds
    <3> QED BY <1>2, <3>1
  <2> QED BY <1>6, <2>1
<1> HIDE DEF c
<1>8. ASSUME RangeSetOnce
      PROVE  /\ heap'.start = 0 => heap'.top = 0 /\ heap'.end = 0
             /\ heap'.top # 0 => heap'.start <= heap'.top /\ heap'.top <= heap'.end
             /\ c.pc \notin {"start", "end", "store start"}
             /\ c.pc = "store end" => t \in seen.first /\ heap'.start = c.new /\ heap'.end = 0
             /\ c.pc = "store top" =>
                  heap'.start # 0 /\ heap'.start <= c.new /\ c.new <= heap'.end
             /\ \A u \in Callers \ {t} :
                  /\ FoundNoHeap(u) => heap'.start = heap.start
                  /\ At(u, "store end") => heap'.start = heap.start /\ heap'.end = heap.end
                  /\ At(u, "end") /\ brk[u].start # 0 => heap'.start = heap.start
                  /\ At(u, "store top") => /\ heap'.start = heap.start
                                          /\ heap.end <= heap'.end
  <2>1. t \in seen.first /\ heap.start = brk[t].new /\ heap.end = 0
    BY <1>1, <1>8 DEF RangeSetOnce, KnowsHeap
  <2>2. heap.top = 0
    <3>1. heap.top \in 0 .. MaxBrk
      BY <1>5 DEF HeapRange
    <3>2. heap.top # 0 => heap.top <= 0
      BY <1>8, <2>1 DEF RangeSetOnce
    <3>3. heap.top \in Int /\ 0 <= heap.top
      BY <3>1, StartInt
    <3> QED BY <3>2, <3>3
  <2>3. ASSUME NEW u \in Callers \ {t}
        PROVE  ~At(u, "store end")
    <3>1. KnowsHeap(u) /\ u \notin seen.first
      BY <1>8, <2>1 DEF RangeSetOnce
    <3> QED BY <3>1 DEF KnowsHeap
  <2> QED BY <1>4, <1>6, <1>7, <2>1, <2>2, <2>3
<1> QED BY <1>3, <1>4, <1>6, <1>8, StoreStepInv

LEMMA BrkStoreTopInv ==
  ASSUME HeapInv, NEW t \in Callers, BrkStoreTop(t)
  PROVE  HeapInv'
<1>1. brk[t].new \in 0 .. MaxBrk /\ At(t, "store top")
  <2>1. HeapTypeOK /\ brk[t].pc = "store top"
    BY DEF HeapInv, BrkStoreTop, At
  <2> QED BY <2>1, NextPc DEF At
<1>2. brk' = [brk EXCEPT ![t] = BrkIdle] /\ seen' = seen
  BY DEF BrkStoreTop, Leave, Goto
<1>3. heap \in HeapRange
  BY DEF HeapInv, HeapTypeOK, HeapRange
<1>4. /\ heap' \in HeapRange /\ heap'.top = brk[t].new
      /\ heap'.start = heap.start /\ heap'.end = heap.end
  BY <1>1, <1>3, HeapRecord DEF BrkStoreTop
<1>5. heap.end <= heap'.end
  <2>1. heap.end \in 0 .. MaxBrk + HeapMax
    BY <1>3 DEF HeapRange
  <2>2. heap.end \in Int
    BY <2>1, RangeInt
  <2>3. heap.end <= heap.end
    BY <2>2, NoLess
  <2> QED BY <1>4, <2>3
<1>6. ASSUME RangeSetOnce
      PROVE  /\ heap'.start = 0 => heap'.top = 0 /\ heap'.end = 0
             /\ heap'.top # 0 => heap'.start <= heap'.top /\ heap'.top <= heap'.end
  <2>1. heap.start # 0 /\ brk[t].new >= heap.start /\ brk[t].new <= heap.end
    BY <1>1, <1>6 DEF RangeSetOnce, KnowsHeap, InRange
  <2>2. heap.start \in Int /\ brk[t].new \in Int
    BY <1>1, <1>3, StartInt DEF HeapRange
  <2>3. heap.start <= brk[t].new
    BY <2>1, <2>2
  <2> QED BY <1>4, <2>1, <2>3
<1> QED BY <1>2, <1>4, <1>5, <1>6, IdleBrkType, StoreStepInv

-----------------------------------------------------------------------------

LEMMA QuietHeap == ASSUME NEW n, Quiet(n) PROVE UNCHANGED <<heap, brk, seen>>
BY DEF Quiet

(* The calls other than brk: none of them looks at the heap *)
HeapKept ==
  /\ UNCHANGED <<heap, brk>>
  /\ DOMAIN seen' = DOMAIN seen /\ seen'.first = seen.first /\ seen'.raced = seen.raced

LEMMA FileCallsKeepHeap == FileCalls => HeapKept
BY QuietHeap DEF FileCalls, Mount, SetRoot, Unmount, sys_unlink, HeapKept

LEMMA OpenAtKeepsHeap ==
  ASSUME HeapInv, NEW i, NEW entry, OpenAt(i, entry) PROVE HeapKept
BY DEF OpenAt, HeapKept, HeapInv, HeapTypeOK

LEMMA QuietKeepsHeap == ASSUME NEW n, Quiet(n) PROVE HeapKept
BY DEF Quiet, HeapKept

LEMMA MovesKeepsHeap ==
  ASSUME NEW fd, NEW offset, NEW answer, Moves(fd, offset, answer) PROVE HeapKept
BY DEF Moves, HeapKept

LEMMA OpeningKeepsHeap ==
  ASSUME HeapInv,
         \/ \E read, write \in BOOLEAN : sys_open(read, write)
         \/ \E fd \in 0 .. MAX_FDS : sys_dup(fd) \/ sys_close(fd)
  PROVE  HeapKept
<1>1. ASSUME NEW read \in BOOLEAN, NEW write \in BOOLEAN, sys_open(read, write) PROVE HeapKept
  BY <1>1, QuietKeepsHeap, OpenAtKeepsHeap DEF sys_open
<1>2. ASSUME NEW fd \in 0 .. MAX_FDS, sys_dup(fd) PROVE HeapKept
  BY <1>2, QuietKeepsHeap, OpenAtKeepsHeap DEF sys_dup
<1>3. ASSUME NEW fd \in 0 .. MAX_FDS, sys_close(fd) PROVE HeapKept
  <2>1. CASE fd \notin Open
    BY <1>3, <2>1, QuietKeepsHeap DEF sys_close
  <2>2. CASE fd \in Open
    BY <1>3, <2>2 DEF sys_close, HeapKept, HeapInv, HeapTypeOK
  <2> QED BY <2>1, <2>2
<1> QED BY <1>1, <1>2, <1>3

LEMMA UsingKeepsHeap ==
  ASSUME NEW fd, NEW length, NEW lengths, NEW offset, NEW whence,
         \/ sys_read(fd, length) \/ sys_write(fd, length)
         \/ sys_writev(fd, lengths) \/ sys_readv(fd, lengths)
         \/ sys_lseek(fd, offset, whence)
  PROVE  HeapKept
<1>1. CASE sys_read(fd, length)
  BY <1>1, QuietKeepsHeap, MovesKeepsHeap DEF sys_read
<1>2. CASE sys_write(fd, length)
  BY <1>2, QuietKeepsHeap, MovesKeepsHeap DEF sys_write
<1>3. CASE sys_writev(fd, lengths)
  <2>1. CASE lengths # <<>> /\ (fd \notin Open \/ ~fds[fd].write)
    BY <1>3, <2>1, QuietKeepsHeap DEF sys_writev
  <2>2. CASE ~(lengths # <<>> /\ (fd \notin Open \/ ~fds[fd].write))
    BY <1>3, <2>2 DEF sys_writev, HeapKept
  <2> QED BY <2>1, <2>2
<1>4. CASE sys_readv(fd, lengths)
  BY <1>4, QuietKeepsHeap DEF sys_readv
<1>5. CASE sys_lseek(fd, offset, whence)
  BY <1>5, QuietKeepsHeap, MovesKeepsHeap DEF sys_lseek
<1> QED BY <1>1, <1>2, <1>3, <1>4, <1>5

LEMMA DispatchKeepsHeap ==
  ASSUME HeapInv,
         NEW number \in {"SYS_READ", "SYS_CLOSE", "SYS_WRITE", "SYS_OPEN", "SYS_FORK",
                         "SYS_EXECVE", "UNKNOWN"},
         NEW arg1, NEW arg3, Dispatch(number, arg1, arg3)
  PROVE  HeapKept
<1>1. CASE number \in {"SYS_READ", "SYS_CLOSE"}
  BY <1>1, QuietKeepsHeap DEF Dispatch
<1>2. CASE number = "SYS_WRITE"
  BY <1>2, QuietKeepsHeap DEF Dispatch
<1>3. CASE number = "SYS_OPEN"
  BY <1>3, OpeningKeepsHeap DEF Dispatch
<1>4. CASE number = "SYS_FORK"
  BY <1>4 DEF Dispatch, sys_fork, alloc_pid, HeapKept
<1>5. CASE number = "SYS_EXECVE"
  BY <1>5, QuietKeepsHeap DEF Dispatch, sys_execve
<1>6. CASE number = "UNKNOWN"
  BY <1>6, QuietKeepsHeap DEF Dispatch
<1> QED BY <1>1, <1>2, <1>3, <1>4, <1>5, <1>6

LEMMA DescriptorCallsKeepHeap ==
  ASSUME HeapInv, DescriptorCalls PROVE HeapKept
<1>1. ASSUME NEW call \in {"open", "read", "write", "close", "socket"}, Wrapper(call, 0, 1)
      PROVE  HeapKept
  <2> DEFINE n == IF call \in DOMAIN FileCall THEN FileCall[call] ELSE SocketCall[call]
  <2>1. n \in {"SYS_OPEN", "SYS_READ", "SYS_WRITE", "SYS_CLOSE", "UNKNOWN"}
    BY DEF FileCall, SocketCall
  <2>2. Dispatch(n, 0, 1)
    BY <1>1 DEF Wrapper
  <2> HIDE DEF n
  <2> QED BY <2>1, <2>2, DispatchKeepsHeap
<1>2. ASSUME NEW number \in {"SYS_FORK", "SYS_EXECVE"}, Dispatch(number, 0, 0) PROVE HeapKept
  BY <1>2, DispatchKeepsHeap
<1>3. \A fd \in 0 .. MAX_FDS :
        (\/ sys_dup(fd) \/ sys_close(fd) \/ sys_fstat(fd)
         \/ sys_read(fd, 1) \/ sys_write(fd, 1)
         \/ sys_writev(fd, <<1, 1>>) \/ sys_readv(fd, <<1>>)
         \/ \E whence \in 0 .. 3, offset \in -1 .. 1 : sys_lseek(fd, offset, whence)
         \/ \E new \in {-1, 0, 1} : sys_dup2(fd, new)
         \/ \E cmd \in 0 .. 5 : sys_fcntl(fd, cmd, 0)) => HeapKept
  <2> TAKE fd \in 0 .. MAX_FDS
  <2>1. sys_dup(fd) \/ sys_close(fd) => HeapKept
    BY OpeningKeepsHeap
  <2>2. sys_fstat(fd) => HeapKept
    BY QuietKeepsHeap DEF sys_fstat
  <2>3. sys_read(fd, 1) \/ sys_write(fd, 1) \/ sys_writev(fd, <<1, 1>>) \/ sys_readv(fd, <<1>>)
          => HeapKept
    BY UsingKeepsHeap
  <2>4. \A whence \in 0 .. 3, offset \in -1 .. 1 : sys_lseek(fd, offset, whence) => HeapKept
    BY UsingKeepsHeap
  <2>5. \A new \in {-1, 0, 1} : sys_dup2(fd, new) => HeapKept
    BY QuietKeepsHeap DEF sys_dup2
  <2>6. \A cmd \in 0 .. 5 : sys_fcntl(fd, cmd, 0) => HeapKept
    BY QuietKeepsHeap DEF sys_fcntl
  <2> QED BY <2>1, <2>2, <2>3, <2>4, <2>5, <2>6
<1>4. sys_clone => HeapKept
  BY DEF sys_clone, alloc_pid, HeapKept
<1>5. (\/ sys_mkdir \/ sys_getpid \/ sys_stat \/ sys_chdir \/ sys_getdents64 \/ sys_munmap
       \/ sys_sigaction \/ sys_ioctl \/ sys_pipe2 \/ sys_wait4 \/ sys_mmap(0) \/ sys_mmap(1)) => HeapKept
  BY QuietKeepsHeap DEF sys_mkdir, sys_getpid, sys_stat, sys_chdir, sys_getdents64, sys_munmap,
       sys_sigaction, sys_ioctl, sys_pipe2, sys_wait4, sys_mmap
<1>6. \A n \in 0 .. 2 : sys_getrandom(n) \/ sys_getcwd(n) \/ sys_clock_gettime(n) => HeapKept
  <2> TAKE n \in 0 .. 2
  <2>1. sys_getrandom(n) => HeapKept
    BY DEF sys_getrandom, HeapKept
  <2>2. sys_getcwd(n) \/ sys_clock_gettime(n) => HeapKept
    BY QuietKeepsHeap DEF sys_getcwd, sys_clock_gettime
  <2> QED BY <2>1, <2>2
<1> QED BY <1>1, <1>2, <1>3, <1>4, <1>5, <1>6 DEF DescriptorCalls

LEMMA NextHeapInv == HeapInv /\ [PosixNext]_posixvars => HeapInv'
<1> SUFFICES ASSUME HeapInv, [PosixNext]_posixvars PROVE HeapInv'
  OBVIOUS
<1>1. HeapKept => HeapInv'
  BY HeapAlone DEF HeapKept
<1>2. CASE FileCalls
  BY <1>1, <1>2, FileCallsKeepHeap
<1>3. CASE DescriptorCalls
  BY <1>1, <1>3, DescriptorCallsKeepHeap
<1>4. ASSUME NEW t \in Callers, sys_brk(t) PROVE HeapInv'
  <2>1. ASSUME NEW new \in 0 .. MaxBrk, BrkCall(t, new) PROVE HeapInv'
    BY <2>1, BrkCallInv
  <2>2. BrkLoadStart(t) => HeapInv'
    BY BrkLoadStartInv
  <2>3. BrkLoadEnd(t) => HeapInv'
    BY BrkLoadEndInv
  <2>4. BrkStoreStart(t) => HeapInv'
    BY BrkStoreStartInv
  <2>5. BrkStoreEnd(t) => HeapInv'
    BY BrkStoreEndInv
  <2>6. BrkStoreTop(t) => HeapInv'
    BY BrkStoreTopInv
  <2> QED BY <1>4, <2>1, <2>2, <2>3, <2>4, <2>5, <2>6 DEF sys_brk
<1>5. CASE UNCHANGED posixvars
  BY <1>1, <1>5 DEF posixvars, HeapKept
<1> QED BY <1>2, <1>3, <1>4, <1>5 DEF PosixNext, Brk

(* The top of the heap stays between its start and its end, whatever calls *)
(* of brk overlap, their three loads and three stores in any order, as     *)
(* long as no two threads make the first call at once.                     *)
THEOREM HeapTopStaysInRange == PosixSpec => []HeapTopInRange
<1>1. HeapInv => HeapTopInRange
  <2> SUFFICES ASSUME HeapInv, heap.top # 0, ~seen.raced PROVE heap.top \in heap.start .. heap.end
    BY DEF HeapTopInRange
  <2>1. heap.start <= heap.top /\ heap.top <= heap.end
    BY DEF HeapInv, RangeSetOnce
  <2>2. heap.top \in 0 .. MaxBrk /\ heap.start \in 0 .. MaxBrk /\ heap.end \in 0 .. MaxBrk + HeapMax
    BY DEF HeapInv, HeapTypeOK
  <2>3. heap.top \in Int /\ heap.start \in Int /\ heap.end \in Int
    BY <2>2, StartInt, RangeInt
  <2> QED BY <2>1, <2>3
<1> QED BY InitHeapInv, NextHeapInv, <1>1, PTL DEF PosixSpec

-----------------------------------------------------------------------------
(* File descriptors *)

(* What a call carries has its type. *)
LEMMA FdCallTypes ==
  ASSUME FdTypeOK, NEW t \in FdThreads
  PROVE  LET c == fd_call[t]
         IN /\ c.op = "dup" => c.entry \in Entry
            /\ WillMove(c) => c.fd \in FdSlots
            /\ c.op \in {"read", "write", "append", "write_end"} =>
                 /\ c.inode \in FdInodes /\ c.offset \in Offsets
                 /\ c.length \in Lengths /\ c.length \in Nat
            /\ c.op = "store" => c.moved \in Nat /\ c.offset \in Offsets
            /\ c.op = "store_end" => c.inode \in FdInodes
<1> DEFINE c == fd_call[t]
<1>1. c \in FdCalls /\ Lengths \subseteq Nat
  BY FdAssumption DEF FdTypeOK, FdConstantsOK
<1> HIDE DEF c
<1>2. CASE c = FdIdle
  BY <1>2 DEF FdIdle, WillMove, c
<1>3. CASE c \in [op : {"dup"}, entry : Entry]
  BY <1>3 DEF WillMove, c
<1>4. CASE c \in Transfer
  BY <1>1, <1>4 DEF Transfer, WillMove, c
<1>5. CASE c \in [op : {"store"}, fd : FdSlots, moved : Nat, offset : Offsets]
  BY <1>5 DEF WillMove, c
<1>6. CASE c \in [op : {"store_end"}, fd : FdSlots, inode : FdInodes]
  BY <1>6 DEF WillMove, c
<1> QED
  BY <1>1, <1>2, <1>3, <1>4, <1>5, <1>6 DEF FdCalls

LEMMA EntryIsOne ==
  ASSUME NEW entry \in Entry
  PROVE  entry # NoEntry
  BY DEF Entry, NoEntry

LEMMA OpenFdTypes ==
  ASSUME FdTypeOK, NEW i \in OpenFds
  PROVE  i \in FdSlots /\ descriptors[i] \in Entry /\ descriptors[i].offset \in Offsets
         /\ descriptors[i].inode \in FdInodes
  BY DEF FdTypeOK, OpenFds, Entry

LEMMA InitFdInv == FdInit => FdInv
<1> SUFFICES ASSUME FdInit PROVE FdInv
  OBVIOUS
<1> USE FdAssumption DEF FdConstantsOK, FdInit
<1>1. OpenFds = {}
  BY DEF OpenFds
<1>2. \A t \in FdThreads : fd_call[t] = FdIdle /\ fd_call[t].op = "idle"
  BY DEF FdIdle
<1>3. FdTypeOK
  <2>1. 0 \in FdSlots /\ 0 \in Offsets /\ FdIdle \in FdCalls
    BY DEF FdSlots, Offsets, FdCalls
  <2>2. opened_by \in [FdSlots -> FdThreads]
    OBVIOUS
  <2> QED BY <2>1, <2>2 DEF FdTypeOK
<1>4. AppendsKept /\ AppendsBehind
  BY <1>2 DEF AppendsKept, AppendsBehind
<1>5. OffsetExact /\ CallsKnow
  BY <1>1, <1>2 DEF OffsetExact, CallsKnow, WillMove
<1> QED BY <1>3, <1>4, <1>5 DEF FdInv

(* A step that only changes what a thread's call carries *)
LEMMA CallChanges ==
  ASSUME FdInv, NEW t \in FdThreads, NEW c \in FdCalls,
         fd_call' = [fd_call EXCEPT ![t] = c],
         UNCHANGED <<descriptors, next_fd, file_size, opened_by, fd_position, appended>>,
         c.op = "write_end" => c.offset >= appended[c.inode],
         ~Share => /\ WillMove(c) => Knows(t, c)
                   /\ WillMove(fd_call[t]) => WillMove(c) /\ c.fd = fd_call[t].fd
  PROVE  FdInv'
<1>1. /\ fd_call'[t] = c /\ fd_call' \in [FdThreads -> FdCalls]
      /\ \A u \in FdThreads : u # t => fd_call'[u] = fd_call[u]
  BY DEF FdInv, FdTypeOK
<1>2. FdTypeOK'
  BY <1>1 DEF FdInv, FdTypeOK
<1>3. AppendsKept' /\ AppendsBehind'
  BY <1>1 DEF FdInv, AppendsKept, AppendsBehind
<1>4. ASSUME ~Share
      PROVE OffsetExact' /\ CallsKnow'
  <2>1. OpenFds' = OpenFds
    BY DEF OpenFds
  <2>2. Busy \subseteq Busy'
    <3> SUFFICES ASSUME NEW u \in FdThreads, WillMove(fd_call[u])
                 PROVE  fd_call[u].fd \in Busy'
      BY DEF Busy
    <3>1. WillMove(fd_call'[u]) /\ fd_call'[u].fd = fd_call[u].fd
      BY <1>1, <1>4
    <3> QED BY <3>1 DEF Busy
  <2>3. OffsetExact'
    BY <1>4, <2>1, <2>2 DEF FdInv, OffsetExact
  <2>4. ASSUME NEW u \in FdThreads, WillMove(fd_call'[u])
        PROVE Knows(u, fd_call[u])'
    <3>1. CASE u = t
      BY <1>1, <1>4, <2>1, <2>4, <3>1 DEF Knows
    <3>2. CASE u # t
      BY <1>1, <1>4, <2>1, <2>4, <3>2 DEF FdInv, CallsKnow, Knows
    <3> QED BY <3>1, <3>2
  <2> QED BY <2>3, <2>4 DEF CallsKnow, WillMove
<1> QED BY <1>2, <1>3, <1>4 DEF FdInv

(* What a thread that may use a descriptor finds out about it *)
LEMMA MayUseKnows ==
  ASSUME FdInv, NEW t \in FdThreads, NEW i \in FdSlots, MayUse(t, i), ~Share
  PROVE  /\ i \in OpenFds /\ opened_by[i] = t
         /\ descriptors[i].offset = fd_position[i]
         /\ i \notin Busy
<1>1. i \in OpenFds /\ opened_by[i] = t /\ fd_call[t] = FdIdle
  BY DEF MayUse
<1>2. ASSUME NEW u \in FdThreads, WillMove(fd_call[u]), fd_call[u].fd = i
      PROVE FALSE
  <2>1. u = t
    BY <1>1, <1>2 DEF FdInv, CallsKnow, Knows
  <2> QED BY <1>1, <1>2, <2>1 DEF WillMove, FdIdle
<1>3. i \notin Busy
  BY <1>2 DEF Busy
<1> QED BY <1>1, <1>3 DEF FdInv, OffsetExact

(* A free slot gets an entry; it is no one's until now. *)
LEMMA AllocateKeeps ==
  ASSUME FdInv, NEW t \in FdThreads, NEW entry \in Entry, AllocateFd(t, entry),
         ~WillMove(fd_call[t]), fd_call[t].op # "write_end",
         fd_call' = fd_call \/ fd_call' = [fd_call EXCEPT ![t] = FdIdle],
         UNCHANGED <<file_size, appended>>
  PROVE  FdInv'
<1> PICK i \in FdSlots :
           /\ i \notin OpenFds
           /\ descriptors' = [descriptors EXCEPT ![i] = entry]
           /\ next_fd' = SlotAfter(i)
           /\ opened_by' = [opened_by EXCEPT ![i] = t]
           /\ fd_position' = [fd_position EXCEPT ![i] = entry.offset]
  BY DEF AllocateFd, IsFree
<1>0. FdTypeOK /\ FdIdle \in FdCalls /\ ~WillMove(FdIdle) /\ FdIdle.op # "write_end"
  BY DEF FdInv, FdCalls, WillMove, FdIdle
<1>1. /\ fd_call' \in [FdThreads -> FdCalls]
      /\ \A u \in FdThreads : u # t => fd_call'[u] = fd_call[u]
      /\ ~WillMove(fd_call'[t]) /\ fd_call'[t].op # "write_end"
  BY <1>0 DEF FdTypeOK
<1>2. FdTypeOK'
  <2>1. SlotAfter(i) \in FdSlots
    BY FdAssumption DEF SlotAfter, FdSlots, FdConstantsOK
  <2>2. entry.offset \in Nat
    BY FdAssumption DEF Entry, Offsets, FdConstantsOK
  <2> QED BY <1>0, <1>1, <2>1, <2>2 DEF FdTypeOK
<1>3. AppendsKept' /\ AppendsBehind'
  BY <1>1 DEF FdInv, AppendsKept, AppendsBehind
<1>4. ASSUME ~Share
      PROVE OffsetExact' /\ CallsKnow'
  <2>1. OpenFds' = OpenFds \cup {i}
    BY <1>0, EntryIsOne DEF OpenFds, FdTypeOK
  <2>2. /\ \A j \in FdSlots : j # i => /\ descriptors'[j] = descriptors[j]
                                       /\ fd_position'[j] = fd_position[j]
                                       /\ opened_by'[j] = opened_by[j]
        /\ descriptors'[i].offset = fd_position'[i]
    BY <1>0 DEF FdTypeOK
  <2>3. Busy' = Busy
    BY <1>1 DEF Busy
  <2>4. OffsetExact'
    BY <1>4, <2>1, <2>2, <2>3 DEF FdInv, OffsetExact, OpenFds
  <2>5. ASSUME NEW u \in FdThreads, WillMove(fd_call'[u])
        PROVE Knows(u, fd_call[u])'
    <3>1. u # t /\ fd_call'[u] = fd_call[u] /\ WillMove(fd_call[u])
      BY <1>1, <2>5
    <3>2. Knows(u, fd_call[u])
      BY <1>4, <3>1 DEF FdInv, CallsKnow
    <3>3. fd_call[u].fd \in OpenFds /\ fd_call[u].fd # i /\ fd_call[u].fd \in FdSlots
      BY <3>2 DEF Knows, OpenFds
    <3> QED BY <2>1, <2>2, <3>1, <3>2, <3>3 DEF Knows
  <2> QED BY <2>4, <2>5 DEF CallsKnow, WillMove
<1> QED BY <1>2, <1>3, <1>4 DEF FdInv

LEMMA CloseKeeps ==
  ASSUME FdInv, NEW t \in FdThreads, NEW i \in FdSlots, Close(t, i)
  PROVE  FdInv'
<1>0. /\ FdTypeOK /\ MayUse(t, i) /\ descriptors' = [descriptors EXCEPT ![i] = NoEntry]
      /\ UNCHANGED <<next_fd, file_size, fd_call, opened_by, fd_position, appended>>
  BY DEF FdInv, Close
<1>1. FdTypeOK'
  BY <1>0 DEF FdTypeOK
<1>2. AppendsKept' /\ AppendsBehind'
  BY <1>0 DEF FdInv, AppendsKept, AppendsBehind
<1>3. ASSUME ~Share
      PROVE OffsetExact' /\ CallsKnow'
  <2>1. OpenFds' = OpenFds \ {i} /\ Busy' = Busy
    BY <1>0 DEF OpenFds, FdTypeOK, Busy
  <2>2. \A j \in OpenFds \ {i} : descriptors'[j] = descriptors[j]
    BY <1>0 DEF FdTypeOK, OpenFds
  <2>3. OffsetExact'
    BY <1>0, <1>3, <2>1, <2>2 DEF FdInv, OffsetExact
  <2>4. ASSUME NEW u \in FdThreads, WillMove(fd_call[u])
        PROVE Knows(u, fd_call[u])'
    <3>1. Knows(u, fd_call[u])
      BY <1>3, <2>4 DEF FdInv, CallsKnow
    <3>2. fd_call[u].fd # i
      BY <1>0, <1>3, <2>4, MayUseKnows DEF Busy
    <3> QED BY <1>0, <2>1, <3>1, <3>2 DEF Knows
  <2> QED BY <1>0, <2>3, <2>4 DEF CallsKnow, WillMove
<1> QED BY <1>1, <1>2, <1>3 DEF FdInv

(* An open descriptor that is not busy gets another offset. *)
LEMMA SeekKeeps ==
  ASSUME FdInv, NEW t \in FdThreads, NEW i \in FdSlots, NEW offset \in 0 .. MaxFileSize,
         Seek(t, i, offset)
  PROVE  FdInv'
<1>0. /\ FdTypeOK /\ MayUse(t, i) /\ i \in OpenFds
      /\ descriptors' = [descriptors EXCEPT ![i] = WithOffset(descriptors[i], offset)]
      /\ fd_position' = [fd_position EXCEPT ![i] = offset]
      /\ UNCHANGED <<next_fd, file_size, fd_call, opened_by, appended>>
  BY DEF FdInv, Seek, MayUse
<1>1. WithOffset(descriptors[i], offset) \in Entry /\ offset \in Nat
  BY <1>0, OpenFdTypes, FdAssumption DEF WithOffset, Entry, Offsets, FdConstantsOK
<1>2. FdTypeOK'
  BY <1>0, <1>1 DEF FdTypeOK
<1>3. AppendsKept' /\ AppendsBehind'
  BY <1>0 DEF FdInv, AppendsKept, AppendsBehind
<1>4. ASSUME ~Share
      PROVE OffsetExact' /\ CallsKnow'
  <2>1. OpenFds' = OpenFds /\ Busy' = Busy
    BY <1>0, <1>1, EntryIsOne DEF OpenFds, FdTypeOK, Busy
  <2>2. /\ \A j \in FdSlots : j # i => /\ descriptors'[j] = descriptors[j]
                                       /\ fd_position'[j] = fd_position[j]
        /\ descriptors'[i].offset = fd_position'[i]
    BY <1>0 DEF FdTypeOK, WithOffset
  <2>3. OffsetExact'
    BY <1>4, <2>1, <2>2 DEF FdInv, OffsetExact, OpenFds
  <2>4. ASSUME NEW u \in FdThreads, WillMove(fd_call[u])
        PROVE Knows(u, fd_call[u])'
    <3>1. Knows(u, fd_call[u])
      BY <1>4, <2>4 DEF FdInv, CallsKnow
    <3>2. fd_call[u].fd # i /\ fd_call[u].fd \in FdSlots
      BY <1>0, <1>4, <2>4, <3>1, MayUseKnows DEF Busy, Knows, OpenFds
    <3> QED BY <1>0, <2>1, <2>2, <3>1, <3>2 DEF Knows
  <2> QED BY <1>0, <2>3, <2>4 DEF CallsKnow, WillMove
<1> QED BY <1>2, <1>3, <1>4 DEF FdInv

(* A file grows, and with it what was appended to it if no other append    *)
(* has loaded its size.                                                    *)
LEMMA WriteKeeps ==
  ASSUME FdInv, NEW t \in FdThreads, WriteFile(t)
  PROVE  FdInv'
<1> PICK c \in FdCalls : c = fd_call[t]
  BY DEF FdInv, FdTypeOK
<1>0. FdTypeOK /\ c.op \in {"write", "write_end"} /\ WillMove(c)
  BY DEF FdInv, WriteFile, WillMove
<1>1. /\ c.fd \in FdSlots /\ c.inode \in FdInodes /\ c.offset \in Nat /\ c.length \in Nat
      /\ c.offset + c.length \in Offsets
  <2>1. /\ c.fd \in FdSlots /\ c.inode \in FdInodes /\ c.offset \in Offsets /\ c.length \in Nat
    BY <1>0, FdCallTypes
  <2>2. c.offset + c.length <= MaxFileSize
    BY DEF WriteFile
  <2> QED BY <2>1, <2>2, FdAssumption DEF Offsets, FdConstantsOK
<1>2. /\ file_size' \in [FdInodes -> Offsets]
      /\ \A f \in FdInodes : file_size'[f] \in Nat /\ file_size[f] \in Nat
                             /\ file_size'[f] >= file_size[f]
      /\ file_size'[c.inode] >= c.offset + c.length
  <2>1. file_size' = [file_size EXCEPT ![c.inode] =
                        IF c.offset + c.length > @ THEN c.offset + c.length ELSE @]
    BY DEF WriteFile, Grown
  <2>2. \A f \in FdInodes : file_size[f] \in Offsets /\ file_size[f] \in Nat
    BY <1>0, FdAssumption DEF FdTypeOK, Offsets, FdConstantsOK
  <2>3. Offsets \subseteq Nat
    BY FdAssumption DEF Offsets, FdConstantsOK
  <2>4. file_size \in [FdInodes -> Offsets]
    BY <1>0 DEF FdTypeOK
  <2> DEFINE grown == IF c.offset + c.length > file_size[c.inode] THEN c.offset + c.length
                      ELSE file_size[c.inode]
  <2>5. /\ grown \in Offsets /\ grown \in Nat
        /\ grown >= file_size[c.inode] /\ grown >= c.offset + c.length
    BY <1>1, <2>2, <2>3
  <2>6. file_size' = [file_size EXCEPT ![c.inode] = grown]
    BY <2>1
  <2> HIDE DEF grown
  <2>7. /\ file_size' \in [FdInodes -> Offsets] /\ file_size'[c.inode] = grown
        /\ \A f \in FdInodes : f # c.inode => file_size'[f] = file_size[f]
    BY <1>1, <2>4, <2>5, <2>6
  <2>8. ASSUME NEW f \in FdInodes
        PROVE  file_size'[f] \in Nat /\ file_size[f] \in Nat /\ file_size'[f] >= file_size[f]
    BY <2>2, <2>5, <2>7
  <2> QED BY <2>5, <2>7, <2>8
<1>3. PICK d \in FdCalls : /\ fd_call' = [fd_call EXCEPT ![t] = d]
                           /\ d.fd = c.fd /\ WillMove(d)
                           /\ d.op \notin {"read", "write", "write_end"}
                           /\ d.op = "store" => /\ c.op = "write"
                                                /\ d.moved = c.length
                                                /\ d.offset = c.offset + c.length
  <2>1. CASE c.op = "write_end"
    <3> DEFINE d == [op |-> "store_end", fd |-> c.fd, inode |-> c.inode]
    <3>1. d \in FdCalls
      BY <1>1 DEF FdCalls
    <3>2. fd_call' = [fd_call EXCEPT ![t] = d]
      BY <2>1 DEF WriteFile, SetFdCall
    <3> QED BY <3>1, <3>2 DEF WillMove
  <2>2. CASE c.op = "write"
    <3> DEFINE d == [op |-> "store", fd |-> c.fd, moved |-> c.length,
                     offset |-> c.offset + c.length]
    <3>1. d \in FdCalls
      BY <1>1 DEF FdCalls
    <3>2. fd_call' = [fd_call EXCEPT ![t] = d]
      BY <2>2 DEF WriteFile, SetFdCall
    <3> QED BY <2>2, <3>1, <3>2 DEF WillMove
  <2> QED BY <1>0, <2>1, <2>2
<1>4. /\ fd_call'[t] = d /\ fd_call' \in [FdThreads -> FdCalls]
      /\ \A u \in FdThreads : u # t => fd_call'[u] = fd_call[u]
  BY <1>0, <1>3 DEF FdTypeOK
<1>5. UNCHANGED <<descriptors, next_fd, opened_by, fd_position>>
  BY DEF WriteFile
<1>6. \/ UNCHANGED appended
      \/ /\ c.op = "write_end" /\ Alone(t, c.inode)
         /\ appended' = [appended EXCEPT ![c.inode] = @ + c.length]
  BY DEF WriteFile
<1>7. \A f \in FdInodes : appended[f] \in Nat
  BY <1>0 DEF FdTypeOK
<1>8. appended' \in [FdInodes -> Nat]
  BY <1>0, <1>1, <1>6, <1>7 DEF FdTypeOK
<1>9. FdTypeOK'
  BY <1>0, <1>2, <1>4, <1>5, <1>8 DEF FdTypeOK
<1>10. AppendsKept'
  <2> SUFFICES ASSUME NEW f \in FdInodes PROVE file_size'[f] >= appended'[f]
    BY DEF AppendsKept
  <2>1. file_size[f] >= appended[f]
    BY DEF FdInv, AppendsKept
  <2>2. CASE appended'[f] = appended[f]
    BY <1>2, <1>7, <2>1, <2>2
  <2>3. CASE appended'[f] # appended[f]
    <3>1. f = c.inode /\ c.op = "write_end" /\ appended'[f] = appended[f] + c.length
      BY <1>0, <1>6, <2>3 DEF FdTypeOK
    <3>2. c.offset >= appended[c.inode]
      BY <3>1 DEF FdInv, AppendsBehind
    <3> QED BY <1>1, <1>2, <1>7, <3>1, <3>2
  <2> QED BY <2>2, <2>3
<1>11. AppendsBehind'
  <2> SUFFICES ASSUME NEW u \in FdThreads, fd_call'[u].op = "write_end"
               PROVE  fd_call'[u].offset >= appended'[fd_call'[u].inode]
    BY DEF AppendsBehind
  <2>1. u # t /\ fd_call'[u] = fd_call[u]
    BY <1>3, <1>4
  <2>2. fd_call[u].offset >= appended[fd_call[u].inode] /\ fd_call[u].inode \in FdInodes
    BY <1>0, <2>1, FdCallTypes DEF FdInv, AppendsBehind
  <2>3. appended'[fd_call[u].inode] = appended[fd_call[u].inode]
    BY <1>0, <1>6, <2>1, <2>2 DEF Alone, FdTypeOK
  <2> QED BY <2>1, <2>2, <2>3
<1>12. ASSUME ~Share
       PROVE OffsetExact' /\ CallsKnow'
  <2>1. OpenFds' = OpenFds
    BY <1>5 DEF OpenFds
  <2>2. \A u \in FdThreads : WillMove(fd_call[u]) =>
          WillMove(fd_call'[u]) /\ fd_call'[u].fd = fd_call[u].fd
    BY <1>3, <1>4
  <2>3. Busy \subseteq Busy'
    BY <2>2 DEF Busy
  <2>4. OffsetExact'
    BY <1>5, <1>12, <2>1, <2>3 DEF FdInv, OffsetExact
  <2>5. ASSUME NEW u \in FdThreads, WillMove(fd_call'[u])
        PROVE Knows(u, fd_call[u])'
    <3>1. CASE u # t
      BY <1>4, <1>5, <1>12, <2>1, <2>5, <3>1 DEF FdInv, CallsKnow, Knows
    <3>2. CASE u = t
      <4>1. Knows(t, c)
        BY <1>0, <1>12 DEF FdInv, CallsKnow
      <4> QED BY <1>3, <1>4, <1>5, <2>1, <3>2, <4>1 DEF Knows
    <3> QED BY <3>1, <3>2
  <2> QED BY <2>4, <2>5 DEF CallsKnow, WillMove
<1> QED BY <1>9, <1>10, <1>11, <1>12 DEF FdInv

(* The offset is stored and the call returns *)
LEMMA StoreKeeps ==
  ASSUME FdInv, NEW t \in FdThreads, StoreOffset(t)
  PROVE  FdInv'
<1> PICK c \in FdCalls : c = fd_call[t]
  BY DEF FdInv, FdTypeOK
<1>0. FdTypeOK /\ c.op \in {"store", "store_end"} /\ WillMove(c)
  BY DEF FdInv, StoreOffset, WillMove
<1>1. PICK o : o = IF c.op = "store_end" THEN file_size[c.inode] ELSE c.offset
  OBVIOUS
<1>2. PICK p : p = IF c.op = "store_end" THEN file_size[c.inode]
                   ELSE fd_position[c.fd] + c.moved
  OBVIOUS
<1>3. c.fd \in FdSlots /\ o \in Offsets /\ p \in Nat
  <2>1. Offsets \subseteq Nat
    BY FdAssumption DEF Offsets, FdConstantsOK
  <2>2. c.fd \in FdSlots /\ (c.op = "store" => c.moved \in Nat /\ c.offset \in Offsets)
        /\ (c.op = "store_end" => c.inode \in FdInodes)
    BY <1>0, FdCallTypes
  <2>3. fd_position[c.fd] \in Nat
    BY <1>0, <2>2 DEF FdTypeOK
  <2>4. CASE c.op = "store_end"
    <3>1. file_size[c.inode] \in Offsets
      BY <1>0, <2>2, <2>4 DEF FdTypeOK
    <3> QED BY <1>1, <1>2, <2>1, <2>2, <2>4, <3>1
  <2>5. CASE c.op = "store"
    <3>1. o = c.offset /\ p = fd_position[c.fd] + c.moved
      BY <1>1, <1>2, <2>5
    <3> QED BY <2>2, <2>3, <2>5, <3>1
  <2> QED BY <1>0, <2>4, <2>5
<1>4. /\ descriptors' = IF c.fd \notin OpenFds THEN descriptors
                        ELSE [descriptors EXCEPT ![c.fd] = WithOffset(descriptors[c.fd], o)]
      /\ fd_position' = [fd_position EXCEPT ![c.fd] = p]
      /\ fd_call' = [fd_call EXCEPT ![t] = FdIdle]
      /\ UNCHANGED <<next_fd, file_size, opened_by, appended>>
  BY <1>1, <1>2 DEF StoreOffset, StoredOffset, SetFdCall
<1>5. c.fd \in OpenFds => WithOffset(descriptors[c.fd], o) \in Entry
  BY <1>0, <1>3, OpenFdTypes DEF WithOffset, Entry
<1>6. FdIdle \in FdCalls /\ ~WillMove(FdIdle) /\ FdIdle.op # "write_end"
  BY DEF FdCalls, WillMove, FdIdle
<1>7. /\ fd_call'[t] = FdIdle /\ \A u \in FdThreads : u # t => fd_call'[u] = fd_call[u]
  BY <1>0, <1>4 DEF FdTypeOK
<1>8. FdTypeOK'
  BY <1>0, <1>3, <1>4, <1>5, <1>6 DEF FdTypeOK
<1>9. AppendsKept' /\ AppendsBehind'
  BY <1>4, <1>6, <1>7 DEF FdInv, AppendsKept, AppendsBehind
<1>10. ASSUME ~Share
       PROVE OffsetExact' /\ CallsKnow'
  <2>1. Knows(t, c) /\ c.fd \in OpenFds
    BY <1>0, <1>10 DEF FdInv, CallsKnow, Knows
  <2>2. o = p
    BY <1>0, <1>1, <1>2, <2>1 DEF Knows
  <2>3. OpenFds' = OpenFds
    BY <1>0, <1>4, <1>5, <2>1, EntryIsOne DEF OpenFds, FdTypeOK
  <2>4. /\ \A j \in FdSlots : j # c.fd => /\ descriptors'[j] = descriptors[j]
                                          /\ fd_position'[j] = fd_position[j]
        /\ descriptors'[c.fd].offset = fd_position'[c.fd]
    BY <1>0, <1>3, <1>4, <2>1, <2>2 DEF FdTypeOK, WithOffset
  <2>5. Busy \subseteq Busy' \cup {c.fd}
    BY <1>7 DEF Busy
  <2>6. OffsetExact'
    BY <1>10, <2>3, <2>4, <2>5 DEF FdInv, OffsetExact, OpenFds
  <2>7. ASSUME NEW u \in FdThreads, WillMove(fd_call'[u])
        PROVE Knows(u, fd_call[u])'
    <3>1. u # t /\ fd_call'[u] = fd_call[u] /\ WillMove(fd_call[u])
      BY <1>6, <1>7, <2>7
    <3>2. Knows(u, fd_call[u])
      BY <1>10, <3>1 DEF FdInv, CallsKnow
    <3>3. fd_call[u].fd \in FdSlots /\ fd_call[u].fd # c.fd
      BY <2>1, <3>1, <3>2 DEF Knows, OpenFds
    <3> QED BY <1>4, <2>3, <2>4, <3>1, <3>2, <3>3 DEF Knows
  <2> QED BY <2>6, <2>7 DEF CallsKnow, WillMove
<1> QED BY <1>8, <1>9, <1>10 DEF FdInv

(* The steps that only change what a thread's call carries *)
LEMMA LookingUpKeeps ==
  ASSUME FdInv, NEW t \in FdThreads,
         \/ \E i \in FdSlots : DupGets(t, i)
         \/ DupFails(t)
         \/ \E i \in FdSlots, length \in Lengths : ReadLooksUp(t, i, length)
         \/ ReadFile(t)
         \/ \E i \in FdSlots, length \in Lengths : WriteLooksUp(t, i, length)
         \/ AppendLoadsSize(t)
  PROVE  FdInv'
<1>0. FdTypeOK /\ ~WillMove(FdIdle) /\ FdIdle.op = "idle" /\ FdIdle \in FdCalls
  BY DEF FdInv, WillMove, FdIdle, FdCalls
<1>1. ASSUME NEW i \in FdSlots, DupGets(t, i)
      PROVE FdInv'
  <2> DEFINE c == [op |-> "dup", entry |-> descriptors[i]]
  <2>1. fd_call[t] = FdIdle /\ i \in OpenFds
    BY <1>1 DEF DupGets, MayUse
  <2>2. c \in FdCalls /\ ~WillMove(c) /\ c.op # "write_end"
    BY <1>0, <2>1, OpenFdTypes DEF FdCalls, WillMove
  <2>3. /\ fd_call' = [fd_call EXCEPT ![t] = c]
        /\ UNCHANGED <<descriptors, next_fd, file_size, opened_by, fd_position, appended>>
    BY <1>1 DEF DupGets, SetFdCall
  <2> HIDE DEF c
  <2> QED BY <1>0, <2>1, <2>2, <2>3, CallChanges
<1>2. ASSUME DupFails(t)
      PROVE FdInv'
  <2>1. ~WillMove(fd_call[t])
    BY <1>2 DEF DupFails, WillMove
  <2>2. /\ fd_call' = [fd_call EXCEPT ![t] = FdIdle]
        /\ UNCHANGED <<descriptors, next_fd, file_size, opened_by, fd_position, appended>>
    BY <1>2 DEF DupFails, SetFdCall
  <2> QED BY <1>0, <2>1, <2>2, CallChanges
<1>3. ASSUME NEW i \in FdSlots, NEW length \in Lengths, NEW op \in {"read", "write", "append"},
             MayUse(t, i),
             fd_call' = [fd_call EXCEPT ![t] =
                           [op |-> op, fd |-> i, inode |-> descriptors[i].inode,
                            offset |-> descriptors[i].offset, length |-> length]],
             UNCHANGED <<descriptors, next_fd, file_size, opened_by, fd_position, appended>>
      PROVE FdInv'
  <2> DEFINE c == [op |-> op, fd |-> i, inode |-> descriptors[i].inode,
                   offset |-> descriptors[i].offset, length |-> length]
  <2>1. fd_call[t] = FdIdle /\ i \in OpenFds
    BY <1>3 DEF MayUse
  <2>2. c \in FdCalls /\ c.op # "write_end"
    BY <1>0, <2>1, OpenFdTypes DEF FdCalls, Transfer
  <2>3. ~Share => Knows(t, c)
    BY <1>3, MayUseKnows DEF Knows
  <2>4. fd_call' = [fd_call EXCEPT ![t] = c]
    BY <1>3
  <2> HIDE DEF c
  <2> QED BY <1>0, <1>3, <2>1, <2>2, <2>3, <2>4, CallChanges
<1>4. ASSUME ReadFile(t)
      PROVE FdInv'
  <2> DEFINE old == fd_call[t]
             n == BytesRead(fd_call[t])
             c == [op |-> "store", fd |-> old.fd, moved |-> n, offset |-> old.offset + n]
  <2>1. /\ old.op = "read" /\ WillMove(old)
        /\ old.fd \in FdSlots /\ old.inode \in FdInodes /\ old.offset \in Offsets
        /\ old.length \in Nat
    BY <1>0, <1>4, FdCallTypes DEF ReadFile, WillMove
  <2>2. file_size[old.inode] \in Offsets
    BY <1>0, <2>1 DEF FdTypeOK
  <2>3. n \in Nat /\ old.offset + n \in Offsets
    <3>1. n = IF old.offset >= file_size[old.inode] THEN 0
              ELSE IF old.length < file_size[old.inode] - old.offset THEN old.length
                   ELSE file_size[old.inode] - old.offset
      BY DEF BytesRead, Least
    <3> HIDE DEF n, old
    <3> QED BY <2>1, <2>2, <3>1, FdAssumption DEF Offsets, FdConstantsOK
  <2>4. /\ fd_call' = [fd_call EXCEPT ![t] = c]
        /\ UNCHANGED <<descriptors, next_fd, file_size, opened_by, fd_position, appended>>
    BY <1>4 DEF ReadFile, SetFdCall
  <2>5. c \in FdCalls /\ WillMove(c) /\ c.op # "write_end" /\ c.fd = old.fd
    <3> HIDE DEF n, old
    <3> QED BY <2>1, <2>3 DEF FdCalls, WillMove
  <2>6. ~Share => Knows(t, c)
    <3>1. ~Share => Knows(t, old)
      BY <2>1 DEF FdInv, CallsKnow
    <3>2. c.op = "store" /\ c.fd = old.fd /\ c.moved = n /\ c.offset = old.offset + n
      OBVIOUS
    <3> HIDE DEF c, n, old
    <3> QED BY <2>1, <3>1, <3>2 DEF Knows
  <2> HIDE DEF c, n
  <2> QED BY <2>1, <2>4, <2>5, <2>6, CallChanges
<1>5. ASSUME AppendLoadsSize(t)
      PROVE FdInv'
  <2> DEFINE old == fd_call[t]
             c == [op |-> "write_end", fd |-> old.fd, inode |-> old.inode,
                   offset |-> file_size[old.inode], length |-> old.length]
  <2>1. /\ old.op = "append" /\ WillMove(old)
        /\ old.fd \in FdSlots /\ old.inode \in FdInodes /\ old.length \in Lengths
    BY <1>0, <1>5, FdCallTypes DEF AppendLoadsSize, WillMove
  <2>2. file_size[old.inode] \in Offsets /\ file_size[old.inode] >= appended[old.inode]
    BY <1>0, <2>1 DEF FdTypeOK, FdInv, AppendsKept
  <2>3. /\ fd_call' = [fd_call EXCEPT ![t] = c]
        /\ UNCHANGED <<descriptors, next_fd, file_size, opened_by, fd_position, appended>>
    BY <1>5 DEF AppendLoadsSize, SetFdCall
  <2>4. /\ c.op = "write_end" /\ WillMove(c) /\ c.fd = old.fd
        /\ c.offset >= appended[c.inode]
    BY <2>2 DEF WillMove
  <2>5. c \in FdCalls
    <3> HIDE DEF old
    <3> QED BY <2>1, <2>2 DEF FdCalls, Transfer, old
  <2>6. ~Share => Knows(t, c)
    <3>1. ~Share => Knows(t, old)
      BY <2>1 DEF FdInv, CallsKnow
    <3> HIDE DEF c, old
    <3> QED BY <2>4, <3>1 DEF Knows
  <2> HIDE DEF c
  <2> QED BY <2>1, <2>3, <2>4, <2>5, <2>6, CallChanges
<1>6. ASSUME NEW i \in FdSlots, NEW length \in Lengths,
             ReadLooksUp(t, i, length) \/ WriteLooksUp(t, i, length)
      PROVE FdInv'
  <2>1. CASE ReadLooksUp(t, i, length)
    BY <1>3, <2>1 DEF ReadLooksUp, SetFdCall
  <2>2. CASE WriteLooksUp(t, i, length)
    <3> PICK op \in {"write", "append"} :
               op = IF descriptors[i].flags.append THEN "append" ELSE "write"
      OBVIOUS
    <3> QED BY <1>3, <2>2 DEF WriteLooksUp, SetFdCall
  <2> QED BY <1>6, <2>1, <2>2
<1> QED BY <1>1, <1>2, <1>4, <1>5, <1>6

LEMMA NextFdInv == FdInv /\ [FdNext]_fdvars => FdInv'
<1> SUFFICES ASSUME FdInv, [FdNext]_fdvars PROVE FdInv'
  OBVIOUS
<1>0. FdTypeOK
  BY DEF FdInv
<1>1. ASSUME NEW t \in FdThreads, NEW f \in FdInodes, NEW flags \in OpenModes, OpenFile(t, f, flags)
      PROVE FdInv'
  <2> DEFINE entry == [inode |-> f, flags |-> flags, offset |-> 0]
  <2>1. entry \in Entry
    BY FdAssumption DEF Entry, Offsets, FdConstantsOK
  <2>2. ~WillMove(fd_call[t]) /\ fd_call[t].op # "write_end"
    BY <1>1 DEF OpenFile, WillMove, FdIdle
  <2>3. AllocateFd(t, entry) /\ UNCHANGED <<file_size, fd_call, appended>>
    BY <1>1 DEF OpenFile
  <2> HIDE DEF entry
  <2> QED BY <2>1, <2>2, <2>3, AllocateKeeps
<1>2. ASSUME NEW t \in FdThreads, DupAllocates(t)
      PROVE FdInv'
  <2>1. fd_call[t].op = "dup" /\ fd_call[t].entry \in Entry
    BY <1>0, <1>2, FdCallTypes DEF DupAllocates
  <2>2. /\ AllocateFd(t, fd_call[t].entry) /\ UNCHANGED <<file_size, appended>>
        /\ fd_call' = [fd_call EXCEPT ![t] = FdIdle]
    BY <1>2 DEF DupAllocates, SetFdCall
  <2> QED BY <2>1, <2>2, AllocateKeeps DEF WillMove
<1>3. ASSUME UNCHANGED fdvars
      PROVE FdInv'
  BY <1>3 DEF fdvars, FdInv, FdTypeOK, AppendsKept, AppendsBehind, OffsetExact, CallsKnow,
              Knows, WillMove, OpenFds, Busy
<1> QED
  BY <1>1, <1>2, <1>3, CloseKeeps, SeekKeeps, WriteKeeps, StoreKeeps, LookingUpKeeps DEF FdNext

(* No step gives an open descriptor to another file or thread. *)
LEMMA StepKeepsFile ==
  ASSUME FdInv, [FdNext]_fdvars, NEW i \in OpenFds, descriptors'[i] # NoEntry
  PROVE  descriptors'[i].inode = descriptors[i].inode /\ opened_by'[i] = opened_by[i]
<1>0. /\ DOMAIN descriptors = FdSlots /\ DOMAIN opened_by = FdSlots /\ i \in FdSlots
      /\ FdTypeOK
  BY DEF FdInv, FdTypeOK, OpenFds
<1>1. ASSUME NEW t, NEW entry, AllocateFd(t, entry)
      PROVE descriptors'[i] = descriptors[i] /\ opened_by'[i] = opened_by[i]
  BY <1>0, <1>1 DEF AllocateFd, IsFree
<1>2. ASSUME UNCHANGED opened_by,
             \E j \in FdSlots : \E o :
               descriptors' = [descriptors EXCEPT ![j] = WithOffset(@, o)]
      PROVE descriptors'[i].inode = descriptors[i].inode
  <2> PICK j \in FdSlots : \E o : descriptors' = [descriptors EXCEPT ![j] = WithOffset(@, o)]
    BY <1>2
  <2>1. PICK o : descriptors' = [descriptors EXCEPT ![j] = WithOffset(@, o)]
    OBVIOUS
  <2>2. descriptors'[i] = IF i = j THEN WithOffset(descriptors[i], o) ELSE descriptors[i]
    BY <1>0, <2>1
  <2> QED BY <2>2 DEF WithOffset
<1>3. ASSUME NEW t \in FdThreads, StoreOffset(t)
      PROVE descriptors'[i].inode = descriptors[i].inode /\ opened_by'[i] = opened_by[i]
  <2> DEFINE o == IF fd_call[t].op = "store_end" THEN file_size[fd_call[t].inode]
                  ELSE fd_call[t].offset
  <2>1. fd_call[t].fd \in FdSlots
    BY <1>0, <1>3, FdCallTypes DEF StoreOffset, WillMove
  <2>2. /\ UNCHANGED opened_by
        /\ \/ descriptors' = descriptors
           \/ descriptors' = [descriptors EXCEPT ![fd_call[t].fd] = WithOffset(@, o)]
    BY <1>3 DEF StoreOffset, StoredOffset
  <2> HIDE DEF o
  <2> QED BY <1>2, <2>1, <2>2
<1>4. ASSUME NEW t \in FdThreads, NEW j \in FdSlots, Close(t, j)
      PROVE descriptors'[i] = descriptors[i] /\ opened_by'[i] = opened_by[i]
  BY <1>0, <1>4 DEF Close
<1>5. ASSUME NEW t \in FdThreads, NEW j \in FdSlots, NEW offset \in 0 .. MaxFileSize,
             Seek(t, j, offset)
      PROVE descriptors'[i].inode = descriptors[i].inode /\ opened_by'[i] = opened_by[i]
  BY <1>2, <1>5 DEF Seek
<1>6. ASSUME UNCHANGED <<descriptors, opened_by>>
      PROVE descriptors'[i].inode = descriptors[i].inode /\ opened_by'[i] = opened_by[i]
  BY <1>6
<1>7. CASE FdNext
  BY <1>1, <1>3, <1>4, <1>5, <1>6, <1>7
     DEF FdNext, OpenFile, DupAllocates, DupGets, DupFails, ReadLooksUp, ReadFile,
         WriteLooksUp, AppendLoadsSize, WriteFile
<1> QED BY <1>6, <1>7 DEF fdvars

(* However threads use the table, open descriptors keep their file and     *)
(* appends, one at a time, go behind each other; offsets are exact if no   *)
(* two threads use one descriptor.                                         *)
THEOREM DescriptorsHold == FdSpec => DescriptorsExact
<1> DEFINE Kept == \A i \in OpenFds :
                     descriptors'[i] # NoEntry =>
                       descriptors'[i].inode = descriptors[i].inode
                         /\ opened_by'[i] = opened_by[i]
<1>1. FdInv => AppendsKept /\ (~Share => OffsetExact)
  BY DEF FdInv
<1>2. FdInv /\ [FdNext]_fdvars => [Kept]_fdvars
  BY StepKeepsFile
<1> QED
  BY <1>1, <1>2, InitFdInv, NextFdInv, PTL DEF FdSpec, DescriptorsExact, KeepsFile

-----------------------------------------------------------------------------
(* Products, quotients and remainders *)

LEMMA TimesMonotone ==
  ASSUME NEW m \in Nat, NEW a \in Nat, NEW b \in Nat, a <= b
  PROVE  m * a <= m * b
OBVIOUS

(* A product of positive factors is no less than either *)
LEMMA MultipleNotLess ==
  ASSUME NEW m \in Nat \ {0}, NEW d \in Int, d >= 1
  PROVE  m * d >= m
OBVIOUS

(* Of the numbers below a modulus no two are congruent *)
LEMMA DistinctResidues ==
  ASSUME NEW m \in Nat \ {0}, NEW x \in Nat, NEW y \in Nat, x < y, y - x < m
  PROVE  x % m # y % m
<1> SUFFICES ASSUME x % m = y % m PROVE FALSE
  OBVIOUS
<1> DEFINE p == x \div m  q == y \div m
<1>1. p \in Int /\ q \in Int /\ x = m * p + (x % m) /\ y = m * q + (y % m)
  OBVIOUS
<1>2. y - x = m * (q - p)
  BY <1>1
<1>3. CASE q - p >= 1
  BY <1>1, <1>2, <1>3, MultipleNotLess
<1>4. CASE q - p <= 0
  <2>1. m * (p - q) >= 0
    BY <1>1, <1>4
  <2>2. m * (p - q) = x - y
    BY <1>1, <1>2
  <2> QED BY <2>1, <2>2
<1> QED BY <1>1, <1>3, <1>4

(* A quotient grows with each multiple added, the rest stays *)
LEMMA QuotientOfSum ==
  ASSUME NEW m \in Nat \ {0}, NEW x \in Nat, NEW q \in Nat
  PROVE  ((x + m * q) \div m) = (x \div m) + q /\ (x + m * q) % m = x % m
<1>1. x = m * (x \div m) + (x % m) /\ x \div m \in Int /\ x % m \in 0 .. m - 1
  OBVIOUS
<1>2. x + m * q = m * ((x \div m) + q) + (x % m)
  BY <1>1
<1>3. x + m * q = m * ((x + m * q) \div m) + ((x + m * q) % m)
      /\ (x + m * q) \div m \in Int /\ (x + m * q) % m \in 0 .. m - 1
  OBVIOUS
<1> DEFINE d == (x + m * q) \div m - ((x \div m) + q)
<1>4. m * d = (x % m) - ((x + m * q) % m) /\ d \in Int
  BY <1>1, <1>2, <1>3
<1>5. d <= 0
  BY <1>1, <1>3, <1>4, MultipleNotLess
<1>6. d >= 0
  <2>1. m * (0 - d) = ((x + m * q) % m) - (x % m)
    BY <1>4
  <2>2. ~(0 - d >= 1)
    BY <1>1, <1>3, <1>4, <2>1, MultipleNotLess
  <2> QED BY <1>4, <2>2
<1>7. d = 0
  BY <1>4, <1>5, <1>6
<1> HIDE DEF d
<1> QED BY <1>1, <1>3, <1>4, <1>7 DEF d

-----------------------------------------------------------------------------
(* The heap *)

(* Aligned requests are served from where the pointer is *)
LEMMA SmallResidue ==
  ASSUME NEW m \in Nat \ {0}, NEW x \in 0 .. m - 1
  PROVE  x % m = x
<1> DEFINE r == x % m  q == x \div m
<1>1. x \in Nat /\ r \in Nat /\ q \in Nat /\ r < m /\ x = r + m * q
  OBVIOUS
<1> HIDE DEF r, q
<1>2. (r + m * q) % m = r % m
  BY <1>1, QuotientOfSum
<1>3. r <= x
  BY <1>1
<1>4. x % m = r % m
  BY <1>1, <1>2
<1>5. ~(r < x)
  BY <1>1, <1>4, DistinctResidues
<1> QED BY <1>1, <1>3, <1>5 DEF r

LEMMA BelowBound ==
  ASSUME NEW n \in Nat, NEW k \in Nat, k < n
  PROVE  k \in 0 .. n - 1
OBVIOUS

LEMMA HeapModPositive == HeapMod \in Nat \ {0} /\ HEAP_ALIGN \in Nat \ {0}
BY HeapAssumption

LEMMA ResidueOfSum ==
  ASSUME NEW m \in Nat \ {0}, NEW x \in Nat, NEW j \in Nat
  PROVE  ((x % m) + j) % m = (x + j) % m
<1>1. x = (x % m) + m * (x \div m) /\ x \div m \in Nat /\ x % m \in Nat
  OBVIOUS
<1> DEFINE y == (x % m) + j
<1>2. y \in Nat /\ x + j = y + m * (x \div m)
  BY <1>1
<1> HIDE DEF y
<1>3. (y + m * (x \div m)) % m = y % m
  BY <1>1, <1>2, QuotientOfSum
<1> QED BY <1>2, <1>3 DEF y

LEMMA StartOfBlock ==
  ASSUME NEW l \in Layouts, next \in Nat
  PROVE  Padding(next, l) \in Nat /\ Start(next, l) = UnitAt(Padding(next, l), next)
<1> DEFINE m == AlignOf(l)  x == HEAP_START + next
           q == (x + m - 1) \div m  r == (x + m - 1) % m
<1>1. m \in Nat \ {0} /\ x \in Nat
  BY HeapAssumption DEF Layouts, AlignOf
<1>2. q \in Nat /\ r \in Nat /\ r < m /\ x + m - 1 = r + q * m
  BY <1>1
<1>3. AlignUp(x, m) = q * m
  BY DEF AlignUp
<1> DEFINE n == q * m
<1>4. n \in Nat
  BY <1>1, <1>2
<1>5. Padding(next, l) = n - x
  BY <1>3 DEF Padding
<1>6. Start(next, l) = n % HeapMod
  BY <1>3 DEF Start
<1>7. x + m - 1 = r + n
  BY <1>2
<1> HIDE DEF m, q, r, n
<1>8. n >= x
  BY <1>1, <1>2, <1>4, <1>7
<1>9. n - x \in Nat /\ HEAP_START + (n - x) + next = n
  BY <1>1, <1>4, <1>8, HeapAssumption
<1> QED BY <1>5, <1>6, <1>9 DEF UnitAt

LEMMA UnitsDiffer ==
  ASSUME NEW padding \in Nat, NEW j \in Nat, NEW k \in Nat, j < k, k < HeapMod
  PROVE  UnitAt(padding, j) # UnitAt(padding, k)
<1> DEFINE b == HEAP_START + padding
<1>1. b \in Nat /\ HeapMod \in Nat \ {0}
  BY HeapAssumption
<1> HIDE DEF b
<1>2. b + j \in Nat /\ b + k \in Nat /\ b + j < b + k /\ (b + k) - (b + j) < HeapMod
  BY <1>1
<1>3. (b + j) % HeapMod # (b + k) % HeapMod
  BY <1>1, <1>2, DistinctResidues
<1> QED BY <1>3 DEF UnitAt, b

(* The block a call makes when the pointer is where it is. *)
NextBlock(l) == [start |-> Start(next, l), size |-> l.size, padding |-> Padding(next, l)]

(* A step of alloc that finds room: its block is the units from the        *)
(* pointer on, moved by its padding.                                       *)
LEMMA NewBlock ==
  ASSUME BumpInv, NEW l \in Layouts, next' = Advanced(l), next' >= next
  PROVE  /\ next' = next + l.size /\ next' \in 0 .. HeapMod - 1
         /\ \A u \in Units(NextBlock(l)) :
              \E k \in Nat : next <= k /\ k < next' /\ u % HeapMod = UnitAt(Padding(next, l), k)
<1>1. next \in 0 .. HeapMod - 1 /\ l.size \in Nat \ {0} /\ HeapMod \in Nat \ {0}
  BY HeapAssumption DEF BumpInv, BumpTypeOK, Layouts
<1>2. next' \in 0 .. HeapMod - 1
  BY <1>1 DEF Advanced
<1>3. next' = next + l.size
  <2>1. l.size < HeapMod
    BY HeapAssumption DEF Layouts
  <2>2. CASE next + l.size < HeapMod
    <3>1. next + l.size \in 0 .. HeapMod - 1
      BY <1>1, <2>2
    <3> QED BY <1>1, <3>1, SmallResidue DEF Advanced
  <2>3. CASE next + l.size >= HeapMod
    <3> DEFINE y == next + l.size - HeapMod
    <3>1. y \in Nat /\ y < HeapMod /\ y < next /\ next + l.size = y + HeapMod * 1
      BY <1>1, <2>1, <2>3
    <3> HIDE DEF y
    <3>2. (y + HeapMod * 1) % HeapMod = y % HeapMod
      BY <1>1, <3>1, QuotientOfSum
    <3>3. next' = y
      BY <1>1, <3>1, <3>2 DEF Advanced
    <3> QED BY <1>1, <3>1, <3>3
  <2> QED BY <1>1, <2>2, <2>3
<1>4. Padding(next, l) \in Nat /\ Start(next, l) = UnitAt(Padding(next, l), next)
  BY <1>1, StartOfBlock
<1>5. ASSUME NEW u \in Units(NextBlock(l))
      PROVE  \E k \in Nat : next <= k /\ k < next' /\ u % HeapMod = UnitAt(Padding(next, l), k)
  <2> DEFINE b == HEAP_START + Padding(next, l)
             j == u - Start(next, l)
  <2>1. b + next \in Nat /\ Start(next, l) = (b + next) % HeapMod
    BY <1>1, <1>4, HeapAssumption DEF UnitAt
  <2>2. Start(next, l) \in Nat
    BY <1>1, <2>1
  <2>3. j \in 0 .. l.size - 1 /\ u = Start(next, l) + j
    BY <1>1, <2>2 DEF Units, NextBlock
  <2> HIDE DEF j
  <2>4. u % HeapMod = ((b + next) + j) % HeapMod
    BY <1>1, <2>1, <2>3, ResidueOfSum
  <2>5. b \in Nat
    BY <1>4, HeapAssumption
  <2>6. (b + next) + j = b + (next + j)
    BY <1>1, <2>3, <2>5
  <2>7. u % HeapMod = UnitAt(Padding(next, l), next + j)
    BY <2>4, <2>6 DEF UnitAt
  <2>8. next + j \in Nat /\ next <= next + j /\ next + j < next'
    BY <1>1, <1>3, <2>3
  <2> QED BY <2>7, <2>8
<1> QED BY <1>2, <1>3, <1>5

LEMMA BumpInvHolds == BumpSpec => []BumpInv
<1>1. BumpInit => BumpInv
  BY HeapAssumption DEF BumpInit, BumpInv, BumpTypeOK, HeapCalls, UnitsBelowNext
<1>2. BumpInv /\ [BumpNext]_bumpvars => BumpInv'
  <2> SUFFICES ASSUME BumpInv, [BumpNext]_bumpvars PROVE BumpInv'
    OBVIOUS
  <2>1. ASSUME NEW t \in HeapThreads, NEW l \in Layouts, AllocAdvances(t, l), next' >= next
        PROVE  BumpInv'
    <3> DEFINE b == NextBlock(l)
    <3>1. /\ next' = next + l.size /\ next' \in 0 .. HeapMod - 1
          /\ \A u \in Units(b) :
               \E k \in Nat : next <= k /\ k < next' /\ u % HeapMod = UnitAt(b.padding, k)
      BY <2>1, NewBlock DEF AllocAdvances, NextBlock
    <3>2. next \in Nat /\ next' \in Nat /\ next' >= next
      BY <2>1, <3>1 DEF BumpInv, BumpTypeOK
    <3>3. CASE UNCHANGED <<heap_call, blocks>>
      <4>1. BumpTypeOK'
        BY <2>1, <3>1, <3>3 DEF AllocAdvances, BumpInv, BumpTypeOK
      <4>2. \A i \in DOMAIN blocks : \A u \in Units(blocks[i]) :
               \E k \in 0 .. (next' - 1) : u % HeapMod = UnitAt(blocks[i].padding, k)
        <5> TAKE i \in DOMAIN blocks
        <5> TAKE u \in Units(blocks[i])
        <5>1. PICK k \in 0 .. next - 1 : u % HeapMod = UnitAt(blocks[i].padding, k)
          BY DEF BumpInv, UnitsBelowNext
        <5>2. k \in Nat /\ k < next'
          BY <3>2, <5>1
        <5>3. k \in 0 .. (next' - 1)
          BY <3>2, <5>2, BelowBound
        <5> QED BY <5>1, <5>3
      <4>3. UnitsBelowNext'
        BY <3>3, <4>2 DEF UnitsBelowNext, UnitAt, Units
      <4> QED BY <3>1, <4>1, <4>3 DEF BumpInv
    <3>4. CASE /\ blocks' = Append(blocks, b)
               /\ heap_call' = [heap_call EXCEPT ![t] = [op |-> "load_next"]]
      <4>1. b \in BlockRecords
        <5>1. Padding(next, l) \in Nat /\ Start(next, l) = UnitAt(Padding(next, l), next)
          BY <3>2, StartOfBlock
        <5>2. Start(next, l) \in 0 .. HeapMod - 1
          BY <3>2, <5>1, HeapAssumption DEF UnitAt
        <5> QED BY <5>1, <5>2, HeapAssumption DEF Layouts, NextBlock, BlockRecords
      <4>2. BumpTypeOK'
        BY <2>1, <3>1, <3>4, <4>1 DEF AllocAdvances, BumpInv, BumpTypeOK, HeapCalls
      <4>3. UnitsBelowNext'
        <5> SUFFICES ASSUME NEW i \in DOMAIN blocks', NEW u \in Units(blocks'[i])
                     PROVE  \E k \in 0 .. (next' - 1) : u % HeapMod = UnitAt(blocks'[i].padding, k)
          BY DEF UnitsBelowNext, UnitAt, Units
        <5>1. CASE i = Len(blocks) + 1
          <6>1. blocks'[i] = b
            BY <3>4, <5>1 DEF BumpInv, BumpTypeOK
          <6>2. PICK k \in Nat : next <= k /\ k < next' /\ u % HeapMod = UnitAt(b.padding, k)
            BY <3>1, <6>1
          <6>3. k \in 0 .. (next' - 1)
            BY <3>2, <6>2, BelowBound
          <6> QED BY <6>1, <6>2, <6>3
        <5>2. CASE i \in DOMAIN blocks
          <6>1. blocks'[i] = blocks[i]
            BY <3>4, <5>2 DEF BumpInv, BumpTypeOK
          <6>2. PICK k \in 0 .. next - 1 : u % HeapMod = UnitAt(blocks[i].padding, k)
            BY <5>2, <6>1 DEF BumpInv, UnitsBelowNext
          <6>3. k \in Nat /\ k < next'
            BY <3>2, <6>2
          <6>4. k \in 0 .. (next' - 1)
            BY <3>2, <6>3, BelowBound
          <6> QED BY <6>1, <6>2, <6>4
        <5> QED BY <3>4, <5>1, <5>2 DEF BumpInv, BumpTypeOK
      <4> QED BY <3>1, <4>2, <4>3 DEF BumpInv
    <3>5. b = [start |-> Start(next, l), size |-> l.size, padding |-> Padding(next, l)]
      BY DEF NextBlock
    <3> HIDE DEF b
    <3> QED BY <2>1, <3>3, <3>4, <3>5 DEF AllocAdvances
  <2>2. ASSUME NEW t \in HeapThreads, AllocLoadsNext(t) \/ AllocStoresUsed(t)
        PROVE  BumpInv'
    <3>1. UNCHANGED <<next, blocks>>
      BY <2>2 DEF AllocLoadsNext, AllocStoresUsed
    <3>2. BumpTypeOK'
      <4>1. CASE AllocLoadsNext(t)
        BY <3>1, <4>1 DEF AllocLoadsNext, BumpInv, BumpTypeOK, HeapCalls
      <4>2. CASE AllocStoresUsed(t)
        <5>1. heap_call[t] \in HeapCalls /\ heap_call[t].op = "store_used"
          BY <4>2 DEF AllocStoresUsed, BumpInv, BumpTypeOK
        <5>2. heap_call[t].used \in 0 .. HeapMod - 1
          BY <5>1 DEF HeapCalls, HeapIdle
        <5> QED BY <3>1, <4>2, <5>2 DEF AllocStoresUsed, BumpInv, BumpTypeOK, HeapCalls
      <4> QED BY <2>2, <4>1, <4>2
    <3>3. UnitsBelowNext'
      BY <3>1 DEF BumpInv, UnitsBelowNext, UnitAt
    <3> QED BY <3>1, <3>2, <3>3 DEF BumpInv
  <2>3. CASE UNCHANGED bumpvars
    BY <2>3 DEF bumpvars, BumpInv, BumpTypeOK, UnitsBelowNext, UnitAt
  <2> QED BY <2>1, <2>2, <2>3 DEF BumpNext
<1> QED BY <1>1, <1>2, PTL DEF BumpSpec

(* Whatever is requested of alloc, wherever the heap starts and however     *)
(* calls interleave, two blocks with the same padding share no unit: the   *)
(* fetch_add reserves each range once, and equal paddings move two of them *)
(* alike.                                                                  *)
THEOREM HeapHandsOutOnce == BumpSpec => HeapAllocates
<1> DEFINE handed == [i \in DOMAIN blocks |-> {blocks[i].padding} \X Units(blocks[i])]
<1>1. BumpInit => HeapBlocks!Init
  BY DEF BumpInit, HeapBlocks!Init
<1>2. BumpInv /\ [BumpNext]_bumpvars => [HeapBlocks!Allocate \/ HeapBlocks!Release]_handed
  <2> SUFFICES ASSUME BumpInv, [BumpNext]_bumpvars, blocks' # blocks
               PROVE  HeapBlocks!Allocate
    OBVIOUS
  <2>1. PICK t \in HeapThreads, l \in Layouts : AllocAdvances(t, l) /\ next' >= next
    BY DEF BumpNext, bumpvars, AllocLoadsNext, AllocStoresUsed
  <2> DEFINE b == NextBlock(l)
             n == Len(blocks) + 1
  <2>2. blocks' = Append(blocks, b) /\ Len(blocks) \in Nat
    <3>1. b = [start |-> Start(next, l), size |-> l.size, padding |-> Padding(next, l)]
      BY DEF NextBlock
    <3> HIDE DEF b
    <3>2. blocks' = Append(blocks, b)
      BY <2>1, <3>1 DEF AllocAdvances
    <3> QED BY <3>2 DEF BumpInv, BumpTypeOK
  <2>3. /\ DOMAIN blocks = 1 .. Len(blocks) /\ DOMAIN blocks' = DOMAIN blocks \cup {n}
        /\ n \notin DOMAIN blocks
        /\ blocks'[n] = b /\ \A m \in DOMAIN blocks : blocks'[m] = blocks[m]
    BY <2>2 DEF BumpInv, BumpTypeOK
  <2>4. ASSUME NEW m \in DOMAIN blocks, NEW u \in Units(blocks[m]), u \in Units(b),
               blocks[m].padding = b.padding
        PROVE  FALSE
    <3> DEFINE p == b.padding
    <3>1. PICK j \in 0 .. next - 1 : u % HeapMod = UnitAt(p, j)
      BY <2>4 DEF BumpInv, UnitsBelowNext
    <3>2. p = Padding(next, l)
      BY DEF NextBlock
    <3>3. PICK k \in Nat : next <= k /\ k < next' /\ u % HeapMod = UnitAt(p, k)
      BY <2>1, <2>4, <3>2, NewBlock DEF AllocAdvances
    <3>4. next' \in 0 .. HeapMod - 1 /\ next \in Nat
      BY <2>1, NewBlock DEF AllocAdvances, BumpInv, BumpTypeOK
    <3>5. j \in Nat /\ k \in Nat /\ j < k /\ k < HeapMod
      BY <3>1, <3>3, <3>4, HeapModPositive
    <3>6. p \in Nat
      BY <3>2, <3>4, StartOfBlock
    <3> HIDE DEF p
    <3> QED BY <3>1, <3>3, <3>5, <3>6, UnitsDiffer
  <2>5. /\ DOMAIN handed = DOMAIN blocks /\ DOMAIN handed' = DOMAIN handed \cup {n}
        /\ n \in DOMAIN handed' \ DOMAIN handed
        /\ handed'[n] = {b.padding} \X Units(b)
        /\ \A m \in DOMAIN handed : handed[m] = {blocks[m].padding} \X Units(blocks[m])
        /\ \A m \in DOMAIN handed : handed'[m] = handed[m]
    BY <2>3 DEF Units
  <2>6. ASSUME NEW m \in DOMAIN handed PROVE handed[m] \cap handed'[n] = {}
    BY <2>4, <2>5
  <2> QED BY <2>5, <2>6 DEF HeapBlocks!Allocate
<1> QED BY <1>1, <1>2, BumpInvHolds, PTL DEF BumpSpec, HeapAllocates, HeapBlocks!Spec

-----------------------------------------------------------------------------
(* The slab caches *)

LEMMA MembersOf ==
  ASSUME NEW s
  PROVE  /\ \A i \in DOMAIN s : s[i] \in ToSet(s)
         /\ \A x \in ToSet(s) : \E i \in DOMAIN s : x = s[i]
BY DEF ToSet

(* Appending a sequence without repetitions whose members are new adds     *)
(* them, and repeats nothing.                                              *)
LEMMA ConcatKeepsDistinct ==
  ASSUME NEW S, NEW s \in Seq(S), NEW t \in Seq(S),
         IsInjective(s), IsInjective(t), ToSet(s) \cap ToSet(t) = {}
  PROVE  /\ IsInjective(s \o t)
         /\ ToSet(s \o t) = ToSet(s) \cup ToSet(t)
<1> DEFINE r == s \o t
           m == Len(s)
           n == Len(t)
<1>1. /\ m \in Nat /\ n \in Nat /\ DOMAIN s = 1 .. m /\ DOMAIN t = 1 .. n
      /\ r \in Seq(S) /\ DOMAIN r = 1 .. m + n
      /\ \A i \in 1 .. m : r[i] = s[i]
      /\ \A i \in 1 .. m + n : i > m => i - m \in 1 .. n /\ r[i] = t[i - m]
  <2>1. m \in Nat /\ n \in Nat /\ DOMAIN s = 1 .. m /\ DOMAIN t = 1 .. n
    OBVIOUS
  <2>2. r \in Seq(S) /\ Len(r) = m + n /\ DOMAIN r = 1 .. Len(r)
    BY ConcatProperties, LenProperties
  <2>3. \A i \in 1 .. m + n : r[i] = IF i <= m THEN s[i] ELSE t[i - m]
    BY ConcatProperties
  <2> QED BY <2>1, <2>2, <2>3
<1> HIDE DEF r, m, n
<1>2. ASSUME NEW i \in 1 .. m + n, NEW j \in 1 .. m + n, r[i] = r[j] PROVE i = j
  <2>1. CASE i <= m /\ j <= m
    <3>1. i \in 1 .. m /\ j \in 1 .. m
      BY <1>1, <1>2, <2>1
    <3>2. i \in DOMAIN s /\ j \in DOMAIN s /\ s[i] = s[j]
      BY <1>1, <1>2, <3>1
    <3> QED BY <3>2 DEF IsInjective
  <2>2. CASE i > m /\ j > m
    <3>1. i - m \in DOMAIN t /\ j - m \in DOMAIN t /\ t[i - m] = t[j - m]
      BY <1>1, <1>2, <2>2
    <3>2. i - m = j - m
      BY <3>1 DEF IsInjective
    <3>3. i \in Int /\ j \in Int /\ m \in Int
      BY <1>1, <1>2
    <3> QED BY <3>2, <3>3
  <2>3. ASSUME NEW a \in 1 .. m + n, NEW b \in 1 .. m + n, a <= m, b > m PROVE r[a] # r[b]
    <3>1. r[a] \in ToSet(s) /\ r[b] \in ToSet(t)
      BY <1>1, <2>3, MembersOf
    <3> QED BY <3>1
  <2> QED BY <1>1, <1>2, <2>1, <2>2, <2>3
<1>3. ToSet(r) = ToSet(s) \cup ToSet(t)
  <2>1. \A i \in 1 .. m + n : r[i] \in ToSet(s) \cup ToSet(t)
    <3> SUFFICES ASSUME NEW i \in 1 .. m + n PROVE r[i] \in ToSet(s) \cup ToSet(t)
      OBVIOUS
    <3>1. CASE i <= m
      BY <1>1, <3>1, MembersOf
    <3>2. CASE i > m
      BY <1>1, <3>2, MembersOf
    <3> QED BY <1>1, <3>1, <3>2
  <2>2. \A i \in 1 .. m : i \in DOMAIN r /\ r[i] = s[i]
    BY <1>1
  <2>3. \A i \in 1 .. n : i + m \in DOMAIN r /\ r[i + m] = t[i]
    BY <1>1
  <2>4. \A x \in ToSet(r) : x \in ToSet(s) \cup ToSet(t)
    BY <1>1, <2>1, MembersOf
  <2>5. \A x \in ToSet(s) \cup ToSet(t) : x \in ToSet(r)
    BY <1>1, <2>2, <2>3, MembersOf
  <2> QED BY <2>4, <2>5
<1> QED BY <1>1, <1>2, <1>3 DEF IsInjective, r

(* Without its last member a sequence without repetitions has all but it.  *)
LEMMA FrontOfDistinct ==
  ASSUME NEW S, NEW s \in Seq(S), s # <<>>, IsInjective(s)
  PROVE  /\ Front(s) \in Seq(S) /\ IsInjective(Front(s))
         /\ Last(s) \in S /\ Last(s) \in ToSet(s)
         /\ ToSet(Front(s)) = ToSet(s) \ {Last(s)}
<1> DEFINE n == Len(s)
<1>1. n \in Nat \ {0} /\ DOMAIN s = 1 .. n
  BY EmptySeq
<1>2. /\ Front(s) \in Seq(S) /\ DOMAIN Front(s) = 1 .. n - 1
      /\ \A i \in 1 .. n - 1 : Front(s)[i] = s[i]
  <2>1. \A i \in 1 .. n - 1 : s[i] \in S
    BY <1>1
  <2>2. /\ SubSeq(s, 1, n - 1) \in Seq(S) /\ Len(SubSeq(s, 1, n - 1)) = n - 1
        /\ \A i \in 1 .. n - 1 : SubSeq(s, 1, n - 1)[i] = s[i]
    BY <1>1, <2>1, SubSeqProperties
  <2> QED BY <1>1, <2>2, LenProperties DEF Front
<1>3. Last(s) = s[n] /\ n \in DOMAIN s
  BY <1>1 DEF Last
<1>4. IsInjective(Front(s))
  BY <1>1, <1>2 DEF IsInjective
<1>5. \A i \in 1 .. n - 1 : i \in DOMAIN s /\ s[i] # s[n]
  BY <1>1 DEF IsInjective
<1>6. \A x \in ToSet(Front(s)) : x \in ToSet(s) \ {s[n]}
  BY <1>2, <1>5, MembersOf
<1>7. \A x \in ToSet(s) \ {s[n]} : x \in ToSet(Front(s))
  BY <1>1, <1>2, MembersOf
<1>8. Last(s) \in S /\ Last(s) \in ToSet(s)
  BY <1>1, <1>3, MembersOf
<1> QED BY <1>2, <1>3, <1>4, <1>6, <1>7, <1>8

(* A sequence without repetitions has as many members as it is long.       *)
LEMMA DistinctCounted ==
  ASSUME NEW S, NEW s \in Seq(S), IsInjective(s)
  PROVE  IsFiniteSet(ToSet(s)) /\ Cardinality(ToSet(s)) = Len(s)
<1>1. Len(s) \in Nat /\ DOMAIN s = 1 .. Len(s)
  OBVIOUS
<1>2. IsFiniteSet(1 .. Len(s)) /\ Cardinality(1 .. Len(s)) = Len(s)
  <2>1. \A n \in Nat : /\ IsFiniteSet(1 .. n)
                      /\ Cardinality(1 .. n) = IF 1 > n THEN 0 ELSE n - 1 + 1
    BY FS_Interval
  <2>2. \A n \in Nat : Cardinality(1 .. n) = n
    BY <2>1
  <2> QED BY <1>1, <2>1, <2>2
<1>3. s \in Bijection(1 .. Len(s), ToSet(s))
  BY <1>1 DEF Bijection, Injection, Surjection, IsInjective, ToSet
<1> QED BY <1>2, <1>3, FS_Bijection DEF ExistsBijection

(* The stride leaves room for an object.                                   *)
LEMMA StrideHoldsObject ==
  ASSUME NEW c \in CacheType
  PROVE  Stride(c) \in Nat /\ Stride(c) >= c.size /\ Stride(c) > 0
<1> DEFINE x == c.size + c.align - 1
           q == x \div c.align
<1>1. c.size \in Nat \ {0} /\ c.align \in Nat \ {0} /\ x \in Nat
  BY DEF CacheType
<1>2. q \in Nat /\ x = c.align * q + (x % c.align) /\ x % c.align \in 0 .. c.align - 1
  BY <1>1
<1>3. Stride(c) = q * c.align
  BY DEF Stride
<1>4. c.align - 1 >= x % c.align
  BY <1>1, <1>2
<1> HIDE DEF q
<1>5. c.align * q \in Nat /\ c.align * q = q * c.align
  BY <1>1, <1>2
<1>6. c.align * q >= x - (c.align - 1)
  BY <1>1, <1>2, <1>4, <1>5
<1>7. x - (c.align - 1) = c.size
  BY <1>1
<1> QED BY <1>1, <1>3, <1>5, <1>6, <1>7

(* Two objects of a slab have no byte in common.                           *)
LEMMA OffsetsApart ==
  ASSUME NEW c \in CacheType, NEW first \in Nat
  PROVE  /\ ObjectOffsets(c, first) \in Seq(Nat)
         /\ IsInjective(ObjectOffsets(c, first))
         /\ \A x, y \in ToSet(ObjectOffsets(c, first)) :
              x # y => x + c.size <= y \/ y + c.size <= x
<1> DEFINE s == Stride(c)
           room == SLAB_PAGE_SIZE - first - c.size
           count == IF first + c.size > SLAB_PAGE_SIZE THEN 0 ELSE room \div s + 1
           offsets == [j \in 1 .. count |-> first + (j - 1) * s]
<1>1. /\ c.size \in Nat \ {0} /\ s \in Nat \ {0} /\ s >= c.size
      /\ SLAB_PAGE_SIZE \in Nat
  BY StrideHoldsObject, SlabAssumption DEF CacheType
<1>2. count \in Nat
  <2>1. CASE first + c.size > SLAB_PAGE_SIZE
    BY <2>1
  <2>2. CASE ~(first + c.size > SLAB_PAGE_SIZE)
    <3>1. room \in Nat
      BY <1>1, <2>2
    <3>2. room \div s \in Nat
      BY <1>1, <3>1
    <3> QED BY <2>2, <3>2
  <2> QED BY <2>1, <2>2
<1>3. offsets = ObjectOffsets(c, first)
  BY DEF ObjectOffsets
<1> HIDE DEF s, count
<1>4. \A j \in 1 .. count : (j - 1) * s \in Nat /\ first + (j - 1) * s \in Nat
  <2> SUFFICES ASSUME NEW j \in 1 .. count PROVE (j - 1) * s \in Nat
    OBVIOUS
  <2>1. j - 1 \in Nat
    BY <1>2
  <2> QED BY <1>1, <2>1
<1>5. ASSUME NEW j \in 1 .. count, NEW k \in 1 .. count, j < k
      PROVE  offsets[j] + c.size <= offsets[k]
  <2>1. j \in Int /\ k \in Int /\ k - j \in Int /\ k - j >= 1
    BY <1>2, <1>5
  <2>2. s * (k - j) >= s
    BY <1>1, <2>1, MultipleNotLess
  <2>3. (k - 1) * s = (j - 1) * s + s * (k - j)
    BY <1>1, <2>1
  <2>4. offsets[j] = first + (j - 1) * s /\ offsets[k] = first + (k - 1) * s
    OBVIOUS
  <2>5. (j - 1) * s \in Nat /\ (k - 1) * s \in Nat /\ s * (k - j) \in Int
    BY <1>1, <1>4, <2>1
  <2> QED BY <1>1, <2>2, <2>3, <2>4, <2>5
<1>6. /\ DOMAIN offsets = 1 .. count /\ \A j \in 1 .. count : offsets[j] \in Nat
      /\ offsets \in Seq(Nat)
  BY <1>2, <1>4, IsASeq
<1> HIDE DEF offsets
<1>7. \A j, k \in 1 .. count :
        j # k => offsets[j] + c.size <= offsets[k] \/ offsets[k] + c.size <= offsets[j]
  <2> SUFFICES ASSUME NEW j \in 1 .. count, NEW k \in 1 .. count, j # k
               PROVE  offsets[j] + c.size <= offsets[k] \/ offsets[k] + c.size <= offsets[j]
    OBVIOUS
  <2>1. j < k \/ k < j
    BY <1>2
  <2> QED BY <1>5, <2>1
<1>8. \A j, k \in 1 .. count : j # k => offsets[j] # offsets[k]
  BY <1>1, <1>6, <1>7
<1>9. IsInjective(offsets)
  BY <1>6, <1>8 DEF IsInjective
<1>10. \A x, y \in ToSet(offsets) : x # y => x + c.size <= y \/ y + c.size <= x
  <2> SUFFICES ASSUME NEW x \in ToSet(offsets), NEW y \in ToSet(offsets), x # y
               PROVE  x + c.size <= y \/ y + c.size <= x
    OBVIOUS
  <2>1. PICK j \in 1 .. count : x = offsets[j]
    BY <1>6, MembersOf
  <2>2. PICK k \in 1 .. count : y = offsets[k]
    BY <1>6, MembersOf
  <2> QED BY <1>7, <2>1, <2>2
<1> QED BY <1>3, <1>6, <1>9, <1>10

(* The last object of a slab ends in its page.                             *)
LEMMA OffsetsFit ==
  ASSUME NEW c \in CacheType, NEW first \in Nat, NEW x \in ToSet(ObjectOffsets(c, first))
  PROVE  x + c.size <= SLAB_PAGE_SIZE
<1> DEFINE s == Stride(c)
           room == SLAB_PAGE_SIZE - first - c.size
           count == IF first + c.size > SLAB_PAGE_SIZE THEN 0 ELSE room \div s + 1
           offsets == [j \in 1 .. count |-> first + (j - 1) * s]
<1>1. c.size \in Nat \ {0} /\ s \in Nat \ {0} /\ SLAB_PAGE_SIZE \in Nat
  BY StrideHoldsObject, SlabAssumption DEF CacheType
<1>2. offsets = ObjectOffsets(c, first)
  BY DEF ObjectOffsets
<1>3. PICK j \in 1 .. count : x = first + (j - 1) * s
  <2>1. DOMAIN offsets = 1 .. count /\ \A j \in 1 .. count : offsets[j] = first + (j - 1) * s
    OBVIOUS
  <2>2. x \in ToSet(offsets)
    BY <1>2
  <2> HIDE DEF offsets, count, s, room
  <2>3. PICK j \in DOMAIN offsets : x = offsets[j]
    BY <2>2, MembersOf
  <2> QED BY <2>1, <2>3
<1>4. ~(first + c.size > SLAB_PAGE_SIZE)
  BY <1>3
<1>5. room \in Nat /\ count = room \div s + 1
  BY <1>1, <1>4
<1> HIDE DEF s, room, count, offsets
<1>6. room \div s \in Nat /\ s * (room \div s) <= room
  BY <1>1, <1>5
<1>7. j - 1 \in Nat /\ j - 1 <= room \div s
  BY <1>3, <1>5, <1>6
<1>8. s * (j - 1) <= s * (room \div s)
  BY <1>1, <1>6, <1>7, TimesMonotone
<1>9. (j - 1) * s <= room
  <2>1. (j - 1) * s = s * (j - 1) /\ s * (j - 1) \in Nat /\ s * (room \div s) \in Nat
    BY <1>1, <1>6, <1>7
  <2> QED BY <1>5, <1>6, <1>8, <2>1
<1>10. (j - 1) * s \in Nat
  BY <1>1, <1>7
<1> QED BY <1>1, <1>3, <1>9, <1>10 DEF room

(* Caches of one size and alignment have their objects at the same offsets *)
LEMMA OffsetsOfShape ==
  ASSUME NEW c, NEW d, NEW first, c.size = d.size, c.align = d.align
  PROVE  ObjectOffsets(c, first) = ObjectOffsets(d, first)
BY DEF ObjectOffsets, Stride

LEMMA ObjectIn ==
  ASSUME NEW c, NEW i, NEW p
  PROVE  p \in ObjectsOf(c, i) <=>
           \E k \in DOMAIN c.slabs : \E o \in ToSet(ObjectOffsets(c, c.slabs[k])) : p = <<i, k, o>>
BY DEF ObjectsOf

LEMMA ObjectsOfShape ==
  ASSUME NEW c, NEW d, NEW i, c.size = d.size, c.align = d.align, c.slabs = d.slabs
  PROVE  ObjectsOf(c, i) = ObjectsOf(d, i)
<1>1. \A first : ObjectOffsets(c, first) = ObjectOffsets(d, first)
  BY OffsetsOfShape
<1>2. \A p : p \in ObjectsOf(c, i) <=> p \in ObjectsOf(d, i)
  BY <1>1, ObjectIn
<1> QED BY <1>2

(* A new slab adds objects that no other slab has, and all of them free.   *)
LEMMA SlabAdds ==
  ASSUME NEW c \in CacheType, NEW i \in Nat, NEW first \in 0 .. c.align - 1, NEW used,
         WellMade(c), FreeListExact(c, i, used),
         \A p \in used : p[1] = i => p \in ObjectsOf(c, i)
  PROVE  LET d == WithSlab(c, i, first)
         IN /\ d \in CacheType /\ WellMade(d) /\ FreeListExact(d, i, used)
            /\ ObjectsOf(c, i) \subseteq ObjectsOf(d, i)
            /\ d.size = c.size /\ d.align = c.align /\ d.used_count = c.used_count
<1> DEFINE d == WithSlab(c, i, first)
           k == Len(c.slabs) + 1
           offsets == ObjectOffsets(c, first)
           objects == [j \in DOMAIN offsets |-> <<i, k, offsets[j]>>]
<1>1. /\ c.slabs \in Seq(Nat) /\ c.free_list \in Seq(Pointers) /\ c.size \in Nat \ {0}
      /\ c.align \in Nat \ {0} /\ c.name \in CacheNames /\ c.used_count \in Nat
      /\ first \in Nat
  BY DEF CacheType
<1>2. /\ k \in Nat /\ DOMAIN c.slabs = 1 .. k - 1 /\ k \notin DOMAIN c.slabs
      /\ Append(c.slabs, first) \in Seq(Nat) /\ DOMAIN Append(c.slabs, first) = 1 .. k
      /\ Append(c.slabs, first)[k] = first
      /\ \A m \in DOMAIN c.slabs : Append(c.slabs, first)[m] = c.slabs[m]
  <2>1. Len(c.slabs) \in Nat /\ DOMAIN c.slabs = 1 .. Len(c.slabs) /\ first \in Nat
    BY <1>1
  <2>2. /\ Append(c.slabs, first) \in Seq(Nat) /\ Len(Append(c.slabs, first)) = k
        /\ DOMAIN Append(c.slabs, first) = 1 .. k
        /\ \A m \in 1 .. Len(c.slabs) : Append(c.slabs, first)[m] = c.slabs[m]
        /\ Append(c.slabs, first)[k] = first
    BY <1>1, <2>1, AppendProperties
  <2> QED BY <2>1, <2>2
<1>3. /\ offsets \in Seq(Nat) /\ IsInjective(offsets)
  BY <1>1, OffsetsApart
<1>4. d = [c EXCEPT !.slabs = Append(c.slabs, first), !.free_list = c.free_list \o objects]
  BY DEF WithSlab
<1>5. /\ d.slabs = Append(c.slabs, first) /\ d.free_list = c.free_list \o objects
      /\ d.size = c.size /\ d.align = c.align /\ d.used_count = c.used_count
      /\ d.name = c.name
  BY <1>4 DEF CacheType
<1> HIDE DEF d, k, offsets
<1>6. /\ objects \in Seq(Pointers) /\ IsInjective(objects)
      /\ \A j \in DOMAIN offsets : j \in DOMAIN objects /\ objects[j] = <<i, k, offsets[j]>>
      /\ DOMAIN objects = DOMAIN offsets
  <2>1. Len(offsets) \in Nat /\ DOMAIN offsets = 1 .. Len(offsets)
        /\ \A j \in DOMAIN offsets : offsets[j] \in Nat
    BY <1>3
  <2>2. \A j \in 1 .. Len(offsets) : <<i, k, offsets[j]>> \in Pointers
    BY <1>2, <2>1 DEF Pointers
  <2>3. objects = [j \in 1 .. Len(offsets) |-> <<i, k, offsets[j]>>]
    BY <2>1
  <2>4. objects \in Seq(Pointers)
    BY <2>1, <2>2, <2>3, IsASeq
  <2>5. IsInjective(objects)
    BY <1>3 DEF IsInjective
  <2> QED BY <2>1, <2>4, <2>5
<1> HIDE DEF objects
<1>7. \A p : p \in ToSet(objects) <=> \E o \in ToSet(offsets) : p = <<i, k, o>>
  <2>1. ASSUME NEW p \in ToSet(objects) PROVE \E o \in ToSet(offsets) : p = <<i, k, o>>
    <3>1. PICK j \in DOMAIN objects : p = objects[j]
      BY <2>1, MembersOf
    <3>2. p = <<i, k, offsets[j]>> /\ offsets[j] \in ToSet(offsets)
      BY <1>6, <3>1, MembersOf
    <3> QED BY <3>2
  <2>2. ASSUME NEW o \in ToSet(offsets) PROVE <<i, k, o>> \in ToSet(objects)
    <3>1. PICK j \in DOMAIN offsets : o = offsets[j]
      BY <2>2, MembersOf
    <3>2. j \in DOMAIN objects /\ objects[j] = <<i, k, o>>
      BY <1>6, <3>1
    <3> QED BY <3>2, MembersOf
  <2> QED BY <2>1, <2>2
<1>8. \A p : p \in ObjectsOf(d, i) <=> p \in ObjectsOf(c, i) \cup ToSet(objects)
  <2> SUFFICES ASSUME NEW p
               PROVE  p \in ObjectsOf(d, i) <=> p \in ObjectsOf(c, i) \cup ToSet(objects)
    OBVIOUS
  <2>1. \A f : ObjectOffsets(d, f) = ObjectOffsets(c, f)
    BY <1>5, OffsetsOfShape
  <2>2. p \in ObjectsOf(d, i) <=>
          \E m \in DOMAIN d.slabs : \E o \in ToSet(ObjectOffsets(c, d.slabs[m])) : p = <<i, m, o>>
    BY <2>1, ObjectIn
  <2>3. /\ DOMAIN d.slabs = DOMAIN c.slabs \cup {k} /\ d.slabs[k] = first
        /\ \A m \in DOMAIN c.slabs : d.slabs[m] = c.slabs[m]
    BY <1>2, <1>5
  <2>4. ObjectOffsets(c, d.slabs[k]) = offsets
    BY <2>3 DEF offsets
  <2>5. p \in ObjectsOf(d, i) <=>
          \/ \E o \in ToSet(offsets) : p = <<i, k, o>>
          \/ \E m \in DOMAIN c.slabs :
               \E o \in ToSet(ObjectOffsets(c, c.slabs[m])) : p = <<i, m, o>>
    BY <2>2, <2>3, <2>4
  <2> QED BY <1>7, <2>5, ObjectIn
<1>9. ToSet(objects) \cap ObjectsOf(c, i) = {}
  <2> SUFFICES ASSUME NEW p \in ToSet(objects), p \in ObjectsOf(c, i) PROVE FALSE
    OBVIOUS
  <2>1. PICK o \in ToSet(offsets) : p = <<i, k, o>>
    BY <1>7
  <2>2. PICK m \in DOMAIN c.slabs : \E q \in ToSet(ObjectOffsets(c, c.slabs[m])) : p = <<i, m, q>>
    BY ObjectIn
  <2> QED BY <1>2, <2>1, <2>2
<1>10. ToSet(objects) \cap used = {}
  <2> SUFFICES ASSUME NEW p \in ToSet(objects), p \in used PROVE FALSE
    OBVIOUS
  <2>1. p[1] = i
    BY <1>7
  <2> QED BY <1>9, <2>1
<1>11. /\ IsInjective(c.free_list \o objects)
       /\ ToSet(c.free_list \o objects) = ToSet(c.free_list) \cup ToSet(objects)
  <2>1. ToSet(c.free_list) \cap ToSet(objects) = {}
    BY <1>9 DEF FreeListExact
  <2> QED BY <1>1, <1>6, <2>1, ConcatKeepsDistinct DEF FreeListExact
<1>12. FreeListExact(d, i, used)
  BY <1>5, <1>8, <1>10, <1>11 DEF FreeListExact
<1>13. d \in CacheType
  <2>1. c.free_list \o objects \in Seq(Pointers)
    BY <1>1, <1>6, ConcatProperties
  <2> QED BY <1>2, <1>4, <2>1 DEF CacheType
<1>14. WellMade(d)
  <2>1. first < c.align
    BY <1>1
  <2>2. \A m \in DOMAIN d.slabs : d.slabs[m] = first \/ (m \in DOMAIN c.slabs /\ d.slabs[m] = c.slabs[m])
    <3>1. \A m \in 1 .. k : m = k \/ m \in 1 .. k - 1
      BY <1>2
    <3>2. DOMAIN d.slabs = 1 .. k /\ d.slabs[k] = first
      BY <1>2, <1>5
    <3>3. \A m \in DOMAIN c.slabs : d.slabs[m] = c.slabs[m]
      BY <1>2, <1>5
    <3> QED BY <1>2, <3>1, <3>2, <3>3
  <2> QED BY <1>5, <2>1, <2>2 DEF WellMade
<1> QED BY <1>5, <1>8, <1>12, <1>13, <1>14 DEF d

(* Taking the last of the free list makes it used.                         *)
LEMMA PopTakes ==
  ASSUME NEW c \in CacheType, NEW i \in Nat, NEW used,
         WellMade(c), FreeListExact(c, i, used), c.free_list # <<>>
  PROVE  LET d == Popped(c)
             p == Last(c.free_list)
         IN /\ d \in CacheType /\ WellMade(d) /\ FreeListExact(d, i, used \cup {p})
            /\ ObjectsOf(d, i) = ObjectsOf(c, i)
            /\ p \in Pointers /\ p \in ObjectsOf(c, i) /\ p \notin used
            /\ d.size = c.size /\ d.used_count = c.used_count + 1
<1> DEFINE d == Popped(c)
           p == Last(c.free_list)
<1>1. c.free_list \in Seq(Pointers) /\ c.used_count \in Nat
  BY DEF CacheType
<1>2. /\ Front(c.free_list) \in Seq(Pointers) /\ IsInjective(Front(c.free_list))
      /\ p \in Pointers /\ p \in ToSet(c.free_list)
      /\ ToSet(Front(c.free_list)) = ToSet(c.free_list) \ {p}
  BY <1>1, FrontOfDistinct DEF FreeListExact
<1>3. d = [c EXCEPT !.free_list = Front(c.free_list), !.used_count = c.used_count + 1]
  BY DEF Popped
<1>4. /\ d.free_list = Front(c.free_list) /\ d.used_count = c.used_count + 1
      /\ d.size = c.size /\ d.align = c.align /\ d.slabs = c.slabs
      /\ d \in CacheType
  <2>1. c.used_count + 1 \in Nat
    BY <1>1
  <2> HIDE DEF d
  <2> QED BY <1>2, <1>3, <2>1 DEF CacheType
<1>5. ObjectsOf(d, i) = ObjectsOf(c, i)
  BY <1>4, ObjectsOfShape
<1> HIDE DEF d, p
<1>6. FreeListExact(d, i, used \cup {p})
  BY <1>2, <1>4, <1>5 DEF FreeListExact
<1>7. WellMade(d)
  BY <1>4 DEF WellMade
<1> QED BY <1>2, <1>4, <1>5, <1>6, <1>7 DEF FreeListExact, d, p

(* An object that is freed is in the free list again.                      *)
LEMMA FreeGives ==
  ASSUME NEW c \in CacheType, NEW i \in Nat, NEW used, NEW p \in Pointers,
         WellMade(c), FreeListExact(c, i, used), p \in used, p \in ObjectsOf(c, i),
         c.used_count > 0
  PROVE  LET d == Freed(c, p)
         IN /\ d \in CacheType /\ WellMade(d) /\ FreeListExact(d, i, used \ {p})
            /\ ObjectsOf(d, i) = ObjectsOf(c, i)
            /\ d.size = c.size /\ d.used_count = c.used_count - 1
<1> DEFINE d == Freed(c, p)
           one == <<p>>
<1>1. c.free_list \in Seq(Pointers) /\ c.used_count \in Nat
  BY DEF CacheType
<1>2. /\ d.free_list = Append(c.free_list, p) /\ d.used_count = c.used_count - 1
      /\ d.size = c.size /\ d.align = c.align /\ d.slabs = c.slabs
      /\ d \in CacheType
  <2>1. /\ c.used_count - 1 \in Nat /\ Append(c.free_list, p) \in Seq(Pointers)
        /\ (IF c.used_count > 0 THEN c.used_count - 1 ELSE 0) = c.used_count - 1
    BY <1>1, AppendProperties
  <2>2. d = [c EXCEPT !.free_list = Append(c.free_list, p), !.used_count = c.used_count - 1]
    BY <2>1 DEF Freed
  <2> HIDE DEF d
  <2> QED BY <2>1, <2>2 DEF CacheType
<1>3. /\ one \in Seq(Pointers) /\ IsInjective(one) /\ ToSet(one) = {p}
      /\ Append(c.free_list, p) = c.free_list \o one
  BY <1>1 DEF IsInjective, ToSet
<1>4. p \notin ToSet(c.free_list)
  BY DEF FreeListExact
<1> HIDE DEF d, one
<1>5. /\ IsInjective(c.free_list \o one)
      /\ ToSet(c.free_list \o one) = ToSet(c.free_list) \cup {p}
  BY <1>1, <1>3, <1>4, ConcatKeepsDistinct DEF FreeListExact
<1>6. ObjectsOf(d, i) = ObjectsOf(c, i)
  BY <1>2, ObjectsOfShape
<1>7. FreeListExact(d, i, used \ {p})
  BY <1>2, <1>3, <1>5, <1>6 DEF FreeListExact
<1>8. WellMade(d)
  BY <1>2 DEF WellMade
<1> QED BY <1>2, <1>6, <1>7, <1>8 DEF d

(* The free list of a cache does not depend on the objects of others.      *)
LEMMA OthersObjects ==
  ASSUME NEW c, NEW i, NEW used, NEW more, FreeListExact(c, i, used),
         \A p \in (used \ more) \cup (more \ used) : p[1] # i
  PROVE  FreeListExact(c, i, more)
<1>1. \A p \in ObjectsOf(c, i) : p[1] = i
  BY ObjectIn
<1> QED BY <1>1 DEF FreeListExact

(* Storing cache d in place of cache i keeps the other caches.             *)
LEMMA StoreCache ==
  ASSUME SlabInv, NEW i \in DOMAIN caches, NEW d \in CacheType,
         caches' = [caches EXCEPT ![i] = d]
  PROVE  /\ caches' \in Seq(CacheType) /\ DOMAIN caches' = DOMAIN caches
         /\ caches'[i] = d /\ \A j \in DOMAIN caches : j # i => caches'[j] = caches[j]
BY ExceptSeq DEF SlabInv, SlabTypeOK

LEMMA LiveFinite ==
  ASSUME SlabInv, NEW i
  PROVE  IsFiniteSet(LiveIn(i)) /\ Cardinality(LiveIn(i)) \in Nat
<1>1. IsFiniteSet(1 .. MaxLive)
  <2>1. MaxLive \in Nat
    BY SlabAssumption
  <2> QED BY <2>1, FS_Interval
<1>2. LiveIn(i) \subseteq 1 .. MaxLive
  BY DEF LiveIn, SlabInv, SlabTypeOK
<1> QED BY <1>1, <1>2, FS_Subset, FS_CardinalityType

(* The cache alloc takes an object from, with a new slab if it was empty   *)
LEMMA RefilledHolds ==
  ASSUME SlabInv, NEW i \in DOMAIN caches, NEW c \in Refilled(i)
  PROVE  /\ c \in CacheType /\ WellMade(c) /\ FreeListExact(c, i, UsedPointers)
         /\ Objects(i) \subseteq ObjectsOf(c, i)
         /\ c.size = caches[i].size /\ c.used_count = caches[i].used_count
<1>1. /\ caches[i] \in CacheType /\ i \in Nat /\ WellMade(caches[i])
      /\ FreeListExact(caches[i], i, UsedPointers)
  BY DEF SlabInv, SlabTypeOK
<1>2. \A p \in UsedPointers : p[1] = i => p \in ObjectsOf(caches[i], i)
  BY DEF SlabInv, UsedPointers, Objects
<1>3. CASE c = caches[i]
  BY <1>1, <1>3 DEF Objects
<1>4. CASE \E first \in 0 .. caches[i].align - 1 : c = WithSlab(caches[i], i, first)
  BY <1>1, <1>2, <1>4, SlabAdds DEF Objects
<1> QED BY <1>3, <1>4 DEF Refilled, GrownCaches

(* A cache may get more objects, if none of them is in use.                *)
LEMMA GrowthKeepsInv ==
  ASSUME SlabInv, NEW i \in DOMAIN caches, NEW c \in Refilled(i),
         caches' = [caches EXCEPT ![i] = c], UNCHANGED live
  PROVE  SlabInv'
<1>1. /\ c \in CacheType /\ WellMade(c) /\ FreeListExact(c, i, UsedPointers)
      /\ Objects(i) \subseteq ObjectsOf(c, i) /\ c.used_count = caches[i].used_count
  BY RefilledHolds
<1>2. /\ caches' \in Seq(CacheType) /\ DOMAIN caches' = DOMAIN caches
      /\ caches'[i] = c /\ \A j \in DOMAIN caches : j # i => caches'[j] = caches[j]
  BY <1>1, StoreCache
<1>3. /\ UsedPointers' = UsedPointers /\ \A j : LiveIn(j)' = LiveIn(j)
  BY DEF UsedPointers, LiveIn
<1>4. \A j \in DOMAIN caches : Objects(j) \subseteq Objects(j)'
  BY <1>1, <1>2 DEF Objects
<1>5. SlabTypeOK' /\ IsInjective(live')
  BY <1>2 DEF SlabInv, SlabTypeOK
<1>6. \A h \in DOMAIN live' : live'[h][1] \in DOMAIN caches' /\ (live[h] \in Objects(live[h][1]))'
  BY <1>2, <1>4 DEF SlabInv
<1>7. \A j \in DOMAIN caches' : /\ WellMade(caches'[j])
                                /\ FreeListExact(caches'[j], j, UsedPointers')
                                /\ caches'[j].used_count = Cardinality(LiveIn(j)')
  BY <1>1, <1>2, <1>3 DEF SlabInv
<1> QED BY <1>5, <1>6, <1>7 DEF SlabInv

LEMMA TakeKeepsInv ==
  ASSUME SlabInv, NEW i \in DOMAIN caches, NEW c \in Refilled(i), c.free_list # <<>>,
         NEW h \in 1 .. MaxLive \ DOMAIN live,
         live' = [g \in DOMAIN live \cup {h} |-> IF g = h THEN Last(c.free_list) ELSE live[g]],
         caches' = [caches EXCEPT ![i] = Popped(c)]
  PROVE  /\ SlabInv'
         /\ live'[h] \in ObjectsOf(c, i) \ UsedPointers
         /\ Objects(i)' = ObjectsOf(c, i)
         /\ \A j \in DOMAIN caches : caches'[j].size = caches[j].size
<1> DEFINE p == Last(c.free_list)
           d == Popped(c)
<1>1. /\ c \in CacheType /\ WellMade(c) /\ FreeListExact(c, i, UsedPointers) /\ i \in Nat
      /\ Objects(i) \subseteq ObjectsOf(c, i)
      /\ c.size = caches[i].size /\ c.used_count = caches[i].used_count
  BY RefilledHolds DEF SlabInv, SlabTypeOK
<1>2. /\ d \in CacheType /\ WellMade(d) /\ FreeListExact(d, i, UsedPointers \cup {p})
      /\ ObjectsOf(d, i) = ObjectsOf(c, i)
      /\ p \in Pointers /\ p \in ObjectsOf(c, i) /\ p \notin UsedPointers
      /\ d.size = c.size /\ d.used_count = c.used_count + 1
  BY <1>1, PopTakes
<1>3. p[1] = i
  BY <1>2, ObjectIn
<1>4. /\ caches' \in Seq(CacheType) /\ DOMAIN caches' = DOMAIN caches
      /\ caches'[i] = d /\ \A j \in DOMAIN caches : j # i => caches'[j] = caches[j]
  BY <1>2, StoreCache
<1> HIDE DEF d
<1>5. /\ DOMAIN live' = DOMAIN live \cup {h} /\ h \notin DOMAIN live /\ live'[h] = p
      /\ \A g \in DOMAIN live : live'[g] = live[g]
  OBVIOUS
<1> HIDE DEF p
<1>6. UsedPointers' = UsedPointers \cup {p}
  BY <1>5 DEF UsedPointers
<1>7. /\ LiveIn(i)' = LiveIn(i) \cup {h} /\ h \notin LiveIn(i)
      /\ \A j : j # i => LiveIn(j)' = LiveIn(j)
  BY <1>3, <1>5 DEF LiveIn
<1>8. \A j \in DOMAIN caches : Objects(j) \subseteq Objects(j)'
  BY <1>1, <1>2, <1>4 DEF Objects
<1>9. SlabTypeOK'
  <2>1. live' \in [DOMAIN live' -> Pointers] /\ DOMAIN live' \subseteq 1 .. MaxLive
    BY <1>2, <1>5 DEF SlabInv, SlabTypeOK, p
  <2> QED BY <1>4, <2>1 DEF SlabTypeOK
<1>10. IsInjective(live')
  <2>1. \A g \in DOMAIN live : live[g] # p
    BY <1>2 DEF UsedPointers
  <2> QED BY <1>5, <2>1 DEF IsInjective, SlabInv
<1>11. Objects(i)' = ObjectsOf(c, i)
  BY <1>2, <1>4 DEF Objects
<1>12. \A g \in DOMAIN live' : live'[g][1] \in DOMAIN caches' /\ (live[g] \in Objects(live[g][1]))'
  <2> SUFFICES ASSUME NEW g \in DOMAIN live'
               PROVE  live'[g][1] \in DOMAIN caches' /\ (live[g] \in Objects(live[g][1]))'
    OBVIOUS
  <2>1. CASE g = h
    BY <1>2, <1>3, <1>4, <1>5, <1>11, <2>1
  <2>2. CASE g # h
    BY <1>4, <1>5, <1>8, <2>2 DEF SlabInv
  <2> QED BY <2>1, <2>2
<1>13. \A j \in DOMAIN caches' : /\ WellMade(caches'[j])
                                 /\ FreeListExact(caches'[j], j, UsedPointers')
                                 /\ caches'[j].used_count = Cardinality(LiveIn(j)')
  <2> SUFFICES ASSUME NEW j \in DOMAIN caches
               PROVE  /\ WellMade(caches'[j])
                      /\ FreeListExact(caches'[j], j, UsedPointers')
                      /\ caches'[j].used_count = Cardinality(LiveIn(j)')
    BY <1>4
  <2>1. CASE j = i
    <3>1. Cardinality(LiveIn(i) \cup {h}) = Cardinality(LiveIn(i)) + 1
      BY <1>7, LiveFinite, FS_AddElement
    <3> QED BY <1>1, <1>2, <1>4, <1>6, <1>7, <2>1, <3>1 DEF SlabInv
  <2>2. CASE j # i
    <3>1. FreeListExact(caches[j], j, UsedPointers \cup {p})
      BY <1>3, <2>2, OthersObjects DEF SlabInv
    <3> QED BY <1>4, <1>6, <1>7, <2>2, <3>1 DEF SlabInv
  <2> QED BY <2>1, <2>2
<1> QED BY <1>1, <1>2, <1>4, <1>5, <1>9, <1>10, <1>11, <1>12, <1>13 DEF SlabInv

LEMMA ReleaseKeepsInv ==
  ASSUME SlabInv, NEW h \in DOMAIN live, Release(h)
  PROVE  /\ SlabInv'
         /\ \A j \in DOMAIN caches : caches'[j].size = caches[j].size
<1> DEFINE p == live[h]
<1>0. PICK i \in DOMAIN caches : i = p[1]
  BY DEF SlabInv
<1> DEFINE c == caches[i]
           d == Freed(c, p)
<1>1. /\ i \in DOMAIN caches /\ c \in CacheType /\ p \in Pointers /\ i \in Nat
      /\ p \in ObjectsOf(c, i) /\ p \in UsedPointers
      /\ WellMade(c) /\ FreeListExact(c, i, UsedPointers)
      /\ c.used_count = Cardinality(LiveIn(i))
      /\ \A g \in DOMAIN live : g \in LiveIn(i) <=> live[g][1] = i
  <2>1. i \in DOMAIN caches /\ p \in Objects(i)
    BY <1>0 DEF SlabInv
  <2>2. p \in Pointers /\ c \in CacheType /\ i \in Nat
    BY <2>1 DEF SlabInv, SlabTypeOK
  <2>3. WellMade(c) /\ FreeListExact(c, i, UsedPointers) /\ c.used_count = Cardinality(LiveIn(i))
    BY <2>1 DEF SlabInv
  <2>4. p \in UsedPointers
    BY DEF UsedPointers
  <2>5. p \in ObjectsOf(c, i)
    BY <2>1 DEF Objects
  <2>6. \A g \in DOMAIN live : g \in LiveIn(i) <=> live[g][1] = i
    BY DEF LiveIn
  <2> QED BY <2>1, <2>2, <2>3, <2>4, <2>5, <2>6
<1>2. Cardinality(LiveIn(i)) = Cardinality(LiveIn(i) \ {h}) + 1
  <2>1. h \in LiveIn(i)
    BY <1>0, <1>1
  <2>2. IsFiniteSet(LiveIn(i)) /\ Cardinality(LiveIn(i)) \in Nat
    BY LiveFinite
  <2>3. Cardinality(LiveIn(i) \ {h}) = Cardinality(LiveIn(i)) - 1
    BY <2>1, <2>2, FS_RemoveElement
  <2> QED BY <2>2, <2>3
<1>3. Cardinality(LiveIn(i) \ {h}) \in Nat
  BY LiveFinite, FS_RemoveElement, FS_CardinalityType
<1>4. /\ d \in CacheType /\ WellMade(d) /\ FreeListExact(d, i, UsedPointers \ {p})
      /\ ObjectsOf(d, i) = ObjectsOf(c, i)
      /\ d.size = c.size /\ d.used_count = c.used_count - 1
  <2>1. c.used_count > 0
    BY <1>1, <1>2, <1>3
  <2> HIDE DEF c, p
  <2> QED BY <1>1, <2>1, FreeGives
<1>5. caches' = [caches EXCEPT ![i] = d] /\ live' = [g \in DOMAIN live \ {h} |-> live[g]]
  BY <1>0 DEF Release
<1>6. /\ caches' \in Seq(CacheType) /\ DOMAIN caches' = DOMAIN caches
      /\ caches'[i] = d /\ \A j \in DOMAIN caches : j # i => caches'[j] = caches[j]
  BY <1>1, <1>4, <1>5, StoreCache
<1> HIDE DEF d
<1>7. /\ DOMAIN live' = DOMAIN live \ {h}
      /\ \A g \in DOMAIN live' : live'[g] = live[g]
  BY <1>5
<1>8. UsedPointers' = UsedPointers \ {p}
  <2>1. \A g \in DOMAIN live : g # h => live[g] # p
    BY DEF SlabInv, IsInjective
  <2> QED BY <1>7, <2>1 DEF UsedPointers
<1>9. LiveIn(i)' = LiveIn(i) \ {h} /\ \A j : j # i => LiveIn(j)' = LiveIn(j)
  <2>1. \A g : g \in LiveIn(i)' <=> g \in LiveIn(i) \ {h}
    BY <1>7 DEF LiveIn
  <2>2. \A j : j # i => h \notin LiveIn(j)
    BY <1>0 DEF LiveIn
  <2>3. ASSUME NEW j, j # i PROVE \A g : g \in LiveIn(j)' <=> g \in LiveIn(j)
    BY <1>7, <2>2, <2>3 DEF LiveIn
  <2> QED BY <2>1, <2>3
<1>10. \A j \in DOMAIN caches : Objects(j)' = Objects(j)
  BY <1>4, <1>6 DEF Objects
<1>11. SlabTypeOK'
  <2>1. live' \in [DOMAIN live' -> Pointers] /\ DOMAIN live' \subseteq 1 .. MaxLive
    BY <1>5, <1>7 DEF SlabInv, SlabTypeOK
  <2> QED BY <1>6, <2>1 DEF SlabTypeOK
<1>12. IsInjective(live')
  BY <1>7 DEF IsInjective, SlabInv
<1>13. \A g \in DOMAIN live' : live'[g][1] \in DOMAIN caches' /\ (live[g] \in Objects(live[g][1]))'
  BY <1>6, <1>7, <1>10 DEF SlabInv
<1> HIDE DEF p
<1>14. \A j \in DOMAIN caches' : /\ WellMade(caches'[j])
                                 /\ FreeListExact(caches'[j], j, UsedPointers')
                                 /\ caches'[j].used_count = Cardinality(LiveIn(j)')
  <2> SUFFICES ASSUME NEW j \in DOMAIN caches
               PROVE  /\ WellMade(caches'[j])
                      /\ FreeListExact(caches'[j], j, UsedPointers')
                      /\ caches'[j].used_count = Cardinality(LiveIn(j)')
    BY <1>6
  <2>1. CASE j = i
    <3>1. d.used_count = Cardinality(LiveIn(i) \ {h})
      BY <1>1, <1>2, <1>3, <1>4
    <3>2. caches'[j] = d
      BY <1>6, <2>1
    <3>3. UsedPointers' = UsedPointers \ {p} /\ LiveIn(j)' = LiveIn(i) \ {h}
      BY <1>8, <1>9, <2>1
    <3> QED BY <1>4, <2>1, <3>1, <3>2, <3>3
  <2>2. CASE j # i
    <3>1. FreeListExact(caches[j], j, UsedPointers \ {p})
      BY <1>0, <2>2, OthersObjects DEF SlabInv
    <3> QED BY <1>6, <1>8, <1>9, <2>2, <3>1 DEF SlabInv
  <2> QED BY <2>1, <2>2
<1> QED BY <1>1, <1>4, <1>6, <1>11, <1>12, <1>13, <1>14 DEF SlabInv

LEMMA CreateKeepsInv ==
  ASSUME SlabInv, NEW name \in CacheNames, NEW config \in CacheConfigs,
         CreateCache(name, config)
  PROVE  /\ SlabInv'
         /\ \A j \in DOMAIN caches : caches'[j].size = caches[j].size
<1> DEFINE n == Len(caches) + 1
           new == NewCache(name, config)
<1>1. /\ n \in Nat /\ DOMAIN caches = 1 .. n - 1 /\ n \notin DOMAIN caches
  BY DEF SlabInv, SlabTypeOK
<1>2. /\ new \in CacheType /\ WellMade(new) /\ ObjectsOf(new, n) = {}
      /\ ToSet(new.free_list) = {} /\ IsInjective(new.free_list) /\ new.used_count = 0
  <2>1. /\ new.slabs = <<>> /\ new.free_list = <<>> /\ new.used_count = 0
        /\ new.size = config.size /\ new.align = config.align /\ new.name = name
    BY DEF NewCache
  <2>2. config \in [size : Nat \ {0}, align : Nat \ {0}]
    BY SlabAssumption
  <2>3. new \in CacheType
    BY <2>1, <2>2, EmptySeq DEF NewCache, CacheType
  <2>4. WellMade(new)
    BY <2>1, <2>2 DEF WellMade
  <2>5. \A p : p \notin ObjectsOf(new, n)
    BY <2>1, ObjectIn
  <2>6. IsInjective(new.free_list) /\ ToSet(new.free_list) = {}
    BY <2>1 DEF IsInjective, ToSet
  <2> QED BY <2>1, <2>3, <2>4, <2>5, <2>6
<1>3. FreeListExact(new, n, UsedPointers)
  BY <1>2 DEF FreeListExact
<1>4. \A h \in DOMAIN live : live[h][1] # n
  BY <1>1 DEF SlabInv
<1> HIDE DEF new
<1>5. PICK first \in 0 .. new.align - 1 : caches' = Append(caches, WithSlab(new, n, first))
  BY DEF CreateCache, GrownCaches, new
<1> DEFINE d == WithSlab(new, n, first)
<1>6. /\ d \in CacheType /\ WellMade(d) /\ FreeListExact(d, n, UsedPointers)
      /\ d.used_count = 0
  <2>1. \A p \in UsedPointers : p[1] = n => p \in ObjectsOf(new, n)
    BY <1>4 DEF UsedPointers
  <2> HIDE DEF n
  <2> QED BY <1>1, <1>2, <1>3, <2>1, SlabAdds
<1> HIDE DEF d
<1>7. /\ caches' \in Seq(CacheType) /\ DOMAIN caches' = DOMAIN caches \cup {n}
      /\ caches'[n] = d /\ \A j \in DOMAIN caches : caches'[j] = caches[j]
  <2>1. caches' = Append(caches, d) /\ caches \in Seq(CacheType)
    BY <1>5 DEF d, SlabInv, SlabTypeOK
  <2>2. /\ caches' \in Seq(CacheType) /\ Len(caches') = n /\ caches'[n] = d
        /\ \A j \in 1 .. n - 1 : caches'[j] = caches[j]
    BY <1>1, <1>6, <2>1, AppendProperties
  <2>3. DOMAIN caches' = 1 .. n
    BY <2>2
  <2> QED BY <1>1, <2>2, <2>3
<1>8. live' = live
  BY DEF CreateCache
<1>9. /\ UsedPointers' = UsedPointers /\ \A j : LiveIn(j)' = LiveIn(j)
      /\ LiveIn(n) = {}
  BY <1>4, <1>8 DEF UsedPointers, LiveIn
<1>10. \A j \in DOMAIN caches : Objects(j)' = Objects(j)
  BY <1>7 DEF Objects
<1>11. SlabTypeOK' /\ IsInjective(live')
  BY <1>7, <1>8 DEF SlabInv, SlabTypeOK
<1>12. \A h \in DOMAIN live' : live'[h][1] \in DOMAIN caches' /\ (live[h] \in Objects(live[h][1]))'
  BY <1>7, <1>8, <1>10 DEF SlabInv
<1>13. \A j \in DOMAIN caches' : /\ WellMade(caches'[j])
                                 /\ FreeListExact(caches'[j], j, UsedPointers')
                                 /\ caches'[j].used_count = Cardinality(LiveIn(j)')
  BY <1>6, <1>7, <1>9, FS_EmptySet DEF SlabInv
<1> QED BY <1>7, <1>11, <1>12, <1>13 DEF SlabInv

(* What the allocator does in a step: the invariant is kept, no cache      *)
(* changes the size of its objects, and a pointer handed out was free.     *)
LEMMA AllocKeepsInv ==
  ASSUME SlabInv, NEW i \in DOMAIN caches, AllocObject(i)
  PROVE  /\ SlabInv'
         /\ \A j \in DOMAIN caches : caches'[j].size = caches[j].size
         /\ \/ live' = live
            \/ \E h \in 1 .. MaxLive \ DOMAIN live :
                 /\ DOMAIN live' = DOMAIN live \cup {h}
                 /\ \A g \in DOMAIN live : live'[g] = live[g]
                 /\ live'[h] \notin UsedPointers
<1>1. PICK c \in Refilled(i) :
        \/ /\ c.free_list # <<>>
           /\ \E h \in 1 .. MaxLive \ DOMAIN live :
                live' = [g \in DOMAIN live \cup {h} |->
                           IF g = h THEN Last(c.free_list) ELSE live[g]]
           /\ caches' = [caches EXCEPT ![i] = Popped(c)]
        \/ caches' = [caches EXCEPT ![i] = c] /\ UNCHANGED live
  BY DEF AllocObject
<1>2. CASE c.free_list # <<>> /\ caches' = [caches EXCEPT ![i] = Popped(c)]
           /\ \E h \in 1 .. MaxLive \ DOMAIN live :
                live' = [g \in DOMAIN live \cup {h} |->
                           IF g = h THEN Last(c.free_list) ELSE live[g]]
  <2>1. PICK h \in 1 .. MaxLive \ DOMAIN live :
          live' = [g \in DOMAIN live \cup {h} |-> IF g = h THEN Last(c.free_list) ELSE live[g]]
    BY <1>2
  <2>2. /\ SlabInv' /\ live'[h] \in ObjectsOf(c, i) \ UsedPointers
        /\ \A j \in DOMAIN caches : caches'[j].size = caches[j].size
    BY <1>2, <2>1, TakeKeepsInv
  <2>3. /\ DOMAIN live' = DOMAIN live \cup {h}
        /\ \A g \in DOMAIN live : live'[g] = live[g]
    BY <2>1
  <2> QED BY <2>2, <2>3
<1>3. CASE caches' = [caches EXCEPT ![i] = c] /\ UNCHANGED live
  <2>1. SlabInv'
    BY <1>3, GrowthKeepsInv
  <2>2. c \in CacheType /\ c.size = caches[i].size
    BY RefilledHolds
  <2>3. \A j \in DOMAIN caches : caches'[j].size = caches[j].size
    BY <1>3, <2>2, StoreCache
  <2> QED BY <1>3, <2>1, <2>3
<1> QED BY <1>1, <1>2, <1>3

LEMMA SlabStep ==
  ASSUME SlabInv, [SlabNext]_slabvars
  PROVE  /\ SlabInv'
         /\ \A j \in DOMAIN caches : caches'[j].size = caches[j].size
         /\ \/ live' = live
            \/ \E h \in DOMAIN live : live' = [g \in DOMAIN live \ {h} |-> live[g]]
            \/ \E h \in 1 .. MaxLive \ DOMAIN live :
                 /\ DOMAIN live' = DOMAIN live \cup {h}
                 /\ \A g \in DOMAIN live : live'[g] = live[g]
                 /\ live'[h] \notin UsedPointers
<1>1. ASSUME NEW name \in CacheNames, NEW config \in CacheConfigs, CreateCache(name, config)
      PROVE  /\ SlabInv' /\ live' = live
             /\ \A j \in DOMAIN caches : caches'[j].size = caches[j].size
  BY <1>1, CreateKeepsInv DEF CreateCache
<1>2. ASSUME NEW h \in DOMAIN live, Release(h)
      PROVE  /\ SlabInv' /\ live' = [g \in DOMAIN live \ {h} |-> live[g]]
             /\ \A j \in DOMAIN caches : caches'[j].size = caches[j].size
  BY <1>2, ReleaseKeepsInv DEF Release
<1>3. CASE \E i \in DOMAIN caches : AllocObject(i)
  BY <1>3, AllocKeepsInv
<1>4. CASE \E h \in DOMAIN live : Release(h)
  BY <1>2, <1>4
<1>5. CASE \E name \in CacheNames, config \in CacheConfigs : CreateCache(name, config)
  BY <1>1, <1>5
<1>6. CASE UNCHANGED slabvars
  <2>1. SlabInv'
    BY <1>6 DEF slabvars, SlabInv, SlabTypeOK, UsedPointers, LiveIn, Objects
  <2> QED BY <1>6, <2>1 DEF slabvars
<1>7. SlabNext => \/ \E name \in CacheNames, config \in CacheConfigs : CreateCache(name, config)
                  \/ \E i \in DOMAIN caches : AllocObject(i)
                  \/ \E h \in DOMAIN live : Release(h)
  BY DEF SlabNext, Alloc, Kmalloc, Free, Kfree
<1> QED BY <1>3, <1>4, <1>5, <1>6, <1>7

(* The inductive invariant of the slab caches: through add_slab, alloc and *)
(* free an object is once in the free list of its cache or once in use     *)
(* (slab.rs).                                                              *)
THEOREM SlabInvHolds == SlabSpec => []SlabInv
<1>1. SlabInit => SlabInv
  <2> SUFFICES ASSUME SlabInit PROVE SlabInv
    OBVIOUS
  <2>1. caches = <<>> /\ live = <<>> /\ DOMAIN live = {} /\ DOMAIN caches = {}
    BY DEF SlabInit
  <2>2. caches \in Seq(CacheType) /\ live \in [DOMAIN live -> Pointers]
    BY <2>1
  <2> QED BY <2>1, <2>2 DEF SlabInv, SlabTypeOK, IsInjective
<1>2. SlabInv /\ [SlabNext]_slabvars => SlabInv'
  BY SlabStep
<1> QED BY <1>1, <1>2, PTL DEF SlabSpec

(* Two objects have no byte in common, be they of one cache or of two.     *)
LEMMA ObjectsApart ==
  ASSUME SlabInv, NEW i \in DOMAIN caches, NEW j \in DOMAIN caches,
         NEW p \in Objects(i), NEW q \in Objects(j), p # q
  PROVE  ObjectBytes(p) \cap ObjectBytes(q) = {}
<1>1. PICK k \in DOMAIN caches[i].slabs :
        \E o \in ToSet(ObjectOffsets(caches[i], caches[i].slabs[k])) : p = <<i, k, o>>
  BY ObjectIn DEF Objects
<1>2. PICK a \in ToSet(ObjectOffsets(caches[i], caches[i].slabs[k])) : p = <<i, k, a>>
  BY <1>1
<1>3. PICK m \in DOMAIN caches[j].slabs :
        \E o \in ToSet(ObjectOffsets(caches[j], caches[j].slabs[m])) : q = <<j, m, o>>
  BY ObjectIn DEF Objects
<1>4. PICK b \in ToSet(ObjectOffsets(caches[j], caches[j].slabs[m])) : q = <<j, m, b>>
  BY <1>3
<1>5. /\ p[1] = i /\ p[2] = k /\ p[3] = a
      /\ q[1] = j /\ q[2] = m /\ q[3] = b
  BY <1>2, <1>4
<1>6. ASSUME NEW x \in ObjectBytes(p), x \in ObjectBytes(q)
      PROVE  FALSE
  <2>1. PICK u \in a .. a + caches[i].size - 1 : x = <<i, k, u>>
    BY <1>5, <1>6 DEF ObjectBytes
  <2>2. PICK v \in b .. b + caches[j].size - 1 : x = <<j, m, v>>
    BY <1>5, <1>6 DEF ObjectBytes
  <2>3. i = j /\ k = m /\ u = v
    BY <2>1, <2>2
  <2>4. a # b
    BY <1>2, <1>4, <2>3
  <2>5. /\ caches[i] \in CacheType /\ caches[i].slabs[k] \in Nat
        /\ caches[i].size \in Nat
    <3>1. caches[i] \in CacheType
      BY DEF SlabInv, SlabTypeOK
    <3>2. caches[i].slabs \in Seq(Nat) /\ caches[i].size \in Nat
      BY <3>1 DEF CacheType
    <3> QED BY <3>1, <3>2
  <2>6. a + caches[i].size <= b \/ b + caches[i].size <= a
    BY <2>3, <2>4, <2>5, OffsetsApart
  <2>7. a \in Nat /\ b \in Nat
    <3>1. ObjectOffsets(caches[i], caches[i].slabs[k]) \in Seq(Nat)
      BY <2>5, OffsetsApart
    <3>2. \A o \in ToSet(ObjectOffsets(caches[i], caches[i].slabs[k])) : o \in Nat
      BY <3>1, MembersOf
    <3> QED BY <2>3, <3>2
  <2> QED BY <2>1, <2>2, <2>3, <2>5, <2>6, <2>7
<1> QED BY <1>6

LEMMA AllObjectsApart ==
  SlabInv => \A i, j \in DOMAIN caches : \A p \in Objects(i), q \in Objects(j) :
               p # q => ObjectBytes(p) \cap ObjectBytes(q) = {}
BY ObjectsApart

(* Whatever caches there are, with objects of any size and alignment and   *)
(* pages at any address, the slab caches never hand out an object of which *)
(* a byte is part of an object in use (alloc and kmalloc, slab.rs).        *)
THEOREM SlabsHandOutOnce == SlabSpec => SlabsAllocate
<1> DEFINE out == [h \in DOMAIN live |-> ObjectBytes(live[h])]
<1>1. SlabInit => SlabBlocks!Init
  BY DEF SlabInit, SlabBlocks!Init
<1>2. SlabInv /\ [SlabNext]_slabvars => [SlabBlocks!Allocate \/ SlabBlocks!Release]_out
  <2> SUFFICES ASSUME SlabInv, [SlabNext]_slabvars, out' # out
               PROVE  SlabBlocks!Allocate \/ SlabBlocks!Release
    OBVIOUS
  <2>1. /\ SlabInv'
        /\ \A j \in DOMAIN caches : caches'[j].size = caches[j].size
        /\ \/ live' = live
           \/ \E h \in DOMAIN live : live' = [g \in DOMAIN live \ {h} |-> live[g]]
           \/ \E h \in 1 .. MaxLive \ DOMAIN live :
                /\ DOMAIN live' = DOMAIN live \cup {h}
                /\ \A g \in DOMAIN live : live'[g] = live[g]
                /\ live'[h] \notin UsedPointers
    BY SlabStep
  <2>2. \A g \in DOMAIN live : live'[g] = live[g] => ObjectBytes(live[g])' = ObjectBytes(live[g])
    <3> SUFFICES ASSUME NEW g \in DOMAIN live, live'[g] = live[g]
                 PROVE  ObjectBytes(live[g])' = ObjectBytes(live[g])
      OBVIOUS
    <3>1. live[g][1] \in DOMAIN caches
      BY DEF SlabInv
    <3> QED BY <2>1, <3>1 DEF ObjectBytes
  <2>3. /\ DOMAIN out = DOMAIN live /\ DOMAIN out' = DOMAIN live'
        /\ \A g \in DOMAIN live : out[g] = ObjectBytes(live[g])
        /\ \A g \in DOMAIN live' : out'[g] = ObjectBytes(live[g])'
    OBVIOUS
  <2> HIDE DEF out
  <2>4. CASE live' = live
    <3>1. \A g \in DOMAIN live : out'[g] = out[g]
      BY <2>2, <2>3, <2>4
    <3>2. out' = out
      BY <2>3, <2>4, <3>1 DEF out
    <3> QED BY <3>2
  <2>5. CASE \E h \in DOMAIN live : live' = [g \in DOMAIN live \ {h} |-> live[g]]
    <3>1. PICK h \in DOMAIN live : live' = [g \in DOMAIN live \ {h} |-> live[g]]
      BY <2>5
    <3>2. DOMAIN live' = DOMAIN live \ {h} /\ \A g \in DOMAIN live' : live'[g] = live[g]
      BY <3>1
    <3>3. \A g \in DOMAIN live' : out'[g] = out[g]
      BY <2>2, <2>3, <3>2
    <3>4. SlabBlocks!Release
      BY <2>3, <3>2, <3>3 DEF SlabBlocks!Release, out
    <3> QED BY <3>4
  <2>6. CASE \E h \in 1 .. MaxLive \ DOMAIN live :
               /\ DOMAIN live' = DOMAIN live \cup {h}
               /\ \A g \in DOMAIN live : live'[g] = live[g]
               /\ live'[h] \notin UsedPointers
    <3>1. PICK h \in 1 .. MaxLive \ DOMAIN live :
            /\ DOMAIN live' = DOMAIN live \cup {h}
            /\ \A g \in DOMAIN live : live'[g] = live[g]
            /\ live'[h] \notin UsedPointers
      BY <2>6
    <3>2. \A g \in DOMAIN live : out'[g] = out[g]
      BY <2>2, <2>3, <3>1
    <3>3. ASSUME NEW g \in DOMAIN live
          PROVE  out'[g] \cap out'[h] = {}
      <4>1. live'[g] # live'[h]
        BY <3>1 DEF UsedPointers
      <4>2. /\ (live[g] \in Objects(live[g][1]))' /\ live'[g][1] \in DOMAIN caches'
            /\ (live[h] \in Objects(live[h][1]))' /\ live'[h][1] \in DOMAIN caches'
        BY <2>1, <3>1 DEF SlabInv
      <4>3. (\A i, j \in DOMAIN caches : \A p \in Objects(i), q \in Objects(j) :
               p # q => ObjectBytes(p) \cap ObjectBytes(q) = {})'
        BY <2>1, AllObjectsApart, PTL
      <4>4. (ObjectBytes(live[g]) \cap ObjectBytes(live[h]) = {})'
        BY <4>1, <4>2, <4>3
      <4> QED BY <2>3, <3>1, <4>4
    <3>4. h \in DOMAIN out' \ DOMAIN out /\ DOMAIN out' = DOMAIN out \cup {h}
      BY <2>3, <3>1
    <3>5. SlabBlocks!Allocate
      BY <2>3, <3>2, <3>3, <3>4 DEF SlabBlocks!Allocate, out
    <3> QED BY <3>5
  <2> QED BY <2>1, <2>4, <2>5, <2>6
<1> QED BY <1>1, <1>2, SlabInvHolds, PTL DEF SlabSpec, SlabsAllocate, SlabBlocks!Spec

(* No object of any cache is lost or given twice: it is once in the free   *)
(* list or once in use, and the counts of stats are right (slab.rs).       *)
THEOREM SlabsAccountForObjects == SlabSpec => []ObjectsAccounted
<1>1. SlabInv => ObjectsAccounted
  <2> SUFFICES ASSUME SlabInv, NEW i \in DOMAIN caches
               PROVE  /\ caches[i].used_count = Cardinality(LiveIn(i))
                      /\ TotalObjects(caches[i]) = Cardinality(Objects(i))
                      /\ ToSet(caches[i].free_list) = Objects(i) \ UsedPointers
                      /\ \A p \in Objects(i) : p[3] + caches[i].size <= SLAB_PAGE_SIZE
    BY DEF ObjectsAccounted
  <2> DEFINE free == ToSet(caches[i].free_list)
             taken == {live[h] : h \in LiveIn(i)}
  <2>1. /\ caches[i].free_list \in Seq(Pointers) /\ IsInjective(caches[i].free_list)
        /\ free = Objects(i) \ UsedPointers
        /\ caches[i].used_count = Cardinality(LiveIn(i))
    <3>1. caches[i] \in CacheType
      BY DEF SlabInv, SlabTypeOK
    <3>2. caches[i].free_list \in Seq(Pointers)
      BY <3>1 DEF CacheType
    <3>3. FreeListExact(caches[i], i, UsedPointers) /\ caches[i].used_count = Cardinality(LiveIn(i))
      BY DEF SlabInv
    <3> QED BY <3>2, <3>3 DEF FreeListExact, Objects
  <2>2. IsFiniteSet(free) /\ Cardinality(free) = Len(caches[i].free_list)
    BY <2>1, DistinctCounted
  <2>3. IsFiniteSet(LiveIn(i)) /\ Cardinality(LiveIn(i)) \in Nat
    BY LiveFinite
  <2>4. IsFiniteSet(taken) /\ Cardinality(taken) = Cardinality(LiveIn(i))
    <3> DEFINE pointer == [h \in LiveIn(i) |-> live[h]]
    <3>1. pointer \in Bijection(LiveIn(i), taken)
      BY DEF SlabInv, IsInjective, LiveIn, Bijection, Injection, Surjection
    <3> QED BY <2>3, <3>1, FS_Bijection DEF ExistsBijection
  <2>5. taken = Objects(i) \cap UsedPointers
    <3>1. \A h \in LiveIn(i) : live[h] \in Objects(i) /\ live[h] \in UsedPointers
      BY DEF SlabInv, LiveIn, UsedPointers
    <3>2. \A p \in Objects(i) : p[1] = i
      BY ObjectIn DEF Objects
    <3>3. \A h \in DOMAIN live : live[h] \in Objects(i) => h \in LiveIn(i)
      BY <3>2 DEF LiveIn
    <3> QED BY <3>1, <3>3 DEF UsedPointers
  <2>6. free \cap taken = {} /\ free \cup taken = Objects(i)
    BY <2>1, <2>5
  <2>7. Cardinality(Objects(i)) = Cardinality(free) + Cardinality(taken)
    <3>1. /\ Cardinality(free \cup taken)
               = Cardinality(free) + Cardinality(taken) - Cardinality(free \cap taken)
          /\ Cardinality(free) \in Nat /\ Cardinality(taken) \in Nat
      BY <2>2, <2>4, FS_Union, FS_CardinalityType
    <3>2. Cardinality(free \cap taken) = 0
      BY <2>6, FS_EmptySet
    <3>3. Objects(i) = free \cup taken
      BY <2>6
    <3> HIDE DEF free, taken
    <3>4. Cardinality(free \cup taken) = Cardinality(free) + Cardinality(taken)
      BY <3>1, <3>2
    <3> QED BY <3>3, <3>4
  <2>8. TotalObjects(caches[i]) = Cardinality(Objects(i))
    BY <2>1, <2>2, <2>4, <2>7 DEF TotalObjects
  <2>9. ASSUME NEW p \in Objects(i) PROVE p[3] + caches[i].size <= SLAB_PAGE_SIZE
    <3>1. caches[i] \in CacheType
      BY DEF SlabInv, SlabTypeOK
    <3>2. PICK k \in DOMAIN caches[i].slabs :
            \E o \in ToSet(ObjectOffsets(caches[i], caches[i].slabs[k])) : p = <<i, k, o>>
      BY <2>9, ObjectIn DEF Objects
    <3>3. PICK o \in ToSet(ObjectOffsets(caches[i], caches[i].slabs[k])) : p = <<i, k, o>>
      BY <3>2
    <3>4. caches[i].slabs[k] \in Nat
      BY <3>1 DEF CacheType
    <3>5. o + caches[i].size <= SLAB_PAGE_SIZE
      BY <3>1, <3>3, <3>4, OffsetsFit
    <3> QED BY <3>3, <3>5
  <2> QED BY <2>1, <2>8, <2>9
<1> QED BY <1>1, SlabInvHolds, PTL

-----------------------------------------------------------------------------
(* IPC channels *)

LEMMA IpcInitially == IpcInit => IpcInv
<1> SUFFICES ASSUME IpcInit PROVE IpcInv
  OBVIOUS
<1>1. handles \in Seq(ChannelType) /\ Len(handles) = 0 /\ DOMAIN handles = {}
  BY DEF IpcInit
<1>2. DOMAIN channels = {}
  BY DEF IpcInit
<1>3. channel_id \in 1 .. MaxChannels + 1 /\ MaxHandles \in Nat
  BY IpcAssumption DEF IpcInit
<1>4. \A t \in IpcThreads : channel_call[t] = IpcIdle
  BY DEF IpcInit
<1>5. channel_call \in [IpcThreads -> IpcCalls]
  BY DEF IpcInit, IpcCalls
<1> QED BY <1>1, <1>2, <1>3, <1>4, <1>5 DEF IpcInv, IpcTypeOK, IpcIdle

(* What the next buffers of the handles can be                             *)
BufferAppended(h, m) ==
  /\ Len(handles[h].buffer) < IpcCapacity
  /\ handles' = [handles EXCEPT ![h] =
       [handles[h] EXCEPT !.buffer = Append(handles[h].buffer, m), !.msg_count = handles[h].msg_count + 1]]

BufferTaken(h) ==
  /\ handles[h].buffer # <<>>
  /\ handles' = [handles EXCEPT ![h] = [handles[h] EXCEPT !.buffer = Tail(handles[h].buffer)]]

BuffersKept ==
  /\ DOMAIN handles' = DOMAIN handles
  /\ \A h \in DOMAIN handles : handles'[h].buffer = handles[h].buffer

HandleAdded ==
  \E c \in ChannelType : c.buffer = <<>> /\ Len(handles) < MaxHandles /\ handles' = Append(handles, c)

(* Storing c in place of handle h keeps the other handles.                 *)
LEMMA StoreHandle ==
  ASSUME IpcInv, NEW h \in DOMAIN handles, NEW c \in ChannelType,
         Len(c.buffer) <= IpcCapacity, handles' = [handles EXCEPT ![h] = c]
  PROVE  /\ handles' \in Seq(ChannelType) /\ DOMAIN handles' = DOMAIN handles
         /\ Len(handles') <= MaxHandles
         /\ handles'[h] = c /\ \A g \in DOMAIN handles : g # h => handles'[g] = handles[g]
         /\ \A g \in DOMAIN handles' : Len(handles'[g].buffer) <= IpcCapacity
<1>1. /\ handles' \in Seq(ChannelType) /\ DOMAIN handles' = DOMAIN handles
      /\ Len(handles') = Len(handles) /\ handles'[h] = c
      /\ \A g \in DOMAIN handles : g # h => handles'[g] = handles[g]
  BY ExceptSeq DEF IpcInv, IpcTypeOK
<1> QED BY <1>1 DEF IpcInv, IpcTypeOK

LEMMA HandleTypes ==
  ASSUME IpcInv, NEW h \in DOMAIN handles
  PROVE  /\ handles[h] \in ChannelType /\ handles[h].buffer \in Seq(IpcMessages)
         /\ handles[h].msg_count \in Nat /\ Len(handles[h].buffer) <= IpcCapacity
         /\ Len(handles[h].buffer) \in Nat
<1>1. handles[h] \in ChannelType /\ Len(handles[h].buffer) <= IpcCapacity
  BY DEF IpcInv, IpcTypeOK
<1>2. handles[h].buffer \in Seq(IpcMessages) /\ handles[h].msg_count \in Nat
  BY <1>1 DEF ChannelType
<1> QED BY <1>1, <1>2

LEMMA IpcStep ==
  ASSUME IpcInv, [IpcNext]_ipcvars
  PROVE  /\ IpcInv'
         /\ \/ BuffersKept
            \/ HandleAdded
            \/ \E h \in DOMAIN handles, m \in IpcMessages : BufferAppended(h, m)
            \/ \E h \in DOMAIN handles : BufferTaken(h)
<1> USE IpcAssumption
<1> DEFINE Managed == /\ DOMAIN channels' \subseteq 1 .. channel_id' - 1
                      /\ \A id \in DOMAIN channels' : channels'[id] = NewChannel(id)
                      /\ channel_id' \in 1 .. MaxChannels + 1
           Calling == /\ channel_call' \in [IpcThreads -> IpcCalls]
                     /\ \A t \in IpcThreads :
                          channel_call'[t].op # "idle" => channel_call'[t].handle \in DOMAIN handles
<1>1. UNCHANGED <<channels, channel_id>> => Managed
  BY DEF IpcInv, IpcTypeOK
<1>2. UNCHANGED channel_call => Calling
  BY DEF IpcInv, IpcTypeOK
<1>3. UNCHANGED handles => BuffersKept
  BY DEF BuffersKept
<1>4. ASSUME NEW t \in IpcThreads, SetChannelCall(t, IpcIdle)
      PROVE  Calling
  <2>1. channel_call' = [channel_call EXCEPT ![t] = IpcIdle] /\ IpcIdle \in IpcCalls
    BY <1>4 DEF SetChannelCall, IpcCalls
  <2>2. IpcIdle.op = "idle"
    BY DEF IpcIdle
  <2> QED BY <2>1, <2>2 DEF IpcInv, IpcTypeOK
<1>5. ASSUME NEW t \in IpcThreads, NEW h \in DOMAIN handles, NEW c \in IpcCalls, c.handle = h,
             SetChannelCall(t, c)
      PROVE  Calling
  BY <1>5 DEF SetChannelCall, IpcInv, IpcTypeOK
<1>6. ASSUME Managed, Calling, UNCHANGED handles
      PROVE  IpcInv'
  BY <1>6 DEF IpcInv, IpcTypeOK
<1>7. ASSUME Managed, Calling, NEW h \in DOMAIN handles, NEW c \in ChannelType,
             Len(c.buffer) <= IpcCapacity, handles' = [handles EXCEPT ![h] = c]
      PROVE  IpcInv'
  BY <1>7, StoreHandle DEF IpcInv, IpcTypeOK
<1>8. CASE CreateChannel
  <2>1. Managed
    BY <1>8 DEF CreateChannel, IpcInv, IpcTypeOK
  <2> QED BY <1>2, <1>3, <1>6, <1>8, <2>1 DEF CreateChannel
<1>9. CASE \E id \in DOMAIN channels : DestroyChannel(id)
  <2>1. Managed
    BY <1>9 DEF DestroyChannel, Restrict, IpcInv, IpcTypeOK
  <2> QED BY <1>2, <1>3, <1>6, <1>9, <2>1 DEF DestroyChannel
<1>10. CASE \E id \in DOMAIN channels : GetChannel(id)
  <2>1. PICK id \in DOMAIN channels : GetChannel(id)
    BY <1>10
  <2> DEFINE c == Clone(channels[id])
  <2>2. c \in ChannelType /\ c.buffer = <<>>
    <3>1. /\ channels[id] = [id |-> id, buffer |-> <<>>, is_open |-> TRUE, msg_count |-> 0]
          /\ id \in 1 .. MaxChannels
      BY DEF NewChannel, IpcInv, IpcTypeOK
    <3>2. channels[id] \in ChannelType
      BY <3>1 DEF ChannelType
    <3>3. c = [channels[id] EXCEPT !.buffer = <<>>] /\ <<>> \in Seq(IpcMessages)
      BY DEF Clone
    <3> HIDE DEF c
    <3> QED BY <3>2, <3>3 DEF ChannelType
  <2> HIDE DEF c
  <2>3. handles' = Append(handles, c) /\ Len(handles) < MaxHandles /\ handles \in Seq(ChannelType)
    BY <2>1 DEF GetChannel, c, IpcInv, IpcTypeOK
  <2>4. /\ handles' \in Seq(ChannelType) /\ Len(handles') = Len(handles) + 1
        /\ \A h \in 1 .. Len(handles) : handles'[h] = handles[h]
        /\ handles'[Len(handles) + 1] = c
    BY <2>2, <2>3, AppendProperties
  <2>5. /\ DOMAIN handles \subseteq DOMAIN handles' /\ Len(handles') <= MaxHandles
        /\ \A h \in DOMAIN handles' : Len(handles'[h].buffer) <= IpcCapacity
    BY <2>2, <2>3, <2>4 DEF IpcInv
  <2>6. UNCHANGED <<channels, channel_id, channel_call>>
    BY <2>1 DEF GetChannel
  <2>7. IpcInv'
    BY <1>1, <1>2, <2>4, <2>5, <2>6 DEF IpcInv, IpcTypeOK
  <2> QED BY <2>2, <2>3, <2>7 DEF HandleAdded
<1>11. CASE \E t \in IpcThreads, h \in DOMAIN handles, m \in IpcMessages : ChannelSends(t, h, m)
  <2>1. PICK t \in IpcThreads, h \in DOMAIN handles, m \in IpcMessages : ChannelSends(t, h, m)
    BY <1>11
  <2>2. h \in HandleIds
    BY DEF HandleIds, IpcInv, IpcTypeOK
  <2>3. [op |-> "send", handle |-> h, msg |-> m] \in IpcCalls
    BY <2>2 DEF IpcCalls
  <2>4. Calling
    BY <1>5, <2>1, <2>3 DEF ChannelSends
  <2> QED BY <1>1, <1>3, <1>6, <2>1, <2>4 DEF ChannelSends
<1>12. CASE \E t \in IpcThreads : ChannelPushes(t)
  <2>1. PICK t \in IpcThreads : ChannelPushes(t)
    BY <1>12
  <2> DEFINE h == channel_call[t].handle
             m == channel_call[t].msg
             c == [handles[h] EXCEPT !.buffer = Append(handles[h].buffer, m),
                                     !.msg_count = handles[h].msg_count + 1]
  <2>2. h \in DOMAIN handles /\ m \in IpcMessages
    BY <2>1 DEF ChannelPushes, IpcInv, IpcTypeOK, IpcCalls, IpcIdle
  <2>3. Managed /\ Calling
    BY <1>1, <1>4, <2>1 DEF ChannelPushes
  <2>4. CASE ~HasRoom(handles[h])
    <3>1. UNCHANGED handles
      BY <2>1, <2>4 DEF ChannelPushes
    <3> QED BY <1>3, <1>6, <2>3, <3>1
  <2>5. CASE HasRoom(handles[h])
    <3>1. handles' = [handles EXCEPT ![h] = c]
      BY <2>1, <2>5 DEF ChannelPushes
    <3>2. c \in ChannelType /\ Len(c.buffer) <= IpcCapacity
      <4> DEFINE b == Append(handles[h].buffer, m)
      <4>1. /\ handles[h] \in ChannelType /\ handles[h].buffer \in Seq(IpcMessages)
            /\ handles[h].msg_count + 1 \in Nat
        BY <2>2, HandleTypes
      <4>2. b \in Seq(IpcMessages) /\ Len(b) = Len(handles[h].buffer) + 1
        BY <2>2, <4>1, AppendProperties
      <4>3. Len(b) <= IpcCapacity
        BY <2>2, <2>5, <4>2, HandleTypes DEF HasRoom
      <4>4. c = [handles[h] EXCEPT !.buffer = b, !.msg_count = handles[h].msg_count + 1]
        OBVIOUS
      <4> HIDE DEF c, b
      <4>5. c.buffer = b /\ c \in ChannelType
        BY <4>1, <4>2, <4>4 DEF ChannelType
      <4> QED BY <4>3, <4>5
    <3>3. IpcInv'
      BY <1>7, <2>2, <2>3, <3>1, <3>2
    <3>4. BufferAppended(h, m)
      BY <2>5, <3>1 DEF BufferAppended, HasRoom
    <3> QED BY <2>2, <3>3, <3>4
  <2> QED BY <2>4, <2>5
<1>13. CASE \E t \in IpcThreads, h \in DOMAIN handles : TryReceiveLoads(t, h)
  <2>1. PICK t \in IpcThreads, h \in DOMAIN handles : TryReceiveLoads(t, h)
    BY <1>13
  <2>2. h \in HandleIds
    BY DEF HandleIds, IpcInv, IpcTypeOK
  <2>3. [op |-> "receive", handle |-> h] \in IpcCalls
    BY <2>2 DEF IpcCalls
  <2>4. Calling
    BY <1>5, <2>1, <2>3 DEF TryReceiveLoads
  <2> QED BY <1>1, <1>3, <1>6, <2>1, <2>4 DEF TryReceiveLoads
<1>14. CASE \E t \in IpcThreads : TryReceivePops(t)
  <2>1. PICK t \in IpcThreads : TryReceivePops(t)
    BY <1>14
  <2> DEFINE h == channel_call[t].handle
             c == [handles[h] EXCEPT !.buffer = Tail(handles[h].buffer)]
  <2>2. h \in DOMAIN handles
    BY <2>1 DEF TryReceivePops, IpcInv, IpcTypeOK, IpcCalls, IpcIdle
  <2>3. Managed /\ Calling
    BY <1>1, <1>4, <2>1 DEF TryReceivePops
  <2>4. CASE handles[h].buffer = <<>>
    <3>1. UNCHANGED handles
      BY <2>1, <2>4 DEF TryReceivePops
    <3> QED BY <1>3, <1>6, <2>3, <3>1
  <2>5. CASE handles[h].buffer # <<>>
    <3>1. handles' = [handles EXCEPT ![h] = c]
      BY <2>1, <2>5 DEF TryReceivePops
    <3>2. c \in ChannelType /\ Len(c.buffer) <= IpcCapacity
      <4> DEFINE b == Tail(handles[h].buffer)
      <4>1. handles[h] \in ChannelType /\ handles[h].buffer \in Seq(IpcMessages)
        BY <2>2, HandleTypes
      <4>2. b \in Seq(IpcMessages) /\ Len(b) = Len(handles[h].buffer) - 1
        BY <2>5, <4>1, HeadTailProperties
      <4>3. Len(b) <= IpcCapacity
        BY <2>2, <4>2, HandleTypes
      <4>4. c = [handles[h] EXCEPT !.buffer = b]
        OBVIOUS
      <4> HIDE DEF c, b
      <4>5. c.buffer = b /\ c \in ChannelType
        BY <4>1, <4>2, <4>4 DEF ChannelType
      <4> QED BY <4>3, <4>5
    <3>3. IpcInv'
      BY <1>7, <2>2, <2>3, <3>1, <3>2
    <3>4. BufferTaken(h)
      BY <2>5, <3>1 DEF BufferTaken
    <3> QED BY <2>2, <3>3, <3>4
  <2> QED BY <2>4, <2>5
<1>15. CASE \E h \in DOMAIN handles : CloseHandle(h)
  <2>1. PICK h \in DOMAIN handles : CloseHandle(h)
    BY <1>15
  <2> DEFINE c == [handles[h] EXCEPT !.is_open = FALSE]
  <2>2. handles' = [handles EXCEPT ![h] = c] /\ UNCHANGED <<channels, channel_id, channel_call>>
    BY <2>1 DEF CloseHandle
  <2>3. c \in ChannelType /\ c.buffer = handles[h].buffer /\ Len(c.buffer) <= IpcCapacity
    BY HandleTypes DEF ChannelType
  <2> HIDE DEF c
  <2>4. IpcInv'
    BY <1>1, <1>2, <1>7, <2>2, <2>3
  <2>5. BuffersKept
    BY <2>2, <2>3, StoreHandle DEF BuffersKept
  <2> QED BY <2>4, <2>5
<1>16. CASE UNCHANGED ipcvars
  BY <1>1, <1>2, <1>3, <1>6, <1>16 DEF ipcvars
<1> QED BY <1>8, <1>9, <1>10, <1>11, <1>12, <1>13, <1>14, <1>15, <1>16 DEF IpcNext

(* The inductive invariant of the IPC channels: a call under way is on a   *)
(* handle that get_channel gave out, and no buffer is longer than its      *)
(* capacity, as send compares and appends under the buffer's lock          *)
(* (channel.rs).                                                           *)
THEOREM ChannelsHold == IpcSpec => []IpcInv
<1>1. IpcInv /\ [IpcNext]_ipcvars => IpcInv'
  BY IpcStep
<1> QED BY <1>1, IpcInitially, PTL DEF IpcSpec

(* Whatever the threads that share a handle interleave, and whoever closes *)
(* it or destroys its channel, its buffer is a bounded first-in first-out  *)
(* queue (send and try_receive, channel.rs).                               *)
THEOREM HandlesAreQueues == IpcSpec => ChannelsAreQueues
<1> DEFINE buffers == [h \in HandleIds |-> IF h \in DOMAIN handles THEN handles[h].buffer ELSE <<>>]
<1>0. IpcInv => DOMAIN handles = 1 .. Len(handles) /\ DOMAIN handles \subseteq HandleIds
  BY IpcAssumption DEF IpcInv, IpcTypeOK, HandleIds
<1>1. IpcInit => IpcQueues!Init
  BY DEF IpcInit, IpcQueues!Init
<1>2. IpcInv => IpcQueues!Bounded
  <2> SUFFICES ASSUME IpcInv, NEW h \in HandleIds
               PROVE  Len(buffers[h]) <= IpcCapacity
    BY DEF IpcQueues!Bounded
  <2>1. CASE h \in DOMAIN handles
    BY <2>1, HandleTypes
  <2>2. CASE h \notin DOMAIN handles
    BY <2>2, IpcAssumption
  <2> QED BY <2>1, <2>2
<1>3. IpcInv /\ IpcQueues!Bounded' /\ [IpcNext]_ipcvars
        => [IpcQueues!Next /\ IpcQueues!Bounded']_buffers
  <2> SUFFICES ASSUME IpcInv, [IpcNext]_ipcvars, buffers' # buffers
               PROVE  IpcQueues!Next
    OBVIOUS
  <2>1. /\ DOMAIN buffers = HandleIds /\ DOMAIN buffers' = HandleIds
        /\ \A h \in HandleIds :
             /\ h \in DOMAIN handles => buffers[h] = handles[h].buffer
             /\ h \notin DOMAIN handles => buffers[h] = <<>>
             /\ h \in DOMAIN handles' => buffers'[h] = handles'[h].buffer
             /\ h \notin DOMAIN handles' => buffers'[h] = <<>>
    OBVIOUS
  <2>2. /\ buffers = [h \in HandleIds |-> buffers[h]]
        /\ buffers' = [h \in HandleIds |-> buffers'[h]]
    OBVIOUS
  <2>3. DOMAIN handles = 1 .. Len(handles) /\ DOMAIN handles \subseteq HandleIds
        /\ handles \in Seq(ChannelType)
    BY <1>0 DEF IpcInv, IpcTypeOK
  <2> HIDE DEF buffers
  <2>4. CASE BuffersKept
    <3>1. \A h \in HandleIds : buffers'[h] = buffers[h]
      BY <2>1, <2>4 DEF BuffersKept
    <3> QED BY <2>2, <3>1
  <2>5. CASE HandleAdded
    <3>1. PICK c \in ChannelType : c.buffer = <<>> /\ handles' = Append(handles, c)
      BY <2>5 DEF HandleAdded
    <3>2. /\ DOMAIN handles' = DOMAIN handles \cup {Len(handles) + 1}
          /\ \A h \in DOMAIN handles : handles'[h] = handles[h]
          /\ handles'[Len(handles) + 1] = c /\ Len(handles) + 1 \notin DOMAIN handles
      <4>1. /\ Len(handles') = Len(handles) + 1 /\ handles' \in Seq(ChannelType)
            /\ \A h \in 1 .. Len(handles) : handles'[h] = handles[h]
            /\ handles'[Len(handles) + 1] = c
        BY <2>3, <3>1, AppendProperties
      <4> QED BY <2>3, <4>1
    <3>3. \A h \in HandleIds : buffers'[h] = buffers[h]
      BY <2>1, <3>1, <3>2
    <3> QED BY <2>2, <3>3
  <2>6. CASE \E h \in DOMAIN handles, m \in IpcMessages : BufferAppended(h, m)
    <3>1. PICK h \in DOMAIN handles, m \in IpcMessages : BufferAppended(h, m)
      BY <2>6
    <3> DEFINE copies(g) == IF g = h THEN 1 ELSE 0
    <3>2. /\ DOMAIN handles' = DOMAIN handles
          /\ handles'[h].buffer = Append(handles[h].buffer, m)
          /\ \A g \in DOMAIN handles : g # h => handles'[g] = handles[g]
      BY <2>3, <3>1 DEF BufferAppended, ChannelType
    <3>3. /\ handles[h].buffer \in Seq(IpcMessages)
          /\ \A g \in HandleIds : buffers[g] \in Seq(IpcMessages)
      <4>1. \A g \in DOMAIN handles : handles[g].buffer \in Seq(IpcMessages)
        BY HandleTypes
      <4>2. <<>> \in Seq(IpcMessages)
        BY EmptySeq
      <4> QED BY <2>1, <4>1, <4>2
    <3>4. ASSUME NEW g \in HandleIds
          PROVE  \E n \in 0 .. IpcCapacity : buffers'[g] = buffers[g] \o [i \in 1 .. n |-> m]
      <4>1. CASE g = h
        <5>1. buffers'[g] = Append(buffers[g], m)
          BY <2>1, <2>3, <3>2, <4>1
        <5>2. Append(buffers[g], m) = buffers[g] \o <<m>> /\ <<m>> = [i \in 1 .. 1 |-> m]
          BY <3>3, AppendIsConcat
        <5>3. 1 \in 0 .. IpcCapacity
          BY IpcAssumption
        <5>4. buffers'[g] = buffers[g] \o [i \in 1 .. 1 |-> m]
          BY <5>1, <5>2
        <5> QED BY <5>3, <5>4
      <4>2. CASE g # h
        <5>1. buffers'[g] = buffers[g]
          BY <2>1, <3>2, <4>2
        <5>2. buffers[g] \o <<>> = buffers[g] /\ <<>> = [i \in 1 .. 0 |-> m]
          BY <3>3, ConcatEmptySeq
        <5>3. 0 \in 0 .. IpcCapacity
          BY IpcAssumption
        <5>4. buffers'[g] = buffers[g] \o [i \in 1 .. 0 |-> m]
          BY <5>1, <5>2
        <5> QED BY <5>3, <5>4
      <4> QED BY <4>1, <4>2
    <3>5. IpcQueues!Deliver
      BY <2>2, <3>4 DEF IpcQueues!Deliver, buffers
    <3> QED BY <3>5 DEF IpcQueues!Next
  <2>7. CASE \E h \in DOMAIN handles : BufferTaken(h)
    <3>1. PICK h \in DOMAIN handles : BufferTaken(h)
      BY <2>7
    <3>2. /\ DOMAIN handles' = DOMAIN handles
          /\ handles'[h].buffer = Tail(handles[h].buffer)
          /\ \A g \in DOMAIN handles : g # h => handles'[g] = handles[g]
      BY <2>3, <3>1 DEF BufferTaken, ChannelType
    <3>3. h \in HandleIds /\ buffers[h] # <<>>
      BY <2>1, <2>3, <3>1 DEF BufferTaken
    <3>4. buffers' = [buffers EXCEPT ![h] = Tail(@)]
      <4>1. \A g \in HandleIds : buffers'[g] = IF g = h THEN Tail(buffers[h]) ELSE buffers[g]
        BY <2>1, <2>3, <3>2, <3>3
      <4>2. buffers' = [g \in HandleIds |-> IF g = h THEN Tail(buffers[h]) ELSE buffers[g]]
        BY <2>2, <4>1
      <4> QED BY <2>1, <4>2
    <3>5. IpcQueues!Receive(h)
      BY <3>3, <3>4 DEF IpcQueues!Receive, buffers
    <3> QED BY <3>3, <3>5 DEF IpcQueues!Next
  <2> QED BY <2>4, <2>5, <2>6, <2>7, IpcStep
<1> QED BY <1>1, <1>2, <1>3, ChannelsHold, PTL DEF IpcSpec, ChannelsAreQueues, IpcQueues!Spec

-----------------------------------------------------------------------------
(* The audit log *)

LEMMA AuditInitially == AuditInit => AuditInv
<1> SUFFICES ASSUME AuditInit PROVE AuditInv
  OBVIOUS
<1>1. records \in Seq(Record) /\ Len(records) = 0 /\ DOMAIN records = {} /\ records = <<>>
  BY DEF AuditInit
<1>2. current_hash = 0 /\ next_id = 1 /\ \A t \in Auditors : audit_call[t] = AuditIdle
  BY DEF AuditInit, NoHash
<1>3. audit_call \in [Auditors -> AuditCalls]
  BY DEF AuditInit, AuditCalls
<1>4. AuditTypeOK
  BY <1>1, <1>2, <1>3, AuditAssumption DEF AuditTypeOK
<1>5. LogLinked
  BY <1>1, <1>2, AuditAssumption DEF LogLinked, LinkedFrom, NoHash
<1> QED BY <1>2, <1>4, <1>5 DEF AuditInv

LEMMA AuditTakesId ==
  ASSUME AuditInv, NEW t \in Auditors, AppendTakesId(t)
  PROVE  AuditInv'
<1>1. /\ next_id \in 1 .. MaxRecords /\ next_id' = next_id + 1
      /\ UNCHANGED <<records, current_hash>>
      /\ MaxRecords \in Nat
  BY AuditAssumption DEF AuditInv, AuditTypeOK, AppendTakesId
<1> DEFINE c == [op |-> "load", record_id |-> next_id]
<1>2. c \in AuditCalls /\ c.op = "load" /\ c.record_id = next_id
  BY <1>1 DEF AuditCalls
<1> HIDE DEF c
<1>3. /\ audit_call' = [audit_call EXCEPT ![t] = c]
      /\ audit_call \in [Auditors -> AuditCalls]
  BY DEF AuditInv, AuditTypeOK, AppendTakesId, c
<1>4. AuditTypeOK'
  BY <1>1, <1>2, <1>3 DEF AuditInv, AuditTypeOK
<1>5. ~AllIdle'
  BY <1>2, <1>3 DEF AllIdle, AuditIdle
<1>6. LogLinked'
  BY <1>1, <1>5 DEF AuditInv, LogLinked, LinkedFrom
<1>7. ASSUME AuditLock, NEW u \in Auditors, audit_call'[u] # AuditIdle
      PROVE  /\ \A v \in Auditors \ {u} : audit_call'[v] = AuditIdle
             /\ current_hash' = next_id' - 2
             /\ audit_call'[u].op = "load" => audit_call'[u].record_id = next_id' - 1
             /\ audit_call'[u].op = "push" =>
                  audit_call'[u].record = [record_id |-> next_id' - 1, prev_hash |-> current_hash']
  <2>1. AllIdle
    BY <1>7 DEF AppendTakesId, AllIdle
  <2>2. u = t /\ \A v \in Auditors \ {u} : audit_call'[v] = AuditIdle
    BY <1>3, <1>7, <2>1 DEF AllIdle
  <2>3. current_hash = next_id - 1
    BY <1>7, <2>1 DEF AuditInv, LogLinked
  <2>4. audit_call'[u] = c
    BY <1>3, <2>2
  <2>5. current_hash' = next_id' - 2 /\ next_id' - 1 = next_id
    BY <1>1, <2>3
  <2> QED BY <1>2, <2>2, <2>4, <2>5
<1> QED BY <1>4, <1>6, <1>7 DEF AuditInv

LEMMA AuditLoadsHash ==
  ASSUME AuditInv, NEW t \in Auditors, AppendLoadsHash(t)
  PROVE  AuditInv'
<1> DEFINE r == [record_id |-> audit_call[t].record_id, prev_hash |-> current_hash]
           c == [op |-> "push", record |-> r]
<1>1. audit_call[t].op = "load" /\ audit_call[t] \in AuditCalls /\ audit_call[t] # AuditIdle
  BY DEF AuditInv, AuditTypeOK, AppendLoadsHash, AuditIdle
<1>2. audit_call[t].record_id \in 1 .. MaxRecords
  BY <1>1 DEF AuditCalls, AuditIdle
<1>3. r \in Record
  BY <1>2 DEF AuditInv, AuditTypeOK, Record
<1>4. audit_call' = [audit_call EXCEPT ![t] = c]
  BY DEF AppendLoadsHash
<1>5. r.record_id = audit_call[t].record_id /\ r.prev_hash = current_hash
  OBVIOUS
<1>6. AuditLock => r = [record_id |-> next_id - 1, prev_hash |-> current_hash]
  <2> HAVE AuditLock
  <2>1. audit_call[t].record_id = next_id - 1
    BY <1>1 DEF AuditInv
  <2> QED BY <2>1
<1> HIDE DEF r
<1>7. c \in AuditCalls /\ c.op = "push" /\ c.record = r
  BY <1>3 DEF AuditCalls
<1> HIDE DEF c
<1>8. /\ audit_call \in [Auditors -> AuditCalls] /\ UNCHANGED <<records, current_hash, next_id>>
  BY DEF AuditInv, AuditTypeOK, AppendLoadsHash
<1>9. AuditTypeOK'
  BY <1>4, <1>7, <1>8 DEF AuditInv, AuditTypeOK
<1>10. ~AllIdle'
  BY <1>4, <1>7, <1>8 DEF AllIdle, AuditIdle
<1>11. LogLinked'
  BY <1>8, <1>10 DEF AuditInv, LogLinked, LinkedFrom
<1>12. ASSUME AuditLock, NEW u \in Auditors, audit_call'[u] # AuditIdle
      PROVE  /\ \A v \in Auditors \ {u} : audit_call'[v] = AuditIdle
             /\ current_hash' = next_id' - 2
             /\ audit_call'[u].op = "load" => audit_call'[u].record_id = next_id' - 1
             /\ audit_call'[u].op = "push" =>
                  audit_call'[u].record = [record_id |-> next_id' - 1, prev_hash |-> current_hash']
  <2>1. (\A v \in Auditors \ {t} : audit_call[v] = AuditIdle) /\ current_hash = next_id - 2
    BY <1>1, <1>12 DEF AuditInv
  <2>2. u = t /\ audit_call'[u] = c /\ \A v \in Auditors \ {u} : audit_call'[v] = AuditIdle
    BY <1>4, <1>8, <1>12, <2>1
  <2> QED BY <1>6, <1>7, <1>8, <1>12, <2>1, <2>2
<1> QED BY <1>9, <1>11, <1>12 DEF AuditInv

(* The log after the eviction has room, and is the end of what it was.     *)
LEMMA EvictedLog ==
  ASSUME AuditTypeOK
  PROVE  /\ Evicted \in Seq(Record) /\ Len(Evicted) < max_records
         /\ Len(Evicted) = IF IsFull THEN Len(records) - 1 ELSE Len(records)
         /\ \A i \in 1 .. Len(Evicted) :
              Evicted[i] = records[i + Len(records) - Len(Evicted)]
<1>1. records \in Seq(Record) /\ Len(records) \in Nat /\ max_records \in Nat \ {0}
      /\ Len(records) <= max_records
  BY AuditAssumption DEF AuditTypeOK
<1>2. CASE IsFull
  <2>1. records # <<>> /\ Len(records) = max_records
    BY <1>1, <1>2 DEF IsFull
  <2>2. /\ Tail(records) \in Seq(Record) /\ Len(Tail(records)) = Len(records) - 1
        /\ \A i \in 1 .. Len(records) - 1 : Tail(records)[i] = records[i + 1]
    BY <1>1, <2>1
  <2> QED BY <1>1, <1>2, <2>1, <2>2 DEF Evicted
<1>3. CASE ~IsFull
  BY <1>1, <1>3 DEF Evicted, IsFull
<1> QED BY <1>2, <1>3

LEMMA AuditPushes ==
  ASSUME AuditInv, NEW t \in Auditors, AppendPushes(t)
  PROVE  AuditInv'
<1> DEFINE r == audit_call[t].record
<1>1. audit_call[t].op = "push" /\ audit_call[t] \in AuditCalls /\ audit_call[t] # AuditIdle
  BY DEF AuditInv, AuditTypeOK, AppendPushes, AuditIdle
<1>2. r \in Record /\ r.record_id \in 1 .. MaxRecords
  <2>1. r \in Record
    BY <1>1 DEF AuditCalls, AuditIdle
  <2> QED BY <2>1 DEF Record
<1>3. /\ records' = Append(Evicted, r) /\ current_hash' = r.record_id /\ next_id' = next_id
      /\ audit_call' = [audit_call EXCEPT ![t] = AuditIdle]
  BY DEF AppendPushes, Hash
<1> HIDE DEF r
<1>4. /\ records \in Seq(Record) /\ max_records \in Nat \ {0} /\ MaxRecords \in Nat
      /\ audit_call \in [Auditors -> AuditCalls] /\ AuditIdle \in AuditCalls
      /\ current_hash \in 0 .. MaxRecords /\ next_id \in 1 .. MaxRecords + 1
  BY AuditAssumption DEF AuditInv, AuditTypeOK, AuditCalls
<1> PICK n \in Nat : n = Len(Evicted)
  BY EvictedLog DEF AuditInv
<1> PICK m \in Nat : m = Len(records)
  BY <1>4
<1>5. /\ Evicted \in Seq(Record) /\ n < max_records
      /\ n = IF m >= max_records THEN m - 1 ELSE m
      /\ \A i \in 1 .. n : Evicted[i] = records[i + m - n]
  BY EvictedLog DEF AuditInv, IsFull
<1>6. /\ records' \in Seq(Record) /\ Len(records') = n + 1 /\ records'[n + 1] = r
      /\ \A i \in 1 .. n : records'[i] = Evicted[i]
      /\ DOMAIN records' = 1 .. n + 1 /\ records' # <<>>
  <2>1. PICK e \in Seq(Record) : e = Evicted
    BY <1>5
  <2>2. /\ Append(e, r) \in Seq(Record) /\ Len(Append(e, r)) = Len(e) + 1
        /\ Append(e, r)[Len(e) + 1] = r /\ \A i \in 1 .. Len(e) : Append(e, r)[i] = e[i]
    BY <1>2, AppendProperties
  <2>3. DOMAIN Append(e, r) = 1 .. n + 1 /\ Append(e, r) # <<>>
    BY <2>1, <2>2
  <2> QED BY <1>3, <2>1, <2>2, <2>3
<1>7. AuditTypeOK'
  BY <1>2, <1>3, <1>4, <1>5, <1>6 DEF AuditTypeOK
<1>8. ASSUME AuditLock
      PROVE  AllIdle' /\ next_id = current_hash + 2
             /\ r.record_id = current_hash + 1 /\ r.prev_hash = current_hash
  <2>1. /\ \A u \in Auditors \ {t} : audit_call[u] = AuditIdle
        /\ current_hash = next_id - 2
        /\ r = [record_id |-> next_id - 1, prev_hash |-> current_hash]
    BY <1>1, <1>8 DEF AuditInv, r
  <2>2. AllIdle'
    BY <1>3, <1>4, <2>1 DEF AllIdle
  <2> QED BY <1>4, <2>1, <2>2
<1>9. LogLinked'
  <2> SUFFICES ASSUME AuditLock PROVE LogLinked'
    BY DEF LogLinked
  <2>1. /\ \A i \in 2 .. m : records[i].prev_hash = records[i - 1].record_id
        /\ current_hash = IF m = 0 THEN 0 ELSE records[m].record_id
        /\ \A i \in 1 .. m : records[i].record_id = current_hash - m + i
        /\ m = IF current_hash < max_records THEN current_hash ELSE max_records
    <3>1. m = 0 <=> records = <<>>
      BY <1>4
    <3>2. DOMAIN records = 1 .. m
      BY <1>4
    <3> QED BY <3>1, <3>2 DEF AuditInv, LogLinked, LinkedFrom, Hash, NoHash
  <2>2. ASSUME NEW i \in 2 .. n + 1 PROVE records'[i].prev_hash = records'[i - 1].record_id
    <3>1. CASE i = n + 1
      <4>1. i - 1 \in 1 .. n /\ i - 1 = n /\ m > 0 /\ n + m - n = m
        BY <1>5, <3>1
      <4>2. records'[i - 1] = records[m]
        BY <1>5, <1>6, <4>1
      <4>3. records[m].record_id = current_hash
        BY <2>1, <4>1
      <4>4. records'[i] = r
        BY <1>6, <3>1
      <4> QED BY <1>8, <4>2, <4>3, <4>4
    <3>2. CASE i # n + 1
      <4>1. i \in 1 .. n /\ i - 1 \in 1 .. n
        BY <3>2
      <4>2. i + m - n \in 2 .. m /\ i - 1 + m - n = (i + m - n) - 1
        BY <1>5, <4>1
      <4>3. records'[i] = records[i + m - n] /\ records'[i - 1] = records[(i + m - n) - 1]
        BY <1>5, <1>6, <4>1, <4>2
      <4> QED BY <2>1, <4>2, <4>3
    <3> QED BY <3>1, <3>2
  <2>3. ASSUME NEW i \in 1 .. n + 1
        PROVE  records'[i].record_id = current_hash' - (n + 1) + i
    <3>1. CASE i = n + 1
      BY <1>3, <1>6, <3>1, <1>2
    <3>2. CASE i # n + 1
      <4>1. i \in 1 .. n /\ i + m - n \in 1 .. m
        BY <1>5, <3>2
      <4>2. records'[i] = records[i + m - n]
        BY <1>5, <1>6, <4>1
      <4>3. records[i + m - n].record_id = current_hash - m + (i + m - n)
        BY <2>1, <4>1
      <4>4. current_hash' = current_hash + 1 /\ current_hash \in Int
        BY <1>3, <1>4, <1>8
      <4> QED BY <4>1, <4>2, <4>3, <4>4
    <3> QED BY <3>1, <3>2
  <2>4. n + 1 = IF current_hash' < max_records THEN current_hash' ELSE max_records
    <3>1. current_hash' = current_hash + 1 /\ current_hash \in Nat
      BY <1>3, <1>4, <1>8
    <3>2. m = IF current_hash < max_records THEN current_hash ELSE max_records
      BY <2>1
    <3> QED BY <1>4, <1>5, <3>1, <3>2
  <2>5. current_hash' = next_id' - 1
    BY <1>3, <1>4, <1>8
  <2>6. LinkedFrom(records)'
    BY <1>6, <2>2 DEF LinkedFrom, Hash
  <2>7. (current_hash = IF records = <<>> THEN NoHash ELSE Hash(records[Len(records)]))'
    BY <1>3, <1>6 DEF Hash
  <2>8. (\A i \in DOMAIN records : records[i].record_id = current_hash - Len(records) + i)'
    BY <1>6, <2>3
  <2> QED BY <1>6, <2>4, <2>5, <2>6, <2>7, <2>8 DEF LogLinked
<1> QED BY <1>7, <1>8, <1>9 DEF AuditInv, AllIdle

LEMMA AuditStutters ==
  ASSUME AuditInv, UNCHANGED auditvars
  PROVE  AuditInv'
BY DEF auditvars, AuditInv, AuditTypeOK, LogLinked, LinkedFrom, AllIdle

(* The inductive invariant of the audit log: behind the lock of            *)
(* AUDIT_CHAIN an append under way has the last id and the hash of the     *)
(* last record (audit_chain.rs).                                           *)
THEOREM AuditHolds == AuditSpec => []AuditInv
<1>1. AuditInv /\ [AuditNext]_auditvars => AuditInv'
  BY AuditTakesId, AuditLoadsHash, AuditPushes, AuditStutters DEF AuditNext
<1> QED BY <1>1, AuditInitially, PTL DEF AuditSpec

(* For any number of callers and any size of the log, and however long it  *)
(* is appended to: behind the lock of AUDIT_CHAIN what is kept is linked,  *)
(* and is the latest.                                                      *)
THEOREM AuditLogKept == AuditSpec => []LogLinked
BY AuditHolds, PTL DEF AuditInv

-----------------------------------------------------------------------------
(* The configuration *)

LEMMA EmptyStore == NewStore \in StoreType
<1>1. NoFields \in ConfigData
  BY DEF NoFields, ConfigData
<1> QED BY <1>1 DEF NewStore, StoreType

LEMMA ConfigInitially == ConfigInit => ConfigInv
<1> SUFFICES ASSUME ConfigInit PROVE ConfigInv
  OBVIOUS
<1>2. /\ DOMAIN stores = DefaultStores /\ stores \in [DefaultStores -> StoreType]
      /\ DOMAIN told = Callbacks /\ \A t \in ConfigThreads : setting[t] = NoCall
      /\ reload_pending \in BOOLEAN
  BY EmptyStore DEF ConfigInit
<1>3. setting \in [ConfigThreads -> Settings]
  BY DEF ConfigInit, Settings
<1> QED BY <1>2, <1>3 DEF ConfigInv, ConfigTypeOK, Namespaces

(* Storing a store in place of another keeps the types.                    *)
LEMMA StoreReplaced ==
  ASSUME ConfigTypeOK, NEW ns \in DOMAIN stores, NEW st \in StoreType,
         stores' = [stores EXCEPT ![ns] = st]
  PROVE  /\ DOMAIN stores' = DOMAIN stores
         /\ stores' \in [DOMAIN stores' -> StoreType]
BY DEF ConfigTypeOK

(* Between calls only the types matter.                                    *)
LEMMA IdleKeepsInv ==
  ASSUME ConfigInv, NEW t \in ConfigThreads, MayBegin(t), UNCHANGED setting,
         DOMAIN stores' \subseteq Namespaces, stores' \in [DOMAIN stores' -> StoreType],
         DOMAIN told' = Callbacks, reload_pending' \in BOOLEAN, ConfigLock
  PROVE  ConfigInv'
<1>1. ConfigTypeOK'
  BY DEF ConfigInv, ConfigTypeOK
<1>2. \A u \in ConfigThreads : setting'[u] = NoCall
  BY DEF MayBegin
<1> QED BY <1>1, <1>2 DEF ConfigInv

(* Putting a value under a key                                             *)
LEMMA PutData ==
  ASSUME NEW table \in ConfigData, NEW key \in Keys, NEW value \in ConfigValue
  PROVE  /\ Put(table, key, value) \in ConfigData
         /\ key \in DOMAIN Put(table, key, value) /\ Put(table, key, value)[key] = value
<1>1. PICK ks \in SUBSET Keys : table \in [ks -> ConfigValue]
  BY DEF ConfigData
<1>2. DOMAIN table = ks
  BY <1>1
<1>3. Put(table, key, value) \in [ks \cup {key} -> ConfigValue]
  BY <1>1, <1>2 DEF Put
<1>4. ks \cup {key} \in SUBSET Keys
  BY <1>1
<1> QED BY <1>2, <1>3, <1>4 DEF Put, ConfigData

LEMMA ErasedData ==
  ASSUME NEW table \in ConfigData, NEW key
  PROVE  Erased(table, key) \in ConfigData
<1>1. PICK ks \in SUBSET Keys : table \in [ks -> ConfigValue]
  BY DEF ConfigData
<1>2. DOMAIN table = ks
  BY <1>1
<1>3. Erased(table, key) \in [ks \ {key} -> ConfigValue] /\ ks \ {key} \in SUBSET Keys
  BY <1>1, <1>2 DEF Erased
<1> QED BY <1>3 DEF ConfigData

LEMMA DefaultsData ==
  ASSUME NEW ns, NEW table \in ConfigData
  PROVE  Overlay(Defaults(ns), table) \in ConfigData
<1>1. PICK ks \in SUBSET Keys : table \in [ks -> ConfigValue]
  BY DEF ConfigData
<1>2. Integer(1) \in ConfigValue
  BY DEF ConfigValue
<1>3. PICK ds \in SUBSET Keys : Defaults(ns) = [k \in ds |-> Integer(1)]
  <2>1. CASE ns = "system"
    BY <2>1 DEF Defaults
  <2>2. CASE ns = "network"
    BY <2>2 DEF Defaults
  <2>3. CASE ns = "security"
    BY <2>3 DEF Defaults
  <2>4. CASE ns \notin {"system", "network", "security"}
    BY <2>4 DEF Defaults
  <2> QED BY <2>1, <2>2, <2>3, <2>4
<1> DEFINE d == Defaults(ns)
<1>4. d \in [ds -> ConfigValue] /\ DOMAIN d = ds /\ DOMAIN table = ks
  BY <1>1, <1>2, <1>3
<1> HIDE DEF d
<1>5. Overlay(d, table) \in [ks \cup ds -> ConfigValue]
  BY <1>1, <1>4 DEF Overlay
<1>6. ks \cup ds \in SUBSET Keys
  OBVIOUS
<1>7. Overlay(d, table) \in ConfigData
  BY <1>5, <1>6 DEF ConfigData
<1> QED BY <1>7 DEF d

LEMMA ConfigSets ==
  ASSUME ConfigInv, ConfigLock, NEW t \in ConfigThreads, NEW ns, NEW key \in Keys,
         NEW value \in ConfigValue, Set(t, ns, key, value)
  PROVE  ConfigInv'
<1>1. ns \in DOMAIN stores /\ ConfigTypeOK /\ ns \in Namespaces
  BY DEF Set, ConfigInv, ConfigTypeOK
<1>2. stores[ns] \in StoreType
  BY <1>1 DEF ConfigTypeOK
<1>3. stores[ns].data \in ConfigData
  BY <1>2 DEF StoreType
<1> DEFINE st == [stores[ns] EXCEPT !.data = Put(stores[ns].data, key, value)]
           c == [op |-> "notify", ns |-> ns, key |-> key, value |-> value]
<1>4. PICK d \in ConfigData : /\ d = Put(stores[ns].data, key, value)
                              /\ key \in DOMAIN d /\ d[key] = value
  BY <1>3, PutData
<1>5. st \in StoreType /\ st.data = d
  BY <1>2, <1>4 DEF StoreType
<1>6. /\ stores' = [stores EXCEPT ![ns] = st]
      /\ setting' = [setting EXCEPT ![t] = c] /\ UNCHANGED <<told, reload_pending>>
      /\ \A u \in ConfigThreads : setting[u] = NoCall
  BY DEF Set, MayBegin
<1> HIDE DEF st
<1>7. /\ DOMAIN stores' = DOMAIN stores /\ stores' \in [DOMAIN stores' -> StoreType]
      /\ stores'[ns] = st
  BY <1>1, <1>5, <1>6, StoreReplaced DEF ConfigTypeOK
<1>8. c \in Settings /\ c # NoCall /\ c.ns = ns /\ c.key = key /\ c.value = value
  BY <1>1 DEF Settings, NoCall
<1> HIDE DEF c
<1>9. setting' \in [ConfigThreads -> Settings]
  BY <1>1, <1>6, <1>8 DEF ConfigTypeOK
<1>10. ConfigTypeOK'
  BY <1>1, <1>6, <1>7, <1>9 DEF ConfigTypeOK
<1>11. ASSUME NEW u \in ConfigThreads, setting'[u] # NoCall
       PROVE  /\ \A v \in ConfigThreads \ {u} : setting'[v] = NoCall
              /\ setting'[u].ns \in DOMAIN stores'
              /\ <<setting'[u].key, setting'[u].value>> \in Export(stores'[setting'[u].ns].data)
  <2>1. u = t /\ setting'[u] = c /\ \A v \in ConfigThreads \ {u} : setting'[v] = NoCall
    BY <1>1, <1>6, <1>11 DEF ConfigTypeOK
  <2>2. stores'[ns].data = d
    BY <1>5, <1>7
  <2>3. <<key, value>> \in Export(d)
    BY <1>4 DEF Export
  <2> QED BY <1>1, <1>7, <1>8, <2>1, <2>2, <2>3
<1> QED BY <1>10, <1>11 DEF ConfigInv, Snapshot

LEMMA ConfigNotifies ==
  ASSUME ConfigInv, ConfigLock, NEW t \in ConfigThreads, NotifyCallbacks(t)
  PROVE  ConfigInv'
<1>1. /\ UNCHANGED <<stores, reload_pending>> /\ DOMAIN told' = Callbacks
      /\ setting' = [setting EXCEPT ![t] = NoCall] /\ ConfigTypeOK /\ setting[t] # NoCall
  BY DEF NotifyCallbacks, ConfigInv
<1>2. setting' \in [ConfigThreads -> Settings]
  BY <1>1 DEF ConfigTypeOK, Settings
<1>3. \A u \in ConfigThreads : setting'[u] = NoCall
  BY <1>1 DEF ConfigInv, ConfigTypeOK
<1> QED BY <1>1, <1>2, <1>3 DEF ConfigInv, ConfigTypeOK

(* The calls that have no second section *)
LEMMA ConfigStores ==
  ASSUME ConfigInv, ConfigLock, NEW t \in ConfigThreads, NEW ns,
         \/ \E key \in Keys : Delete(t, ns, key)
         \/ \E pattern \in Patterns, f \in Callbacks : Watch(t, ns, pattern, f)
         \/ \E pattern \in Patterns : Unwatch(t, ns, pattern)
         \/ Clear(t, ns)
         \/ \E from : Restore(t, ns, from)
  PROVE  ConfigInv'
<1>1. /\ MayBegin(t) /\ UNCHANGED <<setting, told, reload_pending>>
      /\ ns \in DOMAIN stores
  BY DEF Delete, Watch, Unwatch, Clear, Restore
<1>2. ConfigTypeOK
  BY DEF ConfigInv
<1>3. stores[ns] \in StoreType
  BY <1>1, <1>2 DEF ConfigTypeOK
<1>4. stores[ns].data \in ConfigData /\ stores[ns].callbacks \in SUBSET (Patterns \X Callbacks)
  BY <1>3 DEF StoreType
<1>5. \E st \in StoreType : stores' = [stores EXCEPT ![ns] = st]
  <2>1. ASSUME NEW d \in ConfigData, stores' = [stores EXCEPT ![ns].data = d]
        PROVE  \E st \in StoreType : stores' = [stores EXCEPT ![ns] = st]
    <3>1. [stores[ns] EXCEPT !.data = d] \in StoreType
      BY <1>3, <2>1 DEF StoreType
    <3> QED BY <2>1, <3>1
  <2>2. ASSUME NEW ws \in SUBSET (Patterns \X Callbacks),
               stores' = [stores EXCEPT ![ns].callbacks = ws]
        PROVE  \E st \in StoreType : stores' = [stores EXCEPT ![ns] = st]
    <3>1. [stores[ns] EXCEPT !.callbacks = ws] \in StoreType
      BY <1>3, <2>2 DEF StoreType
    <3> QED BY <2>2, <3>1
  <2>3. ASSUME NEW key \in Keys, Delete(t, ns, key)
        PROVE  \E st \in StoreType : stores' = [stores EXCEPT ![ns] = st]
    <3>1. Erased(stores[ns].data, key) \in ConfigData
      BY <1>4, ErasedData
    <3>2. stores' = [stores EXCEPT ![ns].data = Erased(stores[ns].data, key)]
      BY <2>3 DEF Delete
    <3> QED BY <2>1, <3>1, <3>2
  <2>4. ASSUME NEW pattern \in Patterns, NEW f \in Callbacks, Watch(t, ns, pattern, f)
        PROVE  \E st \in StoreType : stores' = [stores EXCEPT ![ns] = st]
    <3>1. stores[ns].callbacks \cup {<<pattern, f>>} \in SUBSET (Patterns \X Callbacks)
      BY <1>4
    <3>2. stores' = [stores EXCEPT ![ns].callbacks = stores[ns].callbacks \cup {<<pattern, f>>}]
      BY <2>4 DEF Watch
    <3> QED BY <2>2, <3>1, <3>2
  <2>5. ASSUME NEW pattern \in Patterns, Unwatch(t, ns, pattern)
        PROVE  \E st \in StoreType : stores' = [stores EXCEPT ![ns] = st]
    <3>1. {w \in stores[ns].callbacks : w[1] # pattern} \in SUBSET (Patterns \X Callbacks)
      BY <1>4
    <3>2. stores' = [stores EXCEPT ![ns].callbacks = {w \in stores[ns].callbacks : w[1] # pattern}]
      BY <2>5 DEF Unwatch
    <3> QED BY <2>2, <3>1, <3>2
  <2>6. ASSUME Clear(t, ns)
        PROVE  \E st \in StoreType : stores' = [stores EXCEPT ![ns] = st]
    <3>1. NoFields \in ConfigData
      BY DEF NoFields, ConfigData
    <3>2. stores' = [stores EXCEPT ![ns].data = NoFields]
      BY <2>6 DEF Clear
    <3> QED BY <2>1, <3>1, <3>2
  <2>7. ASSUME NEW from, Restore(t, ns, from)
        PROVE  \E st \in StoreType : stores' = [stores EXCEPT ![ns] = st]
    <3>1. from \in DOMAIN stores
      BY <2>7 DEF Restore
    <3>2. stores[from] \in StoreType
      BY <1>2, <3>1 DEF ConfigTypeOK
    <3>3. Snapshot(from) \in ConfigData
      BY <3>2 DEF Snapshot, StoreType
    <3>4. stores' = [stores EXCEPT ![ns].data = Snapshot(from)]
      BY <2>7 DEF Restore
    <3> QED BY <2>1, <3>3, <3>4
  <2> QED BY <2>3, <2>4, <2>5, <2>6, <2>7
<1>6. DOMAIN stores' = DOMAIN stores /\ stores' \in [DOMAIN stores' -> StoreType]
  BY <1>1, <1>2, <1>5, StoreReplaced
<1>7. DOMAIN stores' \subseteq Namespaces /\ DOMAIN told' = Callbacks /\ reload_pending' \in BOOLEAN
  BY <1>1, <1>2, <1>6 DEF ConfigTypeOK
<1> QED BY <1>1, <1>6, <1>7, IdleKeepsInv

(* The manager's own operations *)
LEMMA ConfigManages ==
  ASSUME ConfigInv, ConfigLock, NEW t \in ConfigThreads,
         \/ CreateNamespace(t, "extra")
         \/ RemoveNamespace(t, "extra")
         \/ MarkReload(t)
         \/ Reload(t)
         \/ InitDefaults(t)
  PROVE  ConfigInv'
<1>1. MayBegin(t) /\ UNCHANGED setting /\ reload_pending' \in BOOLEAN /\ ConfigTypeOK
  BY DEF CreateNamespace, RemoveNamespace, MarkReload, Reload, InitDefaults, Exclusive,
         ConfigInv, ConfigTypeOK
<1>2. DOMAIN told' = Callbacks
  BY <1>1 DEF CreateNamespace, RemoveNamespace, MarkReload, Reload, InitDefaults, ConfigTypeOK
<1>3. DOMAIN stores \subseteq Namespaces /\ \A ns \in DOMAIN stores : stores[ns] \in StoreType
  BY <1>1 DEF ConfigTypeOK
<1>4. /\ DOMAIN stores' \subseteq Namespaces
      /\ stores' \in [DOMAIN stores' -> StoreType]
  <2>1. CASE CreateNamespace(t, "extra")
    <3>1. stores' = [ns \in DOMAIN stores \cup {"extra"} |->
                       IF ns = "extra" THEN NewStore ELSE stores[ns]]
      BY <2>1 DEF CreateNamespace, Put
    <3> QED BY <1>3, <3>1, EmptyStore DEF Namespaces
  <2>2. CASE RemoveNamespace(t, "extra")
    <3>1. stores' = [ns \in DOMAIN stores \ {"extra"} |-> stores[ns]]
      BY <2>2 DEF RemoveNamespace, Erased
    <3> QED BY <1>3, <3>1
  <2>3. CASE UNCHANGED stores
    BY <1>1, <2>3 DEF ConfigTypeOK
  <2>4. CASE InitDefaults(t)
    <3> DEFINE filled(ns) == [stores[ns] EXCEPT !.data = Overlay(Defaults(ns), stores[ns].data)]
    <3>1. stores' = [ns \in DOMAIN stores |->
                       IF ns \in DefaultStores THEN filled(ns) ELSE stores[ns]]
      BY <2>4 DEF InitDefaults
    <3>2. ASSUME NEW ns \in DOMAIN stores PROVE filled(ns) \in StoreType
      <4>1. stores[ns] \in StoreType
        BY <1>3, <3>2
      <4>2. Overlay(Defaults(ns), stores[ns].data) \in ConfigData
        BY <4>1, DefaultsData DEF StoreType
      <4> QED BY <4>1, <4>2 DEF StoreType
    <3> HIDE DEF filled
    <3> QED BY <1>3, <3>1, <3>2
  <2> QED BY <2>1, <2>2, <2>3, <2>4 DEF MarkReload, Reload
<1> QED BY <1>1, <1>2, <1>4, IdleKeepsInv

LEMMA ConfigStutters ==
  ASSUME ConfigInv, UNCHANGED configvars
  PROVE  ConfigInv'
BY DEF configvars, ConfigInv, ConfigTypeOK, Export, Snapshot

LEMMA ConfigStep ==
  ConfigLock => (ConfigInv /\ [ConfigNext]_configvars => ConfigInv')
<1> SUFFICES ASSUME ConfigLock, ConfigInv, [ConfigNext]_configvars PROVE ConfigInv'
  OBVIOUS
<1>1. CASE UNCHANGED configvars
  BY <1>1, ConfigStutters
<1>2. ASSUME NEW t \in ConfigThreads, NEW ns \in {"network", "extra"},
             \/ \E key \in Keys, value \in ConfigValue : Set(t, ns, key, value)
             \/ \E key \in Keys : Delete(t, ns, key)
             \/ \E pattern \in Patterns :
                  (\E c \in Callbacks : Watch(t, ns, pattern, c)) \/ Unwatch(t, ns, pattern)
             \/ Clear(t, ns)
             \/ \E from \in {"network", "extra"} \ {ns} : Restore(t, ns, from)
      PROVE  ConfigInv'
  BY <1>2, ConfigSets, ConfigStores
<1>3. ASSUME NEW t \in ConfigThreads,
             \/ CreateNamespace(t, "extra")
             \/ RemoveNamespace(t, "extra")
             \/ NotifyCallbacks(t)
             \/ MarkReload(t)
             \/ Reload(t)
             \/ InitDefaults(t)
      PROVE  ConfigInv'
  BY <1>3, ConfigNotifies, ConfigManages
<1> QED BY <1>1, <1>2, <1>3 DEF ConfigNext

(* The pattern of a callback that is called watches the key.               *)
LEMMA WatchingIsCalled ==
  ASSUME ConfigTypeOK, NEW ns \in DOMAIN stores, NEW key \in Keys,
         NEW w \in stores[ns].callbacks,
         Watches(w[1], key)
  PROVE  w[2] \in Called(ns, key) /\ w[2] \in Callbacks
<1>1. w \in Patterns \X Callbacks
  BY DEF ConfigTypeOK, StoreType
<1>2. w[1] \in Seq(STRING) /\ key \in Seq(STRING) /\ w[2] \in Callbacks
  BY <1>1, StoresAssumption
<1>3. Matches(w[1], key)
  <2>1. CASE w[1] = <<"*">>
    BY <2>1 DEF Matches
  <2>2. CASE Len(w[1]) <= Len(key) /\ \A i \in 1 .. Len(w[1]) : key[i] = w[1][i]
    <3> PICK p \in Seq(STRING) : p = w[1]
      BY <1>2
    <3>1. Len(p) <= Len(key) /\ \A i \in 1 .. Len(p) : key[i] = p[i]
      BY <2>2
    <3>2. SubSeq(p, 1, Len(p)) = SubSeq(key, 1, Len(p))
      BY <1>2, <3>1
    <3> QED BY <3>1, <3>2 DEF Matches, IsPrefix
  <2> QED BY <2>1, <2>2 DEF Watches
<1> QED BY <1>2, <1>3 DEF Called

(* Behind the lock of CONFIG_MANAGER, for any keys, patterns, callbacks and *)
(* threads, when set returns every callback that watches the key has been  *)
(* called with the value the key has then.                                 *)
THEOREM WatchersAreTold == ConfigSpec => WatcherCurrent
<1>1. ConfigLock => (ConfigInv /\ [ConfigNext]_configvars => [ToldOnReturn]_configvars)
  <2> SUFFICES ASSUME ConfigLock, ConfigInv, ConfigNext, NEW t \in ConfigThreads,
                      setting[t] # NoCall, setting'[t] = NoCall,
                      NEW w \in stores[setting[t].ns].callbacks,
                      Watches(w[1], setting[t].key)
               PROVE  LET c == setting[t]
                      IN /\ c.key \in DOMAIN stores'[c.ns].data
                         /\ <<c.ns, c.key>> \in DOMAIN told'[w[2]]
                         /\ told'[w[2]][<<c.ns, c.key>>] = stores'[c.ns].data[c.key]
    BY DEF ToldOnReturn
  <2>1. ~MayBegin(t) /\ \A u \in ConfigThreads : ~MayBegin(u)
    BY DEF MayBegin
  <2>2. PICK u \in ConfigThreads : NotifyCallbacks(u)
    BY <2>1 DEF ConfigNext, Set, Delete, Watch, Unwatch, Clear, Restore, CreateNamespace,
                RemoveNamespace, MarkReload, Reload, InitDefaults, Exclusive
  <2>3. u = t
    BY <2>2 DEF ConfigInv, NotifyCallbacks
  <2> PICK c \in Settings : c = setting[t]
    BY DEF ConfigInv, ConfigTypeOK
  <2>4. c.ns \in DOMAIN stores /\ <<c.key, c.value>> \in Export(stores[c.ns].data)
    BY DEF ConfigInv, Snapshot
  <2>5. c.key \in DOMAIN stores[c.ns].data /\ stores[c.ns].data[c.key] = c.value
    BY <2>4 DEF Export
  <2>6. c.key \in Keys
    BY DEF Settings, NoCall
  <2>7. w[2] \in Called(c.ns, c.key) /\ w[2] \in Callbacks
    BY <2>4, <2>6, WatchingIsCalled DEF ConfigInv
  <2>8. /\ UNCHANGED stores
        /\ told' = [f \in Callbacks |-> IF c.ns \in DOMAIN stores /\ f \in Called(c.ns, c.key)
                                        THEN Put(told[f], <<c.ns, c.key>>, c.value) ELSE told[f]]
    BY <2>2, <2>3 DEF NotifyCallbacks
  <2>9. told'[w[2]] = Put(told[w[2]], <<c.ns, c.key>>, c.value)
    BY <2>4, <2>7, <2>8
  <2>10. /\ <<c.ns, c.key>> \in DOMAIN told'[w[2]]
         /\ told'[w[2]][<<c.ns, c.key>>] = c.value
    BY <2>9 DEF Put
  <2> QED BY <2>5, <2>8, <2>10
<1>2. CASE ConfigLock
  <2>1. ConfigInv /\ [ConfigNext]_configvars => ConfigInv'
    BY <1>2, ConfigStep
  <2>2. ConfigInv /\ [ConfigNext]_configvars => [ToldOnReturn]_configvars
    BY <1>1, <1>2
  <2> QED BY <2>1, <2>2, ConfigInitially, PTL DEF ConfigSpec, WatcherCurrent
<1>3. CASE ~ConfigLock
  <2>1. [ConfigNext]_configvars => [ToldOnReturn]_configvars
    BY <1>3 DEF ToldOnReturn
  <2> QED BY <2>1, PTL DEF ConfigSpec, WatcherCurrent
<1> QED BY <1>2, <1>3

-----------------------------------------------------------------------------
(* The page table.  Division takes a page apart into the indexes of the    *)
(* four levels, and two mappable pages differ in one of them.              *)

LEMMA DivIs ==
  ASSUME NEW b \in Nat \ {0}, NEW q \in Nat, NEW r \in 0 .. b - 1, NEW a, a = b * q + r
  PROVE  a \div b = q /\ a % b = r
OBVIOUS

LEMMA Digit ==
  ASSUME NEW b \in Nat \ {0}, NEW q \in Nat, NEW r \in 0 .. b - 1
  PROVE  b * q + r \in Nat /\ (b * q + r) \div b = q /\ (b * q + r) % b = r
OBVIOUS

LEMMA DivExact ==
  ASSUME NEW b \in Nat \ {0}, NEW q \in Nat
  PROVE  b * q \in Nat /\ (b * q) \div b = q /\ (b * q) % b = 0
OBVIOUS

LEMMA DivParts ==
  ASSUME NEW a \in Nat, NEW b \in Nat \ {0}
  PROVE  /\ a \div b \in Nat /\ a % b \in 0 .. b - 1
         /\ a = b * (a \div b) + (a % b)
OBVIOUS

LEMMA DivTwice ==
  ASSUME NEW a \in Nat, NEW b \in Nat \ {0}, NEW c \in Nat \ {0}
  PROVE  a \div (b * c) = (a \div b) \div c
<1> DEFINE q == a \div b  r == a % b  s == q \div c  t == q % c
<1>1. /\ q \in Nat /\ r \in 0 .. b - 1 /\ a = b * q + r
      /\ s \in Nat /\ t \in 0 .. c - 1 /\ q = c * s + t
  BY DivParts
<1> HIDE DEF q, r, s, t
<1>2. b * c \in Nat \ {0} /\ b * t + r \in 0 .. b * c - 1
  <2>1. b * t + b <= b * c
    <3>1. t + 1 <= c
      BY <1>1
    <3>2. b * (t + 1) <= b * c
      BY <3>1, <1>1
    <3> QED BY <3>2, <1>1
  <2>2. b * t \in Nat /\ b * c \in Nat
    BY <1>1
  <2> QED BY <2>1, <2>2, <1>1
<1>3. a = (b * c) * s + (b * t + r)
  BY <1>1
<1>4. a \div (b * c) = s
  BY <1>1, <1>2, <1>3, DivIs
<1> QED BY <1>4 DEF q, s

(* The number of a page, and the parts of it the levels index.             *)
Part(addr, level) == addr \div Span(level)
Idx(addr, level) == IndexFromAddr(addr, level)

LEMMA PartsNest ==
  ASSUME NEW addr \in Nat
  PROVE  /\ \A level \in 0 .. 3 : Part(addr, level) \in Nat /\ Idx(addr, level) \in 0 .. ENTRY_COUNT - 1
         /\ \A level \in 1 .. 3 :
              /\ Part(addr, level - 1) = Part(addr, level) \div ENTRY_COUNT
              /\ Part(addr, level) = ENTRY_COUNT * Part(addr, level - 1) + Idx(addr, level)
         /\ addr = PAGE_SIZE * Part(addr, 3) + PageOffset(addr)
<1>1. /\ Span(3) = PAGE_SIZE
      /\ Span(2) = PAGE_SIZE * ENTRY_COUNT
      /\ Span(1) = (PAGE_SIZE * ENTRY_COUNT) * ENTRY_COUNT
      /\ Span(0) = ((PAGE_SIZE * ENTRY_COUNT) * ENTRY_COUNT) * ENTRY_COUNT
  BY DEF Span
<1>2. \A level \in 0 .. 3 : Span(level) \in Nat \ {0}
  <2>1. \A a, b \in Nat \ {0} : a * b \in Nat \ {0}
    OBVIOUS
  <2>2. Span(3) \in Nat \ {0} /\ Span(2) \in Nat \ {0}
    BY <1>1, <2>1, SpaceAssumption
  <2>3. Span(1) \in Nat \ {0}
    BY <1>1, <2>1, <2>2, SpaceAssumption
  <2>4. Span(0) \in Nat \ {0}
    BY <1>1, <2>1, <2>3, SpaceAssumption
  <2> QED BY <2>2, <2>3, <2>4
<1>3. ASSUME NEW level \in 1 .. 3
      PROVE  Span(level - 1) = Span(level) * ENTRY_COUNT
  BY <1>1
<1>4. ASSUME NEW level \in 0 .. 3
      PROVE  Part(addr, level) \in Nat /\ Idx(addr, level) \in 0 .. ENTRY_COUNT - 1
  <2>1. Part(addr, level) \in Nat
    BY <1>2, DivParts DEF Part
  <2> QED BY <2>1, DivParts, SpaceAssumption DEF Idx, IndexFromAddr, Part
<1>5. ASSUME NEW level \in 1 .. 3
      PROVE  /\ Part(addr, level - 1) = Part(addr, level) \div ENTRY_COUNT
             /\ Part(addr, level) = ENTRY_COUNT * Part(addr, level - 1) + Idx(addr, level)
  <2>1. Part(addr, level - 1) = Part(addr, level) \div ENTRY_COUNT
    BY <1>2, <1>3, DivTwice, SpaceAssumption DEF Part
  <2>2. Part(addr, level) \in Nat
    BY <1>4
  <2>3. Part(addr, level) = ENTRY_COUNT * (Part(addr, level) \div ENTRY_COUNT) + (Part(addr, level) % ENTRY_COUNT)
    BY <2>2, DivParts, SpaceAssumption
  <2> QED BY <2>1, <2>3 DEF Idx, IndexFromAddr, Part
<1>6. addr = PAGE_SIZE * Part(addr, 3) + PageOffset(addr)
  BY <1>1, DivParts, SpaceAssumption DEF Part, PageOffset
<1> QED BY <1>4, <1>5, <1>6

LEMMA IdxType ==
  ASSUME NEW addr \in Nat, NEW level \in 0 .. 3
  PROVE  Idx(addr, level) \in 0 .. ENTRY_COUNT - 1
BY PartsNest

Half == ENTRY_COUNT \div 2
TopHalf == AddrMod \div (2 * SignBit)

LEMMA SpaceSizes ==
  /\ Half \in Nat \ {0} /\ ENTRY_COUNT = 2 * Half
  /\ Span(0) \in Nat \ {0} /\ SignBit = Span(0) * Half
  /\ TopHalf \in Nat \ {0} /\ AddrMod = 2 * (SignBit * TopHalf)
  /\ \E s \in Nat \ {0} : Span(0) = PAGE_SIZE * s
<1>1. Half \in Nat \ {0} /\ ENTRY_COUNT = 2 * Half
  BY SpaceAssumption DEF Half
<1>2. Span(0) \in Nat \ {0} /\ \E s \in Nat \ {0} : Span(0) = PAGE_SIZE * s
  <2>1. \A a, b \in Nat \ {0} : a * b \in Nat \ {0}
    OBVIOUS
  <2> DEFINE e == ENTRY_COUNT * ENTRY_COUNT
             s == e * ENTRY_COUNT
  <2>2. e \in Nat \ {0} /\ s \in Nat \ {0} /\ PAGE_SIZE * s \in Nat \ {0}
    BY <2>1, SpaceAssumption
  <2>3. \A a, b, c \in Nat : a * b * c = a * (b * c)
    OBVIOUS
  <2>4. Span(0) = PAGE_SIZE * ENTRY_COUNT * ENTRY_COUNT * ENTRY_COUNT
    BY DEF Span
  <2>5. PAGE_SIZE * ENTRY_COUNT * ENTRY_COUNT = PAGE_SIZE * e
    BY <2>3, SpaceAssumption
  <2>6. PAGE_SIZE * e * ENTRY_COUNT = PAGE_SIZE * s
    BY <2>2, <2>3, SpaceAssumption
  <2>7. Span(0) = PAGE_SIZE * s
    BY <2>4, <2>5, <2>6
  <2> QED BY <2>2, <2>7
<1>3. SignBit = Span(0) * Half
  BY DEF SignBit, Span, Half
<1>4. TopHalf \in Nat \ {0} /\ AddrMod = 2 * (SignBit * TopHalf)
  <2> DEFINE d == 2 * SignBit
  <2>1. SignBit \in Nat \ {0} /\ d \in Nat \ {0}
    BY <1>1, <1>2, <1>3
  <2>2. AddrMod = d * (AddrMod \div d) + (AddrMod % d) /\ AddrMod \div d \in Nat
    BY <2>1, DivParts, SpaceAssumption
  <2>3. AddrMod % d = 0 /\ AddrMod \in Nat \ {0}
    BY SpaceAssumption
  <2> HIDE DEF d
  <2>4. AddrMod = d * (AddrMod \div d) /\ AddrMod \div d \in Nat \ {0}
    BY <2>1, <2>2, <2>3
  <2>5. d * (AddrMod \div d) = 2 * (SignBit * (AddrMod \div d))
    BY <2>1, <2>4 DEF d
  <2> QED BY <2>4, <2>5 DEF d, TopHalf
<1> QED BY <1>1, <1>2, <1>3, <1>4

(* The first index says which half of the canonical addresses it is.       *)
LEMMA PartTells ==
  ASSUME NEW addr \in 0 .. AddrMod - 1, IsCanonical(addr)
  PROVE  Part(addr, 0) = IF Idx(addr, 0) < Half THEN Idx(addr, 0)
                         ELSE ENTRY_COUNT * (TopHalf - 1) + Idx(addr, 0)
<1> DEFINE q == Part(addr, 0)  r == addr % Span(0)
<1>1. q \in Nat /\ r \in 0 .. Span(0) - 1 /\ addr = Span(0) * q + r
  <2>1. addr \in Nat /\ Span(0) \in Nat \ {0}
    BY SpaceSizes, SpaceAssumption
  <2> QED BY <2>1, DivParts DEF Part
<1>2. Idx(addr, 0) = q % ENTRY_COUNT
  BY DEF Idx, IndexFromAddr, Part
<1>3. addr < SignBit \/ addr >= AddrMod - SignBit
  BY DEF IsCanonical
<1> HIDE DEF q, r
<1>4. CASE addr < SignBit
  <2>1. q < Half
    <3> SUFFICES ASSUME Half <= q PROVE FALSE
      BY <1>1, SpaceSizes
    <3>1. Span(0) * Half <= Span(0) * q
      BY <1>1, SpaceSizes
    <3> QED BY <3>1, <1>1, <1>4, SpaceSizes
  <2>2. q % ENTRY_COUNT = q
    <3>1. q \in 0 .. ENTRY_COUNT - 1
      BY <1>1, <2>1, SpaceSizes
    <3>2. ENTRY_COUNT \in Nat \ {0}
      BY SpaceAssumption
    <3> QED BY <3>1, <3>2
  <2> QED BY <2>1, <2>2, <1>2 DEF q
<1>5. CASE addr >= AddrMod - SignBit
  <2> DEFINE top == ENTRY_COUNT * TopHalf
  <2>1. top \in Nat /\ AddrMod = Span(0) * top
    BY SpaceSizes
  <2>2. q < top
    <3> SUFFICES ASSUME top <= q PROVE FALSE
      BY <1>1, <2>1
    <3>1. Span(0) * top <= Span(0) * q
      BY <1>1, <2>1, SpaceSizes
    <3>2. Span(0) * top \in Nat /\ Span(0) * q \in Nat /\ addr < AddrMod
      BY <1>1, <2>1, SpaceSizes, SpaceAssumption
    <3> QED BY <3>1, <3>2, <1>1, <2>1
  <2>3. q >= top - Half
    <3> SUFFICES ASSUME q + 1 <= top - Half PROVE FALSE
      BY <1>1, <2>1, SpaceSizes
    <3>1. Span(0) * (q + 1) <= Span(0) * (top - Half)
      BY <1>1, <2>1, SpaceSizes
    <3>2. Span(0) * (top - Half) = AddrMod - SignBit
      BY <2>1, SpaceSizes
    <3>3. Span(0) * (q + 1) = Span(0) * q + Span(0)
      BY <1>1, SpaceSizes
    <3> QED BY <3>1, <3>2, <3>3, <1>1, <1>5, SpaceSizes, SpaceAssumption
  <2> DEFINE low == ENTRY_COUNT * (TopHalf - 1)
             x == q - low
  <2>4. top = low + ENTRY_COUNT /\ low \in Nat
    BY SpaceSizes
  <2> HIDE DEF top, low
  <2>5. x \in Half .. ENTRY_COUNT - 1 /\ q = low + x /\ x \in 0 .. ENTRY_COUNT - 1
    BY <2>2, <2>3, <2>4, <1>1, SpaceSizes
  <2> HIDE DEF x
  <2>6. q % ENTRY_COUNT = x
    <3>1. PICK k \in Nat : k = TopHalf - 1
      BY SpaceSizes
    <3>2. q = ENTRY_COUNT * k + x
      BY <2>5, <3>1 DEF low
    <3>3. ENTRY_COUNT \in Nat \ {0} /\ x \in 0 .. ENTRY_COUNT - 1
      BY <2>5, SpaceAssumption
    <3> QED BY <3>2, <3>3, DivIs
  <2> QED BY <2>5, <2>6, <1>2, SpaceSizes DEF low, q
<1> QED BY <1>3, <1>4, <1>5

LEMMA IndexesTell ==
  ASSUME NEW a \in MappablePages, NEW b \in MappablePages,
         \A level \in 0 .. 3 : Idx(a, level) = Idx(b, level)
  PROVE  a = b
<1>1. /\ a \in Nat /\ a \in 0 .. AddrMod - 1 /\ IsCanonical(a) /\ PageOffset(a) = 0
      /\ b \in Nat /\ b \in 0 .. AddrMod - 1 /\ IsCanonical(b) /\ PageOffset(b) = 0
  BY SpaceAssumption DEF MappablePages, Pages, IsAligned
<1>2. Part(a, 0) = Part(b, 0)
  BY <1>1, PartTells
<1>3. Part(a, 1) = Part(b, 1)
  BY <1>1, <1>2, PartsNest
<1>4. Part(a, 2) = Part(b, 2)
  BY <1>1, <1>3, PartsNest
<1>5. Part(a, 3) = Part(b, 3)
  BY <1>1, <1>4, PartsNest
<1> QED BY <1>1, <1>5, PartsNest, SpaceAssumption

(* An address is mapped as its page is.                                    *)
LEMMA PageOfAddress ==
  ASSUME NEW addr \in 0 .. AddrMod - 1
  PROVE  LET page == AlignDown(addr)
         IN /\ page \in Pages(0, AddrMod)
            /\ IsCanonical(page) <=> IsCanonical(addr)
            /\ \A level \in 0 .. 3 : Idx(page, level) = Idx(addr, level)
<1> DEFINE page == AlignDown(addr)  n == Part(addr, 3)
<1>1. /\ addr \in Nat /\ n \in Nat /\ addr = PAGE_SIZE * n + PageOffset(addr)
      /\ PageOffset(addr) \in 0 .. PAGE_SIZE - 1
  <2>1. addr \in Nat
    BY SpaceAssumption
  <2>2. n \in Nat /\ addr = PAGE_SIZE * n + PageOffset(addr)
    BY <2>1, PartsNest
  <2>3. PageOffset(addr) \in 0 .. PAGE_SIZE - 1
    BY <2>1, DivParts, SpaceAssumption DEF PageOffset
  <2> QED BY <2>1, <2>2, <2>3
<1>2. page = PAGE_SIZE * n /\ page \in Nat /\ page <= addr
  BY <1>1, SpaceAssumption DEF AlignDown
<1>3. page \div PAGE_SIZE = n /\ page % PAGE_SIZE = 0 /\ addr \div PAGE_SIZE = n
  <2>1. page = PAGE_SIZE * n + 0 /\ 0 \in 0 .. PAGE_SIZE - 1
    BY <1>1, <1>2, SpaceAssumption
  <2>2. page \div PAGE_SIZE = n /\ page % PAGE_SIZE = 0
    BY <2>1, <1>1, DivIs, SpaceAssumption
  <2> QED BY <2>2 DEF Part, Span
<1> HIDE DEF page, n
<1>4. page \in Pages(0, AddrMod)
  BY <1>2, <1>3, SpaceAssumption DEF Pages, IsAligned, PageOffset
<1>5. Part(page, 3) = n /\ Part(addr, 3) = n
  BY <1>3 DEF Part, Span
<1>6. /\ Part(page, 2) = Part(addr, 2) /\ Part(page, 1) = Part(addr, 1) /\ Part(page, 0) = Part(addr, 0)
  <2>1. Part(page, 2) = Part(addr, 2)
    BY <1>1, <1>2, <1>5, PartsNest
  <2>2. Part(page, 1) = Part(addr, 1)
    BY <1>1, <1>2, <2>1, PartsNest
  <2>3. Part(page, 0) = Part(addr, 0)
    BY <1>1, <1>2, <2>2, PartsNest
  <2> QED BY <2>1, <2>2, <2>3
<1>7. \A level \in 0 .. 3 : Idx(page, level) = Idx(addr, level)
  BY <1>5, <1>6 DEF Idx, IndexFromAddr, Part
<1>8. PICK s \in Nat \ {0} : Span(0) = PAGE_SIZE * s
  BY SpaceSizes
<1>9. ASSUME NEW m \in Nat \ {0}
      PROVE  page < PAGE_SIZE * m <=> addr < PAGE_SIZE * m
  <2>1. CASE n < m
    <3>1. PAGE_SIZE * (n + 1) <= PAGE_SIZE * m
      BY <1>1, <2>1, SpaceAssumption
    <3> QED BY <3>1, <1>1, <1>2, SpaceAssumption
  <2>2. CASE n >= m
    <3>1. PAGE_SIZE * m <= PAGE_SIZE * n
      BY <1>1, <2>2, SpaceAssumption
    <3> QED BY <3>1, <1>1, <1>2, SpaceAssumption
  <2> QED BY <2>1, <2>2, <1>1
<1> DEFINE u == s * Half  v == s * (ENTRY_COUNT * TopHalf - Half)
<1>10. /\ u \in Nat \ {0} /\ SignBit = PAGE_SIZE * u
       /\ v \in Nat \ {0} /\ AddrMod - SignBit = PAGE_SIZE * v
  <2>1. ENTRY_COUNT * TopHalf - Half \in Nat \ {0}
    BY SpaceSizes
  <2>2. u \in Nat \ {0} /\ SignBit = PAGE_SIZE * u
    BY <1>8, SpaceSizes, SpaceAssumption
  <2>3. AddrMod - SignBit = Span(0) * (ENTRY_COUNT * TopHalf - Half)
    BY SpaceSizes
  <2>4. v \in Nat \ {0} /\ Span(0) * (ENTRY_COUNT * TopHalf - Half) = PAGE_SIZE * v
    <3> PICK w \in Nat \ {0} : w = ENTRY_COUNT * TopHalf - Half
      BY <2>1
    <3>1. s * w \in Nat \ {0} /\ PAGE_SIZE * s * w = PAGE_SIZE * (s * w)
      BY SpaceAssumption
    <3> QED BY <3>1, <1>8
  <2> QED BY <2>2, <2>3, <2>4
<1> HIDE DEF u, v
<1>11. page \div SignBit = addr \div SignBit
  <2>1. page \div (PAGE_SIZE * u) = (page \div PAGE_SIZE) \div u
    BY <1>2, <1>10, DivTwice, SpaceAssumption
  <2>2. addr \div (PAGE_SIZE * u) = (addr \div PAGE_SIZE) \div u
    BY <1>1, <1>10, DivTwice, SpaceAssumption
  <2> QED BY <2>1, <2>2, <1>3, <1>10
<1>12. IsCanonical(page) <=> IsCanonical(addr)
  BY <1>9, <1>10, <1>11, <1>1, <1>2, SpaceSizes DEF IsCanonical
<1> QED BY <1>4, <1>7, <1>12 DEF page

-----------------------------------------------------------------------------
(* The way to an address: the table it reaches at a level, or its entry.   *)
Path(from, addr, level) ==
  CASE level = 0 -> 0
    [] level = 1 -> Pdpt(from, addr)
    [] level = 2 -> Pd(from, addr)
    [] level = 3 -> Pt(from, addr)
    [] level = 4 -> Lookup(from, addr)

Reached(from, addr, level) == level = 0 \/ Path(from, addr, level) # 0

LEMMA PathSteps ==
  ASSUME NEW from, NEW addr, NEW l \in 0 .. 3
  PROVE  /\ Path(from, addr, 0) = 0
         /\ Path(from, addr, l + 1) =
              IF Reached(from, addr, l) THEN from[Path(from, addr, l)][Idx(addr, l)] ELSE 0
<1>1. CASE l = 0
  BY <1>1 DEF Path, Reached, Pdpt, Idx
<1>2. CASE l = 1
  BY <1>2 DEF Path, Reached, Pd, Follow, Idx
<1>3. CASE l = 2
  BY <1>3 DEF Path, Reached, Pt, Follow, Idx
<1>4. CASE l = 3
  BY <1>4 DEF Path, Reached, Lookup, Follow, Idx
<1> QED BY <1>1, <1>2, <1>3, <1>4 DEF Path

LEMMA PathEnds ==
  ASSUME NEW from, NEW addr
  PROVE  Path(from, addr, 4) = Lookup(from, addr)
BY DEF Path

LEMMA PathLevels ==
  ASSUME NEW from, NEW level, Tree(from, level), NEW addr \in Nat, NEW l \in 0 .. 3,
         Reached(from, addr, l)
  PROVE  Path(from, addr, l) \in DOMAIN from /\ level[Path(from, addr, l)] = l
<1> DEFINE In(k) == Reached(from, addr, k) =>
                      Path(from, addr, k) \in DOMAIN from /\ level[Path(from, addr, k)] = k
<1>1. In(0)
  BY PathSteps DEF Tree
<1>2. ASSUME NEW k \in 0 .. 2, In(k) PROVE In(k + 1)
  <2> SUFFICES ASSUME Path(from, addr, k + 1) # 0
               PROVE  Path(from, addr, k + 1) \in DOMAIN from /\ level[Path(from, addr, k + 1)] = k + 1
    BY DEF Reached
  <2>1. Reached(from, addr, k) /\ Path(from, addr, k + 1) = from[Path(from, addr, k)][Idx(addr, k)]
    BY PathSteps
  <2>2. Path(from, addr, k) \in DOMAIN from /\ level[Path(from, addr, k)] = k
    BY <1>2, <2>1
  <2>3. Idx(addr, k) \in 0 .. ENTRY_COUNT - 1
    BY IdxType
  <2> QED BY <2>1, <2>2, <2>3 DEF Tree, Child
<1> HIDE DEF In
<1>3. In(1) /\ In(2) /\ In(3)
  BY <1>1, <1>2
<1> QED BY <1>1, <1>3 DEF In

(* Two addresses that reach one table have the indexes on the way in       *)
(* common.                                                                 *)
LEMMA PathsApart ==
  ASSUME NEW from, NEW level, Tree(from, level), NEW a \in Nat, NEW b \in Nat, NEW l \in 1 .. 3,
         Path(from, a, l) # 0, Path(from, a, l) = Path(from, b, l)
  PROVE  \A k \in 0 .. l - 1 : Idx(a, k) = Idx(b, k)
<1> DEFINE Same(m) == Path(from, a, m) = Path(from, b, m) /\ Reached(from, a, m)
<1>1. ASSUME NEW m \in 0 .. 2, Same(m + 1) PROVE Same(m) /\ Idx(a, m) = Idx(b, m)
  <2>1. /\ Reached(from, a, m + 1) /\ Path(from, a, m + 1) # 0 /\ Path(from, b, m + 1) # 0
        /\ Path(from, a, m + 1) = Path(from, b, m + 1)
    BY <1>1 DEF Reached
  <2>2. /\ Reached(from, a, m) /\ Path(from, a, m + 1) = from[Path(from, a, m)][Idx(a, m)]
        /\ Reached(from, b, m) /\ Path(from, b, m + 1) = from[Path(from, b, m)][Idx(b, m)]
    BY <2>1, PathSteps
  <2>3. /\ Path(from, a, m) \in DOMAIN from /\ level[Path(from, a, m)] = m
        /\ Path(from, b, m) \in DOMAIN from /\ level[Path(from, b, m)] = m
    BY <2>2, PathLevels
  <2>4. Idx(a, m) \in 0 .. ENTRY_COUNT - 1 /\ Idx(b, m) \in 0 .. ENTRY_COUNT - 1
    BY IdxType
  <2>5. \A t, u \in DOMAIN from, i, j \in 0 .. ENTRY_COUNT - 1 :
          level[t] < 3 /\ level[u] < 3 /\ from[t][i] # 0 /\ from[u][j] = from[t][i] => u = t /\ j = i
    BY DEF Tree, Child
  <2>6. Path(from, b, m) = Path(from, a, m) /\ Idx(b, m) = Idx(a, m)
    BY <2>1, <2>2, <2>3, <2>4, <2>5
  <2> QED BY <2>2, <2>6
<1>2. Same(l)
  BY DEF Reached
<1> HIDE DEF Same
<1>3. CASE l = 1
  BY <1>1, <1>2, <1>3
<1>4. CASE l = 2
  BY <1>1, <1>2, <1>4
<1>5. CASE l = 3
  BY <1>1, <1>2, <1>5
<1> QED BY <1>3, <1>4, <1>5

LEMMA RowSet ==
  ASSUME NEW S, NEW row \in [S -> Nat], NEW i \in S, NEW entry \in Nat, NEW changed,
         changed = [row EXCEPT ![i] = entry]
  PROVE  /\ changed \in [S -> Nat]
         /\ \A j \in S : changed[j] = IF j = i THEN entry ELSE row[j]
OBVIOUS

(* One step down: a table may be added, and every lookup finds what it did *)
(* before.                                                                 *)
LEMMA DownKeeps ==
  ASSUME NEW from, NEW level, Tree(from, level), NEW addr \in Nat, NEW l \in 0 .. 2,
         Reached(from, addr, l)
  PROVE  LET walk == Down([tables |-> from, at |-> Path(from, addr, l)], addr, l)
         IN /\ \E deeper : Tree(walk.tables, deeper)
            /\ walk.at = Path(walk.tables, addr, l + 1) /\ walk.at # 0
            /\ \A a \in Nat : Lookup(walk.tables, a) = Lookup(from, a)
            /\ Path(from, addr, l + 1) # 0 => walk.tables = from
<1> DEFINE at == Path(from, addr, l)
           i == Idx(addr, l)
           walk == Down([tables |-> from, at |-> at], addr, l)
<1>1. /\ at \in DOMAIN from /\ level[at] = l /\ i \in 0 .. ENTRY_COUNT - 1
      /\ Path(from, addr, l + 1) = from[at][i]
  <2>1. at \in DOMAIN from /\ level[at] = l
    BY PathLevels
  <2>2. i \in 0 .. ENTRY_COUNT - 1
    BY IdxType
  <2>3. Path(from, addr, l + 1) = from[at][i]
    BY PathSteps
  <2> QED BY <2>1, <2>2, <2>3
<1> HIDE DEF at, i
<1>2. CASE from[at][i] # 0
  <2>1. walk = [tables |-> from, at |-> from[at][i]]
    BY <1>2 DEF Down, Idx, i
  <2> QED BY <2>1, <1>1, <1>2 DEF at
<1>3. CASE from[at][i] = 0
  <2> PICK n \in Nat \ {0} : DOMAIN from = 0 .. n - 1
    <3>1. PICK last \in DOMAIN from : DOMAIN from = 0 .. last
      BY DEF Tree
    <3>2. last + 1 \in Nat \ {0} /\ 0 .. last = 0 .. (last + 1) - 1
      BY <3>1
    <3> QED BY <3>1, <3>2
  <2>1. Cardinality(DOMAIN from) = n
    <3>1. Cardinality(0 .. n - 1) = (n - 1) - 0 + 1
      BY FS_Interval
    <3> QED BY <3>1
  <2> DEFINE new == [t \in 0 .. n |-> IF t = n THEN NewTable
                                      ELSE IF t = at THEN [from[t] EXCEPT ![i] = n] ELSE from[t]]
             deeper == [t \in 0 .. n |-> IF t = n THEN l + 1 ELSE level[t]]
  <2>2. walk = [tables |-> new, at |-> n]
    BY <1>3, <2>1 DEF Down, Idx, i
  <2>3. /\ DOMAIN new = 0 .. n /\ DOMAIN deeper = 0 .. n
        /\ new[n] = NewTable /\ deeper[n] = l + 1
        /\ \A t \in DOMAIN from : /\ deeper[t] = level[t]
                                  /\ new[t] = IF t = at THEN [from[t] EXCEPT ![i] = n] ELSE from[t]
    OBVIOUS
  <2>4. \A t \in DOMAIN from, j \in 0 .. ENTRY_COUNT - 1 :
          new[t][j] = IF t = at /\ j = i THEN n ELSE from[t][j]
    <3> HIDE DEF new
    <3>1. \A t \in DOMAIN from : from[t] \in [0 .. ENTRY_COUNT - 1 -> Nat]
      BY DEF Tree
    <3> QED BY <3>1, <2>3, <1>1
  <2>5. \A j \in 0 .. ENTRY_COUNT - 1 : new[n][j] = 0
    BY <2>3 DEF NewTable
  <2>6. /\ \A t \in 0 .. n : new[t] \in [0 .. ENTRY_COUNT - 1 -> Nat] /\ deeper[t] \in 0 .. 3
        /\ deeper[0] = 0
    <3> HIDE DEF new, deeper
    <3>1. \A t \in DOMAIN from : from[t] \in [0 .. ENTRY_COUNT - 1 -> Nat] /\ level[t] \in 0 .. 3
      BY DEF Tree
    <3>2. new[n] \in [0 .. ENTRY_COUNT - 1 -> Nat] /\ deeper[n] \in 0 .. 3
      BY <2>3 DEF NewTable
    <3>3. ASSUME NEW t \in DOMAIN from
          PROVE  new[t] \in [0 .. ENTRY_COUNT - 1 -> Nat] /\ deeper[t] \in 0 .. 3
      <4>1. CASE t = at
        <5> PICK row, changed : row = from[at] /\ changed = new[at]
          OBVIOUS
        <5>1. row \in [0 .. ENTRY_COUNT - 1 -> Nat] /\ changed = [row EXCEPT ![i] = n]
          BY <4>1, <3>1, <2>3, <1>1
        <5>2. changed \in [0 .. ENTRY_COUNT - 1 -> Nat]
          BY <5>1, <1>1, RowSet
        <5>3. deeper[at] \in 0 .. 3
          BY <3>1, <2>3, <1>1
        <5> QED BY <5>2, <5>3, <4>1
      <4>2. CASE t # at
        BY <4>2, <3>1, <2>3
      <4> QED BY <4>1, <4>2
    <3>4. deeper[0] = 0
      <4>1. level[0] = 0 /\ 0 \in DOMAIN from
        BY DEF Tree
      <4> QED BY <4>1, <2>3
    <3> QED BY <3>2, <3>3, <3>4
  <2> HIDE DEF new, deeper
  <2>7. Tree(new, deeper)
    <3>1. ASSUME NEW t \in 0 .. n, NEW j \in 0 .. ENTRY_COUNT - 1, deeper[t] < 3, new[t][j] # 0
          PROVE  /\ new[t][j] \in 0 .. n /\ deeper[new[t][j]] = deeper[t] + 1
                 /\ \A u \in 0 .. n, k \in 0 .. ENTRY_COUNT - 1 :
                      deeper[u] < 3 /\ new[u][k] = new[t][j] => u = t /\ k = j
      <4>1. t \in DOMAIN from
        BY <3>1, <2>5
      <4>2. \A u \in DOMAIN from, k \in 0 .. ENTRY_COUNT - 1 :
              level[u] < 3 /\ from[u][k] # 0 => from[u][k] \in DOMAIN from
        BY DEF Tree, Child
      <4>3. CASE t = at /\ j = i
        <5>1. new[t][j] = n
          BY <4>1, <4>3, <2>4
        <5>2. ASSUME NEW u \in 0 .. n, NEW k \in 0 .. ENTRY_COUNT - 1, deeper[u] < 3, new[u][k] = n
              PROVE  u = t /\ k = j
          <6>1. u \in DOMAIN from /\ level[u] < 3
            <7>1. u # n
              BY <5>2, <2>5
            <7>2. u \in DOMAIN from
              BY <7>1
            <7> QED BY <7>2, <5>2, <2>3
          <6>2. from[u][k] # n
            <7> SUFFICES ASSUME from[u][k] = n PROVE FALSE
              OBVIOUS
            <7> QED BY <6>1, <4>2
          <6> QED BY <6>1, <6>2, <5>2, <4>3, <2>4
        <5>3. n \in 0 .. n /\ deeper[n] = deeper[t] + 1
          <6>1. deeper[t] = l /\ deeper[n] = l + 1
            BY <4>3, <1>1, <2>3
          <6> QED BY <6>1
        <5> QED BY <5>1, <5>2, <5>3
      <4>4. CASE ~(t = at /\ j = i)
        <5>1. new[t][j] = from[t][j] /\ level[t] < 3 /\ deeper[t] = level[t]
          BY <3>1, <4>1, <4>4, <2>3, <2>4
        <5>2. /\ from[t][j] \in DOMAIN from /\ level[from[t][j]] = level[t] + 1
              /\ \A u \in DOMAIN from, k \in 0 .. ENTRY_COUNT - 1 :
                   level[u] < 3 /\ from[u][k] = from[t][j] => u = t /\ k = j
          BY <3>1, <4>1, <5>1 DEF Tree, Child
        <5>3. ASSUME NEW u \in 0 .. n, NEW k \in 0 .. ENTRY_COUNT - 1,
                     deeper[u] < 3, new[u][k] = new[t][j]
              PROVE  u = t /\ k = j
          <6>1. u \in DOMAIN from
            BY <5>1, <5>2, <5>3, <2>5, <3>1
          <6>2. new[u][k] # n
            BY <5>1, <5>2, <5>3
          <6>3. new[u][k] = from[u][k] /\ deeper[u] = level[u]
            BY <6>1, <6>2, <2>3, <2>4
          <6> QED BY <6>1, <6>3, <5>1, <5>2, <5>3
        <5>4. deeper[from[t][j]] = level[from[t][j]] /\ from[t][j] \in 0 .. n
          <6>1. from[t][j] \in DOMAIN from
            BY <5>2
          <6>2. \A u \in DOMAIN from : deeper[u] = level[u]
            BY <2>3
          <6> QED BY <6>1, <6>2
        <5> QED BY <5>1, <5>2, <5>3, <5>4
      <4> QED BY <4>3, <4>4
    <3>2. /\ \E last \in DOMAIN new : DOMAIN new = 0 .. last
          /\ DOMAIN new = 0 .. n
      <4>1. n \in DOMAIN new
        BY <2>3
      <4> QED BY <4>1, <2>3
    <3>3. \A t \in 0 .. n, j \in 0 .. ENTRY_COUNT - 1 :
            deeper[t] < 3 /\ new[t][j] # 0 => Child(new, deeper, t, j)
      <4>1. SUFFICES ASSUME NEW t \in 0 .. n, NEW j \in 0 .. ENTRY_COUNT - 1,
                            deeper[t] < 3, new[t][j] # 0
                     PROVE  Child(new, deeper, t, j)
        OBVIOUS
      <4>2. DOMAIN new = 0 .. n
        BY <3>2
      <4> HIDE DEF new, deeper
      <4> QED
        BY <3>1, <4>1, <4>2 DEF Child
    <3> QED BY <3>2, <3>3, <2>6 DEF Tree
  <2> DEFINE Same(a, k) == \/ Path(new, a, k) = Path(from, a, k)
                           \/ k = l + 1 /\ Path(from, a, k) = 0 /\ Path(new, a, k) = n
  <2>8. ASSUME NEW a \in Nat, NEW k \in 0 .. 3, Same(a, k)
        PROVE  Same(a, k + 1)
    <3> DEFINE t == Path(from, a, k)  j == Idx(a, k)
    <3>1. j \in 0 .. ENTRY_COUNT - 1
      BY IdxType
    <3>2. /\ Path(from, a, k + 1) = IF Reached(from, a, k) THEN from[t][j] ELSE 0
          /\ Path(new, a, k + 1) = IF Reached(new, a, k) THEN new[Path(new, a, k)][j] ELSE 0
      BY PathSteps
    <3>3. CASE Path(new, a, k) = t
      <4>1. Reached(new, a, k) <=> Reached(from, a, k)
        BY <3>3 DEF Reached
      <4>2. CASE Reached(from, a, k)
        <5>1. t \in DOMAIN from /\ level[t] = k
          BY <4>2, PathLevels
        <5> QED BY <5>1, <4>1, <4>2, <3>1, <3>2, <3>3, <2>4, <1>1, <1>3
      <4> QED BY <4>1, <4>2, <3>2
    <3>4. CASE k = l + 1 /\ t = 0 /\ Path(new, a, k) = n
      <4>1. ~Reached(from, a, k) /\ Reached(new, a, k)
        BY <3>4 DEF Reached
      <4> QED BY <4>1, <3>1, <3>2, <3>4, <2>5
    <3> QED BY <2>8, <3>3, <3>4
  <2>9. ASSUME NEW a \in Nat
        PROVE  Lookup(new, a) = Lookup(from, a) /\ \A k \in 0 .. 3 : Same(a, k)
    <3>1. Same(a, 0)
      BY PathSteps
    <3> HIDE DEF Same
    <3>2. Same(a, 1)
      BY <3>1, <2>8
    <3>3. Same(a, 2)
      BY <3>2, <2>8
    <3>4. Same(a, 3)
      BY <3>3, <2>8
    <3>5. Same(a, 4)
      BY <3>4, <2>8
    <3>6. Path(new, a, 4) = Path(from, a, 4)
      BY <3>5 DEF Same
    <3>7. \A k \in 0 .. 3 : k = 0 \/ k = 1 \/ k = 2 \/ k = 3
      OBVIOUS
    <3>8. Lookup(new, a) = Lookup(from, a)
      BY <3>6, PathEnds
    <3> QED BY <3>1, <3>2, <3>3, <3>4, <3>7, <3>8
  <2>10. Path(new, addr, l + 1) = n
    <3>1. Path(new, addr, l) = at
      BY <2>9 DEF at
    <3>2. Path(new, addr, l + 1) = new[at][i]
      BY <3>1, PathSteps DEF Reached, at, i
    <3> QED BY <3>2, <2>4, <1>1
  <2> QED BY <2>2, <2>7, <2>9, <2>10, <1>1, <1>3 DEF at
<1> QED BY <1>2, <1>3

LEMMA ReachedBelow ==
  ASSUME NEW from, NEW addr, NEW l \in 0 .. 2, Reached(from, addr, l + 1)
  PROVE  Reached(from, addr, l)
BY PathSteps DEF Reached

(* All the way down: what map does before it looks at the entry.           *)
LEMMA DescendKeeps ==
  ASSUME NEW from, NEW level, Tree(from, level), NEW addr \in Nat
  PROVE  LET walk == Descend(from, addr)
         IN /\ \E deeper : Tree(walk.tables, deeper)
            /\ walk.at = Pt(walk.tables, addr) /\ walk.at # 0
            /\ \A a \in Nat : Lookup(walk.tables, a) = Lookup(from, a)
            /\ Pt(from, addr) # 0 => walk.tables = from
<1> DEFINE Zero == [tables |-> from, at |-> 0]
           One == Down(Zero, addr, 0)
           Two == Down(One, addr, 1)
           Three == Down(Two, addr, 2)
           Good(walk, l) ==
             /\ walk = [tables |-> walk.tables, at |-> walk.at]
             /\ \E deeper : Tree(walk.tables, deeper)
             /\ walk.at = Path(walk.tables, addr, l)
             /\ Reached(walk.tables, addr, l)
             /\ \A a \in Nat : Lookup(walk.tables, a) = Lookup(from, a)
             /\ Reached(from, addr, l) => walk.tables = from
<1>1. Good(Zero, 0)
  BY PathSteps DEF Reached
<1>2. ASSUME NEW l \in 0 .. 2, NEW walk, Good(walk, l)
      PROVE  Good(Down(walk, addr, l), l + 1)
  <2> DEFINE lower == Down(walk, addr, l)
  <2>1. PICK here : Tree(walk.tables, here)
    BY <1>2
  <2>2. walk = [tables |-> walk.tables, at |-> Path(walk.tables, addr, l)] /\ Reached(walk.tables, addr, l)
    BY <1>2
  <2>3. /\ \E deeper : Tree(lower.tables, deeper)
        /\ lower.at = Path(lower.tables, addr, l + 1) /\ lower.at # 0
        /\ \A a \in Nat : Lookup(lower.tables, a) = Lookup(walk.tables, a)
        /\ Path(walk.tables, addr, l + 1) # 0 => lower.tables = walk.tables
    <3> DEFINE again == Down([tables |-> walk.tables, at |-> Path(walk.tables, addr, l)], addr, l)
    <3>1. lower = again
      BY <2>2
    <3>2. /\ \E deeper : Tree(again.tables, deeper)
          /\ again.at = Path(again.tables, addr, l + 1) /\ again.at # 0
          /\ \A a \in Nat : Lookup(again.tables, a) = Lookup(walk.tables, a)
          /\ Path(walk.tables, addr, l + 1) # 0 => again.tables = walk.tables
      BY <2>1, <2>2, DownKeeps
    <3> HIDE DEF again, lower
    <3> QED BY <3>1, <3>2
  <2>4. lower = [tables |-> lower.tables, at |-> lower.at]
    BY <2>2 DEF Down
  <2>5. Reached(lower.tables, addr, l + 1)
    BY <2>3 DEF Reached
  <2>6. ASSUME Reached(from, addr, l + 1) PROVE lower.tables = from
    <3>1. Reached(from, addr, l)
      BY <2>6, ReachedBelow
    <3>2. walk.tables = from
      BY <3>1, <1>2
    <3> QED BY <3>2, <2>3, <2>6 DEF Reached
  <2> HIDE DEF lower
  <2>7. \A a \in Nat : Lookup(lower.tables, a) = Lookup(from, a)
    BY <2>3, <1>2
  <2>8. Good(lower, l + 1)
    BY <2>3, <2>4, <2>5, <2>6, <2>7
  <2> QED BY <2>8 DEF lower
<1> HIDE DEF Good, Zero, One, Two, Three
<1>3. Good(One, 1)
  BY <1>1, <1>2 DEF One
<1>4. Good(Two, 2)
  BY <1>2, <1>3 DEF Two
<1>5. Good(Three, 3)
  BY <1>2, <1>4 DEF Three
<1>6. Descend(from, addr) = Three
  BY DEF Descend, Zero, One, Two, Three
<1>7. \A t : Path(t, addr, 3) = Pt(t, addr)
  BY DEF Path
<1> QED BY <1>5, <1>6, <1>7 DEF Good, Reached

Replaced(from, t, i, entry) == [from EXCEPT ![t][i] = entry]

(* An entry stored is found at its page and at no other.                   *)
LEMMA EntryStoreKeeps ==
  ASSUME NEW from, NEW level, Tree(from, level), NEW page \in MappablePages,
         Pt(from, page) # 0, NEW entry \in Nat, NEW after,
         after = Replaced(from, Pt(from, page), Idx(page, 3), entry)
  PROVE  /\ Tree(after, level)
         /\ Lookup(after, page) = entry
         /\ \A p \in MappablePages \ {page} : Lookup(after, p) = Lookup(from, p)
<1> DEFINE pt == Pt(from, page)
           i == Idx(page, 3)
<1>1. page \in Nat /\ MappablePages \subseteq Nat
  BY SpaceAssumption DEF MappablePages, Pages
<1>2. \A a : Path(from, a, 3) = Pt(from, a)
  BY DEF Path
<1>3. pt \in DOMAIN from /\ level[pt] = 3 /\ i \in 0 .. ENTRY_COUNT - 1 /\ pt # 0
  <2>1. Path(from, page, 3) = pt /\ Reached(from, page, 3)
    BY <1>2 DEF Reached
  <2> QED BY <2>1, <1>1, PathLevels, IdxType
<1>4. after = [from EXCEPT ![pt][i] = entry]
  BY DEF Replaced
<1> HIDE DEF pt, i
<1>5. /\ DOMAIN after = DOMAIN from
      /\ \A t \in DOMAIN from : after[t] \in [0 .. ENTRY_COUNT - 1 -> Nat]
      /\ \A t \in DOMAIN from, j \in 0 .. ENTRY_COUNT - 1 :
           after[t][j] = IF t = pt /\ j = i THEN entry ELSE from[t][j]
  <2>1. \A t \in DOMAIN from : from[t] \in [0 .. ENTRY_COUNT - 1 -> Nat]
    BY DEF Tree
  <2>2. DOMAIN after = DOMAIN from /\ after[pt] = [from[pt] EXCEPT ![i] = entry]
        /\ \A t \in DOMAIN from \ {pt} : after[t] = from[t]
    BY <1>3, <1>4
  <2>3. after[pt] \in [0 .. ENTRY_COUNT - 1 -> Nat]
        /\ \A j \in 0 .. ENTRY_COUNT - 1 : after[pt][j] = IF j = i THEN entry ELSE from[pt][j]
    <3>1. from[pt] \in [0 .. ENTRY_COUNT - 1 -> Nat]
      BY <2>1, <1>3
    <3> PICK Places, row, changed : Places = 0 .. ENTRY_COUNT - 1 /\ row = from[pt] /\ changed = after[pt]
      OBVIOUS
    <3>2. row \in [Places -> Nat] /\ i \in Places /\ changed = [row EXCEPT ![i] = entry]
      BY <3>1, <2>2, <1>3
    <3>3. changed \in [Places -> Nat] /\ \A j \in Places : changed[j] = IF j = i THEN entry ELSE row[j]
      BY <3>2
    <3> QED BY <3>3
  <2> QED BY <2>1, <2>2, <2>3, <1>3
<1>6. Tree(after, level)
  <2>1. \A t \in DOMAIN from, j \in 0 .. ENTRY_COUNT - 1 : level[t] < 3 => after[t][j] = from[t][j]
    BY <1>3, <1>5
  <2>2. ASSUME NEW t \in DOMAIN from, NEW j \in 0 .. ENTRY_COUNT - 1, level[t] < 3, after[t][j] # 0
        PROVE  Child(after, level, t, j)
    <3>1. after[t][j] = from[t][j] /\ from[t][j] # 0
      BY <2>1, <2>2
    <3>2. Child(from, level, t, j)
      BY <3>1, <2>2 DEF Tree
    <3>3. from[t][j] \in DOMAIN from /\ level[from[t][j]] = level[t] + 1
      BY <3>2 DEF Child
    <3>4. ASSUME NEW u \in DOMAIN from, NEW k \in 0 .. ENTRY_COUNT - 1, level[u] < 3, after[u][k] = from[t][j]
          PROVE  u = t /\ k = j
      <4>1. from[u][k] = from[t][j]
        BY <3>4, <2>1
      <4> QED BY <4>1, <3>2, <3>4 DEF Child
    <3>5. DOMAIN after = DOMAIN from
      BY <1>5
    <3> QED BY <3>1, <3>3, <3>4, <3>5 DEF Child
  <2>3. /\ \E last \in DOMAIN from : DOMAIN from = 0 .. last
        /\ \A t \in DOMAIN from : level[t] \in 0 .. 3
        /\ level[0] = 0
    BY DEF Tree
  <2> QED BY <2>2, <2>3, <1>5 DEF Tree
<1>7. ASSUME NEW a \in Nat
      PROVE  /\ Path(after, a, 3) = Path(from, a, 3)
             /\ Lookup(after, a) = IF Pt(from, a) = pt /\ Idx(a, 3) = i THEN entry ELSE Lookup(from, a)
  <2> DEFINE Same(k) == Path(after, a, k) = Path(from, a, k)
  <2>1. Same(0)
    BY PathSteps
  <2>2. ASSUME NEW k \in 0 .. 3, Same(k)
        PROVE  Path(after, a, k + 1) =
                 IF k = 3 /\ Path(from, a, 3) = pt /\ Idx(a, 3) = i THEN entry ELSE Path(from, a, k + 1)
    <3> DEFINE t == Path(from, a, k)
    <3>1. /\ Path(from, a, k + 1) = IF Reached(from, a, k) THEN from[t][Idx(a, k)] ELSE 0
          /\ Path(after, a, k + 1) = IF Reached(from, a, k) THEN after[t][Idx(a, k)] ELSE 0
      <4>1. Path(after, a, k) = t /\ (Reached(after, a, k) <=> Reached(from, a, k))
        BY <2>2 DEF Reached
      <4> QED BY <4>1, PathSteps
    <3>2. CASE Reached(from, a, k)
      <4>1. t \in DOMAIN from /\ level[t] = k /\ Idx(a, k) \in 0 .. ENTRY_COUNT - 1
        BY <3>2, PathLevels, IdxType
      <4>2. after[t][Idx(a, k)] = IF t = pt /\ Idx(a, k) = i THEN entry ELSE from[t][Idx(a, k)]
        BY <4>1, <1>5
      <4> QED BY <4>1, <4>2, <3>1, <3>2, <1>3
    <3>3. CASE ~Reached(from, a, k)
      <4>1. k = 3 => Path(from, a, 3) # pt
        BY <3>3, <1>3 DEF Reached
      <4> QED BY <4>1, <3>1, <3>3
    <3> QED BY <3>2, <3>3
  <2> HIDE DEF Same
  <2>3. Same(1)
    BY <2>1, <2>2 DEF Same
  <2>4. Same(2)
    BY <2>2, <2>3 DEF Same
  <2>5. Same(3)
    BY <2>2, <2>4 DEF Same
  <2>6. Path(after, a, 4) = IF Path(from, a, 3) = pt /\ Idx(a, 3) = i THEN entry ELSE Path(from, a, 4)
    BY <2>2, <2>5
  <2> QED BY <2>5, <2>6, <1>2, PathEnds DEF Same
<1>8. Lookup(after, page) = entry
  BY <1>1, <1>7 DEF pt, i
<1>9. ASSUME NEW p \in MappablePages \ {page}
      PROVE  Lookup(after, p) = Lookup(from, p)
  <2> SUFFICES ASSUME Pt(from, p) = pt, Idx(p, 3) = i PROVE FALSE
    BY <1>1, <1>7
  <2>1. \A k \in 0 .. 2 : Idx(page, k) = Idx(p, k)
    <3>1. Path(from, page, 3) # 0 /\ Path(from, page, 3) = Path(from, p, 3) /\ p \in Nat
      BY <1>1, <1>2, <1>3 DEF pt
    <3> QED BY <3>1, <1>1, PathsApart
  <2>2. Idx(page, 3) = Idx(p, 3)
    BY DEF i
  <2>3. \A k \in 0 .. 3 : Idx(page, k) = Idx(p, k)
    BY <2>1, <2>2
  <2> QED BY <2>3, IndexesTell
<1> QED BY <1>6, <1>8, <1>9

-----------------------------------------------------------------------------

LEMMA SetEntryType ==
  ASSUME NEW phys \in Nat, NEW flags \in Nat
  PROVE  SetEntry(phys, flags) \in Nat /\ AlignDown(phys) \in Nat
<1>1. /\ phys \div PAGE_SIZE \in Nat /\ phys % PAGE_SIZE \in 0 .. PAGE_SIZE - 1
      /\ phys = PAGE_SIZE * (phys \div PAGE_SIZE) + (phys % PAGE_SIZE)
  BY DivParts, SpaceAssumption
<1>2. PAGE_SIZE * (phys \div PAGE_SIZE) \in Nat
  BY <1>1, SpaceAssumption
<1>3. phys - (phys % PAGE_SIZE) \in Nat
  BY <1>1, <1>2
<1>4. flags % PAGE_SIZE \in Nat
  BY DivParts, SpaceAssumption
<1> QED BY <1>3, <1>4 DEF SetEntry, AlignDown, PageOffset

LEMMA MappableIfNoError ==
  ASSUME NEW virt \in Starts, IsCanonical(virt), IsAligned(virt)
  PROVE  virt \in MappablePages /\ virt \in Nat
BY SpaceAssumption DEF MappablePages, Pages

(* An entry that is in use is replaced in its place.                       *)
LEMMA StoreInPlace ==
  ASSUME NEW from, NEW level, Tree(from, level), NEW virt \in MappablePages,
         Lookup(from, virt) # 0, NEW entry \in Nat
  PROVE  /\ Tree(Store(from, virt, entry), level)
         /\ Lookup(Store(from, virt, entry), virt) = entry
         /\ \A p \in MappablePages \ {virt} : Lookup(Store(from, virt, entry), p) = Lookup(from, p)
<1>1. virt \in Nat
  BY SpaceAssumption DEF MappablePages, Pages
<1>2. Pt(from, virt) # 0
  BY DEF Lookup, Follow
<1>3. Descend(from, virt).tables = from /\ Descend(from, virt).at = Pt(from, virt)
  BY <1>1, <1>2, DescendKeeps
<1> PICK after : after = Store(from, virt, entry)
  OBVIOUS
<1>4. after = Replaced(from, Pt(from, virt), Idx(virt, 3), entry)
  BY <1>3 DEF Store, Replaced, Idx
<1>5. /\ Tree(after, level) /\ Lookup(after, virt) = entry
      /\ \A p \in MappablePages \ {virt} : Lookup(after, p) = Lookup(from, p)
  BY <1>2, <1>4, EntryStoreKeeps
<1> QED BY <1>5

LEMMA MapPageKeeps ==
  ASSUME NEW level, PageTableInv(level), NEW virt \in Starts, NEW phys \in PhysUsed,
         NEW flags \in FlagsUsed, MapPage(virt, phys, flags)
  PROVE  \E deeper : PageTableInv(deeper)'
<1> DEFINE walk == Descend(tables, virt)
           entry == SetEntry(phys, flags)
           found == walk.tables[walk.at][IndexFromAddr(virt, 3)]
<1>1. virt \in MappablePages /\ virt \in Nat /\ entry \in Nat
  BY MappableIfNoError, SetEntryType, SpaceAssumption DEF MapPage, MapError
<1>2. MapError(tables, virt) = IF found # 0 THEN "AlreadyMapped" ELSE "Ok"
  BY DEF MapPage, MapError
<1>3. PICK deeper : Tree(walk.tables, deeper)
  BY <1>1, DescendKeeps DEF PageTableInv
<1>4. /\ walk.at = Pt(walk.tables, virt) /\ walk.at # 0
      /\ \A a \in Nat : Lookup(walk.tables, a) = Lookup(tables, a)
  BY <1>1, DescendKeeps DEF PageTableInv
<1>5. MappablePages \subseteq Nat
  BY SpaceAssumption DEF MappablePages, Pages
<1>6. CASE found # 0
  <2>1. tables' = walk.tables /\ mapped' = mapped
    BY <1>2, <1>6 DEF MapPage, Map
  <2> HIDE DEF walk, found
  <2>2. PageTableInv(deeper)'
    BY <2>1, <1>3, <1>4, <1>5 DEF PageTableInv, Held
  <2> QED BY <2>2
<1>7. CASE found = 0
  <2>1. tables' = [walk.tables EXCEPT ![walk.at][IndexFromAddr(virt, 3)] = entry]
    BY <1>2, <1>7 DEF MapPage, Map
  <2>2. mapped' = [p \in DOMAIN mapped \cup {virt} |-> IF p = virt THEN entry ELSE mapped[p]]
    BY <1>2, <1>7 DEF MapPage
  <2> HIDE DEF walk, found, entry
  <2>3. /\ Tree(tables', deeper) /\ Lookup(tables', virt) = entry
        /\ \A p \in MappablePages \ {virt} : Lookup(tables', p) = Lookup(walk.tables, p)
    <3> PICK before : before = walk.tables
      OBVIOUS
    <3>1. tables' = Replaced(before, Pt(before, virt), Idx(virt, 3), entry)
      BY <2>1, <1>4 DEF Replaced, Idx
    <3>2. Tree(before, deeper) /\ Pt(before, virt) # 0
      BY <1>3, <1>4
    <3>3. /\ Tree(tables', deeper) /\ Lookup(tables', virt) = entry
          /\ \A p \in MappablePages \ {virt} : Lookup(tables', p) = Lookup(before, p)
      BY <3>1, <3>2, <1>1, EntryStoreKeeps
    <3> QED BY <3>3
  <2>4. mapped' \in [DOMAIN mapped' -> Nat] /\ DOMAIN mapped' \subseteq MappablePages
    BY <2>2, <1>1 DEF PageTableInv
  <2>5. \A p \in MappablePages : Lookup(tables', p) = Held(p)'
    BY <2>2, <2>3, <1>4, <1>5 DEF PageTableInv, Held
  <2>6. PageTableInv(deeper)'
    BY <2>3, <2>4, <2>5 DEF PageTableInv
  <2> QED BY <2>6
<1> QED BY <1>6, <1>7

LEMMA UnmapPageKeeps ==
  ASSUME NEW level, PageTableInv(level), NEW virt \in Starts, UnmapPage(virt)
  PROVE  PageTableInv(level)'
<1>1. virt \in MappablePages /\ Lookup(tables, virt) # 0
  BY MappableIfNoError DEF UnmapPage, UnmapError
<1>2. tables' = Store(tables, virt, 0) /\ mapped' = [p \in DOMAIN mapped \ {virt} |-> mapped[p]]
  BY DEF UnmapPage, WithoutPages
<1>3. /\ Tree(tables', level) /\ Lookup(tables', virt) = 0
      /\ \A p \in MappablePages \ {virt} : Lookup(tables', p) = Lookup(tables, p)
  BY <1>1, <1>2, StoreInPlace DEF PageTableInv
<1>4. mapped' \in [DOMAIN mapped' -> Nat] /\ DOMAIN mapped' \subseteq MappablePages
  BY <1>2 DEF PageTableInv
<1>5. \A p \in MappablePages : Lookup(tables', p) = Held(p)'
  BY <1>2, <1>3 DEF PageTableInv, Held
<1> QED BY <1>3, <1>4, <1>5 DEF PageTableInv

LEMMA UpdateFlagsKeeps ==
  ASSUME NEW level, PageTableInv(level), NEW virt \in Starts, NEW flags \in FlagsUsed,
         UpdateFlags(virt, flags)
  PROVE  PageTableInv(level)'
<1> DEFINE entry == SetEntry(PhysAddr(Lookup(tables, virt)), flags)
<1>1. virt \in MappablePages /\ Lookup(tables, virt) # 0
  BY MappableIfNoError DEF UpdateFlags, UnmapError
<1>2. virt \in DOMAIN mapped /\ Lookup(tables, virt) = mapped[virt] /\ mapped[virt] \in Nat
  BY <1>1 DEF PageTableInv, Held
<1>3. entry \in Nat
  BY <1>2, SetEntryType, SpaceAssumption DEF PhysAddr
<1>4. /\ tables' = Store(tables, virt, entry)
      /\ mapped' = IF entry = 0 THEN [p \in DOMAIN mapped \ {virt} |-> mapped[p]]
                   ELSE [mapped EXCEPT ![virt] = entry]
  BY DEF UpdateFlags, WithoutPages
<1> HIDE DEF entry
<1>5. /\ Tree(tables', level) /\ Lookup(tables', virt) = entry
      /\ \A p \in MappablePages \ {virt} : Lookup(tables', p) = Lookup(tables, p)
  BY <1>1, <1>3, <1>4, StoreInPlace DEF PageTableInv
<1>6. mapped' \in [DOMAIN mapped' -> Nat] /\ DOMAIN mapped' \subseteq MappablePages
  BY <1>3, <1>4 DEF PageTableInv
<1>7. \A p \in MappablePages : Lookup(tables', p) = Held(p)'
  BY <1>2, <1>4, <1>5 DEF PageTableInv, Held
<1> QED BY <1>5, <1>6, <1>7 DEF PageTableInv

LEMMA PageTableInitially == SpaceInit => \E level : PageTableInv(level)
<1> SUFFICES ASSUME SpaceInit PROVE PageTableInv([t \in {0} |-> 0])
  OBVIOUS
<1>1. tables = [t \in {0} |-> [i \in 0 .. ENTRY_COUNT - 1 |-> 0]] /\ mapped = <<>>
  BY DEF SpaceInit, NewTable
<1>2. Tree(tables, [t \in {0} |-> 0])
  <2>1. 0 \in DOMAIN tables /\ DOMAIN tables = 0 .. 0 /\ DOMAIN tables = {0}
    BY <1>1
  <2> QED BY <2>1, <1>1 DEF Tree
<1>3. ASSUME NEW page \in MappablePages PROVE Lookup(tables, page) = 0
  <2>1. page \in Nat
    BY SpaceAssumption DEF MappablePages, Pages
  <2>2. Pdpt(tables, page) = 0
    BY <2>1, <1>1, IdxType DEF Pdpt, Idx
  <2> QED BY <2>2 DEF Lookup, Pt, Pd, Follow
<1>4. DOMAIN mapped = {}
  BY <1>1
<1> QED BY <1>2, <1>3, <1>4 DEF PageTableInv, Held

LEMMA PageTableStep ==
  (\E level : PageTableInv(level)) /\ [DirectNext]_spacevars => (\E level : PageTableInv(level))'
<1> SUFFICES ASSUME NEW level, PageTableInv(level), [DirectNext]_spacevars
             PROVE  \E deeper : PageTableInv(deeper)'
  OBVIOUS
<1>1. CASE UNCHANGED spacevars
  <2>1. PageTableInv(level)'
    BY <1>1 DEF spacevars, PageTableInv, Held
  <2> QED BY <2>1
<1>2. CASE DirectNext
  <2> PICK virt \in Starts : \/ \E phys \in PhysUsed, flags \in FlagsUsed : MapPage(virt, phys, flags)
                             \/ UnmapPage(virt)
                             \/ \E flags \in FlagsUsed : UpdateFlags(virt, flags)
    BY <1>2 DEF DirectNext
  <2>1. CASE \E phys \in PhysUsed, flags \in FlagsUsed : MapPage(virt, phys, flags)
    BY <2>1, MapPageKeeps
  <2>2. CASE UnmapPage(virt)
    BY <2>2, UnmapPageKeeps
  <2>3. CASE \E flags \in FlagsUsed : UpdateFlags(virt, flags)
    BY <2>3, UpdateFlagsKeeps
  <2> QED BY <2>1, <2>2, <2>3
<1> QED BY <1>1, <1>2

LEMMA TranslatesHeld ==
  ASSUME NEW level, PageTableInv(level), NEW addr \in 0 .. AddrMod - 1
  PROVE  Translate(addr) = IF AlignDown(addr) \in DOMAIN mapped /\ mapped[AlignDown(addr)] # 0
                          THEN PhysAddr(mapped[AlignDown(addr)]) + PageOffset(addr) ELSE Absent
<1> DEFINE page == AlignDown(addr)
<1>1. /\ page \in Pages(0, AddrMod)
      /\ IsCanonical(page) <=> IsCanonical(addr)
      /\ \A k \in 0 .. 3 : Idx(page, k) = Idx(addr, k)
  BY PageOfAddress
<1> HIDE DEF page
<1>2. Lookup(tables, addr) = Lookup(tables, page)
  <2>1. Idx(page, 0) = Idx(addr, 0) /\ Idx(page, 1) = Idx(addr, 1) /\ Idx(page, 2) = Idx(addr, 2) /\ Idx(page, 3) = Idx(addr, 3)
    BY <1>1
  <2> QED BY <2>1 DEF Lookup, Pt, Pd, Pdpt, Follow, Idx
<1>3. CASE IsCanonical(addr)
  <2>1. page \in MappablePages
    BY <1>1, <1>3 DEF MappablePages
  <2>2. Lookup(tables, addr) = IF page \in DOMAIN mapped THEN mapped[page] ELSE 0
    BY <2>1, <1>2 DEF PageTableInv, Held
  <2> QED BY <2>2, <1>3 DEF Translate, page
<1>4. CASE ~IsCanonical(addr)
  <2>1. page \notin DOMAIN mapped
    BY <1>1, <1>4 DEF PageTableInv, MappablePages
  <2> QED BY <2>1, <1>4 DEF Translate, page
<1> QED BY <1>3, <1>4

(* There is a page for any four indexes.                                   *)
LEMMA PageOfIndexes ==
  ASSUME NEW f \in [0 .. 3 -> 0 .. ENTRY_COUNT - 1]
  PROVE  \E page \in MappablePages : \A k \in 0 .. 3 : Idx(page, k) = f[k]
<1> DEFINE q0 == IF f[0] < Half THEN f[0] ELSE ENTRY_COUNT * (TopHalf - 1) + f[0]
           q1 == ENTRY_COUNT * q0 + f[1]
           q2 == ENTRY_COUNT * q1 + f[2]
           q3 == ENTRY_COUNT * q2 + f[3]
           page == PAGE_SIZE * q3
<1>1. f[0] \in 0 .. ENTRY_COUNT - 1 /\ f[1] \in 0 .. ENTRY_COUNT - 1
      /\ f[2] \in 0 .. ENTRY_COUNT - 1 /\ f[3] \in 0 .. ENTRY_COUNT - 1
  OBVIOUS
<1>2. ENTRY_COUNT \in Nat \ {0} /\ PAGE_SIZE \in Nat \ {0}
  BY SpaceAssumption
<1>3. q0 \in Nat
  BY <1>1, SpaceSizes
<1>4. q0 % ENTRY_COUNT = f[0]
  <2>1. CASE f[0] < Half
    BY <2>1, <1>1, <1>2
  <2>2. CASE ~(f[0] < Half)
    <3> PICK k \in Nat : k = TopHalf - 1
      BY SpaceSizes
    <3>1. q0 = ENTRY_COUNT * k + f[0]
      BY <2>2
    <3> QED BY <3>1, <1>1, <1>2, DivIs
  <2> QED BY <2>1, <2>2
<1> HIDE DEF q0
<1>5. q1 \in Nat /\ q1 \div ENTRY_COUNT = q0 /\ q1 % ENTRY_COUNT = f[1]
  BY <1>1, <1>2, <1>3, Digit
<1> HIDE DEF q1
<1>6. q2 \in Nat /\ q2 \div ENTRY_COUNT = q1 /\ q2 % ENTRY_COUNT = f[2]
  BY <1>1, <1>2, <1>5, Digit
<1> HIDE DEF q2
<1>7. q3 \in Nat /\ q3 \div ENTRY_COUNT = q2 /\ q3 % ENTRY_COUNT = f[3]
  BY <1>1, <1>2, <1>6, Digit
<1> HIDE DEF q3
<1>8. page \in Nat /\ page \div PAGE_SIZE = q3 /\ page % PAGE_SIZE = 0
  BY <1>2, <1>7, DivExact
<1> HIDE DEF page
<1>9. Part(page, 3) = q3 /\ Part(page, 2) = q2 /\ Part(page, 1) = q1 /\ Part(page, 0) = q0
  <2>1. Part(page, 3) = q3
    BY <1>8 DEF Part, Span
  <2>2. Part(page, 2) = q2
    BY <2>1, <1>7, <1>8, PartsNest
  <2>3. Part(page, 1) = q1
    BY <2>2, <1>6, <1>8, PartsNest
  <2>4. Part(page, 0) = q0
    BY <2>3, <1>5, <1>8, PartsNest
  <2> QED BY <2>1, <2>2, <2>3, <2>4
<1>10. \A k \in 0 .. 3 : Idx(page, k) = f[k]
  <2>1. Idx(page, 0) = f[0] /\ Idx(page, 1) = f[1] /\ Idx(page, 2) = f[2] /\ Idx(page, 3) = f[3]
    BY <1>4, <1>5, <1>6, <1>7, <1>9 DEF Idx, IndexFromAddr, Part
  <2>2. \A k \in 0 .. 3 : k = 0 \/ k = 1 \/ k = 2 \/ k = 3
    OBVIOUS
  <2> QED BY <2>1, <2>2
<1> DEFINE r == page % Span(0)
<1>11. r \in 0 .. Span(0) - 1 /\ page = Span(0) * q0 + r
  <2>1. page = Span(0) * (page \div Span(0)) + (page % Span(0)) /\ page % Span(0) \in 0 .. Span(0) - 1
    BY <1>8, DivParts, SpaceSizes
  <2> QED BY <2>1, <1>9 DEF Part
<1> HIDE DEF r
<1>12. page \div SignBit = q0 \div Half
  BY <1>8, <1>9, DivTwice, SpaceSizes DEF Part
<1>13. /\ page < AddrMod
       /\ \/ (page \div SignBit) % 2 = 0 /\ page < SignBit
          \/ (page \div SignBit) % 2 = 1 /\ page >= AddrMod - SignBit
  <2>1. CASE f[0] < Half
    <3>1. q0 = f[0]
      BY <2>1 DEF q0
    <3>2. q0 \div Half = 0
      BY <3>1, <2>1, <1>1, SpaceSizes
    <3>3. Span(0) * (q0 + 1) <= Span(0) * Half
      BY <3>1, <2>1, <1>1, SpaceSizes
    <3>4. page < SignBit
      BY <3>3, <1>3, <1>11, SpaceSizes
    <3>5. SignBit \in Nat \ {0} /\ SignBit <= AddrMod
      <4>1. SignBit \in Nat \ {0}
        BY SpaceSizes
      <4>2. SignBit * 1 <= SignBit * TopHalf
        BY <4>1, SpaceSizes
      <4> QED BY <4>1, <4>2, SpaceSizes
    <3> QED BY <3>2, <3>4, <3>5, <1>8, <1>12, SpaceAssumption
  <2>2. CASE ~(f[0] < Half)
    <3> PICK k \in Nat : k = TopHalf - 1
      BY SpaceSizes
    <3>1. q0 = ENTRY_COUNT * k + f[0]
      BY <2>2 DEF q0
    <3>2. q0 = Half * (2 * k + 1) + (f[0] - Half) /\ f[0] - Half \in 0 .. Half - 1
      BY <3>1, <2>2, <1>1, SpaceSizes
    <3>3. q0 \div Half = 2 * k + 1
      <4> PICK m \in Nat : m = 2 * k + 1
        OBVIOUS
      <4> QED BY <3>2, DivIs, SpaceSizes
    <3>4. (2 * k + 1) % 2 = 1
      OBVIOUS
    <3>5. SignBit = Span(0) * Half /\ AddrMod = 2 * (SignBit * (k + 1))
      BY SpaceSizes
    <3> DEFINE low == Half * (2 * k + 1)
    <3>6. low \in Nat /\ AddrMod - SignBit = Span(0) * low
      BY <3>5, SpaceSizes
    <3>7. Span(0) * low <= Span(0) * q0
      <4>1. low <= q0
        BY <3>2, <3>6, <1>3
      <4> QED BY <4>1, <3>6, <1>3, SpaceSizes
    <3>8. Span(0) * (q0 + 1) <= Span(0) * (low + Half)
      <4>1. q0 + 1 <= low + Half
        BY <3>2, <3>6, <1>3, SpaceSizes
      <4> QED BY <4>1, <3>6, <1>3, SpaceSizes
    <3> HIDE DEF low
    <3>9. Span(0) * (low + Half) = AddrMod
      BY <3>5, <3>6, SpaceSizes, SpaceAssumption
    <3>10. page < AddrMod /\ page >= AddrMod - SignBit
      <4>1. Span(0) * (q0 + 1) = Span(0) * q0 + Span(0) /\ Span(0) * q0 \in Nat
        BY <1>3, SpaceSizes
      <4> QED BY <4>1, <3>6, <3>7, <3>8, <3>9, <1>11, SpaceSizes
    <3> QED BY <3>3, <3>4, <3>10, <1>12
  <2> QED BY <2>1, <2>2
<1>14. page \in MappablePages
  BY <1>8, <1>13, SpaceAssumption DEF MappablePages, Pages, IsAligned, PageOffset, IsCanonical
<1> QED BY <1>10, <1>14

(* Every entry in use is that of one page.                                 *)
LEMMA CountsHeld ==
  ASSUME NEW level, PageTableInv(level)
  PROVE  MappingCount = Cardinality({p \in DOMAIN mapped : mapped[p] # 0})
<1> DEFINE Used == {p \in DOMAIN mapped : mapped[p] # 0}
           pts == UsedIn(UsedIn(UsedIn({0})))
           f == [p \in Used |-> <<Pt(tables, p), Idx(p, 3)>>]
<1>1. Used \subseteq MappablePages /\ MappablePages \subseteq Nat /\ IsFiniteSet(Used)
  <2>1. Used \subseteq MappablePages /\ MappablePages \subseteq 0 .. AddrMod - 1
    BY DEF PageTableInv, MappablePages, Pages
  <2>2. IsFiniteSet(0 .. AddrMod - 1)
    BY FS_Interval, SpaceAssumption
  <2> HIDE DEF Used
  <2>3. IsFiniteSet(Used)
    BY <2>1, <2>2, FS_Subset
  <2>4. MappablePages \subseteq Nat
    BY SpaceAssumption DEF MappablePages, Pages
  <2> QED BY <2>1, <2>3, <2>4
<1>2. \A set, t, i : t \in set /\ i \in 0 .. ENTRY_COUNT - 1 /\ tables[t][i] # 0 => tables[t][i] \in UsedIn(set)
  BY DEF UsedIn
<1>3. ASSUME NEW p \in Used
      PROVE  f[p] \in UsedEntries /\ Lookup(tables, p) # 0 /\ Pt(tables, p) # 0
  <2>1. p \in Nat /\ Lookup(tables, p) # 0
    BY <1>1 DEF PageTableInv, Held
  <2>2. /\ Pt(tables, p) # 0 /\ Lookup(tables, p) = tables[Pt(tables, p)][Idx(p, 3)]
        /\ Pd(tables, p) # 0 /\ Pt(tables, p) = tables[Pd(tables, p)][Idx(p, 2)]
        /\ Pdpt(tables, p) # 0 /\ Pd(tables, p) = tables[Pdpt(tables, p)][Idx(p, 1)]
        /\ Pdpt(tables, p) = tables[0][Idx(p, 0)]
    BY <2>1 DEF Lookup, Pt, Pd, Pdpt, Follow, Idx
  <2>3. /\ Idx(p, 0) \in 0 .. ENTRY_COUNT - 1 /\ Idx(p, 1) \in 0 .. ENTRY_COUNT - 1
        /\ Idx(p, 2) \in 0 .. ENTRY_COUNT - 1 /\ Idx(p, 3) \in 0 .. ENTRY_COUNT - 1
    BY <2>1, IdxType
  <2>4. Pdpt(tables, p) \in UsedIn({0})
    BY <2>2, <2>3, <1>2
  <2>5. Pd(tables, p) \in UsedIn(UsedIn({0}))
    BY <2>2, <2>3, <2>4, <1>2
  <2>6. Pt(tables, p) \in pts
    BY <2>2, <2>3, <2>5, <1>2
  <2> QED BY <2>1, <2>2, <2>3, <2>6 DEF UsedEntries
<1>4. ASSUME NEW p \in Used, NEW q \in Used, f[p] = f[q]
      PROVE  p = q
  <2>1. p \in Nat /\ q \in Nat /\ p \in MappablePages /\ q \in MappablePages
    BY <1>1
  <2>2. Pt(tables, p) = Pt(tables, q) /\ Idx(p, 3) = Idx(q, 3) /\ Pt(tables, p) # 0
    BY <1>3, <1>4
  <2>3. Path(tables, p, 3) # 0 /\ Path(tables, p, 3) = Path(tables, q, 3)
    BY <2>2 DEF Path
  <2>4. \A k \in 0 .. 2 : Idx(p, k) = Idx(q, k)
    BY <2>1, <2>3, PathsApart DEF PageTableInv
  <2>5. \A k \in 0 .. 3 : Idx(p, k) = Idx(q, k)
    BY <2>2, <2>4
  <2> QED BY <2>1, <2>5, IndexesTell
<1>5. ASSUME NEW e \in UsedEntries
      PROVE  \E p \in Used : f[p] = e
  <2>1. /\ e = <<e[1], e[2]>> /\ e[1] \in pts /\ e[2] \in 0 .. ENTRY_COUNT - 1
        /\ tables[e[1]][e[2]] # 0
    BY DEF UsedEntries
  <2>2. PICK t2 \in UsedIn(UsedIn({0})), i2 \in 0 .. ENTRY_COUNT - 1 : e[1] = tables[t2][i2] /\ e[1] # 0
    BY <2>1 DEF UsedIn
  <2>3. PICK t1 \in UsedIn({0}), i1 \in 0 .. ENTRY_COUNT - 1 : t2 = tables[t1][i1] /\ t2 # 0
    BY DEF UsedIn
  <2>4. PICK i0 \in 0 .. ENTRY_COUNT - 1 : t1 = tables[0][i0] /\ t1 # 0
    BY DEF UsedIn
  <2> DEFINE g == [k \in 0 .. 3 |-> IF k = 0 THEN i0 ELSE IF k = 1 THEN i1 ELSE IF k = 2 THEN i2 ELSE e[2]]
  <2>5. PICK p \in MappablePages : \A k \in 0 .. 3 : Idx(p, k) = g[k]
    <3>1. g \in [0 .. 3 -> 0 .. ENTRY_COUNT - 1]
      BY <2>1
    <3> QED BY <3>1, PageOfIndexes
  <2>6. Idx(p, 0) = i0 /\ Idx(p, 1) = i1 /\ Idx(p, 2) = i2 /\ Idx(p, 3) = e[2]
    BY <2>5
  <2>7. Pdpt(tables, p) = t1 /\ Pd(tables, p) = t2 /\ Pt(tables, p) = e[1] /\ Lookup(tables, p) = tables[e[1]][e[2]]
    BY <2>2, <2>3, <2>4, <2>6 DEF Pdpt, Pd, Pt, Lookup, Follow, Idx
  <2>8. p \in Used
    BY <2>1, <2>7 DEF PageTableInv, Held
  <2> QED BY <2>1, <2>6, <2>7, <2>8
<1>6. Cardinality(UsedEntries) = Cardinality(Used)
  <2>1. f \in [Used -> UsedEntries]
    BY <1>3
  <2> HIDE DEF f, Used
  <2> QED BY <2>1, <1>1, <1>4, <1>5, SameCardinality
<1> QED BY <1>6 DEF MappingCount

LEMMA MapIfInv == (\E level : PageTableInv(level)) => TablesAreAMap
BY TranslatesHeld, CountsHeld DEF TablesAreAMap

(* For any page size, any even number of entries and any width of          *)
(* addresses that fits them, and any calls of map, unmap and update_flags: *)
(* the four levels hold a function of pages, with no entry of one page     *)
(* found from another, also where map left tables behind for a page it     *)
(* refused.                                                                *)
THEOREM PageTableIsAMap == DirectSpec => []TablesAreAMap
<1>1. DirectSpec => [](\E level : PageTableInv(level))
  BY PageTableInitially, PageTableStep, PTL DEF DirectSpec
<1> QED BY <1>1, MapIfInv, PTL

-----------------------------------------------------------------------------
(* Address tokens, bitmaps and masks                                       *)

(* Every call keeps what a token has among what it was given, and an entry *)
(* for each resource it was given one for (AddressTokenManager).           *)
LEMMA CreateTokenInv ==
  ASSUME AddressInv, NEW permissions \in SUBSET PermissionEntries,
         CreateToken(permissions)
  PROVE  AddressInv'
<1> USE DEF AddressInv
<1> DEFINE token == [permissions |-> permissions, is_active |-> TRUE]
<1>1. /\ next_token \in TokenIds /\ next_token \in Nat /\ MaxAddressTokens \in Nat
      /\ next_token \notin DOMAIN address_tokens
      /\ next_token' = next_token + 1 /\ given' = [given EXCEPT ![next_token] = permissions]
  BY RightsAssumption DEF CreateToken, TokenIds
<1>2. address_tokens' = [k \in DOMAIN address_tokens \cup {next_token} |->
                           IF k = next_token THEN token ELSE address_tokens[k]]
  BY DEF CreateToken, PutToken
<1>3. permissions \in SUBSET PermissionEntries /\ Covers(permissions, permissions)
  BY DEF Covers, SameResource
<1>4. /\ DOMAIN address_tokens' = DOMAIN address_tokens \cup {next_token}
      /\ address_tokens'[next_token] = token
      /\ \A id \in DOMAIN address_tokens : address_tokens'[id] = address_tokens[id]
  BY <1>1, <1>2
<1>5. token \in [permissions : SUBSET PermissionEntries, is_active : {TRUE}] /\ token.permissions = permissions
  BY <1>3
<1> HIDE DEF token
<1>6. TokensCovered'
  <2> SUFFICES ASSUME NEW id \in TokenIds
               PROVE  IF id \in DOMAIN address_tokens' THEN Covers(address_tokens'[id].permissions, given'[id])
                      ELSE given'[id] = {}
    BY DEF TokensCovered, TokenIds
  <2>1. CASE id = next_token
    BY <1>1, <1>3, <1>4, <1>5, <2>1
  <2>2. CASE id # next_token
    BY <1>1, <1>4, <2>2 DEF TokensCovered
  <2> QED
    BY <2>1, <2>2
<1> QED
  <2>1. next_token' \in 1 .. MaxAddressTokens + 1 /\ DOMAIN address_tokens' \subseteq 1 .. next_token' - 1
    BY <1>1, <1>4 DEF TokenIds
  <2>2. \A id \in DOMAIN address_tokens' :
          address_tokens'[id] \in [permissions : SUBSET PermissionEntries, is_active : {TRUE}]
    BY <1>4, <1>5
  <2>3. given' \in [TokenIds -> SUBSET PermissionEntries]
    BY <1>1, <1>3
  <2> QED
    BY <1>6, <2>1, <2>2, <2>3 DEF TokenIds

LEMMA DestroyTokenInv ==
  ASSUME AddressInv, NEW id \in TokenIds, DestroyToken(id)
  PROVE  AddressInv'
<1> USE DEF AddressInv
<1>1. /\ address_tokens' = [k \in DOMAIN address_tokens \ {id} |-> address_tokens[k]]
      /\ given' = [given EXCEPT ![id] = {}] /\ next_token' = next_token
  BY DEF DestroyToken
<1>2. TokensCovered'
  BY <1>1 DEF TokensCovered, TokenIds
<1> QED
  BY <1>1, <1>2 DEF TokenIds

(* What a call changes of one token *)
LEMMA TokenChanges ==
  ASSUME AddressInv, NEW id \in DOMAIN address_tokens,
         NEW permissions \in SUBSET PermissionEntries, NEW rights \in SUBSET PermissionEntries,
         Covers(permissions, rights),
         address_tokens' = [address_tokens EXCEPT ![id].permissions = permissions],
         given' = [given EXCEPT ![id] = rights], next_token' = next_token
  PROVE  AddressInv'
<1> USE DEF AddressInv
<1> DEFINE token == [address_tokens[id] EXCEPT !.permissions = permissions]
<1>1. id \in TokenIds
  BY RightsAssumption DEF TokenIds
<1>2. /\ DOMAIN address_tokens' = DOMAIN address_tokens /\ address_tokens'[id] = token
      /\ \A k \in DOMAIN address_tokens : k # id => address_tokens'[k] = address_tokens[k]
  OBVIOUS
<1>3. token \in [permissions : SUBSET PermissionEntries, is_active : {TRUE}] /\ token.permissions = permissions
  <2>1. address_tokens[id] \in [permissions : SUBSET PermissionEntries, is_active : {TRUE}]
    OBVIOUS
  <2> QED
    BY <2>1
<1> HIDE DEF token
<1>4. TokensCovered'
  <2> SUFFICES ASSUME NEW k \in TokenIds
               PROVE  IF k \in DOMAIN address_tokens' THEN Covers(address_tokens'[k].permissions, given'[k])
                      ELSE given'[k] = {}
    BY DEF TokensCovered, TokenIds
  <2>1. CASE k = id
    BY <1>1, <1>2, <1>3, <2>1
  <2>2. CASE k # id
    BY <1>1, <1>2, <2>2 DEF TokensCovered
  <2> QED
    BY <2>1, <2>2
<1> QED
  BY <1>2, <1>3, <1>4 DEF TokenIds

LEMMA GrantPermissionInv ==
  ASSUME AddressInv, NEW id \in TokenIds, NEW entry \in PermissionEntries, GrantPermission(id, entry)
  PROVE  AddressInv'
<1> DEFINE old == address_tokens[id].permissions
           rights == given[id] \cup {entry}
<1>1. id \in DOMAIN address_tokens /\ given' = [given EXCEPT ![id] = rights] /\ next_token' = next_token
  BY DEF GrantPermission
<1>2. /\ old \in SUBSET PermissionEntries /\ rights \in SUBSET PermissionEntries /\ Covers(old, given[id])
      /\ address_tokens[id] \in [permissions : SUBSET PermissionEntries, is_active : {TRUE}]
  BY <1>1 DEF AddressInv, TokensCovered
<1>3. CASE \E p \in old : SameResource(p, entry)
  <2>1. Covers(old, rights)
    BY <1>2, <1>3 DEF Covers
  <2>2. [address_tokens[id] EXCEPT !.permissions = old] = address_tokens[id]
    BY <1>2
  <2>3. address_tokens' = address_tokens
    BY <1>3 DEF GrantPermission
  <2>4. TokensCovered'
    <3> SUFFICES ASSUME NEW k \in TokenIds
                 PROVE  IF k \in DOMAIN address_tokens THEN Covers(address_tokens[k].permissions, given'[k])
                        ELSE given'[k] = {}
      BY <2>3 DEF TokensCovered, TokenIds
    <3>1. CASE k = id
      BY <1>1, <2>1, <3>1 DEF AddressInv
    <3>2. CASE k # id
      BY <1>1, <3>2 DEF AddressInv, TokensCovered
    <3> QED
      BY <3>1, <3>2
  <2> QED
    BY <1>1, <1>2, <2>3, <2>4 DEF AddressInv, TokenIds
<1>4. CASE ~\E p \in old : SameResource(p, entry)
  <2>1. address_tokens' = [address_tokens EXCEPT ![id].permissions = old \cup {entry}]
    BY <1>4 DEF GrantPermission
  <2>2. Covers(old \cup {entry}, rights)
    BY <1>2, <1>4 DEF Covers, SameResource
  <2>3. old \cup {entry} \in SUBSET PermissionEntries
    BY <1>2
  <2> QED
    BY <1>1, <1>2, <2>1, <2>2, <2>3, TokenChanges
<1> QED
  BY <1>3, <1>4

LEMMA RevokePermissionInv ==
  ASSUME AddressInv, NEW id \in TokenIds, NEW resource \in ResourceTypes, RevokePermission(id, resource)
  PROVE  AddressInv'
<1> DEFINE old == address_tokens[id].permissions
           new == old \ OfType(old, resource)
           rights == given[id] \ OfType(given[id], resource)
<1>1. /\ id \in DOMAIN address_tokens /\ given' = [given EXCEPT ![id] = rights] /\ next_token' = next_token
      /\ address_tokens' = [address_tokens EXCEPT ![id].permissions = new]
  BY DEF RevokePermission
<1>2. old \in SUBSET PermissionEntries /\ given[id] \in SUBSET PermissionEntries /\ Covers(old, given[id])
  BY <1>1 DEF AddressInv, TokensCovered
<1>3. Covers(new, rights)
  BY <1>2 DEF Covers, SameResource, OfType
<1>4. new \in SUBSET PermissionEntries /\ rights \in SUBSET PermissionEntries
  BY <1>2
<1> HIDE DEF new, rights
<1> QED
  BY <1>1, <1>3, <1>4, TokenChanges

LEMMA TokenNextInv ==
  AddressInv /\ TokenNext => AddressInv'
<1> SUFFICES ASSUME AddressInv, TokenNext PROVE AddressInv'
  OBVIOUS
<1>1. \A id \in 1 .. MaxAddressTokens : id \in TokenIds
  BY DEF TokenIds
<1> QED
  BY <1>1, CreateTokenInv, DestroyTokenInv, GrantPermissionInv, RevokePermissionInv DEF TokenNext

(* The bits of capabilities are those granted (grant_capability,           *)
(* revoke_capability), whatever other bits are set.                        *)
LEMMA BitmapNextInv ==
  BitmapInv /\ BitmapNext => BitmapInv'
<1> SUFFICES ASSUME BitmapInv, BitmapNext PROVE BitmapInv'
  OBVIOUS
<1>1. /\ Caps \subseteq KernelCapabilities /\ KernelCapabilities \subseteq 0 .. BitmapSize - 1
      /\ \A bit \in Bits : bit \in Nat
  BY RightsAssumption DEF KernelCapabilities, BitmapSize
<1>2. \A bit \in Nat : bit < BitmapSize => bit \in 0 .. BitmapSize - 1
  BY DEF BitmapSize
<1>3. \A cap \in KernelCapabilities : cap \in Nat /\ cap < BitmapSize
  BY DEF KernelCapabilities, BitmapSize
<1>4. ASSUME NEW cap \in Caps, GrantCapability(cap) \/ RevokeCapability(cap) PROVE BitmapInv'
  BY <1>1, <1>2, <1>3, <1>4 DEF BitmapInv, GrantCapability, RevokeCapability, SetBit, ClearBit
<1>5. ASSUME NEW bit \in Bits, SetRaw(bit) \/ ClearRaw(bit) PROVE BitmapInv'
  BY <1>1, <1>2, <1>5 DEF BitmapInv, SetRaw, ClearRaw, SetBit, ClearBit
<1> QED
  BY <1>4, <1>5 DEF BitmapNext

(* The word of a bit and its place in it (EventMask::set, CapBitmap::set). *)
LEMMA WordAndPlace ==
  ASSUME NEW bit \in Nat
  PROVE  /\ bit \div WordSize \in Nat /\ bit % WordSize \in 0 .. WordSize - 1
         /\ bit = WordSize * (bit \div WordSize) + (bit % WordSize)
BY DEF WordSize

LEMMA BitNumber ==
  ASSUME NEW i \in Nat, NEW place \in 0 .. WordSize - 1, NEW bit \in Nat
  PROVE  /\ WordSize * i + place \in Nat
         /\ i = bit \div WordSize /\ place = bit % WordSize <=> bit = WordSize * i + place
BY DEF WordSize

LEMMA WordsOf ==
  ASSUME NEW mk \in DOMAIN Words
  PROVE  Words[mk] \in Nat
BY DEF Words

(* A call that makes of one mask one whose bits are those of a set keeps   *)
(* the invariant.                                                          *)
LEMMA MaskChanges ==
  ASSUME MaskInv, NEW mk \in DOMAIN Words, NEW bits \in SUBSET Nat,
         NEW mask \in [0 .. Words[mk] - 1 -> SUBSET (0 .. WordSize - 1)],
         \A i \in 0 .. Words[mk] - 1, place \in 0 .. WordSize - 1 :
           place \in mask[i] <=> WordSize * i + place \in bits,
         masks' = [masks EXCEPT ![mk] = mask], marked' = [marked EXCEPT ![mk] = bits]
  PROVE  MaskInv'
<1>1. /\ masks'[mk] = mask /\ marked'[mk] = bits
      /\ DOMAIN masks' = DOMAIN masks /\ DOMAIN marked' = DOMAIN marked
      /\ \A k \in DOMAIN Words : k # mk => masks'[k] = masks[k] /\ marked'[k] = marked[k]
  BY DEF MaskInv
<1>2. WordsHold'
  BY <1>1 DEF MaskInv, WordsHold
<1> QED
  BY <1>1, <1>2 DEF MaskInv

LEMMA MaskNextInv ==
  MaskInv /\ MaskNext => MaskInv'
<1> SUFFICES ASSUME MaskInv, MaskNext PROVE MaskInv'
  OBVIOUS
<1>1. \A mk \in DOMAIN Words : \A i \in 0 .. Words[mk] - 1 : i \in Nat
  BY WordsOf
<1>2. MaskBits \subseteq Nat /\ FlagBits \subseteq Nat
  BY RightsAssumption DEF FlagBits
<1>3. {"caps", "events", "flags"} = DOMAIN Words
  BY DEF Words
<1>4. ASSUME NEW mk \in DOMAIN Words
      PROVE  /\ masks[mk] \in [0 .. Words[mk] - 1 -> SUBSET (0 .. WordSize - 1)]
             /\ marked[mk] \subseteq Nat
             /\ \A i \in 0 .. Words[mk] - 1, place \in 0 .. WordSize - 1 :
                  place \in masks[mk][i] <=> WordSize * i + place \in marked[mk]
  BY DEF MaskInv, WordsHold
<1>5. ASSUME NEW mk \in DOMAIN Words, NEW bit \in MaskBits, SetInMask(mk, bit)
      PROVE  MaskInv'
  <2> DEFINE mask == WithBit(masks[mk], bit)
             bits == marked[mk] \cup {bit}
  <2>1. mask \in [0 .. Words[mk] - 1 -> SUBSET (0 .. WordSize - 1)] /\ bits \in SUBSET Nat
    BY <1>2, <1>4, WordAndPlace DEF WithBit
  <2>2. ASSUME NEW i \in 0 .. Words[mk] - 1, NEW place \in 0 .. WordSize - 1
        PROVE  place \in mask[i] <=> WordSize * i + place \in bits
    <3>1. mask[i] = IF i = bit \div WordSize THEN masks[mk][i] \cup {bit % WordSize} ELSE masks[mk][i]
      BY <1>4 DEF WithBit
    <3>2. i = bit \div WordSize /\ place = bit % WordSize <=> bit = WordSize * i + place
      BY <1>1, <1>2, BitNumber
    <3> HIDE DEF mask
    <3> QED
      BY <1>4, <3>1, <3>2
  <2>3. masks' = [masks EXCEPT ![mk] = mask] /\ marked' = [marked EXCEPT ![mk] = bits]
    BY <1>5 DEF SetInMask
  <2> HIDE DEF mask, bits
  <2> QED
    BY <2>1, <2>2, <2>3, MaskChanges
<1>6. ASSUME NEW mk \in DOMAIN Words, NEW bit \in MaskBits, ClearInMask(mk, bit)
      PROVE  MaskInv'
  <2> DEFINE mask == WithoutBit(masks[mk], bit)
             bits == marked[mk] \ {bit}
  <2>1. mask \in [0 .. Words[mk] - 1 -> SUBSET (0 .. WordSize - 1)] /\ bits \in SUBSET Nat
    BY <1>4 DEF WithoutBit
  <2>2. ASSUME NEW i \in 0 .. Words[mk] - 1, NEW place \in 0 .. WordSize - 1
        PROVE  place \in mask[i] <=> WordSize * i + place \in bits
    <3>1. mask[i] = IF i = bit \div WordSize THEN masks[mk][i] \ {bit % WordSize} ELSE masks[mk][i]
      BY <1>4 DEF WithoutBit
    <3>2. i = bit \div WordSize /\ place = bit % WordSize <=> bit = WordSize * i + place
      BY <1>1, <1>2, BitNumber
    <3> HIDE DEF mask
    <3> QED
      BY <1>4, <3>1, <3>2
  <2>3. masks' = [masks EXCEPT ![mk] = mask] /\ marked' = [marked EXCEPT ![mk] = bits]
    BY <1>6 DEF ClearInMask
  <2> HIDE DEF mask, bits
  <2> QED
    BY <2>1, <2>2, <2>3, MaskChanges
<1>7. ASSUME NEW set \in SUBSET FlagBits, AddFlags(set)
      PROVE  MaskInv'
  <2> DEFINE other == MaskOf("flags", set)
             mask == UnionMask(masks["flags"], other)
             bits == marked["flags"] \cup set
  <2>1. "flags" \in DOMAIN Words /\ bits \in SUBSET Nat
    BY <1>2, <1>3, <1>4
  <2>2. DOMAIN NoBits("flags") = 0 .. Words["flags"] - 1
    BY DEF NoBits
  <2>3. \A i \in 0 .. Words["flags"] - 1 : other[i] = {bit % WordSize : bit \in {b \in set : b \div WordSize = i}}
    BY <2>2 DEF MaskOf
  <2>4. \A i \in 0 .. Words["flags"] - 1 : other[i] \subseteq 0 .. WordSize - 1
    BY <1>2, <2>3, WordAndPlace
  <2> HIDE DEF other
  <2>5. mask \in [0 .. Words["flags"] - 1 -> SUBSET (0 .. WordSize - 1)]
    <3> DEFINE places == 0 .. WordSize - 1
    <3>1. masks["flags"] \in [0 .. Words["flags"] - 1 -> SUBSET places]
      BY <1>4, <2>1
    <3>2. mask = [i \in 0 .. Words["flags"] - 1 |-> masks["flags"][i] \cup other[i]]
      BY <3>1 DEF UnionMask
    <3>3. \A i \in 0 .. Words["flags"] - 1 : masks["flags"][i] \cup other[i] \in SUBSET places
      BY <2>4, <3>1
    <3> HIDE DEF mask, places
    <3>4. mask \in [0 .. Words["flags"] - 1 -> SUBSET places]
      BY <3>2, <3>3
    <3> QED
      BY <3>4 DEF places
  <2>6. ASSUME NEW i \in 0 .. Words["flags"] - 1, NEW place \in 0 .. WordSize - 1
        PROVE  place \in mask[i] <=> WordSize * i + place \in bits
    <3>1. mask[i] = masks["flags"][i] \cup other[i]
      BY <1>4, <2>1 DEF UnionMask
    <3>2. \A bit \in set : i = bit \div WordSize /\ place = bit % WordSize <=> bit = WordSize * i + place
      BY <1>1, <1>2, <2>1, BitNumber
    <3>3. place \in other[i] <=> WordSize * i + place \in set
      BY <2>3, <3>2
    <3> HIDE DEF mask
    <3> QED
      BY <1>4, <2>1, <3>1, <3>3
  <2>7. masks' = [masks EXCEPT !["flags"] = mask] /\ marked' = [marked EXCEPT !["flags"] = bits]
    BY <1>7 DEF AddFlags, other
  <2> HIDE DEF mask, bits
  <2> QED
    BY <2>1, <2>5, <2>6, <2>7, MaskChanges
<1> QED
  BY <1>3, <1>5, <1>6, <1>7 DEF MaskNext

LEMMA RightsInitInv ==
  RightsInit => RightsInv
<1> SUFFICES ASSUME RightsInit PROVE RightsInv
  OBVIOUS
<1>1. DOMAIN <<>> = {} /\ MaxAddressTokens \in Nat
  BY RightsAssumption
<1>2. AddressInv
  BY <1>1 DEF RightsInit, TokenInit, AddressInv, TokensCovered, TokenIds
<1>3. BitmapInv
  BY DEF RightsInit, BitmapInit, BitmapInv
<1>4. MaskInv
  <2>1. \A mk \in DOMAIN Words : NoBits(mk) = [i \in 0 .. Words[mk] - 1 |-> {}]
    BY DEF NoBits
  <2>2. \A mk \in DOMAIN Words : masks[mk] = NoBits(mk) /\ marked[mk] = {}
    BY DEF RightsInit, MaskInit
  <2>3. DOMAIN masks = DOMAIN Words /\ DOMAIN marked = DOMAIN Words
    BY DEF RightsInit, MaskInit
  <2> QED
    BY <2>1, <2>2, <2>3 DEF MaskInv, WordsHold
<1> QED
  BY <1>2, <1>3, <1>4 DEF RightsInv

LEMMA RightsNextInv ==
  RightsInv /\ [RightsNext]_rightsvars => RightsInv'
<1> SUFFICES ASSUME RightsInv, [RightsNext]_rightsvars PROVE RightsInv'
  OBVIOUS
<1>1. UNCHANGED tokenrights => AddressInv'
  BY DEF RightsInv, tokenrights, AddressInv, TokensCovered
<1>2. UNCHANGED bitmapvars => BitmapInv'
  BY DEF RightsInv, bitmapvars, BitmapInv
<1>3. UNCHANGED maskvars => MaskInv'
  BY DEF RightsInv, maskvars, MaskInv, WordsHold
<1> QED
  BY <1>1, <1>2, <1>3, TokenNextInv, BitmapNextInv, MaskNextInv DEF RightsInv, RightsNext, rightsvars

LEMMA AccessHolds ==
  AddressInv => AccessWasGiven
<1> SUFFICES ASSUME AddressInv, NEW id \in TokenIds, NEW resource \in ResourceTypes
             PROVE  LET rights == {p.access_right : p \in OfType(given[id], resource)}
                    IN /\ \A right \in AccessRights :
                            CheckAccess(id, resource, right) =>
                              right # {} /\ \E r \in rights : ContainsRight(r, right)
                       /\ \A p \in OfType(given[id], resource) :
                            /\ id \in DOMAIN address_tokens
                            /\ \E q \in address_tokens[id].permissions : SameResource(q, p)
  BY DEF AccessWasGiven
<1> DEFINE rights == {p.access_right : p \in OfType(given[id], resource)}
<1>1. id \in DOMAIN address_tokens => Covers(address_tokens[id].permissions, given[id])
  BY DEF AddressInv, TokensCovered
<1>2. id \notin DOMAIN address_tokens => given[id] = {}
  BY DEF AddressInv, TokensCovered
<1>3. ASSUME NEW right \in AccessRights, CheckAccess(id, resource, right)
      PROVE  right # {} /\ \E r \in rights : ContainsRight(r, right)
  <2>1. id \in DOMAIN address_tokens
    BY <1>3 DEF CheckAccess
  <2>2. PICK p \in address_tokens[id].permissions :
          p.resource_type = resource /\ ContainsRight(p.access_right, right)
    BY <1>3 DEF CheckAccess
  <2>3. p \in OfType(given[id], resource)
    BY <1>1, <2>1, <2>2 DEF Covers, OfType
  <2>4. p.access_right \in rights
    BY <2>3
  <2>5. right # {}
    BY <2>2 DEF ContainsRight
  <2> QED
    BY <2>2, <2>4, <2>5
<1>4. ASSUME NEW p \in OfType(given[id], resource)
      PROVE  /\ id \in DOMAIN address_tokens
             /\ \E q \in address_tokens[id].permissions : SameResource(q, p)
  BY <1>1, <1>2, <1>4 DEF OfType, Covers
<1> QED
  BY <1>3, <1>4

LEMMA BridgeHolds ==
  BitmapInv => BridgeExact
<1> SUFFICES ASSUME BitmapInv PROVE BridgeExact
  OBVIOUS
<1> DEFINE caps == BitmapToCapabilities(bitmap)
           token == [capabilities |-> caps, is_revoked |-> FALSE]
<1>1. \A cap \in KernelCapabilities : cap < BitmapSize
  BY DEF KernelCapabilities, BitmapSize
<1>2. Caps \subseteq KernelCapabilities
  BY RightsAssumption
<1>3. caps = granted /\ caps \subseteq KernelCapabilities /\ caps = bitmap \cap KernelCapabilities
  BY <1>1 DEF BitmapInv, BitmapToCapabilities, TestBit
<1>4. CapabilitiesToBitmap(caps) = caps
  BY <1>1, <1>3 DEF CapabilitiesToBitmap
<1>5. BitmapToCapabilities(caps) = caps
  BY <1>1, <1>3 DEF BitmapToCapabilities, TestBit
<1>6. token.capabilities = caps /\ token.is_revoked = FALSE
  OBVIOUS
<1>7. [token EXCEPT !.is_revoked = TRUE].is_revoked = TRUE
  OBVIOUS
<1>8. CapabilitiesToBitmap({}) = {}
  BY DEF CapabilitiesToBitmap
<1> HIDE DEF caps, token
<1>9. ASSUME NEW cap \in Caps
      PROVE  /\ HasCapability(bitmap, cap) = Check(token, cap)
             /\ Check(token, cap) = CheckAll(token, FromU8(cap))
             /\ ~CheckAny([token EXCEPT !.is_revoked = TRUE], {cap})
  <2>1. HasCapability(bitmap, cap) <=> cap \in caps
    BY <1>1, <1>2, <1>3 DEF HasCapability, TestBit
  <2>2. FromU8(cap) = {cap}
    BY <1>2 DEF FromU8
  <2>3. Check(token, cap) <=> cap \in caps
    BY <1>6 DEF Check
  <2>4. CheckAll(token, FromU8(cap)) <=> cap \in caps
    BY <1>6, <2>2 DEF CheckAll
  <2>5. ~CheckAny([token EXCEPT !.is_revoked = TRUE], {cap})
    BY <1>7 DEF CheckAny
  <2>6. HasCapability(bitmap, cap) \in BOOLEAN /\ Check(token, cap) \in BOOLEAN
        /\ CheckAll(token, FromU8(cap)) \in BOOLEAN
    BY DEF HasCapability, TestBit, Check, CheckAll
  <2> QED
    BY <2>1, <2>3, <2>4, <2>5, <2>6
<1>10. CheckAll(token, caps) /\ ~CheckAny(token, KernelCapabilities \ caps)
  BY <1>6 DEF CheckAll, CheckAny
<1>11. IsEmpty(CapabilitiesToBitmap({}))
  BY <1>8 DEF IsEmpty
<1>12. CountOnes(CapabilitiesToBitmap(caps)) = Cardinality(caps)
  BY <1>4 DEF CountOnes
<1>13. BitmapToCapabilities(CapabilitiesToBitmap(caps)) = caps
  BY <1>4, <1>5
<1> QED
  BY <1>3, <1>9, <1>10, <1>11, <1>12, <1>13 DEF BridgeExact, caps, token

LEMMA MasksHold ==
  MaskInv => MasksExact
<1> SUFFICES ASSUME MaskInv PROVE MasksExact
  OBVIOUS
<1>1. \A bit \in MaskBits \cup FlagBits : bit \in Nat
  BY RightsAssumption DEF FlagBits
<1>2. ASSUME NEW mk \in DOMAIN Words, NEW bit \in Nat
      PROVE  IsSet(masks[mk], bit) <=> bit \in marked[mk] /\ bit < WordSize * Words[mk]
  <2>1. Words[mk] \in Nat /\ DOMAIN masks[mk] = 0 .. Words[mk] - 1
    BY WordsOf DEF MaskInv
  <2>2. /\ bit \div WordSize \in Nat /\ bit % WordSize \in 0 .. WordSize - 1
        /\ bit = WordSize * (bit \div WordSize) + (bit % WordSize)
    BY WordAndPlace
  <2>3. bit \div WordSize \in 0 .. Words[mk] - 1 <=> bit < WordSize * Words[mk]
    BY <2>1, <2>2 DEF WordSize
  <2>4. bit \div WordSize \in 0 .. Words[mk] - 1 =>
          (bit % WordSize \in masks[mk][bit \div WordSize] <=> bit \in marked[mk])
    BY <2>2 DEF MaskInv, WordsHold
  <2> QED
    BY <2>1, <2>3, <2>4 DEF IsSet
<1>3. ASSUME NEW bit \in MaskBits
      PROVE  ContainsMask(masks["events"], MaskOf("events", marked["events"] \cup {bit})) <=>
               bit \in marked["events"] \/ bit >= WordSize * Words["events"]
  <2> DEFINE all == marked["events"] \cup {bit}
             n == Words["events"]
             mask == masks["events"]
             other == MaskOf("events", all)
  <2>1. "events" \in DOMAIN Words
    BY DEF Words
  <2>2. n \in Nat /\ DOMAIN mask = 0 .. n - 1 /\ marked["events"] \subseteq Nat /\ bit \in Nat
    BY <1>1, <2>1, WordsOf DEF MaskInv
  <2>3. \A i \in 0 .. n - 1 : other[i] = {b % WordSize : b \in {c \in all : c \div WordSize = i}}
    BY DEF MaskOf, NoBits
  <2>4. \A b \in Nat : b < WordSize * n => b \div WordSize \in 0 .. n - 1
    BY <2>2 DEF WordSize
  <2>5. \A b \in Nat : b \div WordSize \in 0 .. n - 1 => b < WordSize * n
    BY <2>2 DEF WordSize
  <2>6. \A b \in Nat : b \div WordSize \in 0 .. n - 1 =>
          (b % WordSize \in mask[b \div WordSize] <=> b \in marked["events"])
    <3> TAKE b \in Nat
    <3>1. /\ b \div WordSize \in Nat /\ b % WordSize \in 0 .. WordSize - 1
          /\ b = WordSize * (b \div WordSize) + (b % WordSize)
      BY WordAndPlace
    <3> QED
      BY <2>1, <3>1 DEF MaskInv, WordsHold
  <2> HIDE DEF mask, n, other
  <2>7. CASE bit \in marked["events"] \/ bit >= WordSize * n
    <3>1. ASSUME NEW i \in DOMAIN mask, NEW place \in other[i]
          PROVE  place \in mask[i]
      <4>1. PICK b \in all : place = b % WordSize /\ b \div WordSize = i
        BY <2>2, <2>3, <3>1
      <4>2. b \in marked["events"]
        BY <2>2, <2>5, <2>7, <3>1, <4>1 DEF WordSize
      <4> QED
        BY <2>2, <2>6, <3>1, <4>1, <4>2
    <3> QED
      BY <2>7, <3>1 DEF ContainsMask, mask, n, other
  <2>8. CASE bit \notin marked["events"] /\ bit < WordSize * n
    <3>1. bit \div WordSize \in DOMAIN mask /\ bit % WordSize \in other[bit \div WordSize]
      BY <2>2, <2>3, <2>4, <2>8
    <3>2. bit % WordSize \notin mask[bit \div WordSize]
      BY <2>2, <2>6, <2>8, <3>1
    <3>3. ~ContainsMask(mask, other)
      BY <3>1, <3>2 DEF ContainsMask
    <3>4. ~(bit >= WordSize * n)
      BY <2>2, <2>8 DEF WordSize
    <3> QED
      BY <2>8, <3>3, <3>4 DEF mask, n, other
  <2> QED
    BY <2>2, <2>7, <2>8 DEF WordSize
<1> QED
  BY <1>1, <1>2, <1>3 DEF MasksExact

(* For any resources, tokens and capabilities: an address token gives      *)
(* access only for a right it was given since the last revocation of its   *)
(* type (check_access), and bitmaps and masks say what was set in them     *)
(* (AddressTokenManager, CapabilityBridge, EventMask).                     *)
THEOREM AccessOnlyByRights == RightsSpec => []RightsExact
<1>1. RightsInv => RightsExact
  BY AccessHolds, BridgeHolds, MasksHold DEF RightsInv, RightsExact
<1> QED
  BY <1>1, RightsInitInv, RightsNextInv, PTL DEF RightsSpec

=============================================================================
