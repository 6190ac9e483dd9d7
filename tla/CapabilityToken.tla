--------------------------- MODULE CapabilityToken ---------------------------
(***************************************************************************)
(* Capability tokens and their delegation, TokenManager in                 *)
(* kernel/src/capability/token.rs.  The manager is reached through the     *)
(* lock of TOKEN_MANAGER, so that each operation is one step.  A token's   *)
(* capabilities, issuer and expiry are stored and never changed: left out. *)
(***************************************************************************)
EXTENDS Integers, FiniteSets, Sequences

CONSTANTS
  Owners,
  MaxDelegates,   \* max_delegates of an issued token, 10 in the code
  MaxTokens       \* bound: tokens ever made

ASSUME TokensAssumption == MaxDelegates \in Nat /\ MaxTokens \in Nat

VARIABLES
  tokens,   \* the table; next_id is Len(tokens) + 1, no entry is removed
  parent    \* history: the token each token was delegated from, 0 if issued

tokenvars == <<tokens, parent>>

Ids == DOMAIN tokens

TokensInit == tokens = <<>> /\ parent = <<>>

NewToken(owner, max) ==
  [owner |-> owner, delegate_count |-> 0, max_delegates |-> max, is_revoked |-> FALSE]

IssueToken(owner) ==
  /\ Len(tokens) < MaxTokens
  /\ parent' = Append(parent, 0)
  /\ tokens' = Append(tokens, NewToken(owner, MaxDelegates))

RevokeToken(id) ==
  /\ tokens' = [tokens EXCEPT ![id].is_revoked = TRUE]
  /\ UNCHANGED parent

RevokeAll(owner) ==
  /\ tokens' = [id \in Ids |-> IF tokens[id].owner = owner
                               THEN [tokens[id] EXCEPT !.is_revoked = TRUE]
                               ELSE tokens[id]]
  /\ UNCHANGED parent

(* Mutated form of MayDelegate: one delegation too many. *)
MayDelegateLate(id) ==
  ~tokens[id].is_revoked /\ tokens[id].delegate_count <= tokens[id].max_delegates

(* InvalidToken, DelegationNotAllowed otherwise; a capability without the  *)
(* flag DELEGATABLE is refused, too                                        *)
MayDelegate(id) ==
  ~tokens[id].is_revoked /\ tokens[id].delegate_count < tokens[id].max_delegates

(* One less than the source's, and never below 0 *)
ChildLimit(id) ==
  IF tokens[id].max_delegates = 0 THEN 0 ELSE tokens[id].max_delegates - 1

Delegate(id, to) ==
  /\ MayDelegate(id)
  /\ Len(tokens) < MaxTokens
  /\ parent' = Append(parent, id)
  /\ tokens' = Append([tokens EXCEPT ![id].delegate_count = @ + 1],
                       NewToken(to, ChildLimit(id)))

TokensNext ==
  \/ \E owner \in Owners : IssueToken(owner)
  \/ \E id \in Ids : RevokeToken(id)
  \/ \E owner \in Owners : RevokeAll(owner)
  \/ \E id \in Ids, to \in Owners : Delegate(id, to)

TokensSpec == TokensInit /\ [][TokensNext]_tokenvars

-----------------------------------------------------------------------------

Token == [owner : Owners, delegate_count : 0 .. MaxDelegates,
          max_delegates : 0 .. MaxDelegates, is_revoked : BOOLEAN]

TokensTypeOK ==
  /\ tokens \in Seq(Token)
  /\ Len(tokens) <= MaxTokens
  /\ parent \in Seq(Nat)
  /\ DOMAIN parent = Ids
  /\ \A id \in Ids : parent[id] \in 0 .. id - 1

Children(id) == {c \in Ids : parent[c] = id}

(* delegate_count is the number of tokens delegated from a token, and      *)
(* never more than its max_delegates.                                      *)
DelegationsCounted ==
  \A id \in Ids :
    /\ tokens[id].delegate_count = Cardinality(Children(id))
    /\ tokens[id].delegate_count <= tokens[id].max_delegates

(* Tokens of which each was delegated from the one before *)
IsChain(chain, n) == \A i \in 1 .. n : parent[chain[i]] = chain[i - 1]

(* No chain of delegations is longer than MaxDelegates. *)
ChainsBounded ==
  \A n \in 1 .. Len(tokens) : \A chain \in [0 .. n -> Ids] :
    IsChain(chain, n) => n <= MaxDelegates

(* Why: the limit shrinks by one with every delegation. *)
LimitsShrink ==
  \A id \in Ids :
    tokens[id].max_delegates =
      IF parent[id] = 0 THEN MaxDelegates ELSE tokens[parent[id]].max_delegates - 1

TokensInv == TokensTypeOK /\ DelegationsCounted /\ LimitsShrink

(* A token that was revoked stays revoked, whatever is issued or delegated *)
(* afterwards.                                                             *)
RevokedForEver ==
  [][\A id \in Ids : tokens[id].is_revoked => tokens'[id].is_revoked]_tokenvars

(* Each token counts its delegations, the limits a token hands down bound  *)
(* both their number and the length of the chains, and a revoked token     *)
(* stays revoked, whatever is issued or delegated later.                   *)
TokensBounded == [](DelegationsCounted /\ ChainsBounded) /\ RevokedForEver

=============================================================================
