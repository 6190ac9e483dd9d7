-------------------------------- MODULE Rights --------------------------------
(***************************************************************************)
(* The kernel's other records of rights: the address tokens of             *)
(* kernel/src/security/access_token.rs, the bitmaps of capabilities of     *)
(* capability_bridge.rs, and the checks on a capability token of           *)
(* kernel/src/capability/permission.rs, which CapabilityToken manages; and *)
(* the masks of capabilities, events and flags in the records that system  *)
(* calls pass (kernel/src/syscall/abi.rs, libagent), word by word.         *)
(* Every call is one step: the tables are behind locks, a bitmap belongs   *)
(* to its caller.                                                          *)
(***************************************************************************)
EXTENDS Integers, FiniteSetsExt, Sequences

CONSTANTS
  ResourceTypes,
  ResourceIds,
  RightsUsed,     \* the rights in the entries used
  Caps,           \* the kernel capabilities in use, by their bits
  Bits,           \* the bits that callers name
  MaskBits,       \* the bits that callers set in masks
  MaxAddressTokens \* bound: tokens ever created

KernelCapabilities == 0 .. 20
BitmapSize == 128

ASSUME RightsAssumption ==
  /\ Caps \subseteq KernelCapabilities
  /\ Bits \subseteq Nat /\ MaskBits \subseteq Nat
  /\ RightsUsed \subseteq SUBSET {1, 2, 4}
  /\ MaxAddressTokens \in Nat

VARIABLES
  address_tokens, \* per id: the permissions and whether it is active
  next_token,
  bitmap,         \* the bits set
  given,          \* history: the permissions given to a token since the last
                  \* revocation of their type
  granted,        \* history: the capabilities granted and not revoked
  masks,          \* caps (CapBitmap), events (EventMask) and flags (MsgFlags):
                  \* per word the bits set
  marked          \* history: the bits set and not cleared since

tokenrights == <<address_tokens, next_token, given>>
bitmapvars == <<bitmap, granted>>
maskvars == <<masks, marked>>
rightsvars == <<tokenrights, bitmapvars, maskvars>>

-----------------------------------------------------------------------------
(* Address tokens *)

(* Rights are sets of bits: Read, Write, Execute *)
AccessRights == {{}, {1}, {2}, {4}, {1, 2, 4}}

(* One common bit is enough: Read contains All *)
ContainsRight(right, other) == right \cap other # {}

PermissionEntries == [resource_type : ResourceTypes, access_right : RightsUsed, resource_id : ResourceIds]

TokenInit ==
  /\ address_tokens = <<>> /\ next_token = 1
  /\ given = [id \in 1 .. MaxAddressTokens |-> {}]

PutToken(table, key, value) == [k \in DOMAIN table \cup {key} |-> IF k = key THEN value ELSE table[k]]

(* The caller's list may hold several entries for one resource; it is kept *)
(* as a set, since no operation looks at order or repetition.              *)
CreateToken(permissions) ==
  /\ next_token <= MaxAddressTokens
  /\ address_tokens' = PutToken(address_tokens, next_token, [permissions |-> permissions, is_active |-> TRUE])
  /\ next_token' = next_token + 1
  /\ given' = [given EXCEPT ![next_token] = permissions]

DestroyToken(id) ==
  /\ id \in DOMAIN address_tokens
  /\ address_tokens' = [k \in DOMAIN address_tokens \ {id} |-> address_tokens[k]]
  /\ given' = [given EXCEPT ![id] = {}]
  /\ UNCHANGED next_token

(* The resource does not count, only its type *)
CheckAccess(id, resource, right) ==
  /\ id \in DOMAIN address_tokens /\ address_tokens[id].is_active
  /\ \E p \in address_tokens[id].permissions : p.resource_type = resource /\ ContainsRight(p.access_right, right)

SameResource(p, q) == p.resource_type = q.resource_type /\ p.resource_id = q.resource_id

(* A second right for a resource is not added, and true is returned *)
GrantPermission(id, entry) ==
  /\ id \in DOMAIN address_tokens
  /\ address_tokens' =
       IF \E p \in address_tokens[id].permissions : SameResource(p, entry) THEN address_tokens
       ELSE [address_tokens EXCEPT ![id].permissions = @ \cup {entry}]
  /\ given' = [given EXCEPT ![id] = @ \cup {entry}]
  /\ UNCHANGED next_token

OfType(permissions, resource) == {p \in permissions : p.resource_type = resource}

(* Mutated form of RevokePermission: one entry of the type is taken out. *)
RevokeOnePermission(id, resource) ==
  /\ id \in DOMAIN address_tokens
  /\ address_tokens' =
       [address_tokens EXCEPT ![id].permissions =
          IF OfType(@, resource) = {} THEN @ ELSE @ \ {CHOOSE p \in OfType(@, resource) : TRUE}]
  /\ given' = [given EXCEPT ![id] = @ \ OfType(@, resource)]
  /\ UNCHANGED next_token

RevokePermission(id, resource) ==
  /\ id \in DOMAIN address_tokens
  /\ address_tokens' = [address_tokens EXCEPT ![id].permissions = @ \ OfType(@, resource)]
  /\ given' = [given EXCEPT ![id] = @ \ OfType(@, resource)]
  /\ UNCHANGED next_token

-----------------------------------------------------------------------------
(* Bitmaps.  Bits beyond the bitmap are ignored. *)

SetBit(bit) == IF bit < BitmapSize THEN bitmap \cup {bit} ELSE bitmap
ClearBit(bit) == IF bit < BitmapSize THEN bitmap \ {bit} ELSE bitmap
TestBit(bits, bit) == bit < BitmapSize /\ bit \in bits
CountOnes(bits) == Cardinality(bits)
IsEmpty(bits) == bits = {}

FromU8(val) == {c \in KernelCapabilities : c = val}
HasCapability(bits, cap) == TestBit(bits, cap)

BitmapInit == bitmap = {} /\ granted = {}

GrantCapability(cap) == bitmap' = SetBit(cap) /\ granted' = granted \cup {cap}
RevokeCapability(cap) == bitmap' = ClearBit(cap) /\ granted' = granted \ {cap}

(* Bits that are no capability *)
SetRaw(bit) == bit \notin KernelCapabilities /\ bitmap' = SetBit(bit) /\ UNCHANGED granted
ClearRaw(bit) == bit \notin KernelCapabilities /\ bitmap' = ClearBit(bit) /\ UNCHANGED granted

CapabilitiesToBitmap(caps) == {cap \in caps : cap < BitmapSize}
BitmapToCapabilities(bits) == {cap \in KernelCapabilities : TestBit(bits, cap)}

-----------------------------------------------------------------------------
(* Masks of 64-bit words.  A caller may name any bit; one behind the last  *)
(* word is ignored.  Flags are put together from masks instead.            *)

WordSize == 64
Words == [caps |-> 2, events |-> 4, flags |-> 1]
FlagBits == 0 .. 5

NoBits(kind) == [i \in 0 .. Words[kind] - 1 |-> {}]

MaskInit ==
  /\ masks = [kind \in DOMAIN Words |-> NoBits(kind)]
  /\ marked = [kind \in DOMAIN Words |-> {}]

WithBit(mask, bit) ==
  [i \in DOMAIN mask |-> IF i = bit \div WordSize THEN mask[i] \cup {bit % WordSize} ELSE mask[i]]
WithoutBit(mask, bit) ==
  [i \in DOMAIN mask |-> IF i = bit \div WordSize THEN mask[i] \ {bit % WordSize} ELSE mask[i]]
IsSet(mask, bit) ==
  bit \div WordSize \in DOMAIN mask /\ bit % WordSize \in mask[bit \div WordSize]

(* contains and union, word by word *)
ContainsMask(mask, other) == \A i \in DOMAIN mask : other[i] \subseteq mask[i]
UnionMask(mask, other) == [i \in DOMAIN mask |-> mask[i] \cup other[i]]

MaskOf(kind, bits) ==
  [i \in DOMAIN NoBits(kind) |-> {bit % WordSize : bit \in {b \in bits : b \div WordSize = i}}]

SetInMask(kind, bit) ==
  /\ masks' = [masks EXCEPT ![kind] = WithBit(@, bit)]
  /\ marked' = [marked EXCEPT ![kind] = @ \cup {bit}]

ClearInMask(kind, bit) ==
  /\ masks' = [masks EXCEPT ![kind] = WithoutBit(@, bit)]
  /\ marked' = [marked EXCEPT ![kind] = @ \ {bit}]

AddFlags(bits) ==
  /\ masks' = [masks EXCEPT !.flags = UnionMask(@, MaskOf("flags", bits))]
  /\ marked' = [marked EXCEPT !.flags = @ \cup bits]

MaskNext ==
  \/ \E kind \in {"caps", "events"}, bit \in MaskBits :
       SetInMask(kind, bit) \/ ClearInMask(kind, bit)
  \/ \E bits \in SUBSET (FlagBits \cap {0, 1, 5}) : AddFlags(bits)

-----------------------------------------------------------------------------
(* Checks on a capability token: a set of names, and whether it is revoked *)

Check(token, name) == ~token.is_revoked /\ name \in token.capabilities
CheckAll(token, names) == ~token.is_revoked /\ names \subseteq token.capabilities
CheckAny(token, names) == ~token.is_revoked /\ names \cap token.capabilities # {}

TokenNext ==
  \/ \E permissions \in SUBSET PermissionEntries : CreateToken(permissions)
  \/ \E id \in 1 .. MaxAddressTokens :
       \/ DestroyToken(id)
       \/ \E entry \in PermissionEntries : GrantPermission(id, entry)
       \/ \E resource \in ResourceTypes : RevokePermission(id, resource)

BitmapNext ==
  \/ \E cap \in Caps : GrantCapability(cap) \/ RevokeCapability(cap)
  \/ \E bit \in Bits : SetRaw(bit) \/ ClearRaw(bit)

-----------------------------------------------------------------------------

RightsInit == TokenInit /\ BitmapInit /\ MaskInit

(* They share no state. *)
RightsNext ==
  \/ TokenNext /\ UNCHANGED <<bitmapvars, maskvars>>
  \/ BitmapNext /\ UNCHANGED <<tokenrights, maskvars>>
  \/ MaskNext /\ UNCHANGED <<tokenrights, bitmapvars>>

RightsSpec == RightsInit /\ [][RightsNext]_rightsvars

-----------------------------------------------------------------------------

TokenIds == 1 .. MaxAddressTokens

(* A token has only permissions it was given, and one at least for each    *)
(* resource it was given one for.                                          *)
Covers(permissions, rights) ==
  /\ permissions \subseteq rights
  /\ \A p \in rights : \E q \in permissions : SameResource(q, p)

TokensCovered ==
  \A id \in TokenIds : IF id \in DOMAIN address_tokens THEN Covers(address_tokens[id].permissions, given[id])
                       ELSE given[id] = {}

AddressInv ==
  /\ next_token \in 1 .. MaxAddressTokens + 1
  /\ DOMAIN address_tokens \subseteq 1 .. next_token - 1
  /\ \A id \in DOMAIN address_tokens :
       address_tokens[id] \in [permissions : SUBSET PermissionEntries, is_active : {TRUE}]
  /\ given \in [TokenIds -> SUBSET PermissionEntries]
  /\ TokensCovered

BitmapInv ==
  bitmap \subseteq 0 .. BitmapSize - 1 /\ granted \subseteq Caps /\ bitmap \cap KernelCapabilities = granted

(* The number of a bit is that of its word and its place in the word.      *)
WordsHold ==
  \A kind \in DOMAIN Words : \A i \in 0 .. Words[kind] - 1, place \in 0 .. WordSize - 1 :
    place \in masks[kind][i] <=> WordSize * i + place \in marked[kind]

MaskInv ==
  /\ DOMAIN masks = DOMAIN Words /\ DOMAIN marked = DOMAIN Words
  /\ \A kind \in DOMAIN Words :
       masks[kind] \in [0 .. Words[kind] - 1 -> SUBSET (0 .. WordSize - 1)] /\ marked[kind] \subseteq Nat
  /\ WordsHold

(* The inductive invariant of the records of rights                        *)
RightsInv == AddressInv /\ BitmapInv /\ MaskInv

(* A token gives access to a type of resource only for a right that was    *)
(* given to it after the last revocation of the type, however many entries *)
(* it was created with or granted; a resource that a right was given for   *)
(* has an entry, also if a later grant was dropped; destroyed tokens give  *)
(* no access.                                                              *)
AccessWasGiven ==
  \A id \in TokenIds, resource \in ResourceTypes :
    LET rights == {p.access_right : p \in OfType(given[id], resource)}
    IN /\ \A right \in AccessRights :
            CheckAccess(id, resource, right) => right # {} /\ \E r \in rights : ContainsRight(r, right)
       /\ \A p \in OfType(given[id], resource) :
            /\ id \in DOMAIN address_tokens
            /\ \E q \in address_tokens[id].permissions : SameResource(q, p)

(* The bitmap and the list of capabilities say the same: just what was     *)
(* granted and not revoked, whatever other bits are set; a check of all    *)
(* capabilities of a token passes, of any other name fails, and a revoked  *)
(* token passes none.                                                      *)
BridgeExact ==
  LET caps == BitmapToCapabilities(bitmap)
      token == [capabilities |-> caps, is_revoked |-> FALSE]
  IN /\ caps = granted
     /\ BitmapToCapabilities(CapabilitiesToBitmap(caps)) = caps
     /\ CountOnes(CapabilitiesToBitmap(caps)) = Cardinality(caps)
     /\ \A cap \in Caps :
          /\ HasCapability(bitmap, cap) = Check(token, cap)
          /\ Check(token, cap) = CheckAll(token, FromU8(cap))
          /\ ~CheckAny([token EXCEPT !.is_revoked = TRUE], {cap})
     /\ CheckAll(token, caps) /\ ~CheckAny(token, KernelCapabilities \ caps)
     /\ IsEmpty(CapabilitiesToBitmap({}))

(* A mask has exactly the bits that were set in it and not cleared, no     *)
(* matter in which word and what lies beyond the last, and contains        *)
(* another mask exactly when it has all bits of it (set, clear, is_set,    *)
(* contains and union).                                                    *)
MasksExact ==
  /\ \A kind \in DOMAIN Words, bit \in MaskBits \cup FlagBits :
       IsSet(masks[kind], bit) <=> bit \in marked[kind] /\ bit < WordSize * Words[kind]
  /\ \A bit \in MaskBits :
       ContainsMask(masks.events, MaskOf("events", marked.events \cup {bit})) <=>
         bit \in marked.events \/ bit >= WordSize * Words.events

(* Access only by a right that was given and not revoked, and bit sets and *)
(* masks that say what was set in them.                                    *)
RightsExact == AccessWasGiven /\ BridgeExact /\ MasksExact

=============================================================================
