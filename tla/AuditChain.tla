----------------------------- MODULE AuditChain ------------------------------
(***************************************************************************)
(* The audit log, kernel/src/security/audit_chain.rs: a bounded list of    *)
(* records, each with the hash of the one before.  append takes the id,    *)
(* reads current_hash and locks the list in this order; the global         *)
(* AUDIT_CHAIN puts one more lock around it: AuditLock says whether the    *)
(* callers use it.  Records differ in their id, which goes into the hash   *)
(* together with prev_hash: the id of a record stands for its hash.        *)
(***************************************************************************)
EXTENDS Naturals, Sequences

CONSTANTS
  Auditors,     \* the threads that append
  max_records,
  AuditLock,
  MaxRecords    \* bound: records ever appended

(* What the code guarantees of the constants; a log of 0 records panics *)
ASSUME AuditAssumption ==
  max_records \in Nat \ {0} /\ AuditLock \in BOOLEAN /\ MaxRecords \in Nat

VARIABLES
  records, current_hash, next_id,
  audit_call  \* the locals of each thread's append, AuditIdle between calls

auditvars == <<records, current_hash, next_id, audit_call>>

AuditIdle == [op |-> "idle"]
NoHash == 0
Hash(record) == record.record_id
Record == [record_id : 1 .. MaxRecords, prev_hash : 0 .. MaxRecords]
AuditCalls == {AuditIdle} \cup [op : {"load"}, record_id : 1 .. MaxRecords]
                          \cup [op : {"push"}, record : Record]

AuditInit ==
  /\ records = <<>>
  /\ current_hash = NoHash
  /\ next_id = 1
  /\ audit_call = [t \in Auditors |-> AuditIdle]

AppendTakesId(t) ==
  /\ audit_call[t] = AuditIdle
  /\ AuditLock => \A u \in Auditors : audit_call[u] = AuditIdle
  /\ next_id <= MaxRecords
  /\ next_id' = next_id + 1
  /\ audit_call' = [audit_call EXCEPT ![t] = [op |-> "load", record_id |-> next_id]]
  /\ UNCHANGED <<records, current_hash>>

AppendLoadsHash(t) ==
  /\ audit_call[t].op = "load"
  /\ audit_call' = [audit_call EXCEPT ![t] =
                      [op |-> "push", record |-> [record_id |-> audit_call[t].record_id,
                                                  prev_hash |-> current_hash]]]
  /\ UNCHANGED <<records, current_hash, next_id>>

IsFull == Len(records) >= max_records

(* Mutated form of Evicted: the newest record makes room. *)
EvictedNewest == IF IsFull THEN SubSeq(records, 1, Len(records) - 1) ELSE records

(* The oldest record makes room *)
Evicted == IF IsFull THEN Tail(records) ELSE records

AppendPushes(t) ==
  /\ audit_call[t].op = "push"
  /\ records' = Append(Evicted, audit_call[t].record)
  /\ current_hash' = Hash(audit_call[t].record)
  /\ audit_call' = [audit_call EXCEPT ![t] = AuditIdle]
  /\ UNCHANGED next_id

AuditNext ==
  \/ \E t \in Auditors : AppendTakesId(t)
  \/ \E t \in Auditors : AppendLoadsHash(t)
  \/ \E t \in Auditors : AppendPushes(t)

AuditSpec == AuditInit /\ [][AuditNext]_auditvars

-----------------------------------------------------------------------------

AuditTypeOK ==
  /\ records \in Seq(Record)
  /\ Len(records) <= max_records
  /\ current_hash \in 0 .. MaxRecords
  /\ next_id \in 1 .. MaxRecords + 1
  /\ audit_call \in [Auditors -> AuditCalls]

LinkedFrom(rs) == \A i \in 2 .. Len(rs) : rs[i].prev_hash = Hash(rs[i - 1])

(* verify_chain *)
VerifyChain ==
  /\ records # <<>> => records[1].prev_hash = NoHash
  /\ LinkedFrom(records)

(* What append wrote verify_chain accepts. *)
ChainVerifies == VerifyChain

AllIdle == \A t \in Auditors : audit_call[t] = AuditIdle

(* Behind the lock of AUDIT_CHAIN each record that is kept has the hash of *)
(* the one before, and the next one to come will have the hash of the      *)
(* last, also when older ones were evicted; the log has the latest records *)
(* without a gap, as many as there were or as fit, and between calls       *)
(* every id that was taken is that of a record.                            *)
LogLinked ==
  AuditLock =>
    /\ LinkedFrom(records)
    /\ current_hash = IF records = <<>> THEN NoHash ELSE Hash(records[Len(records)])
    /\ \A i \in DOMAIN records : records[i].record_id = current_hash - Len(records) + i
    /\ Len(records) = IF current_hash < max_records THEN current_hash ELSE max_records
    /\ AllIdle => current_hash = next_id - 1

(* The inductive invariant: behind the lock at most one append is under    *)
(* way, with the last id and the hash of the last record.                  *)
AuditInv ==
  /\ AuditTypeOK
  /\ LogLinked
  /\ AuditLock =>
       \A t \in Auditors : audit_call[t] # AuditIdle =>
         /\ \A u \in Auditors \ {t} : audit_call[u] = AuditIdle
         /\ current_hash = next_id - 2
         /\ audit_call[t].op = "load" => audit_call[t].record_id = next_id - 1
         /\ audit_call[t].op = "push" =>
              audit_call[t].record = [record_id |-> next_id - 1, prev_hash |-> current_hash]

=============================================================================
