SPECIFICATION AuditSpec
CONSTANTS
  Auditors = {t1}
  max_records = 2
  AuditLock = TRUE
  MaxRecords = 4
INVARIANTS ChainVerifies
CHECK_DEADLOCK FALSE
