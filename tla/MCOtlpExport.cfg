SPECIFICATION ExportSpec
CONSTANTS
    Snapshots <- MCSnapshots
    MAX_EXPORT_POINTS = 64
    MAX_BATCH_POINTS = 18
    MAX_RETRIES = 3
    MAX_BATCHES = 7
INVARIANTS
    CapRespected
    BatchesCarryRequest
    ReportsNoMoreThanAccepted
PROPERTIES
    ExportsEnd
CHECK_DEADLOCK FALSE
