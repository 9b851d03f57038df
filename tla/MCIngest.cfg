CONSTANTS
    Docs <- DocSet
    Id <- IdOf
    RowKey <- RowKeyOf
    Hash <- HashOf
    Parent <- ParentOf
    ParentHash <- ParentHashOf
    Defect <- DefectOf
    None = "none"
    Batches <- BatchSet
    Requests = {r1, r2, r3}
SPECIFICATION Spec
SYMMETRY Symmetry
INVARIANTS
    AcceptedAddsUp
    CheckedLinksHold
PROPERTIES
    Contract
CHECK_DEADLOCK FALSE
