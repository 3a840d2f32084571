\* The memory's database under everybody who writes to it.
CONSTANTS
    p1 = p1  p2 = p2  s1 = s1  s2 = s2
    Nothing = Nothing
    Batch <- MCBatch
    Said = {"friend", "boss", "again"}
    Foreign <- MCForeign
    Tokens = {p1, p2}
    MaxPending = 1
    Sessions = {s1, s2}
    MaxRevision = 4  ExportRevision = 1
    None = None

SYMMETRY Symmetry
SPECIFICATION StoreSpec

INVARIANTS
    StoreIsSound
    AskedOnce
    FilesHaveOwners

PROPERTIES
    ImportIsFresh

CHECK_DEADLOCK FALSE
