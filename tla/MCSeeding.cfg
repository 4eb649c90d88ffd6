CONSTANTS
    Bytes = {x, y, nl}
    NewLine = nl
    ChunkSize = 2
    MaxSize = 3
    MaxUploads = 2
    MaxBody = 4
SYMMETRY Symmetry
SPECIFICATION Spec
INVARIANTS
    TypeOK
    ManifestIsUpload
    LastIsServed
    RefusedHasReason
CHECK_DEADLOCK FALSE
