SPECIFICATION Spec
CONSTANTS
    Values <- Heap
    Type <- HeapType
    Fields <- HeapFields
    Arrays = {"array"}
    MetaString <- HeapMetaString
    MetaTable <- HeapMetaTable
    Lists <- OfLoop
    Frames = 1
    Depths = {0, 1, 2}
    MaxResults = 2
    MaxFailed = 8
    MaxCalls = 10
CHECK_DEADLOCK FALSE
INVARIANTS
    TypeOK
    Balanced
    PopsItsOwn
    HighBounded
PROPERTIES
    Answers
