SPECIFICATION FairFileSpec
CONSTANTS
    Writers = {w1}
    Seekers = {s1}
    Mappers = {m1}
    Flusher = Flusher
    Nobody = Nobody
    Mmaps = {"rw"}
    Grabs = {TRUE}
    TruncateTo = {3}
    PAGE_SIZE = 2
    MaxSize = 3
    MaxSeek = 2
    MaxWrites = 2
INVARIANTS
    UptodatePagesCurrent
    SizesAgree
    ReadsInSequence
PROPERTIES
    WritesEnd
