SPECIFICATION Spec
CONSTANTS
    Uploaders = {1, 2}
    front = front
    back = back
    Images = {front, back}
    Files <- MCFiles
    Threads = 1
    NoFile = NoFile
    MaxDialogs = 2
    MaxSpu = 2
    MaxSaves = 1
    OldFiles = {old}
    NoUrl = NoUrl
CHECK_DEADLOCK FALSE
INVARIANTS
    TypeOK
    PoolIsOnTheWay
    PathOfOwnImage
PROPERTIES
    SavedAsEdited
    UploadsInTurn
    UploadEnds
