SPECIFICATION Spec
CONSTANTS
    t1 = t1
    t2 = t2
    d = d
    s = s
    x = x
    y = y
    None = None
    User = User
    Threads = {t1, t2}
    DirSeq <- DeepDirs
    FileSeq <- DeepFiles
    Parent <- DeepParent
    Chunks <- DeepChunks
    Cached = {y}
    ReadOnly = {s}
    MaxRename = 1
PROPERTY CleanupSparesOthers
CHECK_DEADLOCK FALSE
