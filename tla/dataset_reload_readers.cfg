CONSTANTS
    Threads = {t1, t2}
    Runners = {r1}
    fa = fa
    fb = fb
    NoFile = NoFile
    NoThread = NoThread
    Files <- MCFiles
    DefaultFile = fa
    FileSize <- MCFileSize
    OnDisk0 <- MCOnDiskA
    Configs <- MCConfigsTwo
    Ops <- MCOpsAll
    MaxCalls = 2
SPECIFICATION Spec
INVARIANT
    ReadersUseLiveData
