CONSTANTS
    Threads = {t1, t2}
    Runners = {r1}
    fa = fa
    fb = fb
    NoFile = NoFile
    NoThread = NoThread
    Files <- MCOneFile
    DefaultFile = fa
    FileSize <- MCOneFileSize
    OnDisk0 <- MCNoFiles
    Configs <- MCConfigsOne
    Ops <- MCOpsNoDestroy
    MaxCalls = 2
SPECIFICATION Spec
INVARIANTS
    ReadersUseLiveData
