SPECIFICATION PickerSpec
CONSTANTS
    Keys = {r1, r2, s1}
    RowKeys = {r1, r2}
    SampleKeys = {s1}
    NoFamily = NoFamily
    maxStuckChecks = 2
    Threads = {t1, t2, t3}
    NoThread = NoThread
    NoPicture = NoPicture
    FontTables <- MCFontTables
INVARIANTS
    StuckChecksExact
    StartedAtMostOnce
    SafePreviewsShow
    
PROPERTIES
    VerdictsAreFinal
    NoRunningThreadDeleted
    ReopenedRowsGetTheirVerdict
CHECK_DEADLOCK FALSE
