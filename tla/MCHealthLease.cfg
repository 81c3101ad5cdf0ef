SPECIFICATION Spec
CONSTANTS
    Interval = 3
    SyncTimeout = 0
    defaultSyncTimeout = 2
    Overrun = 2
    MaxJobs = 2
    QueueCapacity = 2
INVARIANT NoFalseAlarm
PROPERTY HangIsNoticed
