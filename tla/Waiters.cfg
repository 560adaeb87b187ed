CONSTANTS
    Request = {r1, r2}
    Keys = {k}
    Others = {o}
    MaxChanges = 2
    MaxWait = 1
SPECIFICATION WaitLiveSpec
CHECK_DEADLOCK FALSE
INVARIANTS NoMissedWakeup
PROPERTIES GivesUpEmptyHanded EveryWaitEnds
