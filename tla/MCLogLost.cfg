CONSTANTS
    Writers = {w1}
    LogThread = LogThread
    Main = Main
    Others = {}
    LoggerMax = 1
    Levels <- OneLevel
    Alarm = 0
    LogsPerWriter = 1
SPECIFICATION Spec
CHECK_DEADLOCK FALSE
INVARIANT NoLogLost
