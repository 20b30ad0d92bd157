\* Two loggers and two levels.  The log thread sends up to three messages of
\* its own, of the lower level, among them two to one logger.
SPECIFICATION FairSpec
CONSTANTS
    Writers = {w1}
    LogThread = LogThread
    Main = Main
    Others = {other}
    LoggerMax = 2
    Levels <- TwoLevels
    Alarm = 0
    LogsPerWriter = 1
INVARIANTS
    AcceptedInOrder
    SettledAtRest
PROPERTIES
    StopAnswers
    WrittenInTheEnd
CHECK_DEADLOCK FALSE
