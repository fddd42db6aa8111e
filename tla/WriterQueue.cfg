SPECIFICATION FairWriterSpec
CONSTANTS
    Tasks = {t1, t2}
    NoTask = NoTask
    QueueCap = 1
INVARIANTS NativeCallsSafe AnswersHonest
PROPERTIES DoomedNeverRuns AllReturn
CHECK_DEADLOCK FALSE
