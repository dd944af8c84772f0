\* Three attempts, so that a stop and a reset lie between two of them, and a third
\* follows a failed one.
CONSTANT MaxAttempts = 3
SPECIFICATION FairSpec
INVARIANTS OneAttempt StopIsClean AnsweredAtMostOnce
PROPERTIES StopCompletes AnsweredUnlessStopped
CHECK_DEADLOCK TRUE
