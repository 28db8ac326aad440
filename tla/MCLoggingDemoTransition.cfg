\* main as written: transition at block 10, Author on blocks 8..12.
CONSTANTS TransitionBlock = 10  FirstBlock = 8  LastBlock = 12
SPECIFICATION Spec
INVARIANT DemoLogsTransition
\* main returns.
CHECK_DEADLOCK FALSE
