CONSTANT Task <- Two
CONSTANT Runs = {r1}
CONSTANT Edits = {e1}
CONSTANT Unexpected = {2}
CONSTANT MaxTime = 2
CONSTANT MaxFaults = 1
SPECIFICATION Spec
INVARIANT NoParallelRun
INVARIANT EditsSurvive
INVARIANT RunningIsExact
PROPERTY OncePerSlot
PROPERTY NoTaskStandsStill
