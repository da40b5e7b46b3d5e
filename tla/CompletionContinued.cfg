SPECIFICATION CompletionSpec
CONSTANTS
    Runners = {n1, n2}
    MaxRounds = 2
    MaxTasks = 4
    MaxResumes = 1
INVARIANT CompletionReviewed
CHECK_DEADLOCK FALSE
