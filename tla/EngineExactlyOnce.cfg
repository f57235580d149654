\* The setting of the test InterruptResumeWorkflowIsThreadSafe: nothing was
\* saved before, nothing throws and every saved iteration is accepted.
SPECIFICATION Spec
CONSTANTS
    Last = 3
    SavedAtStart <- MCNothingSaved
    Rejected = {}
    MayThrow = FALSE
    MaxLaunches = 2
PROPERTIES
    ExecutedOnce
