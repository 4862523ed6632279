\* Every data type for one parameter, a number for the other, in every role;
\* MaxI64 stands for 2^63 - 1.  No deadlock check: the steps are bounded.
SPECIFICATION Spec
CONSTANTS
    MaxI64 = 127
    JsonOf <- ToJson
    ValueOf <- FromJson
    NameSets <- SomeNames
    Fold <- FoldName
    Menu <- TypeMenu
    Absent = Absent
    MaxSteps = 4
INVARIANTS
    VerdictByNames
    InitialReadsAreFresh
    ConfigurationTaken
    HeldIsCached
    ShownCanBeWritten
CHECK_DEADLOCK FALSE
