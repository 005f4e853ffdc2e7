SPECIFICATION Spec
CONSTANTS
    Documents <- MCDocuments
    NodesIn <- MCNodesIn
CHECK_DEADLOCK FALSE
INVARIANTS TypeOK DescriptionFaithful LoopsMissNothing FailsOnlyOnDefects
