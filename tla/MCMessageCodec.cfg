CONSTANTS
    MaxPointer = 60
    MaxPointers = 3
    MaxLength = 29
    MaxCount = 2
    Headers <- MCHeaders
    Buffers <- MCBuffers
    QuestionItems <- MCQuestionItems
    RecordItems <- MCRecordItems
    MaxItems = 2
    Cuts = {0, 1}
SPECIFICATION Spec
CHECK_DEADLOCK FALSE
INVARIANT ReadsWhatWasBuilt
INVARIANT CutIsNoticed
INVARIANT SkipsAsItReads
INVARIANT SuffixesStandInMessage
INVARIANT RepackingKeepsIt
