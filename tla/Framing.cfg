SPECIFICATION ConnSpec
CONSTANTS
    LineSizes <- AnySizes
    Buffer = 4
    MaxLines = 4
INVARIANTS FramingTypeOK HandledInOrder LostIsReported LockStepIsExact ClientReadsExactly
PROPERTIES EveryLineSettled
