SPECIFICATION Spec
CONSTANTS
    LineSizes <- AnySizes
    Buffer = 4
    MaxLines = 2
INVARIANTS EveryLineHandled
