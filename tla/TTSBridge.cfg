\* The speech bridge with two responses and a queue of one piece.
CONSTANTS
    Capacity = 1
    MaxResponses = 2
    MaxPieces = 2

SPECIFICATION Spec

INVARIANTS
    SpeechIsWhole
    EndsInSilence

PROPERTIES
    CallsReturn
