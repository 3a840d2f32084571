SPECIFICATION Spec
SYMMETRY Symmetry
CONSTANTS
    None = None
    Texts = {hello, bye}
    MinSpeech = 1
    GuardedSpeech = 2
    SilenceEnds = 1
    LongestTurn = 3
    PreRoll = 1
    EchoTail = 1
    MaxTurns = 2
    MaxPieces = 2
    QueueRoom = 1
    CodexReplies = 3
    CodexDeltas = 1
    CodexSpeeches = 2
    MaxReplies = 3
    MaxAudio = 2
    RtReplies = 3
    RtPieces = 1
    RtTexts = 2
    RtSpeeches = 1
    RtAhead = 3
    RtRoom = 2
INVARIANTS
    OneVoiceEach
    SaidOnce
    AnswersWhatWasSaid
    RepliesAreHeard

CHECK_DEADLOCK FALSE
