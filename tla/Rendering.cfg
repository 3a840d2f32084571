\* The rendering worklet with two segments for TLC: chunks of one unit, far
\* shorter than a step, and of three, longer than the present duration,
\* three steps before the shutdown, one discard besides it.
CONSTANTS
    Segments = {s1, s2}
    None = None
    Silence = Silence
    Present = 2
    Future = 3
    ChunkLengths = {1, 3}
    MaxAudio = 4
    MaxSteps = 3
    MaxDiscards = 1

SPECIFICATION RenderingSpec

INVARIANTS
    StepsAreWhole
    SegmentsAreWhole

PROPERTIES
    EventsInWindow
    PlaybackSpec
    ShutdownEndsLoop
