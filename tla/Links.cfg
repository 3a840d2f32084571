\* Two streams of the worker, two websockets and turns of Bailian, three
\* workers of the renderer, three transcripts, two uploads at a time, two
\* pipelines, two turns kept of three and two voices, for TLC.
SPECIFICATION Spec
CONSTANTS
    Nobody = Nobody
    Streams = {s1, s2}
    Voices = {shipped}
    Shipped = {shipped}
    TextRoom = 1
    AudioRoom = 1
    MaxPieces = 2
    MaxBoots = 2
    MaxSockets = 2
    MaxTurns = 2
    AudioSize = 1
    MaxUtterances = 3
    Replies = {r1, r2}
    Users = {u1, u2}
    MaxNotices = 2
    Pool = {w1, w2, w3}
    MostFrames = 2
    MostAttempts = 3
    Sayings = {m1, m2, m3}
    WaitRoom = 2
    SeenRoom = 2
    MostHeard = 6
    Uploads = {u1, u2}
    Releases = {r3}
    MaxUploads = 2
    Adapters = {a1, a2}
    Qualities = {high, ultra}
    Sizes = {hd, fhd}
    Names = {n1, n2, n3}
    MaxKept = 2
    MaxSessions = 2
    MaxPlayed = 2
    VoiceIds = {v1, v2}
    PageSize = 1
    MaxListed = 2
INVARIANTS
    ModelsAreKept
    SocketsAreHeld
    ReaderIsTold
    LinkEndsCleanly
    FramesOnceInOrder
    RecordsAreKept
PROPERTIES
    ReservationReturns
CHECK_DEADLOCK FALSE
