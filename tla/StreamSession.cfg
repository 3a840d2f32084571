\* A stream whose queues hold one event, so that every publisher can find one full.
CONSTANTS
    Subscribers = {"listener", "video", "delayed", "timeout", "stopper"}
    Publishers = {"loop", "main", "video", "lifecycle", "delayed", "absent", "maximum", "stopper"}
    Types = {"frame", "scheduled", "playback", "started", "joined", "left", "shutdown"}
    Events <- SessionEvents
    Capacity = 1
    MaxFrames = 2
    TrackRoom = 1

SPECIFICATION Spec

INVARIANTS
    NobodyLeftBehind
    LeavesNothingBehind
