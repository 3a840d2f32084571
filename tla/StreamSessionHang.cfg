\* A Shutdown that comes before the first frame.
CONSTANTS
    Subscribers = {"listener", "video", "delayed", "timeout", "stopper"}
    Publishers = {"loop", "main", "video", "lifecycle", "delayed", "absent", "maximum", "stopper"}
    Types = {"frame", "scheduled", "playback", "started", "joined", "left", "shutdown"}
    Events <- SessionEvents
    Capacity = 5
    MaxFrames = 2
    TrackRoom = 3

SPECIFICATION Spec

PROPERTIES
    ShutdownEndsSession
