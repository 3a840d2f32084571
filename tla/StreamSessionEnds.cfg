\* A stream whose queues hold as many events as tasks can wait for one of them: a queue
\* that is left wakes no more publishers than it has places.
CONSTANTS
    Subscribers = {"listener", "video", "delayed", "timeout", "stopper"}
    Publishers = {"loop", "main", "video", "lifecycle", "delayed", "absent", "maximum", "stopper"}
    Types = {"frame", "scheduled", "playback", "started", "joined", "left", "shutdown"}
    Events <- SessionEvents
    Capacity = 5
    MaxFrames = 2
    TrackRoom = 1

SPECIFICATION Spec

PROPERTIES
    StreamEnds
