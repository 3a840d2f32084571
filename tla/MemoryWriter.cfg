\* Three batches, a queue of two and two clears for TLC: a batch can be in
\* a detached thread while another is in the hand of the next writer and a
\* third is queued, one clear can wait for another, and a clear that fails
\* can put back a full queue.
CONSTANTS
    QueueSize = 2
    MaxTime = 3
    MaxClears = 2

SPECIFICATION Spec

INVARIANTS
    QueueSurvives
    BatchesAreKept
    ClearedOrRaced

PROPERTIES
    AcceptedSettles
