\* Engines, offers and the end of the server; the event bus; the media.
CONSTANTS
    c1 = c1  c2 = c2  o1 = o1  o2 = o2  v1 = v1
    Connects = {c1, c2}
    Offers = {o1, o2}
    Visits = {v1}
    None = None
    w1 = w1  w2 = w2  p1 = p1  p2 = p2
    Subscribers = {w1, w2}
    Publishers = {p1, p2}
    Types = {"frame", "shutdown"}
    Capacity = 2
    MaxEvents = 2
    Interest <- MCInterest
    Events <- MCEvents
    VideoQueue = 1  AudioQueue = 2  InboundQueue = 1
    MdFrames = 2  MdParts = 2  MdInbound = 2

SPECIFICATION Spec

INVARIANTS
    SlotIsSound
    StreamsKeepOrder

PROPERTIES
    SlotIsFreed
    WaitsForRoomEnd

CHECK_DEADLOCK FALSE
