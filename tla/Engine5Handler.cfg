\* One event with an id, one without, one request; two of them under way at a time.
SPECIFICATION HandlerSpec
CONSTANTS
    Events = {e1, old}
    Legacy = {old}
    Incoming = {q1}
    Slots = {h1, h2}
    Idle = Idle
    MaxListeners = 2
    TTL = 2
    MaxFaults = 2
PROPERTIES RunsOncePerTtl EventuallySettled
