\* Two reads of one key, two of the other, one of which throws at once, two edits and a clear().
SPECIFICATION Spec
CONSTANTS
    k1 = k1 k2 = k2
    c1 = c1 c2 = c2 c3 = c3 c4 = c4
    w1 = w1 w2 = w2
    Keys = {k1, k2}
    Calls = {c1, c2, c3, c4}
    Malformed = {c4}
    Writers = {w1, w2}
    None = None
    MaxClears = 1
    Livetime <- MCLivetime
    KeyOf <- MCKeyOf
    Touched <- MCTouched
    Extended <- MCExtended
INVARIANTS LoadsAndTimersHold CacheIsCurrent
PROPERTIES EveryCallSettles
