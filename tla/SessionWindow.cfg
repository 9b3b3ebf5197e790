CONSTANTS
    Streams = {s1, s2}
    Window = 8
    Chunk = 2
SPECIFICATION FairSpec
INVARIANTS
    WindowSound
PROPERTIES
    WindowLive
