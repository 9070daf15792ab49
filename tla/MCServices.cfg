CONSTANTS
    Lookups = {r1, r2, r3}
    ImageOf <- Images
    VideoOf <- Watched
    Gifs = {gif}
    MaxMs = 1
    Youtube = {tube, song}
    Captioned = {song}
    Direct = {clip}
    Fetches = {r1, r2}
    PageOf <- OnePage
    MaxDepth = 2
    MaxAsks = 2
    MaxRefusals = 1
    Recipients = {r1, r2}
    MaxWallets = 3
    MaxPayments = 3
    Vibrations = {r1, r2}
    Rotations = {r3}
    MaxRetries = 2
    MaxStops = 2
    MaxFaults = 1
    r1 = r1
    r3 = r3
    Requests = {r1, r2, r3, r4}
    Short = {r4}
    gif = gif
    still = still
    tube = tube
    song = song
    clip = clip
    Loop = Loop
    None = None
SPECIFICATION SysSpec
CHECK_DEADLOCK FALSE
INVARIANT TypesOK
INVARIANT FlagIsRight
INVARIANT LeftoversOfFailures
INVARIANT OutcomesHaveCause
PROPERTY ServesSerially
PROPERTY CallsEnd
