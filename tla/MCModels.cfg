CONSTANTS
    Requests = {r1, r2, r3}
    MaxFaults = 1
    None = None
    Questions = {"decide", "reply"}
    Message = {"reply"}
    MaxTries = 24
    MaxSize = 2
    MaxSaid = 3
    MaxSpoken = 2
    MaxRejoins = 1
    MaxPlayers = 2
    Channels = {lounge, stage}
    MaxConnections = 3
    MaxDrops = 2
    Names = {"OPENAI", "TOGETHER", "XAI", "OPENROUTER", "HEURIST", "ELEVENLABS", "ETERNALAI"}
    Painters = {"TOGETHER", "HEURIST", "OPENAI"}
SPECIFICATION SysSpec
CHECK_DEADLOCK FALSE
INVARIANT TypesOK
INVARIANT OnlyFailuresLeak
INVARIANT VoiceIsHeard
INVARIANT VectorsFit
INVARIANT KeysFit
PROPERTY ServesSerially
PROPERTY QuestionsEnd
