SPECIFICATION AppSpec
CONSTANTS
    Video = video
    Audio = audio
    Stream = 1
    Channel = {video, audio}
    Type = {video, audio}
    MaxSize = 3
    Info = {0, 1}
    ChunkSize = 2
    TsMod = 5
    TsExt = 3
    MaxWire = 1
    Null = Null
INVARIANTS FramingExact TimestampUnlessDrift TimestampExact
