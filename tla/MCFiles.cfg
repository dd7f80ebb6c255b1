SPECIFICATION SyncSpec
CONSTANTS
    Total = 5
    PerCluster = 4
    Aliases = 2
    LooksLong = {"y"}
    Names <- ShortNames
    Contents <- SomeContents
    Folders <- SomeFolders
    Nothing = Nothing
    TornKills = FALSE
    StraysExcused = TRUE
    Faults = 1
    Starts <- SomeVolumes
    Megabytes <- AllSizes
INVARIANTS VolumeIsSound NewestIsKept LayoutsAreSound
PROPERTIES ImplementsShelf

