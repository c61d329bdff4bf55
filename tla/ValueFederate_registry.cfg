\* Names and publishing: two keys, one of which looks like an indexed
\* element, one publication and two inputs, no data that arrives.
SPECIFICATION CallsSpec
CONSTANTS
    FederateName <- MCFederateName
    Keys <- MCKeys
    Indices = {1}
    IndexRange <- MCIndexRange
    InputTargets <- MCNoTargets
    PublicationTargets = {t}
    ShortcutNames <- MCShortcutNames
    Callbacks <- MCNoCallbacks
    NoCallback = NoCallback
    Types <- MCStringType
    Units <- MCUnits
    Codecs <- MCStringCodec
    ValueConverter <- MCValueConverter
    Values <- MCValues
    Published <- MCPublished
    Blocks <- MCNoBlocks
    Nul = Nul
    Garbage = Garbage
    Sources <- MCNoSources
    InputOptions <- MCNoOptions
    PublicationOptions <- MCTransmit
    MaxTime = 1
    MaxPublications = 1
    MaxInputs = 2
    MaxIncoming = 1
INVARIANTS
    TypeOK
    IndexedNamesDistinct
CHECK_DEADLOCK FALSE
