\* One input, read through the wrapper while values arrive: every
\* convention of the library, one source, one grant.
SPECIFICATION InputSpec
CONSTANTS
    FederateName <- MCFederateName
    Keys <- MCKeys
    Indices <- MCNone
    IndexRange <- MCIndexRange
    InputTargets <- MCNone
    PublicationTargets <- MCNone
    ShortcutNames <- MCNone
    Callbacks <- MCNone
    NoCallback = NoCallback
    Types <- MCTypes
    Units <- MCUnits
    Codecs <- MCNone
    ValueConverter <- MCValueConverter
    Values <- MCValues
    Published <- MCNone
    Blocks <- MCBlocks
    Nul = Nul
    Garbage = Garbage
    Sources = {1}
    InputOptions <- MCNone
    PublicationOptions <- MCNone
    MaxTime = 1
    MaxPublications = 0
    MaxInputs = 1
    MaxIncoming = 1
    BufferLength = 4
    SizeofDouble = 2
    MaxLen = 2
    Thrown = Thrown
    LengthError = LengthError
    Indeterminate = Indeterminate
INVARIANTS
    InputTypeOK
    NamesReadWithinBuffer
PROPERTIES
    SizedReadsWhole
    StringReadsWhole
    VectorLengthsAgree
CHECK_DEADLOCK FALSE
