\* Numbers on both sides of every width's ends, builds one field, message or
\* variant apart, settings around the gaps of floats, names of up to three units.
SPECIFICATION Spec
CONSTANTS
    Half = 1048576
    Word = 131072
    Byte = 256
    Nano = 10
    Null = Null
    PathHash <- MCPathHash
    Mantissa = 1024
    Mantissa32 = 64
    SizeUnits <- MCSizeUnits
    TimeUnits <- MCTimeUnits
    Stats <- MCStats
    MetaValues <- MCMetaValues
    Texts <- MCTexts
    Tomls <- MCTomls
    Versions = {1, 2, 3}
    MaxWrites = 3
    NameLength = 3
CHECK_DEADLOCK FALSE
INVARIANTS
    RowsReadBack
    ChangesAreSeen
    PeersUnderstand
    SettingsReload
    LargerTextLargerSetting
    TextNamesReadBack
