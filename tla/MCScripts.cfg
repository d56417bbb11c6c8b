\* Six implementation files, of which four are refused, two libraries and two
\* versions of Zig; every code point of the first plane, and some of the second.
CONSTANTS
    None = None
    Sources <- TheSources
    Error <- TheErrors
    ErrorType <- TheErrorTypes
    Libraries <- TheLibraries
    Version = {v1, v2}
    NoVersion = NoVersion
    LastCodePoint = 65600
SPECIFICATION ScriptsSpec
INVARIANTS
    CodesNeverClash
    OldProgramsUnderstand
    SuccessMeansSame
    CommandsKeepTheirWord
    PageIsInverted
