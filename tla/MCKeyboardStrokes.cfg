SPECIFICATION Spec
CONSTANTS
    None = None
    MaxLen = 2
    Value <- Events
    Undefined = Undefined
    Discard = "DiscardNewest"
    Typings <- SomeTypings
    Lossy <- WithLosses
    MaxStrokes = 2
INVARIANTS ModifiersFollowKeys PatternFits
PROPERTY ImplementsKeyLine
