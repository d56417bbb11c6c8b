\* A heap of eight smallest blocks that does not start at 0, as the one the
\* prototype's own test makes.
SPECIFICATION Spec
CONSTANTS
    Start = 7
    Size = 32
    AskedSizes = {4, 8}
    Nil = Nil
    Junk = Junk
INVARIANT BlocksAreAsExpected
