CONSTANTS
    crash = crash
    slow = slow
    service = service
    Errors = {crash}
    Warnings = {slow}
    Faults = {}
    Debounce = 1
    MinGap = 2
SPECIFICATION Spec
INVARIANT TypeOK
INVARIANT FlagsExact
INVARIANT ErrorsAwaited
PROPERTY ReactionsSpaced
PROPERTY AnsweredByItsOwn
