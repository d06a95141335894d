CONSTANTS
    crash = crash
    slow = slow
    service = service
    Errors = {}
    Warnings = {}
    Faults = {service}
    Debounce = 1
    MinGap = 2
SPECIFICATION FairSpec
PROPERTY Answered
