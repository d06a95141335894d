CONSTANTS
    crash = crash
    slow = slow
    service = service
    Errors = {crash}
    Warnings = {}
    Faults = {service}
    Debounce = 1
    MinGap = 2
SPECIFICATION Spec
PROPERTY GameEndAnalysed
