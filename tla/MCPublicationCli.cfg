SPECIFICATION Spec
CONSTANTS
    Runs = {r1}
    CliRuns = {r1}
    MaxSaves = 1
INVARIANTS
    DoneIsPublished
