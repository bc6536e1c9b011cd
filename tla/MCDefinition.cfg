\* Two requests at a time, three editions of the steps.
SPECIFICATION DefSpec
CONSTANTS
    Editors = {e1, e2}
    MaxEdits = 3
INVARIANTS
    MarkIsForItsSteps
    PublishedAsReviewed
CHECK_DEADLOCK FALSE
