CONSTANTS
    Runs = {"r1", "r2"}
    Variant <- TwoVariants
    Workers = 1
    MaxClicks = 1
SPECIFICATION Spec
PROPERTIES
    AnswersKeepFinished
    CompletionIsShown
