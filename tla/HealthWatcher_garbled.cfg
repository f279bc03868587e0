SPECIFICATION FairSpec
CONSTANTS
    Models = {m1}
    Sizes = {6}
    MinCtxTokens = 2
    MaxOoms = 3
PROPERTY NoFailureIsEndless
