\* Every structure of the catalogue, each with its own set of keys.
SPECIFICATION Spec
CONSTANTS
    Kinds <- MCKinds
    Keys <- MCKeys
    Ranks = {1, 2, 3}
    Numerator = 3
    Denominator = 5
    Degree = 2
    MaxLevel = 3
    WordBits = 4
INVARIANTS
    Shapely
    AnswersExact
