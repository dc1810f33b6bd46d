SPECIFICATION Spec
CONSTANTS
    Vertices = {a, b, c, d}
    NULL = NULL
SYMMETRY Interchangeable
INVARIANTS
    AnswersAreRight
PROPERTY
    RepresentsAForest
