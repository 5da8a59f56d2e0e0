SPECIFICATION Spec
CONSTANTS
    Letters <- MCLetters
    Others <- MCOthers
    Width <- MCWidth
    Lower <- MCLower
    Fold <- MCFold
    FindAll <- MCFindAll
    Entropy <- MCEntropy
    Inputs <- MCInputs
INVARIANTS
    KeywordSpansAreOffsets
