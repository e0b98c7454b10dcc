SPECIFICATION Spec
CONSTANTS
    d1 = d1
    d2 = d2
    Doc <- MCDoc
    Upload <- MCUpload
INVARIANT
    RestoredMeansOriginal
