SPECIFICATION FairSpec
CONSTANTS
    d1 = d1
    d2 = d2
    Doc <- MCDoc
    Upload <- MCUpload
INVARIANTS
    ServesADatabase
    PendingUploadsStay
PROPERTIES
    RemovedUploadsAreBackedUp
    RestoredUploadsSurvive
    LockIsReleased
