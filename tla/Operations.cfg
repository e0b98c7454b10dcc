SPECIFICATION OperationsSpec
CONSTANTS
    d1 = d1
    d2 = d2
    u1 = u1
    u2 = u2
    u3 = u3
    p1 = p1
    p2 = p2
    s1 = s1
    earlier = earlier
    ours = ours
    red = red
    green = green
    w1 = w1
    small = small
    large = large
    NoDoc = NoDoc
    NoUpload = NoUpload
    NoOrigin = NoOrigin
    NoSigningKey = NoSigningKey
    NoBind = NoBind
    NewOrigin = ours
    HourLength = 2
    DayLength = 1
    MaxThird = 9
    MaxDays = 2
    MaxImports = 1
    HistoryLimit = 1
    PageLimit = 2
    MaxEvent = 3
    MaxPreset = 2
    Owner <- MCOwner
    Doc <- MCDoc
    Upload <- MCUpload
    Origin <- MCOrigin
    SigningKey <- MCKey
    Bind <- MCBind
    AuditColumn <- MCAuditColumn
    OldFile <- MCOldFile
    Launch <- MCLaunch
    Drawn <- MCDrawn
    Look <- MCLook
    Saver <- MCSaver
    BaseForm <- MCBaseForm
    FirstBase <- MCFirstBase
    Clerk <- MCClerk
    PresetName <- MCPresetName
    Layout <- MCLayout
SYMMETRY MCSymmetry
CHECK_DEADLOCK FALSE
INVARIANTS
    OperationsTypeOK
    ReplacedUploadsAreUnnamed
    ServedComplete
    
    BackupsKept
    HistoryKept
    PresetsTold
PROPERTIES
    SharedDocumentsStay
    DueMinutesTried
