SPECIFICATION AdministrationSpec
CONSTANTS
    p1 = p1
    p2 = p2
    x1 = x1
    x2 = x2
    x3 = x3
    y1 = y1
    y2 = y2
    z1 = z1
    z2 = z2
    u1 = u1
    u2 = u2
    w1 = w1
    w2 = w2
    c1 = c1
    root = root
    admin = admin
    boss = boss
    clerk = clerk
    basic = basic
    vendor = vendor
    contracting = contracting
    ldap = ldap
    wecom = wecom
    mail = mail
    direct = direct
    sso = sso
    s1 = s1
    red = red
    green = green
    blue = blue
    NoName = NoName
    NoWord = NoWord
    NoCaptcha = NoCaptcha
    NoToken = NoToken
    NoRow = NoRow
    NoKey = NoKey
    NoMember = NoMember
    Undrawn = Undrawn
    Gone = Gone
    NoUid = NoUid
    NoRef = NoRef
    Unborn = Unborn
    Erased = Erased
    Nobody = Nobody
    NoAgent = NoAgent
    ExAgent = ExAgent
    Nowhere = Nowhere
    NoPlan = NoPlan
    Unbuilt = Unbuilt
    Razed = Razed
    NoSecret = NoSecret
    NoMode = NoMode
    NoLabel = NoLabel
    MaxFailures = 2
    Lock = 1
    Day = 2
    MaxSends = 1
    Window = 2
    MaxUser = 3
    MaxOld = 3
    Offset = 10
    Admin = admin
    AdminId = root
    AdminRole = boss
    Blank = blue
    Basic = basic
    BasicText = red
    Contracting = contracting
    Directory = ldap
    Post = mail
    Chief = boss
    Guest = clerk
    Name <- MCName
    Word <- MCWord
    Jti <- MCTwo
    Proc <- MCHandler
    Captcha <- MCCaptcha
    Token <- MCTwo
    Flow <- MCHandler
    Key <- MCTwo
    Member <- MCOther
    Uid <- MCUid
    Username <- MCUsername
    Role <- MCRole
    Group <- MCGroup
    Item <- MCItem
    Worker <- MCHandler
    Builtin <- MCBuiltin
    Permission <- MCPermission
    Implied <- MCImplied
    Legacy <- MCLegacy
    Replacement <- MCReplacement
    Seed <- MCSeed
    UserForm <- MCUserForm
    GroupForm <- MCGroupForm
    Grant <- MCGrant
    Type <- MCType
    Subtype <- MCSubtype
    Contract <- MCContract
    Tag <- MCTwo
    Thing <- MCOther
    Text <- MCText
    Tagger <- MCHandler
    Agent <- MCTwo
    Trade <- MCTrade
    Use <- MCUse
    TradeOf <- MCTradeOf
    Editor <- MCHandler
    Location <- MCTwo
    Area <- MCArea
    Placed <- MCPlaced
    Racked <- MCRacked
    Plan <- MCThree
    Surveyor <- MCHandler
    Kind <- MCKind
    Mode <- MCMode
    ModeAtFirst <- MCModeAtFirst
    Secret <- MCSecret
    Page <- MCHandler
    Form <- MCForm
    LegacyFile <- MCLegacyFile
    Record <- MCRecord
    Label <- MCLabel
    BuiltinType <- MCBuiltinType
    SeedState <- MCSeedState
    Login <- MCLogin
    Roles <- MCRoles
SYMMETRY Symmetry
CHECK_DEADLOCK FALSE
INVARIANTS
    AdministrationTypeOK
    SendsBounded
    
    OwnKeyRefused
    AdminKept
    RolesKnown
    MembersKnown
    ItemsHandedOver
    PermissionsFollow
    ReferencesKept
    EntriesUnique
    
    
    EnabledComplete
    LegacyNamesKept
    
