SPECIFICATION Spec
CONSTANTS
    ann = ann
    bob = bob
    leaders = leaders
    Agent = {ann, bob}
    Team = {leaders}
    Leadership = leaders
    Sender = {ann}
    Retiring = {bob}
    Boss <- Reporting
    MaxElevations = 2
    Talker = {tia, tom}
    Conv = {room}
    Page = 1
    MaxMessages = 2
    Kind = {"tasks"}
    Call = {c1, c2, c3}
    MaxLimit = 2
    MaxRows = 4
    bot = bot
    user = user
    proj = proj
    Writer = {bot}
    Dashboard = {user}
    Home <- OneHome
    Uses <- TwoScopes
    Value = {x, y}
    Layer = {"behavior"}
    MaxVersions = 3
    MaxChat = 3
    Exec = {cto}
    NoRole = none
    View = {tab}
    ChatPage = 1
SYMMETRY Symmetric
CHECK_DEADLOCK FALSE
INVARIANTS SocietyTypeOK ExecutivesLead NothingSkipped QuotaOvershoot KeyKept
PROPERTIES SendFair ResolutionSettles
