SPECIFICATION Spec
CONSTANTS
    IA = {1}
    Iface = {1}
    IfaceOf <- OneEach
    Server = {"s1", "s2"}
    NoServer = "none"
    Reach <- Everywhere
    Pref <- Preferences
    TopPref = 255
    Retries = 0
    MaxAdv = 1
    Xid = {1, 2, 3, 4}
    Room = 3
    Loaded = {1}
    Revoking = FALSE
    Ticks = FALSE
    LinkMoves = TRUE
    Reconf = FALSE
    Duplicates = TRUE
INVARIANTS TypeOK NoneForgotten
PROPERTIES AllReleased
