SPECIFICATION Spec
CONSTANTS
    IA = {1}
    Iface = {1}
    IfaceOf <- OneEach
    Server = {"s1", "s2"}
    NoServer = "none"
    Reach <- Everywhere
    Pref <- Preferences
    TopPref = 255
    Retries = 1
    MaxAdv = 1
    Xid = {1, 2, 3}
    Room = 2
    Loaded = {}
    Revoking = FALSE
    Ticks = FALSE
    LinkMoves = FALSE
    Reconf = FALSE
    Duplicates = FALSE
INVARIANT WellFormed
