SPECIFICATION LiveSpec
CONSTANTS
    IA = {1}
    Iface = {1}
    IfaceOf <- OneEach
    Server = {"s1"}
    NoServer = "none"
    Reach <- Everywhere
    Pref <- Preferences
    TopPref = 255
    Retries = 1
    MaxAdv = 1
    Xid = {1, 2, 3}
    Room = 2
    Loaded = {1}
    Revoking = FALSE
    Ticks = FALSE
    LinkMoves = TRUE
    Reconf = TRUE
    Duplicates = FALSE
PROPERTIES Configures Ages
