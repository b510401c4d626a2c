SPECIFICATION FairSpec
CONSTANTS
    MaxCalls = 2
    User = {u1}
    NoUser = NoUser
    Service = {"polkit-1", "gdm-password"}
    NoService = NoService
    Plain = {"unknown", "junk", "closed"}
    Phones = 1
    Hosts <- SomeHosts
    Window = 1
    OpTimeout = 1
    GuiTimeout = 1
INVARIANTS
    SuccessIsGranted
    PasswordNeverDismissed
    LibpamNotShared
PROPERTIES
    
    EveryCallReturns
CHECK_DEADLOCK FALSE
