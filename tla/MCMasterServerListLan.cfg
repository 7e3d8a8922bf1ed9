SPECIFICATION Spec
CONSTANTS
    lan = lan
    wan = wan
    Worker = {w1}
    Cleaner = Cleaner
    Host = {lan}
    Address = {lan, wan}
    PublicAs <- MCPublicAs
    Limit = 1
    MaxEntry = 3
    None = None
PROPERTY HeartbeatsRefresh
