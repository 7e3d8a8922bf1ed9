SPECIFICATION FairSpec
CONSTANTS
    lan = lan
    wan = wan
    Worker = {w1, w2}
    Cleaner = Cleaner
    Host = {wan}
    Address = {wan}
    PublicAs <- MCPublicAs
    Limit = 1
    MaxEntry = 3
    None = None
INVARIANTS TypeOK StaleEntriesGo DuplicatesAreBounded
PROPERTY SilentServersExpire
