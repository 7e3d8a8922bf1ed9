SPECIFICATION Spec
CONSTANTS
    t1 = t1
    t2 = t2
    p1 = p1
    Worker = {w1, w2}
    Transaction = {t1, t2}
    Package = {p1}
    PackageOf <- MCPackageOf
    Gift = {t2}
    MaxLicence = 3
    Closed = Closed
    Lost = Lost
    NoTask = NoTask
PROPERTY OwnershipIsCurrent
CHECK_DEADLOCK FALSE
