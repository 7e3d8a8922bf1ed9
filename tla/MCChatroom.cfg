SPECIFICATION Spec
CONSTANTS
    User = {u1, u2, u3}
    Worker = {w1, w2}
    MaxRoom = 1
    MaxMembers = 2
    MaxLogin = 1
    MaxInvite = 1
    MemberPermission = {"invite", "kick", "ban"}
    NoUser = NoUser
INVARIANTS TypeOK BannedStayOut InvitationsAreSpent OwnersPermissions 
SYMMETRY Symmetry
CHECK_DEADLOCK FALSE
