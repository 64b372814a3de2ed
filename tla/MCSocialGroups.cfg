SPECIFICATION Spec
CONSTANTS
    u1 = u1
    u2 = u2
    None = None
    Users <- MCUsers
    Following <- MCOthers
    Contacts <- MCOthers
    MaxGroups = 1
    MaxSends = 1
    MaxFaults = 0
CHECK_DEADLOCK FALSE
PROPERTY MembersSeeGroup
