SPECIFICATION Spec
CONSTANTS
    u1 = u1
    u2 = u2
    l1 = l1
    l2 = l2
    l3 = l3
    r1 = r1
    r2 = r2
    arn1 = arn1
    arn2 = arn2
    None = None
    User = {u1, u2}
    Login = {l1, l2, l3}
    Request = {r1, r2}
    Role = {arn1, arn2}
CHECK_DEADLOCK FALSE
PROPERTIES
    ExistingTokenKept
