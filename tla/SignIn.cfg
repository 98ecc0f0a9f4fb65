SPECIFICATION Spec
CONSTANTS
    k1 = k1
    k2 = k2
    c1 = c1
    c2 = c2
    p1 = p1
    p2 = p2
    q1 = q1
    q2 = q2
    None = None
    Captchas <- TwoCaptchas
    Codes <- TwoCodes
    Passwords <- TwoPasswords
    Requests <- TwoRequests
SYMMETRY Interchangeable
INVARIANTS
    SingleSession
    OldPasswordOut
    GoodForOne
CHECK_DEADLOCK FALSE
