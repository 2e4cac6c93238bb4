SPECIFICATION Spec
CONSTANTS
    Users = {u1, u2}
    Sids = {s1, s2, s3}
    Requests = {r1, r2}
    NoUser = NoUser
    NoSid = NoSid
    MaxFaults = 0
SYMMETRY Symmetry
PROPERTY
    LogoutRevokesAll
