\* Two requests at a time over two emails, names and passwords; two faults.
SPECIFICATION Spec
CONSTANTS
    r1 = r1
    r2 = r2
    r3 = r3
    a1 = a1
    a2 = a2
    a3 = a3
    e1 = e1
    e2 = e2
    n1 = n1
    n2 = n2
    p1 = p1
    p2 = p2
    TooLong = TooLong
    NoText = NoText
    NoAccount = NoAccount
    NoCall = NoCall
    NoReply = NoReply
    Requests = {r1, r2}
    Accounts = {a1, a2, a3}
    Emails = {e1, e2}
    Names = {n1, n2}
    Passwords = {p1, p2}
    MaxFaults = 2
SYMMETRY Swaps
INVARIANTS TypeOK OneAccountEach SignUpAnswersAreTrue LoginAnswersAreTrue
