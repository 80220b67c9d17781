CONSTANTS
    User = {u1}
    Token = {t1, t2, t3}
    Link = {l1}
    Request = {q1, q2}
    MaxChanges = 2
    MaxExpired = 1
SPECIFICATION Spec
SYMMETRY Symmetry
INVARIANTS
    SessionsAreCurrent
    OneTokenASession
    SpentLinksStaySpent
    AccountsAreWhole
