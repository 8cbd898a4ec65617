\* Two concurrent logins with two captchas in all and one edit of the account;
\* requests that die in the password check are left to LoginLock.cfg.
CONSTANTS
    Threads = {t1, t2}
    MaxRetry = 1
    MaxFaults = 0
    Codes = {v1, v2}
    Passwords = {p1, p2}
    Counts = {0}
    MaxEdits = 1
SYMMETRY MCSymmetry
SPECIFICATION SignInSpec
INVARIANTS
    SignInTypeOK
    GuessesBounded
    LoginWasDue
    LoginsCounted
PROPERTIES
    UsesTheLock
CHECK_DEADLOCK FALSE
