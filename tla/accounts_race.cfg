\* Three calls of any handlers, all at once.
SPECIFICATION WatchedSpec
CONSTANTS
    Requests = {q1, q2, q3}
    Users = {u1, u2}
    Passwords = {p1, p2}
    Handlers = {"signup", "login", "google", "refresh", "logout", "reset", "changePassword", "profile", "suspend", "activate", "role"}
    Alone = {}
    EarlierIds = {t1}
    MaxClock = 2
    Lifetime = 1
    NoUser = NoUser
    NoPassword = NoPassword
    NoToken = NoToken
    NoCall = NoCall
SYMMETRY Perms
INVARIANTS TypeOK SoundAlone
PROPERTIES DecisionsAreRecorded SignInMethodStays NoNewSessionOnceSuspended
