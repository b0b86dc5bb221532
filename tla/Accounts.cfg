CONSTANTS
    Browsers = {b1, b2}
    Names = {admin, ann}
    AdminName = admin
    TokenName = token
    Passwords = {p1, p2}
    AdminPassword = p1
    NoPassword = NoPassword
    SessionTtl = 1
    MaxTime = 2
    Nobody = Nobody
    NoAccount = NoAccount
    NoCookie = NoCookie
    NoPost = NoPost
    Never = Never
SYMMETRY BrowsersAlike
SPECIFICATION HistorySpec
INVARIANTS OneOwner BootstrapAdmin LoginsLast OffStaysOff
