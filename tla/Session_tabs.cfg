CONSTANTS
    Users = {u1, u2}
    Tabs = {t1, t2}
    None = None
    LoginAnswers = {TRUE}
    MaxLoads = 1

SPECIFICATION Spec

INVARIANT ProfileIsTokenUser
