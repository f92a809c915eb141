SPECIFICATION Spec
CONSTANTS
    t1 = t1  t2 = t2  h1 = h1 
    Tabs = {t1, t2}
    Handlers = {h1}
    None = None
    MaxTokens = 3
    MaxSignOuts = 1
    Quiet = {"signIn", "revoke"}
CHECK_DEADLOCK FALSE
INVARIANTS TypeOK SignOutTakesEffect SignOutReachesEveryCopy NoReplay
PROPERTIES ClearedOnlyWhenOver EveryRequestSettles
