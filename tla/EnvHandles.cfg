SPECIFICATION Spec
CONSTANTS
    Workers = {w1, w2, w3}
    MAIN = main
    Handles = {h1, h2, h3}
    HEAD = head
    NULL = null
    NOBODY = nobody
    OwnJoin = TRUE
CHECK_DEADLOCK FALSE
INVARIANTS HandlesSound NoWildAccess
PROPERTIES EnvFreesAll CallsReturn
