CONSTANTS
    k1 = k1
    k2 = k2
    Key <- MCKey
    Hash <- MCHash
    Initial = 1
    Sizes = {2, 3}
    Writer = {w1, w2}
    Admin = {a1, a2}
SPECIFICATION Spec
INVARIANT RecoveredUnderOwnName
