CONSTANTS
    Replicas = {"r1", "r2"}
    Calls = {"t1", "t2", "t3", "d1", "d2", "a1", "a2", "k1", "k2", "m1", "m2"}
    About <- MCAbout
    MaxKeys = 5
    Worlds <- MCWorlds
    None = None
SPECIFICATION Spec
INVARIANTS KeyLifecycle OneEffectiveRotation
PROPERTIES TokensMoveForward RetiringEnds
