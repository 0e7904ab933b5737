SPECIFICATION Spec
CONSTANTS
    p1 = p1
    t1 = t1
    f1 = f1
    i1 = i1
    x1 = x1
    o1 = o1
    o2 = o2
    w1 = w1
    w2 = w2
    SLA = SLA
    None = None
    Policies <- OnePolicy
    NeedsApproval <- OnePolicy
    Actuating <- OnePolicy
    Triggers <- OneTrigger
    Facts <- OneFact
    Alarming <- OneFact
    Worlds <- TwoWorlds
    Intents <- OneIntent
    Evaluators <- OneEvaluator
    Operators <- TwoOperators
    Instances <- TwoInstances
    MaxAttempts = 2
    MaxOverdue = 1
    MaxFaults = 3
INVARIANTS TypeOK OnlyReleasedActions StatusIsTrue

PROPERTIES EverythingEnds
CHECK_DEADLOCK FALSE
