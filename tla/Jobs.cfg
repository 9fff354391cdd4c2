SPECIFICATION FairSpec
CONSTANTS
    Attempts = {a1, a2, a3}
    Scopes = {s1}
    Cooldown <- Hour
    Horizon <- LastTick
INVARIANTS
    TypeOK
    OneJobPerScope
PROPERTIES
    FurtherAttemptsCoolDown
    JobsGiveBack
