CONSTANTS
    r1 = r1
    r2 = r2
    k1 = k1
    k2 = k2
    k3 = k3
    Replicas <- TwoReplicas
    CAs <- ThreeKeys
    None = None
    MaxDeletes = 1
    MaxCrashes = 1
    MaxFaults = 1
    MaxSigned = 2
SPECIFICATION FairSpec
INVARIANTS TypeOK EveryoneAccepts HostIsTrusted
PROPERTIES EveryoneServes
CHECK_DEADLOCK FALSE
