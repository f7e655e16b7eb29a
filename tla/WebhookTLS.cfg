SPECIFICATION FairSpec
CONSTANTS
    r1 = r1
    r2 = r2
    Deployments <- MCDeployments
    MaxEvents = 2
INVARIANT ServedIsTrusted
PROPERTY KeyIsHandedOver
PROPERTY ReplicasConverge
