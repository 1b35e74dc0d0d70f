\* Two provisioners and the service, in environments around every bound of the configuration.
SPECIFICATION FairSpec
CONSTANTS
    Unset = Unset
    Blank = Blank
    Garbage = Garbage
    Environments <- MCEnvironments
    Provisioners = {p1, p2}
    ComposeRun = p1
    Patience = 1
    MaxFaults = 1
    MaxKills = 1
INVARIANTS TypeOK AppFindsItsTables RunningConfigIsSound
           NoSilentFallback
PROPERTIES ProvisionerEnds ServiceComesUp LateEndpointIsUsed
CHECK_DEADLOCK FALSE
