SPECIFICATION Spec
CONSTANTS
    Simds <- MCSimds
    Checks <- MCChecks
    LiveNetworks <- MCLiveNetworks
    Registered <- MCRegistered
    Programs = {1}
    Deployed <- MCDeployed
    Activated <- MCActivated
    E2eRegistered = {1}
    Unresolved = {2}
    E2eOutcomes <- MCOutcomes
INVARIANTS TypeOK ReportInOrder NothingLost SurfnetPerPass UnmetNeverJudged ExitIsVerdict
PROPERTIES E2eIsolation Termination ImplementsCampaign
CHECK_DEADLOCK FALSE
