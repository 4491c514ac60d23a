\* The scripts, repeated with post-build's rRap or register-tee's default rap, some of them
\* resuming, with every kind of failure.
SPECIFICATION Spec
\* The tools rest when the machine is in production.
CHECK_DEADLOCK FALSE
CONSTANTS
    Commands = {{"r", "a", "p"}, {"r", "R", "a", "p"}}
    Resume = {TRUE, FALSE}
    Fault = {"tool", "expiry", "epoch", "node", "late", "save", "lookup"}
    MaxFaults = 2
    MaxReruns = 2
    MaxNodes = 3
INVARIANTS
    DeploymentTypeOK
    ConfiguredIsSetUp
    SuccessIsProduction
PROPERTY
    RegistrationCompletes
