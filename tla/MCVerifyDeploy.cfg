\* A full report or one step, against pre-build, an operator and services that change.
SPECIFICATION Spec
\* The operator may stop making reports.
CHECK_DEADLOCK FALSE
CONSTANTS
    Step = {"deploy", "register", "services", "tee-version", "tee-machine", "test", "all"}
    Environment <- MCEnvironment
    Filter = {}
    MaxExtensions = 2
    MaxReports = 1
    MaxChanges = 1
    MaxErrors = 1
INVARIANTS
    CleanReportIsSetUp
    NoDevelopmentSettings
    NoFalseAlarm
