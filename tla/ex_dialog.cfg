SPECIFICATION Spec
CONSTANTS
    Calls <- SomeCalls
    Strict = {}
    Methods = {"INVITE", "INFO"}
INVARIANTS RouteRetraced TargetAgreed NoGlare OneRefresher IgnoredOnlyByRetry
CHECK_DEADLOCK FALSE
