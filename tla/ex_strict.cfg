SPECIFICATION Spec
CONSTANTS
    Calls <- StrictCalls
    Strict = {"s"}
    Methods = {"INVITE", "INFO"}
INVARIANT RouteRetraced
CHECK_DEADLOCK FALSE
