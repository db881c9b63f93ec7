SPECIFICATION LiveSpec
CONSTANTS
    outer = outer
    inner = inner
    Unset = Unset
    Calls <- MCCalls
    Caller <- MCCaller
    MaxInputs = 2
INVARIANTS TypeOK ResultsMatchInputs FailuresReported
PROPERTIES CallsSettle
CHECK_DEADLOCK FALSE
