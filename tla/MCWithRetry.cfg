SPECIFICATION LiveSpec
CONSTANTS
    fetch = fetch
    poll = poll
    save = save
    bad = bad
    NotAnInteger = NotAnInteger
    Calls <- MCCalls
    Retries <- MCRetries
    HasSignal <- MCHasSignal
    MinDelayMs = 2
    MaxDelayMs = 3
    Factor = 2
    JitterPercent = 25
INVARIANTS TypeOK DelayBounded AtMostRetriesPlusOne OnRetryAnnouncesEachRetry NoListenerLeak
PROPERTIES NoAttemptAfterAbort CallsSettle
CHECK_DEADLOCK FALSE
