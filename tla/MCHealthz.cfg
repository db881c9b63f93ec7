SPECIFICATION LiveSpec
CONSTANTS
    Unset = Unset
    db = db
    queue = queue
    dbName = dbName
    queueName = queueName
    value = value
    service = service
    unchecked = unchecked
    dormant = dormant
    Providers <- MCProviders
    ClassProviders <- MCClassProviders
    Decorated <- MCDecorated
    Instantiated <- MCInstantiated
    Checkable <- MCCheckable
    Names <- MCNames
    MinIntervalMs <- MCMinIntervalMs
    TimeoutMs <- MCTimeoutMs
    CriticalOption <- MCCriticalOption
    DefaultTimeoutMs = 2
    NameOf <- MCNameOf
    Requests = {r1, r2}
    LastArrival = 2
    Horizon = 4
INVARIANTS TypeOK CacheHoldsLastCheck
PROPERTIES ReuseExactlyWhileYoung OwnVerdict RefinesContract EveryRequestAnswered
CHECK_DEADLOCK FALSE
