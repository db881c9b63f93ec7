SPECIFICATION Spec
CONSTANTS
    created = created
    createdV2 = createdV2
    deleted = deleted
    audited = audited
    order = order
    note = note
    tracing = tracing
    tenancy = tenancy
    Unset = Unset
    Empty = Empty
    Method = Method
    Runs = {r1, r2}
    Events <- MCEvents
    Names <- MCNames
    Definition <- MCDefinition
    HostOpts <- MCHostOpts
    Payloads <- MCPayloads
    HostVerdicts <- MCHostVerdicts
    UserKeys <- MCUserKeys
    Interceptors <- MCInterceptors
    MaxCalls = 3
SYMMETRY MCSymmetry
INVARIANTS NothingRunsUnvalidated IssuesLocateFields EmittedEventsRecognised
CHECK_DEADLOCK FALSE
