SPECIFICATION Spec
CONSTANTS
    retryAfter = retryAfter
    upper = upper
    lower = lower
    conflict = conflict
    overload = overload
    domain = domain
    user = user
    account = account
    NotFound = NotFound
    MutationFailed = MutationFailed
    Internal = Internal
    HttpCode = HttpCode
    Text = Text
    Unset = Unset
    Codes = {conflict, overload, domain}
    Classes <- MCClasses
    HttpStatuses = {403, 500}
    Names = {retryAfter}
    Keys <- MCKeys
    NameOf <- MCNameOf
    Entities = {user}
    Displays = {account}
    MaxErrors = 3
    MaxHeaders = 2
INVARIANTS StatusReflectsErrors LaterErrorsWin RepliesComplete
CHECK_DEADLOCK FALSE
