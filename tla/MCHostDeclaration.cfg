SPECIFICATION LiveSpec
CONSTANTS
    reserve = reserve
    charge = charge
    ship = ship
    typo = typo
    Unset = Unset
    Methods <- MCMethods
    Strangers <- MCStrangers
    Mistyped <- MCMistyped
    Hidden <- MCHidden
INVARIANTS DeclaredExactlyIfSound CompiledHostsDeclared ParentsSucceedFirst
PROPERTY DeclaredWorkflowsFinish
CHECK_DEADLOCK FALSE
