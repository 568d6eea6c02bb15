SPECIFICATION Spec
CHECK_DEADLOCK FALSE
CONSTANTS
    Operator = Operator  Watchdog = Watchdog  Revert = Revert  Nobody = Nobody
    Awaited = {Watchdog}  Procs = {Operator, Watchdog, Revert}
    Families <- OneFamily  Hooks <- TwoHooks
    StablePasses = 2  MaxReconnects = 1
    MaxKills = 1  MaxCommands = 2  MaxUpsets = 1
PROPERTIES HoldKept
