SPECIFICATION Spec
CONSTANTS
    f = f  g = g  a = a  b = b
    Missing = Missing  Fields = {f}  Values = {a, b}  Writes <- OneField
    Ids = {r1}  MaxRounds = 2
    MaxEdits = 2  MaxRemote = 0  MaxFaults = 1  MaxCrashes = 0
INVARIANTS SyncedAsWritten
