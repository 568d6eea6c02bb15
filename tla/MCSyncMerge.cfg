SPECIFICATION FairSpec
CONSTANTS
    f = f  g = g  a = a  b = b
    Missing = Missing  Fields = {f, g}  Values = {a, b}  Writes <- TwoFields
    Ids = {r1}  MaxRounds = 2
    MaxEdits = 2  MaxRemote = 1  MaxFaults = 1  MaxCrashes = 1
INVARIANTS CopiesTrue CursorSound
PROPERTIES MergedWell DirtySyncs
