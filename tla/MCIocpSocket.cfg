\* One socket of each kind: their completions mix in the port.
SPECIFICATION FairSpec
CONSTANTS
    Accepted = {"a"}
    Connected = {"c"}
INVARIANTS FlagsTrue QuietOnceCleared
PROPERTY ClosedUnlessLate
