SPECIFICATION FairSpec
CONSTANTS
    Accepted = {"a"}
    Connected = {}
PROPERTY Reclaimed
