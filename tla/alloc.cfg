SPECIFICATION Spec
CONSTANTS
    Svid = {1}
    Conn = {c1, c2}
    None = None
    MaxTab = 1
    NumPlayer = 2
    MaxWire = 2
INVARIANTS FiledOnce IdIsServer
PROPERTY ServerFound
