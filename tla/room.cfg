SPECIFICATION FairSpec
CONSTANTS
    ann = ann
    bob = bob
    bot = bot
    rob = rob
    Humans = {ann, bob}
    Robots = {rob, bot}
    NoUser = NoUser
    Ip <- MCIp
    MaxUsers = 4
    MaxTables = 2
    NumPlayer = 2
    MaxAsked = 2
INVARIANTS  OneObject 
PROPERTIES  StraysFreed
CHECK_DEADLOCK FALSE
