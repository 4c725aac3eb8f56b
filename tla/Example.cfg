SPECIFICATION Spec
CONSTANTS
    alice = alice  bob = bob
    opKeyAlice = opKeyAlice  opKeyBob = opKeyBob
    password = password  bioauth = bioauth
    Ids = {alice, bob}
    Factors = {opKeyAlice, opKeyBob, password, bioauth}
    OpKey <- OpKeys
    Enrols <- OthersOfBob
    BioAuths = {bioauth}
    MANAGER = MANAGER
    EMPTY = EMPTY
    PRESENT = PRESENT
    PROTOCOL = PROTOCOL
    NULL = NULL
    MaxEvents = 11
INVARIANTS TypeOK InSync AuthorizedByMember AssertionLasts CommitProvable
PROPERTY ImplementsSettlement
CHECK_DEADLOCK FALSE
