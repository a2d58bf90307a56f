SPECIFICATION Spec
CONSTANTS
    alice = alice
    bob = bob
    root = root
    None = None
    Users <- MCUsers
    Superusers <- MCSuperusers
    Groups = {team}
    ProductTypes = {web}
    Products = {shop}
    Asked <- MCAsked
    Granted <- MCGranted
    MaxGrants = 3
SYMMETRY Symmetric
INVARIANTS OneRow ListsAgree OfferedAreAllowed
PROPERTIES OwnerStays MirrorKept NoGift
CHECK_DEADLOCK FALSE
