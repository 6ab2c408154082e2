\* Two Matrix users and two XMPP users, with everything that can go wrong.
SPECIFICATION Spec
CONSTANTS
    Users = {u1, u2}
    Ghosts = {g1, g2}
    Names = {n1, n2}
    Aliases = {a1}
    Handlers = {h1, h2}
    NoName = NoName
    NoAlias = NoAlias
    NoRoom = NoRoom
    NoEvent = NoEvent
    MaxSteps = 5
    MaxPending = 2
    Environment = {"fail", "ban", "kick"}
CONSTRAINT OneMishap
SYMMETRY Symmetry
CHECK_DEADLOCK FALSE
INVARIANTS TypeOK CacheCatchesUp MatrixHalfIsAccurate OccupantsKnowTheList
PROPERTIES OccupantsAreNotForgotten
