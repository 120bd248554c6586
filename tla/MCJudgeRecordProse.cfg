SPECIFICATION Spec
CONSTANTS
    Jobs <- Prose
    Models = {"claude", "gpt", "own"}
    Family <- MCFamily
    Price <- MCPrice
    Ratings <- MCRatings
    Opinions <- MCOpinions
    Unit = 4
    None = None
CHECK_DEADLOCK FALSE
INVARIANTS
    DecisiveIsMeant
