SPECIFICATION FairSpec
CONSTANTS
    Hold = {h1, h2, h3, h4}
    Caller = {c1, c2}
    Nobody = Nobody
    Serial = TRUE
INVARIANT TypeOK
INVARIANT LastWord
INVARIANT HeldIffWatched
PROPERTY HoldsFollowEachOther
PROPERTY StopEnds
