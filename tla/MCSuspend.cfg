\* One slot, its image, its snapshot file; kills and power failures anywhere.
CONSTANTS
    None = None
    Size = 1
    Span = 2
    MaxClock = 3
SPECIFICATION Spec
VIEW LiveVars
CONSTRAINT FirstIsOdd
INVARIANTS TypeOK RingAgrees ActiveMeansNegotiated WholeOrNothing RunsOnItsImage SavedIsResumable
