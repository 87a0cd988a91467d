SPECIFICATION Spec
CONSTANTS
    r1 = r1
    r2 = r2
    c1 = c1
    Creators <- MCCreators
    Launchers <- MCLaunchers
    Actors <- MCActors
    Names <- MCNames
    Framework <- MCFramework
    MaxPlans = 2
    MaxRounds = 2
    MaxStops = 1
    MaxStrays = 1
SYMMETRY Symmetric
INVARIANT OwnersKeepTheirEntry
INVARIANT CompletedAsApproved
INVARIANT PreparedPackageMatchesOtherwise
INVARIANT RefusedByOthersOtherwise
CHECK_DEADLOCK FALSE
