SPECIFICATION Spec
CONSTANTS
    Name = {1, 2, 3}
    Slug <- MCSlug
    Request = {q1, q2}
    MaxCred = 4
SYMMETRY Alike
INVARIANTS TypeOK FileFollowsLatestListing
PROPERTY NoBlindRotation ForgottenForGood
