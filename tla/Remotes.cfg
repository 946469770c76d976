SPECIFICATION Spec
CONSTANTS
    Name = {b2, s3}
    Field = {account, key}
    Required = {key}
    Value = {1}
    Request = {q1, q2}
SYMMETRY Alike
INVARIANTS TypeOK ConfigFollowsLatestListing LastTypedInForce
