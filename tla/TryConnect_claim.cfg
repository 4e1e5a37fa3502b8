SPECIFICATION Spec
CONSTANT MaxTries = 10
INVARIANT ClaimIsTrue
