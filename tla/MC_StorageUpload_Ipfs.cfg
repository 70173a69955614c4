CONSTANTS
    HashBytes = 2
    Bytes = {0, 1}
    MaxDecoded = 4
SPECIFICATION Spec
\* The CLI makes a single upload and exits: a state after it has no successor.
CHECK_DEADLOCK FALSE



INVARIANT IpfsErrOrDigest
