SPECIFICATION Spec
CONSTANTS
    ByteBase = 9
    TextBase = 4
    DecBase = 3
    Zero = 3
    Kept = 2
    Versions <- MCVersions
    VersionBytes <- MCVersionBytes
    Checksum <- MCChecksum
    Origins <- MCOrigins
INVARIANTS
    SameNumber
    RoundTrips
    VersionsApart
CHECK_DEADLOCK FALSE
