\* Every format of two runs of characters, and lines for ten formats that hold values
\* at and beyond the limits of their fields.  The unsigned type has 7 bits.
CONSTANTS
    Formats <- MCFormats
    Lines <- MCLines
    UnsignedMax = 127
    LocalOffset = 90
SPECIFICATION Spec
INVARIANTS FormatIsTokenised CandidatesAgree TimeIsTheOneWritten
PROPERTY StepsReadTheirTokens
CHECK_DEADLOCK FALSE
