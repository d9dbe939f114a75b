SPECIFICATION PrintingSpec

CONSTANTS
    Formats <- MCFormats
    Words <- MCWords
    Bits = 5
    Signed <- MCSigned
    Unsigned <- MCUnsigned
    Chunk = 2
    MaxText = 0
    MaxRefused = 1
    Machines <- MCMachines
    Numbers <- MCNumbers
    Flags <- MCFlags
    Names <- MCNames
    OutLen = 12
    Margin = 8
    Marker <- MCMarker

INVARIANTS
    FormatsLikeC
    NamesAreTheNumbers
    SanitizedIsUnambiguous
    WritesStayInTheBuffer
