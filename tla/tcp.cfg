CONSTANTS
    Length = 7
    MarkerAt = 2
    Modulus = 16
    Starts = {3, 9}
    Segmentations <- MCSegmentations
    Framings = {"length", "chunked", "close"}
    Encodings = {"identity", "gzip"}
    MaxSegments = 4
    MaxBytes = 12
    MaxPackets = 5
    MaxDamaged = 1
SPECIFICATION Spec
CHECK_DEADLOCK FALSE
INVARIANTS WholeParsed ParsedWhole DamageSeen NeverSilent GapHonest
