CONSTANTS
    READ_BUFFER_SIZE = 4
    Numbers <- MCNumbers
    Segments <- ShortSegments
    Garbage = {0, 1}
SPECIFICATION Spec
INVARIANTS ParserIndices SegmentationIndependence ProcessRearms
PROPERTY DroppedOnlyWhenFull
