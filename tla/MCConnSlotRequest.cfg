CONSTANTS
    READ_BUFFER_SIZE = 16
    Numbers <- MCNumbers
    Segments <- WholeRequests
    Garbage = {0, 1}
SPECIFICATION Spec
INVARIANT NoRequestMeansIncomplete
