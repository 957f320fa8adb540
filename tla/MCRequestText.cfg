CONSTANTS
    READ_BUFFER_SIZE = 16
    Numbers <- MCNumbers
    LineTokens = {"GET", "SP", "PATH", "SCHEME", "HTTP/1.1", "x"}
    HeaderLines <- MCHeaderLines
    MaxLine = 6
    MaxHeaders = 4
    Leftover = {0, 1}
SPECIFICATION Spec
INVARIANTS RequestLineGrammar HeaderFields
CHECK_DEADLOCK FALSE
