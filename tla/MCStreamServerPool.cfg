SPECIFICATION OpenSpec
CONSTANTS
    c1 = c1
    c2 = c2
    c3 = c3
    None = None
    Conn <- MCThree
    Workers = 2
PROPERTIES
    ConnectionsEnd
