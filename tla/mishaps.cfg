SPECIFICATION Spec
CONSTANTS
    m1 = m1  m2 = m2  m3 = m3
    Messages <- MCMessages
    RedeliveryMax = 2
    Mishaps = {"late", "broken"}
INVARIANTS BookkeepingInv TriesBounded
PROPERTIES ClosedStaysClosed
