SPECIFICATION Spec
CONSTANTS
    Calls = {"c1", "c2"}
    None = None
    MaxSpans = 3
    Main = "main"
    Others = {"other"}
    MaxDepth = 3
CHECK_DEADLOCK FALSE
INVARIANTS
    TypeOK
    SpansStayHome
    ParentIsInnermost
PROPERTIES
    ImplementsSpanTree
