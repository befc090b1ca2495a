SPECIFICATION Spec
CONSTANTS
    Programs <- LegalPrograms
    Classes <- MCClasses
    Parent <- MCParent
    Exception = "E"
    MaxOrd = 3
    Tests = 2
INVARIANTS SameBehaviour
CHECK_DEADLOCK FALSE
