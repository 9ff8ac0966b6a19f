SPECIFICATION Spec
CONSTANTS
    Limit = 5
    MaxItems = 3
INVARIANTS
    FormExact
PROPERTIES
    ImplementsSets
