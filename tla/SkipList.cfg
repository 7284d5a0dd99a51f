CONSTANTS
    MaxKey = 3
    kMaxHeight = 2
SPECIFICATION Spec
INVARIANTS
    LinksInitialised
    LookupsExact
    ListSorted
