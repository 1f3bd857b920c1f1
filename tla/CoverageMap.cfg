SPECIFICATION CoverageSpec
CONSTANT MaxU64 = 7
INVARIANTS Merged QueriesExact
PROPERTY ImplementsSlotSet
