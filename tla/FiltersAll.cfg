\* Messages of one route are processed one after the other.
SPECIFICATION Spec
CONSTANT Cases <- MCCases
INVARIANTS FiltersRespected JsonPathsSet
