SPECIFICATION FairSpec
CONSTANTS
  Streams <- MCStreams
  Declared <- MCStreams
  InputLists <- MCLists
  HandBuilt <- MCGraphs
INVARIANTS CycleIsOne CatalogAcyclic OrderTopological InputsFirst NothingInProgress NoFalseCycle
PROPERTIES KeepsPromise CallsEnd
