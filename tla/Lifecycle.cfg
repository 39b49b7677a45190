\* One start and stop, in both modes, everything may fail or block.
SPECIFICATION FairSpec
CONSTANTS
  Requests = {r1, r2}
  Nobody = Nobody
INVARIANTS
  TypeOK
  RequestsHaveDependencies
  GracefulMeansClosed
  ErrorMeansTrouble
  FailedStartServesNothing
PROPERTIES
  OnlyOpenIsClosed
  StopsWhenAsked
\* The process exits.
CHECK_DEADLOCK FALSE
