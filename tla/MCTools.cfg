CONSTANTS
  Offers <- MCOffers
  MaxCalls = 1
  MaxCrashes = 1
  MaxRestarts = 1
  Document = {d1, d2}
  MaxPublications = 2
  ClientLists <- MCClientLists
  AnswerLists <- MCAnswerLists
  ServerQueries = 2
  MaxChanges = 1
  Files <- MCFiles
  LastPosition = 2
SPECIFICATION Spec
INVARIANTS
  
  
  
  PreviewLeavesNothing
  SafeIsClean
  NotFoundIsSaid
  
CHECK_DEADLOCK FALSE
