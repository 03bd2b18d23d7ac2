SPECIFICATION MCSpec
CONSTANTS
  Clients = {"p", "q"}
  Contents = {"empty", "some"}
  Empty = "empty"
  MaxChanges = 2
  MaxEntries = 2
  Loads = {1, 2}
  Scopes = {"a", "b"}
  NoScope = "none"
  MaxGeneration = 2
  Requests = {"none", "file", "book", "clip"}
  MaxLoads = 3
  MaxDeletions = 2
  MaxRequests = 3
INVARIANTS
  EveryTypeOK
  ClientsAreServed
  BatchIsWatched
  NeverFatal
  LoadingIsServed
  RestingIsWhole
PROPERTIES
  SubscribersConverge
  AnswersAreCurrent
  EveryLoadSettles
  DeletionSettles
CHECK_DEADLOCK FALSE
