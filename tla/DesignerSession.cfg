SPECIFICATION SessionSpec
CONSTANT MaxLost = 3
INVARIANTS RefreshNeverThrows StartsOnLoadedMaps StartsFromOff
PROPERTY AnsweredUnlessLost
