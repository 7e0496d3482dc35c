SPECIFICATION LobbySpec
CONSTANTS
  Id = {1, 2, 3}
  Slug = {"s1", "s2", "s3"}
  Setting = {"plain", "edited"}
  Fresh = "plain"
  Batch = {{"s2", "s3"}}
  Slot = {"q1", "q2"}
  Cap = 1
  InitialRooms <- MCRooms
  Budgets <- MCBudgets
  Lobby = {1, 2, 3}
  LobbySlot = {"p1", "p2"}
  Instance = {"i1", "i2"}
  MaxLobbies = 1
  Homes <- MCHomes
  Places <- MCPlaces
INVARIANTS RoomTypeOK LobbyTypeOK EnsuredWithinCap AddedWithinCap ListsCurrent SessionLobbies
PROPERTIES Registered DeletedLobbiesStay
CHECK_DEADLOCK FALSE
