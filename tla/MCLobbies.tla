------------------------------ MODULE MCLobbies ------------------------------
(* Each place starts a run with its own tables and its own mix of calls.   *)
EXTENDS Lobbies

Row1(s) == [state |-> "live", slug |-> s, setting |-> "plain"]
Empty == [r \in Id |-> Blank]
OneRoom == [r \in Id |-> IF r = 1 THEN Row1("s1") ELSE Blank]
TwoRooms == [r \in Id |-> IF r = 1 THEN Row1("s1") ELSE IF r = 2 THEN Row1("s2") ELSE Blank]
NoLobby == [l \in Lobby |-> Blank]
OneLobby == [l \in Lobby |-> IF l = 1 THEN Row1("s1") ELSE Blank]
TwoLobbies == [l \in Lobby |-> IF l = 1 THEN Row1("s1") ELSE IF l = 2 THEN Row1("s2") ELSE Blank]
AllLobbies == [l \in Lobby |-> Row1(IF l = 1 THEN "s1" ELSE IF l = 2 THEN "s2" ELSE "s3")]

Calls(some, ops) == [op \in ops |-> IF op \in DOMAIN some THEN some[op] ELSE 0]
RoomPlace(table, some) ==
  [room |-> table, budget |-> Calls(some, Op), lobby |-> NoLobby, members |-> {},
   lobbyBudget |-> Calls(<<>>, LobbyOp)]
LobbyPlaceIn(table, some, lobbies, links, more) ==
  [room |-> table, budget |-> Calls(some, Op), lobby |-> lobbies, members |-> links,
   lobbyBudget |-> Calls(more, LobbyOp)]

LobbyPlace(some, lobbies, links, more) == LobbyPlaceIn(OneRoom, some, lobbies, links, more)

MCPlaces ==
  { RoomPlace(Empty, [ensure |-> 3]),
    RoomPlace(OneRoom, [ensure |-> 2, delete |-> 2]),
    RoomPlace(Empty, [ensure |-> 1, create |-> 1, provision |-> 1]),
    RoomPlace(OneRoom, [ensure |-> 1, update |-> 1, delete |-> 2]),
    LobbyPlace(<<>>, AllLobbies, {}, [add |-> 3]),
    LobbyPlace([delete |-> 1], TwoLobbies, {<<1, 1>>},
               [add |-> 1, remove |-> 1, list |-> 1]),
    LobbyPlace(<<>>, TwoLobbies, {<<1, 1>>}, [remove |-> 1, list |-> 2]),
    LobbyPlace(<<>>, TwoLobbies, {}, [delete |-> 1, add |-> 1, list |-> 1]),
    LobbyPlace(<<>>, TwoLobbies, {<<1, 1>>}, [session |-> 1, delete |-> 1, add |-> 1]),
    LobbyPlaceIn(TwoRooms, <<>>, TwoLobbies, {<<1, 1>>, <<1, 2>>, <<2, 2>>},
                 [session |-> 1, delete |-> 1, remove |-> 1]),
    LobbyPlace(<<>>, OneLobby, {<<1, 1>>}, [session |-> 1, remove |-> 1, provision |-> 1]),
    LobbyPlace(<<>>, OneLobby, {<<1, 1>>}, [provision |-> 1, list |-> 1, create |-> 1]),
    LobbyPlace(<<>>, TwoLobbies, {}, [update |-> 2, delete |-> 1]) }
MCHomes == { f \in [LobbySlot -> Instance] : f["p1"] = "i1" }
MCRooms == { p.room : p \in MCPlaces }
MCBudgets == { p.budget : p \in MCPlaces }
=============================================================================
