-------------------------------- MODULE Apps --------------------------------
(***************************************************************************)
(* The programs of one screen or two share nothing: app says which of them   *)
(* a behaviour is about, and the others stay as they were installed.        *)
(***************************************************************************)
EXTENDS Followers, TodoList, TravelList, TicTacToe

VARIABLE app

appsVars == <<app, followersVars, todoVars, travelVars, ticTacToeVars>>

AppsInit ==
    /\ app \in {"Instagram-Clone", "Todo-List", "Travel-List", "Tic-Tac-Toe"}
    /\ FollowersInit /\ TodoInit /\ TravelInit /\ TicTacToeInit

AppsNext ==
    /\ UNCHANGED app
    /\ \/ /\ app = "Instagram-Clone"
          /\ FollowersNext
          /\ UNCHANGED <<todoVars, travelVars, ticTacToeVars>>
       \/ /\ app = "Todo-List"
          /\ TodoNext
          /\ UNCHANGED <<followersVars, travelVars, ticTacToeVars>>
       \/ /\ app = "Travel-List"
          /\ TravelNext
          /\ UNCHANGED <<followersVars, todoVars, ticTacToeVars>>
       \/ /\ app = "Tic-Tac-Toe"
          /\ TicTacToeNext
          /\ UNCHANGED <<followersVars, todoVars, travelVars>>

AppsSpec == AppsInit /\ [][AppsNext]_appsVars
=============================================================================
