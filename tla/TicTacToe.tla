------------------------------ MODULE TicTacToe ------------------------------
(***************************************************************************)
(* Tic-Tac-Toe: BoardViewController.  An alert covers the board until its    *)
(* only button is tapped, which resets the board; a second alert cannot be   *)
(* presented over the first.                                               *)
(***************************************************************************)
EXTENDS Integers, FiniteSets

VARIABLES playerX, playerO,  \* the cells each player has taken
          marked,            \* the cells that show a title
          enabled,           \* the cells that take a tap
          currPlayer,        \* also what the label shows
          alert              \* "start", the winner, "over", or "none"

ticTacToeVars == <<playerX, playerO, marked, enabled, currPlayer, alert>>

Cells == 0..8

winningCombinations ==
    {{0,1,2}, {3,4,5}, {6,7,8}, {0,3,6}, {1,4,7}, {2,5,8}, {0,4,8}, {2,4,6}}

checkWinner(player) == \E combo \in winningCombinations : combo \subseteq player

TicTacToeInit ==
    /\ playerX = {} /\ playerO = {} /\ marked = {}
    /\ enabled = Cells
    /\ currPlayer = "X"
    /\ alert = "start"       \* viewDidAppear

Reset ==
    /\ playerX' = {} /\ playerO' = {} /\ marked' = {}
    /\ enabled' = Cells

\* Mutant: the full board is looked at first.
Presented_FullFirst(won, full) ==
    IF full THEN "over" ELSE IF won THEN currPlayer ELSE "none"

\* present does nothing while another alert is presented.
Presented(won, full) ==
    IF won THEN currPlayer ELSE IF full THEN "over" ELSE "none"

\* boardTap with checkWinner and isBoardFull: a board that is full is emptied at
\* once, behind the alert.
BoardTap(cell) ==
    LET X == IF currPlayer = "X" THEN playerX \cup {cell} ELSE playerX
        O == IF currPlayer = "O" THEN playerO \cup {cell} ELSE playerO
        full == enabled = {cell}
    IN  /\ alert = "none" /\ cell \in enabled
        /\ alert' = Presented(checkWinner(IF currPlayer = "X" THEN X ELSE O), full)
        /\ currPlayer' = IF currPlayer = "X" THEN "O" ELSE "X"
        /\ IF full THEN Reset
           ELSE /\ playerX' = X /\ playerO' = O
                /\ marked' = marked \cup {cell}
                /\ enabled' = enabled \ {cell}

\* The button of the alert.
Dismiss ==
    /\ alert # "none"
    /\ alert' = "none"
    /\ Reset
    /\ UNCHANGED currPlayer

RestartGame ==
    /\ alert = "none"
    /\ Reset
    /\ UNCHANGED <<currPlayer, alert>>

TicTacToeNext ==
    \/ \E cell \in Cells : BoardTap(cell)
    \/ Dismiss \/ RestartGame

-----------------------------------------------------------------------------
(* Properties *)

\* The numbers of the magic square: three cells are in line iff theirs add up to 15.
Magic == [c \in Cells |-> CASE c = 0 -> 2 [] c = 1 -> 7 [] c = 2 -> 6
                            [] c = 3 -> 9 [] c = 4 -> 5 [] c = 5 -> 1
                            [] c = 6 -> 4 [] c = 7 -> 3 [] c = 8 -> 8]

InLine(cells) ==
    \E a, b, c \in cells : a < b /\ b < c /\ Magic[a] + Magic[b] + Magic[c] = 15

\* A game is decided by the rules and announced as it was decided, also when the
\* last free cell decides it and the board is emptied behind the alert; a decided
\* board is never played on or left without its alert.
Decided ==
    [][ /\ \A cell \in enabled :
             BoardTap(cell) =>
                (alert' = currPlayer <=>
                    InLine({cell} \cup IF currPlayer = "X" THEN playerX ELSE playerO))
        /\ InLine(playerX') => alert' = "X"
        /\ InLine(playerO') => alert' = "O"
      ]_ticTacToeVars
=============================================================================
