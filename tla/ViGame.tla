------------------------------- MODULE ViGame -------------------------------
(***************************************************************************)
(* The game loop of the vi-move game (game_design/v2_vi_move_game): a box  *)
(* of two by two pixels that the keys move over the display, and enemies   *)
(* that come along the first row from the right.                           *)
(*                                                                         *)
(* A frame is one step: process_key_input with the key, if there is one,   *)
(* that Ps2Keyboard delivers, update_enemies, check_collision and          *)
(* render_frame.  Interrupts only add to the key buffer.  The row of the   *)
(* box in characters, BOX_Y_COL, is computed by render_frame alone: the    *)
(* rest of a frame uses the row of the frame before.                       *)
(***************************************************************************)
EXTENDS Naturals

CONSTANTS
  Columns,       \* columns of the display, 16
  CellWidth,     \* pixels in a column, 5
  CellHeight,    \* pixels in a row, 8
  Step,          \* pixels a key moves the box, 3
  StartX, StartY,\* 39 and 7
  MaxX, MaxY,    \* 73 and 14
  EnemyFrames,   \* frames between two moves of the enemies, 10
  SpawnFrames,   \* frames between two tries to bring one in, 40
  CountLimit     \* SKIP_COUNT and KILL_COUNT are bytes, 256

ASSUME ViGameAssumption ==
  /\ Columns \in Nat /\ Columns >= 2
  /\ CellWidth \in Nat \ {0} /\ CellHeight \in Nat \ {0} /\ Step \in Nat
  /\ StartX \in 0 .. MaxX /\ StartY \in 0 .. MaxY
  /\ MaxX \in Nat /\ MaxX \div CellWidth < Columns
  /\ MaxY \in Nat /\ MaxY \div CellHeight <= 1
  /\ EnemyFrames \in Nat \ {0} /\ SpawnFrames \in Nat \ {0}
  /\ CountLimit \in Nat /\ CountLimit >= 2

Column == 0 .. Columns - 1
LastColumn == Columns - 1

(* What the numbers of the game have to do with each other: before the     *)
(* next enemy comes in the last one has moved three columns, a key takes   *)
(* the box no further than one, and it does not start in the last.         *)
ASSUME PaceAssumption ==
  /\ SpawnFrames >= 3 * EnemyFrames
  /\ Step <= CellWidth
  /\ StartX \div CellWidth < LastColumn

Game ==
  [ boxX       : 0 .. LastColumn * CellWidth + CellWidth - 1,
    boxY       : 0 .. MaxY,
    row        : 0 .. 1,               \* BOX_Y_COL
    enemies    : SUBSET Column,        \* ENEMY_POS
    enemyTimer : 0 .. EnemyFrames - 1,
    spawnTimer : 0 .. SpawnFrames - 1,
    skips      : 0 .. CountLimit - 1,
    kills      : 0 .. CountLimit - 1,
    over       : BOOLEAN ]

VARIABLE game

(* The box stays on the display and the timers below their limits.         *)
TypeOK == game \in Game

(* get_char_col.                                                           *)
CharCol(g) == g.boxX \div CellWidth

(* game_init.  At power on BOX_Y_COL is whatever is in RAM, of which only  *)
(* zero or not is ever looked at.                                          *)
Start(row) ==
  [ boxX |-> StartX, boxY |-> StartY, row |-> row,
    enemies |-> {LastColumn}, enemyTimer |-> 0, spawnTimer |-> 0,
    skips |-> 0, kills |-> 0, over |-> FALSE ]

Init == \E row \in 0 .. 1 : game = Start(row)

-----------------------------------------------------------------------------
(* process_key_input                                                       *)

Smaller(a, b) == IF a <= b THEN a ELSE b

MoveUp(g) == [g EXCEPT !.boxY = IF @ >= Step THEN @ - Step ELSE 0]
MoveDown(g) == [g EXCEPT !.boxY = Smaller(@ + Step, MaxY)]
MoveLeft(g) == [g EXCEPT !.boxX = IF @ >= Step THEN @ - Step ELSE 0]

(* Mutant: the right edge is not checked.                                  *)
MoveRight_NoLimit(g) == [g EXCEPT !.boxX = @ + Step]

MoveRight(g) == [g EXCEPT !.boxX = Smaller(@ + Step, MaxX)]

(* The first enemy to the right of the box.                                *)
Ahead(g) == {c \in g.enemies : c > CharCol(g)}
NextEnemy(g) == CHOOSE c \in Ahead(g) : \A d \in Ahead(g) : c <= d

(* Mutant: the box lands on the enemy.                                     *)
TeleportSkip_OnEnemy(g) ==
  IF g.row = 0 /\ Ahead(g) # {}
    THEN [g EXCEPT !.boxX = NextEnemy(g) * CellWidth,
                   !.skips = (@ + 1) % CountLimit]
    ELSE g

(* Mutant: the skip is not counted.                                        *)
TeleportSkip_Uncounted(g) ==
  IF g.row = 0 /\ Ahead(g) # {} /\ NextEnemy(g) # LastColumn
    THEN [g EXCEPT !.boxX = (NextEnemy(g) + 1) * CellWidth]
    ELSE g

TeleportSkip(g) ==
  IF g.row = 0 /\ Ahead(g) # {} /\ NextEnemy(g) # LastColumn
    THEN [g EXCEPT !.boxX = (NextEnemy(g) + 1) * CellWidth,
                   !.skips = (@ + 1) % CountLimit]
    ELSE g

KillEnemy(g) ==
  IF g.row = 0 /\ Ahead(g) # {}
    THEN [g EXCEPT !.enemies = @ \ {NextEnemy(g)},
                   !.kills = (@ + 1) % CountLimit]
    ELSE g

(* The key a frame takes, "none" when the buffer is empty; "other" stands  *)
(* for a key the game does not use.                                        *)
Keys == {"none", "other", "up", "down", "left", "right", "w", "x"}

ProcessKeyInput(g, key) ==
  CASE key \in {"none", "other"} -> g
    [] key = "up"    -> MoveUp(g)
    [] key = "down"  -> MoveDown(g)
    [] key = "left"  -> MoveLeft(g)
    [] key = "right" -> MoveRight(g)
    [] key = "w"     -> TeleportSkip(g)
    [] key = "x"     -> KillEnemy(g)

-----------------------------------------------------------------------------
(* update_enemies, check_collision, render_frame                           *)

(* One column to the left; the enemy in the first column is gone.          *)
Shifted(enemies) == {c \in Column : c + 1 \in enemies}

MoveEnemies(g) ==
  IF g.enemyTimer + 1 < EnemyFrames
    THEN [g EXCEPT !.enemyTimer = @ + 1]
    ELSE [g EXCEPT !.enemyTimer = 0, !.enemies = Shifted(@)]

SpawnEnemy(g) ==
  IF g.spawnTimer + 1 < SpawnFrames
    THEN [g EXCEPT !.spawnTimer = @ + 1]
    ELSE [g EXCEPT
            !.spawnTimer = 0,
            !.enemies = IF @ \cap {LastColumn - 1, LastColumn} = {}
                          THEN @ \cup {LastColumn} ELSE @]

UpdateEnemies(g) == SpawnEnemy(MoveEnemies(g))

CheckCollision(g) ==
  [g EXCEPT !.over = CharCol(g) \in g.enemies /\ g.row = 0]

RenderFrame(g) == [g EXCEPT !.row = g.boxY \div CellHeight]

Frame(key) ==
  /\ ~game.over
  /\ game' = RenderFrame(CheckCollision(UpdateEnemies(ProcessKeyInput(game, key))))

(* The reset button: RAM, BOX_Y_COL with it, is as it was.                 *)
WarmReset == game' = Start(game.row)

Next == (\E key \in Keys : Frame(key)) \/ WarmReset

Spec == Init /\ [][Next]_game

-----------------------------------------------------------------------------
(* Properties                                                              *)

(* Skipping over an enemy is never deadly in the frame that does it: the   *)
(* enemies are far enough apart, one moving in and one coming in at the    *)
(* right edge included, that the column behind an enemy is free.           *)
TeleportIsSurvived ==
  [][ game'.skips = (game.skips + 1) % CountLimit => ~game'.over ]_game

(* While the box is on the first row and lives, an enemy to its right gets *)
(* past it only when the player skips, or when box and enemy change places *)
(* in one frame, which check_collision does not see.                       *)
Moves == game.enemyTimer + 1 >= EnemyFrames

EnemiesPassOnlyBy ==
  [][ \A c \in Ahead(game) :
        LET to == IF Moves THEN c - 1 ELSE c
        IN game.row = 0 /\ game'.row = 0 /\ ~game'.over
             /\ to \in game'.enemies /\ to <= CharCol(game') =>
               \/ game'.skips # game.skips
               \/ Moves /\ c = CharCol(game) + 1 /\ to = CharCol(game) /\ c = CharCol(game') ]_game
=============================================================================
