----------------------------- MODULE ViGame_proofs -----------------------------
(***************************************************************************)
(* The vi-move game, proved for every size of the display and of the box's *)
(* step, and every pair of frame counts of the enemies.                    *)
(***************************************************************************)
EXTENDS ViGame, NaturalsInduction, WellFoundedInduction, TLAPS

-----------------------------------------------------------------------------
(* Numbers                                                                 *)

(* CELL_COL of pixels: the column of a pixel grows with it, by no more     *)
(* than one column for a step no longer than a column.                     *)
LEMMA ColumnIsMonotone ==
  ASSUME NEW a \in Nat, NEW b \in Nat, NEW d \in Nat \ {0}, a <= b
  PROVE  a \div d <= b \div d
OBVIOUS

LEMMA ColumnOfStep ==
  ASSUME NEW a \in Nat, NEW e \in Nat, NEW d \in Nat \ {0}, e <= d
  PROVE  (a + e) \div d <= (a \div d) + 1
OBVIOUS

LEMMA ColumnOfProduct ==
  ASSUME NEW q \in Nat, NEW d \in Nat \ {0}
  PROVE  (q * d) \div d = q
OBVIOUS

LEMMA ColumnType ==
  ASSUME NEW a \in Nat, NEW d \in Nat \ {0}
  PROVE  a \div d \in Nat
OBVIOUS

(* The pixels up to the last of the last column are those of a column.     *)
LEMMA ColumnBound ==
  ASSUME NEW a \in Nat, NEW d \in Nat \ {0}, NEW q \in Nat
  PROVE  a \div d < q + 1 <=> a <= q * d + d - 1
OBVIOUS

(* INC on a byte counter: what it holds afterwards is not what it held.    *)
LEMMA CountUp ==
  ASSUME NEW s \in 0 .. CountLimit - 1
  PROVE  /\ (s + 1) % CountLimit \in 0 .. CountLimit - 1
         /\ (s + 1) % CountLimit # s
<1>1. CountLimit \in Nat /\ CountLimit >= 2
  BY ViGameAssumption
<1>2. CASE s + 1 = CountLimit
  <2>1. (s + 1) % CountLimit = 0
    BY <1>1, <1>2
  <2>2. QED
    BY <1>1, <1>2, <2>1
<1>3. CASE s + 1 < CountLimit
  <2>1. (s + 1) % CountLimit = s + 1
    BY <1>1, <1>3
  <2>2. QED
    BY <1>1, <1>3, <2>1
<1>4. QED
  BY <1>1, <1>2, <1>3

LEMMA SmallerFacts ==
  ASSUME NEW a \in Nat, NEW b \in Nat
  PROVE  Smaller(a, b) \in Nat /\ Smaller(a, b) <= a /\ Smaller(a, b) <= b
BY DEF Smaller

(* The display has columns, and the box is put in one of them.             *)
LEMMA SizeFacts ==
  /\ LastColumn \in Nat \ {0} /\ LastColumn + 1 = Columns
  /\ CellWidth \in Nat \ {0} /\ Step \in Nat
  /\ MaxX \in Nat /\ MaxX <= LastColumn * CellWidth + CellWidth - 1
  /\ LastColumn * CellWidth \in Nat
<1>1. /\ Columns \in Nat /\ Columns >= 2 /\ CellWidth \in Nat \ {0} /\ Step \in Nat
      /\ MaxX \in Nat /\ MaxX \div CellWidth < Columns
  BY ViGameAssumption
<1>2. LastColumn \in Nat \ {0} /\ LastColumn + 1 = Columns
  BY <1>1 DEF LastColumn
<1> HIDE DEF LastColumn
<1>3. MaxX <= LastColumn * CellWidth + CellWidth - 1
  BY <1>1, <1>2, ColumnBound
<1>4. QED
  BY <1>1, <1>2, <1>3

-----------------------------------------------------------------------------
(* What the parts of a frame do                                            *)

(* The fields of a game have their types.                                  *)
LEMMA GameFields ==
  ASSUME NEW g \in Game
  PROVE  /\ g.boxX \in Nat /\ g.boxX <= LastColumn * CellWidth + CellWidth - 1
         /\ g.boxY \in 0 .. MaxY /\ g.row \in 0 .. 1
         /\ g.enemies \subseteq Column
         /\ g.enemyTimer \in 0 .. EnemyFrames - 1 /\ g.spawnTimer \in 0 .. SpawnFrames - 1
         /\ g.skips \in 0 .. CountLimit - 1 /\ g.kills \in 0 .. CountLimit - 1
         /\ g.over \in BOOLEAN
         /\ CharCol(g) \in Nat /\ CharCol(g) <= LastColumn
<1>1. /\ g.boxX \in 0 .. LastColumn * CellWidth + CellWidth - 1
      /\ g.boxY \in 0 .. MaxY /\ g.row \in 0 .. 1
      /\ g.enemies \subseteq Column
      /\ g.enemyTimer \in 0 .. EnemyFrames - 1 /\ g.spawnTimer \in 0 .. SpawnFrames - 1
      /\ g.skips \in 0 .. CountLimit - 1 /\ g.kills \in 0 .. CountLimit - 1
      /\ g.over \in BOOLEAN
  BY DEF Game
<1>2. /\ LastColumn \in Nat /\ CellWidth \in Nat \ {0} /\ LastColumn * CellWidth \in Nat
  BY SizeFacts
<1> HIDE DEF LastColumn
<1>3. g.boxX \in Nat /\ g.boxX <= LastColumn * CellWidth + CellWidth - 1
  BY <1>1, <1>2
<1>4. g.boxX \div CellWidth \in Nat /\ g.boxX \div CellWidth < LastColumn + 1
  BY <1>2, <1>3, ColumnType, ColumnBound
<1>5. QED
  BY <1>1, <1>2, <1>3, <1>4 DEF CharCol

(* The enemy that w and x are about is there, and the first one ahead.     *)
LEMMA NextEnemyIsFirst ==
  ASSUME NEW g \in Game, Ahead(g) # {}
  PROVE  /\ NextEnemy(g) \in g.enemies /\ NextEnemy(g) \in Column
         /\ NextEnemy(g) > CharCol(g)
         /\ \A c \in Ahead(g) : NextEnemy(g) <= c
<1>1. Ahead(g) \subseteq Nat /\ Ahead(g) \subseteq g.enemies /\ g.enemies \subseteq Column
  BY GameFields DEF Ahead, Column
<1> DEFINE R == OpToRel(<, Nat)
<1>2. IsWellFoundedOn(R, Nat) /\ \A c \in Nat, d \in Nat : d < c => <<d, c>> \in R
  BY NatLessThanWellFounded DEF OpToRel
<1> HIDE DEF R
<1>3. PICK m \in Ahead(g) : \A d \in Ahead(g) : m <= d
  <2>1. PICK m \in Ahead(g) : \A d \in Ahead(g) : ~(<<d, m>> \in R)
    <3> HIDE DEF Ahead
    <3>1. QED
      BY <1>1, <1>2, WFMin
  <2>2. ASSUME NEW d \in Ahead(g)
        PROVE  m <= d
    <3>1. m \in Nat /\ d \in Nat
      BY <1>1
    <3>2. ~(<<d, m>> \in R)
      BY <2>1
    <3>3. d < m => <<d, m>> \in R
      BY <1>2, <3>1, Zenon
    <3>4. ~(d < m)
      BY <3>2, <3>3, Zenon
    <3>5. QED
      BY <3>1, <3>4
  <2>3. QED
    BY <2>2
<1>4. NextEnemy(g) \in Ahead(g) /\ \A d \in Ahead(g) : NextEnemy(g) <= d
  BY <1>3 DEF NextEnemy
<1>5. QED
  BY <1>1, <1>4 DEF Ahead

(* The box goes to pixel v of the display, and the game is one.            *)
LEMMA BoxMoved ==
  ASSUME NEW g \in Game, NEW v \in Nat, v <= LastColumn * CellWidth + CellWidth - 1
  PROVE  [g EXCEPT !.boxX = v] \in Game
<1>1. v \in 0 .. LastColumn * CellWidth + CellWidth - 1
  BY SizeFacts
<1>2. QED
  BY <1>1 DEF Game

(* The keys of process_key_input that move the box or do nothing.          *)
MoveKeys == {"up", "down", "left", "right", "none", "other"}

(* process_key_input: the keys that move the box.                          *)
LEMMA ArrowKeys ==
  ASSUME NEW g \in Game, NEW key \in MoveKeys,
         NEW p, p = ProcessKeyInput(g, key)
  PROVE  /\ p \in Game
         /\ p.row = g.row /\ p.enemies = g.enemies /\ p.skips = g.skips
         /\ p.enemyTimer = g.enemyTimer /\ p.spawnTimer = g.spawnTimer
         /\ CharCol(p) <= CharCol(g) + 1
         /\ key # "right" => CharCol(p) <= CharCol(g)
<1>1. /\ g.boxX \in Nat /\ g.boxX <= LastColumn * CellWidth + CellWidth - 1
      /\ g.boxY \in 0 .. MaxY /\ CharCol(g) \in Nat
  BY GameFields
<1>2. /\ LastColumn \in Nat \ {0} /\ CellWidth \in Nat \ {0} /\ Step \in Nat
      /\ MaxX \in Nat /\ MaxX <= LastColumn * CellWidth + CellWidth - 1
      /\ LastColumn * CellWidth \in Nat
  BY SizeFacts
<1>3. MaxY \in Nat /\ Step <= CellWidth
  BY ViGameAssumption, PaceAssumption
<1> HIDE DEF LastColumn
<1>4. CASE key \in {"none", "other"}
  <2>1. p = g
    BY <1>4 DEF ProcessKeyInput
  <2>2. QED
    BY <1>1, <1>4, <2>1
<1>5. CASE key \in {"up", "down"}
  <2>1. PICK v \in 0 .. MaxY : p = [g EXCEPT !.boxY = v]
    <3>1. CASE key = "up"
      <4>1. (IF g.boxY >= Step THEN g.boxY - Step ELSE 0) \in 0 .. MaxY
        BY <1>1, <1>2, <1>3
      <4>2. p = [g EXCEPT !.boxY = IF g.boxY >= Step THEN g.boxY - Step ELSE 0]
        BY <3>1 DEF ProcessKeyInput, MoveUp
      <4>3. QED
        BY <4>1, <4>2
    <3>2. CASE key = "down"
      <4>1. Smaller(g.boxY + Step, MaxY) \in 0 .. MaxY
        BY <1>1, <1>2, <1>3 DEF Smaller
      <4>2. p = [g EXCEPT !.boxY = Smaller(g.boxY + Step, MaxY)]
        BY <3>2 DEF ProcessKeyInput, MoveDown
      <4>3. QED
        BY <4>1, <4>2
    <3>3. QED
      BY <1>5, <3>1, <3>2
  <2>2. /\ p \in Game /\ p.boxX = g.boxX
        /\ p.row = g.row /\ p.enemies = g.enemies /\ p.skips = g.skips
        /\ p.enemyTimer = g.enemyTimer /\ p.spawnTimer = g.spawnTimer
    BY <2>1 DEF Game
  <2>3. QED
    BY <1>1, <1>5, <2>2 DEF CharCol
<1>6. CASE key \in {"left", "right"}
  <2>1. PICK v \in Nat :
          /\ p = [g EXCEPT !.boxX = v] /\ v <= LastColumn * CellWidth + CellWidth - 1
          /\ v <= g.boxX + Step /\ (key = "left" => v <= g.boxX)
    <3>1. CASE key = "left"
      <4> DEFINE v == IF g.boxX >= Step THEN g.boxX - Step ELSE 0
      <4>1. v \in Nat /\ v <= g.boxX
        BY <1>1, <1>2
      <4>2. p = [g EXCEPT !.boxX = v]
        BY <3>1 DEF ProcessKeyInput, MoveLeft
      <4> HIDE DEF v
      <4>3. v <= LastColumn * CellWidth + CellWidth - 1 /\ v <= g.boxX + Step
        BY <1>1, <1>2, <4>1
      <4>4. QED
        BY <4>1, <4>2, <4>3
    <3>2. CASE key = "right"
      <4> DEFINE v == Smaller(g.boxX + Step, MaxX)
      <4>1. v \in Nat /\ v <= g.boxX + Step /\ v <= MaxX
        <5>1. g.boxX + Step \in Nat /\ MaxX \in Nat
          BY <1>1, <1>2
        <5>2. QED
          BY <5>1, SmallerFacts
      <4>2. p = [g EXCEPT !.boxX = v]
        BY <3>2 DEF ProcessKeyInput, MoveRight
      <4> HIDE DEF v
      <4>3. v <= LastColumn * CellWidth + CellWidth - 1
        BY <1>2, <4>1
      <4>4. QED
        BY <3>2, <4>1, <4>2, <4>3
    <3>3. QED
      BY <1>6, <3>1, <3>2
  <2>2. p \in Game
    BY <2>1, BoxMoved
  <2>3. /\ p.boxX = v
        /\ p.row = g.row /\ p.enemies = g.enemies /\ p.skips = g.skips
        /\ p.enemyTimer = g.enemyTimer /\ p.spawnTimer = g.spawnTimer
    BY <2>1 DEF Game
  <2>4. v \div CellWidth <= (g.boxX \div CellWidth) + 1
    <3>1. g.boxX + Step \in Nat /\ v <= g.boxX + Step
      BY <1>1, <1>2, <2>1
    <3>2. v \div CellWidth <= (g.boxX + Step) \div CellWidth
      BY <1>2, <3>1, ColumnIsMonotone
    <3>3. (g.boxX + Step) \div CellWidth <= (g.boxX \div CellWidth) + 1
      BY <1>1, <1>2, <1>3, ColumnOfStep
    <3>4. /\ v \div CellWidth \in Nat /\ g.boxX \div CellWidth \in Nat
          /\ (g.boxX + Step) \div CellWidth \in Nat
      BY <1>1, <1>2, <3>1, ColumnType
    <3>5. QED
      BY <3>2, <3>3, <3>4
  <2>5. key = "left" => v \div CellWidth <= g.boxX \div CellWidth
    BY <1>1, <1>2, <2>1, ColumnIsMonotone
  <2>6. QED
    BY <1>6, <2>2, <2>3, <2>4, <2>5 DEF CharCol
<1>7. QED
  BY <1>4, <1>5, <1>6 DEF MoveKeys

(* teleport_skip: the box is in the column behind the enemy, or nothing    *)
(* happens.                                                                *)
LEMMA SkipKey ==
  ASSUME NEW g \in Game, NEW p, p = ProcessKeyInput(g, "w")
  PROVE  \/ p = g
         \/ /\ g.row = 0 /\ Ahead(g) # {} /\ NextEnemy(g) # LastColumn
            /\ p \in Game
            /\ p.row = g.row /\ p.enemies = g.enemies
            /\ p.enemyTimer = g.enemyTimer /\ p.spawnTimer = g.spawnTimer
            /\ p.skips = (g.skips + 1) % CountLimit
            /\ CharCol(p) = NextEnemy(g) + 1
<1>1. p = TeleportSkip(g)
  BY DEF ProcessKeyInput
<1> SUFFICES ASSUME g.row = 0, Ahead(g) # {}, NextEnemy(g) # LastColumn
             PROVE  /\ p \in Game
                    /\ p.row = g.row /\ p.enemies = g.enemies
                    /\ p.enemyTimer = g.enemyTimer /\ p.spawnTimer = g.spawnTimer
                    /\ p.skips = (g.skips + 1) % CountLimit
                    /\ CharCol(p) = NextEnemy(g) + 1
  BY <1>1 DEF TeleportSkip
<1> DEFINE n == NextEnemy(g)
           v == (n + 1) * CellWidth
           s == (g.skips + 1) % CountLimit
<1>2. /\ LastColumn \in Nat \ {0} /\ CellWidth \in Nat \ {0} /\ LastColumn + 1 = Columns
  BY SizeFacts
<1>3. n \in Nat /\ n + 1 \in Nat /\ n + 1 <= LastColumn
  BY <1>2, NextEnemyIsFirst DEF Column, LastColumn
<1>4. p = [g EXCEPT !.boxX = v, !.skips = s]
  BY <1>1 DEF TeleportSkip
<1>5. s \in 0 .. CountLimit - 1
  BY GameFields, CountUp
<1> HIDE DEF LastColumn, n, s
<1>6. v \in Nat /\ v <= LastColumn * CellWidth + CellWidth - 1
  <2>1. (n + 1) * CellWidth \in Nat /\ LastColumn * CellWidth \in Nat
    BY <1>2, <1>3
  <2>2. (n + 1) * CellWidth <= LastColumn * CellWidth
    BY <1>2, <1>3
  <2>3. QED
    BY <1>2, <2>1, <2>2
<1>7. v \div CellWidth = n + 1
  BY <1>2, <1>3, ColumnOfProduct
<1>8. v \in 0 .. LastColumn * CellWidth + CellWidth - 1
  BY <1>2, <1>6
<1> HIDE DEF v
<1>9. /\ p \in Game /\ p.boxX = v /\ p.skips = s
      /\ p.row = g.row /\ p.enemies = g.enemies
      /\ p.enemyTimer = g.enemyTimer /\ p.spawnTimer = g.spawnTimer
  BY <1>4, <1>5, <1>8 DEF Game
<1>10. QED
  BY <1>7, <1>9 DEF CharCol, n, s

(* kill_enemy takes an enemy away, or nothing happens.                     *)
LEMMA KillKey ==
  ASSUME NEW g \in Game, NEW p, p = ProcessKeyInput(g, "x")
  PROVE  /\ p \in Game
         /\ p.row = g.row /\ p.enemies \subseteq g.enemies /\ p.skips = g.skips
         /\ p.enemyTimer = g.enemyTimer /\ p.spawnTimer = g.spawnTimer
         /\ CharCol(p) = CharCol(g)
<1>1. p = KillEnemy(g)
  BY DEF ProcessKeyInput
<1>2. CASE ~(g.row = 0 /\ Ahead(g) # {})
  BY <1>1, <1>2 DEF KillEnemy
<1>3. CASE g.row = 0 /\ Ahead(g) # {}
  <2> DEFINE e == g.enemies \ {NextEnemy(g)}
             k == (g.kills + 1) % CountLimit
  <2>1. p = [g EXCEPT !.enemies = e, !.kills = k]
    BY <1>1, <1>3 DEF KillEnemy
  <2>2. e \in SUBSET Column /\ e \subseteq g.enemies /\ k \in 0 .. CountLimit - 1
    BY GameFields, CountUp
  <2> HIDE DEF e, k
  <2>3. /\ p \in Game /\ p.enemies = e /\ p.boxX = g.boxX
        /\ p.row = g.row /\ p.skips = g.skips
        /\ p.enemyTimer = g.enemyTimer /\ p.spawnTimer = g.spawnTimer
    BY <2>1, <2>2 DEF Game
  <2>4. QED
    BY <2>2, <2>3 DEF CharCol
<1>4. QED
  BY <1>2, <1>3

-----------------------------------------------------------------------------
(* The enemies                                                             *)

(* Between two enemies there are two free columns.                         *)
Spaced(enemies) == \A c \in enemies, d \in enemies : c < d => c + 3 <= d

(* What an enemy has come from the right edge, in frames, is no less than  *)
(* what has passed since the last try to bring one in.                     *)
Paced(enemies, enemyTimer, spawnTimer) ==
  \A c \in enemies : (LastColumn - c) * EnemyFrames + enemyTimer >= spawnTimer

(* move_enemies: all of them move, every EnemyFrames frames.               *)
LEMMA MoveFacts ==
  ASSUME NEW g \in Game, NEW m, m = MoveEnemies(g)
  PROVE  /\ m \in Game
         /\ m.boxX = g.boxX /\ m.boxY = g.boxY /\ m.row = g.row /\ m.skips = g.skips
         /\ m.spawnTimer = g.spawnTimer
         /\ \/ /\ g.enemyTimer + 1 < EnemyFrames
               /\ m.enemies = g.enemies /\ m.enemyTimer = g.enemyTimer + 1
            \/ /\ g.enemyTimer + 1 = EnemyFrames
               /\ m.enemies = Shifted(g.enemies) /\ m.enemyTimer = 0
<1>1. g.enemyTimer \in 0 .. EnemyFrames - 1 /\ EnemyFrames \in Nat \ {0}
  BY GameFields, ViGameAssumption
<1>2. CASE g.enemyTimer + 1 < EnemyFrames
  <2> DEFINE t == g.enemyTimer + 1
  <2>1. t \in 0 .. EnemyFrames - 1
    BY <1>1, <1>2
  <2>2. m = [g EXCEPT !.enemyTimer = t]
    BY <1>2 DEF MoveEnemies
  <2> HIDE DEF t
  <2>3. /\ m \in Game /\ m.enemyTimer = t /\ m.enemies = g.enemies
        /\ m.boxX = g.boxX /\ m.boxY = g.boxY /\ m.row = g.row /\ m.skips = g.skips
        /\ m.spawnTimer = g.spawnTimer
    BY <2>1, <2>2 DEF Game
  <2>4. QED
    BY <1>2, <2>3 DEF t
<1>3. CASE ~(g.enemyTimer + 1 < EnemyFrames)
  <2> DEFINE e == Shifted(g.enemies)
  <2>1. e \in SUBSET Column /\ 0 \in 0 .. EnemyFrames - 1
    BY <1>1 DEF Shifted
  <2>2. m = [g EXCEPT !.enemyTimer = 0, !.enemies = e]
    BY <1>3 DEF MoveEnemies
  <2> HIDE DEF e
  <2>3. /\ m \in Game /\ m.enemyTimer = 0 /\ m.enemies = e
        /\ m.boxX = g.boxX /\ m.boxY = g.boxY /\ m.row = g.row /\ m.skips = g.skips
        /\ m.spawnTimer = g.spawnTimer
    BY <2>1, <2>2 DEF Game
  <2>4. g.enemyTimer + 1 = EnemyFrames
    BY <1>1, <1>3
  <2>5. QED
    BY <2>3, <2>4 DEF e
<1>4. QED
  BY <1>2, <1>3

(* spawn_enemy: one comes in when the two last columns are free.           *)
LEMMA SpawnFacts ==
  ASSUME NEW g \in Game, NEW m, m = SpawnEnemy(g)
  PROVE  /\ m \in Game
         /\ m.boxX = g.boxX /\ m.boxY = g.boxY /\ m.row = g.row /\ m.skips = g.skips
         /\ m.enemyTimer = g.enemyTimer
         /\ \/ m.enemies = g.enemies /\ m.spawnTimer = g.spawnTimer + 1
            \/ m.enemies = g.enemies /\ m.spawnTimer = 0
            \/ /\ g.spawnTimer + 1 = SpawnFrames /\ m.spawnTimer = 0
               /\ g.enemies \cap {LastColumn - 1, LastColumn} = {}
               /\ m.enemies = g.enemies \cup {LastColumn}
<1>1. g.spawnTimer \in 0 .. SpawnFrames - 1 /\ SpawnFrames \in Nat \ {0}
  BY GameFields, ViGameAssumption
<1>2. CASE g.spawnTimer + 1 < SpawnFrames
  <2> DEFINE t == g.spawnTimer + 1
  <2>1. t \in 0 .. SpawnFrames - 1
    BY <1>1, <1>2
  <2>2. m = [g EXCEPT !.spawnTimer = t]
    BY <1>2 DEF SpawnEnemy
  <2> HIDE DEF t
  <2>3. /\ m \in Game /\ m.spawnTimer = t /\ m.enemies = g.enemies
        /\ m.boxX = g.boxX /\ m.boxY = g.boxY /\ m.row = g.row /\ m.skips = g.skips
        /\ m.enemyTimer = g.enemyTimer
    BY <2>1, <2>2 DEF Game
  <2>4. QED
    BY <1>2, <2>3 DEF t
<1>3. CASE ~(g.spawnTimer + 1 < SpawnFrames)
  <2> DEFINE free == g.enemies \cap {LastColumn - 1, LastColumn} = {}
             e == IF free THEN g.enemies \cup {LastColumn} ELSE g.enemies
  <2>1. e \in SUBSET Column /\ 0 \in 0 .. SpawnFrames - 1
    <3>1. LastColumn \in Column
      BY SizeFacts DEF Column, LastColumn
    <3>2. g.enemies \subseteq Column
      BY GameFields
    <3>3. QED
      BY <1>1, <3>1, <3>2
  <2>2. m = [g EXCEPT !.spawnTimer = 0, !.enemies = e]
    BY <1>3 DEF SpawnEnemy
  <2> HIDE DEF e
  <2>3. /\ m \in Game /\ m.spawnTimer = 0 /\ m.enemies = e
        /\ m.boxX = g.boxX /\ m.boxY = g.boxY /\ m.row = g.row /\ m.skips = g.skips
        /\ m.enemyTimer = g.enemyTimer
    BY <2>1, <2>2 DEF Game
  <2>4. g.spawnTimer + 1 = SpawnFrames
    BY <1>1, <1>3
  <2>5. QED
    BY <2>3, <2>4 DEF e
<1>4. QED
  BY <1>2, <1>3

(* The distances stay when all move, and an enemy moves one column in the  *)
(* time of one column.                                                     *)
LEMMA MoveKeepsSpacing ==
  ASSUME NEW g \in Game, Spaced(g.enemies),
         Paced(g.enemies, g.enemyTimer, g.spawnTimer), NEW m, m = MoveEnemies(g)
  PROVE  /\ Spaced(m.enemies) /\ Paced(m.enemies, m.enemyTimer, m.spawnTimer + 1)
         /\ m.enemies \subseteq Column
<1>1. /\ g.enemies \subseteq Column /\ g.spawnTimer \in Nat /\ g.enemyTimer \in Nat
      /\ EnemyFrames \in Nat
  BY GameFields, ViGameAssumption
<1>2. LastColumn \in Nat /\ Column \subseteq Nat
  BY SizeFacts DEF Column
<1>3. m.spawnTimer = g.spawnTimer
  BY MoveFacts
<1>4. CASE m.enemies = g.enemies /\ m.enemyTimer = g.enemyTimer + 1
  <2>1. ASSUME NEW c \in m.enemies
        PROVE  (LastColumn - c) * EnemyFrames + m.enemyTimer >= m.spawnTimer + 1
    <3> DEFINE k == (LastColumn - c) * EnemyFrames
    <3>1. k \in Int /\ k + g.enemyTimer >= g.spawnTimer
      <4>1. c \in g.enemies
        BY <1>4
      <4>2. c \in Nat
        BY <1>1, <1>2, <4>1
      <4>3. k \in Int
        BY <1>1, <1>2, <4>2
      <4>4. QED
        BY <4>1, <4>3 DEF Paced
    <3> HIDE DEF k
    <3>2. k + m.enemyTimer >= m.spawnTimer + 1
      BY <1>1, <1>3, <1>4, <3>1
    <3>3. QED
      BY <3>2 DEF k
  <2>2. QED
    BY <1>1, <1>4, <2>1 DEF Paced
<1>5. CASE /\ g.enemyTimer + 1 = EnemyFrames
           /\ m.enemies = Shifted(g.enemies) /\ m.enemyTimer = 0
  <2>1. \A c \in m.enemies : c \in Column /\ c \in Nat /\ c + 1 \in g.enemies
    BY <1>2, <1>5 DEF Shifted
  <2>2. ASSUME NEW c \in m.enemies, NEW d \in m.enemies, c < d
        PROVE  c + 3 <= d
    <3>1. c \in Nat /\ d \in Nat /\ c + 1 \in g.enemies /\ d + 1 \in g.enemies /\ c + 1 < d + 1
      BY <2>1, <2>2
    <3>2. (c + 1) + 3 <= d + 1
      BY <3>1 DEF Spaced
    <3>3. QED
      BY <3>1, <3>2
  <2>3. ASSUME NEW c \in m.enemies
        PROVE  (LastColumn - c) * EnemyFrames + m.enemyTimer >= m.spawnTimer + 1
    <3> DEFINE k == (LastColumn - (c + 1)) * EnemyFrames
    <3>1. c \in Nat /\ k + g.enemyTimer >= g.spawnTimer
      BY <2>1 DEF Paced
    <3>2. (LastColumn - c) * EnemyFrames = k + EnemyFrames /\ k \in Int
      BY <1>1, <1>2, <3>1
    <3> HIDE DEF k
    <3>3. k + EnemyFrames + 0 >= g.spawnTimer + 1
      BY <1>1, <1>5, <3>1, <3>2
    <3>4. QED
      BY <1>3, <1>5, <3>2, <3>3
  <2>4. QED
    BY <2>1, <2>2, <2>3 DEF Spaced, Paced
<1>6. QED
  BY <1>4, <1>5, MoveFacts

(* A new enemy finds the last one three columns away.                      *)
LEMMA SpawnKeepsSpacing ==
  ASSUME NEW g \in Game, Spaced(g.enemies),
         Paced(g.enemies, g.enemyTimer, g.spawnTimer + 1), NEW m, m = SpawnEnemy(g)
  PROVE  Spaced(m.enemies) /\ Paced(m.enemies, m.enemyTimer, m.spawnTimer)
<1>1. /\ g.enemies \subseteq Column /\ g.spawnTimer \in Nat
      /\ g.enemyTimer \in 0 .. EnemyFrames - 1
      /\ EnemyFrames \in Nat \ {0} /\ SpawnFrames >= 3 * EnemyFrames /\ SpawnFrames \in Nat
  BY GameFields, ViGameAssumption, PaceAssumption
<1>2. LastColumn \in Nat /\ \A c \in Column : c \in Nat /\ LastColumn - c \in Nat
  BY SizeFacts DEF Column, LastColumn
<1>3. m.enemyTimer = g.enemyTimer
  BY SpawnFacts
<1>4. ASSUME m.spawnTimer = 0, NEW c \in m.enemies, m.enemies \subseteq Column
      PROVE  (LastColumn - c) * EnemyFrames + m.enemyTimer >= m.spawnTimer
  <2>1. (LastColumn - c) * EnemyFrames \in Nat
    BY <1>1, <1>2, <1>4
  <2>2. QED
    BY <1>1, <1>3, <1>4, <2>1
<1>5. CASE m.enemies = g.enemies /\ m.spawnTimer = g.spawnTimer + 1
  BY <1>3, <1>5
<1>6. CASE m.enemies = g.enemies /\ m.spawnTimer = 0
  BY <1>1, <1>4, <1>6 DEF Paced
<1>7. CASE /\ g.spawnTimer + 1 = SpawnFrames /\ m.spawnTimer = 0
           /\ m.enemies = g.enemies \cup {LastColumn}
  <2>1. ASSUME NEW c \in g.enemies
        PROVE  c \in Nat /\ c + 3 <= LastColumn
    <3> DEFINE d == LastColumn - c
    <3>1. c \in Nat /\ d \in Nat /\ d * EnemyFrames + g.enemyTimer >= 3 * EnemyFrames
      <4>1. d * EnemyFrames + g.enemyTimer >= SpawnFrames
        BY <1>7 DEF Paced
      <4>2. c \in Nat /\ d \in Nat /\ d * EnemyFrames \in Nat
        BY <1>1, <1>2
      <4> HIDE DEF d
      <4>3. QED
        BY <1>1, <4>1, <4>2
    <3> HIDE DEF d
    <3>2. d >= 3
      <4> SUFFICES ASSUME d <= 2 PROVE FALSE
        BY <3>1
      <4>1. d * EnemyFrames <= 2 * EnemyFrames
        BY <1>1, <3>1
      <4>2. d * EnemyFrames \in Nat
        BY <1>1, <3>1
      <4>3. QED
        BY <1>1, <3>1, <4>1, <4>2
    <3>3. QED
      BY <1>2, <3>1, <3>2 DEF d
  <2>2. Spaced(m.enemies)
    <3> SUFFICES ASSUME NEW c \in m.enemies, NEW d \in m.enemies, c < d
                 PROVE  c + 3 <= d
      BY DEF Spaced
    <3>1. CASE c = LastColumn
      BY <1>2, <1>7, <2>1, <3>1
    <3>2. CASE c \in g.enemies /\ d = LastColumn
      BY <2>1, <3>2
    <3>3. CASE c \in g.enemies /\ d \in g.enemies
      BY <3>3 DEF Spaced
    <3>4. QED
      BY <1>7, <3>1, <3>2, <3>3
  <2>3. m.enemies \subseteq Column
    BY GameFields, SpawnFacts
  <2>4. QED
    BY <1>4, <1>7, <2>2, <2>3 DEF Paced
<1>8. QED
  BY <1>5, <1>6, <1>7, SpawnFacts

-----------------------------------------------------------------------------
(* The inductive invariant and the properties                              *)

IInv == /\ TypeOK
        /\ Spaced(game.enemies)
        /\ Paced(game.enemies, game.enemyTimer, game.spawnTimer)

(* One enemy, at the right edge, and the timers begin together.            *)
LEMMA StartFacts ==
  ASSUME NEW row \in 0 .. 1, NEW g, g = Start(row)
  PROVE  /\ g \in Game /\ g.enemies = {LastColumn} /\ g.over = FALSE /\ g.boxX = StartX
         /\ Spaced(g.enemies) /\ Paced(g.enemies, g.enemyTimer, g.spawnTimer)
<1>1. /\ LastColumn \in Nat /\ LastColumn \in Column
  BY SizeFacts DEF Column, LastColumn
<1>2. /\ StartX \in 0 .. LastColumn * CellWidth + CellWidth - 1
      /\ StartY \in 0 .. MaxY
  BY SizeFacts, ViGameAssumption
<1>3. /\ 0 \in 0 .. EnemyFrames - 1 /\ 0 \in 0 .. SpawnFrames - 1
      /\ 0 \in 0 .. CountLimit - 1 /\ EnemyFrames \in Nat
  BY ViGameAssumption
<1>4. g \in Game
  BY <1>1, <1>2, <1>3 DEF Start, Game
<1>5. /\ g.enemies = {LastColumn} /\ g.over = FALSE /\ g.boxX = StartX
      /\ g.enemyTimer = 0 /\ g.spawnTimer = 0
  BY DEF Start
<1>6. Spaced({LastColumn})
  BY <1>1 DEF Spaced
<1>7. Paced({LastColumn}, 0, 0)
  <2>1. (LastColumn - LastColumn) * EnemyFrames + 0 >= 0
    BY <1>1, <1>3
  <2>2. QED
    BY <2>1 DEF Paced
<1>8. QED
  BY <1>4, <1>5, <1>6, <1>7

(* A frame: what the key makes of the game, the enemies moved, the         *)
(* collision found with the row of the frame before.                       *)
LEMMA FrameFacts ==
  ASSUME IInv, NEW key \in Keys, Frame(key)
  PROVE  \E p \in Game, m \in Game, u \in Game :
           /\ p = ProcessKeyInput(game, key)
           /\ p.row = game.row /\ p.enemies \subseteq game.enemies
           /\ p.enemyTimer = game.enemyTimer /\ p.spawnTimer = game.spawnTimer
           /\ Spaced(p.enemies)
           /\ m = MoveEnemies(p) /\ u = SpawnEnemy(m) /\ u.skips = p.skips
           /\ Spaced(m.enemies) /\ Paced(m.enemies, m.enemyTimer, m.spawnTimer + 1)
           /\ Spaced(u.enemies) /\ Paced(u.enemies, u.enemyTimer, u.spawnTimer)
           /\ game' \in Game /\ game'.enemies = u.enemies /\ game'.skips = p.skips
           /\ game'.boxX = p.boxX
           /\ game'.enemyTimer = u.enemyTimer /\ game'.spawnTimer = u.spawnTimer
           /\ game'.over <=> CharCol(p) \in u.enemies /\ p.row = 0
<1> DEFINE p == ProcessKeyInput(game, key)
           m == MoveEnemies(p)
           u == SpawnEnemy(m)
           o == CheckCollision(u)
<1>1. game \in Game /\ game' = RenderFrame(o)
  BY DEF IInv, TypeOK, Frame, UpdateEnemies
<1>2. /\ p \in Game /\ p.row = game.row /\ p.enemies \subseteq game.enemies
      /\ p.enemyTimer = game.enemyTimer /\ p.spawnTimer = game.spawnTimer
  <2>1. CASE key \in MoveKeys
    BY <1>1, <2>1, ArrowKeys
  <2>2. CASE key = "w"
    BY <1>1, <2>2, SkipKey
  <2>3. CASE key = "x"
    BY <1>1, <2>3, KillKey
  <2>4. QED
    BY <2>1, <2>2, <2>3 DEF Keys, MoveKeys
<1>3. Spaced(p.enemies) /\ Paced(p.enemies, p.enemyTimer, p.spawnTimer)
  BY <1>2 DEF IInv, Spaced, Paced
<1> HIDE DEF p
<1>4. /\ m \in Game /\ m.boxX = p.boxX /\ m.row = p.row /\ m.skips = p.skips
      /\ Spaced(m.enemies) /\ Paced(m.enemies, m.enemyTimer, m.spawnTimer + 1)
  BY <1>2, <1>3, MoveFacts, MoveKeepsSpacing
<1> HIDE DEF m
<1>5. /\ u \in Game /\ u.boxX = p.boxX /\ u.row = p.row /\ u.skips = p.skips
      /\ Spaced(u.enemies) /\ Paced(u.enemies, u.enemyTimer, u.spawnTimer)
  BY <1>4, SpawnFacts, SpawnKeepsSpacing
<1> HIDE DEF u
<1> DEFINE over == CharCol(u) \in u.enemies /\ u.row = 0
<1>6. /\ o \in Game /\ o.over = over /\ o.boxX = u.boxX /\ o.boxY = u.boxY
      /\ o.enemies = u.enemies /\ o.skips = u.skips
      /\ o.enemyTimer = u.enemyTimer /\ o.spawnTimer = u.spawnTimer
  <2>1. o = [u EXCEPT !.over = over] /\ over \in BOOLEAN
    BY DEF CheckCollision
  <2> HIDE DEF over, o
  <2>2. QED
    BY <1>5, <2>1 DEF Game
<1> HIDE DEF o
<1>7. /\ game' \in Game /\ game'.over = o.over /\ game'.boxX = o.boxX
      /\ game'.enemies = o.enemies /\ game'.skips = o.skips
      /\ game'.enemyTimer = o.enemyTimer /\ game'.spawnTimer = o.spawnTimer
  <2> DEFINE r == o.boxY \div CellHeight
  <2>1. r \in 0 .. 1
    <3>1. /\ MaxY \in Nat /\ CellHeight \in Nat \ {0} /\ MaxY \div CellHeight <= 1
      BY ViGameAssumption
    <3>2. o.boxY \in Nat /\ o.boxY <= MaxY
      BY <1>6, <3>1, GameFields
    <3>3. r \in Nat /\ MaxY \div CellHeight \in Nat /\ r <= MaxY \div CellHeight
      BY <3>1, <3>2, ColumnType, ColumnIsMonotone
    <3> HIDE DEF r
    <3>4. QED
      BY <3>1, <3>3
  <2>2. game' = [o EXCEPT !.row = r]
    BY <1>1 DEF RenderFrame
  <2> HIDE DEF r
  <2>3. QED
    BY <1>6, <2>1, <2>2 DEF Game
<1>8. CharCol(u) = CharCol(p)
  BY <1>5 DEF CharCol
<1>9. /\ p = ProcessKeyInput(game, key) /\ m = MoveEnemies(p) /\ u = SpawnEnemy(m)
  BY DEF p, m, u
<1>10. game'.over <=> CharCol(p) \in u.enemies /\ p.row = 0
  BY <1>5, <1>6, <1>7, <1>8
<1>11. QED
  BY <1>2, <1>3, <1>4, <1>5, <1>6, <1>7, <1>9, <1>10

(* Neither a frame nor the reset button brings two enemies too close.      *)
THEOREM Invariance == Spec => []IInv
<1>1. Init => IInv
  BY StartFacts DEF Init, IInv, TypeOK
<1>2. IInv /\ [Next]_game => IInv'
  <2> SUFFICES ASSUME IInv, [Next]_game PROVE IInv'
    OBVIOUS
  <2>1. ASSUME NEW key \in Keys, Frame(key) PROVE IInv'
    BY <2>1, FrameFacts DEF IInv, TypeOK
  <2>2. CASE WarmReset
    <3>1. game.row \in 0 .. 1
      BY GameFields DEF IInv, TypeOK
    <3>2. QED
      BY <2>2, <3>1, StartFacts DEF WarmReset, IInv, TypeOK
  <2>3. CASE UNCHANGED game
    BY <2>3 DEF IInv, TypeOK
  <2>4. QED
    BY <2>1, <2>2, <2>3 DEF Next
<1>3. QED
  BY <1>1, <1>2, PTL DEF Spec

(* The box stays on the display, the timers below their limits.            *)
THEOREM TypeCorrect == Spec => []TypeOK
<1>1. IInv => TypeOK
  BY DEF IInv
<1>2. QED
  BY <1>1, Invariance, PTL

-----------------------------------------------------------------------------
(* teleport_skip and update_enemies in one frame: the column behind the    *)
(* enemy is free after the enemies have moved and one may have come in.    *)
LEMMA ColumnBehindIsFree ==
  ASSUME NEW g \in Game, Spaced(g.enemies),
         Paced(g.enemies, g.enemyTimer, g.spawnTimer),
         NEW n \in g.enemies, NEW m, m = MoveEnemies(g), NEW u, u = SpawnEnemy(m)
  PROVE  n + 1 \notin u.enemies
<1>1. g.enemies \subseteq Nat /\ n \in Nat /\ LastColumn \in Nat
  BY GameFields, SizeFacts DEF Column
<1>2. n + 1 \notin m.enemies
  <2>1. n + 1 \notin g.enemies /\ (n + 1) + 1 \notin g.enemies
    BY <1>1 DEF Spaced
  <2>2. QED
    BY <2>1, MoveFacts DEF Shifted
<1>3. ASSUME m.spawnTimer + 1 = SpawnFrames, n + 1 = LastColumn,
             m.enemies \cap {LastColumn - 1, LastColumn} = {}
      PROVE  FALSE
  <2>1. n = LastColumn - 1 /\ n \notin m.enemies
    BY <1>1, <1>3
  <2>2. m.enemies # g.enemies
    BY <2>1
  <2>3. g.enemyTimer + 1 = EnemyFrames /\ m.spawnTimer = g.spawnTimer
    BY <2>2, MoveFacts
  <2>4. (LastColumn - n) * EnemyFrames + g.enemyTimer >= g.spawnTimer
    BY DEF Paced
  <2>5. /\ EnemyFrames \in Nat \ {0} /\ SpawnFrames \in Nat /\ SpawnFrames >= 3 * EnemyFrames
        /\ g.enemyTimer \in Nat /\ g.spawnTimer \in Nat
    BY GameFields, ViGameAssumption, PaceAssumption
  <2>6. (LastColumn - n) * EnemyFrames = EnemyFrames
    <3>1. LastColumn - n = 1
      BY <1>1, <2>1
    <3>2. QED
      BY <2>5, <3>1
  <2>7. EnemyFrames + g.enemyTimer >= g.spawnTimer
    BY <2>4, <2>6
  <2>8. QED
    BY <1>3, <2>3, <2>5, <2>7
<1>4. m \in Game
  BY MoveFacts
<1>5. QED
  BY <1>2, <1>3, <1>4, SpawnFacts

(* A skip is not deadly in its own frame.                                  *)
THEOREM SkipIsSurvived == Spec => TeleportIsSurvived
<1> DEFINE A == game'.skips = (game.skips + 1) % CountLimit => ~game'.over
<1>1. IInv /\ [Next]_game => [A]_game
  <2> SUFFICES ASSUME IInv, Next, game'.skips = (game.skips + 1) % CountLimit
               PROVE  ~game'.over
    OBVIOUS
  <2>1. game \in Game /\ game'.skips # game.skips
    BY GameFields, CountUp DEF IInv, TypeOK
  <2>2. CASE WarmReset
    BY <2>2 DEF WarmReset, Start
  <2>3. ASSUME NEW key \in Keys, Frame(key)
        PROVE  ~game'.over
    <3>1. PICK p \in Game, m \in Game, u \in Game :
            /\ p = ProcessKeyInput(game, key)
            /\ p.enemyTimer = game.enemyTimer /\ p.spawnTimer = game.spawnTimer
            /\ m = MoveEnemies(p) /\ u = SpawnEnemy(m)
            /\ game'.skips = p.skips
            /\ game'.over <=> CharCol(p) \in u.enemies /\ p.row = 0
      BY <2>3, FrameFacts
    <3>2. key = "w" /\ p # game
      <4>1. CASE key \in MoveKeys
        <5>1. p.skips = game.skips
          BY <2>1, <3>1, <4>1, ArrowKeys
        <5>2. QED
          BY <2>1, <3>1, <5>1
      <4>2. CASE key = "x"
        BY <2>1, <3>1, <4>2, KillKey
      <4>3. CASE key = "w"
        BY <2>1, <3>1, <4>3
      <4>4. QED
        BY <4>1, <4>2, <4>3 DEF Keys, MoveKeys
    <3>3. Ahead(game) # {} /\ CharCol(p) = NextEnemy(game) + 1 /\ p.enemies = game.enemies
      BY <2>1, <3>1, <3>2, SkipKey
    <3>4. NextEnemy(game) \in p.enemies
      BY <2>1, <3>3, NextEnemyIsFirst
    <3>5. Spaced(p.enemies) /\ Paced(p.enemies, p.enemyTimer, p.spawnTimer)
      BY <3>1, <3>3 DEF IInv
    <3>6. NextEnemy(game) + 1 \notin u.enemies
      BY <3>1, <3>4, <3>5, ColumnBehindIsFree
    <3>7. QED
      BY <3>1, <3>3, <3>6
  <2>4. QED
    BY <2>2, <2>3 DEF Next
<1> HIDE DEF A
<1>2. Spec => [][A]_game
  BY <1>1, Invariance, PTL DEF Spec
<1>3. QED
  BY <1>2 DEF A, TeleportIsSurvived

(* check_collision: an enemy does not get past a living box on the first   *)
(* row, but for a skip or an exchange of places.                           *)
THEOREM NoEnemyPasses == Spec => EnemiesPassOnlyBy
<1> DEFINE A ==
      \A c \in Ahead(game) :
        LET to == IF Moves THEN c - 1 ELSE c
        IN game.row = 0 /\ game'.row = 0 /\ ~game'.over
             /\ to \in game'.enemies /\ to <= CharCol(game') =>
               \/ game'.skips # game.skips
               \/ Moves /\ c = CharCol(game) + 1 /\ to = CharCol(game) /\ c = CharCol(game')
<1>1. IInv /\ [Next]_game => [A]_game
  <2> SUFFICES ASSUME IInv, Next PROVE A
    OBVIOUS
  <2> DEFINE from == CharCol(game)
             dest == CharCol(game')
  <2> SUFFICES ASSUME NEW c \in Ahead(game), NEW to, to = IF Moves THEN c - 1 ELSE c,
                      game.row = 0, ~game'.over, to \in game'.enemies, to <= dest
               PROVE  \/ game'.skips # game.skips
                      \/ Moves /\ c = from + 1 /\ to = from /\ c = dest
    OBVIOUS
  <2>1. game \in Game /\ from \in Nat /\ c \in Nat /\ c > from
    BY GameFields DEF IInv, TypeOK, Ahead, Column
  <2>2. CASE WarmReset
    <3>1. /\ game' = Start(game.row) /\ game.row \in 0 .. 1
      BY <2>1, <2>2, GameFields DEF WarmReset
    <3>2. to = LastColumn /\ dest = StartX \div CellWidth
      BY <3>1, StartFacts DEF CharCol
    <3>3. dest < LastColumn /\ LastColumn \in Nat /\ dest \in Nat
      <4>1. StartX \in Nat /\ CellWidth \in Nat \ {0}
        BY ViGameAssumption
      <4>2. QED
        BY <3>2, <4>1, ColumnType, SizeFacts, PaceAssumption
    <3> HIDE DEF LastColumn, dest
    <3>4. QED
      BY <3>2, <3>3
  <2>3. ASSUME NEW key \in Keys, Frame(key), game'.skips = game.skips
        PROVE  Moves /\ c = from + 1 /\ to = from /\ c = dest
    <3>1. PICK p \in Game, m \in Game, u \in Game :
            /\ p = ProcessKeyInput(game, key) /\ p.row = game.row
            /\ game' \in Game /\ game'.enemies = u.enemies /\ game'.skips = p.skips
            /\ game'.boxX = p.boxX
            /\ game'.over <=> CharCol(p) \in u.enemies /\ p.row = 0
      BY <2>3, FrameFacts
    <3>2. dest = CharCol(p) /\ dest \in Nat
      BY <3>1, GameFields DEF CharCol
    <3>3. CharCol(p) <= from + 1
      <4>1. CASE key \in MoveKeys
        BY <2>1, <3>1, <4>1, ArrowKeys
      <4>2. CASE key = "x"
        <5>1. CharCol(p) = from
          BY <2>1, <3>1, <4>2, KillKey
        <5>2. QED
          BY <2>1, <5>1
      <4>3. CASE key = "w"
        <5>1. game.skips \in 0 .. CountLimit - 1
          BY <2>1, GameFields
        <5>2. (game.skips + 1) % CountLimit # game.skips
          BY <5>1, CountUp
        <5>3. p = game
          BY <2>1, <2>3, <3>1, <4>3, <5>2, SkipKey
        <5>4. QED
          BY <2>1, <5>3
      <4>4. QED
        BY <4>1, <4>2, <4>3 DEF Keys, MoveKeys
    <3>4. to # dest
      BY <3>1, <3>2
    <3> HIDE DEF from, dest
    <3>5. to \in Int /\ to < dest /\ dest <= from + 1
      BY <2>1, <3>2, <3>3, <3>4
    <3>6. Moves
      BY <2>1, <3>2, <3>5
    <3>7. to = c - 1
      BY <3>6
    <3>8. QED
      BY <2>1, <3>2, <3>5, <3>6, <3>7
  <2>4. QED
    BY <2>2, <2>3 DEF Next
<1> HIDE DEF A
<1>2. Spec => [][A]_game
  BY <1>1, Invariance, PTL DEF Spec
<1>3. QED
  BY <1>2 DEF A, EnemiesPassOnlyBy
=============================================================================
