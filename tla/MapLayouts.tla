----------------------------- MODULE MapLayouts -----------------------------
(***************************************************************************)
(* The three maps of world/maps.go, as sets of open cells, and what the    *)
(* game needs of them.  World's constants Open and Spawn stand for one of  *)
(* these maps.                                                             *)
(***************************************************************************)
EXTENDS Integers, FiniteSets

MapWidth == 56

MapHeight == 24

BossAtkRange == 4

BlankGrid == (0 .. MapWidth - 1) \X (0 .. MapHeight - 1)

DrawBorder ==
    {c \in BlankGrid : c[1] \in {0, MapWidth - 1} \/ c[2] \in {0, MapHeight - 1}}

FillRect(x, y, width, height) ==
    ((x .. x + width - 1) \X (y .. y + height - 1)) \cap BlankGrid

DrawH(y, fromX, toX) == ((fromX .. toX) \X {y}) \cap BlankGrid

DrawV(x, fromY, toY) == ({x} \X (fromY .. toY)) \cap BlankGrid

\* Mutant: every door is one column off.
CarveAside(walls, doors) == walls \ {<<d[1] + 1, d[2]>> : d \in doors}

\* The doors are carved after all the walls are drawn.
Carve(walls, doors) == walls \ doors

GreenMap ==
    [walls |-> Carve(DrawBorder \cup FillRect(8, 3, 14, 5) \cup FillRect(33, 14, 14, 4)
                       \cup DrawV(26, 1, 21) \cup DrawV(45, 2, 13)
                       \cup DrawH(9, 1, 20) \cup DrawH(7, 30, 54),
                     {<<26, 5>>, <<26, 12>>, <<26, 18>>, <<45, 5>>, <<45, 10>>,
                      <<6, 9>>, <<12, 9>>, <<18, 9>>,
                      <<37, 7>>, <<44, 7>>, <<50, 7>>}),
     spawn |-> <<4, 4>>, boss |-> <<50, 20>>]

CaveMap ==
    [walls |-> Carve(DrawBorder \cup FillRect(5, 5, 10, 9) \cup FillRect(36, 12, 12, 7)
                       \cup DrawV(28, 1, 22) \cup DrawH(4, 18, 51)
                       \cup DrawH(18, 2, 25) \cup DrawV(18, 10, 20),
                     {<<28, 4>>, <<28, 11>>, <<28, 18>>, <<22, 4>>, <<34, 4>>,
                      <<45, 4>>, <<9, 18>>, <<14, 18>>, <<18, 15>>}),
     spawn |-> <<4, 20>>, boss |-> <<49, 20>>]

RuinsMap ==
    [walls |-> Carve(DrawBorder \cup DrawV(12, 2, 20) \cup DrawV(24, 1, 18)
                       \cup DrawV(37, 5, 22) \cup DrawH(6, 2, 22) \cup DrawH(13, 15, 40)
                       \cup FillRect(42, 3, 8, 5) \cup FillRect(6, 15, 8, 4),
                     {<<12, 5>>, <<12, 11>>, <<12, 17>>, <<24, 4>>, <<24, 10>>,
                      <<24, 16>>, <<37, 9>>, <<37, 17>>, <<8, 6>>, <<18, 6>>,
                      <<19, 13>>, <<29, 13>>, <<44, 13>>}),
     spawn |-> <<50, 4>>, boss |-> <<50, 20>>]

AvailableMaps == {GreenMap, CaveMap, RuinsMap}

-----------------------------------------------------------------------------
OpenCells(map) == BlankGrid \ map.walls

Adjacent(c) == {<<c[1], c[2] - 1>>, <<c[1], c[2] + 1>>,
                <<c[1] - 1, c[2]>>, <<c[1] + 1, c[2]>>}

\* More steps than any shortest walk on these maps takes.
WalkLength == 80

\* The cells that a walk from the spawn cell can reach.
Walked(map) ==
    LET walk[k \in 0 .. WalkLength] ==
          IF k = 0 THEN {map.spawn}
          ELSE LET before == walk[k - 1]
               IN  before \cup (UNION {Adjacent(c) : c \in before} \ map.walls)
    IN  walk[WalkLength]

Apart(a, b) ==
    (IF a[1] > b[1] THEN a[1] - b[1] ELSE b[1] - a[1])
      + (IF a[2] > b[2] THEN a[2] - b[2] ELSE b[2] - a[2])

\* What a layout must offer: see LayoutsAreFit of MCWorld.
IsFit(map) ==
    LET reached == Walked(map)
    IN  /\ {map.spawn, map.boss} \subseteq OpenCells(map)
        /\ \E c \in reached : Apart(c, map.boss) <= BossAtkRange
        /\ \A c \in OpenCells(map) \ reached : Adjacent(c) \subseteq map.walls
=============================================================================
