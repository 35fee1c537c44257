---------------------------- MODULE RoutePlanner ----------------------------
(***************************************************************************)
(* The route planner of the rover (rover/autonomous_rover_navigation): A*  *)
(* on a grid with eight neighbours, over terrain whose safety and cost     *)
(* depend on the column, around one obstacle.  Distances are tenths of the *)
(* grid's resolution, a diagonal 14; the penalty of a column is a factor   *)
(* of at least one.  Entries of the queue with equal priority leave it in  *)
(* no particular order.                                                    *)
(***************************************************************************)
EXTENDS Integers, FiniteSets, Sequences

CONSTANTS
    Columns, Rows,     \* the extent of the grid
    Penalties,         \* terrain_penalty of a column
    Obstacles,         \* the sets of cells an obstacle may cover
    StartCell, GoalCell

ASSUME PlannerAssumption ==
    /\ Columns \subseteq Int /\ Rows \subseteq Int /\ IsFiniteSet(Columns) /\ IsFiniteSet(Rows)
    /\ Penalties \subseteq Nat \ {0}
    /\ Obstacles \subseteq SUBSET (Columns \X Rows)
    /\ {StartCell, GoalCell} \subseteq Columns \X Rows

VARIABLES
    penalty,           \* by column
    closedTerrain,     \* the columns with craters, boulders, slopes or roughness
    covered,           \* the cells the obstacle covers
    open,              \* the queue: [f, cell]
    gCost, parent,     \* NodeData of the cells met
    closedCells,
    search             \* "running", "found" or "failed"

plannerVars == <<penalty, closedTerrain, covered, open, gCost, parent, closedCells, search>>

Cells == Columns \X Rows
Distance(i, j) == IF i < j THEN j - i ELSE i - j

Traversable(c) == c \in Cells /\ c[1] \notin closedTerrain /\ c \notin covered
Neighbours(c) == {n \in Cells : n # c /\ Distance(n[1], c[1]) <= 1 /\ Distance(n[2], c[2]) <= 1}
StepCost(c, n) == (IF c[1] = n[1] \/ c[2] = n[2] THEN 10 ELSE 14) * penalty[n[1]]

\* The straight distance, rounded down.  With a diagonal of 14 the square of a
\* straight unit is 98, not 100: as in the code, the estimate along a diagonal is
\* what the diagonal steps cost, not more.
StraightLine(dx, dy) ==
    CHOOSE r \in 0 .. 10 * (dx + dy) :
        r * r <= 98 * (dx * dx + dy * dy) /\ (r + 1) * (r + 1) > 98 * (dx * dx + dy * dy)
\* mutant: the estimate of a grid with four neighbours
AlongTheGrid(c) == 10 * (Distance(c[1], GoalCell[1]) + Distance(c[2], GoalCell[2]))
Heuristic(c) == StraightLine(Distance(c[1], GoalCell[1]), Distance(c[2], GoalCell[2]))

PlannerInit ==
    /\ penalty \in [Columns -> Penalties]
    /\ closedTerrain \in SUBSET Columns
    /\ covered \in Obstacles
    /\ closedCells = {}
    /\ parent = [c \in {} |-> StartCell]
    /\ IF Traversable(StartCell) /\ Traversable(GoalCell)
       THEN /\ search = "running"
            /\ gCost = [c \in {StartCell} |-> 0]
            /\ open = {[f |-> Heuristic(StartCell), cell |-> StartCell]}
       ELSE /\ search = "failed"
            /\ gCost = [c \in {} |-> 0]
            /\ open = {}

\* The neighbours a closed cell improves; a cell that was not met is infinitely
\* far away.
Improved(c) ==
    {n \in Neighbours(c) :
        /\ Traversable(n) /\ n \notin closedCells \union {c}
        /\ n \in DOMAIN gCost => gCost[c] + StepCost(c, n) < gCost[n]}

Cheapest == {entry \in open : \A other \in open : entry.f <= other.f}

\* An entry of a cell that is closed already is passed over.
SkipClosed(entry) ==
    /\ search = "running" /\ entry \in Cheapest /\ entry.cell \in closedCells
    /\ open' = open \ {entry}
    /\ search' = IF open' = {} THEN "failed" ELSE search
    /\ UNCHANGED <<penalty, closedTerrain, covered, gCost, parent, closedCells>>

Expand(entry) ==
    /\ search = "running" /\ entry \in Cheapest /\ entry.cell \notin closedCells
    /\ LET c == entry.cell
           better == IF c = GoalCell THEN {} ELSE Improved(c)
       IN  /\ closedCells' = closedCells \union {c}
           /\ gCost' = [n \in DOMAIN gCost \union better |->
                           IF n \in better THEN gCost[c] + StepCost(c, n) ELSE gCost[n]]
           /\ parent' = [n \in DOMAIN parent \union better |->
                            IF n \in better THEN c ELSE parent[n]]
           /\ open' = (open \ {entry}) \union
                         {[f |-> gCost[c] + StepCost(c, n) + Heuristic(n), cell |-> n] :
                             n \in better}
           /\ search' = CASE c = GoalCell -> "found"
                          [] c # GoalCell /\ open' = {} -> "failed"
                          [] OTHER -> "running"
    /\ UNCHANGED <<penalty, closedTerrain, covered>>

PlannerNext == \E entry \in open : SkipClosed(entry) \/ Expand(entry)

PlannerSpec == PlannerInit /\ [][PlannerNext]_plannerVars
-----------------------------------------------------------------------------
PlannerTypeOK ==
    /\ penalty \in [Columns -> Penalties]
    /\ closedTerrain \subseteq Columns /\ covered \in Obstacles /\ closedCells \subseteq Cells
    /\ \A entry \in open : entry.cell \in DOMAIN gCost
    /\ search \in {"running", "found", "failed"}

\* The reference: every way through the grid that enters no cell twice.
Longer(ways, n) ==
    UNION {{Append(way, c) : c \in {d \in Neighbours(way[n]) : \A i \in 1 .. n : way[i] # d}} :
               way \in ways}
Ways ==
    LET simple[n \in 1 .. Cardinality(Cells)] ==
            IF n = 1 THEN {<<StartCell>>} ELSE Longer(simple[n - 1], n - 1)
    IN  {way \in UNION {simple[n] : n \in 1 .. Cardinality(Cells)} : way[Len(way)] = GoalCell}

OpenWays == {way \in Ways : \A i \in DOMAIN way : Traversable(way[i])}
WayCost(way) ==
    LET cost[i \in DOMAIN way] == IF i = 1 THEN 0 ELSE cost[i - 1] + StepCost(way[i - 1], way[i])
    IN  cost[Len(way)]

\* The route a search ends with leads along the parents from the goal to the
\* start over cells the rover may enter, and no other route is cheaper, although
\* a cell is never looked at again once it is closed; a search that fails had no
\* route to find (autonomous_rover_navigation.cpp: plan).
RouteIsCheapest ==
    /\ search = "found" =>
           /\ \A way \in OpenWays : gCost[GoalCell] <= WayCost(way)
           /\ \A c \in DOMAIN parent :
                  /\ Traversable(c) /\ c \in Neighbours(parent[c])
                  /\ gCost[c] = gCost[parent[c]] + StepCost(parent[c], c)
    /\ search = "failed" => OpenWays = {}
=============================================================================
