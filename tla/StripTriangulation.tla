--------------------------- MODULE StripTriangulation ---------------------------
(***************************************************************************)
(* VtkFieldExporter::export_3d_field_to_vtk: from a list of points alone   *)
(* it finds the layers and rows of the grid that AnalyticsManager's        *)
(* calculate_grid_kernel generated, and fills each layer with triangles,   *)
(* strip by strip between two rows.  A loop's round is one action where    *)
(* the rounds depend on each other.                                        *)
(*                                                                         *)
(* The code's coordinates are doubles, turned from r and phi back into x   *)
(* and y and compared with a tolerance: 64 epsilon, absolute below one.    *)
(* Here x is counted in half steps and y in rows, and how the tolerance    *)
(* compares to the grid is the grid's scale:                               *)
(*   medium  it tells equal coordinates and areas from different ones;     *)
(*   small   every triangle's area is below it (steps of 1E-7);            *)
(*   large   the error of r * sin(phi) is above it where phi is near pi    *)
(*           (a radius of 50 or more): a row near y = 0 may fall apart.    *)
(***************************************************************************)
EXTENDS Integers, FiniteSets, Sequences

CONSTANTS
    (* A grid: its counts, whether rounding leaves the one point on the    *)
    (* disc's border, in its first row, inside, and its scale.             *)
    Grids,
    (* RowStep / Unit is the distance of two rows for as many rows as      *)
    (* steps: sqrt(3)/2 in the code, here any fraction that is near it.    *)
    Unit, RowStep

ASSUME GridAssumption ==
    Grids \subseteq [x_count : Nat \ {0, 1}, y_count : Nat \ {0, 1},
                     z_count : Nat \ {0, 1}, border : BOOLEAN,
                     scale : {"small", "medium", "large"}]

ASSUME RowAssumption ==
    /\ Unit \in Nat \ {0} /\ RowStep \in Nat
    /\ RowStep \leq Unit /\ Unit \leq 2 * RowStep

--------------------------------------------------------------------------------
(* calculate_grid_kernel: staggered rows of points within a disc.          *)

(* One layer of grid g: x from -2m to 2m is the diameter, and row y lies   *)
(* at RowStep * y - radius.  No row beyond the last of these is within it. *)
Layer(g) ==
    LET m      == g.x_count - 1
        n      == g.y_count - 1
        radius == Unit * n
        height == [y \in 0..(4 * n) |-> RowStep * y - radius]
    IN  {p \in [x : (-2 * m)..(2 * m), y : 0..(4 * n)] :
            /\ p.x % 2 = p.y % 2
            /\ p.x * p.x * radius * radius
                   \leq 4 * m * m * (radius * radius - height[p.y] * height[p.y])
            /\ p.y = 0 => g.border}

(* The order of generation: rows upwards, each from left to right.         *)
Before(p, q) == p.y < q.y \/ (p.y = q.y /\ p.x < q.x)

Generated(g) ==
    LET layer == Layer(g)
        size  == Cardinality(layer)
        place == [i \in 0..(size - 1) |->
                     CHOOSE p \in layer : Cardinality({q \in layer : Before(q, p)}) = i]
    IN  [i \in 0..(size * g.z_count - 1) |->
            [x |-> place[i % size].x, y |-> place[i % size].y, z |-> i \div size]]

--------------------------------------------------------------------------------

VARIABLES
    grid,              \* the grid the points are from
    points,            \* the points to export: that grid or a beginning of it
    stage,             \* how far the export has come
    points_per_layer,
    rows,              \* the rows found: their begin and end
    row,               \* the strip at hand, above this row
    lower_point,       \* the two ends of the strip's frontier
    upper_point,
    triangles

vars == <<grid, points, stage, points_per_layer, rows, row, lower_point,
          upper_point, triangles>>

input    == <<grid, points>>
frontier == <<row, lower_point, upper_point>>

num_points == Cardinality(DOMAIN points)

Init ==
    /\ grid \in Grids
    /\ LET all == Generated(grid)
       IN  \E length \in 1..Cardinality(DOMAIN all) :
               points = [i \in 0..(length - 1) |-> all[i]]
    /\ stage = "layers"
    /\ points_per_layer = 0
    /\ rows = <<>>
    /\ row = 0
    /\ lower_point = 0
    /\ upper_point = 0
    /\ triangles = <<>>

(* The first index from i on, below limit, whose coordinate differs from   *)
(* that of point i; limit if there is none.                                *)
RunEnd(i, limit, coordinate) ==
    CHOOSE e \in (i + 1)..limit :
        /\ \A j \in i..(e - 1) : points[j][coordinate] = points[i][coordinate]
        /\ e < limit => points[e][coordinate] # points[i][coordinate]

(* Defect: the points need not be whole layers.                            *)
FindLayers_NoDivision ==
    /\ stage = "layers"
    /\ points_per_layer' = RunEnd(0, num_points, "z")
    /\ LET size == points_per_layer'
           Agrees(i) == /\ points[i].x = points[i % size].x
                        /\ points[i].y = points[i % size].y
       IN  stage' = IF size # num_points /\ \A i \in DOMAIN points : Agrees(i)
                    THEN "rows" ELSE "failed"
    /\ UNCHANGED <<input, rows, frontier, triangles>>

(* The first layer is the first run of one z; it must divide the points    *)
(* and not be all of them, and all layers must agree with it.              *)
FindLayers ==
    /\ stage = "layers"
    /\ points_per_layer' = RunEnd(0, num_points, "z")
    /\ LET size == points_per_layer'
           Agrees(i) == /\ points[i].z = points[size * (i \div size)].z
                        /\ points[i].x = points[i % size].x
                        /\ points[i].y = points[i % size].y
       IN  stage' = IF /\ size # num_points
                       /\ num_points % size = 0
                       /\ \A i \in DOMAIN points : Agrees(i)
                    THEN "rows" ELSE "failed"
    /\ UNCHANGED <<input, rows, frontier, triangles>>

NextBegin == IF rows = <<>> THEN 0 ELSE rows[Len(rows)].end

(* A row that may fall apart: of a large grid, and within 1/32 of the      *)
(* radius of y = 0.                                                        *)
Torn(y) ==
    LET radius == Unit * (grid.y_count - 1)
        height == RowStep * y - radius
    IN  /\ grid.scale = "large"
        /\ -radius \leq 32 * height
        /\ 32 * height \leq radius

(* Where the row that starts at NextBegin may end: after all points of its *)
(* y, or where rounding first exceeds the tolerance.                       *)
RowEnds ==
    LET end == RunEnd(NextBegin, points_per_layer, "y")
    IN  IF Torn(points[NextBegin].y) THEN (NextBegin + 1)..end ELSE {end}

FindRow ==
    /\ stage = "rows"
    /\ NextBegin < points_per_layer
    /\ \E end \in RowEnds :
           rows' = Append(rows, [begin |-> NextBegin, end |-> end])
    /\ UNCHANGED <<input, stage, points_per_layer, frontier, triangles>>

(* The frontier of a strip starts at the first points of its two rows.     *)
Enter(r) ==
    /\ row' = r
    /\ lower_point' = rows[r].begin
    /\ upper_point' = rows[r + 1].begin

RowsFound ==
    /\ stage = "rows"
    /\ NextBegin = points_per_layer
    /\ IF Len(rows) < 2
       THEN stage' = "failed" /\ UNCHANGED frontier
       ELSE stage' = "strips" /\ Enter(1)
    /\ UNCHANGED <<input, points_per_layer, rows, triangles>>

(* Twice the signed area of a triangle, positive when it turns left.       *)
Area(a, b, c) ==
    (points[b].x - points[a].x) * (points[c].y - points[a].y)
        - (points[b].y - points[a].y) * (points[c].x - points[a].x)

(* Defect: a triangle that turns right is not turned round.                *)
add_triangle_NoSwap(a, b, c) ==
    triangles' = IF Area(a, b, c) = 0 THEN triangles ELSE Append(triangles, <<a, b, c>>)

(* The triangle if its area as computed exceeds the tolerance, turned      *)
(* left.  In a small grid none does; in a large one, rounding may give an  *)
(* area of either sign to three points of one row that fell apart.         *)
add_triangle(a, b, c) ==
    \/ /\ Area(a, b, c) = 0 \/ grid.scale = "small"
       /\ UNCHANGED triangles
    \/ /\ \/ Area(a, b, c) > 0 /\ grid.scale # "small"
          \/ Area(a, b, c) = 0 /\ grid.scale = "large"
       /\ triangles' = Append(triangles, <<a, b, c>>)
    \/ /\ \/ Area(a, b, c) < 0 /\ grid.scale # "small"
          \/ Area(a, b, c) = 0 /\ grid.scale = "large"
       /\ triangles' = Append(triangles, <<a, c, b>>)

LowerLeft == lower_point + 1 < rows[row].end
UpperLeft == upper_point + 1 < rows[row + 1].end

(* Defect: the lower row goes first.                                       *)
LowerIsNext_LowerFirst == LowerLeft

(* The row whose next point is further left goes on; the lower one if the  *)
(* upper is used up, and the other way round.                              *)
LowerIsNext ==
    /\ LowerLeft
    /\ UpperLeft => points[lower_point + 1].x < points[upper_point + 1].x

AdvanceLower ==
    /\ stage = "strips"
    /\ LowerIsNext
    /\ add_triangle(lower_point, lower_point + 1, upper_point)
    /\ lower_point' = lower_point + 1
    /\ UNCHANGED <<input, stage, points_per_layer, rows, row, upper_point>>

(* Defect: the case of a lower row that is used up is missing.             *)
AdvanceUpper_NeedsLower ==
    /\ stage = "strips"
    /\ LowerLeft /\ UpperLeft /\ ~LowerIsNext
    /\ add_triangle(lower_point, upper_point, upper_point + 1)
    /\ upper_point' = upper_point + 1
    /\ UNCHANGED <<input, stage, points_per_layer, rows, row, lower_point>>

AdvanceUpper ==
    /\ stage = "strips"
    /\ UpperLeft /\ ~LowerIsNext
    /\ add_triangle(lower_point, upper_point, upper_point + 1)
    /\ upper_point' = upper_point + 1
    /\ UNCHANGED <<input, stage, points_per_layer, rows, row, lower_point>>

(* Defect: the frontier leaves the points.                                 *)
NextStrip_PastTheEnd ==
    /\ stage = "strips"
    /\ ~LowerLeft /\ ~UpperLeft
    /\ stage' = "written"
    /\ upper_point' = num_points
    /\ UNCHANGED <<input, points_per_layer, rows, row, lower_point, triangles>>

NextStrip ==
    /\ stage = "strips"
    /\ ~LowerLeft /\ ~UpperLeft
    /\ IF row + 2 \leq Len(rows)
       THEN UNCHANGED stage /\ Enter(row + 1)
       ELSE /\ stage' = IF triangles = <<>> THEN "failed" ELSE "written"
            /\ UNCHANGED frontier
    /\ UNCHANGED <<input, points_per_layer, rows, triangles>>

Next ==
    \/ FindLayers \/ FindRow \/ RowsFound
    \/ AdvanceLower \/ AdvanceUpper \/ NextStrip

Spec == Init /\ [][Next]_vars /\ WF_vars(Next)

--------------------------------------------------------------------------------

TypeOK ==
    /\ grid \in Grids
    /\ stage \in {"layers", "rows", "strips", "written", "failed"}
    /\ points \in [0..(num_points - 1) -> [x : Int, y : Nat, z : Nat]]
    /\ points_per_layer \in 0..num_points
    /\ rows \in Seq([begin : Nat, end : Nat])
    /\ row \in 0..Len(rows)
    /\ lower_point \in DOMAIN points
    /\ upper_point \in DOMAIN points
    /\ triangles \in Seq((DOMAIN points) \X (DOMAIN points) \X (DOMAIN points))

(* The edges of the triangles, each in the direction of its triangle.      *)
Edges(i) ==
    LET t == triangles[i]
    IN  {<<t[1], t[2]>>, <<t[2], t[3]>>, <<t[3], t[1]>>}

(* The strips that have a triangle: between two rows of one point each,    *)
(* found where the tip of the disc is narrower than a step, there is none. *)
Strips == {r \in 1..(Len(rows) - 1) :
              rows[r].end > rows[r].begin + 1 \/ rows[r + 1].end > rows[r + 1].begin + 1}

(* The points of a layer that are at no strip.                             *)
Tips == {rows[r].begin : r \in {k \in 1..Len(rows) : Strips \cap {k - 1, k} = {}}}

(* The outline of a layer, anticlockwise: its first row, the right ends,   *)
(* its last row, the left ends.                                            *)
Outline ==
    LET first == rows[1]
        last  == rows[Len(rows)]
    IN  {<<i, i + 1>> : i \in first.begin..(first.end - 2)}
        \cup {<<i + 1, i>> : i \in last.begin..(last.end - 2)}
        \cup {<<rows[r].end - 1, rows[r + 1].end - 1>> : r \in Strips}
        \cup {<<rows[r + 1].begin, rows[r].begin>> : r \in Strips}

(* The cells of the file: a wedge on each triangle between two layers.     *)
layer_count == num_points \div points_per_layer

Wedge(t, layer) ==
    [i \in 1..6 |-> IF i \leq 3 THEN t[i] + layer * points_per_layer
                                ELSE t[i - 3] + (layer + 1) * points_per_layer]

Cells == {Wedge(triangles[i], layer) :
              i \in DOMAIN triangles, layer \in 0..(layer_count - 2)}

(* The triangles of a written layer tile it, if the scale is medium: each  *)
(* turns left, no two share a directed edge, and an edge without a         *)
(* neighbour on its other side is one of the outline, all of which are     *)
(* used; and the cells are upright and have all points of the grid but     *)
(* those of a tip one point wide (exporter lines 139-185, 216-231).        *)
Conforming ==
    stage = "written" /\ grid.scale = "medium" =>
        LET used == UNION {Edges(i) : i \in DOMAIN triangles}
        IN  /\ \A i \in DOMAIN triangles :
                   Area(triangles[i][1], triangles[i][2], triangles[i][3]) > 0
            /\ Cardinality(used) = 3 * Len(triangles)
            /\ {e \in used : <<e[2], e[1]>> \notin used} = Outline
            /\ UNION {{c[i] : i \in 1..6} : c \in Cells}
                   = {i \in DOMAIN points : i % points_per_layer \notin Tips}
            /\ \A c \in Cells, i \in 1..3 :
                   points[c[i + 3]] = [points[c[i]] EXCEPT !.z = @ + 1]

(* "Extruding these triangles through Z produces wedge cells filling the   *)
(* cylinder" (exporter lines 153-154): every point that was exported is a  *)
(* corner of a cell.  It is not: two rows of one point each, at the disc's *)
(* tip, have no triangle between them.                                     *)
CellsFill ==
    stage = "written" => UNION {{c[i] : i \in 1..6} : c \in Cells} = DOMAIN points

(* No cell is stretched for want of a better one: an edge across a strip   *)
(* that leans by more than a half step touches the end of a row            *)
(* (exporter line 174).                                                    *)
FansAtEnds ==
    stage = "strips" =>
        LET lean  == points[upper_point].x - points[lower_point].x
            lower == rows[row]
            upper == rows[row + 1]
        IN  /\ lean > 1  => lower_point = lower.end - 1 \/ upper_point = upper.begin
            /\ lean < -1 => upper_point = upper.end - 1 \/ lower_point = lower.begin

(* The points are exported exactly when they are two or more whole layers  *)
(* of the grid, however the generation was cut short, and its triangles    *)
(* are above the tolerance (exporter lines 79-111, 133, 144, 187).         *)
WholeLayers ==
    LET size == Cardinality(Layer(grid))
    IN  num_points % size = 0 /\ num_points > size

ExportsWholeLayers ==
    /\ stage = "written" => WholeLayers /\ grid.scale # "small"
    /\ stage = "failed" => ~WholeLayers \/ grid.scale = "small"

(* The loops end.                                                          *)
ExportEnds == <>(stage \in {"written", "failed"})

================================================================================
