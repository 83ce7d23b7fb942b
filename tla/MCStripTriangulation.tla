------------------------- MODULE MCStripTriangulation -------------------------
(* All grids of up to MaxCount points per radius, cut short anywhere; some *)
(* whose rows are so close that the disc's tips are one point wide; and    *)
(* some beyond the tolerance: small ones, and large ones with a row that   *)
(* may fall apart.                                                         *)
EXTENDS StripTriangulation

CONSTANT MaxCount

TipGrids == [x_count : {2}, y_count : {8, 22}, z_count : {2}, border : BOOLEAN,
             scale : {"medium"}]

SmallGrids == [x_count : 2..MaxCount, y_count : 2..MaxCount, z_count : 2..3,
               border : BOOLEAN, scale : {"medium"}]
                  \cup TipGrids
                  \cup [x_count : 2..3, y_count : 2..3, z_count : {2},
                        border : BOOLEAN, scale : {"small"}]
                  \cup [x_count : {3}, y_count : {7}, z_count : {2},
                        border : BOOLEAN, scale : {"large"}]
================================================================================
