----------------------- MODULE StripTriangulation_proofs -----------------------
(***************************************************************************)
(* Proofs about StripTriangulation, for grids of every size and every      *)
(* fraction that stands for sqrt(3)/2: what calculate_grid_kernel gives,   *)
(* what the exporter finds in it, and that its triangles tile a layer, all *)
(* of this for a grid of medium scale, where the tolerance decides as      *)
(* exact numbers would.                                                    *)
(***************************************************************************)
EXTENDS StripTriangulation, FiniteSetTheorems, SequenceTheorems, TLAPS

(* The number of points in a layer, and how many of them come before p.    *)
Size(g) == Cardinality(Layer(g))
Earlier(g, p) == {q \in Layer(g) : Before(q, p)}
Rank(g, p) == Cardinality(Earlier(g, p))

(* The points of a layer in the order of their generation.                 *)
Nth(g, i) == CHOOSE p \in Layer(g) : Rank(g, p) = i

(* The bounds of a layer, and the two sides of the test for its disc: the  *)
(* point at x of row y is within it when x * x * Disc does not exceed      *)
(* Reach * Width, the square of the radius being Disc.                     *)
MaxX(g) == 2 * (g.x_count - 1)
MaxY(g) == 4 * (g.y_count - 1)
Radius(g) == Unit * (g.y_count - 1)
Disc(g) == Radius(g) * Radius(g)
Reach(g) == 4 * (g.x_count - 1) * (g.x_count - 1)
Height(y) == RowStep * y
Width(g, y) == Height(y) * (2 * Radius(g) - Height(y))

--------------------------------------------------------------------------------
(* Arithmetic that the provers need as facts of their own.                 *)

(* Products of numbers, and what follows of their order.                   *)
LEMMA Products ==
    /\ \A a, b \in Int : a * b \in Int
    /\ \A a, b \in Nat : a * b \in Nat
    /\ \A a, b \in Int, c \in Nat : a \leq b => a * c \leq b * c /\ c * a \leq c * b
    /\ \A a, b \in Int, c \in Nat : a * c < b * c => a < b
OBVIOUS

(* Squares: the difference of two, a number between two, and signs.        *)
LEMMA Squares ==
    /\ \A a, b \in Int : b * b - (a - b) * (a - b) = a * (2 * b - a)
    /\ \A a, b, x \in Int : a \leq x /\ x \leq b => x * x \leq a * a \/ x * x \leq b * b
    /\ \A a \in Int : a * a \in Nat
    /\ \A a \in Int : a * a < 4 /\ a % 2 = 0 => a = 0
OBVIOUS

(* The square of the width of a row halfway between two others is at least *)
(* a quarter of either one's.                                              *)
LEMMA Narrowing ==
    ASSUME NEW a \in Nat, NEW b \in Nat, NEW h \in Nat
    PROVE  /\ a * (b + 2 * h) \leq 4 * ((a + h) * (b + h))
           /\ (a + 2 * h) * b \leq 4 * ((a + h) * (b + h))
<1>1. a * b \in Nat /\ a * h \in Nat /\ b * h \in Nat /\ h * h \in Nat
  BY Products
<1>2. /\ a * (b + 2 * h) = a * b + 2 * (a * h)
      /\ (a + 2 * h) * b = a * b + 2 * (b * h)
      /\ (a + h) * (b + h) = a * b + a * h + b * h + h * h
  OBVIOUS
<1> QED
  BY <1>1, <1>2

--------------------------------------------------------------------------------
(* The geometry of a layer.                                                *)

(* The sizes of a grid and of its disc are positive.                       *)
LEMMA GridType ==
    ASSUME NEW g \in Grids
    PROVE  /\ g.x_count - 1 \in Nat \ {0} /\ g.y_count - 1 \in Nat \ {0}
           /\ g.z_count \in Nat \ {0, 1} /\ g.border \in BOOLEAN
           /\ Unit \in Nat \ {0} /\ RowStep \in Nat \ {0}
           /\ MaxX(g) \in Nat \ {0, 1} /\ MaxY(g) \in Nat
           /\ Radius(g) \in Nat \ {0} /\ Disc(g) \in Nat \ {0} /\ Reach(g) \in Nat \ {0}
<1>1. /\ g.x_count - 1 \in Nat \ {0} /\ g.y_count - 1 \in Nat \ {0}
      /\ g.z_count \in Nat \ {0, 1} /\ g.border \in BOOLEAN
      /\ Unit \in Nat \ {0} /\ RowStep \in Nat \ {0}
  BY GridAssumption, RowAssumption
<1>2. MaxX(g) \in Nat \ {0, 1} /\ MaxY(g) \in Nat
  <2>1. \A a \in Nat \ {0} : 2 * a \in Nat \ {0, 1} /\ 4 * a \in Nat
    OBVIOUS
  <2> QED
    BY ONLY <1>1, <2>1 DEF MaxX, MaxY
<1>3. \A a, b \in Nat \ {0} : a * b \in Nat \ {0} /\ 4 * a * a \in Nat \ {0}
  OBVIOUS
<1>4. Radius(g) \in Nat \ {0}
  BY <1>1, <1>3 DEF Radius
<1>5. Disc(g) \in Nat \ {0} /\ Reach(g) \in Nat \ {0}
  BY <1>1, <1>3, <1>4 DEF Disc, Reach
<1> QED
  BY <1>1, <1>2, <1>4, <1>5

(* The two sides of the test for the disc are numbers.                     *)
LEMMA WidthType ==
    ASSUME NEW g \in Grids, NEW y \in Nat
    PROVE  Height(y) \in Nat /\ Width(g, y) \in Int
<1>1. Height(y) \in Nat
  BY GridType DEF Height
<1>2. 2 * Radius(g) - Height(y) \in Int
  BY <1>1, GridType
<1> QED
  BY <1>1, <1>2 DEF Width

(* The test for a point of the layer, in terms of its width.               *)
LEMMA InLayer ==
    ASSUME NEW g \in Grids, NEW x \in Int, NEW y \in Nat
    PROVE  [x |-> x, y |-> y] \in Layer(g) <=>
               /\ -MaxX(g) \leq x /\ x \leq MaxX(g) /\ y \leq MaxY(g)
               /\ x % 2 = y % 2
               /\ (x * x) * Disc(g) \leq Reach(g) * Width(g, y)
               /\ y = 0 => g.border
<1> DEFINE m == g.x_count - 1
           R == Unit * (g.y_count - 1)
           h == RowStep * y - R
<1>1. m \in Int /\ g.y_count - 1 \in Int /\ R \in Int /\ h \in Int
  BY GridType
<1>2. R * R - h * h = Width(g, y)
  <2>1. RowStep * y \in Int
    BY GridType
  <2> QED
    BY <1>1, <2>1, Squares DEF Width, Height, Radius
<1>3. [x |-> x, y |-> y] \in Layer(g) <=>
          /\ x \in (-2 * m)..(2 * m) /\ y \in 0..(4 * (g.y_count - 1))
          /\ x % 2 = y % 2
          /\ x * x * R * R \leq 4 * m * m * (R * R - h * h)
          /\ y = 0 => g.border
  BY <1>1 DEF Layer
<1>4. /\ x \in (-2 * m)..(2 * m) <=> -MaxX(g) \leq x /\ x \leq MaxX(g)
      /\ y \in 0..(4 * (g.y_count - 1)) <=> y \leq MaxY(g)
  BY <1>1 DEF MaxX, MaxY
<1>5. x * x * R * R = (x * x) * Disc(g)
  <2>1. \A a, b \in Int : a * b * b = a * (b * b)
    OBVIOUS
  <2> QED
    BY <1>1, <2>1 DEF Disc, Radius
<1>6. 4 * m * m = Reach(g)
  BY DEF Reach
<1> QED
  BY <1>2, <1>3, <1>4, <1>5, <1>6, Zenon

(* What is known of each point of a layer.                                 *)
LEMMA LayerPoint ==
    ASSUME NEW g \in Grids, NEW p \in Layer(g)
    PROVE  /\ p = [x |-> p.x, y |-> p.y] /\ p.x \in Int /\ p.y \in Nat
           /\ -MaxX(g) \leq p.x /\ p.x \leq MaxX(g) /\ p.y \leq MaxY(g)
           /\ p.x % 2 = p.y % 2
           /\ (p.x * p.x) * Disc(g) \leq Reach(g) * Width(g, p.y)
           /\ p.y = 0 => g.border
<1>1. p = [x |-> p.x, y |-> p.y] /\ p.x \in Int /\ p.y \in Nat
  BY GridType DEF Layer
<1>2. [x |-> p.x, y |-> p.y] \in Layer(g)
  BY <1>1
<1> QED
  BY ONLY <1>1, <1>2, InLayer, g \in Grids, Zenon

(* A layer can be counted.                                                 *)
LEMMA LayerFinite ==
    ASSUME NEW g \in Grids
    PROVE  IsFiniteSet(Layer(g)) /\ Size(g) \in Nat
<1> DEFINE X == (-2 * (g.x_count - 1))..(2 * (g.x_count - 1))
           Y == 0..(4 * (g.y_count - 1))
           B == [x : X, y : Y]
           f == [c \in X \X Y |-> [x |-> c[1], y |-> c[2]]]
<1>1. IsFiniteSet(X \X Y)
  <2>1. /\ -2 * (g.x_count - 1) \in Int /\ 2 * (g.x_count - 1) \in Int
        /\ 4 * (g.y_count - 1) \in Int
    BY GridType
  <2>2. \A a, b \in Int : IsFiniteSet(a..b)
    BY FS_Interval
  <2>3. IsFiniteSet(X)
    BY ONLY <2>1, <2>2
  <2>4. IsFiniteSet(Y)
    BY ONLY <2>1, <2>2
  <2> QED
    BY ONLY <2>3, <2>4, FS_Product
<1>2. f \in Surjection(X \X Y, B)
  <2>1. f \in [X \X Y -> B]
    OBVIOUS
  <2>2. ASSUME NEW p \in B
        PROVE  \E c \in X \X Y : f[c] = p
    <3>1. <<p.x, p.y>> \in X \X Y /\ f[<<p.x, p.y>>] = p
      OBVIOUS
    <3> QED
      BY <3>1
  <2> QED
    BY <2>1, <2>2 DEF Surjection
<1>3. IsFiniteSet(B)
  BY <1>1, <1>2, FS_Surjection
<1>4. Layer(g) \subseteq B
  BY DEF Layer
<1> QED
  BY <1>3, <1>4, FS_Subset, FS_CardinalityType DEF Size

(* Between two points of a row there is no hole.                           *)
LEMMA Between ==
    ASSUME NEW g \in Grids, NEW p \in Layer(g), NEW q \in Layer(g), p.y = q.y,
           NEW x \in Int, p.x \leq x, x \leq q.x, x % 2 = p.x % 2
    PROVE  [x |-> x, y |-> p.y] \in Layer(g)
<1> USE GridType, LayerPoint
<1>1. (x * x) * Disc(g) \leq Reach(g) * Width(g, p.y)
  <2>1. x * x \leq p.x * p.x \/ x * x \leq q.x * q.x
    BY Squares
  <2>2. x * x \in Int /\ p.x * p.x \in Int /\ q.x * q.x \in Int /\ Width(g, p.y) \in Int
    BY Products, WidthType
  <2>3. \/ (x * x) * Disc(g) \leq (p.x * p.x) * Disc(g)
        \/ (x * x) * Disc(g) \leq (q.x * q.x) * Disc(g)
    BY <2>1, <2>2, Products
  <2>4. Reach(g) * Width(g, p.y) \in Int
    BY <2>2, Products
  <2>5. /\ (x * x) * Disc(g) \in Int /\ (p.x * p.x) * Disc(g) \in Int
        /\ (q.x * q.x) * Disc(g) \in Int
    BY <2>2, Products
  <2>6. /\ (p.x * p.x) * Disc(g) \leq Reach(g) * Width(g, p.y)
        /\ (q.x * q.x) * Disc(g) \leq Reach(g) * Width(g, p.y)
    OBVIOUS
  <2> QED
    BY ONLY <2>3, <2>4, <2>5, <2>6
<1>2. /\ -MaxX(g) \leq x /\ x \leq MaxX(g) /\ x % 2 = p.y % 2
      /\ p.y \leq MaxY(g)
      /\ p.y = 0 => g.border
  OBVIOUS
<1>3. p.y \in Nat
  OBVIOUS
<1> QED
  BY ONLY <1>1, <1>2, <1>3, x \in Int, g \in Grids, InLayer, Zenon

(* A row without a point lies between two rows that have one point each.   *)
LEMMA NarrowTip ==
    ASSUME NEW g \in Grids, NEW p \in Layer(g), NEW q \in Layer(g), p.y < q.y,
           \A r \in Layer(g) : ~(p.y < r.y /\ r.y < q.y), q.y # p.y + 1
    PROVE  \A r \in Layer(g) : (r.y = p.y => r = p) /\ (r.y = q.y => r = q)
<1> DEFINE k == p.y + 1
<1>1. /\ p.y \in Nat /\ q.y \in Nat /\ k \in Nat /\ k < q.y /\ q.y \leq MaxY(g)
      /\ RowStep \in Nat \ {0} /\ Radius(g) \in Nat \ {0}
      /\ Disc(g) \in Nat \ {0} /\ Reach(g) \in Nat \ {0} /\ MaxX(g) \in Nat \ {0, 1}
  <2>1. p.y \in Nat /\ q.y \in Nat /\ q.y \leq MaxY(g)
    BY LayerPoint
  <2>2. k \in Nat /\ k < q.y
    BY <2>1
  <2> QED
    BY <2>1, <2>2, GridType
<1>2. Height(q.y) \leq 2 * Radius(g)
  <2>1. (q.x * q.x) * Disc(g) \in Nat
    BY <1>1, LayerPoint, Squares, Products
  <2>2. 0 \leq Reach(g) * Width(g, q.y)
    <3>1. Reach(g) * Width(g, q.y) \in Int
      BY <1>1, WidthType, Products
    <3> QED
      BY <2>1, <3>1, LayerPoint
  <2>3. Width(g, q.y) >= 0
    <3>1. \A a \in Nat \ {0}, b \in Int : 0 \leq a * b => b >= 0
      OBVIOUS
    <3> QED
      BY <1>1, <2>2, <3>1, WidthType
  <2>4. Height(q.y) \in Nat \ {0}
    BY <1>1 DEF Height
  <2>5. \A a \in Nat \ {0}, b \in Int : a * b >= 0 => b >= 0
    OBVIOUS
  <2>6. 2 * Radius(g) - Height(q.y) \in Int
    BY <1>1, <2>4
  <2> QED
    BY <1>1, <2>3, <2>4, <2>5, <2>6 DEF Width
<1>3. \A y \in Nat : y \leq q.y => Height(y) \leq Height(q.y)
  BY <1>1, Products DEF Height
<1>4. \A y \in Nat : y \leq q.y => Width(g, y) \in Nat
  <2> SUFFICES ASSUME NEW y \in Nat, y \leq q.y
               PROVE  Width(g, y) \in Nat
    OBVIOUS
  <2>1. Height(y) \in Nat /\ 2 * Radius(g) - Height(y) \in Nat
    BY <1>1, <1>2, <1>3, WidthType
  <2> QED
    BY <2>1, Products DEF Width
<1>5. \A y \in Nat : y \leq q.y /\ y % 2 = 0 /\ y # 0 => [x |-> 0, y |-> y] \in Layer(g)
  <2> SUFFICES ASSUME NEW y \in Nat, y \leq q.y, y % 2 = 0, y # 0
               PROVE  [x |-> 0, y |-> y] \in Layer(g)
    OBVIOUS
  <2>1. Reach(g) * Width(g, y) \in Nat
    BY <1>1, <1>4, Products
  <2>2. (0 * 0) * Disc(g) \leq Reach(g) * Width(g, y)
    BY <1>1, <2>1
  <2>3. /\ -MaxX(g) \leq 0 /\ 0 \leq MaxX(g) /\ y \leq MaxY(g) /\ 0 % 2 = y % 2
        /\ 0 \in Int
        /\ y = 0 => g.border
    BY <1>1, GridType
  <2> QED
    BY ONLY <2>2, <2>3, InLayer, y \in Nat, g \in Grids, Zenon
<1>6. \A y \in Nat : y = k \/ (k < y /\ y < q.y) =>
          \A x \in Int : [x |-> x, y |-> y] \notin Layer(g)
  <2> SUFFICES ASSUME NEW y \in Nat, p.y < y, y < q.y, NEW x \in Int,
                      [x |-> x, y |-> y] \in Layer(g)
               PROVE  FALSE
    BY <1>1
  <2>1. [x |-> x, y |-> y].y = y
    OBVIOUS
  <2> QED
    BY <2>1
<1>7. k % 2 = 1 /\ q.y = k + 1
  <2>1. k % 2 = 1
    <3>1. [x |-> 0, y |-> k] \notin Layer(g) /\ k \leq q.y /\ k # 0
      BY <1>1, <1>6
    <3>2. k % 2 # 0
      BY <1>1, <1>5, <3>1
    <3> QED
      BY <1>1, <3>2
  <2>2. (k + 1) % 2 = 0 /\ k + 1 \in Nat /\ k + 1 \leq q.y /\ k + 1 # 0
    BY <1>1, <2>1
  <2>3. [x |-> 0, y |-> k + 1] \in Layer(g)
    BY <1>5, <2>2
  <2>4. ~(k < k + 1 /\ k + 1 < q.y)
    BY <1>6, <2>2, <2>3
  <2> QED
    BY <1>1, <2>1, <2>4
<1>8. Reach(g) * Width(g, k) < Disc(g)
  <2>1. ~((1 * 1) * Disc(g) \leq Reach(g) * Width(g, k))
    <3>1. /\ -MaxX(g) \leq 1 /\ 1 \leq MaxX(g) /\ k \leq MaxY(g) /\ 1 % 2 = k % 2
          /\ 1 \in Int /\ k \in Nat
          /\ k = 0 => g.border
      BY <1>1, <1>7, GridType
    <3>2. [x |-> 1, y |-> k] \notin Layer(g)
      BY <1>1, <1>6
    <3> QED
      BY ONLY <3>1, <3>2, InLayer, g \in Grids, Zenon
  <2>2. Reach(g) * Width(g, k) \in Int /\ (1 * 1) * Disc(g) = Disc(g)
    BY <1>1, <1>4, Products
  <2> QED
    BY <1>1, <2>1, <2>2
<1>9. Width(g, p.y) \leq 4 * Width(g, k) /\ Width(g, q.y) \leq 4 * Width(g, k)
  <2> DEFINE a == Height(p.y)
             b == 2 * Radius(g) - Height(q.y)
  <2>1. a \in Nat /\ b \in Nat /\ Height(q.y) \in Nat /\ RowStep \in Nat
    BY <1>1, <1>2, WidthType
  <2>2. Height(k) = a + RowStep /\ Height(q.y) = a + 2 * RowStep
    BY <1>1, <1>7 DEF Height
  <2>3. /\ Width(g, p.y) = a * (b + 2 * RowStep)
        /\ Width(g, k) = (a + RowStep) * (b + RowStep)
        /\ Width(g, q.y) = (a + 2 * RowStep) * b
    <3>1. /\ 2 * Radius(g) - a = b + 2 * RowStep
          /\ 2 * Radius(g) - Height(k) = b + RowStep
      BY <1>1, <2>1, <2>2
    <3> QED
      BY <2>2, <3>1 DEF Width
  <2> HIDE DEF a, b
  <2> QED
    BY <2>1, <2>3, Narrowing
<1>10. \A r \in Layer(g) : r.y \in {p.y, q.y} => r.x = 0
  <2> SUFFICES ASSUME NEW r \in Layer(g), r.y \in {p.y, q.y}
               PROVE  r.x = 0
    OBVIOUS
  <2>1. r.x % 2 = 0 /\ r.x * r.x \in Nat
    <3>1. r.x \in Int /\ r.x % 2 = r.y % 2
      BY LayerPoint
    <3>2. r.y % 2 = 0
      <4>1. \A a \in Nat : (a + 1) % 2 = 1 => a % 2 = 0 /\ (a + 2) % 2 = 0
        OBVIOUS
      <4>2. q.y = p.y + 2
        BY <1>1, <1>7
      <4> QED
        BY <1>1, <1>7, <4>1, <4>2
    <3> QED
      BY <3>1, <3>2, Squares
  <2>2. Width(g, k) \in Nat /\ Width(g, r.y) \in Nat
    BY <1>1, <1>4
  <2>3. Reach(g) * Width(g, r.y) \leq 4 * (Reach(g) * Width(g, k))
    <3>1. Reach(g) * Width(g, r.y) \leq Reach(g) * (4 * Width(g, k))
      BY <1>1, <1>9, <2>2, Products
    <3>2. \A a, b \in Int : a * (4 * b) = 4 * (a * b)
      OBVIOUS
    <3> QED
      BY <1>1, <2>2, <3>1, <3>2
  <2>4. (r.x * r.x) * Disc(g) < 4 * Disc(g)
    <3>1. /\ Reach(g) * Width(g, r.y) \in Int /\ Reach(g) * Width(g, k) \in Int
          /\ (r.x * r.x) * Disc(g) \in Int
      BY <1>1, <2>1, <2>2, Products
    <3>2. (r.x * r.x) * Disc(g) \leq Reach(g) * Width(g, r.y)
      BY LayerPoint
    <3> QED
      BY <1>1, <1>8, <2>3, <3>1, <3>2
  <2>5. r.x * r.x < 4
    BY <1>1, <2>1, <2>4, Products
  <2> QED
    BY <2>1, <2>5, LayerPoint, Squares
<1> QED
  BY <1>10, LayerPoint

(* No disc is so small or so flat that it has no triangle.                 *)
LEMMA LayerHasTwoRows ==
    ASSUME NEW g \in Grids
    PROVE  /\ \E p, q \in Layer(g) : p.y = q.y /\ p.x < q.x
           /\ \E p, q \in Layer(g) : p.y # q.y
<1> DEFINE n == g.y_count - 1
           R == Radius(g)
<1>1. /\ n \in Nat \ {0} /\ R \in Nat \ {0} /\ R = Unit * n /\ MaxY(g) = 4 * n
      /\ Unit \in Nat \ {0} /\ RowStep \in Nat \ {0}
      /\ RowStep \leq Unit /\ Unit \leq 2 * RowStep
      /\ Disc(g) \in Nat \ {0} /\ Reach(g) \in Nat /\ MaxX(g) \in Nat \ {0, 1}
  BY GridType, RowAssumption DEF Radius, MaxY
<1> HIDE DEF n, R
<1>2. Reach(g) >= 4
  <2>1. \A a \in Nat \ {0} : 4 * a * a >= 4
    OBVIOUS
  <2> QED
    BY <2>1, GridType DEF Reach
<1>3. \A y \in Nat : n \leq y /\ y \leq n + 1 =>
          R \leq 2 * Height(y) /\ Height(y) \leq Unit * y /\ Unit * y \in Nat
  <2> SUFFICES ASSUME NEW y \in Nat, n \leq y
               PROVE  R \leq 2 * Height(y) /\ Height(y) \leq Unit * y /\ Unit * y \in Nat
    OBVIOUS
  <2>1. Unit * n \leq Unit * y /\ Unit * y \leq (2 * RowStep) * y /\ RowStep * y \leq Unit * y
    BY <1>1, Products
  <2>2. (2 * RowStep) * y = 2 * Height(y) /\ Height(y) \in Nat /\ Unit * y \in Nat
    BY <1>1 DEF Height
  <2> QED
    BY <1>1, <2>1, <2>2 DEF Height
<1>10. \A y \in Nat : Height(y) \in Nat
  BY WidthType
<1>4. \A y \in Nat : n \leq y /\ y \leq n + 1 => Height(y) \leq 2 * R
  <2> SUFFICES ASSUME NEW y \in Nat, n \leq y, y \leq n + 1
               PROVE  Height(y) \leq 2 * R
    OBVIOUS
  <2>1. Unit * y \leq Unit * (2 * n)
    BY <1>1, Products
  <2>2. Unit * (2 * n) = 2 * R
    <3>1. \A a, b \in Nat : a * (2 * b) = 2 * (a * b)
      OBVIOUS
    <3> QED
      BY <1>1, <3>1
  <2>3. Height(y) \leq Unit * y /\ Unit * y \in Nat /\ Height(y) \in Nat
    BY <1>3, <1>10
  <2> QED
    BY ONLY <1>1, <2>1, <2>2, <2>3
<1>5. \A y \in Nat : n \leq y /\ (y = n \/ (y = n + 1 /\ n # 1)) /\ y % 2 = 1 =>
          [x |-> 1, y |-> y] \in Layer(g) /\ [x |-> -1, y |-> y] \in Layer(g)
  <2> SUFFICES ASSUME NEW y \in Nat, y = n \/ (y = n + 1 /\ n # 1), y % 2 = 1
               PROVE  [x |-> 1, y |-> y] \in Layer(g) /\ [x |-> -1, y |-> y] \in Layer(g)
    OBVIOUS
  <2>1. 2 * Height(y) \leq 3 * R
    <3>1. Unit * (2 * y) \leq Unit * (3 * n)
      BY <1>1, Products
    <3>2. Unit * (2 * y) = 2 * (Unit * y) /\ Unit * (3 * n) = 3 * R
      <4>1. \A a, b \in Nat : a * (2 * b) = 2 * (a * b) /\ a * (3 * b) = 3 * (a * b)
        OBVIOUS
      <4> QED
        BY <1>1, <4>1
    <3>3. Height(y) \leq Unit * y /\ Unit * y \in Nat /\ Height(y) \in Nat
      BY <1>1, <1>3, <1>10
    <3> QED
      BY ONLY <1>1, <3>1, <3>2, <3>3
  <2>2. Disc(g) \leq 4 * Width(g, y)
    <3>1. \A a, r \in Nat : r \leq 2 * a /\ 2 * a \leq 3 * r => r * r \leq 4 * (a * (2 * r - a))
      <4> SUFFICES ASSUME NEW a \in Nat, NEW r \in Nat, r \leq 2 * a, 2 * a \leq 3 * r
                   PROVE  r * r \leq 4 * (a * (2 * r - a))
        OBVIOUS
      <4>1. (2 * a - r) * (3 * r - 2 * a) >= 0
        <5>1. 2 * a - r \in Nat /\ 3 * r - 2 * a \in Nat
          OBVIOUS
        <5> QED
          BY <5>1, Products
      <4>2. (2 * a - r) * (3 * r - 2 * a) = 4 * (a * (2 * r - a)) - 3 * (r * r)
        OBVIOUS
      <4>3. r * r \in Nat /\ a * (2 * r - a) \in Int
        OBVIOUS
      <4> QED
        BY <4>1, <4>2, <4>3
    <3>2. R \leq 2 * Height(y) /\ Height(y) \in Nat /\ R \in Nat
      BY <1>1, <1>3, <1>10
    <3>3. R * R \leq 4 * (Height(y) * (2 * R - Height(y)))
      BY ONLY <2>1, <3>1, <3>2
    <3> QED
      BY <3>3 DEF Disc, Width, R
  <2>3. Disc(g) \leq Reach(g) * Width(g, y)
    <3>1. Width(g, y) \in Nat
      BY <1>1, <2>2, WidthType
    <3>2. 4 * Width(g, y) \leq Reach(g) * Width(g, y) /\ Reach(g) * Width(g, y) \in Int
      BY <1>1, <1>2, <3>1, Products
    <3> QED
      BY <1>1, <2>2, <3>1, <3>2
  <2>4. \A x \in {-1, 1} : /\ x \in Int /\ -MaxX(g) \leq x /\ x \leq MaxX(g)
                           /\ x % 2 = y % 2
                           /\ (x * x) * Disc(g) \leq Reach(g) * Width(g, y)
    BY <1>1, <2>3
  <2>5. y \leq MaxY(g) /\ y # 0
    BY <1>1
  <2> QED
    BY ONLY <2>4, <2>5, InLayer, g \in Grids, y \in Nat, Zenon
<1>6. \A y \in Nat : n \leq y /\ y \leq n + 1 /\ y % 2 = 0 => [x |-> 0, y |-> y] \in Layer(g)
  <2> SUFFICES ASSUME NEW y \in Nat, n \leq y, y \leq n + 1, y % 2 = 0
               PROVE  [x |-> 0, y |-> y] \in Layer(g)
    OBVIOUS
  <2>1. Height(y) \in Nat /\ 2 * R - Height(y) \in Nat
    <3>1. Height(y) \leq 2 * R /\ Height(y) \in Nat
      BY <1>4, <1>10
    <3> QED
      BY ONLY <1>1, <3>1
  <2>2. Reach(g) * Width(g, y) \in Nat
    BY <1>1, <2>1, Products DEF Width, R
  <2>3. /\ 0 \in Int /\ -MaxX(g) \leq 0 /\ 0 \leq MaxX(g) /\ 0 % 2 = y % 2
        /\ (0 * 0) * Disc(g) \leq Reach(g) * Width(g, y)
        /\ y \leq MaxY(g)
        /\ y # 0
    BY <1>1, <2>2
  <2> QED
    BY ONLY <2>3, InLayer, g \in Grids, y \in Nat, Zenon
<1>7. PICK y \in {n, n + 1}, z \in {n, n + 1} :
          y % 2 = 1 /\ z % 2 = 0 /\ (y = n + 1 => n # 1)
  BY <1>1
<1>8. /\ [x |-> 1, y |-> y] \in Layer(g) /\ [x |-> -1, y |-> y] \in Layer(g)
      /\ [x |-> 0, y |-> z] \in Layer(g)
  BY <1>1, <1>5, <1>6, <1>7
<1>9. /\ [x |-> -1, y |-> y].y = [x |-> 1, y |-> y].y
      /\ [x |-> -1, y |-> y].x < [x |-> 1, y |-> y].x
      /\ [x |-> 1, y |-> y].y # [x |-> 0, y |-> z].y
  BY <1>1, <1>7
<1> QED
  BY <1>8, <1>9

--------------------------------------------------------------------------------
(* The order of a layer: its points are numbered without a gap.            *)

(* Every set of points has a first one: finite sets are well-founded by    *)
(* inclusion, so the least of them without a first one would have a        *)
(* smaller one still.                                                      *)
LEMMA LeastElement ==
    ASSUME NEW S \in SUBSET Nat, S # {}
    PROVE  \E a \in S : \A b \in S : a \leq b
<1> DEFINE Below(n) == 0..(n - 1)
           T == {Below(n) : n \in S}
           R == StrictSubsetOrdering(Nat)
<1>1. T \subseteq FiniteSubsetsOf(Nat)
  <2>1. \A n \in S : Below(n) \in SUBSET Nat /\ IsFiniteSet(Below(n))
    BY FS_Interval
  <2> QED
    BY <2>1 DEF FiniteSubsetsOf
<1>2. T # {}
  OBVIOUS
<1>3. \E b \in T : \A c \in T : ~(<<c, b>> \in R)
  <2>1. IsWellFoundedOn(R, FiniteSubsetsOf(Nat))
    BY FS_StrictSubsetOrderingWellFounded
  <2> HIDE DEF T, R
  <2> QED
    BY ONLY <2>1, <1>1, <1>2, WFMin
<1>4. PICK a \in S : \A b \in S : ~(<<Below(b), Below(a)>> \in R)
  BY <1>3
<1>5. ASSUME NEW b \in S, b < a
      PROVE  FALSE
  <2>1. Below(b) \subseteq Below(a) /\ b \in Below(a) /\ b \notin Below(b)
    BY <1>5
  <2>2. Below(b) # Below(a)
    BY <2>1
  <2>3. <<Below(b), Below(a)>> \in R
    BY <2>1, <2>2 DEF StrictSubsetOrdering
  <2> QED
    BY <1>4, <2>3
<1> QED
  BY <1>5

(* The order of generation is a strict total order.                        *)
LEMMA BeforeOrders ==
    ASSUME NEW g \in Grids
    PROVE  /\ \A p \in Layer(g) : ~Before(p, p)
           /\ \A p, q, r \in Layer(g) : Before(p, q) /\ Before(q, r) => Before(p, r)
           /\ \A p, q \in Layer(g) : p = q \/ Before(p, q) \/ Before(q, p)
<1>1. \A p \in Layer(g) : p = [x |-> p.x, y |-> p.y] /\ p.x \in Int /\ p.y \in Int
  BY LayerPoint
<1>2. \A p \in Layer(g) : ~Before(p, p)
  BY <1>1 DEF Before
<1>3. \A p, q, r \in Layer(g) : Before(p, q) /\ Before(q, r) => Before(p, r)
  BY <1>1 DEF Before
<1>4. \A p, q \in Layer(g) : p = q \/ Before(p, q) \/ Before(q, p)
  <2> SUFFICES ASSUME NEW p \in Layer(g), NEW q \in Layer(g), ~Before(p, q), ~Before(q, p)
               PROVE  p = q
    OBVIOUS
  <2>1. p.x = q.x /\ p.y = q.y
    BY <1>1 DEF Before
  <2> QED
    BY <1>1, <2>1
<1> QED
  BY <1>2, <1>3, <1>4

(* No two points have as many points before them, and every number below   *)
(* the size is the rank of one.                                            *)
LEMMA Ranks ==
    ASSUME NEW g \in Grids
    PROVE  /\ \A p \in Layer(g) : Rank(g, p) \in 0..(Size(g) - 1)
           /\ \A p, q \in Layer(g) : Before(p, q) => Rank(g, p) < Rank(g, q)
           /\ \A p, q \in Layer(g) : Rank(g, p) = Rank(g, q) => p = q
           /\ \A i \in 0..(Size(g) - 1) : \E p \in Layer(g) : Rank(g, p) = i
<1> DEFINE L == Layer(g)
<1>1. IsFiniteSet(L) /\ Size(g) \in Nat /\ Size(g) = Cardinality(L)
  BY LayerFinite DEF Size
<1>2. \A p \in L : /\ Earlier(g, p) \subseteq L /\ IsFiniteSet(Earlier(g, p))
                   /\ Rank(g, p) \in Nat
  <2> SUFFICES ASSUME NEW p \in L
               PROVE  /\ Earlier(g, p) \subseteq L /\ IsFiniteSet(Earlier(g, p))
                      /\ Rank(g, p) \in Nat
    OBVIOUS
  <2>1. Earlier(g, p) \in SUBSET L
    BY DEF Earlier
  <2>2. IsFiniteSet(Earlier(g, p))
    BY <1>1, <2>1, FS_Subset
  <2> QED
    BY <2>1, <2>2, FS_CardinalityType DEF Rank
<1>3. \A p \in L : Rank(g, p) \in 0..(Size(g) - 1)
  <2> SUFFICES ASSUME NEW p \in L
               PROVE  Rank(g, p) \in 0..(Size(g) - 1)
    OBVIOUS
  <2>1. p \notin Earlier(g, p)
    BY BeforeOrders DEF Earlier
  <2>2. Earlier(g, p) # L /\ Earlier(g, p) \in SUBSET L
    BY <1>2, <2>1
  <2>3. Cardinality(Earlier(g, p)) \leq Cardinality(L) /\ Cardinality(Earlier(g, p)) # Cardinality(L)
    BY <1>1, <2>2, FS_Subset
  <2> QED
    BY <1>1, <1>2, <2>3 DEF Rank
<1>4. \A p, q \in L : Before(p, q) => Rank(g, p) < Rank(g, q)
  <2> SUFFICES ASSUME NEW p \in L, NEW q \in L, Before(p, q)
               PROVE  Rank(g, p) < Rank(g, q)
    OBVIOUS
  <2>1. Earlier(g, p) \subseteq Earlier(g, q)
    BY BeforeOrders DEF Earlier
  <2>2. p \in Earlier(g, q) /\ p \notin Earlier(g, p)
    BY BeforeOrders DEF Earlier
  <2>3. Earlier(g, p) # Earlier(g, q) /\ Earlier(g, p) \in SUBSET Earlier(g, q)
    BY <2>1, <2>2
  <2>4. /\ Cardinality(Earlier(g, p)) \leq Cardinality(Earlier(g, q))
        /\ Cardinality(Earlier(g, p)) # Cardinality(Earlier(g, q))
    BY <1>2, <2>3, FS_Subset
  <2> QED
    BY <1>2, <2>4 DEF Rank
<1>5. \A p, q \in L : Rank(g, p) = Rank(g, q) => p = q
  <2> SUFFICES ASSUME NEW p \in L, NEW q \in L, Rank(g, p) = Rank(g, q), p # q
               PROVE  FALSE
    OBVIOUS
  <2>1. Before(p, q) \/ Before(q, p)
    BY BeforeOrders
  <2> QED
    BY <1>2, <1>4, <2>1
<1>6. \A i \in 0..(Size(g) - 1) : \E p \in L : Rank(g, p) = i
  <2> DEFINE f == [p \in L |-> Rank(g, p)]
             N == 0..(Size(g) - 1)
  <2>1. f \in [L -> N]
    BY <1>3
  <2>2. \A p, q \in L : f[p] = f[q] => p = q
    BY <1>5
  <2>3. f \in Injection(L, N)
    BY <2>1, <2>2 DEF Injection, IsInjective
  <2>4. IsFiniteSet(N) /\ Cardinality(N) = Cardinality(L)
    <3>1. \A n \in Nat : IsFiniteSet(0..(n - 1)) /\ Cardinality(0..(n - 1)) = n
      BY FS_Interval
    <3> QED
      BY <1>1, <3>1
  <2>5. f \in Surjection(L, N)
    BY <2>3, <2>4, FS_Injection
  <2>6. \A i \in N : \E p \in L : f[p] = i
    BY <2>5 DEF Surjection
  <2> QED
    BY <2>6
<1> QED
  BY <1>3, <1>4, <1>5, <1>6

(* Nth numbers the points of a layer in the order of generation.           *)
LEMMA Enumeration ==
    ASSUME NEW g \in Grids
    PROVE  /\ \A i \in 0..(Size(g) - 1) : Nth(g, i) \in Layer(g) /\ Rank(g, Nth(g, i)) = i
           /\ \A p \in Layer(g) : \E i \in 0..(Size(g) - 1) : p = Nth(g, i)
           /\ \A i, j \in 0..(Size(g) - 1) : Before(Nth(g, i), Nth(g, j)) <=> i < j
<1>1. \A i \in 0..(Size(g) - 1) : Nth(g, i) \in Layer(g) /\ Rank(g, Nth(g, i)) = i
  BY Ranks DEF Nth
<1>2. \A p \in Layer(g) : \E i \in 0..(Size(g) - 1) : p = Nth(g, i)
  BY <1>1, Ranks
<1>3. \A i, j \in 0..(Size(g) - 1) : Before(Nth(g, i), Nth(g, j)) => i < j
  BY <1>1, Ranks
<1>4. ASSUME NEW i \in 0..(Size(g) - 1), NEW j \in 0..(Size(g) - 1), i < j
      PROVE  Before(Nth(g, i), Nth(g, j))
  <2>1. Nth(g, i) # Nth(g, j)
    BY <1>1, <1>4
  <2>2. ~Before(Nth(g, j), Nth(g, i))
    BY <1>3, <1>4
  <2> QED
    BY <1>1, <2>1, <2>2, BeforeOrders
<1> QED
  BY <1>1, <1>2, <1>3, <1>4

(* The next point is the next of the row, or in a row above it that is the *)
(* next one unless the disc is there narrower than a step.                 *)
LEMMA NextPoint ==
    ASSUME NEW g \in Grids, NEW i \in Nat, i + 1 < Size(g)
    PROVE  LET p == Nth(g, i)
               q == Nth(g, i + 1)
           IN  \/ p.y = q.y /\ q.x = p.x + 2
               \/ p.y < q.y /\ \/ q.y = p.y + 1
                               \/ \A r \in Layer(g) : (r.y = p.y => r = p) /\ (r.y = q.y => r = q)
<1> DEFINE p == Nth(g, i)
           q == Nth(g, i + 1)
<1>1. Size(g) \in Nat /\ i \in 0..(Size(g) - 1) /\ i + 1 \in 0..(Size(g) - 1)
  BY LayerFinite
<1>2. p \in Layer(g) /\ q \in Layer(g) /\ Before(p, q)
  BY <1>1, Enumeration
<1>3. \A r \in Layer(g) : ~(Before(p, r) /\ Before(r, q))
  <2> SUFFICES ASSUME NEW j \in 0..(Size(g) - 1), Before(p, Nth(g, j)), Before(Nth(g, j), q)
               PROVE  FALSE
    BY Enumeration
  <2>1. i < j /\ j < i + 1
    BY <1>1, Enumeration
  <2> QED
    BY <1>1, <2>1
<1> HIDE DEF p, q
<1>4. /\ p.x \in Int /\ p.y \in Nat /\ p.x % 2 = p.y % 2
      /\ q.x \in Int /\ q.y \in Nat /\ q.x % 2 = q.y % 2
  BY <1>2, LayerPoint
<1>5. CASE p.y = q.y
  <2>1. p.x < q.x /\ (p.x + 2) % 2 = p.x % 2 /\ p.x + 2 \leq q.x
    BY <1>2, <1>4, <1>5 DEF Before
  <2>2. [x |-> p.x + 2, y |-> p.y] \in Layer(g)
    BY <1>2, <1>4, <1>5, <2>1, Between
  <2>3. ~(p.x + 2 < q.x)
    BY <1>3, <1>4, <1>5, <2>2 DEF Before
  <2> QED
    BY <1>4, <1>5, <2>1, <2>3 DEF p, q
<1>6. CASE p.y # q.y
  <2>1. p.y < q.y
    BY <1>2, <1>4, <1>6 DEF Before
  <2>2. \A r \in Layer(g) : ~(p.y < r.y /\ r.y < q.y)
    BY <1>3 DEF Before
  <2>3. q.y # p.y + 1 =>
            \A r \in Layer(g) : (r.y = p.y => r = p) /\ (r.y = q.y => r = q)
    BY <1>2, <2>1, <2>2, NarrowTip
  <2> QED
    BY <2>1, <2>3 DEF p, q
<1> QED
  BY <1>5, <1>6

--------------------------------------------------------------------------------
(* The inductive invariant.                                                *)

IsInput ==
    /\ grid \in Grids /\ grid.scale = "medium"
    /\ \E length \in 1..(Size(grid) * grid.z_count) :
           points = [i \in 0..(length - 1) |-> Generated(grid)[i]]

(* What is set in which stage; the layers are the grid's.                  *)
Staged ==
    /\ stage \in {"layers", "rows", "strips", "written", "failed"}
    /\ stage = "layers" => points_per_layer = 0
    /\ stage \in {"rows", "strips", "written"} =>
           WholeLayers /\ points_per_layer = Size(grid)
    /\ stage = "failed" => ~WholeLayers /\ points_per_layer \in 0..num_points
    /\ stage \in {"layers", "failed"} => rows = <<>>
    /\ stage \in {"layers", "rows", "failed"} =>
           row = 0 /\ lower_point = 0 /\ upper_point = 0 /\ triangles = <<>>

(* The rows found are the first of a layer, one after the other.           *)
IsRow(k) ==
    /\ rows[k].begin < rows[k].end /\ rows[k].end \leq points_per_layer
    /\ \A i \in rows[k].begin..(rows[k].end - 1) : points[i].y = points[rows[k].begin].y
    /\ rows[k].end < points_per_layer => points[rows[k].end].y # points[rows[k].begin].y

RowsInOrder ==
    /\ rows \in Seq([begin : Nat, end : Nat])
    /\ \A k \in 1..Len(rows) : IsRow(k)
    /\ rows # <<>> => rows[1].begin = 0
    /\ \A k \in 1..(Len(rows) - 1) : rows[k + 1].begin = rows[k].end
    /\ \A j, k \in 1..Len(rows) : j < k => rows[j].end \leq rows[k].begin
    /\ \A i \in 0..(NextBegin - 1) :
           \E k \in 1..Len(rows) : rows[k].begin \leq i /\ i < rows[k].end

InStrips == stage \in {"strips", "written"}

FrontierInStrip ==
    InStrips =>
        /\ NextBegin = points_per_layer /\ Len(rows) >= 2
        /\ row \in 1..(Len(rows) - 1)
        /\ lower_point \in rows[row].begin..(rows[row].end - 1)
        /\ upper_point \in rows[row + 1].begin..(rows[row + 1].end - 1)
        /\ stage = "written" => row + 1 = Len(rows) /\ ~LowerLeft /\ ~UpperLeft

Moved == lower_point > rows[row].begin \/ upper_point > rows[row + 1].begin

Used == UNION {Edges(i) : i \in DOMAIN triangles}

(* The edges that have no triangle on their other side.                    *)
Unmatched(U) == {e \in U : <<e[2], e[1]>> \notin U}

(* No triangle has reached beyond the frontier.                            *)
Behind(e) ==
    /\ e[1] \in 0..upper_point /\ e[2] \in 0..upper_point
    /\ ~Moved => e[1] < upper_point /\ e[2] < upper_point
    /\ rows[row].begin \leq e[1] /\ e[1] < e[2] =>
           e[1] \leq lower_point /\ (e[2] < rows[row].end => e[2] \leq lower_point)
    /\ rows[row + 1].begin \leq e[1] =>
           e[2] < e[1] /\ (e[2] < rows[row + 1].begin => e[1] + e[2] < lower_point + upper_point)
    /\ row = 1 /\ e[1] < rows[row + 1].begin => e[1] < e[2]

(* The strips left behind that have a triangle, and the one at hand.       *)
Passed == {r \in Strips : r < row}
Opened == Passed \cup (IF Moved THEN {row} ELSE {})

(* The outline of the triangles so far.                                    *)
Bottom == {<<i, i + 1>> : i \in 0..((IF row = 1 THEN lower_point ELSE rows[1].end - 1) - 1)}
Pending == {<<i + 1, i>> : i \in (IF row = 1 THEN {} ELSE lower_point..(rows[row].end - 2))}
Top == {<<i + 1, i>> : i \in rows[row + 1].begin..(upper_point - 1)}
RightEnds == {<<rows[r].end - 1, rows[r + 1].end - 1>> : r \in Passed}
LeftEnds == {<<rows[r + 1].begin, rows[r].begin>> : r \in Opened}
Front == IF Moved THEN {<<lower_point, upper_point>>} ELSE {}

Border == Bottom \cup Pending \cup Top \cup RightEnds \cup LeftEnds \cup Front

(* The points that the triangles so far have.                              *)
PassedPoints == UNION {rows[r].begin..(rows[r + 1].end - 1) : r \in Passed}
OpenedPoints ==
    IF Moved THEN (rows[row].begin..lower_point) \cup (rows[row + 1].begin..upper_point)
             ELSE {}

Inside == PassedPoints \cup OpenedPoints

LayerIndex == 0..(points_per_layer - 1)

TurnsLeft(t) == Area(t[1], t[2], t[3]) > 0

Tiled ==
    InStrips =>
        /\ triangles \in Seq(LayerIndex \X LayerIndex \X LayerIndex)
        /\ \A i \in DOMAIN triangles : TurnsLeft(triangles[i])
        /\ IsFiniteSet(Used) /\ Cardinality(Used) = 3 * Len(triangles)
        /\ \A e \in Used : Behind(e)
        /\ Unmatched(Used) = Border
        /\ {e[1] : e \in Used} = Inside

IInv ==
    /\ IsInput
    /\ Staged
    /\ RowsInOrder
    /\ FrontierInStrip
    /\ FansAtEnds
    /\ Tiled

--------------------------------------------------------------------------------
(* The points.                                                             *)

Divides(s) ==
    /\ \A i \in Nat : i % s \in 0..(s - 1) /\ i \div s \in Nat /\ i = s * (i \div s) + (i % s)
    /\ \A i \in 0..(s - 1) : i % s = i /\ i \div s = 0
    /\ \A i \in 0..(s - 1), k \in Nat :
           i + k * s \in Nat /\ (i + k * s) % s = i /\ (i + k * s) \div s = k

(* Quotient and remainder of a layer's size.                               *)
LEMMA Division ==
    ASSUME NEW s \in Nat \ {0}
    PROVE  Divides(s)
BY DEF Divides

(* A layer has more than one point.                                        *)
LEMMA SizeIsMore ==
    ASSUME NEW g \in Grids
    PROVE  Size(g) \in Nat \ {0, 1}
<1>1. PICK p \in Layer(g), q \in Layer(g) : p.y # q.y
  BY LayerHasTwoRows
<1>2. /\ Rank(g, p) \in 0..(Size(g) - 1) /\ Rank(g, q) \in 0..(Size(g) - 1)
      /\ Rank(g, p) # Rank(g, q)
  BY <1>1, Ranks
<1> QED
  BY <1>2, LayerFinite

(* The i-th point of the grid: a point of the layer and the number of the  *)
(* layer.                                                                  *)
LEMMA GeneratedPoint ==
    ASSUME NEW g \in Grids, NEW i \in 0..(Size(g) * g.z_count - 1)
    PROVE  Generated(g)[i] = [x |-> Nth(g, i % Size(g)).x, y |-> Nth(g, i % Size(g)).y,
                              z |-> i \div Size(g)]
<1> DEFINE place == [j \in 0..(Size(g) - 1) |-> Nth(g, j)]
<1>1. i % Size(g) \in 0..(Size(g) - 1)
  <2>1. Size(g) * g.z_count \in Nat
    BY SizeIsMore, GridType, Products
  <2>2. \A n \in Nat : \A j \in 0..(n - 1) : j \in Nat
    OBVIOUS
  <2>3. i \in Nat
    BY ONLY <2>1, <2>2, i \in 0..(Size(g) * g.z_count - 1)
  <2>4. Divides(Size(g))
    BY SizeIsMore, Division
  <2> QED
    BY ONLY <2>3, <2>4 DEF Divides
<1>2. place[i % Size(g)] = Nth(g, i % Size(g))
  BY <1>1
<1>3. Generated(g) = [j \in 0..(Size(g) * g.z_count - 1) |->
                         [x |-> place[j % Size(g)].x, y |-> place[j % Size(g)].y,
                          z |-> j \div Size(g)]]
  BY DEF Generated, Size, Nth, Rank, Earlier
<1> HIDE DEF place
<1> QED
  BY <1>2, <1>3

(* The points to export are those of the grid, as far as they go.          *)
LEMMA PointFacts ==
    ASSUME IsInput
    PROVE  /\ Size(grid) \in Nat \ {0, 1}
           /\ num_points \in 1..(Size(grid) * grid.z_count)
           /\ DOMAIN points = 0..(num_points - 1)
           /\ \A i \in 0..(num_points - 1) :
                  points[i] = [x |-> Nth(grid, i % Size(grid)).x,
                               y |-> Nth(grid, i % Size(grid)).y, z |-> i \div Size(grid)]
           /\ points \in [0..(num_points - 1) -> [x : Int, y : Nat, z : Nat]]
<1> DEFINE s == Size(grid)
           all == s * grid.z_count
<1>1. grid \in Grids
  BY DEF IsInput
<1>2. s \in Nat \ {0, 1} /\ all \in Nat
  BY <1>1, SizeIsMore, GridType, Products
<1>3. PICK length \in 1..all : points = [i \in 0..(length - 1) |-> Generated(grid)[i]]
  BY DEF IsInput
<1>8. Divides(s)
  BY <1>2, Division
<1> HIDE DEF all, s
<1>4. num_points = length /\ DOMAIN points = 0..(length - 1)
  <2>1. DOMAIN points = 0..(length - 1)
    BY <1>3
  <2>2. \A n \in Nat : Cardinality(0..(n - 1)) = n
    BY FS_Interval
  <2> QED
    BY <1>2, <2>1, <2>2 DEF num_points
<1>5. \A i \in 0..(num_points - 1) :
          points[i] = [x |-> Nth(grid, i % s).x, y |-> Nth(grid, i % s).y, z |-> i \div s]
  <2> SUFFICES ASSUME NEW i \in 0..(length - 1)
               PROVE  points[i] = [x |-> Nth(grid, i % s).x, y |-> Nth(grid, i % s).y,
                                   z |-> i \div s]
    BY <1>4
  <2>1. points[i] = Generated(grid)[i] /\ i \in 0..(all - 1)
    BY <1>2, <1>3
  <2> QED
    BY <1>1, <2>1, GeneratedPoint DEF all, s
<1>6. \A i \in 0..(num_points - 1) : points[i] \in [x : Int, y : Nat, z : Nat]
  <2> SUFFICES ASSUME NEW i \in 0..(num_points - 1)
               PROVE  points[i] \in [x : Int, y : Nat, z : Nat]
    OBVIOUS
  <2>1. i % s \in 0..(s - 1) /\ i \div s \in Nat
    <3>1. i \in Nat
      BY <1>2, <1>3, <1>4
    <3> QED
      BY ONLY <1>8, <3>1 DEF Divides
  <2>2. Nth(grid, i % s).x \in Int /\ Nth(grid, i % s).y \in Nat
    BY <1>1, <2>1, Enumeration, LayerPoint DEF s
  <2>3. points[i] = [x |-> Nth(grid, i % s).x, y |-> Nth(grid, i % s).y, z |-> i \div s]
    BY <1>5
  <2> QED
    BY ONLY <2>1, <2>2, <2>3
<1>7. points \in [0..(num_points - 1) -> [x : Int, y : Nat, z : Nat]]
  BY <1>3, <1>4, <1>6
<1> QED
  BY <1>2, <1>3, <1>4, <1>5, <1>7 DEF all, s

(* The points of one layer, as the exporter sees them.                     *)
Alone(i, s) == \A j \in 0..(s - 1) : points[j].y = points[i].y => j = i

FirstLayer(s) ==
    /\ s \in Nat \ {0, 1}
    /\ \A i \in 0..(s - 1) :
           points[i].x \in Int /\ points[i].y \in Nat /\ points[i].x % 2 = points[i].y % 2
    /\ \A i, j \in 0..(s - 1) : i < j => points[i].y \leq points[j].y
    /\ \A i, j \in 0..(s - 1) :
           i < j /\ points[i].y = points[j].y => points[i].x < points[j].x
    /\ \A i, j \in 0..(s - 1) :
           j = i + 1 => \/ points[i].y = points[j].y /\ points[j].x = points[i].x + 2
                        \/ points[i].y < points[j].y /\ \/ points[j].y = points[i].y + 1
                                                        \/ Alone(i, s) /\ Alone(j, s)
    /\ \E i, j \in 0..(s - 1) : i < j /\ points[i].y = points[j].y
    /\ \E i, j \in 0..(s - 1) : points[i].y # points[j].y

(* The exporter's first layer, if it is whole, is laid out as FirstLayer   *)
(* says.                                                                   *)
LEMMA Layout ==
    ASSUME IsInput, Size(grid) \leq num_points
    PROVE  FirstLayer(Size(grid))
<1> DEFINE s == Size(grid)
           P(i) == Nth(grid, i)
<1>1. grid \in Grids /\ s \in Nat \ {0, 1}
  BY PointFacts DEF IsInput
<1>11. Divides(s)
  BY <1>1, Division
<1>2. \A i \in 0..(s - 1) : points[i].x = P(i).x /\ points[i].y = P(i).y
  <2> SUFFICES ASSUME NEW i \in 0..(s - 1)
               PROVE  points[i].x = P(i).x /\ points[i].y = P(i).y
    OBVIOUS
  <2>1. i \in 0..(num_points - 1) /\ i % s = i
    BY <1>1, <1>11, PointFacts DEF Divides
  <2>2. points[i] = [x |-> Nth(grid, i % s).x, y |-> Nth(grid, i % s).y, z |-> i \div s]
    BY <2>1, PointFacts
  <2> QED
    BY ONLY <2>1, <2>2
<1>3. \A i \in 0..(s - 1) : P(i) \in Layer(grid)
  BY <1>1, Enumeration
<1>4. \A i \in 0..(s - 1) : /\ P(i).x \in Int /\ P(i).y \in Nat
                            /\ P(i).x % 2 = P(i).y % 2
  BY <1>1, <1>3, LayerPoint
<1>5. \A i, j \in 0..(s - 1) :
          i < j => P(i).y < P(j).y \/ (P(i).y = P(j).y /\ P(i).x < P(j).x)
  BY <1>1, Enumeration DEF Before
<1>6. ASSUME NEW i \in 0..(s - 1), NEW j \in 0..(s - 1), j = i + 1
      PROVE  \/ points[i].y = points[j].y /\ points[j].x = points[i].x + 2
             \/ points[i].y < points[j].y /\ \/ points[j].y = points[i].y + 1
                                             \/ Alone(i, s) /\ Alone(j, s)
  <2>1. \/ P(i).y = P(j).y /\ P(j).x = P(i).x + 2
        \/ P(i).y < P(j).y
               /\ \/ P(j).y = P(i).y + 1
                  \/ \A r \in Layer(grid) :
                         (r.y = P(i).y => r = P(i)) /\ (r.y = P(j).y => r = P(j))
    BY <1>1, <1>6, NextPoint
  <2>2. ASSUME \A r \in Layer(grid) :
                   (r.y = P(i).y => r = P(i)) /\ (r.y = P(j).y => r = P(j))
        PROVE  Alone(i, s) /\ Alone(j, s)
    <3>1. \A k \in 0..(s - 1) : (P(k) = P(i) => k = i) /\ (P(k) = P(j) => k = j)
      BY <1>1, Enumeration
    <3> QED
      BY <1>2, <1>3, <2>2, <3>1 DEF Alone
  <2> QED
    BY <1>2, <2>1, <2>2
<1>7. \E i, j \in 0..(s - 1) : i < j /\ points[i].y = points[j].y
  <2>1. PICK p \in Layer(grid), q \in Layer(grid) : p.y = q.y /\ p.x < q.x
    BY <1>1, LayerHasTwoRows
  <2>2. PICK i \in 0..(s - 1), j \in 0..(s - 1) : p = P(i) /\ q = P(j)
    BY <1>1, Enumeration
  <2>3. i # j
    BY <1>4, <2>1, <2>2
  <2> QED
    BY <1>2, <2>1, <2>2, <2>3
<1>8. \E i, j \in 0..(s - 1) : points[i].y # points[j].y
  <2>1. PICK p \in Layer(grid), q \in Layer(grid) : p.y # q.y
    BY <1>1, LayerHasTwoRows
  <2>2. PICK i \in 0..(s - 1), j \in 0..(s - 1) : p = P(i) /\ q = P(j)
    BY <1>1, Enumeration
  <2> QED
    BY <1>2, <2>1, <2>2
<1>9. /\ \A i \in 0..(s - 1) :
             points[i].x \in Int /\ points[i].y \in Nat /\ points[i].x % 2 = points[i].y % 2
      /\ \A i, j \in 0..(s - 1) :
             i < j => \/ points[i].y < points[j].y
                      \/ points[i].y = points[j].y /\ points[i].x < points[j].x
  BY <1>2, <1>4, <1>5
<1>10. /\ \A i, j \in 0..(s - 1) : i < j => points[i].y \leq points[j].y
       /\ \A i, j \in 0..(s - 1) :
             i < j /\ points[i].y = points[j].y => points[i].x < points[j].x
  BY <1>9
<1> QED
  BY <1>1, <1>6, <1>7, <1>8, <1>9, <1>10 DEF FirstLayer

--------------------------------------------------------------------------------
(* The layers and rows found.                                              *)

(* The loop that looks for the end of a run finds it.                      *)
LEMMA RunEndFacts ==
    ASSUME NEW i \in Nat, NEW limit \in Nat, i < limit, NEW c
    PROVE  LET e == RunEnd(i, limit, c)
           IN  /\ e \in (i + 1)..limit
               /\ \A j \in i..(e - 1) : points[j][c] = points[i][c]
               /\ e < limit => points[e][c] # points[i][c]
<1> DEFINE S == {e \in (i + 1)..limit : e = limit \/ points[e][c] # points[i][c]}
<1>1. S \in SUBSET Nat /\ limit \in S
  OBVIOUS
<1>2. PICK e \in S : \A b \in S : e \leq b
  BY <1>1, LeastElement
<1>3. e \in (i + 1)..limit /\ (e < limit => points[e][c] # points[i][c])
  BY <1>2
<1>4. \A j \in i..(e - 1) : points[j][c] = points[i][c]
  <2> SUFFICES ASSUME NEW j \in i..(e - 1), j # i
               PROVE  points[j][c] = points[i][c]
    OBVIOUS
  <2>1. j \in (i + 1)..limit /\ j < e /\ j # limit
    BY <1>3
  <2>2. j \notin S
    BY <1>2, <1>3, <2>1
  <2> QED
    BY <2>1, <2>2
<1> QED
  BY <1>3, <1>4 DEF RunEnd

(* The first run of one z is the first layer, or all there is.             *)
LEMMA FirstRun ==
    ASSUME IsInput
    PROVE  RunEnd(0, num_points, "z") = IF num_points < Size(grid) THEN num_points
                                                                   ELSE Size(grid)
<1> DEFINE s == Size(grid)
           e == RunEnd(0, num_points, "z")
<1>1. s \in Nat \ {0, 1} /\ num_points \in Nat \ {0} /\ Divides(s)
  <2>1. s * grid.z_count \in Nat
    BY PointFacts, GridType, Products DEF IsInput
  <2> QED
    BY <2>1, PointFacts, Division
<1>2. /\ e \in 1..num_points
      /\ \A j \in 0..(e - 1) : points[j].z = points[0].z
      /\ e < num_points => points[e].z # points[0].z
  BY <1>1, RunEndFacts
<1>3. \A i \in 0..(num_points - 1) : points[i].z = i \div s
  BY PointFacts
<1> HIDE DEF e, s
<1>4. points[0].z = 0
  BY <1>1, <1>3 DEF Divides
<1>5. \A i \in 0..(num_points - 1) : i < s => points[i].z = 0
  BY <1>1, <1>3 DEF Divides
<1>6. s < num_points => points[s].z = 1
  <2>1. (0 + 1 * s) \div s = 1
    BY <1>1 DEF Divides
  <2>2. 0 + 1 * s = s
    BY <1>1
  <2> QED
    BY <1>1, <1>3, <2>1, <2>2
<1>7. e < num_points => ~(e < s)
  BY <1>1, <1>2, <1>4, <1>5
<1>8. s < num_points => ~(s < e)
  BY <1>1, <1>2, <1>4, <1>6
<1> QED
  BY <1>1, <1>2, <1>7, <1>8 DEF e, s

(* Whole layers agree with each other.                                     *)
LEMMA LayersAgree ==
    ASSUME IsInput, NEW i \in 0..(num_points - 1)
    PROVE  LET s == Size(grid)
           IN  /\ points[i].z = points[s * (i \div s)].z
               /\ points[i].x = points[i % s].x
               /\ points[i].y = points[i % s].y
<1> DEFINE s == Size(grid)
           k == i \div s
           j == i % s
<1>1. s \in Nat \ {0, 1} /\ num_points \in Nat /\ Divides(s)
  <2>1. s * grid.z_count \in Nat
    BY PointFacts, GridType, Products DEF IsInput
  <2> QED
    BY <2>1, PointFacts, Division
<1>2. j \in 0..(s - 1) /\ k \in Nat /\ i = s * k + j /\ i \in Nat
  <2>1. i \in Nat
    BY <1>1
  <2> QED
    BY ONLY <1>1, <2>1 DEF Divides
<1> HIDE DEF s, k, j
<1>3. (s * k) \div s = k /\ s * k \in 0..(num_points - 1)
  <2>1. (0 + k * s) \div s = k /\ 0 \in 0..(s - 1)
    BY <1>1, <1>2 DEF Divides
  <2>2. 0 + k * s = s * k /\ s * k \in Nat
    BY <1>1, <1>2, Products
  <2>3. s * k \leq i
    BY <1>1, <1>2, <2>2
  <2> QED
    BY <1>1, <2>1, <2>2, <2>3
<1>4. j % s = j /\ j \in 0..(num_points - 1)
  <2>1. s * k \in Nat
    BY <1>1, <1>2, Products
  <2>2. j \leq i
    BY <1>1, <1>2, <2>1
  <2> QED
    BY <1>1, <1>2, <2>2 DEF Divides
<1>5. \A m \in 0..(num_points - 1) :
          /\ points[m].x = Nth(grid, m % s).x /\ points[m].y = Nth(grid, m % s).y
          /\ points[m].z = m \div s
  BY PointFacts DEF s
<1>6. points[i].z = points[s * k].z
  BY <1>3, <1>5 DEF k
<1>7. points[i].x = points[j].x /\ points[i].y = points[j].y
  BY <1>4, <1>5 DEF j
<1> QED
  BY <1>6, <1>7 DEF s, k, j

(* Nothing is written to the points.                                       *)
LEMMA InputStays ==
    ASSUME IsInput, UNCHANGED input
    PROVE  IsInput' /\ num_points' = num_points /\ (WholeLayers' <=> WholeLayers)
BY DEF IsInput, input, num_points, WholeLayers

(* An export begins in the invariant.                                      *)
LEMMA InitIsIInv ==
    ASSUME Init, grid.scale = "medium"
    PROVE  IInv
<1>1. IsInput
  <2>1. grid \in Grids
    BY DEF Init
  <2>2. Cardinality(DOMAIN Generated(grid)) = Size(grid) * grid.z_count
    <3>1. \A n \in Nat : Cardinality(0..(n - 1)) = n
      BY FS_Interval
    <3>2. Size(grid) * grid.z_count \in Nat
      BY <2>1, SizeIsMore, GridType, Products
    <3>3. DOMAIN Generated(grid) = 0..(Size(grid) * grid.z_count - 1)
      BY DEF Generated, Size
    <3> QED
      BY ONLY <3>1, <3>2, <3>3
  <2>3. PICK length \in 1..Cardinality(DOMAIN Generated(grid)) :
            points = [i \in 0..(length - 1) |-> Generated(grid)[i]]
    BY DEF Init
  <2> QED
    BY <2>1, <2>2, <2>3 DEF IsInput
<1>2. Staged
  BY DEF Init, Staged
<1>3. RowsInOrder
  BY DEF Init, RowsInOrder, NextBegin
<1>4. FrontierInStrip /\ FansAtEnds /\ Tiled
  BY DEF Init, FrontierInStrip, FansAtEnds, Tiled, InStrips
<1> QED
  BY <1>1, <1>2, <1>3, <1>4 DEF IInv

(* The test of the layers refuses exactly what is not whole layers.        *)
LEMMA FindLayersKeeps ==
    ASSUME IInv, FindLayers
    PROVE  IInv'
<1> DEFINE s == Size(grid)
           size == points_per_layer'
           Agrees(i) == /\ points[i].z = points[size * (i \div size)].z
                        /\ points[i].x = points[i % size].x
                        /\ points[i].y = points[i % size].y
           Accepts == /\ size # num_points /\ num_points % size = 0
                      /\ \A i \in DOMAIN points : Agrees(i)
<1>1. IsInput /\ Staged /\ RowsInOrder /\ stage = "layers"
  BY DEF IInv, FindLayers
<1>2. /\ IsInput' /\ num_points' = num_points /\ (WholeLayers' <=> WholeLayers)
      /\ Size(grid)' = s
  <2>1. UNCHANGED input
    BY DEF FindLayers
  <2> QED
    BY <1>1, <2>1, InputStays DEF input
<1>3. s \in Nat \ {0, 1} /\ num_points \in Nat \ {0} /\ DOMAIN points = 0..(num_points - 1)
  <2>1. s * grid.z_count \in Nat
    BY <1>1, PointFacts, GridType, Products DEF IsInput
  <2> QED
    BY <1>1, <2>1, PointFacts
<1>4. size = IF num_points < s THEN num_points ELSE s
  BY <1>1, FirstRun DEF FindLayers
<1>5. WholeLayers <=> num_points % s = 0 /\ num_points > s
  BY DEF WholeLayers, Size
<1>6. stage' = IF Accepts THEN "rows" ELSE "failed"
  BY DEF FindLayers
<1>7. size = s => \A i \in DOMAIN points : Agrees(i)
  BY <1>1, <1>3, LayersAgree
<1> HIDE DEF s, size, Agrees
<1>8. Accepts <=> WholeLayers
  BY <1>3, <1>4, <1>5, <1>7
<1> HIDE DEF Accepts
<1>9. size \in 0..num_points /\ (Accepts => size = s)
  <2>1. WholeLayers => num_points > s
    BY <1>5
  <2> QED
    BY <1>3, <1>4, <1>8, <2>1
<1>10. UNCHANGED <<rows, frontier, triangles>>
  BY DEF FindLayers
<1>11. Staged'
  <2>1. stage' \in {"rows", "failed"} /\ (stage' = "rows" <=> WholeLayers)
    BY <1>6, <1>8
  <2>2. /\ rows' = <<>> /\ row' = 0 /\ lower_point' = 0 /\ upper_point' = 0
        /\ triangles' = <<>>
    BY <1>1, <1>10 DEF Staged, frontier
  <2>3. points_per_layer' \in 0..num_points /\ (WholeLayers => points_per_layer' = s)
    BY <1>8, <1>9 DEF size
  <2> QED
    BY <1>2, <2>1, <2>2, <2>3 DEF Staged
<1>12. RowsInOrder'
  <2>1. rows' = <<>>
    BY <1>1, <1>10 DEF Staged
  <2> QED
    BY <2>1 DEF RowsInOrder, NextBegin
<1>13. stage' \in {"rows", "failed"}
  BY <1>6
<1>14. FrontierInStrip' /\ FansAtEnds' /\ Tiled'
  BY <1>13 DEF FrontierInStrip, FansAtEnds, Tiled, InStrips
<1> QED
  BY <1>2, <1>11, <1>12, <1>14 DEF IInv

(* The rows found are intervals of indices.                                *)
LEMMA RowTypes ==
    ASSUME RowsInOrder
    PROVE  /\ Len(rows) \in Nat /\ NextBegin \in Nat
           /\ \A k \in 1..Len(rows) : rows[k].begin \in Nat /\ rows[k].end \in Nat
           /\ \A k \in 1..Len(rows) : rows[k].end \leq NextBegin
           /\ rows = <<>> <=> Len(rows) = 0
<1>1. rows \in Seq([begin : Nat, end : Nat])
  BY DEF RowsInOrder
<1>2. /\ Len(rows) \in Nat /\ (rows = <<>> <=> Len(rows) = 0)
      /\ \A k \in 1..Len(rows) : rows[k].begin \in Nat /\ rows[k].end \in Nat
  <2>1. Len(rows) \in Nat
    BY <1>1
  <2>2. rows = <<>> <=> Len(rows) = 0
    BY <1>1
  <2>3. \A k \in 1..Len(rows) : rows[k] \in [begin : Nat, end : Nat]
    BY <1>1, ElementOfSeq
  <2> QED
    BY ONLY <2>1, <2>2, <2>3
<1>3. NextBegin \in Nat
  BY <1>2 DEF NextBegin
<1>4. ASSUME NEW k \in 1..Len(rows)
      PROVE  rows[k].end \leq NextBegin
  <2>1. NextBegin = rows[Len(rows)].end /\ Len(rows) \in 1..Len(rows)
    BY <1>2 DEF NextBegin
  <2>2. CASE k < Len(rows)
    <3>1. rows[k].end \leq rows[Len(rows)].begin
      BY <2>1, <2>2 DEF RowsInOrder
    <3>2. rows[Len(rows)].begin < rows[Len(rows)].end
      BY <2>1 DEF RowsInOrder, IsRow
    <3> QED
      BY <1>2, <2>1, <3>1, <3>2
  <2>3. CASE k = Len(rows)
    BY <1>2, <2>1, <2>3
  <2> QED
    BY <1>2, <2>2, <2>3
<1> QED
  BY <1>2, <1>3, <1>4

(* Once the layers are found the first one is whole, and not the last.     *)
LEMMA LayerFound ==
    ASSUME IInv, stage \in {"rows", "strips", "written"}
    PROVE  /\ FirstLayer(points_per_layer) /\ points_per_layer \in Nat \ {0, 1}
           /\ num_points \in Nat /\ points_per_layer < num_points
           /\ DOMAIN points = 0..(num_points - 1)
<1>1. IsInput /\ WholeLayers /\ points_per_layer = Size(grid)
  BY DEF IInv, Staged
<1>2. num_points > Size(grid)
  BY <1>1 DEF WholeLayers, Size
<1>3. Size(grid) \in Nat \ {0, 1} /\ num_points \in Nat /\ DOMAIN points = 0..(num_points - 1)
  <2>1. Size(grid) * grid.z_count \in Nat
    BY <1>1, PointFacts, GridType, Products DEF IsInput
  <2> QED
    BY <1>1, <2>1, PointFacts
<1>4. FirstLayer(Size(grid))
  BY <1>1, <1>2, <1>3, Layout
<1> QED
  BY <1>1, <1>2, <1>3, <1>4

(* In a grid of medium scale a row ends where its y does.                  *)
LEMMA RowFound ==
    ASSUME IsInput, FindRow
    PROVE  rows' = Append(rows, [begin |-> NextBegin,
                                 end |-> RunEnd(NextBegin, points_per_layer, "y")])
<1>1. ~Torn(points[NextBegin].y)
  BY DEF IsInput, Torn
<1>2. RowEnds = {RunEnd(NextBegin, points_per_layer, "y")}
  BY <1>1 DEF RowEnds
<1> QED
  BY <1>2 DEF FindRow

(* A row found follows the one before it.                                  *)
LEMMA FindRowKeeps ==
    ASSUME IInv, FindRow
    PROVE  IInv'
<1> DEFINE b == NextBegin
           e == RunEnd(NextBegin, points_per_layer, "y")
           n == Len(rows)
<1>1. IsInput /\ Staged /\ RowsInOrder /\ stage = "rows"
  BY DEF IInv, FindRow
<1>2. IsInput' /\ num_points' = num_points /\ (WholeLayers' <=> WholeLayers)
  BY <1>1, InputStays DEF FindRow
<1>3. UNCHANGED <<points, grid, stage, points_per_layer, row, lower_point, upper_point, triangles>>
  BY DEF FindRow, input, frontier
<1>4. Staged'
  <2>1. Size(grid)' = Size(grid)
    BY <1>3
  <2> QED
    BY <1>1, <1>2, <1>3, <2>1 DEF Staged
<1>5. points_per_layer \in Nat
  BY <1>1, LayerFound
<1>6. /\ n \in Nat /\ b \in Nat /\ b < points_per_layer
      /\ \A k \in 1..n : rows[k].begin \in Nat /\ rows[k].end \in Nat /\ rows[k].end \leq b
  BY <1>1, RowTypes DEF FindRow
<1>7. /\ e \in (b + 1)..points_per_layer
      /\ \A j \in b..(e - 1) : points[j].y = points[b].y
      /\ e < points_per_layer => points[e].y # points[b].y
  BY <1>5, <1>6, RunEndFacts
<1>8. rows' = Append(rows, [begin |-> b, end |-> e])
  BY <1>1, RowFound
<1>14. rows \in Seq([begin : Nat, end : Nat]) /\ (rows = <<>> => b = 0)
       /\ (rows # <<>> => b = rows[n].end)
  BY <1>1 DEF RowsInOrder, NextBegin
<1>15. 1..(n + 1) = (1..n) \cup {n + 1}
  BY <1>6
<1>16. \A k \in 1..n : IsRow(k)
  BY <1>1 DEF RowsInOrder
<1>17. \A i \in 0..(b - 1) : \E k \in 1..n : rows[k].begin \leq i /\ i < rows[k].end
  BY <1>1 DEF RowsInOrder
<1>18. /\ rows # <<>> => rows[1].begin = 0 /\ n # 0
       /\ rows = <<>> => n = 0
       /\ \A k \in 1..(n - 1) : rows[k + 1].begin = rows[k].end
       /\ \A j, k \in 1..n : j < k => rows[j].end \leq rows[k].begin
  BY <1>1, RowTypes DEF RowsInOrder
<1> HIDE DEF b, e
<1>9. /\ rows' \in Seq([begin : Nat, end : Nat]) /\ Len(rows') = n + 1
      /\ \A k \in 1..n : rows'[k] = rows[k]
      /\ rows'[n + 1].begin = b /\ rows'[n + 1].end = e
      /\ rows' # <<>>
  <2>1. [begin |-> b, end |-> e] \in [begin : Nat, end : Nat]
    BY <1>5, <1>6, <1>7
  <2> QED
    BY <1>8, <1>14, <2>1
<1>10. NextBegin' = e
  BY <1>6, <1>9 DEF NextBegin
<1> HIDE DEF n
<1>11. RowsInOrder'
  <2>1. \A k \in 1..(n + 1) : IsRow(k)'
    <3>1. ASSUME NEW k \in 1..n
          PROVE  IsRow(k)'
      <4>1. IsRow(k) /\ rows'[k] = rows[k]
        BY <1>9, <1>16
      <4> QED
        BY <1>3, <4>1 DEF IsRow
    <3>2. ASSUME NEW k, k = n + 1
          PROVE  IsRow(k)'
      <4>1. b < e /\ e \leq points_per_layer
        BY <1>5, <1>6, <1>7
      <4> QED
        BY <1>3, <1>7, <1>9, <3>2, <4>1 DEF IsRow
    <3> QED
      BY <1>15, <3>1, <3>2
  <2>2. rows'[1].begin = 0
    <3>1. CASE n = 0
      BY <1>9, <1>14, <1>18, <3>1
    <3>2. CASE n # 0
      <4>1. 1 \in 1..n /\ rows # <<>>
        BY <1>6, <1>18, <3>2
      <4> QED
        BY <1>9, <1>18, <4>1
    <3> QED
      BY <3>1, <3>2
  <2>3. \A k \in 1..n : rows'[k + 1].begin = rows'[k].end
    <3>1. ASSUME NEW k \in 1..n, k < n
          PROVE  rows'[k + 1].begin = rows'[k].end
      <4>1. k \in 1..(n - 1) /\ k + 1 \in 1..n
        BY <1>6, <3>1
      <4> QED
        BY <1>9, <1>18, <4>1
    <3>2. n # 0 => rows'[n + 1].begin = rows'[n].end
      <4>1. n # 0 => n \in 1..n /\ b = rows[n].end
        BY <1>6, <1>14, <1>18
      <4> QED
        BY ONLY <1>9, <4>1
    <3> QED
      BY <1>6, <3>1, <3>2
  <2>4. \A j, k \in 1..(n + 1) : j < k => rows'[j].end \leq rows'[k].begin
    <3>1. \A j, k \in 1..n : j < k => rows'[j].end \leq rows'[k].begin
      BY <1>9, <1>18
    <3>2. \A j \in 1..n : rows'[j].end \leq rows'[n + 1].begin
      BY <1>6, <1>9
    <3>3. \A k \in 1..n : ~(n + 1 < k) /\ ~(n + 1 < n + 1)
      BY <1>6
    <3> QED
      BY <1>15, <3>1, <3>2, <3>3
  <2>5. ASSUME NEW i \in 0..(e - 1)
        PROVE  \E k \in 1..(n + 1) : rows'[k].begin \leq i /\ i < rows'[k].end
    <3>1. CASE i < b
      <4>1. PICK k \in 1..n : rows[k].begin \leq i /\ i < rows[k].end
        BY <1>6, <1>17, <3>1
      <4> QED
        BY <1>9, <1>15, <4>1
    <3>2. CASE b \leq i
      <4>1. n + 1 \in 1..(n + 1) /\ rows'[n + 1].begin \leq i /\ i < rows'[n + 1].end
        BY <1>5, <1>6, <1>7, <1>9, <3>2
      <4> QED
        BY <4>1
    <3> QED
      BY <1>5, <1>6, <1>7, <3>1, <3>2
  <2>6. Len(rows') - 1 = n
    BY <1>6, <1>9
  <2> QED
    BY <1>9, <1>10, <2>1, <2>2, <2>3, <2>4, <2>5, <2>6 DEF RowsInOrder
<1>12. stage' = "rows"
  BY <1>1, <1>3
<1>13. FrontierInStrip' /\ FansAtEnds' /\ Tiled'
  BY <1>12 DEF FrontierInStrip, FansAtEnds, Tiled, InStrips
<1> QED
  BY <1>2, <1>4, <1>11, <1>13 DEF IInv

(* There are two rows at least, and the first strip is entered.            *)
LEMMA RowsFoundKeeps ==
    ASSUME IInv, RowsFound
    PROVE  IInv'
<1>1. /\ IsInput /\ Staged /\ RowsInOrder /\ stage = "rows" /\ NextBegin = points_per_layer
      /\ UNCHANGED <<points, grid, points_per_layer, rows, triangles>> /\ UNCHANGED input
  BY DEF IInv, RowsFound, input
<1>2. /\ IsInput' /\ num_points' = num_points /\ (WholeLayers' <=> WholeLayers)
      /\ Size(grid)' = Size(grid)
  BY <1>1, InputStays
<1>3. Len(rows) >= 2
  <2>1. PICK i \in 0..(points_per_layer - 1), j \in 0..(points_per_layer - 1) :
            points[i].y # points[j].y
    BY <1>1, LayerFound DEF FirstLayer
  <2>2. PICK k \in 1..Len(rows), m \in 1..Len(rows) :
            /\ rows[k].begin \leq i /\ i < rows[k].end
            /\ rows[m].begin \leq j /\ j < rows[m].end
    BY <1>1 DEF RowsInOrder
  <2>3. /\ \A h \in rows[k].begin..(rows[k].end - 1) : points[h].y = points[rows[k].begin].y
        /\ \A h \in rows[m].begin..(rows[m].end - 1) : points[h].y = points[rows[m].begin].y
    BY <1>1 DEF RowsInOrder, IsRow
  <2>4. i \in rows[k].begin..(rows[k].end - 1) /\ j \in rows[m].begin..(rows[m].end - 1)
    <3>1. points_per_layer \in Nat
      BY <1>1, LayerFound
    <3> QED
      BY <1>1, <2>2, <3>1, RowTypes
  <2>5. k # m
    BY <2>1, <2>3, <2>4
  <2> QED
    BY <1>1, <2>5, RowTypes
<1>4. Len(rows) \in Nat
  BY <1>1, RowTypes
<1>5. /\ stage' = "strips" /\ row' = 1
      /\ lower_point' = rows[1].begin /\ upper_point' = rows[2].begin
  <2>1. ~(Len(rows) < 2)
    BY <1>3, <1>4
  <2> QED
    BY <2>1 DEF RowsFound, Enter
<1>6. Staged'
  BY <1>1, <1>2, <1>5 DEF Staged
<1>7. RowsInOrder' /\ NextBegin' = NextBegin
  BY <1>1 DEF RowsInOrder, NextBegin, IsRow
<1>8. /\ 1 \in 1..Len(rows) /\ 2 \in 1..Len(rows)
      /\ rows[1].begin = 0 /\ rows[1].end \in Nat /\ rows[2].begin \in Nat /\ rows[2].end \in Nat
      /\ rows[1].begin < rows[1].end /\ rows[1].end = rows[2].begin
      /\ rows[2].begin < rows[2].end /\ rows[2].end \leq points_per_layer
  <2>1. 1 \in 1..(Len(rows) - 1) /\ 1 \in 1..Len(rows) /\ 2 \in 1..Len(rows) /\ rows # <<>>
    BY <1>1, <1>3, <1>4, RowTypes
  <2>2. IsRow(1) /\ IsRow(2) /\ rows[1].begin = 0 /\ rows[1 + 1].begin = rows[1].end
    BY <1>1, <2>1 DEF RowsInOrder
  <2> QED
    BY <1>1, <2>1, <2>2, RowTypes DEF IsRow
<1>9. FrontierInStrip'
  <2>1. 1 \in 1..(Len(rows) - 1) /\ 1 + 1 = 2
    BY <1>3, <1>4
  <2>2. rows[1].begin \in rows[1].begin..(rows[1].end - 1)
    BY <1>8
  <2>3. rows[2].begin \in rows[2].begin..(rows[2].end - 1)
    BY <1>8
  <2> QED
    BY <1>1, <1>3, <1>5, <1>7, <2>1, <2>2, <2>3 DEF FrontierInStrip
<1>10. FansAtEnds'
  BY <1>1, <1>5 DEF FansAtEnds
<1>11. Tiled'
  <2>1. triangles' = <<>>
    BY <1>1 DEF Staged
  <2>2. Used' = {}
    BY <2>1 DEF Used
  <2>3. Moved' = FALSE
    BY <1>1, <1>5, <1>8 DEF Moved
  <2>4. Passed' = {}
    BY <1>1, <1>4, <1>5 DEF Passed, Strips
  <2>5. Border' = {}
    <3>1. Bottom' = {} /\ Pending' = {}
      BY <1>5, <1>8 DEF Bottom, Pending
    <3>2. Top' = {}
      BY <1>1, <1>5, <1>8 DEF Top
    <3>3. RightEnds' = {} /\ LeftEnds' = {} /\ Front' = {}
      BY <2>3, <2>4 DEF RightEnds, LeftEnds, Opened, Front
    <3> QED
      BY <3>1, <3>2, <3>3 DEF Border
  <2>6. Inside' = {}
    BY <2>3, <2>4 DEF Inside, PassedPoints, OpenedPoints
  <2>7. IsFiniteSet({}) /\ Cardinality({}) = 0
    BY FS_EmptySet
  <2> QED
    BY <2>1, <2>2, <2>5, <2>6, <2>7 DEF Tiled, Unmatched
<1> QED
  BY <1>2, <1>6, <1>7, <1>9, <1>10, <1>11 DEF IInv

--------------------------------------------------------------------------------
(* The strip at hand.                                                      *)

StripOrder ==
    /\ points_per_layer \in Nat /\ Len(rows) \in Nat /\ row \in 1..(Len(rows) - 1)
    /\ \A k \in 1..Len(rows) :
           /\ rows[k].begin \in Nat /\ rows[k].end \in Nat
           /\ rows[k].begin < rows[k].end /\ rows[k].end \leq points_per_layer
    /\ \A k \in 1..(Len(rows) - 1) : rows[k + 1].begin = rows[k].end
    /\ \A j, k \in 1..Len(rows) : j < k => rows[j].end \leq rows[k].begin
    /\ rows[1].begin = 0
    /\ lower_point \in rows[row].begin..(rows[row].end - 1)
    /\ upper_point \in rows[row + 1].begin..(rows[row + 1].end - 1)

(* The same of the two rows at hand alone.                                 *)
StripEnds ==
    /\ row \in Nat \ {0} /\ row \in 1..Len(rows) /\ row + 1 \in 1..Len(rows)
    /\ points_per_layer \in Nat
    /\ rows[row].begin \in Nat /\ rows[row].end \in Nat
    /\ rows[row + 1].begin \in Nat /\ rows[row + 1].end \in Nat
    /\ lower_point \in Nat /\ upper_point \in Nat
    /\ rows[row].begin \leq lower_point /\ lower_point < rows[row].end
    /\ rows[row].end = rows[row + 1].begin
    /\ rows[row + 1].begin \leq upper_point /\ upper_point < rows[row + 1].end
    /\ rows[row + 1].end \leq points_per_layer
    /\ rows[1].begin = 0 /\ rows[1].end \in Nat
    /\ row # 1 => rows[1].end \leq rows[row].begin

(* The rows are in order and the frontier is within the two at hand.       *)
LEMMA StripFacts ==
    ASSUME IInv, InStrips
    PROVE  StripOrder /\ StripEnds
<1>1. RowsInOrder /\ FrontierInStrip
  BY DEF IInv
<1>2. points_per_layer \in Nat
  BY LayerFound DEF InStrips
<1>3. Len(rows) \in Nat /\ row \in 1..(Len(rows) - 1) /\ rows # <<>>
  BY <1>1, RowTypes DEF FrontierInStrip
<1>4. \A k \in 1..Len(rows) :
          /\ rows[k].begin \in Nat /\ rows[k].end \in Nat
          /\ rows[k].begin < rows[k].end /\ rows[k].end \leq points_per_layer
  BY <1>1, RowTypes DEF RowsInOrder, IsRow
<1>5. /\ \A k \in 1..(Len(rows) - 1) : rows[k + 1].begin = rows[k].end
      /\ \A j, k \in 1..Len(rows) : j < k => rows[j].end \leq rows[k].begin
      /\ rows[1].begin = 0
      /\ lower_point \in rows[row].begin..(rows[row].end - 1)
      /\ upper_point \in rows[row + 1].begin..(rows[row + 1].end - 1)
  BY <1>1, <1>3 DEF RowsInOrder, FrontierInStrip
<1>6. StripOrder
  BY <1>2, <1>3, <1>4, <1>5 DEF StripOrder
<1>7. StripEnds
  <2>1. /\ row \in Nat \ {0} /\ row \in 1..Len(rows) /\ row + 1 \in 1..Len(rows)
        /\ 1 \in 1..Len(rows)
    BY <1>3
  <2>2. /\ rows[row].begin \in Nat /\ rows[row].end \in Nat
        /\ rows[row + 1].begin \in Nat /\ rows[row + 1].end \in Nat
        /\ rows[row + 1].end \leq points_per_layer /\ rows[1].end \in Nat
        /\ rows[row].end = rows[row + 1].begin
        /\ row # 1 => rows[1].end \leq rows[row].begin
    BY <1>3, <1>4, <1>5, <2>1
  <2>3. /\ lower_point \in Nat /\ upper_point \in Nat
        /\ rows[row].begin \leq lower_point /\ lower_point < rows[row].end
        /\ rows[row + 1].begin \leq upper_point /\ upper_point < rows[row + 1].end
    BY <1>5, <2>2
  <2> QED
    BY <1>2, <1>5, <2>1, <2>2, <2>3 DEF StripEnds
<1> QED
  BY <1>6, <1>7

(* The points at the frontier: the rows go to the right by two half steps  *)
(* and upwards, and the two ends of the frontier are not above each other  *)
(* as long as a row of the strip goes on.                                  *)
LEMMA StripPoints ==
    ASSUME IInv, InStrips
    PROVE  /\ points[lower_point].x \in Int /\ points[upper_point].x \in Int
           /\ points[lower_point].y \in Nat /\ points[upper_point].y \in Nat
           /\ points[lower_point].y < points[upper_point].y
           /\ LowerLeft => /\ points[lower_point + 1].y = points[lower_point].y
                           /\ points[lower_point + 1].x = points[lower_point].x + 2
           /\ UpperLeft => /\ points[upper_point + 1].y = points[upper_point].y
                           /\ points[upper_point + 1].x = points[upper_point].x + 2
           /\ LowerLeft \/ UpperLeft => points[lower_point].x # points[upper_point].x
<1> DEFINE s == points_per_layer
           a == rows[row].begin
           b == rows[row + 1].begin
           e == rows[row + 1].end
           l == lower_point
           u == upper_point
<1>1. FirstLayer(s) /\ StripEnds
  BY StripFacts, LayerFound DEF InStrips
<1>2. /\ IsRow(row) /\ IsRow(row + 1)
  BY <1>1 DEF IInv, RowsInOrder, StripEnds
<1>3. /\ s \in Nat /\ a \in Nat /\ b \in Nat /\ e \in Nat /\ l \in Nat /\ u \in Nat
      /\ a \leq l /\ l < b /\ b \leq u /\ u < e /\ e \leq s
      /\ LowerLeft <=> l + 1 < b
      /\ UpperLeft <=> u + 1 < e
      /\ rows[row].end = b
  BY <1>1 DEF StripEnds, LowerLeft, UpperLeft
<1>4. /\ \A i \in a..(b - 1) : points[i].y = points[a].y
      /\ \A i \in b..(e - 1) : points[i].y = points[b].y
      /\ points[b].y # points[a].y
  <2>1. b < s
    BY <1>3
  <2> QED
    BY <1>2, <1>3, <2>1 DEF IsRow
<1>5. /\ \A i \in 0..(s - 1) :
             points[i].x \in Int /\ points[i].y \in Nat /\ points[i].x % 2 = points[i].y % 2
      /\ \A i, j \in 0..(s - 1) : i < j => points[i].y \leq points[j].y
      /\ \A i, j \in 0..(s - 1) :
             j = i + 1 => \/ points[i].y = points[j].y /\ points[j].x = points[i].x + 2
                          \/ points[i].y < points[j].y /\ \/ points[j].y = points[i].y + 1
                                                          \/ Alone(i, s) /\ Alone(j, s)
  BY <1>1 DEF FirstLayer
<1> HIDE DEF s, a, b, e, l, u
<1>6. /\ l \in 0..(s - 1) /\ u \in 0..(s - 1) /\ a \in 0..(s - 1) /\ b \in 0..(s - 1)
      /\ l \in a..(b - 1) /\ u \in b..(e - 1) /\ a \in a..(b - 1) /\ a < b
  BY <1>3
<1>7. points[l].y = points[a].y /\ points[u].y = points[b].y
  BY <1>4, <1>6
<1>8. points[a].y < points[b].y
  <2>1. points[a].y \leq points[b].y /\ points[a].y \in Nat /\ points[b].y \in Nat
    BY <1>5, <1>6
  <2> QED
    BY <1>4, <2>1
<1>9. LowerLeft => points[l + 1].y = points[l].y /\ points[l + 1].x = points[l].x + 2
  <2> SUFFICES ASSUME l + 1 < b
               PROVE  points[l + 1].y = points[l].y /\ points[l + 1].x = points[l].x + 2
    BY <1>3
  <2>1. l + 1 \in 0..(s - 1) /\ l + 1 \in a..(b - 1)
    BY <1>3
  <2>2. points[l + 1].y = points[l].y
    BY <1>4, <1>6, <2>1
  <2> QED
    BY <1>5, <1>6, <2>1, <2>2
<1>10. UpperLeft => points[u + 1].y = points[u].y /\ points[u + 1].x = points[u].x + 2
  <2> SUFFICES ASSUME u + 1 < e
               PROVE  points[u + 1].y = points[u].y /\ points[u + 1].x = points[u].x + 2
    BY <1>3
  <2>1. u + 1 \in 0..(s - 1) /\ u + 1 \in b..(e - 1)
    BY <1>3
  <2>2. points[u + 1].y = points[u].y
    BY <1>4, <1>6, <2>1
  <2> QED
    BY <1>5, <1>6, <2>1, <2>2
<1>11. LowerLeft \/ UpperLeft => points[l].x # points[u].x
  <2> SUFFICES ASSUME l + 1 < b \/ u + 1 < e
               PROVE  points[l].x # points[u].x
    BY <1>3
  <2>1. b - 1 \in 0..(s - 1) /\ b - 1 \in a..(b - 1) /\ b = (b - 1) + 1
    BY <1>3
  <2>2. points[b - 1].y = points[a].y
    BY <1>4, <2>1
  <2>3. \/ points[b].y = points[a].y + 1
        \/ Alone(b - 1, s) /\ Alone(b, s)
    BY <1>5, <1>6, <1>8, <2>1, <2>2
  <2>4. ~(Alone(b - 1, s) /\ Alone(b, s))
    <3>1. CASE l + 1 < b
      <4>1. l # b - 1 /\ points[l].y = points[b - 1].y
        BY <1>3, <1>7, <2>2, <3>1
      <4> QED
        BY <1>6, <4>1 DEF Alone
    <3>2. CASE u + 1 < e
      <4>1. u + 1 \in 0..(s - 1) /\ u + 1 \in b..(e - 1) /\ u + 1 # b
        BY <1>3, <3>2
      <4>2. points[u + 1].y = points[b].y
        BY <1>4, <4>1
      <4> QED
        BY <4>1, <4>2 DEF Alone
    <3> QED
      BY <3>1, <3>2
  <2>5. points[u].y = points[l].y + 1
    BY <1>7, <2>3, <2>4
  <2>6. \A m \in Nat : (m + 1) % 2 # m % 2
    OBVIOUS
  <2> QED
    BY <1>5, <1>6, <2>5, <2>6
<1> QED
  BY <1>5, <1>6, <1>7, <1>8, <1>9, <1>10, <1>11 DEF l, u

(* A triangle at the frontier turns left or is turned round.               *)
LEMMA Areas ==
    ASSUME IInv, InStrips
    PROVE  /\ LowerLeft => Area(lower_point, lower_point + 1, upper_point) > 0
           /\ UpperLeft => /\ Area(lower_point, upper_point, upper_point + 1) < 0
                           /\ Area(lower_point, upper_point + 1, upper_point) > 0
<1>1. \A x, z \in Int, y, w \in Nat :
          y < w => /\ ((x + 2) - x) * (w - y) - (y - y) * (z - x) > 0
                   /\ (z - x) * (w - y) - (w - y) * ((z + 2) - x) < 0
                   /\ ((z + 2) - x) * (w - y) - (w - y) * (z - x) > 0
  OBVIOUS
<1>2. LowerLeft => Area(lower_point, lower_point + 1, upper_point) > 0
  BY <1>1, StripPoints DEF Area
<1>3. UpperLeft => /\ Area(lower_point, upper_point, upper_point + 1) < 0
                   /\ Area(lower_point, upper_point + 1, upper_point) > 0
  BY <1>1, StripPoints DEF Area
<1> QED
  BY <1>2, <1>3

(* The row that is behind goes on, so the frontier does not lean more than *)
(* it has to.                                                              *)
LEMMA FansStay ==
    ASSUME IInv, AdvanceLower \/ AdvanceUpper
    PROVE  FansAtEnds'
<1> DEFINE xl == points[lower_point].x
           xu == points[upper_point].x
<1>1. InStrips /\ stage = "strips" /\ FansAtEnds
  BY DEF IInv, AdvanceLower, AdvanceUpper, InStrips
<1>2. StripEnds
  BY <1>1, StripFacts
<1>3. xl \in Int /\ xu \in Int /\ (LowerLeft \/ UpperLeft => xl # xu)
  BY <1>1, StripPoints
<1>4. /\ xu - xl > 1 => lower_point = rows[row].end - 1 \/ upper_point = rows[row + 1].begin
      /\ xu - xl < -1 => upper_point = rows[row + 1].end - 1 \/ lower_point = rows[row].begin
  BY <1>1 DEF FansAtEnds
<1>5. CASE AdvanceLower
  <2>1. /\ UNCHANGED <<points, rows, row, upper_point, stage>> /\ lower_point' = lower_point + 1
        /\ LowerLeft /\ (UpperLeft => points[lower_point + 1].x < points[upper_point + 1].x)
    BY <1>5 DEF AdvanceLower, LowerIsNext, input
  <2>2. points[lower_point'].x = xl + 2 /\ (UpperLeft => points[upper_point + 1].x = xu + 2)
    BY <1>1, <2>1, StripPoints
  <2>3. UpperLeft => xl < xu
    BY <1>3, <2>1, <2>2
  <2>4. xu - (xl + 2) > 1 => upper_point = rows[row + 1].begin
    <3>1. lower_point # rows[row].end - 1
      BY <1>2, <2>1 DEF StripEnds, LowerLeft
    <3> QED
      BY <1>3, <1>4, <3>1
  <2>5. xu - (xl + 2) < -1 => upper_point = rows[row + 1].end - 1
    <3>1. ~UpperLeft => upper_point = rows[row + 1].end - 1
      BY <1>2 DEF StripEnds, UpperLeft
    <3> QED
      BY <1>3, <2>3, <3>1
  <2> HIDE DEF xl, xu
  <2>6. /\ xu - points[lower_point'].x > 1 => upper_point = rows[row + 1].begin
        /\ xu - points[lower_point'].x < -1 => upper_point = rows[row + 1].end - 1
    BY <2>2, <2>4, <2>5
  <2> QED
    BY <2>1, <2>6 DEF FansAtEnds, xu
<1>6. CASE AdvanceUpper
  <2>1. /\ UNCHANGED <<points, rows, row, lower_point, stage>> /\ upper_point' = upper_point + 1
        /\ UpperLeft
        /\ LowerLeft => ~(points[lower_point + 1].x < points[upper_point + 1].x)
    BY <1>6 DEF AdvanceUpper, LowerIsNext, input
  <2>2. points[upper_point'].x = xu + 2 /\ (LowerLeft => points[lower_point + 1].x = xl + 2)
    BY <1>1, <2>1, StripPoints
  <2>3. LowerLeft => xu < xl
    BY <1>3, <2>1, <2>2
  <2>4. (xu + 2) - xl > 1 => lower_point = rows[row].end - 1
    <3>1. ~LowerLeft => lower_point = rows[row].end - 1
      BY <1>2 DEF StripEnds, LowerLeft
    <3> QED
      BY <1>3, <2>3, <3>1
  <2>5. (xu + 2) - xl < -1 => lower_point = rows[row].begin
    <3>1. upper_point # rows[row + 1].end - 1
      BY <1>2, <2>1 DEF StripEnds, UpperLeft
    <3> QED
      BY <1>3, <1>4, <3>1
  <2> HIDE DEF xl, xu
  <2>6. /\ points[upper_point'].x - xl > 1 => lower_point = rows[row].end - 1
        /\ points[upper_point'].x - xl < -1 => lower_point = rows[row].begin
    BY <2>2, <2>4, <2>5
  <2> QED
    BY <2>1, <2>6 DEF FansAtEnds, xl
<1> QED
  BY <1>5, <1>6

(* What a triangle adds to the edges.                                      *)
LEMMA AddedEdges ==
    ASSUME NEW D, triangles \in Seq(D \X D \X D), NEW a \in D, NEW b \in D, NEW c \in D,
           triangles' = Append(triangles, <<a, b, c>>)
    PROVE  /\ triangles' \in Seq(D \X D \X D)
           /\ Len(triangles) \in Nat /\ Len(triangles') = Len(triangles) + 1
           /\ Used' = Used \cup {<<a, b>>, <<b, c>>, <<c, a>>}
           /\ \A i \in DOMAIN triangles' :
                  triangles'[i] = <<a, b, c>> \/ \E j \in DOMAIN triangles : triangles'[i] = triangles[j]
           /\ \A e \in Used : e \in D \X D
<1> DEFINE n == Len(triangles)
           t == <<a, b, c>>
<1>1. t \in D \X D \X D
  OBVIOUS
<1>2. /\ triangles' \in Seq(D \X D \X D) /\ n \in Nat /\ Len(triangles') = n + 1
      /\ \A i \in 1..n : triangles'[i] = triangles[i]
      /\ triangles'[n + 1] = t
  BY <1>1, AppendProperties, LenProperties
<1>3. DOMAIN triangles = 1..n /\ DOMAIN triangles' = (1..n) \cup {n + 1}
  <2>1. DOMAIN triangles = 1..n /\ DOMAIN triangles' = 1..(n + 1)
    BY <1>2, LenProperties
  <2> QED
    BY <1>2, <2>1
<1>4. \A i \in 1..n : triangles[i] \in D \X D \X D
  BY ElementOfSeq
<1> HIDE DEF n
<1>5. t[1] = a /\ t[2] = b /\ t[3] = c
  OBVIOUS
<1> HIDE DEF t
<1>6. \A i \in 1..n : Edges(i)' = Edges(i)
  <2> SUFFICES ASSUME NEW i \in 1..n
               PROVE  Edges(i)' = Edges(i)
    OBVIOUS
  <2> QED
    BY <1>2 DEF Edges
<1>7. ASSUME NEW k, k = n + 1
      PROVE  Edges(k)' = {<<a, b>>, <<b, c>>, <<c, a>>}
  <2>1. triangles'[k] = t
    BY <1>2, <1>7
  <2> QED
    BY <1>5, <2>1 DEF Edges
<1>8. Used' = Used \cup {<<a, b>>, <<b, c>>, <<c, a>>}
  <2>1. Used' = UNION {Edges(i)' : i \in DOMAIN triangles'}
    BY DEF Used
  <2>2. \A e : e \in Used <=> \E i \in 1..n : e \in Edges(i)
    BY <1>3 DEF Used
  <2>3. \A e : e \in Used' <=> \E i \in (1..n) \cup {n + 1} : e \in Edges(i)'
    BY <1>3, <2>1
  <2> DEFINE E == {<<a, b>>, <<b, c>>, <<c, a>>}
  <2> HIDE DEF E
  <2>4. ASSUME NEW e \in Used
        PROVE  e \in Used'
    <3>1. PICK i \in 1..n : e \in Edges(i)
      BY <2>2
    <3>2. e \in Edges(i)'
      BY <1>6, <3>1
    <3> QED
      BY <2>3, <3>2
  <2>5. ASSUME NEW e \in E
        PROVE  e \in Used'
    <3>1. PICK k : k = n + 1
      OBVIOUS
    <3>2. e \in Edges(k)'
      BY <1>7, <3>1 DEF E
    <3> QED
      BY <2>3, <3>1, <3>2
  <2>6. ASSUME NEW e \in Used'
        PROVE  e \in Used \/ e \in E
    <3>1. PICK k \in (1..n) \cup {n + 1} : e \in Edges(k)'
      BY <2>3
    <3>2. CASE k \in 1..n
      <4>1. e \in Edges(k)
        BY <1>6, <3>1, <3>2
      <4> QED
        BY <2>2, <3>2, <4>1
    <3>3. CASE k = n + 1
      <4>1. e \in E
        BY <1>7, <3>1, <3>3 DEF E
      <4> QED
        BY <4>1
    <3> QED
      BY <3>1, <3>2, <3>3
  <2>7. Used' = Used \cup E
    BY ONLY <2>4, <2>5, <2>6
  <2> QED
    BY <2>7 DEF E
<1>9. \A e \in Used : e \in D \X D
  <2> SUFFICES ASSUME NEW i \in 1..n, NEW e \in Edges(i)
               PROVE  e \in D \X D
    BY <1>3 DEF Used
  <2>1. triangles[i][1] \in D /\ triangles[i][2] \in D /\ triangles[i][3] \in D
    BY <1>4
  <2> QED
    BY <2>1 DEF Edges
<1> QED
  BY <1>2, <1>3, <1>5, <1>8, <1>9 DEF t, n

(* Three new edges are three more.                                         *)
LEMMA ThreeMore ==
    ASSUME NEW U, IsFiniteSet(U), NEW a, NEW b, NEW c, a \notin U, b \notin U, c \notin U,
           a # b, a # c, b # c
    PROVE  IsFiniteSet(U \cup {a, b, c}) /\ Cardinality(U \cup {a, b, c}) = Cardinality(U) + 3
<1>1. IsFiniteSet(U \cup {a}) /\ Cardinality(U \cup {a}) = Cardinality(U) + 1
  BY FS_AddElement
<1> DEFINE V == U \cup {a}
<1>2. b \notin V
  OBVIOUS
<1>3. IsFiniteSet(V \cup {b}) /\ Cardinality(V \cup {b}) = Cardinality(V) + 1
  <2> HIDE DEF V
  <2> QED
    BY <1>1, <1>2, FS_AddElement DEF V
<1> DEFINE W == V \cup {b}
<1>4. c \notin W
  OBVIOUS
<1>5. IsFiniteSet(W \cup {c}) /\ Cardinality(W \cup {c}) = Cardinality(W) + 1
  <2> HIDE DEF W
  <2> QED
    BY <1>3, <1>4, FS_AddElement DEF W
<1>6. U \cup {a, b, c} = W \cup {c}
  OBVIOUS
<1>7. Cardinality(U) \in Nat
  BY FS_CardinalityType
<1> QED
  BY <1>1, <1>3, <1>5, <1>6, <1>7

(* What a triangle changes of an outline: each of its edges is new there,  *)
(* or takes the reverse one away.                                          *)
AfterTriangle(U, a, b, c) ==
    \A e : e \in Unmatched(U \cup {<<a, b>>, <<b, c>>, <<c, a>>}) <=>
        \/ e \in Unmatched(U) /\ e \notin {<<b, a>>, <<c, b>>, <<a, c>>}
        \/ e = <<a, b>> /\ <<b, a>> \notin U
        \/ e = <<b, c>> /\ <<c, b>> \notin U
        \/ e = <<c, a>> /\ <<a, c>> \notin U

(* What a triangle does to the outline of those before it.                 *)
LEMMA OutlineChange ==
    ASSUME NEW D, NEW U \in SUBSET (D \X D), NEW a \in D, NEW b \in D, NEW c \in D,
           a # b, a # c, b # c, <<a, b>> \notin U, <<b, c>> \notin U, <<c, a>> \notin U
    PROVE  AfterTriangle(U, a, b, c)
<1> DEFINE E == {<<a, b>>, <<b, c>>, <<c, a>>}
           R == {<<b, a>>, <<c, b>>, <<a, c>>}
<1>1. ASSUME NEW e \in U
      PROVE  <<e[2], e[1]>> \in E <=> e \in R
  <2>1. e = <<e[1], e[2]>>
    OBVIOUS
  <2> QED
    BY <2>1
<1>2. /\ <<b, a>> \notin E /\ <<c, b>> \notin E /\ <<a, c>> \notin E
      /\ U \cap E = {}
  OBVIOUS
<1>3. ASSUME NEW e \in U
      PROVE  e \in Unmatched(U \cup E) <=> e \in Unmatched(U) /\ e \notin R
  BY <1>1 DEF Unmatched
<1>4. ASSUME NEW v \in D, NEW w \in D, <<v, w>> \in E
      PROVE  <<v, w>> \in Unmatched(U \cup E) <=> <<w, v>> \notin U
  <2>1. <<w, v>> \notin E
    BY <1>2, <1>4
  <2> QED
    BY <1>4, <2>1 DEF Unmatched
<1>5. \A e : e \in Unmatched(U \cup E) => e \in U \/ e \in E
  BY DEF Unmatched
<1>6. \A e : e \in Unmatched(U) => e \in U
  BY DEF Unmatched
<1> SUFFICES ASSUME NEW e
             PROVE  e \in Unmatched(U \cup E) <=>
                        \/ e \in Unmatched(U) /\ e \notin R
                        \/ e = <<a, b>> /\ <<b, a>> \notin U
                        \/ e = <<b, c>> /\ <<c, b>> \notin U
                        \/ e = <<c, a>> /\ <<a, c>> \notin U
  BY DEF AfterTriangle
<1>7. CASE e \in U
  <2>1. e # <<a, b>> /\ e # <<b, c>> /\ e # <<c, a>>
    BY <1>7
  <2> QED
    BY <1>3, <1>7, <2>1
<1>8. CASE e \in E
  <2>1. e \notin Unmatched(U)
    BY <1>2, <1>6, <1>8
  <2>2. /\ <<a, b>> \in Unmatched(U \cup E) <=> <<b, a>> \notin U
        /\ <<b, c>> \in Unmatched(U \cup E) <=> <<c, b>> \notin U
        /\ <<c, a>> \in Unmatched(U \cup E) <=> <<a, c>> \notin U
    BY <1>4
  <2>3. <<a, b>> # <<b, c>> /\ <<a, b>> # <<c, a>> /\ <<b, c>> # <<c, a>>
    OBVIOUS
  <2> QED
    BY <1>8, <2>1, <2>2, <2>3
<1>9. CASE e \notin U /\ e \notin E
  BY <1>5, <1>6, <1>9
<1> QED
  BY <1>7, <1>8, <1>9

(* The strips left behind lie below the one at hand.                       *)
LEMMA PassedFacts ==
    ASSUME StripOrder, NEW r \in Passed
    PROVE  /\ r \in Nat /\ r < row
           /\ rows[r].begin \in Nat /\ rows[r].end \in Nat
           /\ rows[r + 1].begin \in Nat /\ rows[r + 1].end \in Nat
           /\ rows[r].begin < rows[r].end /\ rows[r].end = rows[r + 1].begin
           /\ rows[r + 1].begin < rows[r + 1].end
           /\ rows[r].end \leq rows[row].begin /\ rows[r + 1].end \leq rows[row].end
<1>1. /\ r \in 1..(Len(rows) - 1) /\ r < row /\ r \in Nat
      /\ Len(rows) \in Nat /\ row \in 1..(Len(rows) - 1)
  BY DEF Passed, Strips, StripOrder
<1>2. r \in 1..Len(rows) /\ r + 1 \in 1..Len(rows) /\ row \in 1..Len(rows)
  BY <1>1
<1>3. /\ rows[r].begin \in Nat /\ rows[r].end \in Nat
      /\ rows[r + 1].begin \in Nat /\ rows[r + 1].end \in Nat
      /\ rows[row].begin \in Nat /\ rows[row].end \in Nat /\ rows[row].begin < rows[row].end
      /\ rows[r].begin < rows[r].end /\ rows[r].end = rows[r + 1].begin
      /\ rows[r + 1].begin < rows[r + 1].end
      /\ rows[r].end \leq rows[row].begin
  BY <1>1, <1>2 DEF StripOrder
<1>4. rows[r + 1].end \leq rows[row].end
  <2>1. CASE r + 1 < row
    <3>1. rows[r + 1].end \leq rows[row].begin
      BY <1>2, <2>1 DEF StripOrder
    <3> QED
      BY <1>3, <3>1
  <2>2. CASE r + 1 = row
    BY <1>3, <2>2
  <2> QED
    BY <1>1, <2>1, <2>2
<1> QED
  BY <1>1, <1>3, <1>4

(* Where the parts of the outline lie.                                     *)
LEMMA BorderShape ==
    ASSUME StripOrder, StripEnds
    PROVE  /\ \A e \in Bottom : /\ e[1] \in Nat /\ e[2] \in Nat
                                /\ e[1] < e[2] /\ e[2] \leq lower_point
           /\ \A e \in Pending : /\ e[1] \in Nat /\ e[2] \in Nat /\ row # 1
                                 /\ lower_point \leq e[2] /\ e[2] < e[1]
                                 /\ e[1] < rows[row].end
           /\ \A e \in Top : /\ e[1] \in Nat /\ e[2] \in Nat
                             /\ rows[row + 1].begin \leq e[2] /\ e[2] < e[1]
                             /\ e[1] \leq upper_point
           /\ \A e \in RightEnds : /\ e[1] \in Nat /\ e[2] \in Nat
                                   /\ e[1] < e[2] /\ e[2] < rows[row].end
           /\ \A e \in LeftEnds : /\ e[1] \in Nat /\ e[2] \in Nat
                                  /\ e[2] < e[1] /\ e[2] \leq rows[row].begin
                                  /\ e[1] \leq rows[row].begin \/ e[1] = rows[row + 1].begin
<1> DEFINE a == rows[row].begin
           b == rows[row + 1].begin
           l == lower_point
           u == upper_point
           end == rows[row].end
           first == rows[1].end
<1>1. /\ a \in Nat /\ b \in Nat /\ l \in Nat /\ u \in Nat /\ a \leq l /\ l < b /\ b \leq u
      /\ end = b /\ first \in Nat /\ (row # 1 => first \leq a)
  BY DEF StripEnds
<1>2. ASSUME NEW e \in Bottom
      PROVE  e[1] \in Nat /\ e[2] \in Nat /\ e[1] < e[2] /\ e[2] \leq l
  <2>1. PICK i \in 0..((IF row = 1 THEN l ELSE first - 1) - 1) : e = <<i, i + 1>>
    BY <1>2 DEF Bottom
  <2> HIDE DEF l, first, a, b
  <2>2. i \in Nat /\ i + 1 \leq l
    BY <1>1, <2>1
  <2> QED
    BY <2>1, <2>2
<1>3. ASSUME NEW e \in Pending
      PROVE  /\ e[1] \in Nat /\ e[2] \in Nat /\ row # 1 /\ l \leq e[2] /\ e[2] < e[1]
             /\ e[1] < end
  <2>1. PICK i \in l..(end - 2) : e = <<i + 1, i>> /\ row # 1
    BY <1>3 DEF Pending
  <2> QED
    BY <1>1, <2>1
<1>4. ASSUME NEW e \in Top
      PROVE  e[1] \in Nat /\ e[2] \in Nat /\ b \leq e[2] /\ e[2] < e[1] /\ e[1] \leq u
  <2>1. PICK i \in b..(u - 1) : e = <<i + 1, i>>
    BY <1>4 DEF Top
  <2> QED
    BY <1>1, <2>1
<1>5. ASSUME NEW e \in RightEnds
      PROVE  e[1] \in Nat /\ e[2] \in Nat /\ e[1] < e[2] /\ e[2] < end
  <2>1. PICK r \in Passed : e = <<rows[r].end - 1, rows[r + 1].end - 1>>
    BY <1>5 DEF RightEnds
  <2> QED
    BY <1>1, <2>1, PassedFacts
<1>6. ASSUME NEW e \in LeftEnds
      PROVE  e[1] \in Nat /\ e[2] \in Nat /\ e[2] < e[1] /\ e[2] \leq a /\ (e[1] \leq a \/ e[1] = b)
  <2>1. PICK r \in Opened : e = <<rows[r + 1].begin, rows[r].begin>>
    BY <1>6 DEF LeftEnds
  <2>2. r \in Passed \/ r = row
    BY <2>1 DEF Opened
  <2>3. CASE r = row
    BY <1>1, <2>1, <2>3
  <2>4. CASE r \in Passed
    BY <1>1, <2>1, <2>4, PassedFacts
  <2> QED
    BY <2>2, <2>3, <2>4
<1> QED
  BY <1>2, <1>3, <1>4, <1>5, <1>6

(* The frontier itself is an edge of the outline once it has moved, and    *)
(* the edges of the next triangle are new.                                 *)
LEMMA FrontierEdges ==
    ASSUME IInv, InStrips
    PROVE  /\ <<lower_point, upper_point>> \in Used <=> Moved
           /\ <<upper_point, lower_point>> \notin Used
           /\ LowerLeft => /\ <<lower_point, lower_point + 1>> \notin Used
                           /\ <<lower_point + 1, upper_point>> \notin Used
                           /\ <<upper_point, lower_point + 1>> \notin Used
                           /\ <<lower_point + 1, lower_point>> \in Used <=> row # 1
           /\ UpperLeft => /\ <<lower_point, upper_point + 1>> \notin Used
                           /\ <<upper_point + 1, lower_point>> \notin Used
                           /\ <<upper_point + 1, upper_point>> \notin Used
                           /\ <<upper_point, upper_point + 1>> \notin Used
<1> DEFINE l == lower_point
           u == upper_point
<1>1. StripEnds /\ (\A e \in Used : Behind(e)) /\ Unmatched(Used) = Border
  BY StripFacts DEF IInv, Tiled
<1>2. Border \subseteq Used
  BY <1>1 DEF Unmatched
<1>3. ASSUME NEW v, NEW w, <<v, w>> \in Used
      PROVE  /\ v \in 0..u /\ w \in 0..u
             /\ ~Moved => v < u /\ w < u
             /\ rows[row].begin \leq v /\ v < w =>
                    v \leq l /\ (w < rows[row].end => w \leq l)
             /\ rows[row + 1].begin \leq v =>
                    w < v /\ (w < rows[row + 1].begin => v + w < l + u)
             /\ row = 1 /\ v < rows[row + 1].begin => v < w
  <2> DEFINE e == <<v, w>>
  <2>1. Behind(e)
    BY <1>1, <1>3
  <2>2. e[1] = v /\ e[2] = w
    OBVIOUS
  <2> HIDE DEF e
  <2> QED
    BY <2>1, <2>2 DEF Behind
<1>4. <<l, u>> \in Used <=> Moved
  <2>1. Moved => <<l, u>> \in Border
    BY DEF Border, Front
  <2>2. ~Moved => <<l, u>> \notin Used
    BY <1>1, <1>3 DEF StripEnds
  <2> QED
    BY <1>2, <2>1, <2>2
<1>5. <<u, l>> \notin Used
  BY <1>1, <1>3 DEF StripEnds
<1>6. ASSUME LowerLeft
      PROVE  /\ <<l, l + 1>> \notin Used /\ <<l + 1, u>> \notin Used /\ <<u, l + 1>> \notin Used
             /\ <<l + 1, l>> \in Used <=> row # 1
  <2>1. <<l, l + 1>> \notin Used
    BY <1>1, <1>3, <1>6 DEF StripEnds, LowerLeft
  <2>2. <<l + 1, u>> \notin Used
    BY <1>1, <1>3, <1>6 DEF StripEnds, LowerLeft
  <2>3. <<u, l + 1>> \notin Used
    BY <1>1, <1>3, <1>6 DEF StripEnds, LowerLeft
  <2>4. row # 1 => <<l + 1, l>> \in Used
    <3>1. row # 1 => <<l + 1, l>> \in Pending
      BY <1>1, <1>6 DEF StripEnds, LowerLeft, Pending
    <3> QED
      BY <1>2, <3>1 DEF Border
  <2>5. row = 1 => <<l + 1, l>> \notin Used
    BY <1>1, <1>3, <1>6 DEF StripEnds, LowerLeft
  <2> QED
    BY <2>1, <2>2, <2>3, <2>4, <2>5
<1>7. ASSUME UpperLeft
      PROVE  /\ <<l, u + 1>> \notin Used /\ <<u + 1, l>> \notin Used
             /\ <<u + 1, u>> \notin Used /\ <<u, u + 1>> \notin Used
  BY <1>1, <1>3 DEF StripEnds
<1> QED
  BY <1>4, <1>5, <1>6, <1>7

(* What a step within the strips leaves alone.                             *)
LEMMA FrameStays ==
    ASSUME IInv, stage = "strips", UNCHANGED <<input, points_per_layer, rows>>,
           stage' \in {"strips", "written"}
    PROVE  IsInput' /\ Staged' /\ RowsInOrder' /\ NextBegin' = NextBegin
<1>1. IsInput /\ Staged /\ RowsInOrder /\ UNCHANGED <<grid, points>>
  BY DEF IInv, input
<1>2. /\ IsInput' /\ num_points' = num_points /\ (WholeLayers' <=> WholeLayers)
      /\ Size(grid)' = Size(grid)
  BY <1>1, InputStays
<1>3. Staged'
  BY <1>1, <1>2 DEF Staged
<1>4. RowsInOrder' /\ NextBegin' = NextBegin
  BY <1>1 DEF RowsInOrder, NextBegin, IsRow
<1> QED
  BY <1>2, <1>3, <1>4

(* In a grid of medium scale a triangle is added, turned left, unless its  *)
(* area is zero.                                                           *)
LEMMA TriangleAdded ==
    ASSUME IsInput, NEW a, NEW b, NEW c, add_triangle(a, b, c), Area(a, b, c) \in Int
    PROVE  /\ Area(a, b, c) > 0 => triangles' = Append(triangles, <<a, b, c>>)
           /\ Area(a, b, c) < 0 => triangles' = Append(triangles, <<a, c, b>>)
<1>1. grid.scale = "medium"
  BY DEF IsInput
<1> DEFINE area == Area(a, b, c)
<1>2. \/ area = 0
      \/ area > 0 /\ triangles' = Append(triangles, <<a, b, c>>)
      \/ area < 0 /\ triangles' = Append(triangles, <<a, c, b>>)
  BY <1>1 DEF add_triangle
<1>3. area \in Int
  OBVIOUS
<1> HIDE DEF area
<1>4. ~(area > 0 /\ area < 0) /\ (area = 0 => ~(area > 0) /\ ~(area < 0))
  BY <1>3
<1>5. /\ area > 0 => triangles' = Append(triangles, <<a, b, c>>)
      /\ area < 0 => triangles' = Append(triangles, <<a, c, b>>)
  BY <1>2, <1>4
<1> QED
  BY <1>5 DEF area

(* A triangle with its base on the lower row continues the tiling.         *)
LEMMA AdvanceLowerTiles ==
    ASSUME IInv, AdvanceLower
    PROVE  Tiled'
<1> DEFINE l == lower_point
           u == upper_point
           E == {<<l, l + 1>>, <<l + 1, u>>, <<u, l>>}
           D == LayerIndex
<1>1. /\ stage = "strips" /\ InStrips /\ LowerLeft /\ lower_point' = l + 1
      /\ UNCHANGED <<grid, points, stage, points_per_layer, rows, row, upper_point>>
      /\ add_triangle(l, l + 1, u)
  BY DEF AdvanceLower, LowerIsNext, InStrips, input
<1>2. StripOrder /\ StripEnds
  BY <1>1, StripFacts
<1>3. /\ triangles \in Seq(D \X D \X D) /\ IsFiniteSet(Used)
      /\ \A i \in DOMAIN triangles : TurnsLeft(triangles[i])
      /\ Cardinality(Used) = 3 * Len(triangles)
      /\ \A e \in Used : Behind(e)
      /\ Unmatched(Used) = Border /\ {e[1] : e \in Used} = Inside
  BY <1>1 DEF IInv, Tiled
<1>4. l \in D /\ l + 1 \in D /\ u \in D /\ l # l + 1 /\ l # u /\ l + 1 # u
  BY <1>1, <1>2 DEF StripEnds, LowerLeft, LayerIndex
<1>5. Area(l, l + 1, u) > 0 /\ Area(l, l + 1, u) \in Int
  <2>1. /\ points[l].x \in Int /\ points[l].y \in Int /\ points[u].x \in Int /\ points[u].y \in Int
        /\ points[l + 1].x \in Int /\ points[l + 1].y \in Int
    BY <1>1, StripPoints
  <2>2. Area(l, l + 1, u) \in Int
    <3>1. \A x1, x2, x3, y1, y2, y3 \in Int :
              (x2 - x1) * (y3 - y1) - (y2 - y1) * (x3 - x1) \in Int
      OBVIOUS
    <3> QED
      BY <2>1, <3>1 DEF Area
  <2> QED
    BY <1>1, <2>2, Areas
<1>6. triangles' = Append(triangles, <<l, l + 1, u>>)
  BY <1>1, <1>5, TriangleAdded DEF IInv
<1>7. /\ triangles' \in Seq(D \X D \X D) /\ Len(triangles') = Len(triangles) + 1
      /\ Len(triangles) \in Nat /\ Used' = Used \cup E
      /\ \A i \in DOMAIN triangles' :
             \/ triangles'[i] = <<l, l + 1, u>>
             \/ \E j \in DOMAIN triangles : triangles'[i] = triangles[j]
      /\ Used \in SUBSET (D \X D)
  <2> HIDE DEF D, l, u
  <2>1. triangles \in Seq(D \X D \X D)
    BY <1>3
  <2>2. /\ triangles' \in Seq(D \X D \X D)
        /\ Len(triangles) \in Nat /\ Len(triangles') = Len(triangles) + 1
        /\ Used' = Used \cup {<<l, l + 1>>, <<l + 1, u>>, <<u, l>>}
        /\ \A i \in DOMAIN triangles' :
               \/ triangles'[i] = <<l, l + 1, u>>
               \/ \E j \in DOMAIN triangles : triangles'[i] = triangles[j]
        /\ \A e \in Used : e \in D \X D
    BY ONLY <1>4, <1>6, <2>1, AddedEdges, Zenon
  <2> QED
    BY <2>2
<1>8. /\ <<l, l + 1>> \notin Used /\ <<l + 1, u>> \notin Used /\ <<u, l>> \notin Used
      /\ <<u, l + 1>> \notin Used /\ (<<l + 1, l>> \in Used <=> row # 1)
      /\ (<<l, u>> \in Used <=> Moved)
  BY <1>1, FrontierEdges
<1>9. \A i \in DOMAIN triangles' : TurnsLeft(triangles'[i])
  <2>1. TurnsLeft(<<l, l + 1, u>>)
    BY <1>5 DEF TurnsLeft
  <2> QED
    BY <1>3, <1>7, <2>1
<1>10. IsFiniteSet(Used') /\ Cardinality(Used') = 3 * Len(triangles')
  <2>1. /\ <<l, l + 1>> # <<l + 1, u>> /\ <<l, l + 1>> # <<u, l>> /\ <<l + 1, u>> # <<u, l>>
    BY <1>4
  <2>2. IsFiniteSet(Used \cup E) /\ Cardinality(Used \cup E) = Cardinality(Used) + 3
    BY <1>3, <1>8, <2>1, ThreeMore
  <2> QED
    BY <1>3, <1>7, <2>2
<1>11. Moved'
  BY <1>1, <1>2 DEF Moved, StripEnds
<1>12. \A e \in Used' : Behind(e)'
  <2>1. ASSUME NEW e \in Used
        PROVE  Behind(e)'
    <3>1. Behind(e)
      BY <1>3
    <3>2. e[1] \in 0..u /\ e[2] \in 0..u
      BY <3>1 DEF Behind
    <3>3. /\ rows[row].begin \leq e[1] /\ e[1] < e[2] =>
                 e[1] \leq l /\ (e[2] < rows[row].end => e[2] \leq l)
          /\ rows[row + 1].begin \leq e[1] =>
                 e[2] < e[1] /\ (e[2] < rows[row + 1].begin => e[1] + e[2] < l + u)
          /\ row = 1 /\ e[1] < rows[row + 1].begin => e[1] < e[2]
      BY <3>1 DEF Behind
    <3>4. /\ rows[row].begin \leq e[1] /\ e[1] < e[2] =>
                 e[1] \leq l + 1 /\ (e[2] < rows[row].end => e[2] \leq l + 1)
          /\ rows[row + 1].begin \leq e[1] =>
                 e[2] < e[1] /\ (e[2] < rows[row + 1].begin => e[1] + e[2] < (l + 1) + u)
      <4>1. e[1] \in Nat /\ e[2] \in Nat /\ l \in Nat /\ u \in Nat
        BY <1>2, <3>2 DEF StripEnds
      <4>2. \A i, j \in Nat : (j \leq l => j \leq l + 1) /\ (i + j < l + u => i + j < (l + 1) + u)
        BY <4>1
      <4> QED
        BY ONLY <3>3, <4>1, <4>2
    <3> QED
      BY <1>1, <1>11, <3>2, <3>3, <3>4 DEF Behind
  <2>2. ASSUME NEW e, e = <<l, l + 1>>
        PROVE  Behind(e)'
    BY <1>1, <1>2, <1>11, <2>2 DEF Behind, StripEnds, LowerLeft
  <2>3. ASSUME NEW e, e = <<l + 1, u>>
        PROVE  Behind(e)'
    BY <1>1, <1>2, <1>11, <2>3 DEF Behind, StripEnds, LowerLeft
  <2>4. ASSUME NEW e, e = <<u, l>>
        PROVE  Behind(e)'
    BY <1>1, <1>2, <1>11, <2>4 DEF Behind, StripEnds
  <2> QED
    BY <1>7, <2>1, <2>2, <2>3, <2>4
<1>13. Unmatched(Used)' = Border'
  <2>1. \A e : e \in Unmatched(Used)' <=>
            \/ e \in Border /\ e \notin {<<l + 1, l>>, <<u, l + 1>>, <<l, u>>}
            \/ e = <<l, l + 1>> /\ row = 1
            \/ e = <<l + 1, u>>
            \/ e = <<u, l>> /\ ~Moved
    <3> HIDE DEF D, l, u
    <3>1. AfterTriangle(Used, l, l + 1, u)
      BY <1>4, <1>7, <1>8, OutlineChange
    <3>2. Unmatched(Used)' = Unmatched(Used \cup E)
      BY <1>7 DEF Unmatched
    <3> QED
      BY <1>3, <1>8, <3>1, <3>2 DEF AfterTriangle
  <2>2. \A e : e \in Bottom' <=> e \in Bottom \/ (e = <<l, l + 1>> /\ row = 1)
    BY <1>1, <1>2 DEF Bottom, StripEnds
  <2>3. \A e : e \in Pending <=> e \in Pending' \/ (e = <<l + 1, l>> /\ row # 1)
    <3>1. rows[row].end - 2 \in Int /\ l \leq rows[row].end - 2
      BY <1>1, <1>2 DEF StripEnds, LowerLeft
    <3>2. l..(rows[row].end - 2) = {l} \cup ((l + 1)..(rows[row].end - 2))
      BY <1>2, <3>1 DEF StripEnds
    <3>3. Pending' = {<<i + 1, i>> : i \in IF row = 1 THEN {}
                                           ELSE (l + 1)..(rows[row].end - 2)}
      BY <1>1 DEF Pending
    <3>4. CASE row = 1
      BY <3>3, <3>4 DEF Pending
    <3>5. CASE row # 1
      <4> DEFINE I == (l + 1)..(rows[row].end - 2)
      <4>1. Pending = {<<i + 1, i>> : i \in {l} \cup I} /\ Pending' = {<<i + 1, i>> : i \in I}
        BY <3>2, <3>3, <3>5 DEF Pending
      <4> HIDE DEF I
      <4> QED
        BY <3>5, <4>1
    <3> QED
      BY <3>4, <3>5
  <2>4. <<l + 1, l>> \notin Pending'
    BY <1>1, <1>2 DEF Pending, StripEnds
  <2>5. Top' = Top /\ RightEnds' = RightEnds /\ Passed' = Passed
    BY <1>1 DEF Top, RightEnds, Passed, Strips
  <2>6. \A e : e \in LeftEnds' <=> e \in LeftEnds \/ (e = <<u, l>> /\ ~Moved)
    <3>1. Opened' = Passed \cup {row}
      BY <1>1, <1>11, <2>5 DEF Opened
    <3>2. LeftEnds' = {<<rows[r + 1].begin, rows[r].begin>> : r \in Passed \cup {row}}
      BY <1>1, <3>1 DEF LeftEnds
    <3>3. CASE Moved
      BY <3>2, <3>3 DEF LeftEnds, Opened
    <3>4. CASE ~Moved
      <4>1. l = rows[row].begin /\ u = rows[row + 1].begin
        BY <1>2, <3>4 DEF Moved, StripEnds
      <4>2. LeftEnds = {<<rows[r + 1].begin, rows[r].begin>> : r \in Passed}
        BY <3>4 DEF LeftEnds, Opened
      <4> QED
        BY <3>2, <3>4, <4>1, <4>2
    <3> QED
      BY <3>3, <3>4
  <2>7. Front' = {<<l + 1, u>>} /\ (\A e : e \in Front <=> e = <<l, u>> /\ Moved)
    BY <1>1, <1>11 DEF Front
  <2>8. ASSUME NEW e \in Bottom \cup Top \cup RightEnds \cup LeftEnds \cup Pending'
        PROVE  e \notin {<<l + 1, l>>, <<u, l + 1>>, <<l, u>>}
    <3>1. \A v, w : <<v, w>>[1] = v /\ <<v, w>>[2] = w
      OBVIOUS
    <3>2. e \in Bottom \cup RightEnds => e \notin {<<l + 1, l>>, <<u, l + 1>>, <<l, u>>}
      BY <1>1, <1>2, BorderShape DEF StripEnds, LowerLeft
    <3>3. e \in Top => e \notin {<<l + 1, l>>, <<u, l + 1>>, <<l, u>>}
      BY <1>1, <1>2, BorderShape DEF StripEnds, LowerLeft
    <3>4. e \in LeftEnds => e \notin {<<l + 1, l>>, <<u, l + 1>>, <<l, u>>}
      BY <1>1, <1>2, BorderShape DEF StripEnds, LowerLeft
    <3>5. e \in Pending' => e \notin {<<l + 1, l>>, <<u, l + 1>>, <<l, u>>}
      <4> SUFFICES ASSUME e \in Pending'
                   PROVE  e \notin {<<l + 1, l>>, <<u, l + 1>>, <<l, u>>}
        OBVIOUS
      <4>1. e \in Pending /\ e # <<l + 1, l>>
        BY <2>3, <2>4
      <4> QED
        BY <1>2, <4>1, BorderShape DEF StripEnds
    <3> QED
      BY <2>8, <3>2, <3>3, <3>4, <3>5
  <2>9. ASSUME NEW e
        PROVE  e \in Unmatched(Used)' <=> e \in Border'
    <3>1. e \in Border <=> \/ e \in Bottom \cup Top \cup RightEnds \cup LeftEnds \cup Pending'
                           \/ e = <<l + 1, l>> /\ row # 1
                           \/ e = <<l, u>> /\ Moved
      BY <2>3, <2>7 DEF Border
    <3>2. e \in Border' <=> \/ e \in Bottom \cup Top \cup RightEnds \cup LeftEnds \cup Pending'
                            \/ e = <<l, l + 1>> /\ row = 1
                            \/ e = <<u, l>> /\ ~Moved
                            \/ e = <<l + 1, u>>
      BY <2>2, <2>5, <2>6, <2>7 DEF Border
    <3> QED
      BY <2>1, <2>8, <3>1, <3>2
  <2> QED
    BY <2>9 DEF Unmatched
<1>14. {e[1] : e \in Used'} = Inside'
  <2>1. {e[1] : e \in Used'} = Inside \cup {l, l + 1, u}
    <3>1. {e[1] : e \in E} = {l, l + 1, u}
      OBVIOUS
    <3>2. {e[1] : e \in Used'} = {e[1] : e \in Used} \cup {e[1] : e \in E}
      BY <1>7
    <3> QED
      BY <1>3, <3>1, <3>2
  <2> DEFINE P == PassedPoints
             A == rows[row].begin..l
             B == rows[row + 1].begin..u
  <2>2. Inside' = P \cup (rows[row].begin..(l + 1)) \cup B
    <3>1. PassedPoints' = PassedPoints
      BY <1>1 DEF PassedPoints, Passed, Strips
    <3>2. OpenedPoints' = (rows[row].begin..(l + 1)) \cup B
      BY <1>1, <1>11 DEF OpenedPoints
    <3> QED
      BY <3>1, <3>2 DEF Inside
  <2>3. rows[row].begin..(l + 1) = A \cup {l + 1}
    BY <1>2 DEF StripEnds
  <2>4. l \in A /\ u \in B
    BY <1>2 DEF StripEnds
  <2>5. CASE Moved
    <3>1. Inside = P \cup (A \cup B)
      BY <2>5 DEF Inside, OpenedPoints
    <3> HIDE DEF P, A, B
    <3> QED
      BY <2>1, <2>2, <2>3, <2>4, <3>1
  <2>6. CASE ~Moved
    <3>1. A = {l} /\ B = {u}
      BY <1>2, <2>6 DEF Moved, StripEnds
    <3>2. Inside = P
      BY <2>6 DEF Inside, OpenedPoints
    <3> HIDE DEF P, A, B
    <3> QED
      BY <2>1, <2>2, <2>3, <3>1, <3>2
  <2> QED
    BY <2>5, <2>6
<1>15. D' = D
  BY <1>1 DEF LayerIndex
<1>16. \A t : TurnsLeft(t)' <=> TurnsLeft(t)
  BY <1>1 DEF TurnsLeft, Area
<1> QED
  BY <1>7, <1>9, <1>10, <1>12, <1>13, <1>14, <1>15, <1>16 DEF Tiled

(* A triangle with its base on the upper row continues the tiling.         *)
LEMMA AdvanceUpperTiles ==
    ASSUME IInv, AdvanceUpper
    PROVE  Tiled'
<1> DEFINE l == lower_point
           u == upper_point
           E == {<<l, u + 1>>, <<u + 1, u>>, <<u, l>>}
           D == LayerIndex
<1>1. /\ stage = "strips" /\ InStrips /\ UpperLeft /\ upper_point' = u + 1
      /\ UNCHANGED <<grid, points, stage, points_per_layer, rows, row, lower_point>>
      /\ add_triangle(l, u, u + 1)
  BY DEF AdvanceUpper, InStrips, input
<1>2. StripOrder /\ StripEnds
  BY <1>1, StripFacts
<1>3. /\ triangles \in Seq(D \X D \X D) /\ IsFiniteSet(Used)
      /\ \A i \in DOMAIN triangles : TurnsLeft(triangles[i])
      /\ Cardinality(Used) = 3 * Len(triangles)
      /\ \A e \in Used : Behind(e)
      /\ Unmatched(Used) = Border /\ {e[1] : e \in Used} = Inside
  BY <1>1 DEF IInv, Tiled
<1>4. l \in D /\ u + 1 \in D /\ u \in D /\ l # u + 1 /\ l # u /\ u + 1 # u
  <2>1. /\ l \in Nat /\ u \in Nat /\ l < u /\ points_per_layer \in Nat
        /\ u + 1 < points_per_layer
    BY <1>1, <1>2 DEF StripEnds, UpperLeft
  <2> QED
    BY ONLY <2>1 DEF LayerIndex
<1>5. Area(l, u, u + 1) < 0 /\ Area(l, u, u + 1) \in Int /\ Area(l, u + 1, u) > 0
  <2>1. /\ points[l].x \in Int /\ points[l].y \in Int /\ points[u].x \in Int /\ points[u].y \in Int
        /\ points[u + 1].x \in Int /\ points[u + 1].y \in Int
    BY <1>1, StripPoints
  <2>2. Area(l, u, u + 1) \in Int
    <3>1. \A x1, x2, x3, y1, y2, y3 \in Int :
              (x2 - x1) * (y3 - y1) - (y2 - y1) * (x3 - x1) \in Int
      OBVIOUS
    <3> QED
      BY <2>1, <3>1 DEF Area
  <2> QED
    BY <1>1, <2>2, Areas
<1>6. triangles' = Append(triangles, <<l, u + 1, u>>)
  BY <1>1, <1>5, TriangleAdded DEF IInv
<1>7. /\ triangles' \in Seq(D \X D \X D) /\ Len(triangles') = Len(triangles) + 1
      /\ Len(triangles) \in Nat /\ Used' = Used \cup E
      /\ \A i \in DOMAIN triangles' :
             \/ triangles'[i] = <<l, u + 1, u>>
             \/ \E j \in DOMAIN triangles : triangles'[i] = triangles[j]
      /\ Used \in SUBSET (D \X D)
  <2> HIDE DEF D, l, u
  <2>1. triangles \in Seq(D \X D \X D)
    BY <1>3
  <2>2. /\ triangles' \in Seq(D \X D \X D)
        /\ Len(triangles) \in Nat /\ Len(triangles') = Len(triangles) + 1
        /\ Used' = Used \cup {<<l, u + 1>>, <<u + 1, u>>, <<u, l>>}
        /\ \A i \in DOMAIN triangles' :
               \/ triangles'[i] = <<l, u + 1, u>>
               \/ \E j \in DOMAIN triangles : triangles'[i] = triangles[j]
        /\ \A e \in Used : e \in D \X D
    BY ONLY <1>4, <1>6, <2>1, AddedEdges, Zenon
  <2> QED
    BY <2>2
<1>8. /\ <<l, u + 1>> \notin Used /\ <<u + 1, u>> \notin Used /\ <<u, l>> \notin Used
      /\ <<u + 1, l>> \notin Used /\ <<u, u + 1>> \notin Used
      /\ (<<l, u>> \in Used <=> Moved)
  BY <1>1, FrontierEdges
<1>9. \A i \in DOMAIN triangles' : TurnsLeft(triangles'[i])
  <2>1. TurnsLeft(<<l, u + 1, u>>)
    BY <1>5 DEF TurnsLeft
  <2> QED
    BY <1>3, <1>7, <2>1
<1>10. IsFiniteSet(Used') /\ Cardinality(Used') = 3 * Len(triangles')
  <2>1. /\ <<l, u + 1>> # <<u + 1, u>> /\ <<l, u + 1>> # <<u, l>> /\ <<u + 1, u>> # <<u, l>>
    BY <1>4
  <2>2. IsFiniteSet(Used \cup E) /\ Cardinality(Used \cup E) = Cardinality(Used) + 3
    BY <1>3, <1>8, <2>1, ThreeMore
  <2> QED
    BY <1>3, <1>7, <2>2
<1>11. Moved'
  BY <1>1, <1>2 DEF Moved, StripEnds
<1>12. \A e \in Used' : Behind(e)'
  <2>1. ASSUME NEW e \in Used
        PROVE  Behind(e)'
    <3>1. Behind(e)
      BY <1>3
    <3>2. e[1] \in 0..u /\ e[2] \in 0..u
      BY <3>1 DEF Behind
    <3>3. /\ rows[row].begin \leq e[1] /\ e[1] < e[2] =>
                 e[1] \leq l /\ (e[2] < rows[row].end => e[2] \leq l)
          /\ rows[row + 1].begin \leq e[1] =>
                 e[2] < e[1] /\ (e[2] < rows[row + 1].begin => e[1] + e[2] < l + u)
          /\ row = 1 /\ e[1] < rows[row + 1].begin => e[1] < e[2]
      BY <3>1 DEF Behind
    <3>4. /\ rows[row + 1].begin \leq e[1] =>
                 e[2] < e[1] /\ (e[2] < rows[row + 1].begin => e[1] + e[2] < l + (u + 1))
          /\ e[1] \in 0..(u + 1) /\ e[2] \in 0..(u + 1)
      <4>1. e[1] \in Nat /\ e[2] \in Nat /\ l \in Nat /\ u \in Nat
        BY <1>2, <3>2 DEF StripEnds
      <4>2. \A i, j \in Nat : i + j < l + u => i + j < l + (u + 1)
        BY <4>1
      <4>3. e[1] \in 0..(u + 1) /\ e[2] \in 0..(u + 1)
        BY ONLY <3>2, <4>1
      <4> QED
        BY ONLY <3>3, <4>1, <4>2, <4>3
    <3> QED
      BY <1>1, <1>11, <3>3, <3>4 DEF Behind
  <2>2. ASSUME NEW e, e = <<l, u + 1>>
        PROVE  Behind(e)'
    BY <1>1, <1>2, <1>11, <2>2 DEF Behind, StripEnds, UpperLeft
  <2>3. ASSUME NEW e, e = <<u + 1, u>>
        PROVE  Behind(e)'
    BY <1>1, <1>2, <1>11, <2>3 DEF Behind, StripEnds, UpperLeft
  <2>4. ASSUME NEW e, e = <<u, l>>
        PROVE  Behind(e)'
    BY <1>1, <1>2, <1>11, <2>4 DEF Behind, StripEnds
  <2> QED
    BY <1>7, <2>1, <2>2, <2>3, <2>4
<1>13. Unmatched(Used)' = Border'
  <2>1. \A e : e \in Unmatched(Used)' <=>
            \/ e \in Border /\ e \notin {<<u + 1, l>>, <<u, u + 1>>, <<l, u>>}
            \/ e = <<l, u + 1>>
            \/ e = <<u + 1, u>>
            \/ e = <<u, l>> /\ ~Moved
    <3> HIDE DEF D, l, u
    <3>1. AfterTriangle(Used, l, u + 1, u)
      BY <1>4, <1>7, <1>8, OutlineChange
    <3>2. Unmatched(Used)' = Unmatched(Used \cup E)
      BY <1>7 DEF Unmatched
    <3> QED
      BY <1>3, <1>8, <3>1, <3>2 DEF AfterTriangle
  <2>2. Bottom' = Bottom /\ Pending' = Pending
    BY <1>1 DEF Bottom, Pending
  <2>3. \A e : e \in Top' <=> e \in Top \/ e = <<u + 1, u>>
    BY <1>1, <1>2 DEF Top, StripEnds
  <2>4. RightEnds' = RightEnds /\ Passed' = Passed
    BY <1>1 DEF RightEnds, Passed, Strips
  <2>5. \A e : e \in LeftEnds' <=> e \in LeftEnds \/ (e = <<u, l>> /\ ~Moved)
    <3>1. Opened' = Passed \cup {row}
      BY <1>1, <1>11, <2>4 DEF Opened
    <3>2. LeftEnds' = {<<rows[r + 1].begin, rows[r].begin>> : r \in Passed \cup {row}}
      BY <1>1, <3>1 DEF LeftEnds
    <3>3. CASE Moved
      BY <3>2, <3>3 DEF LeftEnds, Opened
    <3>4. CASE ~Moved
      <4>1. l = rows[row].begin /\ u = rows[row + 1].begin
        BY <1>2, <3>4 DEF Moved, StripEnds
      <4>2. LeftEnds = {<<rows[r + 1].begin, rows[r].begin>> : r \in Passed}
        BY <3>4 DEF LeftEnds, Opened
      <4> QED
        BY <3>2, <3>4, <4>1, <4>2
    <3> QED
      BY <3>3, <3>4
  <2>6. Front' = {<<l, u + 1>>} /\ (\A e : e \in Front <=> e = <<l, u>> /\ Moved)
    BY <1>1, <1>11 DEF Front
  <2>7. ASSUME NEW e \in Bottom \cup Top \cup RightEnds \cup LeftEnds \cup Pending
        PROVE  e \notin {<<u + 1, l>>, <<u, u + 1>>, <<l, u>>}
    <3>1. e \in Bottom \cup RightEnds => e \notin {<<u + 1, l>>, <<u, u + 1>>, <<l, u>>}
      BY <1>2, BorderShape DEF StripEnds
    <3>2. e \in Top => e \notin {<<u + 1, l>>, <<u, u + 1>>, <<l, u>>}
      BY <1>2, BorderShape DEF StripEnds
    <3>3. e \in LeftEnds => e \notin {<<u + 1, l>>, <<u, u + 1>>, <<l, u>>}
      <4> SUFFICES ASSUME e \in LeftEnds
                   PROVE  e \notin {<<u + 1, l>>, <<u, u + 1>>, <<l, u>>}
        OBVIOUS
      <4>1. l \in Nat /\ u \in Nat /\ l < u
        BY <1>2 DEF StripEnds
      <4>2. e[1] \in Nat /\ e[2] \in Nat /\ e[2] < e[1]
        BY <1>2, BorderShape
      <4>3. e[1] \leq u
        <5>1. e[1] \leq rows[row].begin \/ e[1] = rows[row + 1].begin
          BY <1>2, BorderShape
        <5> QED
          BY <1>2, <4>2, <5>1 DEF StripEnds
      <4> QED
        BY ONLY <4>1, <4>2, <4>3
    <3>4. e \in Pending => e \notin {<<u + 1, l>>, <<u, u + 1>>, <<l, u>>}
      BY <1>2, BorderShape DEF StripEnds
    <3> QED
      BY <2>7, <3>1, <3>2, <3>3, <3>4
  <2>8. ASSUME NEW e
        PROVE  e \in Unmatched(Used)' <=> e \in Border'
    <3>1. e \in Border <=> \/ e \in Bottom \cup Top \cup RightEnds \cup LeftEnds \cup Pending
                           \/ e = <<l, u>> /\ Moved
      BY <2>6 DEF Border
    <3>2. e \in Border' <=> \/ e \in Bottom \cup Top \cup RightEnds \cup LeftEnds \cup Pending
                            \/ e = <<u + 1, u>>
                            \/ e = <<u, l>> /\ ~Moved
                            \/ e = <<l, u + 1>>
      BY <2>2, <2>3, <2>4, <2>5, <2>6 DEF Border
    <3> QED
      BY <2>1, <2>7, <3>1, <3>2
  <2> QED
    BY <2>8 DEF Unmatched
<1>14. {e[1] : e \in Used'} = Inside'
  <2>1. {e[1] : e \in Used'} = Inside \cup {l, u + 1, u}
    <3>1. {e[1] : e \in E} = {l, u + 1, u}
      OBVIOUS
    <3>2. {e[1] : e \in Used'} = {e[1] : e \in Used} \cup {e[1] : e \in E}
      BY <1>7
    <3> QED
      BY <1>3, <3>1, <3>2
  <2> DEFINE P == PassedPoints
             A == rows[row].begin..l
             B == rows[row + 1].begin..u
  <2>2. Inside' = P \cup A \cup (rows[row + 1].begin..(u + 1))
    <3>1. PassedPoints' = PassedPoints
      BY <1>1 DEF PassedPoints, Passed, Strips
    <3>2. OpenedPoints' = A \cup (rows[row + 1].begin..(u + 1))
      BY <1>1, <1>11 DEF OpenedPoints
    <3> QED
      BY <3>1, <3>2 DEF Inside
  <2>3. rows[row + 1].begin..(u + 1) = B \cup {u + 1}
    BY <1>2 DEF StripEnds
  <2>4. l \in A /\ u \in B
    BY <1>2 DEF StripEnds
  <2>5. CASE Moved
    <3>1. Inside = P \cup (A \cup B)
      BY <2>5 DEF Inside, OpenedPoints
    <3> HIDE DEF P, A, B
    <3> QED
      BY <2>1, <2>2, <2>3, <2>4, <3>1
  <2>6. CASE ~Moved
    <3>1. A = {l} /\ B = {u}
      BY <1>2, <2>6 DEF Moved, StripEnds
    <3>2. Inside = P
      BY <2>6 DEF Inside, OpenedPoints
    <3> HIDE DEF P, A, B
    <3> QED
      BY <2>1, <2>2, <2>3, <3>1, <3>2
  <2> QED
    BY <2>5, <2>6
<1>15. D' = D
  BY <1>1 DEF LayerIndex
<1>16. \A t : TurnsLeft(t)' <=> TurnsLeft(t)
  BY <1>1 DEF TurnsLeft, Area
<1> QED
  BY <1>7, <1>9, <1>10, <1>12, <1>13, <1>14, <1>15, <1>16 DEF Tiled

(* The lower row goes on within the invariant.                             *)
LEMMA AdvanceLowerKeeps ==
    ASSUME IInv, AdvanceLower
    PROVE  IInv'
<1>1. /\ stage = "strips" /\ InStrips /\ LowerLeft /\ lower_point' = lower_point + 1
      /\ UNCHANGED <<input, stage, points_per_layer, rows, row, upper_point>>
  BY DEF AdvanceLower, LowerIsNext, InStrips
<1>2. IsInput' /\ Staged' /\ RowsInOrder' /\ NextBegin' = NextBegin
  BY <1>1, FrameStays
<1>3. FrontierInStrip'
  <2>1. StripEnds /\ FrontierInStrip
    BY <1>1, StripFacts DEF IInv
  <2>2. lower_point + 1 \in rows[row].begin..(rows[row].end - 1)
    BY <1>1, <2>1 DEF StripEnds, LowerLeft
  <2> QED
    BY <1>1, <1>2, <2>1, <2>2 DEF FrontierInStrip, InStrips
<1> QED
  BY <1>2, <1>3, FansStay, AdvanceLowerTiles DEF IInv

(* The upper row goes on within the invariant.                             *)
LEMMA AdvanceUpperKeeps ==
    ASSUME IInv, AdvanceUpper
    PROVE  IInv'
<1>1. /\ stage = "strips" /\ InStrips /\ UpperLeft /\ upper_point' = upper_point + 1
      /\ UNCHANGED <<input, stage, points_per_layer, rows, row, lower_point>>
  BY DEF AdvanceUpper, InStrips
<1>2. IsInput' /\ Staged' /\ RowsInOrder' /\ NextBegin' = NextBegin
  BY <1>1, FrameStays
<1>3. FrontierInStrip'
  <2>1. StripEnds /\ FrontierInStrip
    BY <1>1, StripFacts DEF IInv
  <2>2. upper_point + 1 \in rows[row + 1].begin..(rows[row + 1].end - 1)
    BY <1>1, <2>1 DEF StripEnds, UpperLeft
  <2> QED
    BY <1>1, <1>2, <2>1, <2>2 DEF FrontierInStrip, InStrips
<1> QED
  BY <1>2, <1>3, FansStay, AdvanceUpperTiles DEF IInv

(* Some row has two points, so some strip has a triangle.                  *)
LEMMA HasStrip ==
    ASSUME IInv, InStrips
    PROVE  Strips # {}
<1>1. StripOrder /\ FirstLayer(points_per_layer) /\ RowsInOrder /\ NextBegin = points_per_layer
  BY StripFacts, LayerFound DEF IInv, FrontierInStrip, InStrips
<1>2. PICK i \in 0..(points_per_layer - 1), j \in 0..(points_per_layer - 1) :
          i < j /\ points[i].y = points[j].y
  BY <1>1 DEF FirstLayer
<1>3. PICK k \in 1..Len(rows), m \in 1..Len(rows) :
          /\ rows[k].begin \leq i /\ i < rows[k].end
          /\ rows[m].begin \leq j /\ j < rows[m].end
  BY <1>1 DEF RowsInOrder
<1>4. /\ Len(rows) \in Nat /\ Len(rows) >= 2 /\ points_per_layer \in Nat
      /\ rows[k].begin \in Nat /\ rows[k].end \in Nat
      /\ rows[m].begin \in Nat /\ rows[m].end \in Nat
      /\ k < m => rows[k].end \leq rows[m].begin
      /\ m < k => rows[m].end \leq rows[k].begin
  <2>1. /\ Len(rows) \in Nat /\ points_per_layer \in Nat /\ row \in 1..(Len(rows) - 1)
        /\ \A h \in 1..Len(rows) : rows[h].begin \in Nat /\ rows[h].end \in Nat
        /\ \A h, n \in 1..Len(rows) : h < n => rows[h].end \leq rows[n].begin
    BY <1>1 DEF StripOrder
  <2> QED
    BY ONLY <2>1, k \in 1..Len(rows), m \in 1..Len(rows)
<1>5. k = m
  <2>1. ~(m < k)
    BY <1>2, <1>3, <1>4
  <2>2. ASSUME k < m
        PROVE  FALSE
    <3> DEFINE e == rows[k].end
    <3>1. i \in 0..(points_per_layer - 1) /\ e \in 0..(points_per_layer - 1) /\ i < e /\ e \leq j
      BY <1>2, <1>3, <1>4, <2>2
    <3> HIDE DEF e
    <3>8. \A h, n \in 0..(points_per_layer - 1) : h < n => points[h].y \leq points[n].y
      BY <1>1 DEF FirstLayer
    <3>2. points[i].y \leq points[e].y /\ points[e].y \leq points[j].y
      BY <1>2, <1>4, <3>1, <3>8
    <3>3. points[e].y \in Nat /\ points[j].y \in Nat
      BY <1>1, <3>1 DEF FirstLayer
    <3>4. points[e].y = points[i].y
      BY <1>2, <3>2, <3>3
    <3>7. i \in rows[k].begin..(rows[k].end - 1)
      BY <1>2, <1>3, <1>4
    <3>5. IsRow(k)
      BY <1>1 DEF RowsInOrder
    <3>6. points[i].y = points[rows[k].begin].y /\ points[e].y # points[rows[k].begin].y
      BY <1>4, <3>1, <3>5, <3>7 DEF IsRow, e
    <3> QED
      BY <3>4, <3>6
  <2> QED
    BY <1>4, <2>1, <2>2
<1>6. rows[k].end > rows[k].begin + 1
  BY <1>2, <1>3, <1>4, <1>5
<1>7. CASE k < Len(rows)
  <2>1. k \in Strips
    BY <1>4, <1>6, <1>7 DEF Strips
  <2> QED
    BY <2>1
<1>8. CASE k = Len(rows)
  <2>1. k - 1 \in 1..(Len(rows) - 1) /\ (k - 1) + 1 = k
    BY <1>4, <1>8
  <2>2. k - 1 \in Strips
    BY <1>6, <2>1 DEF Strips
  <2> QED
    BY <2>2
<1> QED
  BY <1>4, <1>7, <1>8

(* A strip that is done has a triangle or there is none in it.             *)
LEMMA StripDone ==
    ASSUME IInv, InStrips, ~LowerLeft, ~UpperLeft
    PROVE  /\ lower_point = rows[row].end - 1 /\ upper_point = rows[row + 1].end - 1
           /\ Moved <=> row \in Strips
           /\ Opened = {r \in Strips : r < row + 1}
<1>1. StripOrder /\ StripEnds
  BY StripFacts
<1>2. lower_point = rows[row].end - 1 /\ upper_point = rows[row + 1].end - 1
  <2>1. /\ rows[row].end \in Nat /\ rows[row + 1].end \in Nat
        /\ lower_point \in Nat /\ upper_point \in Nat
        /\ lower_point < rows[row].end /\ ~(lower_point + 1 < rows[row].end)
        /\ upper_point < rows[row + 1].end /\ ~(upper_point + 1 < rows[row + 1].end)
    BY <1>1 DEF StripEnds, LowerLeft, UpperLeft
  <2> QED
    BY ONLY <2>1
<1>3. Moved <=> row \in Strips
  <2>1. row \in 1..(Len(rows) - 1)
    BY <1>1 DEF StripOrder
  <2>2. Moved <=> \/ rows[row].end > rows[row].begin + 1
                  \/ rows[row + 1].end > rows[row + 1].begin + 1
    <3>1. /\ rows[row].begin \in Nat /\ rows[row].end \in Nat
          /\ rows[row + 1].begin \in Nat /\ rows[row + 1].end \in Nat
      BY <1>1 DEF StripEnds
    <3>2. \A i, j \in Nat : j - 1 > i <=> j > i + 1
      OBVIOUS
    <3>3. Moved <=> \/ rows[row].end - 1 > rows[row].begin
                    \/ rows[row + 1].end - 1 > rows[row + 1].begin
      BY <1>2 DEF Moved
    <3> QED
      BY ONLY <3>1, <3>2, <3>3
  <2> QED
    BY <2>1, <2>2 DEF Strips
<1>4. \A r \in Strips : r < row + 1 <=> r < row \/ r = row
  <2>1. \A r \in Strips : r \in Nat
    BY <1>1 DEF StripOrder, Strips
  <2> QED
    BY <1>1, <2>1 DEF StripEnds
<1>5. Opened = {r \in Strips : r < row + 1}
  BY <1>3, <1>4 DEF Opened, Passed
<1> QED
  BY <1>2, <1>3, <1>5

(* The tiling goes over to the next strip: what was the upper row is now   *)
(* the lower, still to be covered.                                         *)
LEMMA NextStripTiles ==
    ASSUME IInv, NextStrip, row + 2 \leq Len(rows)
    PROVE  Tiled' /\ FrontierInStrip'
<1> DEFINE a == rows[row].begin
           b == rows[row + 1].begin
           c == rows[row + 2].begin
           l == lower_point
           u == upper_point
<1>1. /\ stage = "strips" /\ InStrips /\ ~LowerLeft /\ ~UpperLeft
      /\ UNCHANGED <<grid, points, stage, points_per_layer, rows, triangles>>
      /\ row' = row + 1 /\ lower_point' = b /\ upper_point' = rows[(row + 1) + 1].begin
  BY DEF NextStrip, InStrips, input, Enter
<1>2. StripOrder /\ StripEnds
  BY <1>1, StripFacts
<1>3. /\ row \in Nat \ {0} /\ (row + 1) + 1 = row + 2 /\ Len(rows) \in Nat
      /\ row + 1 \in 1..(Len(rows) - 1) /\ row + 2 \in 1..Len(rows)
      /\ row + 1 \in 1..Len(rows)
  BY <1>2 DEF StripOrder, StripEnds
<1>4. /\ c \in Nat /\ rows[row + 2].end \in Nat /\ c < rows[row + 2].end
      /\ c = rows[row + 1].end
      /\ a \in Nat /\ b \in Nat /\ l \in Nat /\ u \in Nat /\ a \leq l /\ l < b /\ b \leq u /\ u < c
      /\ l = b - 1 /\ u = c - 1
      /\ rows[row].end = b
  <2>1. c \in Nat /\ rows[row + 2].end \in Nat /\ c < rows[row + 2].end /\ c = rows[row + 1].end
    BY <1>2, <1>3 DEF StripOrder
  <2>2. l = rows[row].end - 1 /\ u = rows[row + 1].end - 1
    BY <1>1, StripDone
  <2> QED
    BY <1>2, <2>1, <2>2 DEF StripEnds
<1>5. row' = row + 1 /\ lower_point' = b /\ upper_point' = c
  BY <1>1, <1>3
<1>17. /\ a \in Nat /\ b \in Nat /\ c \in Nat /\ l = b - 1 /\ u = c - 1 /\ a < b /\ b < c
       /\ rows[row].end - 2 = b - 2 /\ rows[row + 1].end - 2 = c - 2
       /\ c < rows[row + 2].end /\ rows[row + 2].end \in Nat
  BY ONLY <1>4
<1>6. FrontierInStrip'
  <2>1. /\ NextBegin = points_per_layer /\ Len(rows) >= 2
        /\ NextBegin' = NextBegin
    BY <1>1 DEF IInv, FrontierInStrip, NextBegin
  <2>2. b \in b..(c - 1) /\ c \in c..(rows[row + 2].end - 1)
    BY ONLY <1>17
  <2>3. stage' = "strips"
    BY <1>1
  <2> QED
    BY <1>1, <1>3, <1>4, <1>5, <2>1, <2>2, <2>3 DEF FrontierInStrip
<1>7. /\ triangles \in Seq(LayerIndex \X LayerIndex \X LayerIndex) /\ IsFiniteSet(Used)
      /\ \A i \in DOMAIN triangles : TurnsLeft(triangles[i])
      /\ Cardinality(Used) = 3 * Len(triangles)
      /\ \A e \in Used : Behind(e)
      /\ Unmatched(Used) = Border /\ {e[1] : e \in Used} = Inside
  BY <1>1 DEF IInv, Tiled
<1>8. Used' = Used
  BY <1>1 DEF Used, Edges
<1>9. Moved' = FALSE
  BY <1>1, <1>3, <1>4, <1>5 DEF Moved
<1>10. Passed' = Opened /\ Opened' = Opened
  <2>1. Passed' = {r \in Strips : r < row + 1}
    BY <1>1, <1>5 DEF Passed, Strips
  <2> QED
    BY <1>1, <1>9, <2>1, StripDone DEF Opened
<1>11. \A e \in Used' : Behind(e)'
  <2> SUFFICES ASSUME NEW e \in Used
               PROVE  Behind(e)'
    BY <1>8
  <2>1. Behind(e)
    BY <1>7
  <2>2. /\ e[1] \in Nat /\ e[2] \in Nat /\ e[1] < c /\ e[2] < c
        /\ ~(b \leq e[1] /\ e[1] < e[2])
    <3>1. /\ e[1] \in 0..u /\ e[2] \in 0..u
          /\ b \leq e[1] => e[2] < e[1]
      BY <2>1 DEF Behind
    <3> QED
      BY ONLY <1>17, <3>1
  <2>3. /\ e[1] \in 0..c /\ e[2] \in 0..c /\ ~(c \leq e[1])
    BY ONLY <1>17, <2>2
  <2> QED
    BY <1>1, <1>3, <1>5, <1>9, <2>2, <2>3 DEF Behind
<1>12. Border' = Border
  <2>1. Bottom' = Bottom
    <3>1. row' # 1
      BY <1>3, <1>5
    <3>2. row = 1 => lower_point = rows[1].end - 1
      BY <1>4
    <3> QED
      BY <1>1, <3>1, <3>2 DEF Bottom
  <2>2. Pending = {} /\ Top' = {}
    <3>1. l..(rows[row].end - 2) = {} /\ c..(c - 1) = {}
      BY ONLY <1>17
    <3> QED
      BY <1>1, <1>3, <1>5, <3>1 DEF Pending, Top
  <2>3. Pending' = Top
    <3>1. c - 2 = u - 1 /\ row' # 1
      BY <1>3, <1>4, <1>5
    <3>2. rows'[row'].end - 2 = c - 2
      BY <1>1, <1>4, <1>5
    <3> QED
      BY <1>1, <1>5, <3>1, <3>2 DEF Pending, Top
  <2>4. LeftEnds' = LeftEnds
    BY <1>1, <1>10 DEF LeftEnds
  <2>5. RightEnds' = RightEnds \cup Front /\ Front' = {}
    <3>1. RightEnds' = {<<rows[r].end - 1, rows[r + 1].end - 1>> : r \in Opened}
      BY <1>1, <1>10 DEF RightEnds
    <3>2. <<l, u>> = <<rows[row].end - 1, rows[row + 1].end - 1>>
      BY <1>4
    <3>5. Front' = {}
      BY <1>9 DEF Front
    <3> DEFINE End(r) == <<rows[r].end - 1, rows[r + 1].end - 1>>
    <3>3. CASE Moved
      <4>1. Opened = Passed \cup {row} /\ Front = {End(row)}
        BY <3>2, <3>3 DEF Opened, Front
      <4>2. RightEnds = {End(r) : r \in Passed} /\ RightEnds' = {End(r) : r \in Passed \cup {row}}
        BY <3>1, <4>1 DEF RightEnds
      <4> HIDE DEF End
      <4> QED
        BY <3>5, <4>1, <4>2
    <3>4. CASE ~Moved
      <4>1. Opened = Passed /\ Front = {}
        BY <3>4 DEF Opened, Front
      <4> QED
        BY <3>1, <3>5, <4>1 DEF RightEnds
    <3> QED
      BY <3>3, <3>4
  <2> QED
    BY <2>1, <2>2, <2>3, <2>4, <2>5 DEF Border
<1>13. Inside' = Inside
  <2>1. OpenedPoints' = {}
    BY <1>9 DEF OpenedPoints
  <2>2. PassedPoints' = UNION {rows[r].begin..(rows[r + 1].end - 1) : r \in Opened}
    BY <1>1, <1>10 DEF PassedPoints
  <2>3. CASE Moved
    <3>1. OpenedPoints = rows[row].begin..(rows[row + 1].end - 1)
      <4>1. OpenedPoints = (a..l) \cup (b..u)
        BY <2>3 DEF OpenedPoints
      <4>2. (a..l) \cup (b..u) = a..u
        BY ONLY <1>17
      <4> QED
        BY <1>4, <4>1, <4>2
    <3>2. Opened = Passed \cup {row}
      BY <2>3 DEF Opened
    <3> QED
      BY <2>1, <2>2, <3>1, <3>2 DEF Inside, PassedPoints
  <2>4. CASE ~Moved
    BY <2>1, <2>2, <2>4 DEF Inside, PassedPoints, OpenedPoints, Opened
  <2> QED
    BY <2>3, <2>4
<1>14. LayerIndex' = LayerIndex /\ (\A t : TurnsLeft(t)' <=> TurnsLeft(t))
  BY <1>1 DEF LayerIndex, TurnsLeft, Area
<1>15. Unmatched(Used)' = Unmatched(Used)
  BY <1>8 DEF Unmatched
<1>16. Tiled'
  BY <1>1, <1>7, <1>8, <1>11, <1>12, <1>13, <1>14, <1>15 DEF Tiled
<1> QED
  BY <1>6, <1>16

(* The next strip, or the end of the last one, keeps the invariant, and    *)
(* there are triangles to write.                                           *)
LEMMA NextStripKeeps ==
    ASSUME IInv, NextStrip
    PROVE  IInv'
<1>1. /\ stage = "strips" /\ InStrips /\ ~LowerLeft /\ ~UpperLeft
      /\ UNCHANGED <<input, points_per_layer, rows, triangles>>
  BY DEF NextStrip, InStrips
<1>2. StripOrder
  BY <1>1, StripFacts
<1>3. CASE row + 2 \leq Len(rows)
  <2>1. stage' = "strips" /\ lower_point' = rows[row + 1].begin
        /\ upper_point' = rows[(row + 1) + 1].begin /\ row' = row + 1
    BY <1>1, <1>3 DEF NextStrip, Enter
  <2>2. IsInput' /\ Staged' /\ RowsInOrder'
    BY <1>1, <2>1, FrameStays
  <2>3. FansAtEnds'
    BY <1>1, <2>1 DEF FansAtEnds
  <2> QED
    BY <1>3, <2>2, <2>3, NextStripTiles DEF IInv
<1>4. CASE ~(row + 2 \leq Len(rows))
  <2>1. UNCHANGED frontier /\ row + 1 = Len(rows)
    BY <1>2, <1>4 DEF NextStrip, StripOrder
  <2>2. triangles # <<>>
    <3> SUFFICES ASSUME triangles = <<>>
                 PROVE  FALSE
      OBVIOUS
    <3>1. Used = {}
      BY DEF Used
    <3>2. Unmatched(Used) = Border
      BY <1>1 DEF IInv, Tiled
    <3>3. LeftEnds = {}
      BY <3>1, <3>2 DEF Unmatched, Border
    <3>4. Opened = {}
      BY <3>3 DEF LeftEnds
    <3>5. \A r \in Strips : r < row + 1
      BY <1>2, <2>1 DEF StripOrder, Strips
    <3>6. Strips = {}
      BY <1>1, <3>4, <3>5, StripDone
    <3> QED
      BY <1>1, <3>6, HasStrip
  <2>3. stage' = "written"
    BY <1>4, <2>2 DEF NextStrip
  <2>4. IsInput' /\ Staged' /\ RowsInOrder' /\ NextBegin' = NextBegin
    BY <1>1, <2>3, FrameStays
  <2>5. FansAtEnds'
    BY <2>3 DEF FansAtEnds
  <2>6. FrontierInStrip'
    <3>1. /\ NextBegin = points_per_layer /\ Len(rows) >= 2
          /\ row \in 1..(Len(rows) - 1)
          /\ lower_point \in rows[row].begin..(rows[row].end - 1)
          /\ upper_point \in rows[row + 1].begin..(rows[row + 1].end - 1)
      BY <1>1 DEF IInv, FrontierInStrip
    <3> QED
      BY <1>1, <2>1, <2>3, <2>4, <3>1
         DEF FrontierInStrip, frontier, LowerLeft, UpperLeft
  <2>7. Tiled'
    <3>1. /\ triangles \in Seq(LayerIndex \X LayerIndex \X LayerIndex) /\ IsFiniteSet(Used)
          /\ \A i \in DOMAIN triangles : TurnsLeft(triangles[i])
          /\ Cardinality(Used) = 3 * Len(triangles)
          /\ \A e \in Used : Behind(e)
          /\ Unmatched(Used) = Border /\ {e[1] : e \in Used} = Inside
      BY <1>1 DEF IInv, Tiled
    <3>2. Used' = Used /\ Unmatched(Used)' = Unmatched(Used)
      BY <1>1 DEF Used, Edges, Unmatched
    <3>3. /\ Moved' = Moved /\ Passed' = Passed /\ Opened' = Opened
      BY <1>1, <2>1 DEF frontier, Moved, Passed, Opened, Strips
    <3>4. Border' = Border
      <4>1. Bottom' = Bottom /\ Pending' = Pending /\ Top' = Top
        BY <1>1, <2>1 DEF frontier, Bottom, Pending, Top
      <4>2. RightEnds' = RightEnds /\ LeftEnds' = LeftEnds /\ Front' = Front
        BY <1>1, <2>1, <3>3 DEF frontier, RightEnds, LeftEnds, Front
      <4> QED
        BY <4>1, <4>2 DEF Border
    <3>5. Inside' = Inside
      <4>1. PassedPoints' = PassedPoints /\ OpenedPoints' = OpenedPoints
        BY <1>1, <2>1, <3>3 DEF frontier, PassedPoints, OpenedPoints
      <4> QED
        BY <4>1 DEF Inside
    <3>6. \A e : Behind(e)' <=> Behind(e)
      BY <1>1, <2>1, <3>3 DEF frontier, Behind
    <3>7. LayerIndex' = LayerIndex /\ (\A t : TurnsLeft(t)' <=> TurnsLeft(t))
      BY <1>1 DEF LayerIndex, TurnsLeft, Area, input
    <3> QED
      BY <1>1, <3>1, <3>2, <3>4, <3>5, <3>6, <3>7 DEF Tiled
  <2> QED
    BY <2>4, <2>5, <2>6, <2>7 DEF IInv
<1> QED
  BY <1>3, <1>4

(* Every step keeps the invariant.                                         *)
LEMMA StepKeeps ==
    ASSUME IInv, [Next]_vars
    PROVE  IInv'
<1>1. CASE Next
  BY <1>1, FindLayersKeeps, FindRowKeeps, RowsFoundKeeps, AdvanceLowerKeeps,
     AdvanceUpperKeeps, NextStripKeeps DEF Next
<1>2. CASE UNCHANGED vars
  <2>1. /\ UNCHANGED <<grid, points, stage, points_per_layer, rows, row, lower_point,
                       upper_point, triangles>>
        /\ UNCHANGED input
    BY <1>2 DEF vars, input
  <2>2. IsInput' /\ (WholeLayers' <=> WholeLayers) /\ num_points' = num_points
    BY <2>1, InputStays DEF IInv
  <2>3. Staged' /\ RowsInOrder' /\ NextBegin' = NextBegin
    BY <2>1, <2>2 DEF IInv, Staged, RowsInOrder, IsRow, NextBegin, Size
  <2>4. FrontierInStrip' /\ FansAtEnds' /\ InStrips' = InStrips
    BY <2>1, <2>3 DEF IInv, FrontierInStrip, FansAtEnds, InStrips, LowerLeft, UpperLeft
  <2>5. Tiled'
    <3>1. /\ Used' = Used /\ Moved' = Moved /\ Strips' = Strips
          /\ Unmatched(Used)' = Unmatched(Used)
      BY <2>1 DEF Used, Edges, Moved, Strips, Unmatched
    <3>2. Passed' = Passed /\ Opened' = Opened
      BY <2>1, <3>1 DEF Passed, Opened
    <3>3. Border' = Border
      BY <2>1, <3>1, <3>2 DEF Border, Bottom, Pending, Top, RightEnds, LeftEnds, Front
    <3>4. Inside' = Inside
      BY <2>1, <3>1, <3>2 DEF Inside, PassedPoints, OpenedPoints
    <3>5. LayerIndex' = LayerIndex /\ (\A t : TurnsLeft(t)' <=> TurnsLeft(t))
      BY <2>1 DEF LayerIndex, TurnsLeft, Area
    <3>6. \A e : Behind(e)' <=> Behind(e)
      BY <2>1, <3>1 DEF Behind
    <3> QED
      BY <2>1, <2>4, <3>1, <3>3, <3>4, <3>5, <3>6 DEF IInv, Tiled
  <2> QED
    BY <2>2, <2>3, <2>4, <2>5 DEF IInv
<1> QED
  BY <1>1, <1>2

(* The tolerance of the code's comparisons decides as exact ones would.    *)
Exact == grid.scale = "medium"

(* The grid stays what it is.                                              *)
LEMMA GridStays ==
    ASSUME [Next]_vars
    PROVE  grid' = grid
BY DEF Next, vars, input, FindLayers, FindRow, RowsFound, AdvanceLower, AdvanceUpper,
       NextStrip

(* The inductive invariant holds in every state of every behaviour of a    *)
(* grid of medium scale.                                                   *)
THEOREM Invariance == Spec => [](Exact => IInv)
<1>1. Init => (Exact => IInv)
  BY InitIsIInv DEF Exact
<1>2. (Exact => IInv) /\ [Next]_vars => (Exact => IInv)'
  BY GridStays, StepKeeps DEF Exact
<1> QED
  BY <1>1, <1>2, PTL DEF Spec

--------------------------------------------------------------------------------
(* What follows from it.                                                   *)

(* The exporter's indices stay within its points, its rows and the layer   *)
(* it found, in every stage (exporter lines 79-185).                       *)
THEOREM Typing == Spec => [](Exact => TypeOK)
<1>1. IInv => TypeOK
  <2> SUFFICES ASSUME IInv
               PROVE  TypeOK
    OBVIOUS
  <2>1. /\ IsInput /\ Staged /\ RowsInOrder /\ FrontierInStrip /\ Tiled
        /\ grid \in Grids /\ stage \in {"layers", "rows", "strips", "written", "failed"}
        /\ rows \in Seq([begin : Nat, end : Nat])
    BY DEF IInv, IsInput, Staged, RowsInOrder
  <2>2. /\ num_points \in Nat \ {0} /\ DOMAIN points = 0..(num_points - 1)
        /\ points \in [0..(num_points - 1) -> [x : Int, y : Nat, z : Nat]]
    <3>1. Size(grid) * grid.z_count \in Nat
      BY <2>1, PointFacts, GridType, Products
    <3> QED
      BY <2>1, <3>1, PointFacts
  <2>3. Len(rows) \in Nat
    BY <2>1, RowTypes
  <2>4. CASE stage \in {"layers", "rows", "failed"}
    <3>1. row = 0 /\ lower_point = 0 /\ upper_point = 0 /\ triangles = <<>>
      BY <2>1, <2>4 DEF Staged
    <3>2. points_per_layer \in 0..num_points
      <4>1. CASE stage = "rows"
        BY <2>2, <4>1, LayerFound
      <4> QED
        BY <2>1, <2>2, <2>4, <4>1 DEF Staged
    <3>3. /\ row \in 0..Len(rows) /\ lower_point \in DOMAIN points /\ upper_point \in DOMAIN points
      BY <2>2, <2>3, <3>1
    <3>4. triangles \in Seq((DOMAIN points) \X (DOMAIN points) \X (DOMAIN points))
      BY <3>1
    <3> QED
      BY <2>1, <2>2, <3>2, <3>3, <3>4 DEF TypeOK
  <2>5. CASE stage \in {"strips", "written"}
    <3>1. InStrips /\ StripEnds
      BY <2>5, StripFacts DEF InStrips
    <3>2. points_per_layer \in Nat /\ points_per_layer < num_points
      BY <2>5, LayerFound
    <3>3. row \in 0..Len(rows)
      BY <2>3, <3>1 DEF StripEnds
    <3>4. lower_point \in DOMAIN points /\ upper_point \in DOMAIN points
      <4>1. lower_point \in Nat /\ upper_point \in Nat
        BY <3>1 DEF StripEnds
      <4>2. lower_point < points_per_layer /\ upper_point < points_per_layer
        <5>1. /\ rows[row].end \in Nat /\ rows[row + 1].begin \in Nat /\ rows[row + 1].end \in Nat
              /\ lower_point < rows[row].end /\ rows[row].end = rows[row + 1].begin
              /\ rows[row + 1].begin \leq upper_point /\ upper_point < rows[row + 1].end
              /\ rows[row + 1].end \leq points_per_layer
          BY <3>1 DEF StripEnds
        <5> QED
          BY ONLY <3>2, <4>1, <5>1
      <4>3. \A i \in Nat : i < points_per_layer => i \in 0..(num_points - 1)
        BY ONLY <2>2, <3>2
      <4> QED
        BY ONLY <2>2, <4>1, <4>2, <4>3
    <3>5. triangles \in Seq((DOMAIN points) \X (DOMAIN points) \X (DOMAIN points))
      <4> DEFINE S == LayerIndex \X LayerIndex \X LayerIndex
                 T == (DOMAIN points) \X (DOMAIN points) \X (DOMAIN points)
      <4>1. LayerIndex \subseteq DOMAIN points
        BY <2>2, <3>2 DEF LayerIndex
      <4>2. S \subseteq T
        BY <4>1
      <4>3. triangles \in Seq(S)
        BY <2>1, <3>1 DEF Tiled
      <4> HIDE DEF S, T
      <4>4. triangles \in Seq(T)
        BY <4>2, <4>3
      <4> QED
        BY <4>4 DEF T
    <3> QED
      BY <2>1, <2>2, <3>2, <3>3, <3>4, <3>5 DEF TypeOK
  <2> QED
    BY <2>1, <2>4, <2>5
<1> QED
  BY <1>1, Invariance, PTL

(* An edge across a strip leans by more than a half step only where a row  *)
(* ends, however wide the two rows are (exporter line 174).                *)
THEOREM Slender == Spec => [](Exact => FansAtEnds)
<1>1. IInv => FansAtEnds
  BY DEF IInv
<1> QED
  BY <1>1, Invariance, PTL

(* Wherever the generation was cut short, a file is written exactly for    *)
(* two or more whole layers (exporter lines 79-111, 133, 187).             *)
THEOREM WholeLayersOnly == Spec => [](Exact => ExportsWholeLayers)
<1>1. IInv => ExportsWholeLayers
  BY DEF IInv, IsInput, Staged, ExportsWholeLayers
<1> QED
  BY <1>1, Invariance, PTL

(* When the last strip is done, what was the outline of the triangles so   *)
(* far is that of the layer, and they have reached all of its points that  *)
(* are at a strip.                                                         *)
LEMMA Closed ==
    ASSUME IInv, stage = "written"
    PROVE  Border = Outline /\ Inside = LayerIndex \ Tips
<1> DEFINE last == Len(rows)
<1>1. InStrips /\ StripOrder /\ StripEnds /\ ~LowerLeft /\ ~UpperLeft /\ row + 1 = last
      /\ NextBegin = points_per_layer /\ last >= 2
  BY StripFacts DEF InStrips, IInv, FrontierInStrip
<1>2. /\ lower_point = rows[row].end - 1 /\ upper_point = rows[row + 1].end - 1
      /\ Opened = {r \in Strips : r < row + 1}
  BY <1>1, StripDone
<1>3. Opened = Strips
  <2>1. \A r \in Strips : r < row + 1
    BY <1>1 DEF StripOrder, Strips
  <2> QED
    BY <1>2, <2>1
<1>4. /\ rows[row].end \in Nat /\ rows[row + 1].end \in Nat /\ rows[1].end \in Nat
      /\ rows[row].begin \in Nat /\ rows[row + 1].begin \in Nat
      /\ rows[row].begin < rows[row].end /\ rows[row].end = rows[row + 1].begin
      /\ rows[row + 1].begin < rows[row + 1].end
      /\ rows[1].begin = 0
  <2>1. row \in 1..last /\ row + 1 \in 1..last
    BY <1>1 DEF StripEnds
  <2> QED
    BY <1>1, <2>1 DEF StripOrder, StripEnds
<1>5. Border = Outline
  <2> DEFINE Right(r) == <<rows[r].end - 1, rows[r + 1].end - 1>>
             Left(r) == <<rows[r + 1].begin, rows[r].begin>>
  <2>1. Bottom = {<<i, i + 1>> : i \in rows[1].begin..(rows[1].end - 2)}
    <3>1. (IF row = 1 THEN lower_point ELSE rows[1].end - 1) - 1 = rows[1].end - 2
      BY <1>2, <1>4
    <3> QED
      BY <1>4, <3>1 DEF Bottom
  <2>2. Pending = {}
    <3>1. lower_point..(rows[row].end - 2) = {}
      BY <1>2, <1>4
    <3> QED
      BY <3>1 DEF Pending
  <2>3. Top = {<<i + 1, i>> : i \in rows[last].begin..(rows[last].end - 2)}
    <3>1. upper_point - 1 = rows[last].end - 2
      BY <1>1, <1>2, <1>4
    <3> QED
      BY <1>1, <3>1 DEF Top
  <2>4. LeftEnds = {Left(r) : r \in Strips}
    BY <1>3 DEF LeftEnds
  <2>5. RightEnds \cup Front = {Right(r) : r \in Strips}
    <3>1. RightEnds = {Right(r) : r \in Passed}
      BY DEF RightEnds
    <3>2. Front = IF Moved THEN {Right(row)} ELSE {}
      BY <1>2 DEF Front
    <3>3. Strips = Passed \cup (IF Moved THEN {row} ELSE {})
      BY <1>3 DEF Opened
    <3> HIDE DEF Right
    <3> QED
      BY ONLY <3>1, <3>2, <3>3
  <2>6. Outline = {<<i, i + 1>> : i \in rows[1].begin..(rows[1].end - 2)}
                  \cup {<<i + 1, i>> : i \in rows[last].begin..(rows[last].end - 2)}
                  \cup {Right(r) : r \in Strips} \cup {Left(r) : r \in Strips}
    BY DEF Outline
  <2> HIDE DEF Right, Left
  <2> QED
    BY <2>1, <2>2, <2>3, <2>4, <2>5, <2>6 DEF Border
<1>6. Inside = UNION {rows[r].begin..(rows[r + 1].end - 1) : r \in Strips}
  <2> DEFINE Reached(r) == rows[r].begin..(rows[r + 1].end - 1)
  <2>1. PassedPoints = UNION {Reached(r) : r \in Passed}
    BY DEF PassedPoints
  <2>2. OpenedPoints = IF Moved THEN Reached(row) ELSE {}
    <3>1. \A a, b, c \in Nat : a < b /\ b < c => (a..(b - 1)) \cup (b..(c - 1)) = a..(c - 1)
      OBVIOUS
    <3>2. (rows[row].begin..lower_point) \cup (rows[row + 1].begin..upper_point) = Reached(row)
      BY <1>2, <1>4, <3>1
    <3> QED
      BY <3>2 DEF OpenedPoints
  <2>3. Strips = Passed \cup (IF Moved THEN {row} ELSE {})
    BY <1>3 DEF Opened
  <2> HIDE DEF Reached
  <2>4. Inside = UNION {Reached(r) : r \in Strips}
    BY ONLY <2>1, <2>2, <2>3 DEF Inside
  <2> QED
    BY <2>4 DEF Reached
<1>7. ASSUME NEW r \in Strips
      PROVE  /\ r \in 1..last /\ r + 1 \in 1..last /\ r \in Nat /\ r < last
             /\ rows[r].begin \in Nat /\ rows[r].end \in Nat
             /\ rows[r + 1].begin \in Nat /\ rows[r + 1].end \in Nat
             /\ rows[r].begin < rows[r].end /\ rows[r].end = rows[r + 1].begin
             /\ rows[r + 1].begin < rows[r + 1].end /\ rows[r + 1].end \leq points_per_layer
  <2>1. r \in 1..(last - 1) /\ last \in Nat
    BY <1>1 DEF Strips, StripOrder
  <2>2. r \in 1..last /\ r + 1 \in 1..last /\ r \in Nat /\ r < last
    BY ONLY <2>1
  <2> QED
    BY <1>1, <2>1, <2>2 DEF StripOrder
<1>8. ASSUME NEW i \in Inside
      PROVE  i \in LayerIndex /\ i \notin Tips
  <2>1. PICK r \in Strips : i \in rows[r].begin..(rows[r + 1].end - 1)
    BY <1>6
  <2>2. i \in LayerIndex
    <3>1. points_per_layer \in Nat
      BY <1>1 DEF StripOrder
    <3> QED
      BY <1>7, <2>1, <3>1 DEF LayerIndex
  <2>3. ASSUME i \in Tips
        PROVE  FALSE
    <3>1. PICK k \in 1..last : Strips \cap {k - 1, k} = {} /\ i = rows[k].begin
      BY <2>3 DEF Tips
    <3>2. /\ rows[k].begin \in Nat /\ rows[k].end \in Nat /\ rows[k].begin < rows[k].end
          /\ k < r => rows[k].end \leq rows[r].begin
          /\ r + 1 < k => rows[r + 1].end \leq rows[k].begin
      BY <1>1, <1>7 DEF StripOrder
    <3>3. ~(k < r) /\ ~(r + 1 < k)
      BY <1>7, <2>1, <3>1, <3>2
    <3>4. k \in Nat /\ r \in Nat
      BY <1>1, <1>7 DEF StripOrder
    <3>5. k = r \/ k - 1 = r
      BY ONLY <3>3, <3>4
    <3> QED
      BY <3>1, <3>5
  <2> QED
    BY <2>2, <2>3
<1>9. ASSUME NEW i \in LayerIndex, i \notin Tips
      PROVE  i \in Inside
  <2>1. PICK k \in 1..last : rows[k].begin \leq i /\ i < rows[k].end
    <3>1. i \in 0..(NextBegin - 1)
      BY <1>1 DEF LayerIndex
    <3> QED
      BY <3>1 DEF IInv, RowsInOrder
  <2>2. /\ last \in Nat /\ k \in Nat /\ rows[k].begin \in Nat /\ rows[k].end \in Nat /\ i \in Nat
    BY <1>1 DEF StripOrder, LayerIndex
  <2>3. PICK r \in Strips : r = k \/ r = k - 1
    <3>1. CASE Strips \cap {k - 1, k} = {}
      <4>1. i # rows[k].begin
        BY <1>9, <3>1 DEF Tips
      <4>2. rows[k].end > rows[k].begin + 1
        BY <2>1, <2>2, <4>1
      <4>3. CASE k < last
        <5>1. k \in 1..(last - 1)
          BY <2>2, <4>3
        <5> QED
          BY <4>2, <5>1 DEF Strips
      <4>4. CASE k = last
        <5>1. k - 1 \in 1..(last - 1) /\ (k - 1) + 1 = k
          BY <1>1, <2>2, <4>4
        <5>2. k - 1 \in Strips
          BY <4>2, <5>1 DEF Strips
        <5> QED
          BY <5>2
      <4> QED
        BY <2>2, <4>3, <4>4
    <3> QED
      BY <3>1
  <2>4. i \in rows[r].begin..(rows[r + 1].end - 1)
    <3>1. CASE r = k
      BY <1>7, <2>1, <2>2, <3>1
    <3>2. CASE r = k - 1
      <4>1. r + 1 = k
        BY <2>2, <3>2
      <4> QED
        BY <1>7, <2>1, <2>2, <4>1
    <3> QED
      BY <2>3, <3>1, <3>2
  <2> QED
    BY <1>6, <2>4
<1> QED
  BY <1>5, <1>8, <1>9

(* The points of the other layers are those of the first, one above the    *)
(* other.                                                                  *)
LEMMA Stacked ==
    ASSUME IInv, stage = "written"
    PROVE  /\ layer_count \in Nat \ {0, 1} /\ points_per_layer \in Nat \ {0, 1}
           /\ num_points \in Nat /\ DOMAIN points = 0..(num_points - 1)
           /\ \A p \in LayerIndex, m \in 0..(layer_count - 1) :
                  /\ p + m * points_per_layer \in 0..(num_points - 1)
                  /\ (p + m * points_per_layer) % points_per_layer = p
                  /\ points[p + m * points_per_layer]
                         = [x |-> Nth(grid, p).x, y |-> Nth(grid, p).y, z |-> m]
           /\ \A i \in 0..(num_points - 1) :
                  /\ i % points_per_layer \in LayerIndex
                  /\ \E m \in 0..(layer_count - 1) :
                         i = (i % points_per_layer) + m * points_per_layer
<1> DEFINE s == points_per_layer
           n == num_points
           c == layer_count
<1>1. IsInput /\ s = Size(grid) /\ s \in Nat \ {0, 1} /\ n \in Nat /\ n > s /\ n % s = 0
      /\ DOMAIN points = 0..(n - 1)
  BY LayerFound DEF IInv, Staged, WholeLayers, Size
<1>2. Divides(s)
  BY <1>1, Division
<1>3. n = s * c /\ c \in Nat
  BY <1>1, <1>2 DEF Divides, layer_count
<1>4. \A i \in 0..(n - 1) :
          points[i] = [x |-> Nth(grid, i % s).x, y |-> Nth(grid, i % s).y, z |-> i \div s]
  BY <1>1, PointFacts
<1> HIDE DEF s, n, c
<1>5. c \in Nat \ {0, 1}
  <2>1. c = 0 => n = 0
    BY ONLY <1>1, <1>3
  <2>2. c = 1 => n = s
    BY ONLY <1>1, <1>3
  <2> QED
    BY ONLY <1>1, <1>3, <2>1, <2>2
<1>6. ASSUME NEW p \in 0..(s - 1), NEW m \in 0..(c - 1)
      PROVE  /\ p + m * s \in 0..(n - 1) /\ (p + m * s) % s = p
             /\ points[p + m * s] = [x |-> Nth(grid, p).x, y |-> Nth(grid, p).y, z |-> m]
  <2>1. m \in Nat
    BY <1>5
  <2>2. p + m * s \in Nat /\ (p + m * s) % s = p /\ (p + m * s) \div s = m
    BY ONLY <1>2, <2>1, p \in 0..(s - 1) DEF Divides
  <2>3. p + m * s \leq n - 1
    <3>1. PICK d \in Nat : c = (m + 1) + d
      <4>1. c - (m + 1) \in Nat /\ c = (m + 1) + (c - (m + 1))
        BY <1>5
      <4> QED
        BY <4>1
    <3>2. s * d \in Nat /\ m * s \in Nat
      BY <1>1, <2>1, Products
    <3>3. n = m * s + s + s * d
      BY ONLY <1>1, <1>3, <2>1, <3>1
    <3> DEFINE ms == m * s
               sd == s * d
    <3>4. ms \in Nat /\ sd \in Nat /\ n = ms + s + sd
      BY ONLY <3>2, <3>3
    <3> HIDE DEF ms, sd
    <3>5. p + ms \leq n - 1
      BY ONLY <1>1, <3>4, p \in 0..(s - 1)
    <3> QED
      BY ONLY <3>5 DEF ms
  <2>4. p + m * s \in 0..(n - 1)
    BY <1>1, <2>2, <2>3
  <2> QED
    BY <1>4, <2>2, <2>4
<1>7. ASSUME NEW i \in 0..(n - 1)
      PROVE  i % s \in 0..(s - 1) /\ \E m \in 0..(c - 1) : i = (i % s) + m * s
  <2> DEFINE m == i \div s
             p == i % s
  <2>1. i \in Nat /\ i < n
    BY <1>1
  <2>2. p \in 0..(s - 1) /\ m \in Nat /\ i = s * m + p
    BY ONLY <1>2, <2>1 DEF Divides
  <2> HIDE DEF m, p
  <2>3. i = p + m * s
    BY ONLY <1>1, <2>1, <2>2
  <2>4. m < c
    <3> SUFFICES ASSUME ~(m < c)
                 PROVE  FALSE
      OBVIOUS
    <3>1. PICK d \in Nat : m = c + d
      <4>1. m - c \in Nat /\ m = c + (m - c)
        BY <1>5, <2>2
      <4> QED
        BY <4>1
    <3>2. s * d \in Nat
      BY <1>1, Products
    <3>3. s * m = n + s * d
      BY ONLY <1>1, <1>3, <3>1
    <3> DEFINE sm == s * m
               sd == s * d
    <3>4. sd \in Nat /\ sm = n + sd /\ i = sm + p
      BY ONLY <2>2, <3>2, <3>3
    <3> HIDE DEF sm, sd
    <3> QED
      BY ONLY <1>1, <2>1, <2>2, <3>4
  <2>5. m \in 0..(c - 1)
    BY <1>5, <2>2, <2>4
  <2> QED
    BY <2>2, <2>3, <2>5 DEF m, p
<1>8. LayerIndex = 0..(s - 1)
  BY DEF LayerIndex, s
<1>9. /\ \A p \in LayerIndex, m \in 0..(c - 1) :
             /\ p + m * s \in 0..(n - 1) /\ (p + m * s) % s = p
             /\ points[p + m * s] = [x |-> Nth(grid, p).x, y |-> Nth(grid, p).y, z |-> m]
      /\ \A i \in 0..(n - 1) :
             i % s \in LayerIndex /\ \E m \in 0..(c - 1) : i = (i % s) + m * s
  BY ONLY <1>6, <1>7, <1>8
<1>10. c \in Nat \ {0, 1} /\ s \in Nat \ {0, 1} /\ n \in Nat /\ DOMAIN points = 0..(n - 1)
  BY <1>1, <1>5
<1> QED
  BY ONLY <1>9, <1>10 DEF s, n, c

(* The corners of the triangles.                                           *)
LEMMA Corners ==
    ASSUME IInv, stage = "written"
    PROVE  /\ \A h \in DOMAIN triangles, j \in 1..3 :
                  triangles[h][j] \in LayerIndex /\ triangles[h][j] \notin Tips
           /\ \A p \in LayerIndex \ Tips :
                  \E h \in DOMAIN triangles, j \in 1..3 : triangles[h][j] = p
<1>1. {e[1] : e \in Used} = LayerIndex \ Tips
  BY Closed DEF IInv, Tiled, InStrips
<1>2. \A h \in DOMAIN triangles :
          Edges(h) = {<<triangles[h][1], triangles[h][2]>>, <<triangles[h][2], triangles[h][3]>>,
                      <<triangles[h][3], triangles[h][1]>>}
  BY DEF Edges
<1>3. ASSUME NEW h \in DOMAIN triangles, NEW j \in 1..3
      PROVE  triangles[h][j] \in {e[1] : e \in Used}
  <2>1. PICK e \in Edges(h) : e[1] = triangles[h][j]
    <3>1. j = 1 \/ j = 2 \/ j = 3
      OBVIOUS
    <3>2. CASE j = 1
      <4>1. <<triangles[h][1], triangles[h][2]>> \in Edges(h)
        BY <1>2
      <4> QED
        BY <3>2, <4>1
    <3>3. CASE j = 2
      <4>1. <<triangles[h][2], triangles[h][3]>> \in Edges(h)
        BY <1>2
      <4> QED
        BY <3>3, <4>1
    <3>4. CASE j = 3
      <4>1. <<triangles[h][3], triangles[h][1]>> \in Edges(h)
        BY <1>2
      <4> QED
        BY <3>4, <4>1
    <3> QED
      BY ONLY <3>1, <3>2, <3>3, <3>4
  <2>2. e \in Used
    BY <2>1 DEF Used
  <2> QED
    BY <2>1, <2>2
<1>4. ASSUME NEW e \in Used
      PROVE  \E h \in DOMAIN triangles, j \in 1..3 : triangles[h][j] = e[1]
  <2>1. PICK h \in DOMAIN triangles : e \in Edges(h)
    BY <1>4 DEF Used
  <2> QED
    BY <1>2, <2>1
<1> QED
  BY <1>1, <1>3, <1>4

(* A cell stands on one triangle, its upper corners one layer above.       *)
LEMMA CellFacts ==
    ASSUME NEW c \in Cells
    PROVE  \E h \in DOMAIN triangles, m \in 0..(layer_count - 2) :
               /\ c = Wedge(triangles[h], m)
               /\ \A j \in 1..3 :
                      /\ c[j] = triangles[h][j] + m * points_per_layer
                      /\ c[j + 3] = triangles[h][j] + (m + 1) * points_per_layer
<1>1. PICK h \in DOMAIN triangles, m \in 0..(layer_count - 2) : c = Wedge(triangles[h], m)
  BY DEF Cells
<1>2. ASSUME NEW j \in 1..3
      PROVE  /\ c[j] = triangles[h][j] + m * points_per_layer
             /\ c[j + 3] = triangles[h][j] + (m + 1) * points_per_layer
  <2>1. j \in 1..6 /\ j \leq 3 /\ j + 3 \in 1..6 /\ ~(j + 3 \leq 3) /\ (j + 3) - 3 = j
    OBVIOUS
  <2> QED
    BY <1>1, <2>1 DEF Wedge
<1> QED
  BY <1>1, <1>2

(* In a written file the triangles of a layer tile it within its outline,  *)
(* no two of them on the same side of an edge, and the cells are upright   *)
(* and reach all points but those of a tip one point wide, whatever the    *)
(* sizes of the grid (exporter lines 139-185, 216-231).                    *)
THEOREM Conformity == Spec => []Conforming
<1>1. (Exact => IInv) => Conforming
  <2> SUFFICES ASSUME IInv, stage = "written"
               PROVE  Conforming
    BY DEF Conforming, Exact
  <2> DEFINE used == UNION {Edges(i) : i \in DOMAIN triangles}
             s == points_per_layer
             n == num_points
             k == layer_count
  <2>1. used = Used
    BY DEF Used
  <2>2. /\ \A i \in DOMAIN triangles : TurnsLeft(triangles[i])
        /\ Cardinality(Used) = 3 * Len(triangles) /\ Unmatched(Used) = Border
    BY DEF IInv, Tiled, InStrips
  <2>3. Border = Outline /\ Unmatched(Used) = {e \in used : <<e[2], e[1]>> \notin used}
    BY <2>1, Closed DEF Unmatched
  <2>4. /\ k \in Nat \ {0, 1} /\ s \in Nat \ {0, 1} /\ n \in Nat /\ DOMAIN points = 0..(n - 1)
        /\ \A p \in LayerIndex, m \in 0..(k - 1) :
               /\ p + m * s \in 0..(n - 1) /\ (p + m * s) % s = p
               /\ points[p + m * s] = [x |-> Nth(grid, p).x, y |-> Nth(grid, p).y, z |-> m]
        /\ \A i \in 0..(n - 1) :
               i % s \in LayerIndex /\ \E m \in 0..(k - 1) : i = (i % s) + m * s
    BY Stacked
  <2>5. \A c \in Cells : \E h \in DOMAIN triangles, m \in 0..(k - 2) :
            /\ c = Wedge(triangles[h], m)
            /\ \A j \in 1..3 : /\ c[j] = triangles[h][j] + m * s
                               /\ c[j + 3] = triangles[h][j] + (m + 1) * s
    BY CellFacts
  <2>6. \A h \in DOMAIN triangles, m \in 0..(k - 2) :
            /\ Wedge(triangles[h], m) \in Cells
            /\ \A j \in 1..3 : /\ Wedge(triangles[h], m)[j] = triangles[h][j] + m * s
                               /\ Wedge(triangles[h], m)[j + 3] = triangles[h][j] + (m + 1) * s
    <3> SUFFICES ASSUME NEW h \in DOMAIN triangles, NEW m \in 0..(k - 2)
                 PROVE  /\ Wedge(triangles[h], m) \in Cells
                        /\ \A j \in 1..3 :
                               /\ Wedge(triangles[h], m)[j] = triangles[h][j] + m * s
                               /\ Wedge(triangles[h], m)[j + 3] = triangles[h][j] + (m + 1) * s
      OBVIOUS
    <3>1. Wedge(triangles[h], m) \in Cells
      BY DEF Cells
    <3>2. ASSUME NEW j \in 1..3
          PROVE  /\ Wedge(triangles[h], m)[j] = triangles[h][j] + m * s
                 /\ Wedge(triangles[h], m)[j + 3] = triangles[h][j] + (m + 1) * s
      <4>1. j \in 1..6 /\ j \leq 3 /\ j + 3 \in 1..6 /\ ~(j + 3 \leq 3) /\ (j + 3) - 3 = j
        OBVIOUS
      <4> QED
        BY <4>1 DEF Wedge
    <3> QED
      BY <3>1, <3>2
  <2>7. /\ \A h \in DOMAIN triangles, j \in 1..3 :
               triangles[h][j] \in LayerIndex /\ triangles[h][j] \notin Tips
        /\ \A p \in LayerIndex \ Tips :
               \E h \in DOMAIN triangles, j \in 1..3 : triangles[h][j] = p
    BY Corners
  <2> HIDE DEF used, s, n, k
  <2>8. ASSUME NEW c \in Cells, NEW i \in 1..6
        PROVE  c[i] \in 0..(n - 1) /\ c[i] % s \notin Tips
    <3>1. PICK h \in DOMAIN triangles, m \in 0..(k - 2) :
              \A j \in 1..3 : /\ c[j] = triangles[h][j] + m * s
                              /\ c[j + 3] = triangles[h][j] + (m + 1) * s
      BY <2>5
    <3>2. m \in 0..(k - 1) /\ m + 1 \in 0..(k - 1)
      BY <2>4
    <3>3. PICK j \in 1..3, u \in 0..(k - 1) : c[i] = triangles[h][j] + u * s
      <4>1. CASE i \in 1..3
        BY <3>1, <3>2, <4>1
      <4>2. CASE i \in 4..6
        <5>1. i - 3 \in 1..3 /\ (i - 3) + 3 = i
          BY <4>2
        <5>2. c[i] = triangles[h][i - 3] + (m + 1) * s
          BY <3>1, <5>1
        <5> QED
          BY <3>2, <5>1, <5>2
      <4> QED
        BY <4>1, <4>2
    <3> DEFINE p == triangles[h][j]
    <3>4. p \in LayerIndex /\ p \notin Tips /\ c[i] = p + u * s
      BY <2>7, <3>3
    <3> HIDE DEF p
    <3>5. p + u * s \in 0..(n - 1) /\ (p + u * s) % s = p
      BY <2>4, <3>4
    <3> QED
      BY ONLY <3>4, <3>5
  <2>9. ASSUME NEW i \in 0..(n - 1), i % s \notin Tips
        PROVE  \E c \in Cells, j \in 1..6 : c[j] = i
    <3>1. PICK m \in 0..(k - 1) : i % s \in LayerIndex /\ i = (i % s) + m * s
      BY <2>4
    <3>2. PICK h \in DOMAIN triangles, j \in 1..3 : triangles[h][j] = i % s
      BY <2>7, <2>9, <3>1
    <3>3. CASE m \in 0..(k - 2)
      <4>1. j \in 1..6
        OBVIOUS
      <4> QED
        BY <2>6, <3>1, <3>2, <3>3, <4>1
    <3>4. CASE m = k - 1
      <4>1. m - 1 \in 0..(k - 2) /\ (m - 1) + 1 = m /\ j + 3 \in 1..6
        BY <2>4, <3>4
      <4>2. /\ Wedge(triangles[h], m - 1) \in Cells
            /\ Wedge(triangles[h], m - 1)[j + 3] = triangles[h][j] + ((m - 1) + 1) * s
        BY <2>6, <4>1
      <4> QED
        BY <3>1, <3>2, <4>1, <4>2
    <3> QED
      BY <2>4, <3>3, <3>4
  <2>10. UNION {{c[i] : i \in 1..6} : c \in Cells} = {i \in DOMAIN points : i % s \notin Tips}
    <3>1. UNION {{c[i] : i \in 1..6} : c \in Cells} \subseteq {i \in 0..(n - 1) : i % s \notin Tips}
      BY ONLY <2>8
    <3>2. {i \in 0..(n - 1) : i % s \notin Tips} \subseteq UNION {{c[i] : i \in 1..6} : c \in Cells}
      BY ONLY <2>9
    <3> QED
      BY ONLY <2>4, <3>1, <3>2
  <2>11. ASSUME NEW c \in Cells, NEW i \in 1..3
         PROVE  points[c[i + 3]] = [points[c[i]] EXCEPT !.z = @ + 1]
    <3>1. PICK h \in DOMAIN triangles, m \in 0..(k - 2) :
              \A j \in 1..3 : /\ c[j] = triangles[h][j] + m * s
                              /\ c[j + 3] = triangles[h][j] + (m + 1) * s
      BY <2>5
    <3>2. m \in 0..(k - 1) /\ m + 1 \in 0..(k - 1)
      BY <2>4
    <3> DEFINE p == triangles[h][i]
    <3>3. p \in LayerIndex /\ c[i] = p + m * s /\ c[i + 3] = p + (m + 1) * s
      BY <2>7, <3>1
    <3> HIDE DEF p
    <3>4. /\ points[c[i]] = [x |-> Nth(grid, p).x, y |-> Nth(grid, p).y, z |-> m]
          /\ points[c[i + 3]] = [x |-> Nth(grid, p).x, y |-> Nth(grid, p).y, z |-> m + 1]
      BY <2>4, <3>2, <3>3
    <3> QED
      BY ONLY <3>4
  <2> QED
    BY <2>1, <2>2, <2>3, <2>10, <2>11 DEF Conforming, TurnsLeft, used, s
<1> QED
  BY <1>1, Invariance, PTL

(* What every step brings: a later stage, or more of the rows, or more of  *)
(* the strip, both bounded by the layer.                                   *)
Onward ==
    \/ stage = "layers" /\ stage' \in {"rows", "failed"}
    \/ stage = "rows" /\ stage' = "rows"
           /\ NextBegin < NextBegin' /\ NextBegin' \leq points_per_layer
    \/ stage = "rows" /\ stage' = "strips"
    \/ stage = "strips" /\ stage' = "strips"
           /\ lower_point + upper_point < lower_point' + upper_point'
           /\ lower_point' + upper_point' < 2 * points_per_layer
    \/ stage = "strips" /\ stage' = "written"

(* The export's loops go forward only, so that they cannot run for ever,   *)
(* and once the layers are found nothing is refused: the tests for fewer   *)
(* than two rows and for no triangle never fail on points of a grid        *)
(* (exporter lines 133, 187).                                              *)
THEOREM Advance == Spec => [][Exact => Onward]_vars
<1>1. IInv /\ IInv' /\ Next => Onward
  <2> SUFFICES ASSUME IInv, IInv', Next
               PROVE  Onward
    OBVIOUS
  <2>1. CASE FindLayers
    BY <2>1 DEF FindLayers, Onward
  <2>2. CASE FindRow
    <3> DEFINE n == Len(rows)
    <3>1. /\ stage = "rows" /\ stage' = "rows" /\ points_per_layer' = points_per_layer
          /\ rows' = Append(rows, [begin |-> NextBegin,
                                   end |-> RunEnd(NextBegin, points_per_layer, "y")])
      BY <2>2, RowFound DEF FindRow, IInv
    <3>2. rows \in Seq([begin : Nat, end : Nat]) /\ n \in Nat
      BY RowTypes DEF IInv, RowsInOrder
    <3>3. Len(rows') = n + 1 /\ rows'[n + 1].begin = NextBegin /\ rows' # <<>>
      BY <3>1, <3>2
    <3>4. NextBegin' = rows'[n + 1].end
      BY <3>3 DEF NextBegin
    <3>5. rows'[n + 1].begin < rows'[n + 1].end /\ rows'[n + 1].end \leq points_per_layer'
      <4>1. n + 1 \in 1..Len(rows')
        BY <3>2, <3>3
      <4> QED
        BY <4>1 DEF IInv, RowsInOrder, IsRow
    <3> QED
      BY <3>1, <3>3, <3>4, <3>5 DEF Onward
  <2>3. CASE RowsFound
    <3>1. stage = "rows" /\ stage' \in {"failed", "strips"} /\ UNCHANGED input
      BY <2>3 DEF RowsFound
    <3>2. WholeLayers /\ (WholeLayers' <=> WholeLayers)
      BY <3>1, InputStays DEF IInv, Staged
    <3>3. stage' # "failed"
      BY <3>2 DEF IInv, Staged
    <3> QED
      BY <3>1, <3>3 DEF Onward
  <2>4. ASSUME stage = "strips", stage' = "strips", UNCHANGED points_per_layer,
               lower_point + upper_point < lower_point' + upper_point'
        PROVE  Onward
    <3>1. StripEnds'
      <4>1. InStrips'
        BY <2>4 DEF InStrips
      <4> QED
        BY <4>1, StripFacts, PTL
    <3>2. /\ lower_point' \in Nat /\ upper_point' \in Nat /\ points_per_layer' \in Nat
          /\ lower_point' < points_per_layer' /\ upper_point' < points_per_layer'
      <4>1. /\ points_per_layer' \in Nat /\ rows'[row'].end \in Nat
            /\ rows'[row' + 1].begin \in Nat /\ rows'[row' + 1].end \in Nat
            /\ lower_point' \in Nat /\ upper_point' \in Nat
            /\ lower_point' < rows'[row'].end /\ rows'[row'].end = rows'[row' + 1].begin
            /\ rows'[row' + 1].begin \leq upper_point' /\ upper_point' < rows'[row' + 1].end
            /\ rows'[row' + 1].end \leq points_per_layer'
        BY <3>1 DEF StripEnds
      <4> QED
        BY ONLY <4>1
    <3>3. points_per_layer' = points_per_layer
      BY <2>4
    <3>4. lower_point' + upper_point' < 2 * points_per_layer
      <4>1. \A a, b, c \in Nat : a < c /\ b < c => a + b < 2 * c
        OBVIOUS
      <4> QED
        BY ONLY <3>2, <3>3, <4>1
    <3> QED
      BY <2>4, <3>4 DEF Onward
  <2>5. CASE AdvanceLower \/ AdvanceUpper
    <3>1. /\ stage = "strips" /\ stage' = "strips" /\ UNCHANGED points_per_layer
          /\ \/ lower_point' = lower_point + 1 /\ upper_point' = upper_point
             \/ lower_point' = lower_point /\ upper_point' = upper_point + 1
      BY <2>5 DEF AdvanceLower, AdvanceUpper
    <3>2. lower_point \in Nat /\ upper_point \in Nat
      BY <3>1, StripFacts DEF InStrips, StripEnds
    <3> QED
      BY <2>4, <3>1, <3>2
  <2>6. CASE NextStrip
    <3>1. stage = "strips" /\ InStrips /\ ~LowerLeft /\ ~UpperLeft /\ UNCHANGED points_per_layer
      BY <2>6 DEF NextStrip, InStrips
    <3>2. CASE row + 2 \leq Len(rows)
      <4>1. /\ stage' = "strips" /\ lower_point' = rows[row + 1].begin
            /\ upper_point' = rows[(row + 1) + 1].begin
        BY <2>6, <3>1, <3>2 DEF NextStrip, Enter
      <4>2. lower_point = rows[row].end - 1 /\ upper_point = rows[row + 1].end - 1
        BY <3>1, StripDone
      <4>3. /\ rows[row].end \in Nat /\ rows[row].end = rows[row + 1].begin
            /\ rows[row + 1].end \in Nat
        BY <3>1, StripFacts DEF StripEnds
      <4>4. rows[(row + 1) + 1].begin = rows[row + 1].end
        <5>1. row + 1 \in 1..(Len(rows) - 1) /\ StripOrder
          BY <3>1, <3>2, StripFacts DEF StripOrder
        <5> QED
          BY <5>1 DEF StripOrder
      <4>5. lower_point + upper_point < lower_point' + upper_point'
        BY ONLY <4>1, <4>2, <4>3, <4>4
      <4> QED
        BY <2>4, <3>1, <4>1, <4>5
    <3>3. CASE ~(row + 2 \leq Len(rows))
      <4>1. stage' \in {"failed", "written"} /\ UNCHANGED input
        BY <2>6, <3>3 DEF NextStrip
      <4>2. WholeLayers /\ (WholeLayers' <=> WholeLayers)
        BY <3>1, <4>1, InputStays DEF IInv, Staged
      <4>3. stage' # "failed"
        BY <4>2 DEF IInv, Staged
      <4> QED
        BY <3>1, <4>1, <4>3 DEF Onward
    <3> QED
      BY <3>2, <3>3
  <2> QED
    BY <2>1, <2>2, <2>3, <2>5, <2>6 DEF Next
<1>2. (Exact => IInv) /\ (Exact => IInv)' /\ [Next]_vars => [Exact => Onward]_vars
  BY <1>1, GridStays DEF Exact
<1> QED
  BY <1>1, <1>2, Invariance, PTL DEF Spec
================================================================================
