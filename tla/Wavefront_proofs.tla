------------------------- MODULE Wavefront_proofs --------------------------
(***************************************************************************)
(* Proofs about the wavefront search for every tile and any number of      *)
(* workers: the types, and that what a search reads and what the writer    *)
(* codes depend on their place only.                                       *)
(*                                                                         *)
(* The safety argument needs no induction over the grid.  A node that left *)
(* "waiting" has only predecessors that ran (Countdown); so the            *)
(* superblocks of a row that a facade has committed are the first cursor   *)
(* ones, all but the last of which ran (RowOrder), the row above has left  *)
(* every edge an import asks for (EdgeOrder), and the superblocks that are *)
(* written are those above the writer's next one (WriteOrder).  That a     *)
(* tile that ends without an error is whole takes the least node, in index *)
(* order, that is left waiting.                                            *)
(***************************************************************************)
EXTENDS Wavefront, FiniteSetTheorems, TLAPS

S(r, c) == <<"search", <<r, c>>>>

(* A node waits for exactly the predecessors that still owe it a signal;   *)
(* nobody signals before it ran, or is done before it has signaled all.    *)
Owing(n) == {p \in Preds(n) : n \in left[p]}

Countdown ==
    /\ \A n \in Node : left[n] \subseteq Succs(n) /\ (left[n] # Succs(n) => Ran(n))
    /\ \A n \in Node : waiting[n] = Cardinality(Owing(n))
    /\ \A n \in Node : threads > 0 /\ pc[n] # "waiting" => Owing(n) = {}
    /\ \A n \in Node : threads > 0 /\ pc[n] = "waiting" => Owing(n) # {}
    /\ \A n \in Node : threads > 0 /\ pc[n] = "done" => left[n] = {}
    /\ threads = 0 => \A n \in Node :
          /\ pc[n] \notin {"queued", "signal"}
          /\ pc[n] # "waiting" => \A m \in Node : Before(m, n) => pc[m] = "done"

(* The facade of row r has committed the superblocks left of its cursor. *)
Searched == {"edge", "commit", "signal", "done"}
Gone == {"failing", "stopped"}

FacadeAt(r) ==
    /\ \A c \in Col : /\ pc[S(r, c)] \in Searched => c < cursor[r]
                      /\ c < cursor[r] => pc[S(r, c)] \in Searched \cup Gone
                      /\ pc[S(r, c)] \in {"import", "search"} => facade[r]
    /\ ~facade[r] => cursor[r] \in {0, Cols}

(* It has imported the edges above those and the next one, or is at it.    *)
ImportsAt(r) ==
    /\ ~facade[r] /\ cursor[r] = 0 => imported[r] = 0
    /\ r > 0 => /\ imported[r] <= Least(cursor[r] + 2, Cols)
                /\ cursor[r] > 0 => imported[r] >= Least(cursor[r] + 1, Cols)
    /\ priced[r] = IF imported[r] = 0 THEN 0 ELSE imported[r] - 1
    /\ \A c \in Col : r > 0 /\ pc[S(r, c)] = "search" => imported[r] = Least(c + 2, Cols)

RowOrder == \A r \in Row : FacadeAt(r) /\ ImportsAt(r)

(* An edge that is left is there until it is imported, unless an import of *)
(* the row below failed with it.                                           *)
EdgeAt(r, c) ==
    /\ r + 1 \in Row /\ pc[S(r, c)] \in {"commit", "signal", "done"}
    /\ c >= imported[r + 1] /\ ~edges[<<r, c>>]
    => \E d \in Col : pc[S(r + 1, d)] \in Gone

EdgeOrder == \A r \in Row, c \in Col : EdgeAt(r, c)

WriteOrder ==
    /\ next[1] = Rows => next[2] = 0
    /\ \A b \in Block :
        /\ Above(b, next) <=> Ran(<<"write", b>>)
        /\ Ran(<<"search", b>>) /\ pc[<<"write", b>>] \in {"waiting", "queued", "take"}
               => committed[b]

(* How a tile ends: whoever stops has an error to show.                    *)
Ending ==
    /\ \A n \in Node :
        /\ pc[n] = "stopped" => failed
        /\ pc[n] = "failing" => fault # "none"
    /\ failed => fault # "none"
    /\ result = "ok" => \A n \in Node : pc[n] = "done"
    /\ result = "error" => fault # "none"

WInv ==
    /\ TypeOK /\ Countdown /\ RowOrder /\ EdgeOrder /\ WriteOrder
    /\ EdgesAreThereOnce /\ Ending

-----------------------------------------------------------------------------
(* The grid. *)

LEMMA Grid ==
  /\ Rows \in Nat /\ Rows > 0 /\ Cols \in Nat /\ Cols > 0 /\ MaxThreads \in Nat
  /\ \A r \in Row : r \in Nat /\ r < Rows
  /\ \A c \in Col : c \in Nat /\ c < Cols
  BY TileAssumption DEF Row, Col

LEMMA BlockPlace ==
  ASSUME NEW b \in Block
  PROVE  b[1] \in Row /\ b[2] \in Col /\ b = <<b[1], b[2]>>
  BY DEF Block

LEMMA SearchNode ==
  ASSUME NEW r \in Row, NEW c \in Col
  PROVE  /\ <<r, c>> \in Block /\ S(r, c) \in Node /\ S(r, c) = <<"search", <<r, c>>>>
         /\ S(r, c)[1] = "search" /\ S(r, c)[2] = <<r, c>>
         /\ <<r, c>>[1] = r /\ <<r, c>>[2] = c
  BY DEF Block, Node, S

LEMMA NodeShape ==
  ASSUME NEW n \in Node
  PROVE  /\ n[2] \in Block /\ n[1] \in {"search", "write"}
         /\ n = <<n[1], n[2]>>
         /\ n[1] = "search" => n = S(n[2][1], n[2][2])
  BY BlockPlace DEF Node, S

(* Nodes of distinct blocks or kinds are distinct. *)
LEMMA SameNode ==
  ASSUME NEW r \in Row, NEW c \in Col, NEW q \in Row, NEW d \in Col
  PROVE  S(r, c) = S(q, d) <=> r = q /\ c = d
  BY DEF S

(* Every predecessor comes before its node in index order, so the code's   *)
(* refusal of a graph out of order (wavefront.rs:197) never applies.       *)
LEMMA PredsBefore ==
  ASSUME NEW n \in Node, NEW p \in Preds(n)
  PROVE  p \in Node /\ Before(p, n) /\ n \in Succs(p)
<1>1. n[2] \in Block /\ n[1] \in {"search", "write"} /\ n[2][1] \in Nat /\ n[2][2] \in Nat
      /\ n[2] = <<n[2][1], n[2][2]>>
  BY NodeShape, BlockPlace, Grid
<1>2. CASE p \in Left(n[2]) \/ p \in TopRight(n[2])
  <2>1. PICK a \in Block : /\ p = <<"search", a>>
                           /\ \/ a[1] = n[2][1] /\ a[2] + 1 = n[2][2]
                              \/ a[1] + 1 = n[2][1]
    BY <1>2 DEF Left, TopRight
  <2>2. a[1] \in Nat /\ a[2] \in Nat /\ p \in Node /\ p[1] = "search" /\ p[2] = a
    BY <2>1, BlockPlace, Grid DEF Node
  <2>3. Above(a, n[2])
    BY <1>1, <2>1, <2>2 DEF Above
  <2>4. QED
    BY <2>2, <2>3 DEF Before, Succs
<1>3. CASE n[1] = "write" /\ p = <<"search", n[2]>>
  BY <1>1, <1>3 DEF Before, Succs, Node
<1>4. CASE n[1] = "write" /\ p \in Previous(n[2])
  <2>1. PICK a \in Block : p = <<"write", a>> /\ Following(a) = n[2]
    BY <1>4 DEF Previous
  <2>2. a[1] \in Nat /\ a[2] \in Nat /\ p \in Node /\ p[1] = "write" /\ p[2] = a
    BY <2>1, BlockPlace, Grid DEF Node
  <2>3. Above(a, n[2])
    BY <1>1, <2>1, <2>2, Grid DEF Above, Following
  <2>4. QED
    BY <2>2, <2>3 DEF Before, Succs
<1>5. QED
  BY <1>1, <1>2, <1>3, <1>4 DEF Preds

(* The predecessors a search and a write rely on. *)
LEMMA SearchPreds ==
  ASSUME NEW r \in Row, NEW c \in Col
  PROVE  /\ c > 0 => c - 1 \in Col /\ S(r, c - 1) \in Preds(S(r, c))
         /\ r > 0 => /\ r - 1 \in Row /\ Least(c + 1, Cols - 1) \in Col
                     /\ S(r - 1, Least(c + 1, Cols - 1)) \in Preds(S(r, c))
<1> DEFINE d == Least(c + 1, Cols - 1)
<1>1. r \in Nat /\ c \in Nat /\ c < Cols /\ r < Rows
  BY Grid
<1>2. ASSUME c > 0 PROVE c - 1 \in Col /\ S(r, c - 1) \in Preds(S(r, c))
  <2>1. c - 1 \in Col /\ (c - 1) + 1 = c
    BY <1>1, <1>2, Grid DEF Col
  <2>2. <<r, c - 1>> \in Block /\ <<r, c - 1>>[1] = r /\ <<r, c - 1>>[2] + 1 = c
    BY <2>1 DEF Block
  <2>3. S(r, c - 1) \in Left(<<r, c>>)
    BY <2>2 DEF Left, S
  <2>4. QED
    BY <2>1, <2>3, SearchNode DEF Preds
<1>3. ASSUME r > 0 PROVE r - 1 \in Row /\ d \in Col /\ S(r - 1, d) \in Preds(S(r, c))
  <2>1. r - 1 \in Row /\ d \in Col /\ (r - 1) + 1 = r
    BY <1>1, <1>3, Grid DEF Row, Col, Least
  <2> HIDE DEF d
  <2>2. <<r - 1, d>> \in Block /\ <<r - 1, d>>[1] + 1 = r /\ <<r - 1, d>>[2] = d
    BY <2>1 DEF Block
  <2>3. S(r - 1, d) \in TopRight(<<r, c>>)
    BY <2>2 DEF TopRight, S, d
  <2>4. QED
    BY <2>1, <2>3, SearchNode DEF Preds
<1>4. QED
  BY <1>2, <1>3

LEMMA WritePreds ==
  ASSUME NEW b \in Block
  PROVE  /\ <<"write", b>> \in Node /\ <<"search", b>> \in Node
         /\ <<"search", b>> \in Preds(<<"write", b>>)
         /\ \A a \in Block : Following(a) = b => <<"write", a>> \in Preds(<<"write", b>>)
  BY DEF Node, Preds, Previous

(* Raster order. *)
LEMMA FollowingInOrder ==
  ASSUME NEW b \in Block
  PROVE  /\ Following(b)[1] \in 0 .. Rows /\ Following(b)[2] \in Col
         /\ Following(b) = <<Following(b)[1], Following(b)[2]>>
         /\ Following(b)[1] = Rows => Following(b)[2] = 0
         /\ \A a \in Block : Above(a, Following(b)) <=> Above(a, b) \/ a = b
         /\ \A a \in Block : Following(a) = Following(b) => a = b
<1>1. b[1] \in Nat /\ b[2] \in Nat /\ b[1] < Rows /\ b[2] < Cols
  BY BlockPlace, Grid
<1>2. /\ Following(b)[1] \in 0 .. Rows /\ Following(b)[2] \in Col
      /\ Following(b) = <<Following(b)[1], Following(b)[2]>>
      /\ Following(b)[1] = Rows => Following(b)[2] = 0
  BY <1>1, Grid DEF Following, Col
<1>3. ASSUME NEW a \in Block
      PROVE  /\ Above(a, Following(b)) <=> Above(a, b) \/ a = b
             /\ Following(a) = Following(b) => a = b
  <2>1. /\ a[1] \in Nat /\ a[2] \in Nat /\ a[1] < Rows /\ a[2] < Cols
        /\ a = b <=> a[1] = b[1] /\ a[2] = b[2]
    BY BlockPlace, Grid
  <2>2. Above(a, Following(b)) <=> Above(a, b) \/ (a[1] = b[1] /\ a[2] = b[2])
    BY <1>1, <2>1, Grid DEF Above, Following
  <2>3. Following(a) = Following(b) => a[1] = b[1] /\ a[2] = b[2]
    BY <1>1, <2>1, Grid DEF Following
  <2>4. QED
    BY <2>1, <2>2, <2>3
<1>4. QED
  BY <1>2, <1>3

(* What is before a block in raster order follows from the block just      *)
(* before it.                                                              *)
LEMMA PrecedingBlock ==
  ASSUME NEW b \in Block, NEW p \in (0 .. Rows) \X Col, p # b, ~Above(b, p)
  PROVE  \E a \in Block : Following(a) = b /\ ~Above(a, p)
<1>1. /\ b[1] \in Nat /\ b[2] \in Nat /\ b[1] < Rows /\ b[2] < Cols /\ b = <<b[1], b[2]>>
      /\ p[1] \in Nat /\ p[2] \in Nat /\ p[2] < Cols /\ p = <<p[1], p[2]>>
  BY BlockPlace, Grid
<1>2. Above(p, b)
  BY <1>1 DEF Above
<1> DEFINE a == IF b[2] > 0 THEN <<b[1], b[2] - 1>> ELSE <<b[1] - 1, Cols - 1>>
<1>3. b[2] = 0 => b[1] > 0
  BY <1>1, <1>2 DEF Above
<1>4. a \in Block /\ a[1] \in Nat /\ a[2] \in Nat
      /\ IF b[2] > 0 THEN a[1] = b[1] /\ a[2] = b[2] - 1 ELSE a[1] = b[1] - 1 /\ a[2] = Cols - 1
  <2>1. CASE b[2] > 0
    <3>1. b[1] \in Row /\ b[2] - 1 \in Col
      BY <1>1, <2>1, Grid DEF Row, Col
    <3>2. QED
      BY <1>1, <2>1, <3>1 DEF Block
  <2>2. CASE b[2] = 0
    <3>1. b[1] - 1 \in Row /\ Cols - 1 \in Col
      BY <1>1, <1>3, <2>2, Grid DEF Row, Col
    <3>2. b[1] - 1 \in Nat /\ Cols - 1 \in Nat
      BY <1>1, <1>3, <2>2, Grid
    <3>3. QED
      BY <1>1, <2>2, <3>1, <3>2 DEF Block
  <2>3. QED
    BY <1>1, <2>1, <2>2
<1> HIDE DEF a
<1>5. Following(a) = b
  BY <1>1, <1>3, <1>4, Grid DEF Following
<1>6. ~Above(a, p)
  BY <1>1, <1>2, <1>3, <1>4, Grid DEF Above
<1>7. QED
  BY <1>4, <1>5, <1>6

LEMMA PairIsSmall ==
  ASSUME NEW x, NEW y, NEW T, T \subseteq {x, y}
  PROVE  IsFiniteSet(T) /\ Cardinality(T) \in 0 .. 2
<1>1. IsFiniteSet({x}) /\ Cardinality({x}) = 1
  BY FS_Singleton
<1>2. IsFiniteSet({x} \cup {y}) /\ Cardinality({x} \cup {y}) <= 2
      /\ Cardinality({x} \cup {y}) \in Nat
  <2>1. /\ IsFiniteSet({x} \cup {y})
        /\ Cardinality({x} \cup {y}) = IF y \in {x} THEN Cardinality({x}) ELSE Cardinality({x}) + 1
    BY <1>1, FS_AddElement
  <2>2. QED
    BY <1>1, <2>1
<1>3. {x, y} = {x} \cup {y}
  OBVIOUS
<1>4. IsFiniteSet(T) /\ Cardinality(T) <= Cardinality({x, y})
  BY <1>2, <1>3, FS_Subset
<1>5. Cardinality(T) \in Nat
  BY <1>4, FS_CardinalityType
<1>6. QED
  BY <1>2, <1>3, <1>4, <1>5

(* A node waits for two others at most. *)
LEMMA PredsSmall ==
  ASSUME NEW n \in Node
  PROVE  IsFiniteSet(Preds(n)) /\ Cardinality(Preds(n)) \in 0 .. 2
<1>1. n[2] \in Block /\ n[1] \in {"search", "write"}
  BY NodeShape
<1> DEFINE b == n[2]
<1>2. b[1] \in Nat /\ b[2] \in Nat /\ b = <<b[1], b[2]>>
  BY <1>1, BlockPlace, Grid
<1>3. CASE n[1] = "search"
  <2> DEFINE x == <<"search", <<b[1], b[2] - 1>>>>
             y == <<"search", <<b[1] - 1, Least(b[2] + 1, Cols - 1)>>>>
  <2>1. ASSUME NEW a \in Block, a[1] = b[1], a[2] + 1 = b[2]
        PROVE  <<"search", a>> = x
    <3>1. a[2] \in Nat /\ a = <<a[1], a[2]>>
      BY BlockPlace, Grid
    <3>2. a[2] = b[2] - 1
      BY <1>2, <2>1, <3>1
    <3>3. QED
      BY <2>1, <3>1, <3>2
  <2>2. ASSUME NEW a \in Block, a[1] + 1 = b[1], a[2] = Least(b[2] + 1, Cols - 1)
        PROVE  <<"search", a>> = y
    <3>1. a[1] \in Nat /\ a = <<a[1], a[2]>>
      BY BlockPlace, Grid
    <3>2. a[1] = b[1] - 1
      BY <1>2, <2>2, <3>1
    <3>3. QED
      BY <2>2, <3>1, <3>2
  <2> HIDE DEF x, y
  <2>3. Preds(n) \subseteq {x, y}
    BY <1>3, <2>1, <2>2 DEF Preds, Left, TopRight
  <2>4. QED
    BY <2>3, PairIsSmall
<1>4. CASE n[1] = "write"
  <2> DEFINE z == IF Previous(b) = {} THEN <<"search", b>> ELSE CHOOSE m \in Previous(b) : TRUE
  <2>1. \A m, q \in Previous(b) : m = q
    BY <1>1, FollowingInOrder DEF Previous
  <2>2. Preds(n) \subseteq {<<"search", b>>, z}
    BY <1>4, <2>1 DEF Preds
  <2> HIDE DEF z
  <2>3. QED
    BY <2>2, PairIsSmall
<1>5. QED
  BY <1>1, <1>3, <1>4

-----------------------------------------------------------------------------
(* The control points a task moves through. *)

Flow(x, y) ==
    \/ x = "waiting" /\ y \in {"queued", "lock", "take", "failing"}
    \/ x = "queued"  /\ y \in {"lock", "take", "stopped"}
    \/ x = "lock"    /\ y \in {"import", "failing"}
    \/ x = "import"  /\ y \in {"search", "failing"}
    \/ x = "search"  /\ y \in {"edge", "commit", "failing"}
    \/ x = "edge"    /\ y \in {"commit", "failing"}
    \/ x = "take"    /\ y \in {"write", "failing"}
    \/ x = "write"   /\ y \in {"signal", "done", "failing"}
    \/ x = "commit"  /\ y \in {"signal", "done"}
    \/ x = "signal"  /\ y = "done"
    \/ x = "failing" /\ y = "stopped"

PcType == pc \in [Node -> Points \cup {"waiting", "queued", "done", "stopped"}]

(* A step of one task moves that task only. *)
LEMMA OneMoves ==
  ASSUME PcType, NEW n \in Node, NEW x, Goto(n, x), Flow(pc[n], x)
  PROVE  /\ \A m \in Node : pc'[m] = pc[m] \/ Flow(pc[m], pc'[m])
         /\ \A m \in Node : m # n => pc'[m] = pc[m]
         /\ pc'[n] = x
         /\ PcType'
<1>1. \A m \in Node : pc'[m] = IF m = n THEN x ELSE pc[m]
  BY DEF PcType, Goto
<1>2. x \in Points \cup {"waiting", "queued", "done", "stopped"}
  BY DEF Flow, Points, RowPoints
<1>3. PcType'
  BY <1>2 DEF PcType, Goto
<1>4. QED
  BY <1>1, <1>3

(* Steps of single tasks, with what they say of the graph. *)
Advances(n) ==
    /\ UNCHANGED <<threads, waiting, left, result>>
    /\ \/ UNCHANGED pc
       \/ \E x : Goto(n, x) /\ Flow(pc[n], x) /\ x # "queued" /\ (x = "signal" => threads # 0)
                 /\ (x = "done" => threads = 0 \/ left[n] = {})
    /\ pc[n] = "waiting" => threads = 0 /\ \A m \in Node : Before(m, n) => pc[m] = "done"

LEMMA TaskSteps ==
  ASSUME PcType, NEW n \in Node,
         \/ Start(n) \/ StartSerial(n) \/ EndTask(n) \/ Fail(n)
         \/ \E b \in Block : /\ n = <<"search", b>>
                             /\ LockRow(b) \/ Import(b) \/ Search(b) \/ LeaveEdge(b) \/ Commit(b)
         \/ \E b \in Block : n = <<"write", b>> /\ (TakeDecisions(b) \/ Write(b))
  PROVE  Advances(n)
<1>1. CASE Start(n)
  <2>1. UNCHANGED <<threads, waiting, left, result>> /\ pc[n] = "queued"
    BY <1>1 DEF Start, graphVars
  <2>2. \E x \in {"stopped", "lock", "take"} : Goto(n, x)
    BY <1>1 DEF Start, Body
  <2>3. QED
    BY <2>1, <2>2 DEF Flow, Advances
<1>2. CASE StartSerial(n)
  <2>1. /\ UNCHANGED <<threads, waiting, left, result>> /\ pc[n] = "waiting"
        /\ threads = 0 /\ \A m \in Node : Before(m, n) => pc[m] = "done"
    BY <1>2 DEF StartSerial, graphVars
  <2>2. \E x \in {"failing", "lock", "take"} : Goto(n, x)
    BY <1>2 DEF StartSerial, Body
  <2>3. QED
    BY <2>1, <2>2 DEF Flow, Advances
<1>3. CASE EndTask(n)
  BY <1>3 DEF EndTask, graphVars, Flow, Advances
<1>4. CASE Fail(n)
  BY <1>4 DEF Fail, Flow, Advances
<1>5. ASSUME NEW b \in Block, n = <<"search", b>>, LockRow(b) PROVE Advances(n)
  <2>1. UNCHANGED <<threads, waiting, left, result>> /\ pc[n] = "lock"
    BY <1>5 DEF LockRow, graphVars
  <2>2. UNCHANGED pc \/ \E x \in {"import", "failing"} : Goto(n, x) /\ (x = "signal" => threads # 0)
                            /\ (x = "done" => threads = 0)
    BY <1>5 DEF LockRow
  <2>3. QED
    BY <2>1, <2>2 DEF Flow, Advances
<1>6. ASSUME NEW b \in Block, n = <<"search", b>>, Import(b) PROVE Advances(n)
  <2>1. UNCHANGED <<threads, waiting, left, result>> /\ pc[n] = "import"
    BY <1>6 DEF Import, graphVars
  <2>2. UNCHANGED pc \/ \E x \in {"search", "failing"} : Goto(n, x) /\ (x = "signal" => threads # 0)
                            /\ (x = "done" => threads = 0)
    BY <1>6 DEF Import
  <2>3. QED
    BY <2>1, <2>2 DEF Flow, Advances
<1>7. ASSUME NEW b \in Block, n = <<"search", b>>, Search(b) PROVE Advances(n)
  <2>1. UNCHANGED <<threads, waiting, left, result>> /\ pc[n] = "search"
    BY <1>7 DEF Search, graphVars
  <2>2. UNCHANGED pc \/ \E x \in {"edge", "commit", "failing"} : Goto(n, x) /\ (x = "signal" => threads # 0)
                            /\ (x = "done" => threads = 0)
    BY <1>7 DEF Search
  <2>3. QED
    BY <2>1, <2>2 DEF Flow, Advances
<1>8. ASSUME NEW b \in Block, n = <<"search", b>>, LeaveEdge(b) PROVE Advances(n)
  <2>1. UNCHANGED <<threads, waiting, left, result>> /\ pc[n] = "edge"
    BY <1>8 DEF LeaveEdge, graphVars
  <2>2. UNCHANGED pc \/ \E x \in {"commit", "failing"} : Goto(n, x) /\ (x = "signal" => threads # 0)
                            /\ (x = "done" => threads = 0)
    BY <1>8 DEF LeaveEdge
  <2>3. QED
    BY <2>1, <2>2 DEF Flow, Advances
<1>9. ASSUME NEW b \in Block, n = <<"search", b>>, Commit(b) PROVE Advances(n)
  <2>1. UNCHANGED <<threads, waiting, left, result>> /\ pc[n] = "commit"
    BY <1>9 DEF Commit, graphVars
  <2>2. UNCHANGED pc \/ \E x \in {"signal", "done"} : Goto(n, x) /\ (x = "signal" => threads # 0)
                            /\ (x = "done" => threads = 0)
    BY <1>9 DEF Commit
  <2>3. QED
    BY <2>1, <2>2 DEF Flow, Advances
<1>10. ASSUME NEW b \in Block, n = <<"write", b>>, TakeDecisions(b) PROVE Advances(n)
  <2>1. UNCHANGED <<threads, waiting, left, result>> /\ pc[n] = "take"
    BY <1>10 DEF TakeDecisions, graphVars
  <2>2. UNCHANGED pc \/ \E x \in {"write", "failing"} : Goto(n, x) /\ (x = "signal" => threads # 0)
                            /\ (x = "done" => threads = 0)
    BY <1>10 DEF TakeDecisions
  <2>3. QED
    BY <2>1, <2>2 DEF Flow, Advances
<1>11. ASSUME NEW b \in Block, n = <<"write", b>>, Write(b) PROVE Advances(n)
  <2>1. UNCHANGED <<threads, waiting, left, result>> /\ pc[n] = "write"
    BY <1>11 DEF Write, graphVars
  <2>2. UNCHANGED pc \/ \E x \in {"signal", "done", "failing"} : Goto(n, x) /\ (x = "signal" => threads # 0)
                            /\ (x = "done" => threads = 0)
    BY <1>11 DEF Write
  <2>3. QED
    BY <2>1, <2>2 DEF Flow, Advances
<1>12. QED
  BY <1>1, <1>2, <1>3, <1>4, <1>5, <1>6, <1>7, <1>8, <1>9, <1>10, <1>11

LEMMA GraphSteps ==
  ASSUME PcType, [Next]_vars
  PROVE  \/ \E n \in Node : Advances(n)
         \/ \E n, m \in Node :
               /\ pc[n] = "signal" /\ m \in left[n]
               /\ left' = [left EXCEPT ![n] = @ \ {m}]
               /\ waiting' = [waiting EXCEPT ![m] = @ - 1]
               /\ pc' = [pc EXCEPT ![m] = IF waiting[m] = 1 THEN "queued" ELSE @]
               /\ UNCHANGED threads
         \/ UNCHANGED <<threads, waiting, left, pc>>
<1>1. ASSUME NEW n \in Node, Start(n) \/ StartSerial(n) \/ EndTask(n) \/ Fail(n)
      PROVE  Advances(n)
  BY <1>1, TaskSteps
<1>2. ASSUME NEW b \in Block,
             LockRow(b) \/ Import(b) \/ Search(b) \/ LeaveEdge(b) \/ Commit(b)
      PROVE  \E n \in Node : Advances(n)
  <2>1. <<"search", b>> \in Node
    BY DEF Node
  <2>2. Advances(<<"search", b>>)
    BY <1>2, <2>1, TaskSteps
  <2>3. QED
    BY <2>1, <2>2
<1>3. ASSUME NEW b \in Block, TakeDecisions(b) \/ Write(b)
      PROVE  \E n \in Node : Advances(n)
  <2>1. <<"write", b>> \in Node
    BY DEF Node
  <2>2. Advances(<<"write", b>>)
    BY <1>3, <2>1, TaskSteps
  <2>3. QED
    BY <2>1, <2>2
<1>4. CASE UNCHANGED vars \/ Return
  BY <1>4 DEF vars, graphVars, Return
<1>5. ASSUME NEW n \in Node, Signal(n)
      PROVE  \E m \in Node :
               /\ pc[n] = "signal" /\ m \in left[n]
               /\ left' = [left EXCEPT ![n] = @ \ {m}]
               /\ waiting' = [waiting EXCEPT ![m] = @ - 1]
               /\ pc' = [pc EXCEPT ![m] = IF waiting[m] = 1 THEN "queued" ELSE @]
               /\ UNCHANGED threads
  BY <1>5 DEF Signal
<1>6. QED
  BY <1>1, <1>2, <1>3, <1>4, <1>5 DEF Next, Terminated

GraphType ==
    /\ PcType
    /\ threads \in 0 .. MaxThreads
    /\ waiting \in [Node -> 0 .. 2]
    /\ left \in [Node -> SUBSET Node]

(* Whoever signals a node finds it waiting. *)
LEMMA SignalsWaiting ==
  ASSUME GraphType, Countdown, NEW n \in Node, NEW m \in Node,
         pc[n] = "signal", m \in left[n]
  PROVE  /\ n \in Preds(m) /\ n \in Owing(m) /\ IsFiniteSet(Owing(m))
         /\ pc[m] = "waiting" /\ threads > 0
         /\ waiting[m] > 0 /\ waiting[m] = Cardinality(Owing(m))
<1>1. m \in Succs(n)
  BY DEF Countdown
<1>2. n \in Preds(m) /\ n \in Owing(m)
  BY <1>1 DEF Succs, Owing
<1>3. threads > 0 /\ pc[m] = "waiting"
  BY <1>2, Grid DEF Countdown, GraphType
<1>4. IsFiniteSet(Preds(m)) /\ Owing(m) \subseteq Preds(m)
  BY PredsSmall DEF Owing
<1>5. IsFiniteSet(Owing(m))
  BY <1>4, FS_Subset
<1>6. Cardinality(Owing(m)) # 0
  BY <1>2, <1>5, FS_EmptySet
<1>7. waiting[m] = Cardinality(Owing(m)) /\ waiting[m] \in 0 .. 2
  BY DEF Countdown, GraphType
<1>8. QED
  BY <1>2, <1>3, <1>5, <1>6, <1>7

(* Every task moves along its control points, and a node that ran stays so. *)
LEMMA Moves ==
  ASSUME GraphType, Countdown, [Next]_vars
  PROVE  /\ PcType'
         /\ \A n \in Node : pc'[n] = pc[n] \/ Flow(pc[n], pc'[n])
<1>1. CASE \E n \in Node : Advances(n)
  <2>1. PICK n \in Node : Advances(n)
    BY <1>1
  <2>2. CASE UNCHANGED pc
    BY <2>2 DEF GraphType, PcType
  <2>3. CASE \E x : Goto(n, x) /\ Flow(pc[n], x)
    BY <2>3, OneMoves DEF GraphType
  <2>4. QED
    BY <2>1, <2>2, <2>3 DEF Advances
<1>2. ASSUME NEW n \in Node, NEW m \in Node, pc[n] = "signal", m \in left[n],
             pc' = [pc EXCEPT ![m] = IF waiting[m] = 1 THEN "queued" ELSE @]
      PROVE  /\ PcType' /\ \A q \in Node : pc'[q] = pc[q] \/ Flow(pc[q], pc'[q])
  <2>1. pc[m] = "waiting"
    BY <1>2, SignalsWaiting
  <2>2. CASE waiting[m] = 1
    <3>1. Goto(m, "queued")
      BY <1>2, <2>2 DEF Goto
    <3>2. Flow(pc[m], "queued")
      BY <2>1 DEF Flow
    <3>3. QED
      BY <3>1, <3>2, OneMoves DEF GraphType
  <2>3. CASE waiting[m] # 1
    BY <1>2, <2>3 DEF GraphType, PcType
  <2>4. QED
    BY <2>2, <2>3
<1>3. CASE UNCHANGED pc
  BY <1>3 DEF GraphType, PcType
<1>4. QED
  BY <1>1, <1>2, <1>3, GraphSteps DEF GraphType

LEMMA RanStays ==
  ASSUME GraphType, Countdown, [Next]_vars, NEW n \in Node
  PROVE  /\ Ran(n) => Ran(n)'
         /\ pc[n] \in Gone => pc'[n] \in Gone
         /\ pc[n] = "done" => pc'[n] = "done"
  BY Moves DEF Ran, Flow, Gone

(* A node that is no longer waiting has only predecessors that ran. *)
LEMMA PredecessorsRan ==
  ASSUME GraphType, Countdown, NEW n \in Node, pc[n] # "waiting", NEW p \in Preds(n)
  PROVE  Ran(p)
<1>1. p \in Node /\ Before(p, n) /\ n \in Succs(p)
  BY PredsBefore
<1>2. CASE threads = 0
  BY <1>1, <1>2 DEF Countdown, Ran
<1>3. CASE threads # 0
  <2>1. Owing(n) = {}
    BY <1>3, Grid DEF Countdown, GraphType
  <2>2. n \notin left[p]
    BY <2>1 DEF Owing
  <2>3. left[p] # Succs(p)
    BY <1>1, <2>2
  <2>4. QED
    BY <1>1, <2>3 DEF Countdown
<1>4. QED
  BY <1>2, <1>3

LEMMA GraphInit ==
  ASSUME Init
  PROVE  GraphType /\ Countdown
<1>1. ASSUME NEW n \in Node PROVE Owing(n) = Preds(n)
  <2>1. \A p \in Preds(n) : p \in Node /\ n \in Succs(p)
    BY PredsBefore
  <2>2. QED
    BY <2>1 DEF Init, Owing
<1>2. PcType
  BY DEF Init, PcType
<1>3. GraphType
  BY <1>2, PredsSmall DEF Init, GraphType, Succs
<1>4. \A n \in Node : waiting[n] = Cardinality(Owing(n))
  BY <1>1 DEF Init
<1>5. \A n \in Node : pc[n] # "waiting" => threads > 0 /\ Preds(n) = {}
  BY DEF Init
<1>6. \A n \in Node : pc[n] # "signal" /\ left[n] = Succs(n)
  BY DEF Init
<1>7. threads \in Nat
  BY <1>3, Grid DEF GraphType
<1>8. threads = 0 => \A n \in Node : pc[n] = "waiting"
  BY <1>5, <1>7
<1>9. \A n \in Node : /\ threads > 0 /\ pc[n] = "waiting" => Preds(n) # {}
                     /\ pc[n] # "done"
  BY DEF Init
<1>10. QED
  BY <1>1, <1>3, <1>4, <1>5, <1>6, <1>8, <1>9 DEF Countdown

LEMMA GraphStep ==
  ASSUME GraphType, Countdown, [Next]_vars
  PROVE  GraphType' /\ Countdown'
<1>1. PcType' /\ \A n \in Node : pc'[n] = pc[n] \/ Flow(pc[n], pc'[n])
  BY Moves
<1>2. \A n \in Node : (Ran(n) => Ran(n)') /\ (pc[n] = "done" => pc'[n] = "done")
  BY RanStays
<1>3. CASE \E n \in Node : Advances(n)
  <2>1. PICK n \in Node : Advances(n)
    BY <1>3
  <2>2. UNCHANGED <<threads, waiting, left>>
    BY <2>1 DEF Advances
  <2>3. \A m \in Node : Owing(m)' = Owing(m)
    BY <2>2 DEF Owing
  <2>4. \A m \in Node : m # n => pc'[m] = pc[m]
    BY <2>1, OneMoves DEF Advances, GraphType
  <2>5. GraphType'
    BY <1>1, <2>2 DEF GraphType
  <2>6. \A m \in Node : left'[m] \subseteq Succs(m) /\ (left'[m] # Succs(m) => Ran(m)')
    BY <1>2, <2>2 DEF Countdown
  <2>7. \A m \in Node : waiting'[m] = Cardinality(Owing(m)')
    BY <2>2, <2>3 DEF Countdown
  <2>8. ASSUME NEW m \in Node, threads > 0, pc'[m] # "waiting" PROVE Owing(m)' = {}
    <3>1. pc[m] # "waiting"
      BY <2>1, <2>4, <2>8 DEF Advances
    <3>2. QED
      BY <2>3, <2>8, <3>1 DEF Countdown
  <2>9. ASSUME threads = 0, NEW m \in Node PROVE pc'[m] \notin {"queued", "signal"}
    <3>1. pc[m] \notin {"queued", "signal"}
      BY <2>9 DEF Countdown
    <3>2. CASE m = n
      <4>1. UNCHANGED pc \/ \E x : pc'[n] = x /\ x # "queued" /\ x # "signal"
        BY <2>1, <2>9, OneMoves DEF Advances, GraphType
      <4>2. QED
        BY <3>1, <3>2, <4>1
    <3>3. QED
      BY <2>4, <3>1, <3>2
  <2>10. ASSUME threads = 0, NEW m \in Node, pc'[m] # "waiting", NEW q \in Node, Before(q, m)
         PROVE  pc'[q] = "done"
    <3>1. CASE pc[m] # "waiting"
      BY <1>2, <2>10, <3>1 DEF Countdown
    <3>2. CASE pc[m] = "waiting"
      BY <1>2, <2>1, <2>4, <2>10, <3>2 DEF Advances
    <3>3. QED
      BY <3>1, <3>2
  <2>11. ASSUME NEW m \in Node, threads > 0, pc'[m] = "waiting" PROVE Owing(m)' # {}
    <3>1. pc[m] = "waiting"
      BY <1>1, <2>11 DEF Flow
    <3>2. QED
      BY <2>3, <2>11, <3>1 DEF Countdown
  <2>12. ASSUME NEW m \in Node, threads > 0, pc'[m] = "done" PROVE left'[m] = {}
    <3>1. CASE pc[m] = "done"
      BY <2>2, <2>12, <3>1 DEF Countdown
    <3>2. CASE pc[m] # "done"
      <4>1. m = n /\ ~UNCHANGED pc
        BY <2>4, <2>12, <3>2
      <4>2. left[n] = {}
        BY <2>1, <2>12, <4>1, OneMoves, Grid DEF Advances, GraphType
      <4>3. QED
        BY <2>2, <4>1, <4>2
    <3>3. QED
      BY <3>1, <3>2
  <2>13. QED
    BY <2>2, <2>5, <2>6, <2>7, <2>8, <2>9, <2>10, <2>11, <2>12 DEF Countdown
<1>4. ASSUME NEW n \in Node, NEW m \in Node,
             pc[n] = "signal", m \in left[n],
             left' = [left EXCEPT ![n] = @ \ {m}],
             waiting' = [waiting EXCEPT ![m] = @ - 1],
             pc' = [pc EXCEPT ![m] = IF waiting[m] = 1 THEN "queued" ELSE @],
             UNCHANGED threads
      PROVE  GraphType' /\ Countdown'
  <2>1. /\ n \in Preds(m) /\ n \in Owing(m) /\ IsFiniteSet(Owing(m))
        /\ pc[m] = "waiting" /\ threads > 0
        /\ waiting[m] > 0 /\ waiting[m] = Cardinality(Owing(m))
    BY <1>4, SignalsWaiting
  <2>2. waiting[m] \in 0 .. 2 /\ threads \in 0 .. MaxThreads
    BY DEF GraphType
  <2>3. \A q \in Node : left'[q] = IF q = n THEN left[n] \ {m} ELSE left[q]
    BY <1>4 DEF GraphType
  <2>4. \A q \in Node : waiting'[q] = IF q = m THEN waiting[m] - 1 ELSE waiting[q]
    BY <1>4 DEF GraphType
  <2>5. GraphType'
    <3>1. waiting[m] - 1 \in 0 .. 2
      BY <2>1, <2>2
    <3>2. waiting' \in [Node -> 0 .. 2]
      BY <1>4, <3>1 DEF GraphType
    <3>3. left[n] \ {m} \in SUBSET Node
      BY DEF GraphType
    <3>4. left' \in [Node -> SUBSET Node]
      BY <1>4, <3>3 DEF GraphType
    <3>5. QED
      BY <1>1, <1>4, <3>2, <3>4 DEF GraphType
  <2>6. ASSUME NEW q \in Node
        PROVE  Owing(q)' = IF q = m THEN Owing(m) \ {n} ELSE Owing(q)
    <3>1. \A p \in Preds(q) : p \in Node
      BY PredsBefore
    <3>2. QED
      BY <2>3, <3>1 DEF Owing
  <2>7. ASSUME NEW q \in Node
        PROVE  left'[q] \subseteq Succs(q) /\ (left'[q] # Succs(q) => Ran(q)')
    <3>1. Ran(n)'
      BY <1>2, <1>4 DEF Ran
    <3>2. QED
      BY <1>2, <2>3, <3>1 DEF Countdown
  <2>8. ASSUME NEW q \in Node PROVE waiting'[q] = Cardinality(Owing(q)')
    <3>1. Cardinality(Owing(m) \ {n}) = Cardinality(Owing(m)) - 1
      BY <2>1, FS_RemoveElement
    <3>2. QED
      BY <2>1, <2>4, <2>6, <3>1 DEF Countdown
  <2>9. ASSUME NEW q \in Node, pc'[q] # "waiting" PROVE Owing(q)' = {}
    <3>1. CASE q = m
      <4>1. waiting[m] = 1
        BY <1>4, <2>1, <2>9, <3>1 DEF GraphType, PcType
      <4>2. IsFiniteSet(Owing(m) \ {n}) /\ Cardinality(Owing(m) \ {n}) = 0
        <5>1. IsFiniteSet(Owing(m) \ {n})
              /\ Cardinality(Owing(m) \ {n}) = Cardinality(Owing(m)) - 1
          BY <2>1, FS_RemoveElement
        <5>2. Cardinality(Owing(m)) = 1
          BY <2>1, <4>1
        <5>3. QED
          BY <5>1, <5>2
      <4>3. Owing(m) \ {n} = {}
        BY <4>2, FS_EmptySet
      <4>4. QED
        BY <2>6, <3>1, <4>3
    <3>2. CASE q # m
      <4>1. pc[q] # "waiting"
        BY <1>4, <2>9, <3>2 DEF GraphType, PcType
      <4>2. Owing(q) = {}
        BY <2>1, <4>1 DEF Countdown
      <4>3. QED
        BY <2>6, <3>2, <4>2
    <3>3. QED
      BY <3>1, <3>2
  <2>10. ASSUME NEW q \in Node, pc'[q] = "waiting" PROVE Owing(q)' # {}
    <3>1. pc[q] = "waiting"
      BY <1>1, <2>10 DEF Flow
    <3>2. CASE q = m
      <4>1. waiting[m] # 1
        BY <1>4, <2>10, <3>2 DEF GraphType, PcType
      <4>2. IsFiniteSet(Owing(m) \ {n}) /\ Cardinality(Owing(m) \ {n}) = waiting[m] - 1
        BY <2>1, FS_RemoveElement
      <4>3. Cardinality(Owing(m) \ {n}) # 0
        BY <2>2, <4>1, <4>2
      <4>4. QED
        BY <2>6, <3>2, <4>3, FS_EmptySet
    <3>3. CASE q # m
      BY <2>1, <2>6, <3>1, <3>3 DEF Countdown
    <3>4. QED
      BY <3>2, <3>3
  <2>11. ASSUME NEW q \in Node, pc'[q] = "done" PROVE left'[q] = {}
    <3>1. pc[q] = "done"
      BY <1>4, <2>1, <2>11 DEF GraphType, PcType
    <3>2. left[q] = {}
      BY <2>1, <3>1 DEF Countdown
    <3>3. QED
      BY <1>4, <2>3, <3>1, <3>2
  <2>12. QED
    BY <1>4, <2>1, <2>2, <2>5, <2>7, <2>8, <2>9, <2>10, <2>11 DEF Countdown
<1>5. CASE UNCHANGED <<threads, waiting, left, pc>>
  <2>1. \A m \in Node : Owing(m)' = Owing(m)
    BY <1>5 DEF Owing
  <2>2. GraphType'
    BY <1>1, <1>5 DEF GraphType
  <2>3. QED
    BY <1>2, <1>5, <2>1, <2>2 DEF Countdown
<1>6. QED
  BY <1>3, <1>4, <1>5, GraphSteps DEF GraphType

-----------------------------------------------------------------------------
(* The rows. *)

RowType ==
    /\ facade \in [Row -> BOOLEAN] /\ cursor \in [Row -> 0 .. Cols]
    /\ imported \in [Row -> 0 .. Cols] /\ priced \in [Row -> 0 .. Cols]

(* The row at a search: everything to the left ran, the cursor is there,   *)
(* and no search of the row failed.                                        *)
LEMMA LeftRan ==
  ASSUME GraphType, Countdown, RowType, RowOrder,
         NEW r \in Row, NEW c \in Col, pc[S(r, c)] # "waiting", NEW d \in Col, d < c
  PROVE  Ran(S(r, d)) /\ d < cursor[r] /\ c <= cursor[r]
<1>1. c \in Nat /\ d \in Nat /\ cursor[r] \in Nat
  BY Grid DEF RowType
<1>2. c - 1 \in Col /\ S(r, c - 1) \in Preds(S(r, c)) /\ S(r, c) \in Node
  <2>1. c > 0
    BY <1>1
  <2>2. QED
    BY <2>1, SearchPreds, SearchNode
<1>3. Ran(S(r, c - 1))
  BY <1>2, PredecessorsRan
<1>4. c - 1 < cursor[r]
  <2>1. pc[S(r, c - 1)] \in Searched
    BY <1>3 DEF Ran, Searched
  <2>2. QED
    BY <1>2, <2>1 DEF RowOrder, FacadeAt
<1>5. CASE d = c - 1
  BY <1>1, <1>3, <1>4, <1>5
<1>6. CASE d < c - 1
  <2>1. d + 1 \in Col /\ d + 1 < cursor[r] /\ d + 1 > 0 /\ (d + 1) - 1 = d
    BY <1>1, <1>2, <1>4, <1>6, Grid DEF Col
  <2>2. pc[S(r, d + 1)] \in Searched \cup Gone
    BY <2>1 DEF RowOrder, FacadeAt
  <2>3. pc[S(r, d + 1)] # "waiting"
    BY <2>2 DEF Searched, Gone
  <2>4. S(r, d + 1) \in Node /\ S(r, d) \in Preds(S(r, d + 1))
    BY <2>1, SearchPreds, SearchNode
  <2>5. Ran(S(r, d))
    BY <2>3, <2>4, PredecessorsRan
  <2>6. QED
    BY <1>1, <1>4, <2>1, <2>5
<1>7. QED
  BY <1>1, <1>5, <1>6

LEMMA AtCursor ==
  ASSUME GraphType, Countdown, RowType, RowOrder,
         NEW r \in Row, NEW c \in Col, pc[S(r, c)] \in {"lock", "import", "search"}
  PROVE  /\ cursor[r] = c
         /\ \A d \in Col : pc[S(r, d)] \notin Gone
<1>1. c \in Nat /\ cursor[r] \in Nat
  BY Grid DEF RowType
<1>2. ~(c < cursor[r])
  BY DEF RowOrder, FacadeAt, Searched, Gone
<1>3. c <= cursor[r]
  <2>1. CASE c = 0
    BY <1>1, <2>1
  <2>2. CASE c > 0
    <3>1. c - 1 \in Col /\ c - 1 < c
      BY <1>1, <2>2, SearchPreds
    <3>2. QED
      BY <3>1, LeftRan
  <2>3. QED
    BY <1>1, <2>1, <2>2
<1>4. ASSUME NEW d \in Col, pc[S(r, d)] \in Gone PROVE FALSE
  <2>1. d \in Nat /\ pc[S(r, d)] # "waiting" /\ pc[S(r, c)] # "waiting" /\ ~Ran(S(r, d)) /\ d # c
    BY <1>4, Grid DEF Gone, Ran
  <2>2. d < c \/ c < d
    BY <1>1, <2>1
  <2>3. ~Ran(S(r, c))
    BY DEF Ran
  <2>4. QED
    BY <2>1, <2>2, <2>3, LeftRan
<1>5. QED
  BY <1>1, <1>2, <1>3, <1>4

(* What a search may read of the row above has run. *)
LEMMA AboveRan ==
  ASSUME GraphType, Countdown, RowType, RowOrder,
         NEW r \in Row, r > 0, NEW c \in Col, pc[S(r, c)] # "waiting",
         NEW d \in Col, d <= Least(c + 1, Cols - 1)
  PROVE  r - 1 \in Row /\ Ran(S(r - 1, d))
<1> DEFINE e == Least(c + 1, Cols - 1)
<1>1. r - 1 \in Row /\ e \in Col /\ S(r - 1, e) \in Preds(S(r, c)) /\ S(r, c) \in Node
  BY SearchPreds, SearchNode
<1> HIDE DEF e
<1>2. Ran(S(r - 1, e))
  BY <1>1, PredecessorsRan
<1>3. d \in Nat /\ e \in Nat /\ d <= e
  BY <1>1, Grid DEF e
<1>4. CASE d = e
  BY <1>1, <1>2, <1>4
<1>5. CASE d < e
  <2>1. pc[S(r - 1, e)] # "waiting"
    BY <1>2 DEF Ran
  <2>2. QED
    BY <1>1, <1>5, <2>1, LeftRan
<1>6. QED
  BY <1>3, <1>4, <1>5

LEMMA RowInit ==
  ASSUME Init
  PROVE  RowType /\ RowOrder
<1>1. RowType
  BY Grid DEF Init, RowType
<1>2. ASSUME NEW r \in Row, NEW c \in Col
      PROVE  pc[S(r, c)] \in {"waiting", "queued"}
  BY SearchNode DEF Init
<1>3. ASSUME NEW r \in Row PROVE FacadeAt(r) /\ ImportsAt(r)
  <2>1. facade[r] = FALSE /\ cursor[r] = 0 /\ imported[r] = 0 /\ priced[r] = 0
    BY DEF Init
  <2>2. \A c \in Col : c \in Nat
    BY Grid
  <2>3. QED
    BY <1>2, <2>1, <2>2, Grid DEF FacadeAt, ImportsAt, Searched, Gone, Least
<1>4. QED
  BY <1>1, <1>3 DEF RowOrder

(* A row whose counters stay, and whose searches only move on. *)
LEMMA RowKeeps ==
  ASSUME RowOrder, NEW r \in Row,
         cursor'[r] = cursor[r], imported'[r] = imported[r], priced'[r] = priced[r],
         \A c \in Col : /\ pc'[S(r, c)] \in Searched => pc[S(r, c)] \in Searched
                        /\ pc[S(r, c)] \in Searched \cup Gone => pc'[S(r, c)] \in Searched \cup Gone
                        /\ pc'[S(r, c)] = "search" => pc[S(r, c)] = "search"
                        /\ pc'[S(r, c)] \in {"import", "search"} => facade'[r],
         ~facade'[r] => ~facade[r] \/ cursor[r] = Cols
  PROVE  FacadeAt(r)' /\ ImportsAt(r)'
<1>1. FacadeAt(r) /\ ImportsAt(r)
  BY DEF RowOrder
<1>2. FacadeAt(r)'
  BY <1>1 DEF FacadeAt
<1>3. Cols # 0
  BY Grid
<1>4. ImportsAt(r)'
  BY <1>1, <1>3 DEF ImportsAt
<1>5. QED
  BY <1>2, <1>4

(* Steps that leave the facades alone. *)
LEMMA QuietRows ==
  ASSUME GraphType, Countdown, RowType, RowOrder, [Next]_vars,
         UNCHANGED <<facade, cursor, imported, priced>>,
         \A r \in Row, c \in Col : pc[S(r, c)] \in {"lock", "import", "search", "write"}
                                       => pc'[S(r, c)] = pc[S(r, c)]
  PROVE  RowType' /\ RowOrder'
<1>1. RowType'
  BY DEF RowType
<1>2. ASSUME NEW r \in Row PROVE FacadeAt(r)' /\ ImportsAt(r)'
  <2>1. ASSUME NEW c \in Col
        PROVE  /\ pc'[S(r, c)] \in Searched => pc[S(r, c)] \in Searched
               /\ pc[S(r, c)] \in Searched \cup Gone => pc'[S(r, c)] \in Searched \cup Gone
               /\ pc'[S(r, c)] \in {"import", "search"} => pc[S(r, c)] = pc'[S(r, c)]
    <3>1. pc'[S(r, c)] = pc[S(r, c)] \/ Flow(pc[S(r, c)], pc'[S(r, c)])
      BY Moves, SearchNode
    <3>2. QED
      BY <3>1 DEF Flow, Searched, Gone
  <2>2. \A c \in Col : pc[S(r, c)] \in {"import", "search"} => facade[r]
    BY DEF RowOrder, FacadeAt
  <2>3. QED
    BY <2>1, <2>2, RowKeeps
<1>3. QED
  BY <1>1, <1>2 DEF RowOrder

(* A step of the search at r, c leaves the other rows alone. *)
LEMMA OtherRows ==
  ASSUME GraphType, RowOrder, NEW r \in Row, NEW c \in Col, NEW x, Goto(S(r, c), x),
         NEW q \in Row, q # r, facade'[q] = facade[q], cursor'[q] = cursor[q],
         imported'[q] = imported[q], priced'[q] = priced[q]
  PROVE  FacadeAt(q)' /\ ImportsAt(q)'
<1>1. \A d \in Col : pc'[S(q, d)] = pc[S(q, d)]
  BY SameNode, SearchNode DEF GraphType, PcType, Goto
<1>2. \A d \in Col : pc[S(q, d)] \in {"import", "search"} => facade[q]
  BY DEF RowOrder, FacadeAt
<1>3. QED
  BY <1>1, <1>2, RowKeeps

LEMMA SearchMoves ==
  ASSUME GraphType, NEW r \in Row, NEW c \in Col, NEW x, Goto(S(r, c), x)
  PROVE  /\ pc'[S(r, c)] = x
         /\ \A d \in Col : d # c => pc'[S(r, d)] = pc[S(r, d)]
<1>1. S(r, c) \in Node /\ \A d \in Col : S(r, d) \in Node
  BY SearchNode
<1>2. \A d \in Col : d # c => S(r, d) # S(r, c)
  BY SameNode
<1>3. QED
  BY <1>1, <1>2 DEF GraphType, PcType, Goto

(* A step of a search that keeps the counters of its row. *)
LEMMA SearchKeeps ==
  ASSUME GraphType, Countdown, RowType, RowOrder, NEW r \in Row, NEW c \in Col, NEW x,
         Goto(S(r, c), x), UNCHANGED <<cursor, imported, priced>>,
         facade' \in [Row -> BOOLEAN],
         \A q \in Row : q # r => facade'[q] = facade[q],
         \/ pc[S(r, c)] = "lock" /\ x = "import" /\ facade'[r]
         \/ pc[S(r, c)] \in {"lock", "import", "search", "edge"} /\ x = "failing"
            /\ facade'[r] = facade[r]
         \/ pc[S(r, c)] = "edge" /\ x = "commit" /\ facade'[r] = facade[r]
         \/ pc[S(r, c)] = "commit" /\ x \in {"signal", "done"} /\ (facade'[r] <=> c + 1 < Cols)
  PROVE  RowType' /\ RowOrder'
<1>1. RowType'
  BY DEF RowType
<1>2. \A q \in Row : q # r => FacadeAt(q)' /\ ImportsAt(q)'
  BY OtherRows
<1>3. pc'[S(r, c)] = x /\ \A d \in Col : d # c => pc'[S(r, d)] = pc[S(r, d)]
  BY SearchMoves
<1>4. FacadeAt(r)
  BY DEF RowOrder
<1>5. \A d \in Col : /\ pc'[S(r, d)] \in Searched => pc[S(r, d)] \in Searched
                     /\ pc[S(r, d)] \in Searched \cup Gone => pc'[S(r, d)] \in Searched \cup Gone
                     /\ pc'[S(r, d)] = "search" => pc[S(r, d)] = "search"
  BY <1>3 DEF Searched, Gone
<1>6. pc[S(r, c)] = "commit" => cursor[r] > c /\ cursor[r] <= Cols
  BY <1>4, Grid DEF FacadeAt, Searched, RowType
<1>7. ~facade'[r] => ~facade[r] \/ cursor[r] = Cols
  BY <1>6, Grid DEF RowType
<1>8. ASSUME NEW d \in Col, pc'[S(r, d)] \in {"import", "search"}
      PROVE  facade'[r]
  <2>1. CASE d = c
    BY <1>3, <1>8, <2>1
  <2>2. CASE d # c
    <3>1. facade[r] /\ pc[S(r, d)] \in {"import", "search"}
      BY <1>3, <1>4, <1>8, <2>2 DEF FacadeAt
    <3>2. cursor[r] = d
      BY <3>1, AtCursor
    <3>3. c \in Nat /\ d \in Nat /\ d < Cols
      BY Grid
    <3>4. ASSUME pc[S(r, c)] = "commit" PROVE c + 1 < Cols
      <4>1. d > c
        BY <1>6, <3>2, <3>4
      <4>2. QED
        BY <3>3, <4>1, Grid
    <3>5. QED
      BY <3>1, <3>4
  <2>3. QED
    BY <2>1, <2>2
<1>9. FacadeAt(r)' /\ ImportsAt(r)'
  BY <1>5, <1>7, <1>8, RowKeeps
<1>10. QED
  BY <1>1, <1>2, <1>9 DEF RowOrder

LEMMA BlockSearch ==
  ASSUME NEW b \in Block
  PROVE  /\ b[1] \in Row /\ b[2] \in Col /\ <<b[1], b[2]>> = b
         /\ <<"search", b>> = S(b[1], b[2])
  BY BlockPlace DEF S

LEMMA RowImport ==
  ASSUME GraphType, Countdown, RowType, RowOrder, NEW b \in Block, Import(b)
  PROVE  RowType' /\ RowOrder'
<1> DEFINE r == b[1]
           c == b[2]
<1>1. r \in Row /\ c \in Col /\ <<"search", b>> = S(r, c)
  BY BlockSearch
<1>2. pc[S(r, c)] = "import" /\ UNCHANGED <<facade, cursor>>
  BY <1>1 DEF Import
<1>3. cursor[r] = c /\ \A d \in Col : pc[S(r, d)] # "search"
  <2>1. cursor[r] = c
    BY <1>1, <1>2, AtCursor
  <2>2. \A d \in Col : pc[S(r, d)] = "search" => cursor[r] = d
    BY <1>1, AtCursor
  <2>3. QED
    BY <1>2, <2>1, <2>2
<1>4. FacadeAt(r) /\ ImportsAt(r) /\ facade[r]
  BY <1>1, <1>2 DEF RowOrder, FacadeAt
<1>5. /\ r \in Nat /\ c \in Nat /\ c < Cols /\ imported[r] \in Nat /\ imported[r] <= Cols
      /\ Cols \in Nat
  BY <1>1, Grid DEF RowType
<1>6. r > 0 => imported[r] <= Least(c + 2, Cols) /\ (c > 0 => imported[r] >= Least(c + 1, Cols))
  BY <1>3, <1>4 DEF ImportsAt
<1>7. priced[r] = IF imported[r] = 0 THEN 0 ELSE imported[r] - 1
  BY <1>4 DEF ImportsAt
<1> HIDE DEF r, c
<1>8. CASE /\ r > 0 /\ imported[r] <= Least(c + 1, Cols - 1)
           /\ imported' = [imported EXCEPT ![r] = @ + 1]
           /\ priced' = [priced EXCEPT ![r] = IF imported[r] = c + 1 THEN c + 1 ELSE @]
           /\ UNCHANGED pc
  <2>1. imported'[r] = imported[r] + 1
    BY <1>1, <1>8 DEF RowType
  <2>2. imported[r] + 1 <= Least(c + 2, Cols) /\ imported[r] + 1 \in 0 .. Cols
        /\ imported[r] <= Cols - 1 /\ (c > 0 => imported[r] + 1 >= Least(c + 1, Cols))
    BY <1>5, <1>6, <1>8 DEF Least
  <2>3. priced'[r] = imported[r]
    <3>1. priced'[r] = IF imported[r] = c + 1 THEN c + 1 ELSE priced[r]
      BY <1>1, <1>8 DEF RowType
    <3>2. imported[r] # c + 1 => imported[r] = 0
      BY <1>5, <1>6, <1>8 DEF Least
    <3>3. QED
      BY <1>7, <3>1, <3>2
  <2>4. RowType'
    <3>1. imported' \in [Row -> 0 .. Cols]
      BY <1>8, <2>2 DEF RowType
    <3>2. imported[r] \in 0 .. Cols
      BY <1>5
    <3>3. priced' \in [Row -> 0 .. Cols]
      BY <1>1, <1>8, <2>3, <3>2 DEF RowType
    <3>4. QED
      BY <1>2, <3>1, <3>3 DEF RowType
  <2>5. FacadeAt(r)'
    BY <1>2, <1>4, <1>8 DEF FacadeAt
  <2>6. ImportsAt(r)'
    BY <1>2, <1>3, <1>4, <1>5, <1>8, <2>1, <2>2, <2>3 DEF ImportsAt
  <2>7. ASSUME NEW q \in Row, q # r PROVE FacadeAt(q)' /\ ImportsAt(q)'
    <3>1. imported'[q] = imported[q] /\ priced'[q] = priced[q]
      BY <1>8, <2>7 DEF RowType
    <3>2. \A d \in Col : pc[S(q, d)] \in {"import", "search"} => facade[q]
      BY DEF RowOrder, FacadeAt
    <3>3. QED
      BY <1>2, <1>8, <3>1, <3>2, RowKeeps
  <2>8. QED
    BY <2>4, <2>5, <2>6, <2>7 DEF RowOrder
<1>9. CASE Goto(S(r, c), "failing") /\ UNCHANGED <<imported, priced>>
  BY <1>1, <1>2, <1>9, SearchKeeps DEF RowType
<1>10. CASE /\ ~(r > 0 /\ imported[r] <= Least(c + 1, Cols - 1))
            /\ Goto(S(r, c), "search") /\ UNCHANGED <<imported, priced>>
  <2>1. pc'[S(r, c)] = "search" /\ \A d \in Col : d # c => pc'[S(r, d)] = pc[S(r, d)]
    BY <1>1, <1>10, SearchMoves
  <2>2. r > 0 => imported[r] = Least(c + 2, Cols)
    BY <1>5, <1>6, <1>10 DEF Least
  <2>3. FacadeAt(r)'
    BY <1>2, <1>4, <1>10, <2>1 DEF FacadeAt, Searched, Gone
  <2>4. ImportsAt(r)'
    BY <1>2, <1>3, <1>4, <1>10, <2>1, <2>2 DEF ImportsAt
  <2>5. \A q \in Row : q # r => FacadeAt(q)' /\ ImportsAt(q)'
    BY <1>1, <1>2, <1>10, OtherRows
  <2>6. RowType'
    BY <1>2, <1>10 DEF RowType
  <2>7. QED
    BY <2>3, <2>4, <2>5, <2>6 DEF RowOrder
<1>11. QED
  <2>1. Import(b)
    OBVIOUS
  <2>2. QED
    BY <1>1, <1>8, <1>9, <1>10, <2>1 DEF Import, r, c

LEMMA RowSearch ==
  ASSUME GraphType, Countdown, RowType, RowOrder, NEW b \in Block, Search(b)
  PROVE  RowType' /\ RowOrder'
<1> DEFINE r == b[1]
           c == b[2]
<1>1. r \in Row /\ c \in Col /\ <<"search", b>> = S(r, c)
  BY BlockSearch
<1>2. pc[S(r, c)] = "search" /\ UNCHANGED <<facade, imported, priced>>
  BY <1>1 DEF Search
<1>3. cursor[r] = c /\ \A d \in Col : pc[S(r, d)] = "search" => d = c
  <2>1. cursor[r] = c
    BY <1>1, <1>2, AtCursor
  <2>2. \A d \in Col : pc[S(r, d)] = "search" => cursor[r] = d
    BY <1>1, AtCursor
  <2>3. QED
    BY <2>1, <2>2
<1>4. FacadeAt(r) /\ ImportsAt(r) /\ facade[r]
  BY <1>1, <1>2 DEF RowOrder, FacadeAt
<1>5. r \in Nat /\ c \in Nat /\ c < Cols /\ Cols \in Nat /\ \A d \in Col : d \in Nat
  BY <1>1, Grid
<1>6. r > 0 => imported[r] = Least(c + 2, Cols)
  BY <1>1, <1>2, <1>4 DEF ImportsAt
<1>7. priced[r] = IF imported[r] = 0 THEN 0 ELSE imported[r] - 1
  BY <1>4 DEF ImportsAt
<1> HIDE DEF r, c
<1>8. CASE /\ cursor' = [cursor EXCEPT ![r] = @ + 1]
           /\ \E x \in {"edge", "commit"} : Goto(S(r, c), x)
  <2>1. cursor'[r] = c + 1 /\ \A q \in Row : q # r => cursor'[q] = cursor[q]
    BY <1>1, <1>3, <1>8 DEF RowType
  <2>2. /\ pc'[S(r, c)] \in {"edge", "commit"}
        /\ \A d \in Col : d # c => pc'[S(r, d)] = pc[S(r, d)]
    BY <1>1, <1>8, SearchMoves
  <2>3. \A d \in Col : d < c + 1 <=> d < c \/ d = c
    BY <1>5
  <2>4. FacadeAt(r)'
    BY <1>2, <1>3, <1>4, <2>1, <2>2, <2>3 DEF FacadeAt, Searched, Gone
  <2>5. /\ Least(c + 2, Cols) <= Least((c + 1) + 2, Cols)
        /\ Least(c + 2, Cols) >= Least((c + 1) + 1, Cols)
    BY <1>5 DEF Least
  <2>6. \A d \in Col : pc'[S(r, d)] # "search"
    BY <1>3, <2>2
  <2>7. ImportsAt(r)'
    BY <1>2, <1>4, <1>5, <1>6, <1>7, <2>1, <2>5, <2>6 DEF ImportsAt
  <2>8. \A q \in Row : q # r => FacadeAt(q)' /\ ImportsAt(q)'
    BY <1>1, <1>2, <1>8, <2>1, OtherRows
  <2>9. RowType'
    <3>1. c + 1 \in 0 .. Cols
      BY <1>5
    <3>2. QED
      BY <1>1, <1>2, <1>3, <1>8, <3>1 DEF RowType
  <2>10. QED
    BY <2>4, <2>7, <2>8, <2>9 DEF RowOrder
<1>9. CASE Goto(S(r, c), "failing") /\ UNCHANGED cursor
  BY <1>1, <1>2, <1>9, SearchKeeps DEF RowType
<1>10. QED
  <2>1. Search(b)
    OBVIOUS
  <2>2. QED
    BY <1>1, <1>8, <1>9, <2>1 DEF Search, r, c

LEMMA RowLock ==
  ASSUME GraphType, Countdown, RowType, RowOrder, NEW b \in Block, LockRow(b)
  PROVE  /\ RowType' /\ RowOrder'
         /\ UNCHANGED <<cursor, imported, priced>>
         /\ cursor[b[1]] < Cols
<1> DEFINE r == b[1]
           c == b[2]
<1>1. r \in Row /\ c \in Col /\ <<"search", b>> = S(r, c)
  BY BlockSearch
<1>2. pc[S(r, c)] = "lock"
  BY <1>1 DEF LockRow
<1>3. cursor[r] = c /\ c < Cols /\ c \in Nat
  BY <1>1, <1>2, AtCursor, Grid
<1>4. FacadeAt(r) /\ ImportsAt(r)
  BY <1>1 DEF RowOrder
<1>5. ~facade[r] => cursor[r] = 0 /\ imported[r] = 0 /\ priced[r] = 0
  BY <1>3, <1>4 DEF FacadeAt, ImportsAt
<1> HIDE DEF r, c
<1>6. CASE /\ UNCHANGED <<facade, cursor, imported, priced>>
           /\ facade[r] /\ Goto(S(r, c), "import")
  BY <1>1, <1>2, <1>3, <1>6, SearchKeeps DEF RowType, r
<1>7. CASE UNCHANGED <<facade, cursor, imported, priced>> /\ Goto(S(r, c), "failing")
  BY <1>1, <1>2, <1>3, <1>7, SearchKeeps DEF RowType, r
<1>8. CASE /\ ~facade[r]
           /\ facade' = [facade EXCEPT ![r] = TRUE]
           /\ cursor' = [cursor EXCEPT ![r] = 0]
           /\ imported' = [imported EXCEPT ![r] = 0]
           /\ priced' = [priced EXCEPT ![r] = 0]
           /\ Goto(S(r, c), "import")
  <2>1. UNCHANGED <<cursor, imported, priced>>
    BY <1>1, <1>5, <1>8 DEF RowType
  <2>2. /\ facade' \in [Row -> BOOLEAN] /\ facade'[r]
        /\ \A q \in Row : q # r => facade'[q] = facade[q]
    BY <1>1, <1>8 DEF RowType
  <2>3. QED
    BY <1>1, <1>2, <1>3, <1>8, <2>1, <2>2, SearchKeeps DEF r
<1>9. QED
  <2>1. LockRow(b)
    OBVIOUS
  <2>2. QED
    BY <1>1, <1>6, <1>7, <1>8, <2>1 DEF LockRow, r, c

(* A step of a task that is not at a search. *)
AwayFromSearch(n) == pc[n] \notin {"lock", "import", "search", "write"} \/ n[1] = "write"

LEMMA QuietTask ==
  ASSUME GraphType, Countdown, RowType, RowOrder, [Next]_vars,
         UNCHANGED <<facade, cursor, imported, priced>>,
         NEW n \in Node, AwayFromSearch(n), \A m \in Node : m # n => pc'[m] = pc[m]
  PROVE  RowType' /\ RowOrder'
<1>1. ASSUME NEW r \in Row, NEW c \in Col, pc[S(r, c)] \in {"lock", "import", "search", "write"}
      PROVE  pc'[S(r, c)] = pc[S(r, c)]
  <2>1. S(r, c) \in Node /\ S(r, c)[1] # "write"
    BY SearchNode
  <2>2. S(r, c) # n
    BY <1>1, <2>1 DEF AwayFromSearch
  <2>3. QED
    BY <2>1, <2>2
<1>2. QED
  BY <1>1, QuietRows

LEMMA RowStep ==
  ASSUME GraphType, Countdown, RowType, RowOrder, [Next]_vars
  PROVE  RowType' /\ RowOrder'
<1>1. ASSUME NEW n \in Node, NEW x, Goto(n, x), AwayFromSearch(n),
             UNCHANGED <<facade, cursor, imported, priced>>
      PROVE  RowType' /\ RowOrder'
  <2>1. \A m \in Node : m # n => pc'[m] = pc[m]
    BY <1>1 DEF Goto, GraphType, PcType
  <2>2. QED
    BY <1>1, <2>1, QuietTask
<1>2. ASSUME NEW n \in Node, Start(n) \/ StartSerial(n) \/ EndTask(n) \/ Fail(n)
      PROVE  RowType' /\ RowOrder'
  <2>1. UNCHANGED <<facade, cursor, imported, priced>>
    BY <1>2 DEF Start, StartSerial, EndTask, Fail, rowVars
  <2>2. AwayFromSearch(n)
    BY <1>2 DEF Start, StartSerial, EndTask, Fail, AwayFromSearch
  <2>3. \E x : Goto(n, x)
    BY <1>2 DEF Start, StartSerial, EndTask, Fail
  <2>4. QED
    BY <1>1, <2>1, <2>2, <2>3
<1>3. ASSUME NEW b \in Block, TakeDecisions(b) \/ Write(b)
      PROVE  RowType' /\ RowOrder'
  <2>1. UNCHANGED <<facade, cursor, imported, priced>>
    BY <1>3 DEF TakeDecisions, Write, rowVars
  <2>2. <<"write", b>> \in Node /\ AwayFromSearch(<<"write", b>>)
    BY DEF Node, AwayFromSearch
  <2>3. \E x : Goto(<<"write", b>>, x)
    BY <1>3 DEF TakeDecisions, Write
  <2>4. QED
    BY <1>1, <2>1, <2>2, <2>3
<1>4. ASSUME NEW n \in Node, Signal(n)
      PROVE  RowType' /\ RowOrder'
  <2>1. PICK m \in Node :
           /\ pc[n] = "signal" /\ m \in left[n]
           /\ pc' = [pc EXCEPT ![m] = IF waiting[m] = 1 THEN "queued" ELSE @]
           /\ UNCHANGED <<facade, cursor, imported, priced>>
    BY <1>4 DEF Signal, rowVars
  <2>2. AwayFromSearch(m)
    BY <2>1, SignalsWaiting DEF AwayFromSearch
  <2>3. \A q \in Node : q # m => pc'[q] = pc[q]
    BY <2>1 DEF GraphType, PcType
  <2>4. QED
    BY <2>1, <2>2, <2>3, QuietTask
<1>5. ASSUME NEW b \in Block, LeaveEdge(b) \/ Commit(b)
      PROVE  RowType' /\ RowOrder'
  <2>1. b[1] \in Row /\ b[2] \in Col /\ <<"search", b>> = S(b[1], b[2])
    BY BlockSearch
  <2>2. CASE LeaveEdge(b)
    <3>1. /\ pc[S(b[1], b[2])] = "edge"
          /\ UNCHANGED <<facade, cursor, imported, priced>>
          /\ \E x \in {"commit", "failing"} : Goto(S(b[1], b[2]), x)
      BY <2>1, <2>2 DEF LeaveEdge
    <3>2. QED
      BY <2>1, <3>1, SearchKeeps DEF RowType
  <2>3. CASE Commit(b)
    <3>1. /\ pc[S(b[1], b[2])] = "commit"
          /\ UNCHANGED <<cursor, imported, priced>>
          /\ facade' = [facade EXCEPT ![b[1]] = (b[2] + 1 < Cols)]
          /\ \E x \in {"signal", "done"} : Goto(S(b[1], b[2]), x)
      BY <2>1, <2>3 DEF Commit
    <3>2. /\ facade' \in [Row -> BOOLEAN]
          /\ \A q \in Row : q # b[1] => facade'[q] = facade[q]
          /\ facade'[b[1]] <=> b[2] + 1 < Cols
      <4> DEFINE more == b[2] + 1 < Cols
      <4>1. facade' = [facade EXCEPT ![b[1]] = more] /\ more \in BOOLEAN
        BY <3>1
      <4> HIDE DEF more
      <4>2. facade' \in [Row -> BOOLEAN] /\ \A q \in Row : q # b[1] => facade'[q] = facade[q]
        BY <2>1, <4>1 DEF RowType
      <4>3. facade'[b[1]] = more
        BY <2>1, <4>1, Zenon DEF RowType
      <4>4. QED
        BY <4>2, <4>3 DEF more
    <3>3. QED
      BY <2>1, <3>1, <3>2, SearchKeeps
  <2>4. QED
    BY <1>5, <2>2, <2>3
<1>6. CASE UNCHANGED vars \/ Return
  <2>1. UNCHANGED <<facade, cursor, imported, priced, pc>>
    BY <1>6 DEF vars, rowVars, Return
  <2>2. QED
    BY <2>1, QuietRows
<1>7. QED
  BY <1>2, <1>3, <1>4, <1>5, <1>6, RowImport, RowSearch, RowLock DEF Next, Terminated

-----------------------------------------------------------------------------
(* The edges between rows. *)

EdgeType == edges \in [Block -> BOOLEAN]

Leaving == {"commit", "signal", "done"}

LEMMA EdgeKeeps ==
  ASSUME GraphType, Countdown, [Next]_vars, EdgeOrder, NEW r \in Row, NEW c \in Col,
         r + 1 \in Row /\ pc'[S(r, c)] \in Leaving => pc[S(r, c)] \in Leaving,
         r + 1 \in Row /\ c >= imported'[r + 1] => c >= imported[r + 1],
         r + 1 \in Row /\ ~edges'[<<r, c>>] => ~edges[<<r, c>>]
  PROVE  EdgeAt(r, c)'
<1>1. EdgeAt(r, c)
  BY DEF EdgeOrder
<1>2. ASSUME NEW d \in Col, r + 1 \in Row, pc[S(r + 1, d)] \in Gone
      PROVE  pc'[S(r + 1, d)] \in Gone
  BY <1>2, RanStays, SearchNode
<1>3. QED
  BY <1>1, <1>2 DEF EdgeAt, Leaving

(* Steps that leave the edges alone and end no search. *)
LEMMA QuietEdges ==
  ASSUME GraphType, Countdown, [Next]_vars, EdgeType, EdgeOrder, UNCHANGED <<edges, imported>>,
         \A r \in Row, c \in Col : pc[S(r, c)] \in {"search", "edge", "write"} /\ r + 1 \in Row
                                       => pc'[S(r, c)] \notin Leaving
  PROVE  EdgeType' /\ EdgeOrder'
<1>1. ASSUME NEW r \in Row, NEW c \in Col PROVE EdgeAt(r, c)'
  <2>1. r + 1 \in Row /\ pc'[S(r, c)] \in Leaving => pc[S(r, c)] \in Leaving
    <3>1. pc'[S(r, c)] = pc[S(r, c)] \/ Flow(pc[S(r, c)], pc'[S(r, c)])
      BY Moves, SearchNode
    <3>2. QED
      BY <3>1 DEF Flow, Leaving
  <2>2. QED
    BY <2>1, EdgeKeeps
<1>2. QED
  BY <1>1 DEF EdgeType, EdgeOrder

LEMMA EdgeInit ==
  ASSUME Init
  PROVE  EdgeType /\ EdgeOrder
<1>1. \A r \in Row, c \in Col : pc[S(r, c)] \in {"waiting", "queued"}
  BY SearchNode DEF Init
<1>2. QED
  BY <1>1 DEF Init, EdgeType, EdgeOrder, EdgeAt

LEMMA EdgeLeave ==
  ASSUME GraphType, Countdown, [Next]_vars, EdgeType, EdgeOrder, NEW b \in Block, LeaveEdge(b)
  PROVE  EdgeType' /\ EdgeOrder'
<1> DEFINE r == b[1]
           c == b[2]
<1>1. r \in Row /\ c \in Col /\ <<"search", b>> = S(r, c) /\ b = <<r, c>>
  BY BlockSearch
<1>2. \A q \in Row, d \in Col : <<q, d>> \in Block /\ (<<q, d>> = b <=> q = r /\ d = c)
  BY <1>1 DEF Block
<1> HIDE DEF r, c
<1>3. /\ UNCHANGED imported
      /\ \/ edges' = [edges EXCEPT ![b] = TRUE] /\ Goto(S(r, c), "commit")
         \/ edges' = edges /\ Goto(S(r, c), "failing")
  BY <1>1 DEF LeaveEdge
<1>4. EdgeType'
  BY <1>3 DEF EdgeType
<1>5. ASSUME NEW q \in Row, NEW d \in Col PROVE EdgeAt(q, d)'
  <2>1. CASE q = r /\ d = c /\ edges' = [edges EXCEPT ![b] = TRUE]
    <3>1. edges'[<<q, d>>]
      BY <1>2, <2>1 DEF EdgeType
    <3>2. QED
      BY <3>1 DEF EdgeAt
  <2>2. CASE q = r /\ d = c /\ Goto(S(r, c), "failing")
    <3>1. pc'[S(q, d)] = "failing"
      BY <1>1, <2>2, SearchNode DEF Goto, GraphType, PcType
    <3>2. QED
      BY <3>1 DEF EdgeAt
  <2>3. CASE ~(q = r /\ d = c)
    <3>1. S(q, d) # S(r, c) /\ S(q, d) \in Node
      <4>1. S(q, d) # S(r, c)
        BY <1>1, <2>3, SameNode
      <4>2. QED
        BY <4>1, SearchNode
    <3>2. pc'[S(q, d)] = pc[S(q, d)]
      BY <1>3, <3>1 DEF Goto, GraphType, PcType
    <3>3. edges'[<<q, d>>] = edges[<<q, d>>]
      BY <1>2, <1>3, <2>3 DEF EdgeType
    <3>4. QED
      BY <1>3, <3>2, <3>3, EdgeKeeps
  <2>4. QED
    BY <1>3, <2>1, <2>2, <2>3
<1>6. QED
  BY <1>4, <1>5 DEF EdgeOrder

LEMMA EdgeImport ==
  ASSUME GraphType, Countdown, RowType, RowOrder, [Next]_vars, EdgeType, EdgeOrder,
         NEW b \in Block, Import(b)
  PROVE  EdgeType' /\ EdgeOrder'
<1> DEFINE r == b[1]
           c == b[2]
           j == imported[r]
           edge == <<r - 1, j>>
<1>1. r \in Row /\ c \in Col /\ <<"search", b>> = S(r, c)
  BY BlockSearch
<1>2. /\ r \in Nat /\ c \in Nat /\ j \in Nat /\ c < Cols
      /\ \A q \in Row : q \in Nat /\ imported[q] \in Nat
  BY <1>1, Grid DEF RowType
<1>3. pc[S(r, c)] = "import"
  BY <1>1 DEF Import
<1> HIDE DEF r, c, j, edge
<1>4. ASSUME NEW q \in Row, NEW d \in Col,
             pc'[S(q, d)] \in Leaving => pc[S(q, d)] \in Leaving,
             q + 1 \in Row => imported'[q + 1] >= imported[q + 1] /\ imported'[q + 1] \in Nat,
             ~edges'[<<q, d>>] => ~edges[<<q, d>>]
      PROVE  EdgeAt(q, d)'
  <2>1. d \in Nat
    BY Grid
  <2>2. q + 1 \in Row /\ d >= imported'[q + 1] => d >= imported[q + 1]
    BY <1>2, <1>4, <2>1
  <2>3. QED
    BY <1>4, <2>2, EdgeKeeps
<1>5. ASSUME NEW x, x \notin Leaving, Goto(S(r, c), x)
      PROVE  \A q \in Row, d \in Col : pc'[S(q, d)] \in Leaving => pc[S(q, d)] \in Leaving
  BY <1>1, <1>5, SearchNode DEF Goto, GraphType, PcType
<1>6. CASE /\ r > 0
           /\ edges' = [edges EXCEPT ![edge] = FALSE]
           /\ imported' = [imported EXCEPT ![r] = @ + 1]
           /\ UNCHANGED pc
  <2>1. EdgeType'
    BY <1>6 DEF EdgeType
  <2>2. \A q \in Row : imported'[q] = IF q = r THEN j + 1 ELSE imported[q]
    BY <1>1, <1>6 DEF RowType, j
  <2>3. ASSUME NEW q \in Row, NEW d \in Col PROVE EdgeAt(q, d)'
    <3>1. CASE q + 1 = r /\ d = j
      <4>1. imported'[q + 1] = j + 1 /\ ~(d >= j + 1)
        BY <1>1, <1>2, <2>2, <3>1
      <4>2. QED
        BY <4>1 DEF EdgeAt
    <3>2. CASE ~(q + 1 = r /\ d = j)
      <4>1. <<q, d>> # edge /\ <<q, d>> \in Block
        BY <1>2, <3>2, SearchNode DEF edge
      <4>2. edges'[<<q, d>>] = edges[<<q, d>>]
        BY <1>6, <4>1 DEF EdgeType
      <4>3. q + 1 \in Row => imported'[q + 1] >= imported[q + 1] /\ imported'[q + 1] \in Nat
        BY <1>1, <1>2, <2>2 DEF j
      <4>4. QED
        BY <1>4, <1>6, <4>2, <4>3
    <3>3. QED
      BY <3>1, <3>2
  <2>4. QED
    BY <2>1, <2>3 DEF EdgeOrder
<1>7. CASE /\ r > 0
           /\ edges' = [edges EXCEPT ![edge] = FALSE]
           /\ Goto(S(r, c), "failing") /\ UNCHANGED imported
  <2>1. EdgeType'
    BY <1>7 DEF EdgeType
  <2>2. pc'[S(r, c)] = "failing"
    BY <1>1, <1>7, SearchNode DEF Goto, GraphType, PcType
  <2>3. ASSUME NEW q \in Row, NEW d \in Col PROVE EdgeAt(q, d)'
    <3>1. CASE q + 1 = r
      BY <1>1, <2>2, <3>1 DEF EdgeAt, Gone
    <3>2. CASE q + 1 # r
      <4>1. <<q, d>> # edge /\ <<q, d>> \in Block
        BY <1>2, <3>2, SearchNode DEF edge
      <4>2. edges'[<<q, d>>] = edges[<<q, d>>]
        BY <1>7, <4>1 DEF EdgeType
      <4>3. q + 1 \in Row => imported'[q + 1] >= imported[q + 1] /\ imported'[q + 1] \in Nat
        BY <1>2, <1>7
      <4>4. pc'[S(q, d)] \in Leaving => pc[S(q, d)] \in Leaving
        BY <1>5, <1>7 DEF Leaving
      <4>5. QED
        BY <1>4, <4>2, <4>3, <4>4
    <3>3. QED
      BY <3>1, <3>2
  <2>4. QED
    BY <2>1, <2>3 DEF EdgeOrder
<1>8. CASE /\ UNCHANGED <<edges, imported>>
           /\ \E x \in {"failing", "search"} : Goto(S(r, c), x)
  <2>1. \A q \in Row, d \in Col : pc'[S(q, d)] \in Leaving => pc[S(q, d)] \in Leaving
    BY <1>5, <1>8 DEF Leaving
  <2>2. \A q \in Row : q + 1 \in Row =>
            imported'[q + 1] >= imported[q + 1] /\ imported'[q + 1] \in Nat
    BY <1>2, <1>8
  <2>3. ASSUME NEW q \in Row, NEW d \in Col PROVE EdgeAt(q, d)'
    BY <1>4, <1>8, <2>1, <2>2
  <2>4. QED
    BY <1>8, <2>3 DEF EdgeType, EdgeOrder
<1>9. QED
  <2>1. Import(b)
    OBVIOUS
  <2>2. QED
    BY <1>1, <1>6, <1>7, <1>8, <2>1 DEF Import, r, c, j, edge

LEMMA EdgeStep ==
  ASSUME GraphType, Countdown, RowType, RowOrder, [Next]_vars, EdgeType, EdgeOrder
  PROVE  EdgeType' /\ EdgeOrder'
<1>1. ASSUME NEW n \in Node, \A m \in Node : m # n => pc'[m] = pc[m],
             pc[n] \notin {"search", "edge", "write"} \/ n[1] = "write",
             UNCHANGED <<edges, imported>>
      PROVE  EdgeType' /\ EdgeOrder'
  <2>1. ASSUME NEW r \in Row, NEW c \in Col, pc[S(r, c)] \in {"search", "edge", "write"}
        PROVE  pc'[S(r, c)] \notin Leaving
    <3>1. S(r, c) \in Node /\ S(r, c)[1] # "write"
      BY SearchNode
    <3>2. pc'[S(r, c)] = pc[S(r, c)]
      BY <1>1, <2>1, <3>1
    <3>3. QED
      BY <2>1, <3>2 DEF Leaving
  <2>2. QED
    BY <1>1, <2>1, QuietEdges
<1>2. ASSUME NEW n \in Node, NEW x, Goto(n, x) PROVE \A m \in Node : m # n => pc'[m] = pc[m]
  BY <1>2 DEF Goto, GraphType, PcType
<1>3. ASSUME NEW n \in Node, Start(n) \/ StartSerial(n) \/ EndTask(n) \/ Fail(n)
      PROVE  EdgeType' /\ EdgeOrder'
  <2>1. UNCHANGED <<edges, imported>> /\ pc[n] \notin {"search", "edge", "write"}
    BY <1>3 DEF Start, StartSerial, EndTask, Fail, rowVars
  <2>2. \E x : Goto(n, x)
    BY <1>3 DEF Start, StartSerial, EndTask, Fail
  <2>3. QED
    BY <1>1, <1>2, <2>1, <2>2
<1>4. ASSUME NEW b \in Block, TakeDecisions(b) \/ Write(b)
      PROVE  EdgeType' /\ EdgeOrder'
  <2>1. /\ UNCHANGED <<edges, imported>>
        /\ <<"write", b>> \in Node /\ <<"write", b>>[1] = "write"
        /\ \E x : Goto(<<"write", b>>, x)
    BY <1>4 DEF TakeDecisions, Write, rowVars, Node
  <2>2. QED
    BY <1>1, <1>2, <2>1
<1>5. ASSUME NEW n \in Node, Signal(n)
      PROVE  EdgeType' /\ EdgeOrder'
  <2>1. PICK m \in Node :
           /\ pc[n] = "signal" /\ m \in left[n]
           /\ pc' = [pc EXCEPT ![m] = IF waiting[m] = 1 THEN "queued" ELSE @]
           /\ UNCHANGED <<edges, imported>>
    BY <1>5 DEF Signal, rowVars
  <2>2. pc[m] = "waiting"
    BY <2>1, SignalsWaiting
  <2>3. \A q \in Node : q # m => pc'[q] = pc[q]
    BY <2>1 DEF GraphType, PcType
  <2>4. QED
    BY <1>1, <2>1, <2>2, <2>3
<1>6. ASSUME NEW b \in Block, LockRow(b) \/ Commit(b)
      PROVE  EdgeType' /\ EdgeOrder'
  <2>1. <<"search", b>> \in Node
    BY DEF Node
  <2>2. /\ UNCHANGED <<edges, imported>>
        /\ pc[<<"search", b>>] \in {"lock", "commit"}
        /\ \E x : Goto(<<"search", b>>, x)
    BY <1>6, RowLock DEF LockRow, Commit
  <2>3. QED
    BY <1>1, <1>2, <2>1, <2>2
<1>7. ASSUME NEW b \in Block, Search(b)
      PROVE  EdgeType' /\ EdgeOrder'
  <2>1. b[1] \in Row /\ b[2] \in Col /\ <<"search", b>> = S(b[1], b[2])
    BY BlockSearch
  <2>2. /\ UNCHANGED <<edges, imported>>
        /\ \E x : Goto(S(b[1], b[2]), x) /\ (x = "commit" => ~(b[1] + 1 < Rows))
                  /\ x \notin {"signal", "done"}
    BY <1>7, <2>1 DEF Search
  <2>3. ASSUME NEW r \in Row, NEW c \in Col, pc[S(r, c)] \in {"search", "edge", "write"},
               r + 1 \in Row
        PROVE  pc'[S(r, c)] \notin Leaving
    <3>1. CASE r = b[1] /\ c = b[2]
      <4>1. r + 1 < Rows
        BY <2>3, Grid
      <4>2. QED
        BY <2>1, <2>2, <3>1, <4>1, SearchMoves DEF Leaving
    <3>2. CASE ~(r = b[1] /\ c = b[2])
      <4>1. S(r, c) \in Node /\ S(b[1], b[2]) \in Node /\ S(r, c) # S(b[1], b[2])
        <5>1. S(r, c) # S(b[1], b[2])
          BY <2>1, <3>2, SameNode
        <5>2. QED
          BY <2>1, <5>1, SearchNode
      <4>2. pc'[S(r, c)] = pc[S(r, c)]
        BY <1>2, <2>2, <4>1
      <4>3. QED
        BY <2>3, <4>2 DEF Leaving
    <3>3. QED
      BY <3>1, <3>2
  <2>4. QED
    BY <2>2, <2>3, QuietEdges
<1>8. CASE UNCHANGED vars \/ Return
  <2>1. UNCHANGED <<edges, imported, pc>>
    BY <1>8 DEF vars, rowVars, Return
  <2>2. QED
    BY <2>1, QuietEdges DEF Leaving
<1>9. QED
  BY <1>3, <1>4, <1>5, <1>6, <1>7, <1>8, EdgeLeave, EdgeImport DEF Next, Terminated

-----------------------------------------------------------------------------
(* The writer. *)

WriteType == committed \in [Block -> BOOLEAN] /\ next \in (0 .. Rows) \X Col

(* The block a write codes is the writer's next one. *)
LEMMA AtWriter ==
  ASSUME GraphType, Countdown, WriteType, WriteOrder,
         NEW b \in Block, pc[<<"write", b>>] # "waiting", ~Ran(<<"write", b>>)
  PROVE  next = b
<1> SUFFICES ASSUME next # b PROVE FALSE
  OBVIOUS
<1>1. ~Above(b, next)
  BY DEF WriteOrder
<1>2. PICK a \in Block : Following(a) = b /\ ~Above(a, next)
  BY <1>1, PrecedingBlock DEF WriteType
<1>3. <<"write", b>> \in Node /\ <<"write", a>> \in Preds(<<"write", b>>)
  BY <1>2, WritePreds
<1>4. Ran(<<"write", a>>)
  BY <1>3, PredecessorsRan
<1>5. QED
  BY <1>2, <1>4 DEF WriteOrder

LEMMA WriteInit ==
  ASSUME Init
  PROVE  WriteType /\ WriteOrder
<1>1. next = <<0, 0>> /\ next[1] = 0 /\ next[2] = 0
  BY DEF Init
<1>2. WriteType
  BY <1>1, Grid DEF Init, WriteType, Col
<1>3. ASSUME NEW b \in Block
      PROVE  ~Above(b, next) /\ ~Ran(<<"write", b>>) /\ ~Ran(<<"search", b>>)
  <2>1. b[1] \in Nat /\ b[2] \in Nat
    BY BlockPlace, Grid
  <2>2. ~Above(b, next)
    BY <1>1, <2>1 DEF Above
  <2>3. \A n \in Node : ~Ran(n)
    BY DEF Init, Ran
  <2>4. QED
    BY <2>2, <2>3, WritePreds
<1>4. QED
  BY <1>1, <1>2, <1>3 DEF WriteOrder

(* Steps that leave the writer alone and end no search and no write. *)
LEMMA QuietWrites ==
  ASSUME GraphType, Countdown, [Next]_vars, WriteType, WriteOrder,
         UNCHANGED <<committed, next>>,
         \A n \in Node : pc[n] \in {"commit", "write"} => ~Ran(n)'
  PROVE  WriteType' /\ WriteOrder'
<1>1. ASSUME NEW n \in Node
      PROVE  /\ Ran(n)' <=> Ran(n)
             /\ pc'[n] \in {"waiting", "queued", "take"} => pc[n] \in {"waiting", "queued", "take"}
  <2>1. pc'[n] = pc[n] \/ Flow(pc[n], pc'[n])
    BY Moves
  <2>2. QED
    BY <2>1, RanStays DEF Flow, Ran
<1>2. QED
  BY <1>1, WritePreds DEF WriteType, WriteOrder

LEMMA WriteCommit ==
  ASSUME GraphType, Countdown, [Next]_vars, WriteType, WriteOrder, NEW b \in Block, Commit(b)
  PROVE  WriteType' /\ WriteOrder'
<1>1. /\ committed' = [committed EXCEPT ![b] = TRUE] /\ UNCHANGED next
      /\ \E x : Goto(<<"search", b>>, x)
  BY DEF Commit
<1>2. WriteType'
  BY <1>1 DEF WriteType
<1>3. ASSUME NEW a \in Block
      PROVE  /\ pc'[<<"write", a>>] = pc[<<"write", a>>]
             /\ a # b => pc'[<<"search", a>>] = pc[<<"search", a>>]
             /\ committed'[a] = IF a = b THEN TRUE ELSE committed[a]
  <2>1. <<"write", a>> # <<"search", b>> /\ (a # b => <<"search", a>> # <<"search", b>>)
    OBVIOUS
  <2>2. <<"write", a>> \in Node /\ <<"search", a>> \in Node
    BY WritePreds
  <2>3. committed'[a] = IF a = b THEN TRUE ELSE committed[a]
    BY <1>1 DEF WriteType
  <2>4. QED
    BY <1>1, <2>1, <2>2, <2>3 DEF Goto, GraphType, PcType
<1>4. QED
  BY <1>1, <1>2, <1>3 DEF WriteOrder, Ran

LEMMA WriteTake ==
  ASSUME GraphType, Countdown, [Next]_vars, WriteType, WriteOrder, NEW b \in Block,
         TakeDecisions(b)
  PROVE  WriteType' /\ WriteOrder'
<1>1. /\ committed' = [committed EXCEPT ![b] = FALSE] /\ UNCHANGED next
      /\ pc[<<"write", b>>] = "take"
      /\ \E x \in {"write", "failing"} : Goto(<<"write", b>>, x)
  BY DEF TakeDecisions
<1>2. WriteType'
  BY <1>1 DEF WriteType
<1>3. ASSUME NEW a \in Block
      PROVE  /\ pc'[<<"search", a>>] = pc[<<"search", a>>]
             /\ a # b => pc'[<<"write", a>>] = pc[<<"write", a>>]
             /\ pc'[<<"write", b>>] \in {"write", "failing"}
             /\ a # b => committed'[a] = committed[a]
  <2>1. <<"search", a>> # <<"write", b>> /\ (a # b => <<"write", a>> # <<"write", b>>)
    OBVIOUS
  <2>2. <<"write", a>> \in Node /\ <<"search", a>> \in Node /\ <<"write", b>> \in Node
    BY WritePreds
  <2>3. a # b => committed'[a] = committed[a]
    BY <1>1 DEF WriteType
  <2>4. QED
    BY <1>1, <2>1, <2>2, <2>3 DEF Goto, GraphType, PcType
<1>4. ASSUME NEW a \in Block PROVE Ran(<<"write", a>>)' <=> Ran(<<"write", a>>)
  BY <1>1, <1>3 DEF Ran
<1>5. ASSUME NEW a \in Block, Ran(<<"search", a>>)',
             pc'[<<"write", a>>] \in {"waiting", "queued", "take"}
      PROVE  committed'[a]
  <2>1. a # b /\ Ran(<<"search", a>>) /\ pc[<<"write", a>>] \in {"waiting", "queued", "take"}
    BY <1>3, <1>5 DEF Ran
  <2>2. QED
    BY <1>3, <2>1 DEF WriteOrder
<1>6. QED
  BY <1>1, <1>2, <1>4, <1>5 DEF WriteOrder

LEMMA WriteWrite ==
  ASSUME GraphType, Countdown, [Next]_vars, WriteType, WriteOrder, NEW b \in Block, Write(b)
  PROVE  WriteType' /\ WriteOrder'
<1>1. /\ UNCHANGED committed /\ pc[<<"write", b>>] = "write"
      /\ \/ next' = Following(next) /\ \E x \in {"signal", "done"} : Goto(<<"write", b>>, x)
         \/ next' = next /\ Goto(<<"write", b>>, "failing")
  BY DEF Write
<1>2. ASSUME NEW a \in Block
      PROVE  /\ pc'[<<"search", a>>] = pc[<<"search", a>>]
             /\ a # b => pc'[<<"write", a>>] = pc[<<"write", a>>]
  <2>1. <<"search", a>> # <<"write", b>> /\ (a # b => <<"write", a>> # <<"write", b>>)
    OBVIOUS
  <2>2. <<"write", a>> \in Node /\ <<"search", a>> \in Node
    BY WritePreds
  <2>3. QED
    BY <1>1, <2>1, <2>2 DEF Goto, GraphType, PcType
<1>3. <<"write", b>> \in Node /\ next = b
  BY <1>1, AtWriter, WritePreds DEF Ran
<1>4. CASE next' = Following(next) /\ \E x \in {"signal", "done"} : Goto(<<"write", b>>, x)
  <2>1. pc'[<<"write", b>>] \in {"signal", "done"}
    BY <1>3, <1>4 DEF Goto, GraphType, PcType
  <2>2. /\ next'[1] \in 0 .. Rows /\ next'[2] \in Col /\ next' = <<next'[1], next'[2]>>
        /\ next'[1] = Rows => next'[2] = 0
        /\ \A a \in Block : Above(a, next') <=> Above(a, b) \/ a = b
    BY <1>3, <1>4, FollowingInOrder
  <2>3. WriteType'
    BY <1>1, <2>2 DEF WriteType
  <2>4. ASSUME NEW a \in Block PROVE Above(a, next') <=> Ran(<<"write", a>>)'
    <3>1. CASE a = b
      BY <2>1, <2>2, <3>1 DEF Ran
    <3>2. CASE a # b
      <4>1. Above(a, b) <=> Ran(<<"write", a>>)
        BY <1>3 DEF WriteOrder
      <4>2. QED
        BY <1>2, <2>2, <3>2, <4>1 DEF Ran
    <3>3. QED
      BY <3>1, <3>2
  <2>5. ASSUME NEW a \in Block, Ran(<<"search", a>>)',
               pc'[<<"write", a>>] \in {"waiting", "queued", "take"}
        PROVE  committed'[a]
    <3>1. a # b
      BY <2>1, <2>5
    <3>2. Ran(<<"search", a>>) /\ pc[<<"write", a>>] \in {"waiting", "queued", "take"}
      BY <1>2, <2>5, <3>1 DEF Ran
    <3>3. QED
      BY <1>1, <3>2 DEF WriteOrder
  <2>6. QED
    BY <2>2, <2>3, <2>4, <2>5 DEF WriteOrder
<1>5. CASE next' = next /\ Goto(<<"write", b>>, "failing")
  <2>1. pc'[<<"write", b>>] = "failing"
    BY <1>3, <1>5 DEF Goto, GraphType, PcType
  <2>2. ASSUME NEW n \in Node, pc[n] \in {"commit", "write"} PROVE ~Ran(n)'
    <3>1. CASE n = <<"write", b>>
      BY <2>1, <3>1 DEF Ran
    <3>2. CASE n # <<"write", b>>
      BY <1>5, <2>2, <3>2 DEF Ran, Goto, GraphType, PcType
    <3>3. QED
      BY <3>1, <3>2
  <2>3. QED
    BY <1>1, <1>5, <2>2, QuietWrites
<1>6. QED
  BY <1>1, <1>4, <1>5

LEMMA WriteStep ==
  ASSUME GraphType, Countdown, [Next]_vars, WriteType, WriteOrder
  PROVE  WriteType' /\ WriteOrder'
<1>1. ASSUME NEW n \in Node, \A m \in Node : m # n => pc'[m] = pc[m],
             pc[n] \notin {"commit", "write"}, UNCHANGED <<committed, next>>
      PROVE  WriteType' /\ WriteOrder'
  <2>1. ASSUME NEW m \in Node, pc[m] \in {"commit", "write"} PROVE ~Ran(m)'
    BY <1>1, <2>1 DEF Ran
  <2>2. QED
    BY <1>1, <2>1, QuietWrites
<1>2. ASSUME NEW n \in Node, NEW x, Goto(n, x) PROVE \A m \in Node : m # n => pc'[m] = pc[m]
  BY <1>2 DEF Goto, GraphType, PcType
<1>3. ASSUME NEW n \in Node, Start(n) \/ StartSerial(n) \/ EndTask(n) \/ Fail(n)
      PROVE  WriteType' /\ WriteOrder'
  <2>1. UNCHANGED <<committed, next>> /\ pc[n] \notin {"commit", "write"}
    BY <1>3 DEF Start, StartSerial, EndTask, Fail, writerVars
  <2>2. \E x : Goto(n, x)
    BY <1>3 DEF Start, StartSerial, EndTask, Fail
  <2>3. QED
    BY <1>1, <1>2, <2>1, <2>2
<1>4. ASSUME NEW b \in Block, LockRow(b) \/ Search(b) \/ LeaveEdge(b)
      PROVE  WriteType' /\ WriteOrder'
  <2>1. /\ UNCHANGED <<committed, next>>
        /\ pc[<<"search", b>>] \in {"lock", "search", "edge"}
        /\ \E x : Goto(<<"search", b>>, x)
    BY <1>4 DEF LockRow, Search, LeaveEdge, writerVars
  <2>2. <<"search", b>> \in Node
    BY DEF Node
  <2>3. QED
    BY <1>1, <1>2, <2>1, <2>2
<1>5. ASSUME NEW b \in Block, Import(b)
      PROVE  WriteType' /\ WriteOrder'
  <2>1. /\ UNCHANGED <<committed, next>> /\ pc[<<"search", b>>] = "import"
        /\ UNCHANGED pc \/ \E x : Goto(<<"search", b>>, x)
    BY <1>5 DEF Import, writerVars
  <2>2. <<"search", b>> \in Node
    BY DEF Node
  <2>3. QED
    BY <1>1, <1>2, <2>1, <2>2
<1>6. ASSUME NEW n \in Node, Signal(n)
      PROVE  WriteType' /\ WriteOrder'
  <2>1. PICK m \in Node :
           /\ pc[n] = "signal" /\ m \in left[n]
           /\ pc' = [pc EXCEPT ![m] = IF waiting[m] = 1 THEN "queued" ELSE @]
           /\ UNCHANGED <<committed, next>>
    BY <1>6 DEF Signal, writerVars
  <2>2. pc[m] = "waiting"
    BY <2>1, SignalsWaiting
  <2>3. \A q \in Node : q # m => pc'[q] = pc[q]
    BY <2>1 DEF GraphType, PcType
  <2>4. QED
    BY <1>1, <2>1, <2>2, <2>3
<1>7. CASE UNCHANGED vars \/ Return
  <2>1. UNCHANGED <<committed, next, pc>>
    BY <1>7 DEF vars, writerVars, Return
  <2>2. \A n \in Node : pc[n] \in {"commit", "write"} => ~Ran(n)'
    BY <2>1 DEF Ran
  <2>3. QED
    BY <2>1, <2>2, QuietWrites
<1>8. QED
  BY <1>3, <1>4, <1>5, <1>6, <1>7, WriteCommit, WriteTake, WriteWrite DEF Next, Terminated

-----------------------------------------------------------------------------
(* Errors. *)

(* Every edge an import asks for is there. *)
LEMMA ImportFinds ==
  ASSUME GraphType, Countdown, RowType, RowOrder, EdgeOrder,
         NEW r \in Row, NEW c \in Col, r > 0, pc[S(r, c)] = "import",
         imported[r] <= Least(c + 1, Cols - 1)
  PROVE  edges[<<r - 1, imported[r]>>]
<1>1. r \in Nat /\ c \in Nat /\ c < Cols /\ imported[r] \in Nat
  BY Grid DEF RowType
<1>2. imported[r] \in Col /\ r - 1 \in Row /\ (r - 1) + 1 = r
  BY <1>1, SearchPreds, Grid DEF Col, Least
<1>3. Ran(S(r - 1, imported[r]))
  BY <1>2, AboveRan
<1>4. \A d \in Col : pc[S(r, d)] \notin Gone
  BY AtCursor
<1>5. EdgeAt(r - 1, imported[r])
  BY <1>2 DEF EdgeOrder
<1>6. imported[r] >= imported[r]
  BY <1>1
<1>7. QED
  BY <1>2, <1>3, <1>4, <1>5, <1>6 DEF EdgeAt, Ran

(* A task that begins to fail has an error of its own, never one the code  *)
(* raises against itself.                                                  *)
Blames ==
    \/ UNCHANGED fault /\ \A n \in Node : pc'[n] = "failing" => pc[n] = "failing"
    \/ Inject

LEMMA StayBlameless ==
  ASSUME GraphType, UNCHANGED fault, NEW n \in Node, NEW x, Goto(n, x), x # "failing"
  PROVE  Blames
  BY DEF Blames, Goto, GraphType, PcType

LEMMA FaultStep ==
  ASSUME GraphType, Countdown, RowType, RowOrder, EdgeOrder, WriteOrder, [Next]_vars
  PROVE  Blames
<1>1. ASSUME NEW n \in Node, Start(n) \/ EndTask(n) \/ Fail(n)
      PROVE  Blames
  <2>1. UNCHANGED fault /\ \E x : Goto(n, x) /\ x # "failing"
    BY <1>1 DEF Start, EndTask, Fail, Body
  <2>2. QED
    BY <2>1, StayBlameless
<1>2. ASSUME NEW n \in Node, StartSerial(n)
      PROVE  Blames
  <2>1. \A m \in Preds(n) : m \in Node /\ Before(m, n)
    BY PredsBefore
  <2>2. UNCHANGED fault /\ \E x : Goto(n, x) /\ x # "failing"
    BY <1>2, <2>1 DEF StartSerial, Body
  <2>3. QED
    BY <2>2, StayBlameless
<1>3. ASSUME NEW n \in Node, Signal(n)
      PROVE  Blames
  BY <1>3 DEF Signal, Blames, GraphType, PcType
<1>4. ASSUME NEW b \in Block, LockRow(b)
      PROVE  Blames
  <2>1. cursor[b[1]] < Cols /\ cursor[b[1]] \in Nat
    BY <1>4, RowLock, BlockPlace, Grid DEF RowType
  <2>2. cursor[b[1]] # Cols
    BY <2>1, Grid
  <2>3. <<"search", b>> \in Node
    BY DEF Node
  <2>4. Inject \/ (UNCHANGED fault /\ Goto(<<"search", b>>, "import"))
    BY <1>4, <2>2 DEF LockRow
  <2>5. QED
    BY <2>3, <2>4, StayBlameless DEF Blames
<1>5. ASSUME NEW b \in Block, Import(b)
      PROVE  Blames
  <2>1. b[1] \in Row /\ b[2] \in Col /\ <<"search", b>> = S(b[1], b[2]) /\ <<"search", b>> \in Node
    BY BlockSearch, WritePreds
  <2>2. pc[S(b[1], b[2])] = "import"
    BY <1>5, <2>1 DEF Import
  <2>3. b[1] > 0 /\ imported[b[1]] <= Least(b[2] + 1, Cols - 1)
            => edges[<<b[1] - 1, imported[b[1]]>>]
    BY <2>1, <2>2, ImportFinds
  <2>4. Inject \/ (UNCHANGED fault /\ (UNCHANGED pc \/ Goto(<<"search", b>>, "search")))
    BY <1>5, <2>3 DEF Import
  <2>5. QED
    BY <2>1, <2>4, StayBlameless DEF Blames
<1>6. ASSUME NEW b \in Block, Search(b) \/ LeaveEdge(b) \/ Commit(b)
      PROVE  Blames
  <2>1. <<"search", b>> \in Node
    BY DEF Node
  <2>2. Inject \/ (UNCHANGED fault /\ \E x : Goto(<<"search", b>>, x) /\ x # "failing")
    BY <1>6 DEF Search, LeaveEdge, Commit
  <2>3. QED
    BY <2>1, <2>2, StayBlameless DEF Blames
<1>7. ASSUME NEW b \in Block, TakeDecisions(b)
      PROVE  Blames
  <2>1. /\ <<"write", b>> \in Node /\ <<"search", b>> \in Preds(<<"write", b>>)
        /\ pc[<<"write", b>>] = "take"
    BY <1>7, WritePreds DEF TakeDecisions
  <2>2. Ran(<<"search", b>>)
    BY <2>1, PredecessorsRan
  <2>3. committed[b]
    BY <2>1, <2>2 DEF WriteOrder
  <2>4. UNCHANGED fault /\ Goto(<<"write", b>>, "write")
    BY <1>7, <2>3 DEF TakeDecisions
  <2>5. QED
    BY <2>1, <2>4, StayBlameless
<1>8. ASSUME NEW b \in Block, Write(b)
      PROVE  Blames
  <2>1. <<"write", b>> \in Node
    BY DEF Node
  <2>2. Inject \/ (UNCHANGED fault /\ \E x : Goto(<<"write", b>>, x) /\ x # "failing")
    BY <1>8 DEF Write
  <2>3. QED
    BY <2>1, <2>2, StayBlameless DEF Blames
<1>9. CASE UNCHANGED vars \/ Return
  BY <1>9 DEF vars, Return, Blames
<1>10. QED
  BY <1>1, <1>2, <1>3, <1>4, <1>5, <1>6, <1>7, <1>8, <1>9 DEF Next, Terminated

-----------------------------------------------------------------------------
(* The end of the tile. *)

LEMMA LeastNat ==
  ASSUME NEW T \in SUBSET Nat, T # {}
  PROVE  \E x \in T : \A y \in T : x <= y
<1> DEFINE R == OpToRel(<, Nat)
<1>1. \A x, y \in Nat : <<x, y>> \in R <=> x < y
  BY DEF OpToRel
<1>2. IsWellFoundedOn(R, Nat)
  BY NatLessThanWellFounded
<1> HIDE DEF R
<1>3. PICK x \in T : \A y \in T : ~(<<y, x>> \in R)
  BY <1>2, WFMin
<1>4. ASSUME NEW y \in T PROVE x <= y
  <2>1. x \in Nat /\ y \in Nat /\ ~(y < x)
    BY <1>1, <1>3
  <2>2. QED
    BY <2>1
<1>5. QED
  BY <1>4

(* A set of nodes has one before which, in index order, no other comes. *)
LEMMA LeastNode ==
  ASSUME NEW W \in SUBSET Node, W # {}
  PROVE  \E n \in W : \A m \in W : ~Before(m, n)
<1> DEFINE InRow == {n[2][1] : n \in W}
<1>1. \A n \in W : /\ n[2][1] \in Nat /\ n[2][2] \in Nat /\ n[1] \in {"search", "write"}
                   /\ n = <<n[1], <<n[2][1], n[2][2]>>>>
  BY NodeShape, BlockPlace, Grid
<1>2. PICK r \in InRow : \A q \in InRow : r <= q
  <2>1. InRow \in SUBSET Nat /\ InRow # {}
    BY <1>1
  <2>2. QED
    BY <2>1, LeastNat
<1> DEFINE InCol == {n[2][2] : n \in {n \in W : n[2][1] = r}}
<1>3. PICK c \in InCol : \A d \in InCol : c <= d
  <2>1. InCol \in SUBSET Nat /\ InCol # {}
    BY <1>1, <1>2
  <2>2. QED
    BY <2>1, LeastNat
<1>4. PICK k \in W : k[2][1] = r /\ k[2][2] = c
  BY <1>3
<1>5. ASSUME NEW m \in W, NEW n \in W, n[2][1] = r, n[2][2] = c, Before(m, n)
      PROVE  m[2] = n[2] /\ m[1] = "search" /\ n[1] = "write"
  <2>1. m[2][1] \in InRow /\ r <= m[2][1] /\ r \in Nat /\ m[2][1] \in Nat
    BY <1>1, <1>2, <1>4
  <2>2. m[2][1] = r => m[2][2] \in InCol /\ c <= m[2][2]
    BY <1>3
  <2>3. ~Above(m[2], n[2])
    BY <1>1, <1>4, <1>5, <2>1, <2>2 DEF Above
  <2>4. QED
    BY <1>5, <2>3 DEF Before
<1>6. CASE \A m \in W : ~Before(m, k)
  BY <1>6
<1>7. CASE \E m \in W : Before(m, k)
  <2>1. PICK m \in W : Before(m, k)
    BY <1>7
  <2>2. m[2] = k[2] /\ m[1] = "search"
    BY <1>4, <1>5, <2>1
  <2>3. \A j \in W : ~Before(j, m)
    BY <1>4, <1>5, <2>2
  <2>4. QED
    BY <2>3
<1>8. QED
  BY <1>6, <1>7

(* When the pool has no task left and none failed, every node is done: the *)
(* least waiting one would wait for a node that is done and owes nothing.  *)
LEMMA AllDone ==
  ASSUME GraphType, Countdown, threads > 0, \A n \in Node : pc[n] \in {"waiting", "done"}
  PROVE  \A n \in Node : pc[n] = "done"
<1> DEFINE W == {n \in Node : pc[n] = "waiting"}
<1>1. SUFFICES ASSUME W # {} PROVE FALSE
  OBVIOUS
<1>2. PICK n \in W : \A m \in W : ~Before(m, n)
  BY <1>1, LeastNode
<1>3. PICK p \in Preds(n) : n \in left[p]
  BY <1>2 DEF Countdown, Owing
<1>4. p \in Node /\ Before(p, n)
  BY PredsBefore
<1>5. pc[p] = "done"
  BY <1>2, <1>4
<1>6. QED
  BY <1>3, <1>4, <1>5 DEF Countdown

OutcomeType ==
    /\ failed \in BOOLEAN
    /\ fault \in {"none", "injected", "internal"}
    /\ result \in {"none", "ok", "error"}

LEMMA EndingInit ==
  ASSUME Init
  PROVE  OutcomeType /\ Ending /\ EdgesAreThereOnce
  BY DEF Init, OutcomeType, Ending, EdgesAreThereOnce

(* Who reports and who stops. *)
LEMMA Reports ==
  ASSUME GraphType, Countdown, [Next]_vars, OutcomeType
  PROVE  /\ UNCHANGED result \/ Return
         /\ \/ UNCHANGED failed /\ \A n \in Node : pc'[n] = "stopped" => pc[n] = "stopped" \/ failed
            \/ \E n \in Node : Fail(n)
<1>1. ASSUME NEW n \in Node, NEW x, Goto(n, x), x = "stopped" => failed
      PROVE  \A m \in Node : pc'[m] = "stopped" => pc[m] = "stopped" \/ failed
  BY <1>1 DEF Goto, GraphType, PcType
<1>2. ASSUME NEW n \in Node, Start(n) \/ StartSerial(n) \/ EndTask(n)
      PROVE  UNCHANGED <<result, failed>> /\ \E x : Goto(n, x) /\ (x = "stopped" => failed)
  BY <1>2 DEF Start, StartSerial, EndTask, Body, graphVars
<1>3. ASSUME NEW n \in Node, Signal(n)
      PROVE  /\ UNCHANGED <<result, failed>>
             /\ \A m \in Node : pc'[m] = "stopped" => pc[m] = "stopped"
  BY <1>3 DEF Signal, GraphType, PcType
<1>4. ASSUME NEW n \in Node, Fail(n)
      PROVE  UNCHANGED result
  BY <1>4 DEF Fail
<1>5. ASSUME NEW b \in Block, LockRow(b) \/ Search(b) \/ LeaveEdge(b) \/ Commit(b)
      PROVE  UNCHANGED <<result, failed>> /\ \E x : Goto(<<"search", b>>, x) /\ x # "stopped"
  BY <1>5 DEF LockRow, Search, LeaveEdge, Commit, graphVars
<1>6. ASSUME NEW b \in Block, Import(b)
      PROVE  /\ UNCHANGED <<result, failed>>
             /\ UNCHANGED pc \/ \E x : Goto(<<"search", b>>, x) /\ x # "stopped"
  BY <1>6 DEF Import, graphVars
<1>7. ASSUME NEW b \in Block, TakeDecisions(b) \/ Write(b)
      PROVE  UNCHANGED <<result, failed>> /\ \E x : Goto(<<"write", b>>, x) /\ x # "stopped"
  BY <1>7 DEF TakeDecisions, Write, graphVars
<1>8. CASE UNCHANGED vars
  BY <1>8 DEF vars, graphVars
<1>9. CASE Return
  BY <1>9 DEF Return
<1>10. \A b \in Block : <<"search", b>> \in Node /\ <<"write", b>> \in Node
  BY DEF Node
<1>11. QED
  BY <1>1, <1>2, <1>3, <1>4, <1>5, <1>6, <1>7, <1>8, <1>9, <1>10 DEF Next, Terminated

LEMMA EndingStep ==
  ASSUME GraphType, Countdown, [Next]_vars, OutcomeType, Ending, EdgesAreThereOnce, Blames
  PROVE  OutcomeType' /\ Ending' /\ EdgesAreThereOnce'
<1>1. /\ fault' \in {"none", "injected", "internal"}
      /\ fault # "none" => fault' # "none"
      /\ EdgesAreThereOnce'
  BY DEF Blames, Inject, OutcomeType, EdgesAreThereOnce
<1>2. ASSUME NEW n \in Node, pc'[n] = "failing" PROVE fault' # "none"
  BY <1>1, <1>2 DEF Blames, Inject, Ending
<1>3. /\ failed' \in BOOLEAN
      /\ failed' => fault' # "none"
      /\ \A n \in Node : pc'[n] = "stopped" => failed'
  <2>1. CASE \E n \in Node : Fail(n)
    <3>1. failed' = TRUE /\ fault # "none"
      BY <2>1 DEF Fail, Ending
    <3>2. QED
      BY <1>1, <3>1
  <2>2. CASE UNCHANGED failed /\ \A n \in Node : pc'[n] = "stopped" => pc[n] = "stopped" \/ failed
    BY <1>1, <2>2 DEF OutcomeType, Ending
  <2>3. QED
    BY <2>1, <2>2, Reports
<1>4. CASE UNCHANGED result
  BY <1>1, <1>2, <1>3, <1>4, RanStays DEF OutcomeType, Ending
<1>5. CASE Return
  <2>1. UNCHANGED <<pc, threads, failed, fault>> /\ result' = (IF failed THEN "error" ELSE "ok")
    BY <1>5 DEF Return
  <2>2. ASSUME ~failed, NEW n \in Node PROVE pc[n] = "done"
    <3>1. \A m \in Node : pc[m] \in {"waiting", "done"}
      BY <1>5, <2>2 DEF Return, Ending
    <3>2. CASE threads = 0
      BY <1>5, <2>2, <3>2 DEF Return
    <3>3. CASE threads # 0
      BY <3>1, <3>3, AllDone, Grid DEF GraphType
    <3>4. QED
      BY <3>2, <3>3
  <2>3. QED
    BY <1>1, <1>2, <1>3, <2>1, <2>2 DEF OutcomeType, Ending
<1>6. QED
  BY <1>4, <1>5, Reports

-----------------------------------------------------------------------------
(* The invariant. *)

LEMMA Types ==
  TypeOK <=> GraphType /\ RowType /\ EdgeType /\ WriteType /\ OutcomeType
  BY DEF TypeOK, GraphType, PcType, RowType, EdgeType, WriteType, OutcomeType

(* Every reachable state satisfies WInv: in the code, the count of a node, *)
(* the place of a row's facade, the edges left for the row below and the   *)
(* place of the exact writer agree, whichever worker ran what.             *)
THEOREM WavefrontInvariant == Spec => []WInv
<1>1. Init => WInv
  BY Types, GraphInit, RowInit, EdgeInit, WriteInit, EndingInit DEF WInv
<1>2. WInv /\ [Next]_vars => WInv'
  <2> SUFFICES ASSUME WInv, [Next]_vars PROVE WInv'
    OBVIOUS
  <2>1. /\ GraphType /\ RowType /\ EdgeType /\ WriteType /\ OutcomeType
        /\ Countdown /\ RowOrder /\ EdgeOrder /\ WriteOrder /\ EdgesAreThereOnce /\ Ending
    BY Types DEF WInv
  <2>2. GraphType' /\ Countdown'
    BY <2>1, GraphStep
  <2>3. RowType' /\ RowOrder'
    BY <2>1, RowStep
  <2>4. EdgeType' /\ EdgeOrder'
    BY <2>1, EdgeStep
  <2>5. WriteType' /\ WriteOrder'
    BY <2>1, WriteStep
  <2>6. OutcomeType' /\ Ending' /\ EdgesAreThereOnce'
    BY <2>1, FaultStep, EndingStep
  <2>7. TypeOK'
    BY <2>2, <2>3, <2>4, <2>5, <2>6
       DEF TypeOK, GraphType, PcType, RowType, EdgeType, WriteType, OutcomeType
  <2>8. QED
    BY <2>2, <2>3, <2>4, <2>5, <2>6, <2>7 DEF WInv
<1>3. QED
  BY <1>1, <1>2, PTL DEF Spec

(* The state of run_graph and encode_tile_wavefront is well typed; a node  *)
(* waits for two others at most.                                           *)
THEOREM WavefrontTypeCorrect == Spec => []TypeOK
<1>1. WInv => TypeOK
  BY DEF WInv
<1>2. QED
  BY <1>1, WavefrontInvariant, PTL

(* On every grid and any number of workers the code's own refusals are     *)
(* never the first error: every edge is there when it is imported and      *)
(* every decision when it is written, and no row runs past its end.        *)
THEOREM EdgesThereOnce == Spec => []EdgesAreThereOnce
<1>1. WInv => EdgesAreThereOnce
  BY DEF WInv
<1>2. QED
  BY <1>1, WavefrontInvariant, PTL

(* What a search reads depends on its place in the tile only, never on     *)
(* which worker ran what (wavefront.rs:7).                                 *)
THEOREM SearchesReadTheirPlace == Spec => []SearchReadsItsPlace
<1>1. ASSUME WInv PROVE SearchReadsItsPlace
  <2>1. GraphType /\ RowType /\ Countdown /\ RowOrder
    BY <1>1, Types DEF WInv
  <2>2. ASSUME NEW b \in Block, pc[<<"search", b>>] = "search"
        PROVE  /\ cursor[b[1]] = b[2]
               /\ b[1] > 0 => /\ imported[b[1]] = Least(b[2] + 2, Cols)
                              /\ priced[b[1]] = Least(b[2] + 1, Cols - 1)
    <3>1. /\ b[1] \in Row /\ b[2] \in Col /\ pc[S(b[1], b[2])] = "search"
          /\ b[2] \in Nat /\ b[2] < Cols
      BY <2>2, BlockSearch, Grid
    <3>2. cursor[b[1]] = b[2]
      BY <2>1, <3>1, AtCursor
    <3>3. /\ b[1] > 0 => imported[b[1]] = Least(b[2] + 2, Cols)
          /\ priced[b[1]] = IF imported[b[1]] = 0 THEN 0 ELSE imported[b[1]] - 1
      BY <2>1, <3>1 DEF RowOrder, ImportsAt
    <3>4. QED
      BY <3>1, <3>2, <3>3, Grid DEF Least
  <2>3. QED
    BY <2>2 DEF SearchReadsItsPlace
<1>2. QED
  BY <1>1, WavefrontInvariant, PTL

(* The one exact writer codes the superblocks in raster order: a write     *)
(* finds it at its own superblock (wavefront.rs:13).                       *)
THEOREM WritesInRasterOrder == Spec => []WrittenInRasterOrder
<1>1. ASSUME WInv PROVE WrittenInRasterOrder
  <2>1. GraphType /\ WriteType /\ Countdown /\ WriteOrder
    BY <1>1, Types DEF WInv
  <2>2. ASSUME NEW b \in Block, pc[<<"write", b>>] = "write" PROVE next = b
    BY <2>1, <2>2, AtWriter DEF Ran
  <2>3. QED
    BY <2>1, <2>2 DEF WrittenInRasterOrder, WriteOrder
<1>2. QED
  BY <1>1, WavefrontInvariant, PTL

(* run_graph returns a tile only with every superblock searched and        *)
(* written, and an error only for one that happened.                       *)
THEOREM TilesAreWholeOrFail == Spec => []TileIsWholeOrFails
<1>1. ASSUME WInv PROVE TileIsWholeOrFails
  <2>1. GraphType /\ WriteType /\ WriteOrder /\ Ending
    BY <1>1, Types DEF WInv
  <2>2. ASSUME \A n \in Node : pc[n] = "done" PROVE next = <<Rows, 0>>
    <3> DEFINE b == <<Rows - 1, Cols - 1>>
    <3>1. b \in Block /\ b[1] = Rows - 1 /\ b[2] = Cols - 1
      BY Grid DEF Block, Row, Col
    <3>2. Ran(<<"write", b>>)
      BY <2>2, <3>1, WritePreds DEF Ran
    <3>3. Above(b, next)
      BY <2>1, <3>1, <3>2 DEF WriteOrder
    <3>4. /\ next[1] \in 0 .. Rows /\ next[2] \in Col /\ next = <<next[1], next[2]>>
          /\ next[1] = Rows => next[2] = 0
      BY <2>1 DEF WriteType, WriteOrder
    <3>5. next[1] = Rows
      BY <3>1, <3>3, <3>4, Grid DEF Above, Col
    <3>6. QED
      BY <3>4, <3>5
  <2>3. QED
    BY <2>1, <2>2 DEF TileIsWholeOrFails, Ending
<1>2. QED
  BY <1>1, WavefrontInvariant, PTL

=============================================================================
