----------------------------- MODULE Wavefront ------------------------------
(***************************************************************************)
(* The wavefront superblock search of one tile:                            *)
(* crates/splot-encode/src/wavefront.rs.                                   *)
(*                                                                         *)
(* Every superblock is a search node and a write node of a task graph.  A  *)
(* search runs on the facade of its superblock row and imports the edges   *)
(* the row above leaves behind; the write nodes code the decisions with    *)
(* the one exact writer.  A node runs once its predecessors have run: on a *)
(* pool, where each finished node counts its successors down and spawns    *)
(* those it completes, or without a pool in index order.                   *)
(*                                                                         *)
(* Superblocks are named by row and column; the code's index of a node is  *)
(* its place in Before.  A search, a commit and a write are one outcome    *)
(* each, which may be an error.  A panic unwinds through the scope and     *)
(* ends the encoder; it is not modelled.                                   *)
(***************************************************************************)
EXTENDS Naturals, FiniteSets

CONSTANTS
    Rows, Cols,     \* the tile's superblock grid
    MaxThreads      \* workers the pool may have; with none there is no pool

ASSUME TileAssumption ==
    /\ Rows \in Nat \ {0} /\ Cols \in Nat \ {0}
    /\ MaxThreads \in Nat

Row == 0 .. Rows - 1
Col == 0 .. Cols - 1
Block == Row \X Col
Node == {"search", "write"} \X Block

Least(a, b) == IF a < b THEN a ELSE b

VARIABLES
    threads,    \* workers of the pool, 0 without one
    pc,         \* control point of each node's task
    waiting,    \* Graph::waiting: predecessors that have not counted it down
    left,       \* successors each node has still to count down
    failed,     \* Graph::failed holds an error
    facade,     \* row_state: the row has its writer and coder
    cursor,     \* superblocks the row's facade has committed
    imported,   \* Row::imported
    priced,     \* column of the last edge whose CDFs it took, 0 for none
    edges,      \* superblock edges left for the row below
    committed,  \* superblock decisions left for the writer
    next,       \* the superblock the one exact writer codes next
    fault,      \* the first error: "none", "injected" or "internal"
    result      \* what run_graph returned: "none" yet, "ok" or "error"

graphVars == <<threads, waiting, left, failed, result>>
rowVars == <<facade, cursor, imported, priced, edges>>
writerVars == <<committed, next>>
vars == <<graphVars, pc, rowVars, writerVars, fault>>

-----------------------------------------------------------------------------
(* The graph. *)

(* Raster order of superblocks, and the code's index order of nodes. *)
Above(a, b) == a[1] < b[1] \/ (a[1] = b[1] /\ a[2] < b[2])
Before(m, n) == Above(m[2], n[2]) \/ (m[2] = n[2] /\ m[1] = "search" /\ n[1] = "write")

Following(b) == IF b[2] + 1 < Cols THEN <<b[1], b[2] + 1>> ELSE <<b[1] + 1, 0>>

Left(b) == {<<"search", a>> : a \in {a \in Block : a[1] = b[1] /\ a[2] + 1 = b[2]}}

(* Mutant: a search waits for the superblock above it only. *)
TopRightAbove(b) == {<<"search", a>> : a \in {a \in Block : a[1] + 1 = b[1] /\ a[2] = b[2]}}

(* The top-right superblock, or the top one in the last column. *)
TopRight(b) ==
    {<<"search", a>> : a \in {a \in Block : a[1] + 1 = b[1]
                                            /\ a[2] = Least(b[2] + 1, Cols - 1)}}

(* Mutant: a write does not wait for the write before it. *)
PreviousForgotten(b) == {}

Previous(b) == {<<"write", a>> : a \in {a \in Block : Following(a) = b}}

Preds(n) ==
    IF n[1] = "search" THEN Left(n[2]) \cup TopRight(n[2])
                       ELSE {<<"search", n[2]>>} \cup Previous(n[2])

Succs(n) == {m \in Node : n \in Preds(m)}

-----------------------------------------------------------------------------
(* The control points of a task that is on a worker. *)
RowPoints == {"import", "search", "edge", "commit"}
Points == {"lock", "take", "write", "signal", "failing"} \cup RowPoints
Ran(n) == pc[n] \in {"signal", "done"}

Running == {n \in Node : pc[n] \in Points}

Goto(n, point) == pc' = [pc EXCEPT ![n] = point]

Init ==
    /\ threads \in 0 .. MaxThreads
    /\ pc = [n \in Node |->
                IF threads > 0 /\ Preds(n) = {} THEN "queued" ELSE "waiting"]
    /\ waiting = [n \in Node |-> Cardinality(Preds(n))]
    /\ left = [n \in Node |-> Succs(n)]
    /\ failed = FALSE
    /\ facade = [r \in Row |-> FALSE] /\ cursor = [r \in Row |-> 0]
    /\ imported = [r \in Row |-> 0] /\ priced = [r \in Row |-> 0]
    /\ edges = [b \in Block |-> FALSE]
    /\ committed = [b \in Block |-> FALSE]
    /\ next = <<0, 0>>
    /\ fault = "none" /\ result = "none"

Inject == fault' = IF fault = "none" THEN "injected" ELSE fault
Internal == fault' = IF fault = "none" THEN "internal" ELSE fault

(* Where a node's body begins: superblock or write. *)
Body(n) == IF n[1] = "search" THEN "lock" ELSE "take"

(* A worker takes a spawned task; once a node has failed it does nothing. *)
Start(n) ==
    /\ pc[n] = "queued" /\ Cardinality(Running) < threads
    /\ Goto(n, IF failed THEN "stopped" ELSE Body(n))
    /\ UNCHANGED <<graphVars, rowVars, writerVars, fault>>

(* Without a pool a node runs after every node before it; the loop refuses *)
(* a node with a predecessor that is not one of those.                     *)
StartSerial(n) ==
    /\ threads = 0 /\ pc[n] = "waiting" /\ ~failed
    /\ \A m \in Node : Before(m, n) => pc[m] = "done"
    /\ \/ /\ \A m \in Preds(n) : Before(m, n)
          /\ Goto(n, Body(n)) /\ UNCHANGED fault
       \/ /\ \E m \in Preds(n) : ~Before(m, n)
          /\ Goto(n, "failing") /\ Internal
    /\ UNCHANGED <<graphVars, rowVars, writerVars>>

-----------------------------------------------------------------------------
(* A search. *)

(* The row's lock is held from here to the end of the commit; the first    *)
(* superblock of a row builds its facade.                                  *)
LockRow(b) ==
    LET n == <<"search", b>>
        r == b[1]
    IN  /\ pc[n] = "lock"
        /\ \A a \in Block : a[1] = r => pc[<<"search", a>>] \notin RowPoints
        /\ \/ /\ facade[r] /\ cursor[r] < Cols
              /\ Goto(n, "import")
              /\ UNCHANGED <<facade, cursor, imported, priced, fault>>
           \/ /\ facade[r] /\ cursor[r] = Cols
              /\ Goto(n, "failing") /\ Internal
              /\ UNCHANGED <<facade, cursor, imported, priced>>
           \/ /\ ~facade[r]
              /\ facade' = [facade EXCEPT ![r] = TRUE]
              /\ cursor' = [cursor EXCEPT ![r] = 0]
              /\ imported' = [imported EXCEPT ![r] = 0]
              /\ priced' = [priced EXCEPT ![r] = 0]
              /\ Goto(n, "import") /\ UNCHANGED fault
           \/ /\ ~facade[r]
              /\ Goto(n, "failing") /\ Inject
              /\ UNCHANGED <<facade, cursor, imported, priced>>
        /\ UNCHANGED <<graphVars, edges, writerVars>>

(* Mutant: the top-right edge is not imported. *)
ImportShort(b) ==
    LET n == <<"search", b>>
        r == b[1]
        c == b[2]
        due == r > 0 /\ imported[r] <= c
        edge == <<r - 1, imported[r]>>
    IN  /\ pc[n] = "import"
        /\ \/ /\ due /\ edges[edge]
              /\ edges' = [edges EXCEPT ![edge] = FALSE]
              /\ imported' = [imported EXCEPT ![r] = @ + 1]
              /\ priced' = [priced EXCEPT ![r] = IF imported[r] = c + 1 THEN c + 1 ELSE @]
              /\ UNCHANGED <<pc, fault>>
           \/ /\ due /\ ~edges[edge]
              /\ Goto(n, "failing") /\ Internal
              /\ UNCHANGED <<edges, imported, priced>>
           \/ /\ ~due
              /\ Goto(n, "search")
              /\ UNCHANGED <<edges, imported, priced, fault>>
        /\ UNCHANGED <<graphVars, facade, cursor, writerVars>>

(* The edges of the row above up to the top-right superblock, each taken   *)
(* out of its slot, the top-right one with its CDFs.                       *)
Import(b) ==
    LET n == <<"search", b>>
        r == b[1]
        c == b[2]
        due == r > 0 /\ imported[r] <= Least(c + 1, Cols - 1)
        edge == <<r - 1, imported[r]>>
    IN  /\ pc[n] = "import"
        /\ \/ /\ due /\ edges[edge]
              /\ edges' = [edges EXCEPT ![edge] = FALSE]
              /\ imported' = [imported EXCEPT ![r] = @ + 1]
              /\ priced' = [priced EXCEPT ![r] = IF imported[r] = c + 1 THEN c + 1 ELSE @]
              /\ UNCHANGED <<pc, fault>>
           \/ /\ due /\ edges[edge]
              /\ edges' = [edges EXCEPT ![edge] = FALSE]
              /\ Goto(n, "failing") /\ Inject
              /\ UNCHANGED <<imported, priced>>
           \/ /\ due /\ ~edges[edge]
              /\ Goto(n, "failing") /\ Internal
              /\ UNCHANGED <<edges, imported, priced>>
           \/ /\ ~due
              /\ Goto(n, "search")
              /\ UNCHANGED <<edges, imported, priced, fault>>
        /\ UNCHANGED <<graphVars, facade, cursor, writerVars>>

(* The search and the commit of its decision into the row's facade. *)
Search(b) ==
    LET n == <<"search", b>>
        r == b[1]
    IN  /\ pc[n] = "search"
        /\ \/ /\ cursor' = [cursor EXCEPT ![r] = @ + 1]
              /\ Goto(n, IF r + 1 < Rows THEN "edge" ELSE "commit")
              /\ UNCHANGED fault
           \/ /\ Goto(n, "failing") /\ Inject
              /\ UNCHANGED cursor
        /\ UNCHANGED <<graphVars, facade, imported, priced, edges, writerVars>>

LeaveEdge(b) ==
    LET n == <<"search", b>>
    IN  /\ pc[n] = "edge"
        /\ \/ /\ edges' = [edges EXCEPT ![b] = TRUE]
              /\ Goto(n, "commit") /\ UNCHANGED fault
           \/ /\ Goto(n, "failing") /\ Inject
              /\ UNCHANGED edges
        /\ UNCHANGED <<graphVars, facade, cursor, imported, priced, writerVars>>

(* The last superblock of a row drops its facade. *)
Commit(b) ==
    LET n == <<"search", b>>
    IN  /\ pc[n] = "commit"
        /\ committed' = [committed EXCEPT ![b] = TRUE]
        /\ facade' = [facade EXCEPT ![b[1]] = (b[2] + 1 < Cols)]
        /\ Goto(n, IF threads = 0 THEN "done" ELSE "signal")
        /\ UNCHANGED <<graphVars, cursor, imported, priced, edges, next, fault>>

-----------------------------------------------------------------------------
(* A write. *)

TakeDecisions(b) ==
    LET n == <<"write", b>>
    IN  /\ pc[n] = "take"
        /\ committed' = [committed EXCEPT ![b] = FALSE]
        /\ \/ committed[b] /\ Goto(n, "write") /\ UNCHANGED fault
           \/ ~committed[b] /\ Goto(n, "failing") /\ Internal
        /\ UNCHANGED <<graphVars, rowVars, next>>

(* The writer codes its own next superblock, whatever the decisions. *)
Write(b) ==
    LET n == <<"write", b>>
    IN  /\ pc[n] = "write"
        /\ \/ /\ next' = Following(next)
              /\ Goto(n, IF threads = 0 THEN "done" ELSE "signal")
              /\ UNCHANGED fault
           \/ /\ Goto(n, "failing") /\ Inject
              /\ UNCHANGED next
        /\ UNCHANGED <<graphVars, rowVars, committed>>

-----------------------------------------------------------------------------
(* The end of a task on the pool, and of the whole tile. *)

(* Mutant: a successor can be counted down again. *)
SignalAgain(n) ==
    \E m \in Node :
        /\ pc[n] = "signal" /\ m \in left[n]
        /\ waiting' = [waiting EXCEPT ![m] = IF @ = 0 THEN 3 ELSE @ - 1]
        /\ pc' = [pc EXCEPT ![m] = IF waiting[m] = 1 THEN "queued" ELSE @]
        /\ UNCHANGED <<threads, left, failed, result, rowVars, writerVars, fault>>

(* fetch_sub: whoever counts a successor down to nothing spawns it. *)
Signal(n) ==
    \E m \in Node :
        /\ pc[n] = "signal" /\ m \in left[n]
        /\ left' = [left EXCEPT ![n] = @ \ {m}]
        /\ waiting' = [waiting EXCEPT ![m] = @ - 1]
        /\ pc' = [pc EXCEPT ![m] = IF waiting[m] = 1 THEN "queued" ELSE @]
        /\ UNCHANGED <<threads, failed, result, rowVars, writerVars, fault>>

EndTask(n) ==
    /\ pc[n] = "signal" /\ left[n] = {}
    /\ Goto(n, "done")
    /\ UNCHANGED <<graphVars, rowVars, writerVars, fault>>

(* Mutant: a node's error is dropped. *)
FailQuietly(n) ==
    /\ pc[n] = "failing"
    /\ Goto(n, "stopped")
    /\ UNCHANGED <<graphVars, rowVars, writerVars, fault>>

(* The first error is kept; a failed node counts nobody down. *)
Fail(n) ==
    /\ pc[n] = "failing"
    /\ failed' = TRUE
    /\ Goto(n, "stopped")
    /\ UNCHANGED <<threads, waiting, left, result, rowVars, writerVars, fault>>

(* The scope returns once no spawned task is left, the serial loop after   *)
(* its last node or its first error.                                       *)
Return ==
    /\ result = "none"
    /\ \A n \in Node : pc[n] \in {"waiting", "done", "stopped"}
    /\ threads = 0 => failed \/ \A n \in Node : pc[n] = "done"
    /\ result' = IF failed THEN "error" ELSE "ok"
    /\ UNCHANGED <<threads, pc, waiting, left, failed, rowVars, writerVars, fault>>

Terminated == result # "none" /\ UNCHANGED vars

Next ==
    \/ \E n \in Node : Start(n) \/ StartSerial(n) \/ Signal(n) \/ EndTask(n) \/ Fail(n)
    \/ \E b \in Block : \/ LockRow(b) \/ Import(b) \/ Search(b) \/ LeaveEdge(b) \/ Commit(b)
                        \/ TakeDecisions(b) \/ Write(b)
    \/ Return
    \/ Terminated

Spec == Init /\ [][Next]_vars

-----------------------------------------------------------------------------
(* Types; a node waits for two others at most. *)
TypeOK ==
    /\ threads \in 0 .. MaxThreads
    /\ pc \in [Node -> Points \cup {"waiting", "queued", "done", "stopped"}]
    /\ waiting \in [Node -> 0 .. 2]
    /\ left \in [Node -> SUBSET Node]
    /\ failed \in BOOLEAN
    /\ facade \in [Row -> BOOLEAN] /\ cursor \in [Row -> 0 .. Cols]
    /\ imported \in [Row -> 0 .. Cols] /\ priced \in [Row -> 0 .. Cols]
    /\ edges \in [Block -> BOOLEAN] /\ committed \in [Block -> BOOLEAN]
    /\ next \in (0 .. Rows) \X Col
    /\ fault \in {"none", "injected", "internal"}
    /\ result \in {"none", "ok", "error"}

(* No edge is imported before it is left or twice, no decision is written  *)
(* before it is committed or twice, no row runs past its end, and the      *)
(* graph is in index order: the code's own refusals (wavefront.rs:72, 81,  *)
(* 112, 197) are never the first error.                                    *)
EdgesAreThereOnce == fault # "internal"

(* "nothing it reads depends on which thread ran what" (wavefront.rs:7): a *)
(* search finds its row's facade at its own column, with the edges of the  *)
(* row above up to its top-right neighbour imported and the CDFs of that   *)
(* neighbour taken, however the tasks interleaved.                         *)
SearchReadsItsPlace ==
    \A b \in Block : pc[<<"search", b>>] = "search" =>
        /\ cursor[b[1]] = b[2]
        /\ b[1] > 0 => /\ imported[b[1]] = Least(b[2] + 2, Cols)
                       /\ priced[b[1]] = Least(b[2] + 1, Cols - 1)

(* "One writer then codes the committed superblocks in raster order"       *)
(* (wavefront.rs:13): a write finds the writer at its own superblock, and  *)
(* the writer is past exactly the superblocks that were written.           *)
WrittenInRasterOrder ==
    \A b \in Block :
        /\ pc[<<"write", b>>] = "write" => next = b
        /\ Above(b, next) <=> Ran(<<"write", b>>)

(* A tile is returned as coded only when every superblock was searched and *)
(* written, and an error is returned only for one that happened.           *)
TileIsWholeOrFails ==
    /\ result = "ok" => next = <<Rows, 0>> /\ \A n \in Node : pc[n] = "done"
    /\ result = "error" => fault # "none"
=============================================================================
