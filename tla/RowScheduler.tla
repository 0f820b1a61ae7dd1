---------------------------- MODULE RowScheduler ----------------------------
(***************************************************************************)
(* The row scheduler of crates/splot-parallel/src/rows.rs, one atomic      *)
(* memory access or one critical section per action.                       *)
(*                                                                         *)
(* Workers scan the live frames oldest first under the read half of the    *)
(* frames lock and claim one row of a frame's stage with an exchange on    *)
(* its running flag; the claimed row runs off the lock, publishes its      *)
(* progress, and the worker that finds the frame done pops finished frames *)
(* from the front of the queue.  A driver pushes frames and waits on a     *)
(* condition variable of its own; every publication raises a generation    *)
(* counter before it looks for somebody to signal.                         *)
(*                                                                         *)
(* Frames are numbered in push order, so the queue `live` is always the    *)
(* interval head+1 .. tail.  A frame has one stage of NumRows rows, as in  *)
(* the module's own tests; row r of frame f needs Lag rows more of the     *)
(* frame Needs[f] it depends on (0 is a counter outside the queue).        *)
(*                                                                         *)
(* A generation is only ever compared with the value the same thread read  *)
(* before, so it is kept as the set `fresh` of the threads whose observed  *)
(* value still equals it.  Memory is sequentially consistent.              *)
(***************************************************************************)
EXTENDS Naturals, FiniteSets

CONSTANTS
    Workers,     \* the row worker threads
    Drivers,     \* the threads that push frames and wait for them
    Publishers,  \* threads outside the scheduler that raise counter 0
    NumFrames,   \* frames pushed in all: the bound on `tail`
    NumRows,     \* rows of each frame's stage
    Lag,         \* rows of its input a row needs beyond its own index
    Depth,       \* reusable frame slots of one driver
    Owner,       \* the driver that pushes each frame
    Needs,       \* the older frame each frame reads, or 0
    Failing,     \* frames one of whose rows may fail
    Abandon      \* whether a driver may drop the scheduler with rows unrun

Frame  == 1 .. NumFrames
Thread == Workers \cup Drivers \cup Publishers

ASSUME ConstantsAssumption ==
    /\ NumFrames \in Nat /\ NumRows \in Nat \ {0} /\ Lag \in Nat \ {0}
    /\ Depth \in Nat \ {0}
    /\ Owner \in [Frame -> Drivers]
    /\ Needs \in [Frame -> 0 .. NumFrames]
    /\ \A f \in Frame : Needs[f] < f
    /\ Failing \subseteq Frame
    /\ Abandon \in BOOLEAN
    /\ Workers \cap Drivers = {}
    /\ Workers \cap Publishers = {}
    /\ Drivers \cap Publishers = {}

VARIABLES
    next,          \* Stage::next of each frame: the next row to run
    running,       \* Stage::running of each frame
    progress,      \* RowProgress value of each frame, and of counter 0
    head,          \* frames popped from the front of the queue
    tail,          \* frames pushed
    shutdown,      \* Frames::shutdown
    fresh,         \* threads whose observed generation is still current
    waiters,       \* workers registered in Core::waiters
    signaled,      \* Core::signaled
    driverParked,  \* Core::driver_parked
    park,          \* holder of the Core::park mutex, {} or a singleton
    pc,            \* control point of each thread
    ret,           \* where the running notify or pass_on returns to
    cur,           \* frame a worker asks, or whose handle it holds
    row,           \* row a worker read or claimed
    woken,         \* the worker's `woken` local
    all            \* the worker's `done` local and the `all` of its notify

stageVars == <<next, running, progress>>
queueVars == <<head, tail, shutdown>>
eventVars == <<fresh, waiters, signaled, driverParked, park>>
localVars == <<cur, row, woken, all>>
vars == <<stageVars, queueVars, eventVars, pc, ret, localVars>>

-----------------------------------------------------------------------------
(* Progress counters and readiness *)

FAILED == NumRows + 1

(* Rows of the input that row r needs before it can run. *)
Need(r) == IF r + Lag < NumRows THEN r + Lag ELSE NumRows

(* Mutant: the lag of the consumer behind its producer is forgotten. *)
ReadyWithoutLag(f, r) == progress[Needs[f]] >= r

Ready(f, r) == progress[Needs[f]] >= Need(r)

(* Stage::is_finished, which is the frame's FrameWork::done. *)
Done(f) == ~running[f] /\ next[f] >= NumRows

NotifyPoints  == {"bump", "peek", "knock", "count", "swap", "signal"}
ScanPoints    == {"scan", "next", "cas", "recheck"}
ClaimedPoints == {"pass", "passcheck", "run", "finish", "release"}

(* Workers that hold the read half of the frames lock. *)
Readers == {w \in Workers : pc[w] \in ScanPoints}

(* The claim of a worker is open from the exchange that wins the running   *)
(* flag to the store that clears it.                                       *)
Claimed(w) ==
    \/ pc[w] \in ClaimedPoints
    \/ pc[w] \in NotifyPoints /\ ret[w] \in {"run", "finish"}

Owns(w) == pc[w] = "recheck" \/ Claimed(w)

(* A worker holds an Arc of its frame until it drops it after done(). *)
Holds(w) == Claimed(w) \/ pc[w] \in {"done", "drop"}

(* Mutant: the driver waits for the queue's handle only. *)
SoleOwnerOfQueue(f) == f <= head

(* Arc::strong_count is 1: only the driver's own handle is left. *)
SoleOwner(f) == f <= head /\ \A w \in Workers : Holds(w) => cur[w] # f

-----------------------------------------------------------------------------
Goto(t, point) == pc' = [pc EXCEPT ![t] = point]

Init ==
    /\ next = [f \in Frame |-> 0]
    /\ running = [f \in Frame |-> FALSE]
    /\ progress = [f \in 0 .. NumFrames |->
                      IF f = 0 /\ Publishers = {} THEN NumRows ELSE 0]
    /\ head = 0 /\ tail = 0 /\ shutdown = FALSE
    /\ fresh = {} /\ waiters = {} /\ park = {}
    /\ signaled = FALSE /\ driverParked = FALSE
    /\ pc = [t \in Thread |-> IF t \in Publishers THEN "idle" ELSE "observe"]
    /\ ret = [t \in Thread |-> "observe"]
    /\ cur = [w \in Workers |-> 0]
    /\ row = [w \in Workers |-> 0]
    /\ woken = [w \in Workers |-> FALSE]
    /\ all = [t \in Thread |-> FALSE]

-----------------------------------------------------------------------------
(* Core::notify, Core::pass_on and Core::signal, run by any thread.        *)

CallNotify(t, back) ==
    /\ Goto(t, "bump")
    /\ ret' = [ret EXCEPT ![t] = back]

Bump(t) ==
    /\ pc[t] = "bump"
    /\ fresh' = {}
    /\ Goto(t, "peek")
    /\ UNCHANGED <<stageVars, queueVars, waiters, signaled, driverParked, park,
                   ret, localVars>>

Peek(t) ==
    /\ pc[t] = "peek"
    /\ Goto(t, IF driverParked THEN "knock" ELSE "count")
    /\ UNCHANGED <<stageVars, queueVars, eventVars, ret, localVars>>

(* driver_changed.notify_all under the park mutex *)
Knock(t) ==
    /\ pc[t] = "knock"
    /\ park = {}
    /\ pc' = [u \in Thread |-> IF u = t THEN "count"
                               ELSE IF u \in Drivers /\ pc[u] = "asleep"
                                    THEN "notified" ELSE pc[u]]
    /\ UNCHANGED <<stageVars, queueVars, eventVars, ret, localVars>>

Count(t) ==
    /\ pc[t] = "count"
    /\ Goto(t, IF waiters = {} THEN ret[t]
               ELSE IF all[t] THEN "signal" ELSE "swap")
    /\ UNCHANGED <<stageVars, queueVars, eventVars, ret, localVars>>

Swap(t) ==
    /\ pc[t] = "swap"
    /\ signaled' = TRUE
    /\ Goto(t, IF signaled THEN ret[t] ELSE "signal")
    /\ UNCHANGED <<stageVars, queueVars, fresh, waiters, driverParked, park,
                   ret, localVars>>

(* changed.notify_all or notify_one under the park mutex; which sleeper    *)
(* notify_one picks is left open.                                          *)
Signal(t) ==
    /\ pc[t] = "signal"
    /\ park = {}
    /\ LET asleep == {w \in Workers : pc[w] = "asleep"}
       IN  \E chosen \in SUBSET asleep :
             /\ IF all[t] THEN chosen = asleep
                ELSE Cardinality(chosen) = IF asleep = {} THEN 0 ELSE 1
             /\ pc' = [u \in Thread |-> IF u = t THEN ret[t]
                                        ELSE IF u \in chosen THEN "notified"
                                        ELSE pc[u]]
    /\ UNCHANGED <<stageVars, queueVars, eventVars, ret, localVars>>

NotifyStep(t) ==
    \/ Bump(t) \/ Peek(t) \/ Knock(t) \/ Count(t) \/ Swap(t) \/ Signal(t)

-----------------------------------------------------------------------------
(* Core::worker: observe the generation, scan, run, pop, notify.           *)

Observe(t) ==
    /\ pc[t] = "observe"
    /\ fresh' = fresh \cup {t}
    /\ Goto(t, IF t \in Drivers THEN "check" ELSE "lock")
    /\ all' = [all EXCEPT ![t] = FALSE]
    /\ UNCHANGED <<stageVars, queueVars, waiters, signaled, driverParked, park,
                   ret, cur, row, woken>>

Lock(w) ==
    /\ pc[w] = "lock"
    /\ cur' = [cur EXCEPT ![w] = head + 1]
    /\ Goto(w, "scan")
    /\ UNCHANGED <<stageVars, queueVars, eventVars, ret, row, woken, all>>

(* The frame has nothing for this worker: ask the next one. *)
NextFrame(w) ==
    /\ cur' = [cur EXCEPT ![w] = @ + 1]
    /\ Goto(w, "scan")

ScanEnd(w) ==
    /\ pc[w] = "scan"
    /\ cur[w] > tail
    /\ cur' = [cur EXCEPT ![w] = 0]
    /\ Goto(w, IF shutdown THEN "exited" ELSE "enlist")
    /\ UNCHANGED <<stageVars, queueVars, eventVars, ret, row, woken, all>>

(* Stage::claim, access by access *)
LoadRunning(w) ==
    /\ pc[w] = "scan"
    /\ cur[w] <= tail
    /\ IF running[cur[w]] THEN NextFrame(w) ELSE Goto(w, "next") /\ UNCHANGED cur
    /\ UNCHANGED <<stageVars, queueVars, eventVars, ret, row, woken, all>>

(* Mutant: no bound check, the row after the last one is claimed. *)
LoadNextUnbounded(w) ==
    LET r == next[cur[w]]
    IN  /\ pc[w] = "next"
        /\ IF Ready(cur[w], r)
           THEN /\ row' = [row EXCEPT ![w] = r]
                /\ Goto(w, "cas")
                /\ UNCHANGED cur
           ELSE NextFrame(w) /\ UNCHANGED row
        /\ UNCHANGED <<stageVars, queueVars, eventVars, ret, woken, all>>

LoadNext(w) ==
    LET r == next[cur[w]]
    IN  /\ pc[w] = "next"
        /\ IF r < NumRows /\ Ready(cur[w], r)
           THEN /\ row' = [row EXCEPT ![w] = r]
                /\ Goto(w, "cas")
                /\ UNCHANGED cur
           ELSE NextFrame(w) /\ UNCHANGED row
        /\ UNCHANGED <<stageVars, queueVars, eventVars, ret, woken, all>>

Exchange(w) ==
    /\ pc[w] = "cas"
    /\ IF running[cur[w]]
       THEN NextFrame(w) /\ UNCHANGED running
       ELSE /\ running' = [running EXCEPT ![cur[w]] = TRUE]
            /\ Goto(w, "recheck")
            /\ UNCHANGED cur
    /\ UNCHANGED <<next, progress, queueVars, eventVars, ret, row, woken, all>>

(* Mutant: the cursor is not read again after the exchange. *)
RecheckSkipped(w) ==
    /\ pc[w] = "recheck"
    /\ Goto(w, IF woken[w] THEN "pass" ELSE "run")
    /\ woken' = [woken EXCEPT ![w] = FALSE]
    /\ UNCHANGED <<stageVars, queueVars, eventVars, ret, cur, row, all>>

Recheck(w) ==
    /\ pc[w] = "recheck"
    /\ IF next[cur[w]] # row[w]
       THEN /\ running' = [running EXCEPT ![cur[w]] = FALSE]
            /\ NextFrame(w)
            /\ UNCHANGED woken
       ELSE /\ Goto(w, IF woken[w] THEN "pass" ELSE "run")
            /\ woken' = [woken EXCEPT ![w] = FALSE]
            /\ UNCHANGED <<running, cur>>
    /\ UNCHANGED <<next, progress, queueVars, eventVars, ret, row, all>>

PassOn(w) ==
    /\ pc[w] = "pass"
    /\ signaled' = TRUE
    /\ Goto(w, "passcheck")
    /\ UNCHANGED <<stageVars, queueVars, fresh, waiters, driverParked, park,
                   ret, localVars>>

PassCheck(w) ==
    /\ pc[w] = "passcheck"
    /\ Goto(w, IF waiters = {} THEN "run" ELSE "signal")
    /\ ret' = [ret EXCEPT ![w] = "run"]
    /\ UNCHANGED <<stageVars, queueVars, eventVars, localVars>>

(* FrameWork::run of the tests' Chain: RowProgress::publish, then finish. *)
RunRow(w) ==
    LET f == cur[w]
    IN  /\ pc[w] = "run"
        /\ \E value \in {row[w] + 1} \cup (IF f \in Failing THEN {FAILED} ELSE {}) :
             IF progress[f] < value
             THEN /\ progress' = [progress EXCEPT ![f] = value]
                  /\ CallNotify(w, "finish")
             ELSE Goto(w, "finish") /\ UNCHANGED <<progress, ret>>
        /\ UNCHANGED <<next, running, queueVars, eventVars, localVars>>

Finish(w) ==
    /\ pc[w] = "finish"
    /\ next' = [next EXCEPT ![cur[w]] = row[w] + 1]
    /\ Goto(w, "release")
    /\ UNCHANGED <<running, progress, queueVars, eventVars, ret, localVars>>

Release(w) ==
    /\ pc[w] = "release"
    /\ running' = [running EXCEPT ![cur[w]] = FALSE]
    /\ Goto(w, "done")
    /\ UNCHANGED <<next, progress, queueVars, eventVars, ret, localVars>>

(* is_finished loads the flag and then the cursor: a row that another      *)
(* worker ends in between reads as finished while the flag is still up.    *)
ReadDone(w) ==
    /\ pc[w] = "done"
    /\ \/ next[cur[w]] >= NumRows /\ all' = [all EXCEPT ![w] = TRUE]
       \/ ~Done(cur[w]) /\ all' = [all EXCEPT ![w] = FALSE]
    /\ Goto(w, "drop")
    /\ UNCHANGED <<stageVars, queueVars, eventVars, ret, cur, row, woken>>

DropHandle(w) ==
    /\ pc[w] = "drop"
    /\ cur' = [cur EXCEPT ![w] = 0]
    /\ row' = [row EXCEPT ![w] = 0]
    /\ IF all[w] THEN Goto(w, "pop") /\ UNCHANGED ret
                 ELSE CallNotify(w, "observe")
    /\ UNCHANGED <<stageVars, queueVars, eventVars, woken, all>>

(* Mutant: the generation is not raised after the pop. *)
PopQuietly(w) ==
    /\ pc[w] = "pop"
    /\ Readers = {}
    /\ \E h \in head .. tail :
         /\ \A f \in head + 1 .. h : Done(f)
         /\ h < tail => ~Done(h + 1)
         /\ head' = h
    /\ Goto(w, "observe")
    /\ UNCHANGED <<stageVars, tail, shutdown, eventVars, ret, localVars>>

(* The write half of the frames lock: no scan is open. *)
Pop(w) ==
    /\ pc[w] = "pop"
    /\ Readers = {}
    /\ \E h \in head .. tail :
         /\ \A f \in head + 1 .. h : Done(f)
         /\ h < tail => ~Done(h + 1)
         /\ head' = h
    /\ CallNotify(w, "observe")
    /\ UNCHANGED <<stageVars, tail, shutdown, eventVars, localVars>>

(* Core::wait_if_unchanged, the park mutex held from Enlist to Test. *)
Enlist(w) ==
    /\ pc[w] = "enlist"
    /\ park = {}
    /\ park' = {w}
    /\ waiters' = waiters \cup {w}
    /\ Goto(w, "clear")
    /\ UNCHANGED <<stageVars, queueVars, fresh, signaled, driverParked, ret, localVars>>

(* Mutant: a worker parks without clearing the pending-signal flag. *)
ClearForgotten(w) ==
    /\ pc[w] = "clear"
    /\ Goto(w, "test")
    /\ UNCHANGED <<stageVars, queueVars, eventVars, ret, localVars>>

Clear(w) ==
    /\ pc[w] = "clear"
    /\ signaled' = FALSE
    /\ Goto(w, "test")
    /\ UNCHANGED <<stageVars, queueVars, fresh, waiters, driverParked, park, ret, localVars>>

Leave(w) ==
    /\ waiters' = waiters \ {w}
    /\ woken' = [woken EXCEPT ![w] = TRUE]
    /\ Goto(w, "observe")

Test(w) ==
    /\ pc[w] = "test"
    /\ park' = {}
    /\ IF w \in fresh THEN Goto(w, "asleep") /\ UNCHANGED <<waiters, woken>>
                      ELSE Leave(w)
    /\ UNCHANGED <<stageVars, queueVars, fresh, signaled, driverParked, ret, cur, row, all>>

Wake(w) ==
    /\ w \in Workers
    /\ pc[w] = "notified"
    /\ park = {}
    /\ Leave(w)
    /\ UNCHANGED <<stageVars, queueVars, fresh, signaled, driverParked, park, ret, cur, row, all>>

WorkerStep(w) ==
    \/ Observe(w) \/ Lock(w) \/ ScanEnd(w)
    \/ LoadRunning(w) \/ LoadNext(w) \/ Exchange(w) \/ Recheck(w)
    \/ PassOn(w) \/ PassCheck(w) \/ RunRow(w) \/ Finish(w) \/ Release(w)
    \/ ReadDone(w) \/ DropHandle(w) \/ Pop(w)
    \/ Enlist(w) \/ Clear(w) \/ Test(w) \/ Wake(w)
    \/ NotifyStep(w)

-----------------------------------------------------------------------------
(* A driver: SplitFrames::reserve, push and drain over RowScheduler::push, *)
(* wait and drop.                                                          *)

Mine(d) == {f \in Frame : Owner[f] = d}

Rank(f) == Cardinality({g \in 1 .. f : Owner[g] = Owner[f]})

(* What the driver waits for: before a push, the slot that frame reuses;   *)
(* once it pushed its last frame, every slot.                              *)
Satisfied(d) ==
    LET left == {f \in Mine(d) : f > tail}
    IN  IF left = {} THEN \A g \in Mine(d) : SoleOwner(g)
        ELSE \A g \in Mine(d) \ left :
                (\A f \in left : Rank(g) + Depth <= Rank(f)) => SoleOwner(g)

Check(d) ==
    /\ pc[d] = "check"
    /\ \/ /\ Satisfied(d)
          /\ Goto(d, IF \E f \in Mine(d) : f > tail THEN "push" ELSE "close")
       \/ ~Satisfied(d) /\ Goto(d, "dpark")
       \/ Abandon /\ Goto(d, "close")
    /\ UNCHANGED <<stageVars, queueVars, eventVars, ret, localVars>>

Push(d) ==
    /\ pc[d] = "push"
    /\ Readers = {}
    /\ tail < NumFrames
    /\ Owner[tail + 1] = d
    /\ tail' = tail + 1
    /\ CallNotify(d, "observe")
    /\ UNCHANGED <<stageVars, head, shutdown, eventVars, localVars>>

(* Core::wait_driver_if_unchanged, the park mutex held until DriverTest. *)
DriverPark(d) ==
    /\ pc[d] = "dpark"
    /\ park = {}
    /\ park' = {d}
    /\ driverParked' = TRUE
    /\ Goto(d, "dtest")
    /\ UNCHANGED <<stageVars, queueVars, fresh, waiters, signaled, ret, localVars>>

DriverTest(d) ==
    /\ pc[d] = "dtest"
    /\ park' = {}
    /\ IF d \in fresh THEN Goto(d, "asleep") /\ UNCHANGED driverParked
                      ELSE Goto(d, "observe") /\ driverParked' = FALSE
    /\ UNCHANGED <<stageVars, queueVars, fresh, waiters, signaled, ret, localVars>>

DriverWake(d) ==
    /\ d \in Drivers
    /\ pc[d] = "notified"
    /\ park = {}
    /\ driverParked' = FALSE
    /\ Goto(d, "observe")
    /\ UNCHANGED <<stageVars, queueVars, fresh, waiters, signaled, park, ret, localVars>>

(* The last driver's handle drops the scheduler. *)
Close(d) ==
    /\ pc[d] = "close"
    /\ IF \E e \in Drivers \ {d} : pc[e] # "gone"
       THEN Goto(d, "gone") /\ UNCHANGED <<shutdown, all, ret>>
       ELSE /\ Readers = {}
            /\ shutdown' = TRUE
            /\ all' = [all EXCEPT ![d] = TRUE]
            /\ CallNotify(d, "join")
    /\ UNCHANGED <<stageVars, head, tail, eventVars, cur, row, woken>>

Join(d) ==
    /\ pc[d] = "join"
    /\ \A w \in Workers : pc[w] = "exited"
    /\ Goto(d, "gone")
    /\ UNCHANGED <<stageVars, queueVars, eventVars, ret, localVars>>

DriverStep(d) ==
    \/ Observe(d) \/ Check(d) \/ Push(d) \/ DriverPark(d) \/ DriverTest(d)
    \/ DriverWake(d) \/ Close(d) \/ Join(d) \/ NotifyStep(d)

(* RowProgress::publish by a thread outside the scheduler. *)
Publish(e) ==
    /\ pc[e] = "idle"
    /\ \E value \in 1 .. NumRows :
         /\ progress[0] < value
         /\ progress' = [progress EXCEPT ![0] = value]
    /\ CallNotify(e, "idle")
    /\ UNCHANGED <<next, running, queueVars, eventVars, localVars>>

PublisherStep(e) == Publish(e) \/ NotifyStep(e)

Terminated ==
    /\ \A d \in Drivers : pc[d] = "gone"
    /\ \A e \in Publishers : pc[e] = "idle"
    /\ UNCHANGED vars

Next ==
    \/ \E w \in Workers : WorkerStep(w)
    \/ \E d \in Drivers : DriverStep(d)
    \/ \E e \in Publishers : PublisherStep(e)
    \/ Terminated

Spec == Init /\ [][Next]_vars

(* Every thread the operating system runs keeps running; a mutex or the    *)
(* frames lock that is free often enough is eventually acquired.           *)
Fairness ==
    /\ \A w \in Workers : WF_vars(WorkerStep(w))
    /\ \A d \in Drivers : WF_vars(DriverStep(d))
    /\ \A e \in Publishers : WF_vars(PublisherStep(e))

FairSpec == Spec /\ Fairness

-----------------------------------------------------------------------------
(* Properties *)

Points == NotifyPoints \cup ScanPoints \cup ClaimedPoints \cup
    {"observe", "lock", "done", "drop", "pop", "enlist", "clear", "test",
     "asleep", "notified", "exited", "check", "push", "dpark", "dtest",
     "close", "join", "gone", "idle"}

StageType ==
    /\ next \in [Frame -> 0 .. NumRows]
    /\ running \in [Frame -> BOOLEAN]
    /\ progress \in [0 .. NumFrames -> 0 .. FAILED]

QueueType ==
    /\ tail \in 0 .. NumFrames
    /\ head \in 0 .. tail
    /\ shutdown \in BOOLEAN

EventType ==
    /\ fresh \subseteq Thread /\ waiters \subseteq Workers
    /\ signaled \in BOOLEAN /\ driverParked \in BOOLEAN
    /\ park = {} \/ \E t \in Thread : park = {t}

ControlType ==
    /\ pc \in [Thread -> Points]
    /\ ret \in [Thread -> {"run", "finish", "observe", "join", "idle"}]

LocalType ==
    /\ cur \in [Workers -> 0 .. NumFrames + 1]
    /\ row \in [Workers -> 0 .. NumRows]
    /\ woken \in [Workers -> BOOLEAN]
    /\ all \in [Thread -> BOOLEAN]

(* Every variable has its type; the park mutex has one holder at most. *)
TypeOK == StageType /\ QueueType /\ EventType /\ ControlType /\ LocalType

(* Two scanners never run the same row and a stage runs one row at a time  *)
(* (rows.rs:9-11, 94-95): the claimed rows of one frame belong to one      *)
(* worker, and until it stores the next row it runs the row the cursor is  *)
(* at, even when a stale exchange briefly raised the running flag.         *)
OneRowAtATime ==
    \A w \in Workers : Claimed(w) =>
        /\ \A v \in Workers \ {w} : Claimed(v) => cur[v] # cur[w]
        /\ running[cur[w]]
        /\ pc[w] # "release" => next[cur[w]] = row[w]

(* What the claim protocol keeps: a claim that won the exchange holds the  *)
(* running flag alone, its row was ready, and the cursor waits for it.     *)
ClaimOf(w) ==
    /\ pc[w] = "scan" => cur[w] \in 1 .. tail + 1
    /\ pc[w] \in {"next", "cas"} \/ Owns(w) \/ Holds(w) => cur[w] \in 1 .. tail
    /\ pc[w] = "cas" \/ Owns(w) => row[w] < NumRows /\ Ready(cur[w], row[w])
    /\ Owns(w) => running[cur[w]]
    /\ Claimed(w) /\ pc[w] # "release" => next[cur[w]] = row[w]

ClaimInv ==
    /\ \A w \in Workers : ClaimOf(w)
    /\ \A v, w \in Workers : v # w /\ Owns(v) /\ Owns(w) => cur[v] # cur[w]

(* A row runs only after the rows of its input frame it reads are          *)
(* published, however long the claim took after it read the counter.       *)
RowsRunAfterTheirInputs ==
    \A w \in Workers : Claimed(w) => progress[Needs[cur[w]]] >= Need(row[w])

(* No worker scans or holds a frame whose slot the driver has reused, so   *)
(* the exclusive reset of a slot never races a claim.                      *)
ReusedSlotIsUnreachable ==
    \A g \in 1 .. tail : (\E f \in 1 .. tail : Owner[f] = Owner[g] /\ Rank(g) + Depth <= Rank(f))
        => /\ g <= head
           /\ \A w \in Workers : cur[w] = g => ~Owns(w) /\ ~Holds(w) /\ pc[w] \notin ScanPoints

(* A publication is never lost between a look and a park (rows.rs:16-18,   *)
(* 290-292): when every worker sleeps unsignaled and no thread is still    *)
(* publishing, no live frame has a row that could run, and a sleeping      *)
(* driver whose observed generation is stale has a publisher on its way to *)
(* signal it.                                                              *)
NoWakeupIsLost ==
    /\ (/\ \A w \in Workers : pc[w] = "asleep"
        /\ \A t \in Thread : pc[t] \notin NotifyPoints)
       => \A f \in head + 1 .. tail :
              running[f] \/ next[f] >= NumRows \/ ~Ready(f, next[f])
    /\ \A d \in Drivers : pc[d] = "asleep" /\ d \notin fresh =>
           \E t \in Thread : pc[t] \in {"peek", "knock"}

(* The scheduler implements RowPipeline: a claim that passed its second    *)
(* read of the cursor is the start of a row, the store to the cursor its   *)
(* end, and every lock, signal and wake-up a stutter.                      *)
Pipeline == INSTANCE RowPipeline WITH
    pushed    <- tail,
    rowsRun   <- next,
    active    <- {f \in Frame : \E w \in Workers :
                    cur[w] = f /\ Claimed(w) /\ pc[w] # "release"},
    published <- progress

ImplementsRowPipeline == Pipeline!Spec

(* The cursor of a stage only ever moves to the following row. *)
CursorMovesRowByRow ==
    [][\A f \in Frame : next'[f] \in {next[f], next[f] + 1}]_next

(* Every row of every pushed frame eventually runs ("completes without     *)
(* deadlock", rows.rs:884), whichever worker ran the rows before it, unless *)
(* the scheduler is dropped first; the driver gets every frame back, and   *)
(* the dropped scheduler stops and joins its workers, also those that wait *)
(* on rows nobody publishes (rows.rs:870): no wait lasts for ever.         *)
NothingWaitsForever ==
    /\ \A f \in Frame : tail >= f ~> (next[f] = NumRows \/ shutdown)
    /\ <>(\A d \in Drivers : pc[d] = "gone")

(* "finished frames leave the queue" (rows.rs:818): the driver that waits  *)
(* to be the sole owner of a finished frame sees it leave (rows.rs:274).   *)
FinishedFramesLeave ==
    \A f \in Frame :
        (tail >= f /\ \A g \in 1 .. f : next[g] = NumRows) ~> head >= f
=============================================================================
