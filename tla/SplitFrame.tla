----------------------------- MODULE SplitFrame -----------------------------
(***************************************************************************)
(* One split inter frame as the row scheduler runs it (frame_tasks.rs,     *)
(* SplitFrame): nine stages that hand their products on through the slot's *)
(* own state, over the state of the tile they decode (ParseProgress,       *)
(* ScheduledTileRecon and MotionFieldUnits).  Several frames are in flight *)
(* and a frame waits for what the frame it refers to publishes: entropy    *)
(* products, motion-field metadata and bands, filtered rows, its slot.     *)
(*                                                                         *)
(* A worker looks at a frame, claims one row of one stage and runs it; the *)
(* parking and waking of workers is module RowScheduler's.  A unit, a      *)
(* batch, a band, a link and a stripe are their numbers, from 0.           *)
(***************************************************************************)
EXTENDS Naturals, FiniteSets

CONSTANTS
    NumFrames,   \* split frames of the stream: bounds the run
    Workers,     \* the scheduler's threads
    Depth,       \* SplitFrames::depth: slots, used in turn
    Ref,         \* the frame a frame refers to, 0 for decoded frames only
    Rows,        \* superblock rows, and so motion bands
    Cols,        \* superblocks of a row
    BatchUnits,  \* RECON_BATCH_UNITS, 4 in the code
    Stripes,     \* final-filter stripes
    Reach,       \* stripes below its own row that a unit may refer to
    Faulty       \* the <<frame, stage>> whose own data may be refused

Frames == 1 .. NumFrames

ASSUME SplitAssumption ==
    /\ NumFrames \in Nat /\ Depth \in Nat \ {0} /\ BatchUnits \in Nat \ {0}
    /\ Rows \in Nat \ {0} /\ Cols \in Nat \ {0} /\ Stripes \in Nat \ {0} /\ Reach \in Nat
    /\ Ref \in [Frames -> Nat] /\ \A f \in Frames : Ref[f] < f

Serial == {"PARSE", "PREPARE", "ATTACH", "RESOLVE", "COMMIT", "FRONTIER", "OUTPUT"}
Parallel == {"PRECOMPUTE", "FILTER"}
Stages == Serial \union Parallel

ASSUME FaultyAssumption == Faulty \subseteq Frames \X Stages

(* A tile's units are its superblocks and one that ends it.                *)
Units == Rows * Cols + 1
Links == (Units + Cols - 1) \div Cols

(* Watermark and publication values.                                       *)
FAILED == Units + 1
Publication == {"open", "ok", "failed"}

BatchesPerRow == (Cols + BatchUnits - 1) \div BatchUnits
NumBatches == Rows * BatchesPerRow + 1
Batches == 0 .. NumBatches - 1
Bands == 0 .. Rows - 1

RowOf(batch) == batch \div BatchesPerRow
LastBatch(batch) == batch = NumBatches - 1

BatchEnd(batch) ==
    LET units == ((batch % BatchesPerRow) + 1) * BatchUnits
    IN  IF LastBatch(batch) THEN Units
        ELSE RowOf(batch) * Cols + (IF units < Cols THEN units ELSE Cols)

VARIABLES
    armed,   \* frames handed to the scheduler, in stream order
    work,    \* what every worker does
    slot,    \* SplitFrame and the tile it decodes, for every frame in flight
    pub      \* what every frame has published
vars == <<armed, work, slot, pub>>

Idle == [pc |-> "idle", frame |-> 0, stage |-> "PARSE", row |-> 0]

Fresh ==
    [next |-> [s \in Stages |-> 0], early |-> "none", finish |-> "none",
     deferred |-> "none", recon |-> FALSE, attached |-> FALSE, parsed |-> 0, water |-> 0,
     pulled |-> 0, resolved |-> 0, batches |-> 0, awaiting |-> 0, landed |-> {},
     spine |-> TRUE, closed |-> 0, nextStripe |-> 0, ready |-> {}, ran |-> {},
     output |-> "none", filterError |-> FALSE, failed |-> FALSE]

Unpublished ==
    [entropy |-> "open", metadata |-> "open", bands |-> [b \in Bands |-> "open"],
     stripes |-> {}, slot |-> "open"]

Init ==
    /\ armed = 0
    /\ work = [w \in Workers |-> Idle]
    /\ slot = [f \in Frames |-> Fresh]
    /\ pub = [f \in Frames |-> Unpublished]

-----------------------------------------------------------------------------
(* Claims.                                                                 *)

(* Stage::running, ParallelStage's RUNNING: claimed rows not finished yet. *)
Claimed(f, s) ==
    {work[w].row : w \in {v \in Workers :
        /\ work[v].frame = f /\ work[v].stage = s
        /\ work[v].pc \in {"run", "parse", "publish", "loop", "ok", "retry", "error"}}}

RowsOf(f, s) ==
    CASE s \in {"PARSE", "PREPARE", "ATTACH", "OUTPUT"} -> 1
      [] ~slot[f].recon -> 0
      [] s = "RESOLVE" -> Rows
      [] s \in {"PRECOMPUTE", "COMMIT"} -> NumBatches
      [] s = "FRONTIER" -> Links
      [] s = "FILTER" -> Stripes

StripeSet == 0 .. Stripes - 1

(* Mutant: the filter stage is finished when no stripe waits or runs.      *)
IsFinishedIdle(f, s) ==
    /\ Claimed(f, s) = {}
    /\ IF s = "FILTER" THEN slot[f].ready = {} ELSE slot[f].next[s] >= RowsOf(f, s)

(* Stage::is_finished; a parallel stage is when each of its rows has run.  *)
IsFinished(f, s) ==
    IF s = "FILTER" THEN slot[f].recon => slot[f].ran = StripeSet
    ELSE Claimed(f, s) = {} /\ slot[f].next[s] >= RowsOf(f, s)

(* ParallelStage::is_done; rows are claimed in order.                      *)
PrecomputeDone(f, batch) ==
    batch < slot[f].next["PRECOMPUTE"] /\ batch \notin Claimed(f, "PRECOMPUTE")

(* A reference that was decoded before the run has published everything.   *)
Decoded ==
    [entropy |-> "ok", metadata |-> "ok", bands |-> [b \in Bands |-> "ok"],
     stripes |-> StripeSet, slot |-> "ok"]

RefPub(f) == IF Ref[f] = 0 THEN Decoded ELSE pub[Ref[f]]
RefEntropy(f) == RefPub(f).entropy
RefMetadata(f) == RefPub(f).metadata
RefBand(f, band) == RefPub(f).bands[band]
RefSlot(f) == RefPub(f).slot

(* The reference has published the rows a batch refers to.                 *)
RefRowsPublished(f, batch) ==
    ~LastBatch(batch) =>
        \A stripe \in StripeSet :
            stripe <= RowOf(batch) + Reach => stripe \in RefPub(f).stripes

(* Mutant: a batch does not wait for the rows it refers to.               *)
EagerBatchReady(f, batch) ==
    /\ slot[f].water >= BatchEnd(batch)
    /\ BatchEnd(batch) <= slot[f].resolved

(* PreparedReconTile::batch_ready.  The reference's failure opens it too:  *)
(* the batch then fails instead of waiting.                                *)
BatchReady(f, batch) ==
    /\ slot[f].water >= BatchEnd(batch)
    /\ BatchEnd(batch) <= slot[f].resolved
    /\ RefRowsPublished(f, batch) \/ RefSlot(f) # "open"

CanRun(f, s, row) ==
    LET d == slot[f]
    IN  CASE s = "PARSE" -> RefEntropy(f) # "open"
          [] s = "PREPARE" -> d.early # "none" /\ RefMetadata(f) # "open"
          [] s = "ATTACH" -> d.deferred # "none" /\ d.recon
          [] s = "RESOLVE" -> d.water >= d.awaiting /\ RefBand(f, row) # "open"
          [] s = "COMMIT" -> PrecomputeDone(f, row)
          [] s = "FRONTIER" -> d.attached /\ row < d.closed
          [] s = "FILTER" -> row \in d.ready
          [] s = "PRECOMPUTE" -> row < d.batches /\ BatchReady(f, row)
          [] s = "OUTPUT" ->
                /\ d.output # "none"
                /\ IsFinished(f, "FRONTIER") /\ IsFinished(f, "FILTER")

(* The row a stage would give away: the next one, the first ready stripe.  *)
NextRow(f, s) ==
    LET ready == slot[f].ready
    IN  IF s # "FILTER" THEN slot[f].next[s]
        ELSE CHOOSE k \in ready \union {Stripes} : \A j \in ready : k <= j

(* Stage::claim and ParallelStage::claim and claim_ready: one row of an    *)
(* ordered stage at a time.                                                *)
Claimable(f, s) ==
    /\ NextRow(f, s) < RowsOf(f, s)
    /\ s \in Serial => Claimed(f, s) = {}
    /\ CanRun(f, s, NextRow(f, s))

Offers(f) == {s \in Stages : Claimable(f, s)}

-----------------------------------------------------------------------------
(* Workers and rows.                                                       *)

MayFail(f, s) == <<f, s>> \in Faulty

(* A frame leaves the scheduler when it is done; its slot stays its own    *)
(* until the driver takes it for the frame Depth later.                    *)
InFlight(f) == f <= armed /\ f + Depth > armed
Done(f) == slot[f].failed \/ IsFinished(f, "OUTPUT")
Holds(w, f) == work[w].pc # "idle" /\ work[w].frame = f

(* SplitFrame::claim begins on a frame that has not failed.  The predicates *)
(* of its stages are read one after the other, so any of them may be the   *)
(* one that is found to hold, and the frame may fail meanwhile.            *)
Look(w, f) ==
    /\ work[w].pc = "idle" /\ InFlight(f) /\ ~slot[f].failed
    /\ Offers(f) # {}
    /\ work' = [work EXCEPT ![w] = [Idle EXCEPT !.pc = "look", !.frame = f]]
    /\ UNCHANGED <<armed, slot, pub>>

(* A worker starts a row; a parallel stage has others to give away.        *)
Starts(w, f, s, row) ==
    /\ work' = [work EXCEPT ![w] = [pc |-> "run", frame |-> f, stage |-> s, row |-> row]]
    /\ slot' = CASE s = "PRECOMPUTE" -> [slot EXCEPT ![f].next[s] = row + 1]
                 [] s = "FILTER" -> [slot EXCEPT ![f].ready = @ \ {row}]
                 [] OTHER -> slot
    /\ UNCHANGED <<armed, pub>>

Claim(w) ==
    /\ work[w].pc = "look"
    /\ \E s \in Offers(work[w].frame) :
           Starts(w, work[w].frame, s, NextRow(work[w].frame, s))

(* The stages were claimed by others since: the claim is None.             *)
FindNothing(w) ==
    /\ work[w].pc = "look"
    /\ Offers(work[w].frame) = {}
    /\ work' = [work EXCEPT ![w] = Idle]
    /\ UNCHANGED <<armed, slot, pub>>

Runs(w, s) == work[w].pc = "run" /\ work[w].stage = s

(* The row of worker w is at pc, its frame's slot state is now d.          *)
Goes(w, pc, d) ==
    /\ work' = [work EXCEPT ![w].pc = pc]
    /\ slot' = [slot EXCEPT ![work[w].frame] = d]
    /\ UNCHANGED armed

Publishes(w, p) == pub' = [pub EXCEPT ![work[w].frame] = p]

(* A publication keeps the first value it was set to.                      *)
Set(old, new) == IF old = "open" THEN new ELSE old

-----------------------------------------------------------------------------
(* The parse: its start, its units one by one, its end.  A start that is   *)
(* refused may have published the metadata by then.                        *)

ParseStart(w) ==
    LET f == work[w].frame
        d == [slot[f] EXCEPT !.finish = "held"]
    IN  /\ Runs(w, "PARSE")
        /\ \/ /\ RefEntropy(f) = "ok"
              /\ Goes(w, "parse", [d EXCEPT !.early = "held"])
              /\ Publishes(w, [pub[f] EXCEPT !.metadata = Set(@, "ok")])
           \/ /\ RefEntropy(f) = "failed" \/ MayFail(f, "PARSE")
              /\ Goes(w, "error", d)
              /\ \E metadata \in {"open", "ok"} :
                     Publishes(w, [pub[f] EXCEPT !.entropy = "failed", !.metadata = metadata])

(* Mutant: the watermark is raised before the row is pushed.               *)
ParseUnitLate(w) ==
    LET d == slot[work[w].frame]
    IN  /\ work[w].pc = "parse" /\ d.parsed < Units
        /\ \/ /\ d.water = d.parsed
              /\ Goes(w, "parse", [d EXCEPT !.water = d.parsed + 1])
           \/ /\ d.water > d.parsed
              /\ Goes(w, "publish", [d EXCEPT !.parsed = @ + 1])
        /\ UNCHANGED pub

(* The row is pushed first, then the watermark is raised.                  *)
ParseUnit(w) ==
    LET d == slot[work[w].frame]
    IN  /\ work[w].pc = "parse" /\ d.parsed < Units
        /\ Goes(w, "publish", [d EXCEPT !.parsed = @ + 1])
        /\ UNCHANGED pub

PublishUnit(w) ==
    LET d == slot[work[w].frame]
    IN  /\ work[w].pc = "publish"
        /\ Goes(w, "parse", [d EXCEPT !.water = IF @ < d.parsed THEN d.parsed ELSE @])
        /\ UNCHANGED pub

(* A refused unit: the products are dropped with the walk.                 *)
ParseFails(w) ==
    LET f == work[w].frame
    IN  /\ work[w].pc = "parse" /\ MayFail(f, "PARSE")
        /\ Goes(w, "error", [slot[f] EXCEPT !.water = FAILED])
        /\ Publishes(w, [pub[f] EXCEPT !.entropy = "failed"])

ParseEnds(w) ==
    LET f == work[w].frame
    IN  /\ work[w].pc = "parse" /\ slot[f].parsed = Units
        /\ Goes(w, "ok", [slot[f] EXCEPT !.deferred = "held"])
        /\ Publishes(w, [pub[f] EXCEPT !.entropy = "ok"])

-----------------------------------------------------------------------------
(* The set-up of the reconstruction and of its filters.                    *)

Prepare(w) ==
    LET f == work[w].frame
        d == [slot[f] EXCEPT !.early = "taken"]
    IN  /\ Runs(w, "PREPARE")
        /\ \/ /\ slot[f].early = "held" /\ slot[f].finish = "held" /\ RefMetadata(f) = "ok"
              /\ Goes(w, "ok", [d EXCEPT !.recon = TRUE])
           \/ /\ \/ slot[f].early # "held" \/ slot[f].finish # "held"
                 \/ RefMetadata(f) = "failed" \/ MayFail(f, "PREPARE")
              /\ Goes(w, "error", d)
        /\ UNCHANGED pub

Attach(w) ==
    LET f == work[w].frame
        d == [slot[f] EXCEPT !.deferred = "taken"]
    IN  /\ Runs(w, "ATTACH")
        /\ \/ /\ slot[f].deferred = "held"
              /\ Goes(w, "ok", [d EXCEPT !.attached = TRUE])
           \/ /\ slot[f].deferred # "held" \/ MayFail(f, "ATTACH")
              /\ Goes(w, "error", d)
        /\ UNCHANGED pub

-----------------------------------------------------------------------------
(* One temporal band: project it, pull what the parse has pushed, resolve  *)
(* the units the band covers.                                              *)

Project(w) ==
    LET f == work[w].frame
    IN  /\ Runs(w, "RESOLVE")
        /\ IF RefBand(f, work[w].row) = "ok"
           THEN Goes(w, "loop", [slot[f] EXCEPT !.pulled = slot[f].parsed])
           ELSE Goes(w, "error", slot[f])
        /\ UNCHANGED pub

(* Units a band resolves: its own rows', every pulled one for the last.    *)
Resolvable(d, band) ==
    IF band = Rows - 1 \/ d.pulled < (band + 1) * Cols THEN d.pulled ELSE (band + 1) * Cols

(* Mutant: a band that ran out of parsed units is not claimed again.      *)
ResolveOnce(w) ==
    LET f == work[w].frame
        d == slot[f]
        units == Resolvable(d, work[w].row)
    IN  /\ work[w].pc = "loop"
        /\ Goes(w, "ok", [d EXCEPT !.resolved = units, !.awaiting = 0,
                                   !.batches = Cardinality({b \in Batches : BatchEnd(b) <= units})])
        /\ UNCHANGED pub

(* A band that ran out of parsed units gives its row back, and is owed     *)
(* until one unit more is parsed.                                          *)
Resolve(w) ==
    LET f == work[w].frame
        d == slot[f]
        units == Resolvable(d, work[w].row)
        owed == units = d.pulled /\ units < Units /\ d.water # FAILED
    IN  /\ work[w].pc = "loop"
        /\ Goes(w, IF owed THEN "retry" ELSE "ok",
                [d EXCEPT !.resolved = units, !.awaiting = IF owed THEN units + 1 ELSE 0,
                          !.batches = Cardinality({b \in Batches : BatchEnd(b) <= units})])
        /\ UNCHANGED pub

-----------------------------------------------------------------------------
(* The reconstruction: batches are computed on their own and committed in  *)
(* order; a band is published when every unit of its row has landed.       *)

Lands(f, landed) ==
    [pub[f] EXCEPT !.bands = [b \in Bands |->
        IF \A k \in Batches : RowOf(k) = b => k \in landed THEN Set(@[b], "ok") ELSE @[b]]]

(* An error of a unit is recorded in it and found by its commit.  A failed *)
(* reference may have published the rows before it failed.                 *)
Precompute(w) ==
    LET f == work[w].frame
        batch == work[w].row
        d == slot[f]
        landed == d.landed \union {batch}
    IN  /\ Runs(w, "PRECOMPUTE")
        /\ \/ /\ d.resolved >= BatchEnd(batch)
              /\ RefSlot(f) = "failed" => RefRowsPublished(f, batch)
              /\ Goes(w, "ok", [d EXCEPT !.landed = landed])
              /\ Publishes(w, Lands(f, landed))
           \/ /\ RefSlot(f) = "failed" \/ MayFail(f, "PRECOMPUTE")
              /\ Goes(w, "ok", d)
              /\ UNCHANGED pub
           \/ /\ d.resolved < BatchEnd(batch)
              /\ Goes(w, "error", d)
              /\ UNCHANGED pub

(* closed_frontier_rows after a batch.                                     *)
ClosedLinks(batch) == IF LastBatch(batch) THEN Links ELSE BatchEnd(batch) \div Cols

(* The spine is taken and put back only by a commit that succeeds and has  *)
(* units left.                                                             *)
Commit(w) ==
    LET f == work[w].frame
        batch == work[w].row
        d == slot[f]
    IN  /\ Runs(w, "COMMIT")
        /\ \/ /\ d.spine /\ batch \in d.landed
              /\ Goes(w, "ok", [d EXCEPT !.spine = ~LastBatch(batch), !.closed = ClosedLinks(batch)])
           \/ /\ ~d.spine \/ batch \notin d.landed \/ MayFail(f, "COMMIT")
              /\ Goes(w, "error", [d EXCEPT !.spine = FALSE])
        /\ UNCHANGED pub

-----------------------------------------------------------------------------
(* The deblock frontier, the stripes it releases and the frame's output.   *)

(* A link reaches one row less than is sealed, the last one reaches all.   *)
StripesAfter(link) ==
    IF link = Links - 1 \/ link > Stripes THEN Stripes ELSE link

(* A link that fails has made some of its stripes' jobs and drops them: the *)
(* cursor has passed those stripes and none of them becomes ready.  The    *)
(* rows and stripes it has not come to are the next link's.                *)
Frontier(w) ==
    LET f == work[w].frame
        link == work[w].row
        d == slot[f]
        reached == [d EXCEPT !.nextStripe = StripesAfter(link)]
    IN  /\ Runs(w, "FRONTIER")
        /\ \/ /\ d.attached
              /\ Goes(w, "ok",
                     [reached EXCEPT !.ready = @ \union (d.nextStripe .. StripesAfter(link) - 1),
                                     !.output = IF link = Links - 1 THEN "held" ELSE @])
           \/ /\ ~d.attached \/ MayFail(f, "FRONTIER")
              /\ \E n \in d.nextStripe .. StripesAfter(link) :
                     Goes(w, "error", [d EXCEPT !.nextStripe = n])
        /\ UNCHANGED pub

(* A stripe's own error is kept for the output.                            *)
FilterStripe(w) ==
    LET f == work[w].frame
    IN  /\ Runs(w, "FILTER")
        /\ \/ /\ Goes(w, "ok", slot[f])
              /\ Publishes(w, [pub[f] EXCEPT !.stripes = @ \union {work[w].row}])
           \/ /\ MayFail(f, "FILTER")
              /\ Goes(w, "ok", [slot[f] EXCEPT !.filterError = TRUE])
              /\ UNCHANGED pub

(* run_owned_finish settles the slot whether it succeeds or not.           *)
Output(w) ==
    LET f == work[w].frame
        d == slot[f]
        taken == [d EXCEPT !.finish = "taken", !.output = "taken"]
    IN  /\ Runs(w, "OUTPUT")
        /\ \/ /\ d.filterError \/ d.finish # "held" \/ d.output # "held"
              /\ Goes(w, "error", [d EXCEPT !.filterError = FALSE]) /\ UNCHANGED pub
           \/ /\ ~d.filterError /\ d.finish = "held" /\ d.output = "held"
              /\ Goes(w, "ok", taken)
              /\ \/ Publishes(w, [pub[f] EXCEPT !.slot = "ok"])
                 \/ MayFail(f, "OUTPUT") /\ Publishes(w, [pub[f] EXCEPT !.slot = "failed"])

-----------------------------------------------------------------------------
(* After the row: it is finished in its stage, then a failed one fails the *)
(* frame and a batch goes on to its commit, a commit to its frontier link. *)

Finish(w) ==
    LET f == work[w].frame
        s == work[w].stage
        outcome == work[w].pc
        after == CASE outcome = "error" -> "fail"
                   [] outcome = "ok" /\ s \in {"PRECOMPUTE", "COMMIT"} -> "chain"
                   [] OTHER -> "idle"
    IN  /\ outcome \in {"ok", "retry", "error"}
        /\ work' = [work EXCEPT ![w] = IF after = "idle" THEN Idle ELSE [@ EXCEPT !.pc = after]]
        /\ slot' = CASE s = "FILTER" -> [slot EXCEPT ![f].ran = @ \union {work[w].row}]
                     [] s = "PRECOMPUTE" \/ outcome = "retry" -> slot
                     [] OTHER -> [slot EXCEPT ![f].next[s] = work[w].row + 1]
        /\ UNCHANGED <<armed, pub>>

ChainReady(f, s, row) ==
    /\ Claimed(f, s) = {} /\ slot[f].next[s] < RowsOf(f, s)
    /\ IF s = "COMMIT" THEN slot[f].next[s] = row ELSE CanRun(f, s, slot[f].next[s])

Chain(w) ==
    LET f == work[w].frame
        s == IF work[w].stage = "PRECOMPUTE" THEN "COMMIT" ELSE "FRONTIER"
    IN  /\ work[w].pc = "chain"
        /\ \/ /\ ChainReady(f, s, work[w].row)
              /\ Starts(w, f, s, slot[f].next[s])
           \/ /\ ~ChainReady(f, s, work[w].row)
              /\ work' = [work EXCEPT ![w] = Idle]
              /\ UNCHANGED <<armed, slot, pub>>

(* Only the first failure of a frame settles what it owes.                 *)
Fail(w) ==
    LET f == work[w].frame
        d == slot[f]
        owed == d.finish = "held"
    IN  /\ work[w].pc = "fail"
        /\ work' = [work EXCEPT ![w] = Idle]
        /\ \/ d.failed /\ UNCHANGED <<slot, pub>>
           \/ /\ ~d.failed
              /\ slot' = [slot EXCEPT ![f] = [d EXCEPT !.failed = TRUE,
                              !.water = IF d.recon THEN FAILED ELSE @,
                              !.finish = IF owed THEN "taken" ELSE @]]
              /\ pub' = [pub EXCEPT ![f] = [@ EXCEPT !.metadata = Set(@, "failed"),
                              !.bands = [b \in Bands |-> Set(@[b], "failed")],
                              !.slot = IF owed THEN Set(@, "failed") ELSE @]]
        /\ UNCHANGED armed

-----------------------------------------------------------------------------
(* The driver.                                                             *)

(* The walk a parse left for PREPARE shares the reference the slot keeps.  *)
Resets(f) == slot[f].early # "held"

(* SplitFrames::reserve and push: the frame Depth earlier has left the     *)
(* scheduler, no worker has it, and its slot resets.                       *)
Arm(f) ==
    /\ f = armed + 1 /\ f <= NumFrames
    /\ f > Depth => /\ Done(f - Depth) /\ Resets(f - Depth)
                    /\ \A w \in Workers : ~Holds(w, f - Depth)
    /\ armed' = f
    /\ slot' = IF f > Depth THEN [slot EXCEPT ![f - Depth] = Fresh] ELSE slot
    /\ UNCHANGED <<work, pub>>

Next ==
    \/ \E f \in Frames : Arm(f)
    \/ \E w \in Workers :
        \/ \E f \in Frames : Look(w, f)
        \/ Claim(w) \/ FindNothing(w)
        \/ ParseStart(w) \/ ParseUnit(w) \/ PublishUnit(w) \/ ParseFails(w) \/ ParseEnds(w)
        \/ Prepare(w) \/ Attach(w) \/ Project(w) \/ Resolve(w)
        \/ Precompute(w) \/ Commit(w) \/ Frontier(w) \/ FilterStripe(w) \/ Output(w)
        \/ Finish(w) \/ Chain(w) \/ Fail(w)

Spec == Init /\ [][Next]_vars

(* Something that can be done is done: a thread that has a row runs it and *)
(* an idle one looks again when a row becomes claimable.                   *)
FairSpec == Spec /\ WF_vars(Next)

-----------------------------------------------------------------------------
(* Properties.                                                             *)

Passing == {"none", "held", "taken"}

(* Every variable of a slot stays in its range: cursors in their stages,   *)
(* units pulled after they were parsed and resolved after they were        *)
(* pulled, batches closed and links released in that order.                *)
TypeOK ==
    /\ armed \in 0 .. NumFrames
    /\ \A w \in Workers :
        /\ work[w].frame \in 0 .. armed /\ work[w].stage \in Stages
        /\ work[w].pc \in {"idle", "look", "run", "parse", "publish", "loop", "ok", "retry",
                           "error", "chain", "fail"}
    /\ \A f \in Frames :
        LET d == slot[f]
        IN  /\ \A s \in Stages : d.next[s] <= RowsOf(f, s)
            /\ {d.early, d.finish, d.deferred, d.output} \subseteq Passing
            /\ d.resolved <= d.pulled /\ d.pulled <= d.parsed /\ d.parsed <= Units
            /\ d.water \in 0 .. d.parsed \union {FAILED} /\ d.awaiting <= Units
            /\ d.batches <= NumBatches /\ d.closed <= Links /\ d.nextStripe <= Stripes
            /\ d.landed \subseteq Batches /\ d.ran \subseteq 0 .. d.nextStripe - 1
            /\ d.ready \subseteq (0 .. d.nextStripe - 1) \ d.ran
            /\ {pub[f].entropy, pub[f].metadata, pub[f].slot} \subseteq Publication
            /\ pub[f].bands \in [Bands -> Publication]
            /\ pub[f].stripes \subseteq StripeSet

Erred(f) ==
    \/ slot[f].failed
    \/ \E w \in Workers : Holds(w, f) /\ work[w].pc \in {"error", "fail"}

Committed(f, batch) ==
    \/ batch < slot[f].next["COMMIT"]
    \/ \E w \in Workers : work[w] = [pc |-> "ok", frame |-> f, stage |-> "COMMIT", row |-> batch]

(* A row finds what its stage takes from the slot and reads from the       *)
(* reference, for every frame none of whose rows has failed: the look that *)
(* admitted it, or the row it was chained to, is older than its run.       *)
RowsFindTheirInputs ==
    \A w \in Workers : work[w].pc = "run" /\ ~Erred(work[w].frame) =>
        LET f == work[w].frame
            row == work[w].row
            d == slot[f]
        IN  CASE work[w].stage = "PARSE" -> RefEntropy(f) # "open" /\ d.finish = "none"
              [] work[w].stage = "PREPARE" ->
                    d.early = "held" /\ d.finish = "held" /\ RefMetadata(f) # "open"
              [] work[w].stage = "ATTACH" -> d.deferred = "held" /\ d.recon
              [] work[w].stage = "RESOLVE" -> RefBand(f, row) # "open"
              [] work[w].stage = "PRECOMPUTE" ->
                    /\ BatchEnd(row) <= d.resolved
                    /\ RefRowsPublished(f, row) \/ RefSlot(f) # "open"
              [] work[w].stage = "COMMIT" ->
                    /\ d.spine /\ PrecomputeDone(f, row)
                    /\ \A k \in Batches : k < row => Committed(f, k)
              [] work[w].stage = "FRONTIER" ->
                    /\ d.attached
                    /\ \A k \in Batches : RowOf(k) <= row => Committed(f, k)
              [] work[w].stage = "FILTER" ->
                    \A k \in Batches : RowOf(k) <= row => Committed(f, k)
              [] work[w].stage = "OUTPUT" ->
                    /\ d.finish = "held" /\ d.output = "held"
                    /\ \A k \in Batches : Committed(f, k)
                    /\ d.filterError \/ pub[f].stripes = StripeSet

(* A frame whose samples are published is whole: it has published every    *)
(* product it owes, every row of it and none in failure, and it was parsed *)
(* and projected from products its reference did publish.  A row of it may *)
(* have failed on the way: a row counts as run before its error fails the  *)
(* frame, and the rows after it go on meanwhile.                           *)
PublishedFramesAreWhole ==
    \A f \in Frames : pub[f].slot = "ok" =>
        /\ pub[f].entropy = "ok" /\ pub[f].metadata = "ok"
        /\ \A b \in Bands : pub[f].bands[b] = "ok" /\ RefBand(f, b) = "ok"
        /\ pub[f].stripes = StripeSet
        /\ RefEntropy(f) = "ok" /\ RefMetadata(f) = "ok"

Settled(f) ==
    /\ {pub[f].entropy, pub[f].metadata, pub[f].slot} \subseteq {"ok", "failed"}
    /\ \A b \in Bands : pub[f].bands[b] # "open"

(* However often the driver hands over a frame and whichever frames fail,  *)
(* all that was handed over settles everything another frame may wait for, *)
(* and the workers leave it.                                               *)
FramesSettle ==
    []<>(\A f \in 1 .. armed : Settled(f) /\ \A w \in Workers : ~Holds(w, f))

(* What reserve's comment says: the driver waits for the slot's last frame *)
(* to finish and to release what others borrowed of it, and so gets it.    *)
ReserveReturns == \A f \in Frames : <>(armed >= f)
=============================================================================
