--------------------------- MODULE FrameProgress ----------------------------
(***************************************************************************)
(* One pipelined inter frame from its first committed superblock row to    *)
(* its settled slot: crates/splot-decode/src/pipeline/frame_progress.rs    *)
(* with the stages of frame_tasks.rs that drive it, the deblock frontier   *)
(* of tile/admission.rs, the stripe jobs of wienerns_lr/recon.rs and the   *)
(* slot of inflight.rs.                                                    *)
(*                                                                         *)
(* The committer seals reconstructed rows into the frame; the frontier     *)
(* deblocks them in place, copies each stripe's input window out and       *)
(* releases the stripe's rows; stripe jobs filter their windows back into  *)
(* the released rows, in any order, and publish the contiguous prefix;     *)
(* readers of later frames borrow that prefix while the frame is still     *)
(* being filtered; the output stage freezes the storage and settles the    *)
(* slot.  All of them share one allocation without a lock per row.  A      *)
(* frame starts here when PREPARE has claimed its frontier handle.         *)
(***************************************************************************)
EXTENDS Naturals

CONSTANTS
    Height,     \* luma rows of the frame
    NumStripes, \* filter stripes
    Ends,       \* exclusive luma row end of each stripe
    Scale,      \* luma rows per chroma row
    Targets,    \* planes of a stripe: 1, or 3 with chroma
    Margin,     \* plane rows a window holds past its stripe
    NumLinks,   \* superblock rows, which are the frontier's links
    Sealed,     \* luma rows sealed once superblock row k is committed
    Final,      \* luma rows whose deblocking link k completes
    Deblocks,   \* whether the frame is deblocked at all
    MayFail,    \* whether a stage may fail
    Readers,    \* rows of later frames that read this one
    Need        \* luma rows each of them needs

Stripes == 1 .. NumStripes
Links == 1 .. NumLinks
Planes == IF Targets = 1 THEN {"Y"} ELSE {"Y", "C"}
PlaneScale(p) == IF p = "Y" THEN 1 ELSE Scale
DivUp(rows, by) == (rows + by - 1) \div by
SatSub(a, b) == IF a > b THEN a - b ELSE 0
Least(a, b) == IF a < b THEN a ELSE b
Most(a, b) == IF a > b THEN a ELSE b

(* Stripes and superblock rows tile the frame from its top; every end but  *)
(* the last is a whole number of chroma rows; deblocking trails sealing.   *)
ASSUME FrameAssumption ==
    /\ Height \in Nat \ {0} /\ NumStripes \in Nat \ {0} /\ NumLinks \in Nat \ {0}
    /\ Scale \in {1, 2} /\ Targets \in {1, 3} /\ Margin \in Nat
    /\ Ends \in [Stripes -> 1 .. Height] /\ Ends[NumStripes] = Height
    /\ \A s, t \in Stripes : s < t => Ends[s] < Ends[t] /\ Ends[s] % Scale = 0
    /\ Sealed \in [Links -> 0 .. Height] /\ Final \in [Links -> 0 .. Height]
    /\ \A k, m \in Links : k < m => /\ Sealed[k] <= Sealed[m] /\ Final[k] <= Final[m]
                                    /\ Sealed[k] % Scale = 0
    /\ \A k \in Links : Final[k] <= Sealed[k]
    /\ Sealed[NumLinks] = Height /\ Final[NumLinks] = Height
    /\ Deblocks \in BOOLEAN /\ MayFail \in BOOLEAN
    /\ Need \in [Readers -> 1 .. Height]

RELEASED == Height + 1  \* frontier: its handle is gone
FAILED == Height + 1    \* watermark: WatermarkCell::FAILED

VARIABLES
    landed, leased, holds, prefix, freezing,    \* ProgressLayout
    frontier,   \* FrameProgress::frontier
    watermark,  \* FrameProgress::published_luma_rows
    terminal,   \* FrameProgress::terminal_published
    storage,    \* FrameProgress::workspace, "live" or "taken"
    writer,     \* its exclusive lock: "none", "pending" or "held"
    slot,       \* the slot's cell: "pending", "ready" or "failed"
    sealedRows, finalRows, releasedRows,        \* ScheduledFrontier, FrontierRows
    carry,      \* the rows the frontier carries between windows, by plane
    nextStripe, \* ScheduledFrontier::next_filter_stripe
    made,       \* stripes whose jobs the running link has made
    cpc,        \* control point of the COMMIT stage
    closed,     \* SplitFrame::closed_rows
    attach,     \* the ATTACH stage: "idle", "done" (SplitFrame::attach) or "lost"
    lpc,        \* control point of the FRONTIER stage
    links,      \* links that ran
    filter,     \* the FILTER stage, by stripe
    jpc,        \* control point of each stripe job
    life,       \* StripeLifecycle
    wrote,      \* stripes whose filtered samples are in the frame
    rows,       \* the rows a job is about to publish
    filterError, outputReady,   \* SplitFrame
    opc,        \* control point of the OUTPUT stage
    finish,     \* who took SplitFrame::finish
    erring,     \* some stage has returned an error it has not yet reported
    failed,     \* SplitFrame::failed
    fpc,        \* control point of SplitFrame::fail
    fault,      \* the first thing that went wrong: "none", "injected", "internal"
    rpc, seen, result   \* control point, prefix and outcome of each reader

layoutVars == <<landed, leased, holds, prefix, freezing>>
frameVars == <<watermark, terminal, slot>>
lockVars == <<storage, writer>>
frontierVars == <<frontier, sealedRows, finalRows, releasedRows, carry, nextStripe, made>>
commitVars == <<cpc, closed, attach>>
linkVars == <<lpc, links>>
jobVars == <<filter, jpc, life, wrote, rows, filterError>>
outputVars == <<outputReady, opc, finish>>
failVars == <<erring, failed, fpc, fault>>
readerVars == <<rpc, seen, result>>
vars == <<layoutVars, frameVars, lockVars, frontierVars, commitVars, linkVars,
          jobVars, outputVars, failVars, readerVars>>

Init ==
    /\ landed = [s \in Stripes |-> FALSE] /\ leased = [s \in Stripes |-> FALSE]
    /\ holds = [s \in Stripes |-> 0] /\ prefix = 0 /\ freezing = FALSE
    /\ frontier = 0 /\ watermark = 0 /\ terminal = FALSE
    /\ storage = "live" /\ writer = "none" /\ slot = "pending"
    /\ sealedRows = 0 /\ finalRows = 0 /\ releasedRows = 0
    /\ carry = [p \in Planes |-> <<0, 0>>] /\ nextStripe = 1 /\ made = {}
    /\ cpc = "idle" /\ closed = 0 /\ attach = "idle"
    /\ lpc = "idle" /\ links = 0
    /\ filter = [s \in Stripes |-> "pending"] /\ jpc = [s \in Stripes |-> "idle"]
    /\ life = [s \in Stripes |-> "pending"] /\ wrote = [s \in Stripes |-> FALSE]
    /\ rows = [s \in Stripes |-> 0] /\ filterError = FALSE
    /\ outputReady = FALSE /\ opc = "idle" /\ finish = "here"
    /\ erring = FALSE /\ failed = FALSE /\ fpc = "idle" /\ fault = "none"
    /\ rpc = [r \in Readers |-> "wait"] /\ seen = [r \in Readers |-> 0]
    /\ result = [r \in Readers |-> "none"]

(* The first cause of an error: a fault of the environment, or a state the *)
(* code itself refuses as an internal error.                               *)
Inject == fault' = IF fault = "none" THEN "injected" ELSE fault
Internal == fault' = IF fault = "none" THEN "internal" ELSE fault

(* The rows of stripe s that the stripe before it does not cover. *)
Start(s) == IF s = 1 THEN 0 ELSE Ends[s - 1]

-----------------------------------------------------------------------------
(* COMMIT and ATTACH.  The frontier mutex is held while a link is between  *)
(* StartLink and its last window; a seal happens under it in one step.     *)

FrontierLocked == lpc \in {"deblock", "windows"}

(* seal_committed_rows: with_plane_rows_mut refuses rows already final. *)
Seal ==
    /\ cpc = "idle" /\ closed < NumLinks /\ ~FrontierLocked
    /\ \A p \in Planes : (sealedRows \div PlaneScale(p)) * PlaneScale(p) >= finalRows
    /\ sealedRows' = Sealed[closed + 1]
    /\ cpc' = "close"
    /\ UNCHANGED <<layoutVars, frameVars, lockVars, frontier, finalRows, releasedRows,
                   carry, nextStripe, made, closed, attach, linkVars, jobVars,
                   outputVars, failVars, readerVars>>

(* The commit fails, or the frontier refuses its rows: the active commit   *)
(* state is lost, so no later row commits.                                 *)
CommitFails ==
    /\ cpc = "idle" /\ closed < NumLinks
    /\ \/ MayFail /\ Inject
       \/ /\ ~FrontierLocked
          /\ \E p \in Planes : (sealedRows \div PlaneScale(p)) * PlaneScale(p) < finalRows
          /\ Internal
    /\ cpc' = "lost"
    /\ erring' = TRUE
    /\ UNCHANGED <<layoutVars, frameVars, lockVars, frontierVars, closed, attach,
                   linkVars, jobVars, outputVars, failed, fpc, readerVars>>

CloseRows ==
    /\ cpc = "close"
    /\ closed' = closed + 1
    /\ cpc' = "idle"
    /\ UNCHANGED <<layoutVars, frameVars, lockVars, frontierVars, attach, linkVars,
                   jobVars, outputVars, failVars, readerVars>>

(* The filter setup is attached once the frame is parsed; it installs the  *)
(* stripe layout the jobs publish through.  The stage has one row.         *)
Attach ==
    /\ attach = "idle"
    /\ \/ attach' = "done" /\ UNCHANGED <<erring, fault>>
       \/ MayFail /\ attach' = "lost" /\ erring' = TRUE /\ Inject
    /\ UNCHANGED <<layoutVars, frameVars, lockVars, frontierVars, cpc, closed, linkVars,
                   jobVars, outputVars, failed, fpc, readerVars>>

-----------------------------------------------------------------------------
(* FRONTIER.  Link k runs over the rows superblock row k closed.  The      *)
(* stage is chained from a commit without reading `failed`, and a failed   *)
(* link counts as run before its failure is reported: the next link may    *)
(* start in between.                                                       *)

(* Mutant: a link does not wait for its superblock row to be closed. *)
StartLinkAhead ==
    /\ lpc = "idle" /\ links < NumLinks
    /\ attach = "done"
    /\ lpc' = "deblock"
    /\ UNCHANGED <<layoutVars, frameVars, lockVars, frontierVars, commitVars, links,
                   jobVars, outputVars, failVars, readerVars>>

StartLink ==
    /\ lpc = "idle" /\ links < NumLinks
    /\ attach = "done" /\ links < closed
    /\ lpc' = "deblock"
    /\ UNCHANGED <<layoutVars, frameVars, lockVars, frontierVars, commitVars, links,
                   jobVars, outputVars, failVars, readerVars>>

(* The error leaves `frontier`: the jobs this link made go with it. *)
LinkFails ==
    /\ lpc' = "failing"
    /\ made' = {}

(* advance_source, or publish_final_rows over the sealed rows. *)
Deblock ==
    /\ lpc = "deblock"
    /\ \/ /\ finalRows' = IF Deblocks THEN Most(finalRows, Final[links + 1]) ELSE sealedRows
          /\ lpc' = "windows"
          /\ UNCHANGED <<made, fault>>
       \/ MayFail /\ LinkFails /\ Inject /\ UNCHANGED finalRows
    /\ UNCHANGED <<layoutVars, frameVars, lockVars, frontier, sealedRows, releasedRows,
                   carry, nextStripe, commitVars, links, jobVars, outputVars, erring,
                   failed, fpc, readerVars>>

(* ready_stripe: the stripe and its margin are final. *)
WindowReady(s) == finalRows >= Least(Ends[s] + Margin * Scale, Height)

(* window_bounds, in rows of the plane. *)
WindowStart(s, p) == SatSub(Start(s) \div PlaneScale(p), Margin)
WindowEnd(s, p) ==
    Least(DivUp(Ends[s], PlaneScale(p)) + Margin, DivUp(Height, PlaneScale(p)))

(* The first window row the carry does not hold. *)
CopyFrom(s, p) ==
    IF carry[p][1] <= WindowStart(s, p) /\ WindowStart(s, p) < carry[p][2]
    THEN Least(carry[p][2], WindowEnd(s, p)) ELSE WindowStart(s, p)

(* append_rows: the rows are final and no stripe has been handed them. *)
Appendable(s, p) ==
    CopyFrom(s, p) < WindowEnd(s, p) =>
        /\ CopyFrom(s, p) >= DivUp(releasedRows, PlaneScale(p))
        /\ WindowEnd(s, p) <= DivUp(finalRows, PlaneScale(p))

(* The rows the next window shares with this one. *)
Carried(s, p) ==
    LET tail == SatSub(Ends[s] \div PlaneScale(p), Margin)
    IN  <<Most(WindowStart(s, p), tail), WindowEnd(s, p)>>

(* release_rows refuses to move back or past the final rows. *)
Releasable(s) == releasedRows <= Ends[s] /\ Ends[s] <= finalRows

CanFill(s) == (\A p \in Planes : Appendable(s, p)) /\ Releasable(s)

(* window_job: copies the window of the next stripe and hands its rows to  *)
(* the stripe's job for good.                                              *)
FillWindow ==
    /\ lpc = "windows" /\ nextStripe <= NumStripes
    /\ WindowReady(nextStripe) /\ CanFill(nextStripe)
    /\ carry' = [p \in Planes |-> Carried(nextStripe, p)]
    /\ releasedRows' = Ends[nextStripe]
    /\ frontier' = Ends[nextStripe]
    /\ made' = made \union {nextStripe}
    /\ nextStripe' = nextStripe + 1
    /\ UNCHANGED <<layoutVars, frameVars, lockVars, sealedRows, finalRows, commitVars,
                   linkVars, jobVars, outputVars, failVars, readerVars>>

(* The window is refused, or an allocation fails: before a plane is        *)
(* carried over, after luma, or for the job once the rows are released.    *)
FillFails ==
    /\ lpc = "windows" /\ nextStripe <= NumStripes /\ WindowReady(nextStripe)
    /\ LinkFails
    /\ \/ /\ ~CanFill(nextStripe) /\ Internal
          /\ UNCHANGED <<carry, releasedRows, frontier>>
       \/ /\ CanFill(nextStripe)
          /\ MayFail /\ Inject
          /\ \E copied \in {{}, {"Y"}, Planes} :
                /\ carry' = [p \in Planes |-> IF p \in copied THEN Carried(nextStripe, p)
                                              ELSE carry[p]]
                /\ IF copied = Planes
                   THEN releasedRows' = Ends[nextStripe] /\ frontier' = Ends[nextStripe]
                   ELSE UNCHANGED <<releasedRows, frontier>>
    /\ UNCHANGED <<layoutVars, frameVars, lockVars, sealedRows, finalRows, nextStripe,
                   commitVars, links, jobVars, outputVars, erring, failed, fpc, readerVars>>

(* No further window is ready.  The last link must have filled them all,   *)
(* and gives up the frontier handle.                                       *)
EndWindows ==
    /\ lpc = "windows"
    /\ nextStripe <= NumStripes => ~WindowReady(nextStripe)
    /\ \/ /\ links + 1 < NumLinks
          /\ lpc' = "post" /\ UNCHANGED <<frontier, made, fault>>
       \/ /\ links + 1 = NumLinks /\ nextStripe > NumStripes
          /\ lpc' = "post" /\ frontier' = RELEASED /\ UNCHANGED <<made, fault>>
       \/ /\ links + 1 = NumLinks /\ nextStripe <= NumStripes
          /\ LinkFails /\ Internal /\ UNCHANGED frontier
    /\ UNCHANGED <<layoutVars, frameVars, lockVars, sealedRows, finalRows, releasedRows,
                   carry, nextStripe, commitVars, links, jobVars, outputVars, erring,
                   failed, fpc, readerVars>>

(* SplitFrame::frontier posts the link's jobs, and the last link's output. *)
PostJobs ==
    /\ lpc = "post"
    /\ filter' = [s \in Stripes |-> IF s \in made THEN "ready" ELSE filter[s]]
    /\ made' = {}
    /\ outputReady' = (links + 1 = NumLinks)
    /\ lpc' = "finish"
    /\ UNCHANGED <<layoutVars, frameVars, lockVars, frontier, sealedRows, finalRows,
                   releasedRows, carry, nextStripe, commitVars, links, jpc, life, wrote,
                   rows, filterError, opc, finish, failVars, readerVars>>

(* Mutant: the error of a failed link is not reported. *)
FinishLinkSilently ==
    /\ lpc \in {"finish", "failing"}
    /\ links' = links + 1
    /\ UNCHANGED erring
    /\ lpc' = "idle"
    /\ UNCHANGED <<layoutVars, frameVars, lockVars, frontierVars, commitVars, jobVars,
                   outputVars, failed, fpc, fault, readerVars>>

(* OrderedStage::finish, also for a link that failed. *)
FinishLink ==
    /\ lpc \in {"finish", "failing"}
    /\ links' = links + 1
    /\ erring' = (erring \/ lpc = "failing")
    /\ lpc' = "idle"
    /\ UNCHANGED <<layoutVars, frameVars, lockVars, frontierVars, commitVars, jobVars,
                   outputVars, failed, fpc, fault, readerVars>>

-----------------------------------------------------------------------------
(* FILTER: one job per stripe, any number at a time. *)

JobUnchanged == UNCHANGED <<terminal, slot, lockVars, frontierVars, commitVars, linkVars,
                            outputVars, erring, failed, fpc, readerVars>>

Goto(s, at) == jpc' = [jpc EXCEPT ![s] = at]

(* claim_ready and OwnedFilterSetup::claim.  The scan's test of `failed`   *)
(* is an earlier load: a claim may follow a failure.                       *)
Claim(s) ==
    /\ filter[s] = "ready"
    /\ filter' = [filter EXCEPT ![s] = "running"]
    /\ \/ /\ life[s] = "pending"
          /\ life' = [life EXCEPT ![s] = "claimed"]
          /\ Goto(s, "lease") /\ UNCHANGED fault
       \/ life[s] # "pending" /\ Goto(s, "error") /\ Internal /\ UNCHANGED life
    /\ UNCHANGED <<layoutVars, watermark, wrote, rows, filterError>>
    /\ JobUnchanged

(* direct_stripe: refused while the frame freezes, for a stripe that is    *)
(* landed or leased, past the frontier's release, or after the freeze.     *)
Leasable(s) ==
    /\ ~freezing /\ ~landed[s] /\ ~leased[s]
    /\ Ends[s] <= frontier
    /\ storage = "live"

(* Mutant: the lease counts itself twice. *)
LeaseCountsItself(s) ==
    /\ jpc[s] = "lease"
    /\ writer = "none"
    /\ \/ /\ Leasable(s)
          /\ leased' = [leased EXCEPT ![s] = TRUE]
          /\ holds' = [holds EXCEPT ![s] = 2 + Targets]
          /\ Goto(s, "filter") /\ UNCHANGED fault
       \/ ~Leasable(s) /\ Goto(s, "error") /\ Internal /\ UNCHANGED <<leased, holds>>
    /\ UNCHANGED <<landed, prefix, freezing, watermark, filter, life, wrote, rows, filterError>>
    /\ JobUnchanged

Lease(s) ==
    /\ jpc[s] = "lease"
    /\ writer = "none"
    /\ \/ /\ Leasable(s)
          /\ leased' = [leased EXCEPT ![s] = TRUE]
          /\ holds' = [holds EXCEPT ![s] = 1 + Targets]
          /\ Goto(s, "filter") /\ UNCHANGED fault
       \/ ~Leasable(s) /\ Goto(s, "error") /\ Internal /\ UNCHANGED <<leased, holds>>
    /\ UNCHANGED <<landed, prefix, freezing, watermark, filter, life, wrote, rows, filterError>>
    /\ JobUnchanged

(* run_planes and finish_direct write the stripe's rows, or give up. *)
Filter(s) ==
    /\ jpc[s] = "filter"
    /\ \/ wrote' = [wrote EXCEPT ![s] = TRUE] /\ Goto(s, "filtered") /\ UNCHANGED fault
       \/ MayFail /\ Goto(s, "unwind") /\ Inject /\ UNCHANGED wrote
    /\ UNCHANGED <<layoutVars, watermark, filter, life, rows, filterError>>
    /\ JobUnchanged

(* release_direct_hold, n times. *)
ReleaseHolds(s, n) ==
    /\ holds' = [holds EXCEPT ![s] = SatSub(holds[s], n)]
    /\ leased' = [leased EXCEPT ![s] = leased[s] /\ holds[s] > n]

(* The plane targets are dropped: after `publish` marks the stripe         *)
(* submitted, or as run_planes unwinds.                                    *)
DropTargets(s) ==
    /\ jpc[s] \in {"filtered", "unwind"}
    /\ ReleaseHolds(s, Targets)
    /\ \/ /\ jpc[s] = "filtered"
          /\ life' = [life EXCEPT ![s] = "submitted"]
          /\ Goto(s, "submit")
       \/ jpc[s] = "unwind" /\ Goto(s, "giveUp") /\ UNCHANGED life
    /\ UNCHANGED <<landed, prefix, freezing, watermark, filter, wrote, rows, filterError, fault>>
    /\ JobUnchanged

(* DirectStripeLease::submit refuses while a target is still held. *)
Submit(s) ==
    /\ jpc[s] = "submit"
    /\ \/ holds[s] = 1 /\ Goto(s, "land") /\ UNCHANGED fault
       \/ holds[s] # 1 /\ Goto(s, "giveUp") /\ Internal
    /\ UNCHANGED <<layoutVars, watermark, filter, life, wrote, rows, filterError>>
    /\ JobUnchanged

(* complete_stripe: how far the landed stripes reach without a gap. *)
PrefixAfter(s) ==
    LET down == [landed EXCEPT ![s] = TRUE]
    IN  CHOOSE n \in prefix .. NumStripes :
            /\ \A t \in prefix + 1 .. n : down[t]
            /\ n < NumStripes => ~down[n + 1]

PrefixRows(n) == IF n = 0 THEN 0 ELSE Ends[n]

(* Mutant: a stripe publishes its own end instead of the prefix. *)
LandOutOfOrder(s) ==
    /\ jpc[s] = "land"
    /\ leased' = [leased EXCEPT ![s] = FALSE]
    /\ landed' = [landed EXCEPT ![s] = TRUE]
    /\ prefix' = PrefixAfter(s)
    /\ rows' = [rows EXCEPT ![s] = Ends[s]]
    /\ Goto(s, "raise")
    /\ UNCHANGED <<holds, freezing, watermark, filter, life, wrote, filterError, fault>>
    /\ JobUnchanged

(* publish_direct, up to its unlock. *)
Land(s) ==
    /\ jpc[s] = "land"
    /\ leased' = [leased EXCEPT ![s] = FALSE]
    /\ landed' = [landed EXCEPT ![s] = TRUE]
    /\ prefix' = PrefixAfter(s)
    /\ rows' = [rows EXCEPT ![s] = PrefixRows(PrefixAfter(s))]
    /\ Goto(s, "raise")
    /\ UNCHANGED <<holds, freezing, watermark, filter, life, wrote, filterError, fault>>
    /\ JobUnchanged

(* WatermarkCell::publish, after the unlock. *)
Raise(s) ==
    /\ jpc[s] = "raise"
    /\ watermark' = Most(watermark, rows[s])
    /\ Goto(s, "release")
    /\ UNCHANGED <<layoutVars, filter, life, wrote, rows, filterError, fault>>
    /\ JobUnchanged

(* The lease itself is dropped. *)
DropLease(s) ==
    /\ jpc[s] \in {"release", "giveUp"}
    /\ ReleaseHolds(s, 1)
    /\ Goto(s, IF jpc[s] = "release" THEN "end" ELSE "error")
    /\ UNCHANGED <<landed, prefix, freezing, watermark, filter, life, wrote, rows,
                   filterError, fault>>
    /\ JobUnchanged

(* filter_stripe keeps the error for the output stage. *)
KeepError(s) ==
    /\ jpc[s] = "error"
    /\ filterError' = TRUE
    /\ Goto(s, "end")
    /\ UNCHANGED <<layoutVars, watermark, filter, life, wrote, rows, fault>>
    /\ JobUnchanged

EndJob(s) ==
    /\ jpc[s] = "end"
    /\ filter' = [filter EXCEPT ![s] = "done"]
    /\ Goto(s, "idle")
    /\ UNCHANGED <<layoutVars, watermark, life, wrote, rows, filterError, fault>>
    /\ JobUnchanged

JobStep(s) == \/ Lease(s) \/ Filter(s) \/ DropTargets(s) \/ Submit(s) \/ Land(s)
              \/ Raise(s) \/ DropLease(s) \/ KeepError(s) \/ EndJob(s)

-----------------------------------------------------------------------------
(* OUTPUT: freezes the storage and settles the slot. *)

OutputUnchanged == UNCHANGED <<landed, leased, holds, prefix, frontierVars, commitVars,
                               linkVars, jobVars, outputReady, failed, fpc, readerVars>>

(* The stage is ready once the last link and every stripe have run. *)
OutputClaimable ==
    /\ outputReady
    /\ links = NumLinks
    /\ \A s \in Stripes : filter[s] = "done"

ClaimOutput ==
    /\ opc = "idle" /\ OutputClaimable
    /\ opc' = "start"
    /\ UNCHANGED <<frameVars, lockVars, freezing, finish, erring, fault>>
    /\ OutputUnchanged

(* A stripe's error fails the frame; so does a `fail` that has already     *)
(* taken the finish.                                                       *)
StartOutput ==
    /\ opc = "start"
    /\ \/ /\ ~filterError /\ finish = "here"
          /\ finish' = "output" /\ opc' = "check"
          /\ UNCHANGED <<erring, fault>>
       \/ /\ filterError
          /\ erring' = TRUE /\ opc' = "done"
          /\ UNCHANGED <<finish, fault>>
       \/ /\ ~filterError /\ finish # "here"
          /\ erring' = TRUE /\ opc' = "done" /\ Internal
          /\ UNCHANGED finish
    /\ UNCHANGED <<frameVars, lockVars, freezing>>
    /\ OutputUnchanged

(* OwnedFilterFinish::finish and freeze_workspace, up to the layout lock:  *)
(* no job still owns the setup, every stripe was submitted, the frontier   *)
(* handle is gone.                                                         *)
CheckOutput ==
    /\ opc = "check"
    /\ LET complete == /\ \A s \in Stripes : filter[s] \notin {"ready", "running"}
                       /\ \A s \in Stripes : life[s] = "submitted"
                       /\ frontier = RELEASED
       IN  \/ complete /\ opc' = "layout" /\ UNCHANGED fault
           \/ ~complete /\ opc' = "drop" /\ Internal
    /\ UNCHANGED <<frameVars, lockVars, freezing, finish, erring>>
    /\ OutputUnchanged

(* Under the layout lock: no stripe is leased, and none is from now on.    *)
(* Then the output asks for the exclusive lock, which bars new readers.    *)
BeginFreeze ==
    /\ opc = "layout"
    /\ \/ /\ \A s \in Stripes : ~leased[s]
          /\ freezing' = TRUE /\ writer' = "pending" /\ opc' = "lock"
          /\ UNCHANGED fault
       \/ /\ \E s \in Stripes : leased[s]
          /\ opc' = "drop" /\ Internal /\ UNCHANGED <<freezing, writer>>
    /\ UNCHANGED <<frameVars, storage, finish, erring>>
    /\ OutputUnchanged

LockStorage ==
    /\ opc = "lock"
    /\ \A r \in Readers : rpc[r] # "hold"
    /\ writer' = "held"
    /\ opc' = "freeze"
    /\ UNCHANGED <<frameVars, storage, freezing, finish, erring, fault>>
    /\ OutputUnchanged

Freeze ==
    /\ opc = "freeze"
    /\ storage' = "taken"
    /\ \/ storage = "live" /\ opc' = "settle" /\ UNCHANGED fault
       \/ storage = "live" /\ MayFail /\ opc' = "unlockDrop" /\ Inject
       \/ storage = "taken" /\ opc' = "unlockDrop" /\ Internal
    /\ UNCHANGED <<frameVars, writer, freezing, finish, erring>>
    /\ OutputUnchanged

(* FrameSlotWriter::complete: the slot, then the terminal watermark. *)
SettleReady ==
    /\ opc = "settle"
    /\ slot' = "ready"
    /\ opc' = "mark"
    /\ UNCHANGED <<watermark, terminal, lockVars, freezing, finish, erring, fault>>
    /\ OutputUnchanged

MarkFiltered ==
    /\ opc = "mark"
    /\ watermark' = Most(watermark, Height)
    /\ terminal' = TRUE
    /\ opc' = "unlock"
    /\ UNCHANGED <<slot, lockVars, freezing, finish, erring, fault>>
    /\ OutputUnchanged

(* The lock is released; a failed freeze then drops its writer. *)
Unlock ==
    /\ opc \in {"unlock", "unlockDrop"}
    /\ writer' = "none"
    /\ opc' = IF opc = "unlock" THEN "done" ELSE "drop"
    /\ UNCHANGED <<frameVars, storage, freezing, finish, erring, fault>>
    /\ OutputUnchanged

(* FrameSlotWriter::drop: the slot fails, then the watermark. *)
DropWriter ==
    /\ opc = "drop"
    /\ slot' = "failed"
    /\ opc' = "dropMark"
    /\ UNCHANGED <<watermark, terminal, lockVars, freezing, finish, erring, fault>>
    /\ OutputUnchanged

MarkDropped ==
    /\ opc = "dropMark"
    /\ watermark' = FAILED
    /\ terminal' = TRUE
    /\ opc' = "done"
    /\ UNCHANGED <<slot, lockVars, freezing, finish, erring, fault>>
    /\ OutputUnchanged

OutputStep == StartOutput \/ CheckOutput \/ BeginFreeze \/ LockStorage \/ Freeze
              \/ SettleReady \/ MarkFiltered \/ Unlock \/ DropWriter \/ MarkDropped

-----------------------------------------------------------------------------
(* SplitFrame::fail: the first error settles what the frame still owes. *)

FailUnchanged == UNCHANGED <<layoutVars, lockVars, frontierVars, commitVars, linkVars,
                             jobVars, outputReady, opc, fault, readerVars>>

ReportError ==
    /\ erring
    /\ erring' = FALSE
    /\ failed' = TRUE
    /\ fpc' = IF failed THEN fpc ELSE "take"
    /\ UNCHANGED <<frameVars, finish>>
    /\ FailUnchanged

TakeFinish ==
    /\ fpc = "take"
    /\ IF finish = "here" THEN finish' = "fail" /\ fpc' = "slot"
                          ELSE fpc' = "done" /\ UNCHANGED finish
    /\ UNCHANGED <<frameVars, erring, failed>>
    /\ FailUnchanged

FailSlot ==
    /\ fpc = "slot"
    /\ slot' = "failed"
    /\ fpc' = "mark"
    /\ UNCHANGED <<watermark, terminal, finish, erring, failed>>
    /\ FailUnchanged

MarkFailed ==
    /\ fpc = "mark"
    /\ watermark' = FAILED
    /\ terminal' = TRUE
    /\ fpc' = "done"
    /\ UNCHANGED <<slot, finish, erring, failed>>
    /\ FailUnchanged

FailStep == ReportError \/ TakeFinish \/ FailSlot \/ MarkFailed

-----------------------------------------------------------------------------
(* Readers: rows of later frames, admitted by the row gate, which borrow   *)
(* this frame's samples with hold_samples for the time of one block.       *)

ReaderUnchanged == UNCHANGED <<layoutVars, frameVars, lockVars, frontierVars, commitVars,
                               linkVars, jobVars, outputVars, failVars>>

(* published_luma_rows: a failed frame has none. *)
PublishedRows == IF watermark = FAILED THEN 0 ELSE Least(watermark, Height)

Admit(r) ==
    /\ rpc[r] = "wait"
    /\ slot # "pending" \/ PublishedRows >= Need[r]
    /\ rpc' = [rpc EXCEPT ![r] = "admitted"]
    /\ UNCHANGED <<seen, result>>
    /\ ReaderUnchanged

(* try_frozen, before the prefix is tried and after it is found gone. *)
TryFrozen(r) ==
    /\ rpc[r] \in {"admitted", "retry"}
    /\ \/ /\ slot = "ready"
          /\ result' = [result EXCEPT ![r] = "frame"]
          /\ rpc' = [rpc EXCEPT ![r] = "done"]
       \/ /\ slot # "ready"
          /\ rpc' = [rpc EXCEPT ![r] = IF rpc[r] = "admitted" THEN "load" ELSE "done"]
          /\ UNCHANGED result
    /\ UNCHANGED seen
    /\ ReaderUnchanged

(* FrameProgress::read loads the watermark before it takes the lock. *)
LoadRows(r) ==
    /\ rpc[r] = "load"
    /\ seen' = [seen EXCEPT ![r] = PublishedRows]
    /\ rpc' = [rpc EXCEPT ![r] = IF PublishedRows = 0 THEN "retry" ELSE "lock"]
    /\ UNCHANGED result
    /\ ReaderUnchanged

LockRows(r) ==
    /\ rpc[r] = "lock"
    /\ writer = "none"
    /\ rpc' = [rpc EXCEPT ![r] = IF storage = "live" THEN "hold" ELSE "retry"]
    /\ UNCHANGED <<seen, result>>
    /\ ReaderUnchanged

ReleaseRows(r) ==
    /\ rpc[r] = "hold"
    /\ result' = [result EXCEPT ![r] = "prefix"]
    /\ rpc' = [rpc EXCEPT ![r] = "done"]
    /\ UNCHANGED seen
    /\ ReaderUnchanged

ReaderStep(r) == Admit(r) \/ TryFrozen(r) \/ LoadRows(r) \/ LockRows(r) \/ ReleaseRows(r)

-----------------------------------------------------------------------------
(* Claims are scans of the stages; the rest finishes a row that was claimed. *)
Claims == Seal \/ CommitFails \/ Attach \/ StartLink
          \/ (\E s \in Stripes : Claim(s)) \/ ClaimOutput
LinkStep == Deblock \/ FillWindow \/ FillFails \/ EndWindows \/ PostJobs \/ FinishLink

Next ==
    \/ Claims
    \/ CloseRows
    \/ LinkStep
    \/ \E s \in Stripes : JobStep(s)
    \/ OutputStep
    \/ FailStep
    \/ \E r \in Readers : ReaderStep(r)

Spec == Init /\ [][Next]_vars

(* The row scheduler claims every ready row of a frame that has not failed *)
(* and a claimed row runs to its end; the thread that fails a frame        *)
(* finishes failing it; a reader's row runs once it is admitted.           *)
Fairness ==
    /\ WF_vars(~failed /\ (Seal \/ CommitFails))
    /\ WF_vars(~failed /\ Attach)
    /\ WF_vars(~failed /\ StartLink)
    /\ \A s \in Stripes : WF_vars(~failed /\ Claim(s)) /\ WF_vars(JobStep(s))
    /\ WF_vars(~failed /\ ClaimOutput)
    /\ WF_vars(CloseRows) /\ WF_vars(LinkStep)
    /\ WF_vars(OutputStep) /\ WF_vars(FailStep)
    /\ \A r \in Readers : WF_vars(ReaderStep(r))

FairSpec == Spec /\ Fairness

-----------------------------------------------------------------------------
(* Types, and the counters of a lease: the lease and its undropped targets. *)
TypeOK ==
    /\ landed \in [Stripes -> BOOLEAN] /\ leased \in [Stripes -> BOOLEAN]
    /\ holds \in [Stripes -> 0 .. 1 + Targets]
    /\ prefix \in 0 .. NumStripes /\ freezing \in BOOLEAN
    /\ frontier \in 0 .. RELEASED /\ watermark \in 0 .. FAILED /\ terminal \in BOOLEAN
    /\ storage \in {"live", "taken"} /\ writer \in {"none", "pending", "held"}
    /\ slot \in {"pending", "ready", "failed"}
    /\ sealedRows \in 0 .. Height /\ finalRows \in 0 .. Height /\ releasedRows \in 0 .. Height
    /\ carry \in [Planes -> (0 .. Height) \X (0 .. Height)]
    /\ nextStripe \in 1 .. NumStripes + 1 /\ made \in SUBSET Stripes
    /\ cpc \in {"idle", "close", "lost"} /\ closed \in 0 .. NumLinks
    /\ attach \in {"idle", "done", "lost"}
    /\ lpc \in {"idle", "deblock", "windows", "post", "finish", "failing"}
    /\ links \in 0 .. NumLinks
    /\ filter \in [Stripes -> {"pending", "ready", "running", "done"}]
    /\ jpc \in [Stripes -> {"idle", "lease", "filter", "filtered", "submit", "land", "raise",
                            "release", "unwind", "giveUp", "error", "end"}]
    /\ life \in [Stripes -> {"pending", "claimed", "submitted"}]
    /\ wrote \in [Stripes -> BOOLEAN] /\ rows \in [Stripes -> 0 .. Height]
    /\ filterError \in BOOLEAN /\ outputReady \in BOOLEAN
    /\ opc \in {"idle", "start", "check", "layout", "lock", "freeze", "settle", "mark",
                "unlock", "unlockDrop", "drop", "dropMark", "done"}
    /\ finish \in {"here", "output", "fail"}
    /\ erring \in BOOLEAN /\ failed \in BOOLEAN
    /\ fpc \in {"idle", "take", "slot", "mark", "done"}
    /\ fault \in {"none", "injected", "internal"}
    /\ rpc \in [Readers -> {"wait", "admitted", "load", "retry", "lock", "hold", "done"}]
    /\ seen \in [Readers -> 0 .. Height]
    /\ result \in [Readers -> {"none", "frame", "prefix"}]

(* "a consumer can never observe a row the filter chain has not written"   *)
(* (frame_progress.rs:19-21): whatever order the stripes land in, the      *)
(* prefix a reader borrows lies in stripes that are written and left, in   *)
(* storage that stays, and a settled frame is written from top to bottom.  *)
(* And the row gate's promise: a reader it admits finds the frozen frame   *)
(* or a prefix with the rows it needs, also while the freeze moves the     *)
(* storage, unless the frame fails.                                        *)
Finished(s) == wrote[s] /\ jpc[s] \notin {"lease", "filter", "filtered", "unwind"}

ReadersSeeFilteredRows ==
    /\ \A r \in Readers : rpc[r] = "hold" =>
        storage = "live" /\ \A s \in Stripes : Start(s) < seen[r] => Finished(s)
    /\ slot = "ready" => \A s \in Stripes : Finished(s)
    /\ \A r \in Readers : rpc[r] = "done" =>
        \/ result[r] = "frame" /\ slot = "ready"
        \/ result[r] = "prefix" /\ seen[r] >= Need[r]
        \/ fault # "none" /\ slot # "ready"

(* The frame's rows split, from the top, into rows of stripe jobs and      *)
(* readers, final rows the frontier still copies from, rows it deblocks,   *)
(* and rows the committer seals (frame_progress.rs:780-787): no job owns a *)
(* row the frontier or the committer may touch, and no reader is shown     *)
(* one; the freeze takes the storage from nobody (:733).  So none of the   *)
(* errors with which the code refuses a seal, window, release, claim,      *)
(* lease, submission or freeze is the first thing to go wrong: they only   *)
(* ever follow a failure of the environment.                               *)
RowsHaveOneOwner ==
    /\ releasedRows <= finalRows /\ finalRows <= sealedRows
    /\ \A s \in Stripes : leased[s] => Ends[s] <= releasedRows
    /\ PrefixRows(prefix) <= releasedRows
    /\ slot = "pending" => watermark <= PrefixRows(prefix)
    /\ writer = "held" \/ storage = "taken" =>
        /\ \A r \in Readers : rpc[r] # "hold"
        /\ \A s \in Stripes : ~leased[s] /\ jpc[s] = "idle"
        /\ frontier = RELEASED
    /\ fault # "internal"

(* The driver's wait on the slot and on its terminal watermark returns,    *)
(* whichever stage fails, and a row of a later frame that waits for this   *)
(* one's rows is released, whether they are published or never will be.    *)
FrameSettles ==
    <>(slot # "pending" /\ terminal /\ \A r \in Readers : rpc[r] = "done")
=============================================================================
