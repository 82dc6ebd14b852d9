---------------------------- MODULE FifoMonitors ----------------------------
(***************************************************************************)
(* The asynchronous FIFO's server (async_fifo/async_fifo_cocotb.py) around *)
(* its design (async_fifo/src/): two coroutines watch the read and the     *)
(* write clock and count into one database, each with previous values of   *)
(* its own, while the controller drives both sides.                        *)
(*                                                                         *)
(* The clocks may tick in any order and together, which covers every ratio *)
(* of their periods.  A pointer is its binary value: the Gray code has the *)
(* same top bit, the same 0 and the same 1, and its comparison for full is *)
(* that of the distance.  The memory and what is in it are left out.       *)
(***************************************************************************)
EXTENDS Naturals

CONSTANTS
    DEPTH,                  \* words the FIFO holds, 2^ASIZE in the code
    NoPtr,                  \* None: nothing sampled yet
    MaxWraps                \* bound of the counts

ASSUME FifoAssumption ==
    /\ DEPTH \in Nat \ {0, 1}
    /\ NoPtr \notin Nat \cup BOOLEAN
    /\ MaxWraps \in Nat

VARIABLES
    fifo_pc,                \* "recv", "wait" while the timer runs, or "ended"
    rinc, winc,             \* driven by the controller
    rbin, wbin,             \* the pointers
    rq_wptr, wq_rptr,       \* the synchronisers, one pair of registers each
    rempty, wfull,
    rptr, rptr_prev, rempty_prev,       \* of read_monitor
    wptr, wptr_prev, wfull_prev,        \* of write_monitor
    fifo_bins               \* misc_bins

fifoDesign == <<rbin, wbin, rq_wptr, wq_rptr, rempty, wfull>>
readMonitor == <<rptr, rptr_prev, rempty_prev>>
writeMonitor == <<wptr, wptr_prev, wfull_prev>>
fifoVars == <<fifo_pc, rinc, winc, fifoDesign, readMonitor, writeMonitor, fifo_bins>>

Plus(a, b) == (a + b) % (2 * DEPTH)
MSB(ptr) == ptr \div DEPTH

FifoBins == {"full_read_wrap", "gray_read_wrap", "full_write_wrap", "gray_write_wrap",
             "underflow", "overflow", "full", "empty", "read_while_write",
             "write_while_read"}

-----------------------------------------------------------------------------
(* The design: both sides step from the registers before the edge.         *)

rbinnext == Plus(rbin, IF rinc /\ ~rempty THEN 1 ELSE 0)

\* Faulty: compares the pointer before the edge.
rempty_val_Current == rbin = rq_wptr[2]

rempty_val == rbinnext = rq_wptr[2]

ReadEdge ==
    /\ rbin' = rbinnext
    /\ rempty' = rempty_val
    /\ rq_wptr' = <<wbin, rq_wptr[1]>>

wbinnext == Plus(wbin, IF winc /\ ~wfull THEN 1 ELSE 0)

\* Faulty: compares the pointer before the edge.
wfull_val_Current == wbin = Plus(wq_rptr[2], DEPTH)

wfull_val == wbinnext = Plus(wq_rptr[2], DEPTH)

WriteEdge ==
    /\ wbin' = wbinnext
    /\ wfull' = wfull_val
    /\ wq_rptr' = <<rbin, wq_rptr[1]>>

-----------------------------------------------------------------------------
(* The monitors: they are resumed when the registers have changed.         *)

Wrapped(now, before) == now = 0 /\ before \notin {0, 1, NoPtr}

Toggled(now, before) == before # NoPtr /\ MSB(now) # MSB(before)

\* A flag that was not set the last time, when there was one.
Raised(flag, before) == flag /\ before = FALSE

\* Faulty: judged by the flag after the edge.
Refused_Now(inc, now, before) == inc /\ now

Refused(inc, now, before) == inc /\ before = TRUE

read_monitor ==
    /\ rptr_prev' = rptr
    /\ rptr' = rbin'
    /\ rempty_prev' = rempty'

ReadHits ==
    {bin \in FifoBins :
        \/ bin = "empty" /\ Raised(rempty', rempty_prev)
        \/ bin = "full_read_wrap" /\ Wrapped(rbin', rptr)
        \/ bin = "gray_read_wrap" /\ Toggled(rbin', rptr)
        \/ bin = "underflow" /\ Refused(rinc, rempty', rempty_prev)
        \/ bin = "read_while_write" /\ rinc /\ winc}

write_monitor ==
    /\ wptr_prev' = wptr
    /\ wptr' = wbin'
    /\ wfull_prev' = wfull'

WriteHits ==
    {bin \in FifoBins :
        \/ bin = "full" /\ Raised(wfull', wfull_prev)
        \/ bin = "full_write_wrap" /\ Wrapped(wbin', wptr)
        \/ bin = "gray_write_wrap" /\ Toggled(wbin', wptr)
        \/ bin = "overflow" /\ Refused(winc, wfull', wfull_prev)
        \/ bin = "write_while_read" /\ rinc /\ winc}

-----------------------------------------------------------------------------
\* After do_reset; the monitors are started with the controller.
InitFifo ==
    /\ fifo_pc = "recv"
    /\ rinc = FALSE
    /\ winc = FALSE
    /\ rbin = 0
    /\ wbin = 0
    /\ rq_wptr = <<0, 0>>
    /\ wq_rptr = <<0, 0>>
    /\ rempty = TRUE
    /\ wfull = FALSE
    /\ rptr = NoPtr
    /\ rptr_prev = NoPtr
    /\ rempty_prev = NoPtr
    /\ wptr = NoPtr
    /\ wptr_prev = NoPtr
    /\ wfull_prev = NoPtr
    /\ fifo_bins = [bin \in FifoBins |-> 0]

Bound(bin) ==
    IF bin \in {"full_read_wrap", "gray_read_wrap", "full_write_wrap", "gray_write_wrap"}
    THEN 2 * MaxWraps ELSE 1

Drive(read, write) ==
    /\ fifo_pc = "recv"
    /\ rinc' = read
    /\ winc' = write
    /\ fifo_pc' = "wait"
    /\ UNCHANGED <<fifoDesign, readMonitor, writeMonitor, fifo_bins>>

\* Time passes only while a stimulus waits: none, one or more edges.  A wrap is
\* counted up to MaxWraps, anything else once.
Edges(clocks) ==
    /\ fifo_pc = "wait"
    /\ fifo_bins["full_write_wrap"] < MaxWraps
    /\ IF "rclk" \in clocks THEN ReadEdge /\ read_monitor
                            ELSE UNCHANGED <<rbin, rempty, rq_wptr, readMonitor>>
    /\ IF "wclk" \in clocks THEN WriteEdge /\ write_monitor
                            ELSE UNCHANGED <<wbin, wfull, wq_rptr, writeMonitor>>
    /\ LET hits == (IF "rclk" \in clocks THEN ReadHits ELSE {})
                      \cup (IF "wclk" \in clocks THEN WriteHits ELSE {}) IN
       fifo_bins' = [bin \in FifoBins |->
                       IF bin \in hits /\ fifo_bins[bin] < Bound(bin)
                       THEN fifo_bins[bin] + 1 ELSE fifo_bins[bin]]
    /\ UNCHANGED <<fifo_pc, rinc, winc>>

FifoReply ==
    /\ fifo_pc = "wait"
    /\ fifo_pc' \in {"recv", "ended"}
    /\ UNCHANGED <<rinc, winc, fifoDesign, readMonitor, writeMonitor, fifo_bins>>

FifoEnded == fifo_pc = "ended" /\ UNCHANGED fifoVars

NextFifo ==
    \/ \E read, write \in BOOLEAN : Drive(read, write)
    \/ \E clocks \in {{"rclk"}, {"wclk"}, {"rclk", "wclk"}} : Edges(clocks)
    \/ FifoReply
    \/ FifoEnded

SpecFifo == InitFifo /\ [][NextFifo]_fifoVars

-----------------------------------------------------------------------------
\* The two monitors agree though neither sees the other's clock: the read pointer
\* wraps after the write pointer, and at most one lap behind it.
WrapsInOrder ==
    /\ fifo_bins["full_read_wrap"] <= fifo_bins["full_write_wrap"]
    /\ fifo_bins["full_write_wrap"] <= fifo_bins["full_read_wrap"] + 1

\* Underflow is counted when the design refuses a read, overflow when it refuses a
\* write, although each monitor looks at a flag it has saved one edge before, and no
\* refusal is missed but at the first edge of a clock, when no flag is saved yet.
RefusalsCounted ==
    [][/\ fifo_bins'["underflow"] > fifo_bins["underflow"] => rinc /\ rbin' = rbin
       /\ fifo_bins'["overflow"] > fifo_bins["overflow"] => winc /\ wbin' = wbin
       /\ \A clocks \in SUBSET {"rclk", "wclk"} : Edges(clocks) =>
            /\ "rclk" \in clocks /\ rinc /\ rempty /\ rempty_prev # NoPtr =>
                    fifo_bins'["underflow"] > 0
            /\ "wclk" \in clocks /\ winc /\ wfull /\ wfull_prev # NoPtr =>
                    fifo_bins'["overflow"] > 0]_fifoVars

\* Whatever the interleaving of the clocks, no word is lost or read twice: the
\* writer is between 0 and DEPTH words ahead of the reader.
Gap(a, b) == IF a <= b THEN b - a ELSE b - a + 2 * DEPTH

WithinDepth == Gap(rbin, wbin) <= DEPTH
=============================================================================
