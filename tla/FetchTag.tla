------------------------------ MODULE FetchTag ------------------------------
(***************************************************************************)
(* The fetch tag server (agile_prefetcher/fetch_tag/                       *)
(* agile_prefetcher_fetch_tag_cocotb.py) around its design                 *)
(* (prefetcher_fetch_tag.sv, prefetcher_streaming_manager.sv).  The server *)
(* drives the wires of one operation, lets clock edges pass and counts a   *)
(* bin; simulated time passes only while an operation awaits an edge.      *)
(*                                                                         *)
(* Memory answers at once, as the wires the test forces say.  A fetch is   *)
(* of less than 16 objects and a message of 16 features at most, so one    *)
(* beat of the bus carries it.                                             *)
(***************************************************************************)
EXTENDS Naturals, FiniteSetsExt

CONSTANTS
    Nodeslots,              \* of the stimuli, 0 among them
    NeighbourCounts,        \* neighbour counts of the stimuli
    ADJ_QUEUE_DEPTH,
    MESSAGE_QUEUE_DEPTH,
    NoTag                   \* no allocation is driven

ASSUME FetchTagAssumption ==
    /\ 0 \in Nodeslots
    /\ NeighbourCounts \subseteq 1..15
    /\ ADJ_QUEUE_DEPTH \in Nat \ {0}
    /\ MESSAGE_QUEUE_DEPTH \in Nat \ {0}
    /\ NoTag \notin Nodeslots

VARIABLES
    tag_pc,                 \* "recv", what is done after the next edge, or "ended"
    tag_edge,               \* the edge the operation awaits has come
    tag_allocated,          \* the server's copy
    tag_bins,               \* the bins this stimulus has counted
    req_valid, req,         \* nsb_prefetcher_req of the design
    allocation,             \* the nodeslot while allocation_valid, NoTag else
    deallocation_valid,
    tag_free, allocated_nodeslot,
    adj, scale,             \* the managers of the two queues of fetched data
    msg                     \* the message queue and its state machine

tagDriven == <<req_valid, req, allocation, deallocation_valid>>
tagServer == <<tag_pc, tag_edge, tag_allocated, tag_bins>>
tagDesign == <<tag_free, allocated_nodeslot, adj, scale, msg>>
tagVars == <<tagServer, tagDriven, tagDesign>>

-----------------------------------------------------------------------------
(* The design, at a clock edge.                                            *)

\* The manager of a queue takes a request whatever its nodeslot.
Asked(opcode) == ~tag_free /\ req_valid /\ req.opcode = opcode

\* A fetch: request, response, then one object a cycle into the queue.
ManagerNext(m, opcode, slots) ==
    LET full == m.count = ADJ_QUEUE_DEPTH /\ opcode = "ADJACENCY_LIST"
        stores == m.unstored > 0 /\ ~full IN
    CASE m.state = "IDLE" /\ Asked(opcode) ->
            [m EXCEPT !.state = IF m.count = 0 THEN "RM_REQ" ELSE "IDLE",
                      !.remaining = req.count,
                      !.unstored = req.count,
                      !.issue_partial_done = FALSE]
      [] m.state = "RM_REQ" ->
            [m EXCEPT !.state = "WAIT_RESP", !.remaining = @ - Min({@, slots})]
      [] m.state = "WAIT_RESP" ->
            [m EXCEPT !.state = "STORE"]
      [] m.state = "STORE" ->
            [m EXCEPT !.state = IF m.unstored = 0 THEN "DONE"
                                ELSE IF full THEN "PAUSE"
                                ELSE IF m.remaining > 0 THEN "RM_REQ" ELSE "STORE",
                      !.issue_partial_done = @ \/ (m.unstored > 0 /\ full),
                      !.unstored = IF stores THEN @ - 1 ELSE @,
                      !.count = IF stores THEN @ + 1 ELSE @]
      [] m.state = "PAUSE" ->
            [m EXCEPT !.state = IF m.unstored = 0 THEN "IDLE"
                                ELSE IF full THEN "PAUSE" ELSE "RM_REQ"]
      [] m.state = "DONE" ->
            [m EXCEPT !.state = "IDLE"]
      [] OTHER -> m

message_queue_full == msg.count = MESSAGE_QUEUE_DEPTH

AcceptingMessages ==
    Asked("MESSAGES") /\ req.nodeslot = allocated_nodeslot /\ adj.count > 0

\* The read master of the messages also serves the scale factors.
AcceptingFetch(head) ==
    \/ scale.state = "RM_REQ"
    \/ msg.state = "FETCH" /\ adj.count > 0 /\ head /\ ~message_queue_full

message_fetch_state_n(head) ==
    CASE msg.state = "IDLE" -> IF AcceptingMessages THEN "FETCH" ELSE "IDLE"
      [] msg.state = "FETCH" -> IF AcceptingFetch(head) THEN "STORE" ELSE "FETCH"
      [] msg.state \in {"STORE", "PAUSE"} ->
            IF adj.count = 0 THEN "DONE"
            ELSE IF message_queue_full THEN "PAUSE" ELSE "FETCH"
      [] msg.state = "DONE" ->
            IF "DONE" \in {adj.state, scale.state} THEN "DONE" ELSE "IDLE"

\* The message channel is asked for nodeslot 0, by a wire nobody drives.
MessagesNext(head, channel_head) ==
    LET next == message_fetch_state_n(head)
        pushed == IF msg.state = "STORE" THEN 1 ELSE 0
        popped == IF msg.accepted /\ channel_head /\ msg.count > 0 THEN 1 ELSE 0
        starts == msg.state = "IDLE" /\ next = "FETCH" IN
    [state |-> next,
     count |-> (msg.count + pushed - popped) % (2 * MESSAGE_QUEUE_DEPTH),
     accepted |-> IF tag_free /\ allocation # NoTag THEN FALSE
                  ELSE \/ msg.accepted
                       \/ msg.count > 0 /\ msg.state = "IDLE" /\ allocated_nodeslot = 0,
     issue |-> ~starts /\ (msg.issue \/ (msg.state = "STORE" /\ next = "PAUSE")),
     issue_q |-> IF starts \/ AcceptingFetch(head) THEN msg.issue_q ELSE msg.issue]

trigger_msg_partial_resp == msg.issue /\ ~msg.issue_q

make_tag_free ==
    /\ deallocation_valid
    /\ adj.count = 0
    /\ msg.count = 0
    /\ adj.state = "IDLE"
    /\ msg.state = "IDLE"

\* The heads of the queues are valid some cycles after a pop.
TagClockEdge ==
    /\ tag_pc \notin {"recv", "ended"}
    /\ ~tag_edge
    /\ tag_edge' = TRUE
    /\ IF tag_free /\ allocation # NoTag
       THEN tag_free' = FALSE /\ allocated_nodeslot' = allocation
       ELSE tag_free' = (tag_free \/ make_tag_free) /\ UNCHANGED allocated_nodeslot
    /\ \E head, channel_head \in BOOLEAN :
          /\ msg' = MessagesNext(head, channel_head)
          /\ LET popped == IF msg.state = "FETCH" /\ AcceptingFetch(head) THEN 1 ELSE 0 IN
             adj' = [ManagerNext(adj, "ADJACENCY_LIST", ADJ_QUEUE_DEPTH - adj.count)
                       EXCEPT !.count = @ - popped]
    /\ scale' = ManagerNext(scale, "SCALE_FACTOR", 15)
    /\ UNCHANGED <<tag_pc, tag_allocated, tag_bins, tagDriven>>

-----------------------------------------------------------------------------
NoFetch == [state |-> "IDLE", remaining |-> 0, unstored |-> 0, count |-> 0,
            issue_partial_done |-> FALSE]

\* After do_reset.  A request is forced valid, its wires are 0.
InitTag ==
    /\ tag_pc = "recv"
    /\ tag_edge = FALSE
    /\ tag_allocated = FALSE
    /\ tag_bins = {}
    /\ req_valid = TRUE
    /\ req = [opcode |-> "WEIGHTS", nodeslot |-> 0, count |-> 0]
    /\ allocation = NoTag
    /\ deallocation_valid = FALSE
    /\ tag_free = TRUE
    /\ allocated_nodeslot = 0
    /\ adj = NoFetch
    /\ scale = NoFetch
    /\ msg = [state |-> "IDLE", count |-> 0, accepted |-> FALSE, issue |-> FALSE,
              issue_q |-> FALSE]

TagHit(bin) == tag_bins' = tag_bins \cup {bin}
OnlyTagHit(bin) == tag_bins' = {bin}

\* A stimulus may be the last one.
TagReply == tag_pc' \in {"recv", "ended"}

allocate_tag(nodeslot) ==
    /\ tag_pc = "recv"
    /\ allocation' = nodeslot
    /\ tag_pc' = "allocated"
    /\ tag_bins' = {}
    /\ UNCHANGED <<tag_edge, tag_allocated, req_valid, req, deallocation_valid, tagDesign>>

deallocate_tag ==
    /\ tag_pc = "recv"
    /\ deallocation_valid' = TRUE
    /\ tag_pc' = "deallocated"
    /\ tag_bins' = {}
    /\ UNCHANGED <<tag_edge, tag_allocated, req_valid, req, allocation, tagDesign>>

Allocated ==
    /\ tag_pc = "allocated"
    /\ tag_edge
    /\ allocation' = NoTag
    /\ tag_allocated' = TRUE
    /\ tag_edge' = FALSE
    /\ TagReply
    /\ UNCHANGED <<tag_bins, req_valid, req, deallocation_valid, tagDesign>>

\* Faulty: the copy is not taken back.
Deallocated_KeepCopy ==
    /\ tag_pc = "deallocated"
    /\ tag_edge
    /\ deallocation_valid' = FALSE
    /\ tag_edge' = FALSE
    /\ TagReply
    /\ UNCHANGED <<tag_allocated, tag_bins, req_valid, req, allocation, tagDesign>>

Deallocated ==
    /\ tag_pc = "deallocated"
    /\ tag_edge
    /\ deallocation_valid' = FALSE
    /\ tag_allocated' = FALSE
    /\ tag_edge' = FALSE
    /\ TagReply
    /\ UNCHANGED <<tag_bins, req_valid, req, allocation, tagDesign>>

\* req_adj_write and req_scale_write wait while the design fetches for their queue.
Fetching(m) == m.state \notin {"IDLE", "DONE"} /\ ~m.issue_partial_done

adj_waits == Fetching(adj) /\ adj.count # ADJ_QUEUE_DEPTH

\* Faulty: waits for an idle manager, which lets an edge see the request.
TagWaits_Idle(queue) ==
    CASE queue = "adj" -> adj.state = "IDLE" \/ adj_waits
      [] queue = "scale" -> Fetching(scale)

TagWaits(queue) ==
    CASE queue = "adj" -> adj_waits
      [] queue = "scale" -> Fetching(scale)

Seen(queue, before) ==
    /\ req_valid' = FALSE
    /\ tag_bins' = before \cup IF queue = "adj" THEN {} ELSE {<<queue, "seen">>}

\* Up to the first await.  A request that the server refuses stays valid; one it
\* need not wait for is gone before an edge sees it.
req_write(queue, opcode, nodeslot, count) ==
    /\ tag_pc = "recv"
    /\ req' = [opcode |-> opcode, nodeslot |-> nodeslot, count |-> count]
    /\ \/ /\ ~tag_allocated
          /\ OnlyTagHit(<<queue, "dealloc">>)
          /\ req_valid' = TRUE
          /\ tag_pc' = "refused"
       \/ /\ tag_allocated
          /\ allocated_nodeslot # nodeslot
          /\ OnlyTagHit(<<queue, "nomatch">>)
          /\ req_valid' = TRUE
          /\ tag_pc' = "refused"
       \/ /\ tag_allocated
          /\ allocated_nodeslot = nodeslot
          /\ IF TagWaits(queue) THEN /\ tag_pc' = queue
                                 /\ req_valid' = TRUE
                                 /\ tag_bins' = {}
                            ELSE Seen(queue, {}) /\ TagReply
    /\ UNCHANGED <<tag_edge, tag_allocated, allocation, deallocation_valid, tagDesign>>

TagRefused ==
    /\ tag_pc = "refused"
    /\ tag_edge
    /\ tag_edge' = FALSE
    /\ TagReply
    /\ UNCHANGED <<tag_allocated, tag_bins, tagDriven, tagDesign>>

\* The loop goes round or ends.
TagWoken(queue) ==
    /\ tag_pc = queue
    /\ tag_edge
    /\ tag_edge' = FALSE
    /\ IF TagWaits(queue) THEN UNCHANGED <<tag_pc, req_valid, tag_bins>>
                      ELSE Seen(queue, tag_bins) /\ TagReply
    /\ UNCHANGED <<tag_allocated, req, allocation, deallocation_valid, tagDesign>>

req_message_write(nodeslot) ==
    /\ tag_pc = "recv"
    /\ OnlyTagHit(<<"mess_fetch_adj", IF adj.issue_partial_done THEN "nopartial" ELSE "partial">>)
    /\ req_valid' = TRUE
    /\ req' = [opcode |-> "MESSAGES", nodeslot |-> nodeslot, count |-> 0]
    /\ tag_pc' = "message"
    /\ UNCHANGED <<tag_edge, tag_allocated, allocation, deallocation_valid, tagDesign>>

mess_waits ==
    ~trigger_msg_partial_resp /\ msg.state # "DONE" /\ ~message_queue_full

MessageWoken ==
    /\ tag_pc \in {"message", "mess"}
    /\ tag_edge
    /\ tag_edge' = FALSE
    /\ \/ /\ tag_pc = "message"
          /\ ~tag_allocated
          /\ TagHit(<<"mess", "dealloc">>)
          /\ TagReply
          /\ UNCHANGED req_valid
       \/ /\ tag_pc = "message"
          /\ tag_allocated
          /\ allocated_nodeslot # req.nodeslot
          /\ TagHit(<<"mess", "nomatch">>)
          /\ TagReply
          /\ UNCHANGED req_valid
       \/ /\ tag_pc = "mess" \/ (tag_allocated /\ allocated_nodeslot = req.nodeslot)
          /\ IF mess_waits /\ ~(tag_pc = "message" /\ message_fetch_state_n(TRUE) = "IDLE")
             THEN tag_pc' = "mess" /\ UNCHANGED <<req_valid, tag_bins>>
             ELSE Seen("mess", tag_bins) /\ TagReply
    /\ UNCHANGED <<tag_allocated, req, allocation, deallocation_valid, tagDesign>>

TagEnded == tag_pc = "ended" /\ UNCHANGED tagVars

TagOperation ==
    \/ \E nodeslot \in Nodeslots :
          \/ allocate_tag(nodeslot)
          \/ req_message_write(nodeslot)
          \/ \E count \in NeighbourCounts :
                \/ req_write("adj", "ADJACENCY_LIST", nodeslot, count)
                \/ req_write("scale", "SCALE_FACTOR", nodeslot, count)
    \/ deallocate_tag

TagResumed ==
    \/ Allocated
    \/ Deallocated
    \/ TagRefused
    \/ \E queue \in {"adj", "scale"} : TagWoken(queue)
    \/ MessageWoken

NextTag == TagOperation \/ TagClockEdge \/ TagResumed \/ TagEnded

SpecTag == InitTag /\ [][NextTag]_tagVars

-----------------------------------------------------------------------------
\* The server's copy errs on one side only: a tag it holds for allocated is not free.
\* (The design may refuse a deallocation, and the copy says free all the same.)
AllocatedHeld == tag_pc \in {"recv", "adj", "scale", "mess"} /\ tag_allocated => ~tag_free

\* A request that the server waits for is not the one the design fetches for: each
\* fetch of a list or of scale factors starts from a request that was refused and
\* left valid.
OnlyRefusedFetch ==
    [][\A m \in {"adj", "scale"} :
          tag_pc = m => /\ adj.state = "IDLE" => adj'.state = "IDLE"
                        /\ scale.state = "IDLE" => scale'.state = "IDLE"]_tagVars
=============================================================================
