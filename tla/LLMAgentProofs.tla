--------------------------- MODULE LLMAgentProofs ---------------------------
(***************************************************************************)
(* Theorems about LLMAgent: for every coverage plan, bound, budget,        *)
(* convergence span, way to reset the buffer and restart plan.             *)
(***************************************************************************)
EXTENDS LLMAgent, TLAPS

Score == 0..BinCount
Id == 1..DialogBound
Record == [id : Id, hit : Score]
Buffer == [ranked : SUBSET Record, fresh : Seq(Record)]

-----------------------------------------------------------------------------
(* The inductive invariant.                                                *)

\* A response whose stimuli are being simulated, or were gibberish.
Answered == Open = 1 /\ state = "ITER"

\* Only the placeholder of a limit is in flight.
Doomed == sent = 0 /\ stimuli_buffer = 0 /\ g_coverage # None /\ LimitReached

\* Where the client is, what is open there, and what the limits said on the way.
Control ==
    /\ Open \in {0, 1}
    /\ pc # "crashed" => (state = "DONE" <=> pc \in {"finish", "ended"})
    /\ pc \notin {"finish", "ended", "crashed"} => (state = "INIT" <=> msg_index = 0)
    /\ msg_index = 0 => Open = 0
    /\ pc = "generate" => ~_check_converge
    /\ pc \in {"await", "check", "generate"} =>
            \/ total_msg_cnt = 0 /\ stimuli_buffer = 0
            \/ Answered /\ sent = total_msg_cnt
            \/ Doomed /\ pc # "generate"
    /\ pc = "loop" => (Open = 1 <=> stimuli_buffer > 0 \/ f_ = 1)
    /\ pc = "prompt" =>
            /\ Open = 0
            /\ stimuli_buffer = 0
            /\ total_msg_cnt < DialogBound
            /\ ~no_budget

\* The client's copy of the coverage is the server's, once there is a reply; no
\* message hit more than there was to hit.
Coverage ==
    /\ g_coverage # None => g_coverage = dut_hits
    /\ pc \in {"loop", "prompt"} => g_coverage # None
    /\ total_msg_cnt > 0 => g_coverage # None
    /\ \A m \in Id : gain[m] <= dut_hits
    /\ \A m \in Id : m > total_msg_cnt => gain[m] = 0

\* The end of the buffer is the open message, with the coverage before it; the
\* rest are messages judged, with what they hit.
Paired ==
    /\ best_messages \in Buffer
    /\ ~(Open = 1 /\ msg_index > 1) => best_messages.fresh = << >>
    /\ Open = 1 /\ msg_index > 1 =>
            /\ Len(best_messages.fresh) = 1
            /\ best_messages.fresh[1].id = total_msg_cnt
            /\ ~Doomed \/ pc = "loop" =>
                    best_messages.fresh[1].hit + gain[total_msg_cnt] = dut_hits
    /\ \A e \in best_messages.ranked :
            e.id <= Len(all_history_cov_rate) /\ e.hit = gain[e.id]

\* The limits are looked at before every message is judged.
NoEarlyConvergence ==
    \A i \in 1..Len(all_history_cov_rate) - 1 :
        ~Converged(SubSeq(all_history_cov_rate, 1, i))

IInv ==
    /\ TypeOK
    /\ Control
    /\ JudgedOnce
    /\ Coverage
    /\ Paired
    /\ NoEarlyConvergence

-----------------------------------------------------------------------------
(* Sequences, and the buffer of messages.                                  *)

\* Counting from the end, an appended element comes first.
LEMMA FromEndAppend ==
    ASSUME NEW S, NEW h \in Seq(S), NEW c \in S, NEW k \in 1..(Len(h) + 1)
    PROVE  FromEnd(Append(h, c), k) = IF k = 1 THEN c ELSE FromEnd(h, k - 1)
BY DEF FromEnd

\* A prefix does not change when the sequence grows.
LEMMA PrefixAppend ==
    ASSUME NEW S, NEW h \in Seq(S), NEW c \in S, NEW i \in 1..Len(h)
    PROVE  SubSeq(Append(h, c), 1, i) = SubSeq(h, 1, i)
OBVIOUS

\* The whole of a sequence is a prefix of it.
LEMMA WholePrefix ==
    ASSUME NEW S, NEW h \in Seq(S)
    PROVE  SubSeq(h, 1, Len(h)) = h
OBVIOUS

\* An empty history has not converged.
LEMMA EmptyNotConverged == ~Converged(<< >>)
BY LLMAgentAssumption DEF Converged

\* Sorting and cutting the buffer adds no entry.
LEMMA RetainedSubset == \A entries : Retained(entries) \subseteq entries
BY DEF Retained

\* update_successful settles the one fresh entry and adds nothing else.
LEMMA UpdateSettles ==
    ASSUME NEW best \in Buffer, Len(best.fresh) = 1, NEW score \in Int,
           score - best.fresh[1].hit \in Score
    PROVE  /\ update_successful(best, score) \in Buffer
           /\ update_successful(best, score).fresh = << >>
           /\ \A e \in update_successful(best, score).ranked :
                \/ e \in best.ranked
                \/ e.id = best.fresh[1].id /\ e.hit = score - best.fresh[1].hit
<1> DEFINE last == best.fresh[1]
           settled == [last EXCEPT !.hit = score - @]
           kept == Retained((Entries(best) \ {last}) \cup {settled})
<1>1. best.fresh \in Seq(Record) /\ last \in Record /\ best.ranked \subseteq Record
    BY DEF Buffer
<1>2. LastMessage(best) = last
    BY <1>1 DEF LastMessage
<1>3. Entries(best) = best.ranked \cup {last}
    BY <1>1 DEF Entries
<1>4. settled \in Record /\ settled.id = last.id /\ settled.hit = score - last.hit
    BY <1>1 DEF Record
<1>5. kept \subseteq best.ranked \cup {settled}
    BY <1>3, RetainedSubset
<1>6. update_successful(best, score) = [ranked |-> kept, fresh |-> << >>]
    BY <1>2 DEF update_successful
<1>7. kept \subseteq Record
    BY <1>1, <1>4, <1>5
<1>8. << >> \in Seq(Record)
    OBVIOUS
<1>9. [ranked |-> kept, fresh |-> << >>] \in Buffer
    BY <1>7, <1>8 DEF Buffer
<1>10. \A e \in kept : e \in best.ranked \/ (e.id = last.id /\ e.hit = score - last.hit)
    BY <1>4, <1>5
<1> HIDE DEF kept
<1>11. /\ update_successful(best, score).ranked = kept
       /\ update_successful(best, score).fresh = << >>
    BY <1>6
<1>12. QED
    BY <1>6, <1>9, <1>10, <1>11

\* append_successful puts the new entry at the end.
LEMMA AppendFresh ==
    ASSUME NEW best \in Buffer, best.fresh = << >>, NEW id \in Id, NEW score \in Score
    PROVE  LET new == append_successful(best, id, score)
           IN  /\ new \in Buffer
               /\ new.ranked = best.ranked
               /\ Len(new.fresh) = 1
               /\ new.fresh[1] = [id |-> id, hit |-> score]
<1> DEFINE entry == [id |-> id, hit |-> score]
           fresh == Append(best.fresh, entry)
           new == append_successful(best, id, score)
<1>1. entry \in Record
    BY DEF Record
<1>2. best.ranked \in SUBSET Record /\ best.fresh \in Seq(Record)
    BY DEF Buffer
<1>3. fresh \in Seq(Record) /\ Len(fresh) = 1 /\ fresh[1] = entry
    BY <1>1, <1>2
<1>4. new = [ranked |-> best.ranked, fresh |-> fresh]
    BY DEF append_successful, Buffer
<1>5. [ranked |-> best.ranked, fresh |-> fresh] \in Buffer
    BY <1>2, <1>3 DEF Buffer
<1>6. QED
    BY <1>3, <1>4, <1>5

\* What TypeOK says of the entries follows from the shape of the buffer.
LEMMA BufferEntries ==
    ASSUME NEW best \in Buffer
    PROVE  Entries(best) \subseteq [id : 1..DialogBound, hit : 0..BinCount]
<1>1. best.ranked \subseteq Record /\ best.fresh \in Seq(Record)
    BY DEF Buffer
<1>2. \A i \in DOMAIN best.fresh : best.fresh[i] \in Record
    BY <1>1
<1>3. QED
    BY <1>1, <1>2 DEF Entries, Record, Id, Score

-----------------------------------------------------------------------------
(* The initial state, and the judgement of a message.                      *)

\* A trial starts in the invariant: nothing has been asked or hit.
LEMMA InitIInv == Init => IInv
<1> SUFFICES ASSUME Init PROVE IInv
    OBVIOUS
<1>1. /\ Open = 0 /\ total_msg_cnt = 0 /\ all_history_cov_rate = << >>
      /\ history_cov_rate = << >>
    <2>1. /\ total_msg_cnt = 0 /\ all_history_cov_rate = << >>
          /\ history_cov_rate = << >>
        BY DEF Init
    <2>2. Len(all_history_cov_rate) = 0
        BY <2>1
    <2>3. total_msg_cnt = 0
        BY <2>1
    <2>4. Open = 0
        BY <2>2, <2>3 DEF Open
    <2>5. QED
        BY <2>1, <2>4
<1>2. best_messages \in Buffer /\ best_messages.fresh = << >> /\ best_messages.ranked = {}
    BY DEF Init, NoMessages, Buffer
<1>3. TypeOK
    <2>1. << >> \in Seq(Score)
        OBVIOUS
    <2>2. Entries(best_messages) \subseteq [id : 1..DialogBound, hit : 0..BinCount]
        BY <1>2, BufferEntries
    <2>3. gain \in [1..DialogBound -> 0..BinCount]
        BY LLMAgentAssumption DEF Init
    <2>4. QED
        BY <1>1, <2>1, <2>2, <2>3, LLMAgentAssumption DEF Init, TypeOK, Score
<1>4. Control
    BY <1>1 DEF Init, Control
<1>5. JudgedOnce
    BY <1>1 DEF Init, JudgedOnce
<1>6. Coverage
    BY <1>1, LLMAgentAssumption DEF Init, Coverage, Id
<1>7. Paired
    BY <1>1, <1>2 DEF Paired
<1>8. NoEarlyConvergence
    BY <1>1 DEF NoEarlyConvergence
<1>9. QED
    BY <1>3, <1>4, <1>5, <1>6, <1>7, <1>8 DEF IInv

\* While a message is open the counts are one ahead of the histories.
LEMMA OpenMessage ==
    ASSUME IInv, Open = 1
    PROVE  /\ total_msg_cnt \in 1..DialogBound
           /\ msg_index \in 1..total_msg_cnt
           /\ Len(all_history_cov_rate) = total_msg_cnt - 1
           /\ Len(history_cov_rate) = msg_index - 1
<1>1. /\ total_msg_cnt \in 0..DialogBound /\ msg_index \in 0..total_msg_cnt
      /\ all_history_cov_rate \in Seq(0..BinCount)
    BY DEF IInv, TypeOK
<1>2. msg_index # 0
    BY DEF IInv, Control
<1>3. Len(all_history_cov_rate) = total_msg_cnt - 1
    BY <1>1 DEF Open
<1>4. Len(history_cov_rate) = msg_index - 1
    BY DEF IInv, JudgedOnce
<1>5. QED
    BY <1>1, <1>2, <1>3, <1>4

\* The buffer after the judgement of the open message, restarted or not.
LEMMA Settled ==
    ASSUME IInv, Answered, g_coverage # None, ~Doomed \/ pc = "loop"
    PROVE  LET best == IF HasEntry
                       THEN update_successful(best_messages, g_coverage)
                       ELSE best_messages
           IN  /\ best \in Buffer
               /\ best.fresh = << >>
               /\ \A e \in best.ranked : e.id <= total_msg_cnt /\ e.hit = gain[e.id]
<1>1. /\ best_messages \in Buffer
      /\ Open = 1 /\ total_msg_cnt \in 1..DialogBound
      /\ \A e \in best_messages.ranked : e.id <= total_msg_cnt - 1 /\ e.hit = gain[e.id]
    BY OpenMessage DEF IInv, Paired, Answered
<1>2. CASE ~HasEntry
    <2>1. best_messages.fresh = << >>
        BY <1>1, <1>2 DEF IInv, Paired, HasEntry
    <2>2. \A e \in best_messages.ranked : e.id <= total_msg_cnt
        BY <1>1 DEF Buffer, Record, Id
    <2>3. QED
        BY <1>1, <1>2, <2>1, <2>2
<1>3. CASE HasEntry
    <2> DEFINE last == best_messages.fresh[1]
               updated == update_successful(best_messages, g_coverage)
    <2>1. /\ Len(best_messages.fresh) = 1
          /\ last.id = total_msg_cnt
          /\ last.hit + gain[total_msg_cnt] = dut_hits
        <3>1. msg_index > 1
            BY <1>1, <1>3, OpenMessage DEF HasEntry
        <3>2. QED
            BY <1>1, <3>1 DEF IInv, Paired
    <2>2. /\ g_coverage = dut_hits /\ dut_hits \in Int
          /\ gain[total_msg_cnt] \in Score
        <3>1. g_coverage = dut_hits
            BY DEF IInv, Coverage
        <3>2. dut_hits \in 0..BinCount /\ gain \in [1..DialogBound -> 0..BinCount]
            BY DEF IInv, TypeOK
        <3>3. QED
            BY <1>1, <3>1, <3>2 DEF Score
    <2>3. last.hit \in Int
        <3>1. best_messages.fresh \in Seq(Record)
            BY <1>1 DEF Buffer
        <3>2. last \in Record
            BY <2>1, <3>1
        <3>3. QED
            BY <3>2 DEF Record, Score
    <2>4. g_coverage - last.hit = gain[total_msg_cnt]
        BY <2>1, <2>2, <2>3 DEF Score
    <2>5. /\ updated \in Buffer
          /\ updated.fresh = << >>
          /\ \A e \in updated.ranked :
                \/ e \in best_messages.ranked
                \/ e.id = last.id /\ e.hit = g_coverage - last.hit
        BY <1>1, <2>1, <2>2, <2>4, UpdateSettles
    <2>6. \A e \in best_messages.ranked : e.id <= total_msg_cnt
        BY <1>1 DEF Buffer, Record, Id
    <2> HIDE DEF updated
    <2>7. \A e \in updated.ranked : e.id <= total_msg_cnt /\ e.hit = gain[e.id]
        BY <1>1, <2>1, <2>4, <2>5, <2>6
    <2>8. QED
        BY <1>3, <2>5, <2>7 DEF updated
<1>4. QED
    BY <1>2, <1>3

\* A message is judged in one place of the histories, its entry settled in one
\* place of the buffer, and nothing is open afterwards.
LEMMA Judging ==
    ASSUME IInv, Answered, g_coverage # None, ~Doomed \/ pc = "loop", ~_check_converge,
           JudgeMessage, UNCHANGED gain
    PROVE  /\ total_msg_cnt' = total_msg_cnt /\ token_budget' = token_budget
           /\ all_history_cov_rate' \in Seq(Score) /\ history_cov_rate' \in Seq(Score)
           /\ Open' = 0
           /\ msg_index' \in 0..total_msg_cnt
           /\ dialog_index' \in Nat \ {0}
           /\ \/ state' = "INIT" /\ msg_index' = 0
              \/ state' = "ITER" /\ msg_index' > 0
           /\ JudgedOnce'
           /\ Paired'
           /\ NoEarlyConvergence'
<1> DEFINE hist == history_cov_rate
           all == all_history_cov_rate
           best == IF HasEntry
                   THEN update_successful(best_messages, g_coverage)
                   ELSE best_messages
<1>1. /\ hist \in Seq(Score) /\ all \in Seq(Score)
      /\ total_msg_cnt \in 1..DialogBound /\ msg_index \in 1..total_msg_cnt
      /\ Len(all) = total_msg_cnt - 1 /\ Len(hist) = msg_index - 1
      /\ \A k \in 1..Len(hist) : FromEnd(hist, k) = FromEnd(all, k)
      /\ g_coverage \in Score
      /\ state = "ITER" /\ dialog_index \in Nat \ {0}
    <2>1. /\ hist \in Seq(Score) /\ all \in Seq(Score)
          /\ g_coverage \in Score
          /\ dialog_index \in Nat \ {0}
        BY DEF IInv, TypeOK, Score
    <2>2. \A k \in 1..Len(hist) : FromEnd(hist, k) = FromEnd(all, k)
        BY DEF IInv, JudgedOnce
    <2>3. QED
        BY <2>1, <2>2, OpenMessage DEF Answered
<1>2. /\ best \in Buffer
      /\ best.fresh = << >>
      /\ \A e \in best.ranked : e.id <= total_msg_cnt /\ e.hit = gain[e.id]
    BY Settled
<1> HIDE DEF best
<1>3. /\ all' = Append(all, g_coverage)
      /\ total_msg_cnt' = total_msg_cnt /\ token_budget' = token_budget
    BY DEF JudgeMessage, Recorded
<1>4. \/ /\ state' = "INIT" /\ msg_index' = 0 /\ dialog_index' = dialog_index + 1
         /\ history_cov_rate' = << >>
         /\ best_messages' \in {NoMessages, best}
      \/ /\ UNCHANGED <<state, msg_index, dialog_index>>
         /\ history_cov_rate' = Append(hist, g_coverage)
         /\ best_messages' = best
    BY DEF JudgeMessage, reset, Recorded, best
<1>5. all' \in Seq(Score) /\ Len(all') = total_msg_cnt
    BY <1>1, <1>3
<1>6. Open' = 0
    BY <1>1, <1>3, <1>5 DEF Open
<1>7. history_cov_rate' \in Seq(Score) /\ Len(history_cov_rate') = msg_index'
    <2>1. CASE history_cov_rate' = << >> /\ msg_index' = 0
        BY <2>1
    <2>2. CASE history_cov_rate' = Append(hist, g_coverage) /\ msg_index' = msg_index
        BY <1>1, <2>2
    <2>3. QED
        BY <1>4, <2>1, <2>2
<1>8. JudgedOnce'
    <2>1. \A k \in 1..Len(history_cov_rate') :
                FromEnd(history_cov_rate', k) = FromEnd(all', k)
        <3>1. CASE history_cov_rate' = << >>
            BY <3>1
        <3>2. CASE history_cov_rate' = Append(hist, g_coverage)
            <4> TAKE k \in 1..Len(history_cov_rate')
            <4>1. k \in 1..(Len(hist) + 1) /\ k \in 1..(Len(all) + 1)
                BY <1>1, <3>2
            <4>2. FromEnd(Append(hist, g_coverage), k) =
                    IF k = 1 THEN g_coverage ELSE FromEnd(hist, k - 1)
                BY <1>1, <4>1, FromEndAppend
            <4>3. FromEnd(Append(all, g_coverage), k) =
                    IF k = 1 THEN g_coverage ELSE FromEnd(all, k - 1)
                BY <1>1, <4>1, FromEndAppend
            <4>4. k # 1 => FromEnd(hist, k - 1) = FromEnd(all, k - 1)
                BY <1>1, <4>1
            <4>5. QED
                BY <1>3, <3>2, <4>2, <4>3, <4>4
        <3>3. QED
            BY <1>4, <3>1, <3>2
    <2>2. QED
        BY <1>1, <1>4, <1>6, <1>7, <2>1 DEF JudgedOnce
<1>9. Paired'
    <2>1. NoMessages \in Buffer /\ NoMessages.fresh = << >> /\ NoMessages.ranked = {}
        BY DEF NoMessages, Buffer
    <2>2. /\ best_messages' \in Buffer
          /\ best_messages'.fresh = << >>
          /\ \A e \in best_messages'.ranked : e.id <= total_msg_cnt /\ e.hit = gain[e.id]
        BY <1>2, <1>4, <2>1
    <2>3. QED
        BY <1>5, <1>6, <2>2 DEF Paired
<1>10. NoEarlyConvergence'
    <2> SUFFICES ASSUME NEW i \in 1..(Len(all') - 1)
                 PROVE  ~Converged(SubSeq(all', 1, i))
        BY DEF NoEarlyConvergence, Converged
    <2>1. i \in 1..Len(all)
        BY <1>1, <1>5
    <2>2. SubSeq(all', 1, i) = SubSeq(all, 1, i)
        BY <1>1, <1>3, <2>1, PrefixAppend
    <2>3. CASE i = Len(all)
        BY <1>1, <2>2, <2>3, WholePrefix DEF _check_converge
    <2>4. CASE i # Len(all)
        <3>1. i \in 1..(Len(all) - 1)
            BY <1>1, <2>1, <2>4
        <3>2. QED
            BY <2>2, <3>1 DEF IInv, NoEarlyConvergence
    <2>5. QED
        BY <2>3, <2>4
<1>11. QED
    BY <1>1, <1>3, <1>4, <1>5, <1>6, <1>7, <1>8, <1>9, <1>10

-----------------------------------------------------------------------------
(* The steps.                                                              *)

\* Steps that ask and judge nothing keep the books.
LEMMA LedgerKept ==
    ASSUME IInv,
           UNCHANGED <<total_msg_cnt, msg_index, history_cov_rate, all_history_cov_rate>>,
           pc' = "prompt" => Open = 0
    PROVE  Open' = Open /\ JudgedOnce' /\ NoEarlyConvergence'
BY DEF IInv, JudgedOnce, NoEarlyConvergence, Open, Converged, FromEnd

\* They keep the buffer, as long as they do not bring a lost message back.
LEMMA BufferKept ==
    ASSUME IInv,
           UNCHANGED <<total_msg_cnt, msg_index, all_history_cov_rate, best_messages,
                       gain, dut_hits>>,
           \/ Open = 0
           \/ ~Doomed' \/ pc' = "loop" => ~Doomed \/ pc = "loop"
    PROVE  Paired'
BY DEF IInv, Paired, Open

\* Before the first message there is no history.
LEMMA NothingAsked ==
    ASSUME IInv, total_msg_cnt = 0
    PROVE  /\ msg_index = 0 /\ Open = 0 /\ sent = 0
           /\ ~_check_converge
<1>1. /\ msg_index = 0 /\ sent = 0
      /\ all_history_cov_rate \in Seq(0..BinCount)
    <2>1. msg_index \in 0..0 /\ sent \in 0..0
        BY DEF IInv, TypeOK
    <2>2. all_history_cov_rate \in Seq(0..BinCount)
        BY DEF IInv, TypeOK
    <2>3. QED
        BY <2>1, <2>2
<1>2. Open = 0
    BY <1>1 DEF IInv, Control
<1>3. Len(all_history_cov_rate) = 0
    BY <1>1, <1>2 DEF Open
<1>4. all_history_cov_rate = << >>
    BY <1>1, <1>3
<1>5. QED
    BY <1>1, <1>2, <1>4, EmptyNotConverged DEF _check_converge

\* When end_simulation lets the loop go on, the stimuli in hand belong to a
\* message that is still open, unless there is none yet.
LEMMA GoingOn ==
    ASSUME IInv, pc = "check", StopReason = "none"
    PROVE  /\ ~_check_converge
           /\ \/ total_msg_cnt = 0 /\ stimuli_buffer = 0
              \/ Answered /\ sent = total_msg_cnt
<1>1. CASE total_msg_cnt = 0
    <2>1. Open = 0 /\ ~_check_converge
        BY <1>1, NothingAsked
    <2>2. ~Answered
        BY <2>1 DEF Answered
    <2>3. stimuli_buffer = 0
        BY <2>2 DEF IInv, Control, Doomed
    <2>4. QED
        BY <1>1, <2>1, <2>3
<1>2. CASE total_msg_cnt # 0
    <2>1. total_msg_cnt > 0
        <3>1. total_msg_cnt \in 0..DialogBound
            BY DEF IInv, TypeOK
        <3>2. QED
            BY <1>2, <3>1
    <2>2. g_coverage # None
        BY <2>1 DEF IInv, Coverage
    <2>3. ~_check_converge
        BY <2>2 DEF StopReason
    <2>4. ~Doomed
        BY <2>2 DEF StopReason, Doomed, LimitReached
    <2>5. QED
        BY <1>2, <2>3, <2>4 DEF IInv, Control
<1>3. QED
    BY <1>1, <1>2

\* end_simulation only reads; it stops with the reason the limits give.
LEMMA EndSimulationKeeps ==
    ASSUME IInv, EndSimulation
    PROVE  IInv'
<1>1. UNCHANGED <<total_msg_cnt, msg_index, dialog_index,
                  best_iter_buffer_resetting, history_cov_rate,
                  all_history_cov_rate, token_budget, best_messages, stimuli_buffer,
                  f_, g_coverage, dut_hits, sent, gain>>
    BY DEF EndSimulation
<1>2. /\ pc = "check"
      /\ \/ StopReason = "none" /\ pc' = "generate" /\ state' = state
         \/ StopReason # "none" /\ pc' = "finish" /\ state' = "DONE"
    BY DEF EndSimulation
<1>3. Open' = Open /\ JudgedOnce' /\ NoEarlyConvergence'
    BY <1>1, <1>2, LedgerKept
<1>4. LimitReached' = LimitReached /\ _check_converge' = _check_converge
    BY <1>1 DEF LimitReached, _check_converge, no_budget, Converged, FromEnd
<1>5. Paired'
    BY <1>1, <1>2, <1>4, BufferKept DEF Doomed
<1>6. TypeOK'
    BY <1>1, <1>2 DEF IInv, TypeOK, EndSimulation, StopReason
<1>7. Coverage'
    BY <1>1, <1>2 DEF IInv, Coverage
<1>8. Control'
    <2>1. CASE StopReason = "none"
        <3>1. /\ ~_check_converge
              /\ \/ total_msg_cnt = 0 /\ stimuli_buffer = 0
                 \/ Answered /\ sent = total_msg_cnt
            BY <1>2, <2>1, GoingOn
        <3>2. state \in {"INIT", "ITER"} /\ (state = "INIT" <=> msg_index = 0)
            BY <1>2 DEF IInv, TypeOK, Control
        <3>3. /\ Open \in {0, 1}
              /\ msg_index = 0 => Open = 0
            BY DEF IInv, Control
        <3>4. QED
            BY <1>1, <1>2, <1>3, <1>4, <2>1, <3>1, <3>2, <3>3 DEF Control, Answered
    <2>2. CASE StopReason # "none"
        BY <1>1, <1>2, <1>3, <2>2 DEF IInv, Control
    <2>3. QED
        BY <2>1, <2>2
<1>9. QED
    BY <1>3, <1>5, <1>6, <1>7, <1>8 DEF IInv

\* A step that judges the open message and leaves the rest of the client alone.
LEMMA JudgingKeeps ==
    ASSUME IInv, Answered, g_coverage # None, ~Doomed \/ pc = "loop", ~_check_converge,
           stimuli_buffer = 0, JudgeMessage,
           UNCHANGED <<stimuli_buffer, g_coverage, dut_hits, stop, sent, gain>>,
           f_' \in {0, 1},
           \/ pc' = "loop" /\ f_' = 0
           \/ pc' = "prompt" /\ total_msg_cnt < DialogBound /\ ~no_budget
    PROVE  IInv'
<1>1. /\ total_msg_cnt' = total_msg_cnt /\ token_budget' = token_budget
      /\ all_history_cov_rate' \in Seq(Score) /\ history_cov_rate' \in Seq(Score)
      /\ Open' = 0
      /\ msg_index' \in 0..total_msg_cnt
      /\ dialog_index' \in Nat \ {0}
      /\ \/ state' = "INIT" /\ msg_index' = 0
         \/ state' = "ITER" /\ msg_index' > 0
      /\ JudgedOnce'
      /\ Paired'
      /\ NoEarlyConvergence'
    BY Judging
<1>2. TypeOK'
    <2>1. Entries(best_messages') \subseteq [id : 1..DialogBound, hit : 0..BinCount]
        BY <1>1, BufferEntries DEF Paired
    <2>2. pc' \in {"loop", "prompt"} /\ state' \in {"INIT", "ITER", "DONE"}
        BY <1>1
    <2>3. best_iter_buffer_resetting' = best_iter_buffer_resetting
        BY DEF JudgeMessage
    <2>4. QED
        BY <1>1, <2>1, <2>2, <2>3 DEF IInv, TypeOK, Score, Entries
<1>3. Coverage'
    BY <1>1 DEF IInv, Coverage
<1>4. Control'
    <2>1. pc' \in {"loop", "prompt"}
        OBVIOUS
    <2>2. no_budget' = no_budget
        BY <1>1 DEF no_budget
    <2>3. state' = "INIT" <=> msg_index' = 0
        BY <1>1
    <2>4. state' # "DONE"
        BY <1>1
    <2>5. QED
        BY <1>1, <2>1, <2>2, <2>3, <2>4 DEF Control
<1>5. QED
    BY <1>1, <1>2, <1>3, <1>4 DEF IInv

\* generate_next_value up to its loop: the first placeholder, or the
\* judgement of the message whose stimuli have run out.
LEMMA GenerateNextValueKeeps ==
    ASSUME IInv, GenerateNextValue
    PROVE  IInv'
<1>1. /\ pc = "generate" /\ f_' = 0
      /\ UNCHANGED <<stimuli_buffer, g_coverage, dut_hits, stop, gain>>
    BY DEF GenerateNextValue
<1>2. /\ ~_check_converge
      /\ \/ total_msg_cnt = 0 /\ stimuli_buffer = 0
         \/ Answered /\ sent = total_msg_cnt
    BY <1>1 DEF IInv, Control
<1>3. state \in {"INIT", "ITER"} /\ (state = "INIT" <=> msg_index = 0)
    BY <1>1 DEF IInv, TypeOK, Control
<1>4. CASE ~(g_coverage # None /\ stimuli_buffer = 0 /\ state # "INIT")
    <2>1. UNCHANGED <<state, total_msg_cnt, msg_index, dialog_index,
                      best_iter_buffer_resetting, history_cov_rate,
                      all_history_cov_rate, token_budget, best_messages>>
        BY <1>4 DEF GenerateNextValue, agentVars
    <2>2. \/ g_coverage = None /\ pc' = "await" /\ sent' = 0
          \/ g_coverage # None /\ pc' = "loop" /\ sent' = sent
        BY DEF GenerateNextValue, Send
    <2>3. Open' = Open /\ JudgedOnce' /\ NoEarlyConvergence'
        BY <2>1, <2>2, LedgerKept
    <2>4. ASSUME total_msg_cnt = 0 PROVE Paired' /\ Control' /\ sent' = sent
        <3>1. Open = 0 /\ msg_index = 0 /\ sent = 0
            BY <2>4, NothingAsked
        <3>2. Paired'
            BY <1>1, <2>1, <3>1, BufferKept
        <3>3. stimuli_buffer = 0
            BY <1>2, <3>1 DEF Answered
        <3>4. Control'
            BY <1>1, <1>3, <2>1, <2>2, <2>3, <2>4, <3>1, <3>3 DEF Control
        <3>5. sent' = sent
            BY <2>2, <3>1
        <3>6. QED
            BY <3>2, <3>4, <3>5
    <2>5. ASSUME total_msg_cnt # 0 PROVE Paired' /\ Control' /\ sent' = sent
        <3>1. total_msg_cnt > 0
            <4>1. total_msg_cnt \in 0..DialogBound
                BY DEF IInv, TypeOK
            <4>2. QED
                BY <2>5, <4>1
        <3>2. Answered /\ sent = total_msg_cnt /\ ~Doomed
            BY <1>2, <2>5 DEF Doomed
        <3>3. g_coverage # None /\ pc' = "loop" /\ sent' = sent
            BY <2>2, <3>1 DEF IInv, Coverage
        <3>4. Paired'
            BY <1>1, <2>1, <3>2, BufferKept
        <3>5. msg_index # 0 /\ Open = 1 /\ state = "ITER"
            BY <3>2 DEF Answered, IInv, Control
        <3>6. stimuli_buffer > 0
            <4>1. stimuli_buffer # 0
                BY <1>4, <3>3, <3>5
            <4>2. stimuli_buffer \in 0..MaxStimuli
                BY DEF IInv, TypeOK
            <4>3. QED
                BY <4>1, <4>2
        <3>7. Control'
            BY <1>1, <1>3, <2>1, <2>3, <3>3, <3>5, <3>6 DEF Control
        <3>8. QED
            BY <3>3, <3>4, <3>7
    <2>6. Paired' /\ Control' /\ sent' = sent
        BY <2>4, <2>5
    <2>7. TypeOK'
        BY <1>1, <2>1, <2>2, <2>6 DEF IInv, TypeOK
    <2>8. Coverage'
        BY <1>1, <2>1, <2>2 DEF IInv, Coverage
    <2>9. QED
        BY <2>3, <2>6, <2>7, <2>8 DEF IInv
<1>5. CASE g_coverage # None /\ stimuli_buffer = 0 /\ state # "INIT"
    <2>1. pc' = "loop" /\ sent' = sent /\ JudgeMessage
        BY <1>5 DEF GenerateNextValue
    <2>2. total_msg_cnt # 0
        BY <1>3, <1>5, NothingAsked
    <2>3. Answered /\ sent = total_msg_cnt
        BY <1>2, <2>2
    <2>4. ~Doomed
        BY <2>2, <2>3 DEF Doomed
    <2>5. QED
        BY <1>1, <1>2, <1>5, <2>1, <2>3, <2>4, JudgingKeeps
<1>6. QED
    BY <1>4, <1>5

\* While the client runs, an open message has been answered.
LEMMA OpenIsAnswered ==
    ASSUME IInv, pc \in {"loop", "prompt"}, Open = 1
    PROVE  Answered /\ msg_index # 0
<1>1. msg_index # 0 /\ state # "INIT" /\ state # "DONE"
    BY DEF IInv, Control
<1>2. state \in {"INIT", "ITER", "DONE"}
    BY DEF IInv, TypeOK
<1>3. QED
    BY <1>1, <1>2 DEF Answered

\* A stimulus of the open message is put in flight.
LEMMA SendStimulusKeeps ==
    ASSUME IInv, SendStimulus
    PROVE  IInv'
<1>1. /\ pc = "loop" /\ stimuli_buffer > 0 /\ stimuli_buffer' = stimuli_buffer - 1
      /\ pc' = "await" /\ sent' = total_msg_cnt
      /\ UNCHANGED <<state, total_msg_cnt, msg_index, dialog_index,
                     best_iter_buffer_resetting, history_cov_rate,
                     all_history_cov_rate, token_budget, best_messages, f_, g_coverage,
                     dut_hits, stop, gain>>
    BY DEF SendStimulus, Send, agentVars
<1>2. Open = 1 /\ state = "ITER" /\ msg_index # 0
    <2>1. Open = 1
        BY <1>1 DEF IInv, Control
    <2>2. QED
        BY <1>1, <2>1, OpenIsAnswered DEF Answered
<1>3. Open' = Open /\ JudgedOnce' /\ NoEarlyConvergence'
    BY <1>1, LedgerKept
<1>4. Paired'
    BY <1>1, BufferKept
<1>5. TypeOK'
    <2>1. total_msg_cnt \in 0..total_msg_cnt
        <3>1. total_msg_cnt \in 0..DialogBound
            BY DEF IInv, TypeOK
        <3>2. QED
            BY <3>1
    <2>2. stimuli_buffer' \in 0..MaxStimuli
        <3>1. stimuli_buffer \in 0..MaxStimuli
            BY DEF IInv, TypeOK
        <3>2. QED
            BY <1>1, <3>1, LLMAgentAssumption
    <2>3. QED
        BY <1>1, <2>1, <2>2 DEF IInv, TypeOK
<1>6. Coverage'
    BY <1>1 DEF IInv, Coverage
<1>7. Control'
    BY <1>1, <1>2, <1>3 DEF Control, Answered
<1>8. QED
    BY <1>3, <1>4, <1>5, <1>6, <1>7 DEF IInv

\* The placeholder is only sent where end_simulation stops next.
LEMMA ReturnPlaceholderKeeps ==
    ASSUME IInv, ReturnPlaceholder
    PROVE  IInv'
<1>1. /\ pc = "loop" /\ stimuli_buffer = 0 /\ LimitReached
      /\ pc' = "await" /\ sent' = 0
      /\ UNCHANGED <<state, total_msg_cnt, msg_index, dialog_index,
                     best_iter_buffer_resetting, history_cov_rate,
                     all_history_cov_rate, token_budget, best_messages, stimuli_buffer,
                     f_, g_coverage, dut_hits, stop, gain>>
    BY DEF ReturnPlaceholder, Send, agentVars
<1>2. Open' = Open /\ JudgedOnce' /\ NoEarlyConvergence'
    BY <1>1, LedgerKept
<1>3. Paired'
    BY <1>1, BufferKept
<1>4. TypeOK'
    <2>1. 0 \in 0..total_msg_cnt
        <3>1. total_msg_cnt \in 0..DialogBound
            BY DEF IInv, TypeOK
        <3>2. QED
            BY <3>1
    <2>2. QED
        BY <1>1, <2>1 DEF IInv, TypeOK
<1>5. Coverage'
    BY <1>1 DEF IInv, Coverage
<1>6. Doomed'
    <2>1. LimitReached'
        BY <1>1 DEF LimitReached, _check_converge, no_budget, Converged, FromEnd
    <2>2. g_coverage # None
        BY <1>1 DEF IInv, Coverage
    <2>3. QED
        BY <1>1, <2>1, <2>2 DEF Doomed
<1>7. Control'
    <2>1. /\ state # "DONE" /\ (state = "INIT" <=> msg_index = 0)
          /\ Open \in {0, 1}
          /\ msg_index = 0 => Open = 0
        BY <1>1 DEF IInv, Control
    <2>2. QED
        BY <1>1, <1>2, <1>6, <2>1 DEF Control
<1>8. QED
    BY <1>2, <1>3, <1>4, <1>5, <1>7 DEF IInv

\* The loop goes on: a gibberish message is judged before the next is asked.
LEMMA PreparePromptKeeps ==
    ASSUME IInv, PreparePrompt
    PROVE  IInv'
<1>1. /\ pc = "loop" /\ stimuli_buffer = 0 /\ ~LimitReached /\ pc' = "prompt"
      /\ f_' \in {0, f_} /\ f_ \in {0, 1}
      /\ UNCHANGED <<stimuli_buffer, g_coverage, dut_hits, stop, sent, gain>>
    BY DEF PreparePrompt, IInv, TypeOK
<1>2. /\ total_msg_cnt < DialogBound /\ ~_check_converge /\ ~no_budget
      /\ g_coverage # None
    <2>1. total_msg_cnt \in 0..DialogBound
        BY DEF IInv, TypeOK
    <2>2. QED
        BY <1>1, <2>1, LLMAgentAssumption DEF LimitReached, IInv, Coverage
<1>3. CASE f_ = 1
    <2>1. JudgeMessage
        BY <1>3 DEF PreparePrompt
    <2>2. Answered
        <3>1. Open = 1
            BY <1>1, <1>3 DEF IInv, Control
        <3>2. QED
            BY <1>1, <3>1, OpenIsAnswered
    <2>3. QED
        BY <1>1, <1>2, <1>3, <2>1, <2>2, JudgingKeeps
<1>4. CASE f_ = 0
    <2>1. UNCHANGED <<state, total_msg_cnt, msg_index, dialog_index,
                      best_iter_buffer_resetting, history_cov_rate,
                      all_history_cov_rate, token_budget, best_messages>>
        BY <1>4 DEF PreparePrompt, agentVars
    <2>2. Open = 0 /\ state # "DONE" /\ (state = "INIT" <=> msg_index = 0)
        BY <1>1, <1>4 DEF IInv, Control
    <2>3. Open' = Open /\ JudgedOnce' /\ NoEarlyConvergence'
        BY <2>1, <2>2, LedgerKept
    <2>4. Paired'
        BY <1>1, <2>1, <2>2, BufferKept
    <2>5. TypeOK'
        BY <1>1, <1>4, <2>1 DEF IInv, TypeOK
    <2>6. Coverage'
        BY <1>1, <2>1 DEF IInv, Coverage
    <2>7. Control'
        BY <1>1, <1>2, <2>1, <2>2, <2>3 DEF Control, no_budget
    <2>8. QED
        BY <2>3, <2>4, <2>5, <2>6, <2>7 DEF IInv
<1>5. QED
    BY <1>1, <1>3, <1>4

\* An answer opens the next message, which was fresh: no stimulus of it has run.
LEMMA AnswerKeeps ==
    ASSUME IInv, NEW stimuli \in 0..MaxStimuli, NEW tokens \in 1..MaxTokens,
           Answer(stimuli, tokens)
    PROVE  IInv'
<1>1. /\ pc = "prompt" /\ pc' = "loop" /\ state' = "ITER"
      /\ total_msg_cnt' = total_msg_cnt + 1 /\ msg_index' = msg_index + 1
      /\ stimuli_buffer' = stimuli
      /\ f_' = IF stimuli = 0 THEN 1 ELSE f_
      /\ token_budget' = IF token_budget = None THEN None ELSE token_budget - tokens
      /\ UNCHANGED <<dialog_index,
                     best_iter_buffer_resetting, history_cov_rate, all_history_cov_rate,
                     g_coverage, dut_hits, stop, sent, gain>>
    BY DEF Answer
<1>2. /\ Open = 0 /\ total_msg_cnt < DialogBound /\ ~no_budget
      /\ state # "DONE" /\ (state = "INIT" <=> msg_index = 0)
      /\ g_coverage # None
    BY <1>1 DEF IInv, Control, Coverage
<1>3. /\ total_msg_cnt \in 0..DialogBound /\ msg_index \in 0..total_msg_cnt
      /\ state \in {"INIT", "ITER"}
      /\ g_coverage \in Score /\ dut_hits \in Score
      /\ gain \in [Id -> Score]
      /\ all_history_cov_rate \in Seq(Score)
    BY <1>2 DEF IInv, TypeOK, Score, Id
<1>4. total_msg_cnt + 1 \in Id /\ msg_index + 1 \in 0..(total_msg_cnt + 1)
    BY <1>2, <1>3, LLMAgentAssumption DEF Id
<1>5. Open' = 1
    <2>1. Open = total_msg_cnt - Len(all_history_cov_rate)
        BY DEF Open
    <2>2. Open' = (total_msg_cnt + 1) - Len(all_history_cov_rate)
        BY <1>1 DEF Open
    <2>3. Len(all_history_cov_rate) \in Nat
        BY <1>3
    <2>4. QED
        BY <1>2, <1>3, <2>1, <2>2, <2>3
<1>6. JudgedOnce'
    <2>1. /\ Len(history_cov_rate) = msg_index - 0
          /\ \A k \in 1..Len(history_cov_rate) :
                FromEnd(history_cov_rate, k) = FromEnd(all_history_cov_rate, k)
        BY <1>2 DEF IInv, JudgedOnce
    <2>2. /\ Len(history_cov_rate') = msg_index' - 1
          /\ \A k \in 1..Len(history_cov_rate') :
                FromEnd(history_cov_rate, k)' = FromEnd(all_history_cov_rate, k)'
        <3>1. msg_index' - 1 = msg_index - 0
            BY <1>1, <1>3
        <3>2. history_cov_rate' = history_cov_rate
              /\ all_history_cov_rate' = all_history_cov_rate
            BY <1>1
        <3>3. QED
            BY <2>1, <3>1, <3>2 DEF FromEnd
    <2>3. pc' = "loop"
        BY <1>1
    <2>4. QED
        BY <1>5, <2>2, <2>3 DEF JudgedOnce, FromEnd
<1>7. NoEarlyConvergence'
    BY <1>1 DEF IInv, NoEarlyConvergence, Converged, FromEnd
<1>8. Coverage'
    BY <1>1, <1>2, <1>3 DEF IInv, Coverage, Id
<1>9. Paired'
    <2>1. /\ best_messages \in Buffer /\ best_messages.fresh = << >>
          /\ \A e \in best_messages.ranked :
                e.id <= Len(all_history_cov_rate) /\ e.hit = gain[e.id]
        BY <1>2 DEF IInv, Paired
    <2>2. CASE state = "INIT"
        <3>1. best_messages' = best_messages /\ msg_index' = 1
            BY <1>1, <1>2, <2>2 DEF Answer
        <3>2. QED
            BY <1>1, <1>5, <2>1, <3>1 DEF Paired
    <2>3. CASE state = "ITER"
        <3> DEFINE new == append_successful(best_messages, total_msg_cnt + 1, g_coverage)
        <3>1. best_messages' = new
            BY <2>3 DEF Answer
        <3>2. /\ new \in Buffer
              /\ new.ranked = best_messages.ranked
              /\ Len(new.fresh) = 1
              /\ new.fresh[1] = [id |-> total_msg_cnt + 1, hit |-> g_coverage]
            BY <1>3, <1>4, <2>1, AppendFresh
        <3> HIDE DEF new
        <3>3. new.fresh[1].id = total_msg_cnt + 1 /\ new.fresh[1].hit = g_coverage
            BY <3>2
        <3>4. g_coverage = dut_hits /\ gain[total_msg_cnt + 1] = 0
            BY <1>2, <1>3, <1>4 DEF IInv, Coverage
        <3>5. new.fresh[1].hit + gain'[total_msg_cnt'] = dut_hits'
            BY <1>1, <1>3, <3>3, <3>4 DEF Score
        <3>6. msg_index' > 1
            BY <1>1, <1>2, <1>3, <2>3
        <3>7. QED
            BY <1>1, <1>5, <2>1, <3>1, <3>2, <3>3, <3>5, <3>6 DEF Paired
    <2>4. QED
        BY <1>3, <2>2, <2>3
<1>10. TypeOK'
    <2>1. Entries(best_messages') \subseteq [id : 1..DialogBound, hit : 0..BinCount]
        BY <1>9, BufferEntries DEF Paired
    <2>2. token_budget' \in Int \cup {None} /\ (token_budget' # None => token_budget' > -MaxTokens)
        <3>1. CASE token_budget = None
            BY <1>1, <3>1
        <3>2. CASE token_budget # None
            <4>1. token_budget \in Int
                BY <3>2 DEF IInv, TypeOK
            <4>2. ~(token_budget <= 0)
                BY <1>2, <3>2 DEF no_budget
            <4>3. token_budget - tokens \in Int /\ token_budget - tokens > -MaxTokens
                BY <4>1, <4>2, LLMAgentAssumption
            <4>4. QED
                BY <1>1, <3>2, <4>3
        <3>3. QED
            BY <3>1, <3>2
    <2>3. total_msg_cnt' \in 0..DialogBound /\ msg_index' \in 0..total_msg_cnt'
        BY <1>1, <1>4 DEF Id
    <2>4. sent' \in 0..total_msg_cnt'
        <3>1. sent \in 0..total_msg_cnt
            BY DEF IInv, TypeOK
        <3>2. QED
            BY <1>1, <1>3, <3>1
    <2>5. f_' \in {0, 1}
        BY <1>1 DEF IInv, TypeOK
    <2>6. QED
        BY <1>1, <2>1, <2>2, <2>3, <2>4, <2>5 DEF IInv, TypeOK, Entries
<1>11. Control'
    <2>1. stimuli_buffer' > 0 \/ f_' = 1
        BY <1>1, LLMAgentAssumption
    <2>2. msg_index' # 0
        BY <1>1, <1>3
    <2>3. QED
        BY <1>1, <1>5, <2>1, <2>2 DEF Control
<1>12. QED
    BY <1>6, <1>7, <1>8, <1>9, <1>10, <1>11 DEF IInv

\* A call without an answer changes nothing but the place in the program.
LEMMA AnswerFailsKeeps ==
    ASSUME IInv, AnswerFails
    PROVE  IInv'
<1>1. /\ pc = "prompt" /\ pc' = "crashed"
      /\ UNCHANGED <<state, total_msg_cnt, msg_index, dialog_index,
                     best_iter_buffer_resetting, history_cov_rate,
                     all_history_cov_rate, token_budget, best_messages, stimuli_buffer,
                     f_, g_coverage, dut_hits, stop, sent, gain>>
    BY DEF AnswerFails, agentVars
<1>2. Open = 0 /\ state # "DONE"
    BY <1>1 DEF IInv, Control
<1>3. Open' = Open /\ JudgedOnce' /\ NoEarlyConvergence'
    BY <1>1, LedgerKept
<1>4. Paired'
    BY <1>1, <1>2, BufferKept
<1>5. TypeOK' /\ Coverage'
    BY <1>1 DEF IInv, TypeOK, Coverage
<1>6. Control'
    BY <1>1, <1>2, <1>3 DEF Control
<1>7. QED
    BY <1>3, <1>4, <1>5, <1>6 DEF IInv

\* The finish request changes nothing that is counted.
LEMMA FinishKeeps ==
    ASSUME IInv, Finish
    PROVE  IInv'
<1>1. /\ pc = "finish" /\ pc' = "ended"
      /\ UNCHANGED <<state, total_msg_cnt, msg_index, dialog_index,
                     best_iter_buffer_resetting, history_cov_rate,
                     all_history_cov_rate, token_budget, best_messages, stimuli_buffer,
                     f_, g_coverage, dut_hits, stop, sent, gain>>
    BY DEF Finish, agentVars
<1>2. Open' = Open /\ JudgedOnce' /\ NoEarlyConvergence'
    BY <1>1, LedgerKept
<1>3. LimitReached' = LimitReached
    BY <1>1 DEF LimitReached, _check_converge, no_budget, Converged, FromEnd
<1>4. Paired'
    BY <1>1, <1>3, BufferKept DEF Doomed
<1>5. TypeOK' /\ Coverage'
    BY <1>1 DEF IInv, TypeOK, Coverage
<1>6. Control'
    BY <1>1, <1>2 DEF IInv, Control
<1>7. QED
    BY <1>2, <1>4, <1>5, <1>6 DEF IInv

\* Hits go to the message the stimulus in flight comes from, and to coverage.
LEMMA SimulateKeeps ==
    ASSUME IInv, NEW hits \in 0..(BinCount - dut_hits), Simulate(hits)
    PROVE  IInv'
<1>1. /\ pc = "await" /\ pc' = "check"
      /\ dut_hits' = dut_hits + hits /\ g_coverage' = dut_hits + hits
      /\ gain' = IF sent = 0 THEN gain ELSE [gain EXCEPT ![sent] = @ + hits]
      /\ UNCHANGED <<state, total_msg_cnt, msg_index, dialog_index,
                     best_iter_buffer_resetting, history_cov_rate,
                     all_history_cov_rate, token_budget, best_messages, stimuli_buffer,
                     f_, stop, sent>>
    BY DEF Simulate, agentVars
<1>2. /\ dut_hits \in Score /\ hits \in Nat /\ dut_hits + hits \in Score
      /\ total_msg_cnt \in 0..DialogBound /\ sent \in 0..total_msg_cnt
      /\ gain \in [Id -> Score]
      /\ \A m \in Id : gain[m] <= dut_hits
    <2>1. /\ dut_hits \in Score /\ total_msg_cnt \in 0..DialogBound
          /\ sent \in 0..total_msg_cnt /\ gain \in [Id -> Score]
        BY DEF IInv, TypeOK, Score, Id
    <2>2. hits \in Nat /\ dut_hits + hits \in Score
        BY <2>1, LLMAgentAssumption DEF Score
    <2>3. QED
        BY <2>1, <2>2 DEF IInv, Coverage
<1>3. g_coverage' # None
    BY <1>1, <1>2, LLMAgentAssumption DEF Score
<1>4. Open' = Open /\ JudgedOnce' /\ NoEarlyConvergence'
    BY <1>1, LedgerKept
<1>5. /\ state # "DONE" /\ (state = "INIT" <=> msg_index = 0) /\ Open \in {0, 1}
      /\ msg_index = 0 => Open = 0
      /\ \/ total_msg_cnt = 0 /\ stimuli_buffer = 0
         \/ Answered /\ sent = total_msg_cnt
         \/ Doomed
    BY <1>1 DEF IInv, Control
<1>6. sent # 0 => sent = total_msg_cnt /\ Open = 1 /\ sent \in Id
    BY <1>2, <1>5, LLMAgentAssumption DEF Doomed, Answered, Id
<1>7. Doomed => Doomed'
    BY <1>1, <1>3 DEF Doomed, LimitReached, _check_converge, no_budget, Converged, FromEnd
<1>8. /\ gain' \in [Id -> Score]
      /\ \A m \in Id : gain'[m] = IF m = sent THEN gain[m] + hits ELSE gain[m]
      /\ \A m \in Id : gain'[m] <= dut_hits'
    <2>1. CASE sent = 0
        BY <1>1, <1>2, <2>1, LLMAgentAssumption DEF Score, Id
    <2>2. CASE sent # 0
        <3>1. gain' = [gain EXCEPT ![sent] = @ + hits]
            BY <1>1, <2>2
        <3>2. \A m \in Id : gain'[m] = IF m = sent THEN gain[m] + hits ELSE gain[m]
            BY <1>2, <3>1
        <3>3. \A m \in Id : gain[m] + hits \in Score /\ gain[m] + hits <= dut_hits'
            BY <1>1, <1>2, LLMAgentAssumption DEF Score
        <3>4. \A m \in Id : gain'[m] <= dut_hits' /\ gain'[m] \in Score
            BY <1>1, <1>2, <3>2, <3>3, LLMAgentAssumption DEF Score
        <3>5. gain' \in [Id -> Score]
            BY <1>2, <3>1, <3>3
        <3>6. QED
            BY <3>2, <3>4, <3>5
    <2>3. QED
        BY <2>1, <2>2
<1>9. TypeOK'
    <2>1. gain' \in [1..DialogBound -> 0..BinCount] /\ dut_hits' \in 0..BinCount
          /\ g_coverage' \in 0..BinCount
        BY <1>1, <1>2, <1>8 DEF Score, Id
    <2>2. Entries(best_messages') = Entries(best_messages)
        BY <1>1 DEF Entries
    <2>3. QED
        BY <1>1, <2>1, <2>2 DEF IInv, TypeOK
<1>10. Coverage'
    <2>1. \A m \in Id : m > total_msg_cnt => gain[m] = 0
        BY DEF IInv, Coverage
    <2>2. \A m \in Id : m > total_msg_cnt => gain'[m] = 0
        BY <1>2, <1>8, <2>1 DEF Id
    <2>3. QED
        BY <1>1, <1>3, <1>8, <2>2 DEF Coverage
<1>11. Control'
    <2>1. Answered' = Answered
        BY <1>1, <1>4 DEF Answered
    <2>2. QED
        BY <1>1, <1>4, <1>5, <1>7, <2>1 DEF Control
<1>12. Paired'
    <2>1. /\ best_messages \in Buffer
          /\ \A e \in best_messages.ranked :
                e.id <= Len(all_history_cov_rate) /\ e.hit = gain[e.id]
          /\ ~(Open = 1 /\ msg_index > 1) => best_messages.fresh = << >>
        BY DEF IInv, Paired
    <2>2. \A e \in best_messages.ranked :
                e.id <= Len(all_history_cov_rate) /\ e.hit = gain'[e.id]
        <3> TAKE e \in best_messages.ranked
        <3>1. e.id \in Id
            BY <2>1 DEF Buffer, Record
        <3>2. e.id # sent
            <4>1. CASE sent = 0
                BY <3>1, <4>1, LLMAgentAssumption DEF Id
            <4>2. CASE sent # 0
                <5>1. sent = total_msg_cnt /\ Len(all_history_cov_rate) = total_msg_cnt - 1
                    BY <1>6, <4>2, OpenMessage
                <5>2. QED
                    BY <1>2, <2>1, <3>1, <5>1 DEF Id
            <4>3. QED
                BY <4>1, <4>2
        <3>3. QED
            BY <1>8, <2>1, <3>1, <3>2
    <2>3. ASSUME Open = 1, msg_index > 1
          PROVE  /\ Len(best_messages.fresh) = 1
                 /\ best_messages.fresh[1].id = total_msg_cnt
                 /\ ~Doomed' => best_messages.fresh[1].hit + gain'[total_msg_cnt] = dut_hits'
        <3>1. /\ Len(best_messages.fresh) = 1
              /\ best_messages.fresh[1].id = total_msg_cnt
              /\ ~Doomed => best_messages.fresh[1].hit + gain[total_msg_cnt] = dut_hits
            BY <2>3 DEF IInv, Paired
        <3>2. SUFFICES ASSUME ~Doomed
                       PROVE  best_messages.fresh[1].hit + gain'[total_msg_cnt] = dut_hits'
            BY <1>7, <3>1
        <3>3. total_msg_cnt \in Id
            BY <2>3, OpenMessage DEF Id
        <3>4. sent = total_msg_cnt
            BY <1>5, <3>2, <3>3, LLMAgentAssumption DEF Id
        <3>5. gain'[total_msg_cnt] = gain[total_msg_cnt] + hits
            BY <1>8, <3>3, <3>4
        <3>6. gain[total_msg_cnt] \in Int
            BY <1>2, <3>3 DEF Score
        <3>7. best_messages.fresh[1].hit \in Int
            <4>1. best_messages.fresh \in Seq(Record)
                BY <2>1 DEF Buffer
            <4>2. best_messages.fresh[1] \in Record
                BY <3>1, <4>1
            <4>3. QED
                BY <4>2 DEF Record, Score
        <3>8. QED
            BY <1>1, <1>2, <3>1, <3>2, <3>5, <3>6, <3>7 DEF Score
    <2>4. QED
        BY <1>1, <1>4, <2>1, <2>2, <2>3 DEF Paired
<1>13. QED
    BY <1>4, <1>9, <1>10, <1>11, <1>12 DEF IInv

\* A step that changes no variable keeps the invariant.
LEMMA StutterKeeps == IInv /\ UNCHANGED vars => IInv'
<1> SUFFICES ASSUME IInv, UNCHANGED vars
             PROVE  IInv'
    OBVIOUS
<1>1. UNCHANGED <<pc, state, stimuli_buffer, total_msg_cnt, msg_index, dialog_index,
                  best_iter_buffer_resetting,
                  history_cov_rate, all_history_cov_rate, token_budget, f_,
                  best_messages, g_coverage, dut_hits, stop, sent, gain>>
    BY DEF vars, agentVars
<1>2. LimitReached' = LimitReached /\ _check_converge' = _check_converge
    BY <1>1 DEF LimitReached, _check_converge, no_budget, Converged, FromEnd
<1>3. Open' = Open /\ JudgedOnce' /\ NoEarlyConvergence'
    BY <1>1, LedgerKept DEF IInv, Control
<1>4. Paired'
    BY <1>1, <1>2, BufferKept DEF Doomed
<1>5. TypeOK' /\ Coverage'
    BY <1>1 DEF IInv, TypeOK, Coverage
<1>6. Control'
    BY <1>1, <1>2, <1>3 DEF IInv, Control, Answered, Doomed, no_budget
<1>7. QED
    BY <1>3, <1>4, <1>5, <1>6 DEF IInv

\* Every step keeps the invariant.
LEMMA NextIInv == IInv /\ [Next]_vars => IInv'
<1> SUFFICES ASSUME IInv, Next
             PROVE  IInv'
    BY StutterKeeps
<1>1. CASE EndSimulation
    BY <1>1, EndSimulationKeeps
<1>2. CASE GenerateNextValue
    BY <1>2, GenerateNextValueKeeps
<1>3. CASE SendStimulus
    BY <1>3, SendStimulusKeeps
<1>4. CASE ReturnPlaceholder
    BY <1>4, ReturnPlaceholderKeeps
<1>5. CASE PreparePrompt
    BY <1>5, PreparePromptKeeps
<1>6. ASSUME NEW stimuli \in 0..MaxStimuli, NEW tokens \in 1..MaxTokens,
             Answer(stimuli, tokens)
      PROVE  IInv'
    BY <1>6, AnswerKeeps
<1>7. CASE AnswerFails
    BY <1>7, AnswerFailsKeeps
<1>8. ASSUME NEW hits \in 0..(BinCount - dut_hits), Simulate(hits)
      PROVE  IInv'
    BY <1>8, SimulateKeeps
<1>9. CASE Finish
    BY <1>9, FinishKeeps
<1>10. CASE Stopped
    BY <1>10, StutterKeeps DEF Stopped
<1>11. QED
    BY <1>1, <1>2, <1>3, <1>4, <1>5, <1>6, <1>7, <1>8, <1>9, <1>10 DEF Next

\* The invariant holds throughout every trial (agents/agent_LLM.py).
THEOREM Invariance == Spec => []IInv
BY InitIInv, NextIInv, PTL DEF Spec

-----------------------------------------------------------------------------
(* What follows.                                                           *)

\* What the invariant says of updates, placeholders and convergence.
LEMMA Consequences ==
    IInv => PairedUpdate /\ HitAttribution /\ PlaceholderEnds /\ ConvergenceStops
<1>1. IInv => PairedUpdate /\ HitAttribution
    BY DEF IInv, Paired, PairedUpdate, HitAttribution
<1>2. IInv => PlaceholderEnds
    <2> SUFFICES ASSUME IInv, pc = "check", sent = 0, total_msg_cnt > 0, StopReason = "none"
                 PROVE  FALSE
        BY DEF PlaceholderEnds
    <2>1. total_msg_cnt \in 0..DialogBound
        BY DEF IInv, TypeOK
    <2>2. QED
        BY <2>1, GoingOn
<1>3. IInv => ConvergenceStops
    <2> SUFFICES ASSUME IInv, NEW i \in 1..Len(all_history_cov_rate),
                        Converged(SubSeq(all_history_cov_rate, 1, i))
                 PROVE  total_msg_cnt <= i + 1
        BY DEF ConvergenceStops
    <2>1. /\ all_history_cov_rate \in Seq(0..BinCount)
          /\ total_msg_cnt \in 0..DialogBound
        BY DEF IInv, TypeOK
    <2>2. i \notin 1..(Len(all_history_cov_rate) - 1)
        BY DEF IInv, NoEarlyConvergence
    <2>3. i = Len(all_history_cov_rate)
        BY <2>1, <2>2
    <2>4. total_msg_cnt - Len(all_history_cov_rate) <= 1
        BY DEF IInv, Control, Open
    <2>5. QED
        BY <2>1, <2>3, <2>4
<1>4. QED
    BY <1>1, <1>2, <1>3

\* Every variable keeps to its range, whatever the model answers; in particular
\* no more than DialogBound messages are asked, and an exhausted budget is
\* overdrawn by less than one call.
THEOREM TypeCorrect == Spec => []TypeOK
<1>1. IInv => TypeOK
    BY DEF IInv
<1>2. QED
    BY <1>1, Invariance, PTL

\* Each message is judged once, before the next is asked, across restarts,
\* gibberish answers and early returns.
THEOREM MessagesJudgedOnce == Spec => []JudgedOnce
<1>1. IInv => JudgedOnce
    BY DEF IInv
<1>2. QED
    BY <1>1, Invariance, PTL

\* update_successful always meets the entry of the message being judged.
THEOREM UpdatesPaired == Spec => []PairedUpdate
<1>1. IInv => PairedUpdate
    BY Consequences
<1>2. QED
    BY <1>1, Invariance, PTL

\* A message is ranked by what its own stimuli hit.
THEOREM HitsAttributed == Spec => []HitAttribution
<1>1. IInv => HitAttribution
    BY Consequences
<1>2. QED
    BY <1>1, Invariance, PTL

\* The placeholder of a limit is the last stimulus.
THEOREM PlaceholderIsLast == Spec => []PlaceholderEnds
<1>1. IInv => PlaceholderEnds
    BY Consequences
<1>2. QED
    BY <1>1, Invariance, PTL

\* A run that has converged asks at most one message more.
THEOREM ConvergedRunStops == Spec => []ConvergenceStops
<1>1. IInv => ConvergenceStops
    BY Consequences
<1>2. QED
    BY <1>1, Invariance, PTL

-----------------------------------------------------------------------------
(* The trial implements MessageLedger.                                     *)

Running == state # "DONE" /\ pc # "crashed"

\* A step that asks and judges nothing, and does not stop, is not seen.
LEMMA LedgerUnmoved ==
    ASSUME UNCHANGED <<total_msg_cnt, all_history_cov_rate>>, Running' = Running
    PROVE  UNCHANGED Ledger!vars
BY DEF Ledger!vars, Running

\* A judgement is a step of the ledger.
LEMMA LedgerJudges ==
    ASSUME IInv, Answered, g_coverage # None, ~Doomed \/ pc = "loop", ~_check_converge,
           pc \in {"generate", "loop"}, pc' \in {"loop", "prompt"},
           JudgeMessage, UNCHANGED gain
    PROVE  Ledger!Judge
<1>1. /\ total_msg_cnt' = total_msg_cnt
      /\ state' \in {"INIT", "ITER"}
    BY Judging
<1>2. Len(all_history_cov_rate') = Len(all_history_cov_rate) + 1
    <2>1. all_history_cov_rate' = Append(all_history_cov_rate, g_coverage)
        BY DEF JudgeMessage, Recorded
    <2>2. all_history_cov_rate \in Seq(0..BinCount) /\ g_coverage \in 0..BinCount
        BY DEF IInv, TypeOK
    <2>3. QED
        BY <2>1, <2>2
<1>3. Len(all_history_cov_rate) < total_msg_cnt
    BY OpenMessage DEF Answered
<1>4. QED
    BY <1>1, <1>2, <1>3 DEF Ledger!Judge, Answered

\* A step of the trial asks, judges or stops in the ledger, or leaves it alone.
LEMMA LedgerStep == IInv /\ [Next]_vars => [Ledger!Next]_(Ledger!vars)
<1> SUFFICES ASSUME IInv, [Next]_vars
             PROVE  Ledger!Next \/ UNCHANGED Ledger!vars
    OBVIOUS
<1>1. CASE UNCHANGED vars
    BY <1>1, LedgerUnmoved DEF vars, agentVars, Running
<1>2. CASE EndSimulation
    <2>1. UNCHANGED <<total_msg_cnt, all_history_cov_rate>> /\ pc = "check" /\ state # "DONE"
        BY <1>2 DEF EndSimulation, IInv, Control
    <2>2. CASE StopReason = "none"
        BY <1>2, <2>1, <2>2, LedgerUnmoved DEF EndSimulation, Running
    <2>3. CASE StopReason # "none"
        <3>1. state' = "DONE" /\ pc' = "finish"
            BY <1>2, <2>3 DEF EndSimulation
        <3>2. Ledger!Stop
            BY <2>1, <3>1 DEF Ledger!Stop
        <3>3. QED
            BY <3>2 DEF Ledger!Next
    <2>4. QED
        BY <2>2, <2>3
<1>3. CASE GenerateNextValue
    <2>1. pc = "generate" /\ pc' \in {"await", "loop"} /\ gain' = gain
        BY <1>3 DEF GenerateNextValue, Send
    <2>2. CASE ~(g_coverage # None /\ stimuli_buffer = 0 /\ state # "INIT")
        BY <1>3, <2>1, <2>2, LedgerUnmoved DEF GenerateNextValue, agentVars, Running
    <2>3. CASE g_coverage # None /\ stimuli_buffer = 0 /\ state # "INIT"
        <3>1. JudgeMessage /\ pc' = "loop"
            BY <1>3, <2>3 DEF GenerateNextValue
        <3>2. total_msg_cnt # 0
            BY <2>1, <2>3, NothingAsked DEF IInv, Control
        <3>3. ~_check_converge /\ Answered /\ ~Doomed
            BY <2>1, <3>2 DEF IInv, Control, Doomed
        <3>4. Ledger!Judge
            BY <2>1, <2>3, <3>1, <3>3, LedgerJudges
        <3>5. QED
            BY <3>4 DEF Ledger!Next
    <2>4. QED
        BY <2>2, <2>3
<1>4. CASE SendStimulus
    BY <1>4, LedgerUnmoved DEF SendStimulus, Send, agentVars, Running
<1>5. CASE ReturnPlaceholder
    BY <1>5, LedgerUnmoved DEF ReturnPlaceholder, Send, agentVars, Running
<1>6. CASE PreparePrompt
    <2>1. pc = "loop" /\ pc' = "prompt" /\ gain' = gain /\ g_coverage # None /\ ~_check_converge
        BY <1>6 DEF PreparePrompt, LimitReached, IInv, Coverage
    <2>2. CASE f_ = 1
        <3>1. JudgeMessage /\ Open = 1
            BY <1>6, <2>1, <2>2 DEF PreparePrompt, IInv, Control
        <3>2. Answered
            BY <2>1, <3>1, OpenIsAnswered
        <3>3. Ledger!Judge
            BY <2>1, <3>1, <3>2, LedgerJudges
        <3>4. QED
            BY <3>3 DEF Ledger!Next
    <2>3. CASE f_ # 1
        BY <1>6, <2>1, <2>3, LedgerUnmoved DEF PreparePrompt, agentVars, Running
    <2>4. QED
        BY <2>2, <2>3
<1>7. ASSUME NEW stimuli \in 0..MaxStimuli, NEW tokens \in 1..MaxTokens,
             Answer(stimuli, tokens)
      PROVE  Ledger!Next
    <2>1. /\ pc = "prompt" /\ pc' = "loop" /\ state' = "ITER"
          /\ total_msg_cnt' = total_msg_cnt + 1
          /\ UNCHANGED all_history_cov_rate
        BY <1>7 DEF Answer
    <2>2. Open = 0 /\ total_msg_cnt < DialogBound /\ state # "DONE"
        BY <2>1 DEF IInv, Control
    <2>3. /\ total_msg_cnt \in 0..DialogBound
          /\ all_history_cov_rate \in Seq(0..BinCount)
        BY DEF IInv, TypeOK
    <2>4. Len(all_history_cov_rate) = total_msg_cnt
        BY <2>2, <2>3 DEF Open
    <2>5. Ledger!Ask
        BY <2>1, <2>2, <2>4 DEF Ledger!Ask
    <2>6. QED
        BY <2>5 DEF Ledger!Next
<1>8. CASE AnswerFails
    <2>1. /\ pc = "prompt" /\ pc' = "crashed" /\ state # "DONE"
          /\ UNCHANGED <<total_msg_cnt, all_history_cov_rate>>
        BY <1>8 DEF AnswerFails, agentVars, IInv, Control
    <2>2. Ledger!Stop
        BY <2>1 DEF Ledger!Stop
    <2>3. QED
        BY <2>2 DEF Ledger!Next
<1>9. ASSUME NEW hits \in 0..(BinCount - dut_hits), Simulate(hits)
      PROVE  UNCHANGED Ledger!vars
    BY <1>9, LedgerUnmoved DEF Simulate, agentVars, Running
<1>10. CASE Finish
    BY <1>10, LedgerUnmoved DEF Finish, agentVars, Running, IInv, Control
<1>11. QED
    BY <1>1, <1>2, <1>3, <1>4, <1>5, <1>6, <1>7, <1>8, <1>9, <1>10 DEF Next, Stopped

\* A trial starts as the ledger does.
LEMMA LedgerInit == Init => Ledger!Init
<1> SUFFICES ASSUME Init PROVE Ledger!Init
    OBVIOUS
<1>1. Len(all_history_cov_rate) = 0 /\ total_msg_cnt = 0
    BY DEF Init
<1>2. state = "INIT" /\ pc = "check"
    BY DEF Init
<1>3. QED
    BY <1>1, <1>2 DEF Ledger!Init

\* Every trial is one the ledger allows: messages are asked one at a time and
\* judged once, and nothing is asked or judged after the stop.
THEOREM LedgerImplemented == Spec => Ledger!Init /\ [][Ledger!Next]_(Ledger!vars)
BY LedgerInit, Invariance, LedgerStep, PTL DEF Spec
-----------------------------------------------------------------------------
(* A trial makes progress.                                                 *)

\* The placeholder of a limit is the last stimulus.
LastSent == sent = 0 /\ total_msg_cnt > 0

\* How far the client is from the end of the message it is at: from the opening
\* reply down to the end of the trial.
Distance ==
    CASE pc = "check" /\ g_coverage = None              -> 10
      [] pc = "generate" /\ g_coverage = None           -> 9
      [] pc = "await" /\ ~LastSent                      -> 8
      [] pc = "check" /\ g_coverage # None /\ ~LastSent -> 7
      [] pc = "generate" /\ g_coverage # None           -> 6
      [] pc = "loop"                                    -> 5
      [] pc = "prompt"                                  -> 4
      [] pc = "await" /\ LastSent                       -> 3
      [] pc = "check" /\ g_coverage # None /\ LastSent  -> 2
      [] pc = "finish"                                  -> 1
      [] OTHER                                          -> 0

\* A message is asked; or a stimulus of the last one is sent; or the client
\* comes nearer to the end of it.
Progress ==
    \/ total_msg_cnt' > total_msg_cnt
    \/ total_msg_cnt' = total_msg_cnt /\ stimuli_buffer' < stimuli_buffer
    \/ /\ total_msg_cnt' = total_msg_cnt /\ stimuli_buffer' = stimuli_buffer
       /\ Distance' < Distance

\* The budget is whole before the first message.
Unspent == total_msg_cnt = 0 => ~no_budget

\* Only an answer takes from the budget.
LEMMA UnspentKept == IInv /\ Unspent /\ [Next]_vars => Unspent'
<1> SUFFICES ASSUME IInv, Unspent, [Next]_vars
             PROVE  Unspent'
    OBVIOUS
<1>1. total_msg_cnt \in 0..DialogBound
    BY DEF IInv, TypeOK
<1>2. ASSUME NEW stimuli \in 0..MaxStimuli, NEW tokens \in 1..MaxTokens,
             Answer(stimuli, tokens)
      PROVE  total_msg_cnt' # 0
    BY <1>1, <1>2 DEF Answer
<1>3. CASE UNCHANGED <<total_msg_cnt, token_budget>>
    BY <1>3 DEF Unspent, no_budget
<1>4. total_msg_cnt' # 0 \/ UNCHANGED <<total_msg_cnt, token_budget>>
    BY <1>2 DEF Next, EndSimulation, GenerateNextValue, SendStimulus, ReturnPlaceholder,
                PreparePrompt, JudgeMessage, AnswerFails, Simulate, Finish, Stopped,
                agentVars, vars
<1>5. QED
    BY <1>3, <1>4 DEF Unspent

\* A trial starts with a budget, if it has one (agents/agent_LLM.py).
LEMMA InitUnspent == Init => Unspent
BY LLMAgentAssumption DEF Init, Unspent, no_budget

\* The model's answer is the next message; a stimulus of it is one less to send.
LEMMA AskingProgress ==
    ASSUME IInv, NEW stimuli \in 0..MaxStimuli, NEW tokens \in 1..MaxTokens,
           Answer(stimuli, tokens) \/ SendStimulus
    PROVE  Progress
<1>1. total_msg_cnt \in 0..DialogBound /\ stimuli_buffer \in 0..MaxStimuli
    BY DEF IInv, TypeOK
<1>2. CASE Answer(stimuli, tokens)
    BY <1>1, <1>2 DEF Answer, Progress
<1>3. CASE SendStimulus
    BY <1>1, <1>3 DEF SendStimulus, agentVars, Progress
<1>4. QED
    BY <1>2, <1>3

\* end_simulation goes on to generate_next_value only while the last stimulus is
\* that of a message; generate_next_value goes to its loop once there is a reply.
LEMMA LoopProgress ==
    ASSUME IInv, EndSimulation \/ GenerateNextValue
    PROVE  Progress
<1>1. CASE EndSimulation
    <2>1. /\ pc = "check" /\ pc' \in {"generate", "finish"}
          /\ pc' = "generate" => StopReason = "none"
          /\ UNCHANGED <<total_msg_cnt, stimuli_buffer, g_coverage, sent>>
        BY <1>1 DEF EndSimulation
    <2>2. pc' = "generate" => ~LastSent
        BY <2>1, Consequences DEF PlaceholderEnds, LastSent
    <2>3. QED
        BY <2>1, <2>2 DEF Progress, Distance, LastSent
<1>2. CASE GenerateNextValue
    <2>1. pc = "generate" /\ UNCHANGED <<stimuli_buffer, g_coverage>>
        BY <1>2 DEF GenerateNextValue
    <2>2. total_msg_cnt' = total_msg_cnt
        BY <1>2 DEF GenerateNextValue, JudgeMessage, agentVars
    <2>3. CASE g_coverage = None
        <3>1. pc' = "await" /\ sent' = 0
            BY <1>2, <2>3 DEF GenerateNextValue, Send
        <3>2. total_msg_cnt' = 0
            <4>1. ~(total_msg_cnt > 0)
                BY <2>3 DEF IInv, Coverage
            <4>2. total_msg_cnt \in 0..DialogBound
                BY DEF IInv, TypeOK
            <4>3. QED
                BY <2>2, <4>1, <4>2
        <3>3. QED
            BY <2>1, <2>2, <2>3, <3>1, <3>2 DEF Progress, Distance, LastSent
    <2>4. CASE g_coverage # None
        <3>1. pc' = "loop"
            BY <1>2, <2>4 DEF GenerateNextValue
        <3>2. QED
            BY <2>1, <2>2, <2>4, <3>1 DEF Progress, Distance
    <2>5. QED
        BY <2>3, <2>4
<1>3. QED
    BY <1>1, <1>2

\* A placeholder is sent only after a message was asked, and a reply to it never
\* leads back to the loop.
LEMMA PlaceholderProgress ==
    ASSUME IInv, Unspent, ReturnPlaceholder
    PROVE  Progress
<1>1. /\ pc = "loop" /\ pc' = "await" /\ sent' = 0 /\ LimitReached
      /\ UNCHANGED <<total_msg_cnt, stimuli_buffer>>
    BY DEF ReturnPlaceholder, Send, agentVars
<1>2. total_msg_cnt > 0
    <2>1. CASE total_msg_cnt = 0
        BY <1>1, <2>1, NothingAsked, LLMAgentAssumption DEF LimitReached, Unspent
    <2>2. total_msg_cnt \in 0..DialogBound
        BY DEF IInv, TypeOK
    <2>3. QED
        BY <2>1, <2>2
<1>3. QED
    BY <1>1, <1>2 DEF Progress, Distance, LastSent

\* The server's reply, the prompt and the ends of the trial.
LEMMA OtherProgress ==
    ASSUME IInv, NEW hits \in 0..(BinCount - dut_hits),
           Simulate(hits) \/ PreparePrompt \/ AnswerFails \/ Finish
    PROVE  Progress
<1>1. UNCHANGED <<total_msg_cnt, stimuli_buffer>>
    BY DEF Simulate, PreparePrompt, AnswerFails, Finish, JudgeMessage, agentVars
<1>2. CASE Simulate(hits)
    <2>1. pc = "await" /\ pc' = "check" /\ sent' = sent /\ g_coverage' = dut_hits + hits
        BY <1>2 DEF Simulate
    <2>2. dut_hits \in 0..BinCount
        BY DEF IInv, TypeOK
    <2>3. g_coverage' # None
        BY <2>1, <2>2, LLMAgentAssumption
    <2>4. QED
        BY <1>1, <2>1, <2>3 DEF Progress, Distance, LastSent
<1>3. CASE PreparePrompt
    BY <1>1, <1>3 DEF PreparePrompt, Progress, Distance
<1>4. CASE AnswerFails
    BY <1>1, <1>4 DEF AnswerFails, Progress, Distance
<1>5. CASE Finish
    BY <1>1, <1>5 DEF Finish, Progress, Distance
<1>6. QED
    BY <1>2, <1>3, <1>4, <1>5

\* A step of the trial makes progress, or the trial has stopped.
LEMMA NextProgress == IInv /\ Unspent /\ [Next]_vars => [Progress]_vars
<1> SUFFICES ASSUME IInv, Unspent, Next
             PROVE  Progress \/ UNCHANGED vars
    OBVIOUS
<1>1. 0 \in 0..MaxStimuli /\ 1 \in 1..MaxTokens
    BY LLMAgentAssumption
<1>2. 0 \in 0..(BinCount - dut_hits)
    <2>1. dut_hits \in 0..BinCount
        BY DEF IInv, TypeOK
    <2>2. QED
        BY <2>1, LLMAgentAssumption
<1>3. QED
    BY <1>1, <1>2, AskingProgress, LoopProgress, PlaceholderProgress, OtherProgress
       DEF Next, Stopped

\* A trial runs down: between two messages it only sends the stimuli of the last
\* one and, between two stimuli, comes nearer to the end (generate_stimulus.py).
THEOREM TrialRunsDown == Spec => [][Progress]_vars
<1>1. Spec => []Unspent
    BY InitUnspent, UnspentKept, Invariance, PTL DEF Spec
<1>2. QED
    BY <1>1, Invariance, NextProgress, PTL DEF Spec

\* What runs down has a floor: a trial takes at most
\* (DialogBound + 1) * (MaxStimuli + 1) * 11 steps (agents/agent_LLM.py).
THEOREM RunsDownFromABound ==
    Spec => [](/\ total_msg_cnt \in 0..DialogBound
               /\ stimuli_buffer \in 0..MaxStimuli
               /\ Distance \in 0..10)
<1>1. TypeOK => /\ total_msg_cnt \in 0..DialogBound
                /\ stimuli_buffer \in 0..MaxStimuli
                /\ Distance \in 0..10
    <2>1. Distance \in 0..10
        BY DEF Distance
    <2>2. QED
        BY <2>1 DEF TypeOK
<1>2. QED
    BY <1>1, TypeCorrect, PTL
-----------------------------------------------------------------------------
(* With a budget, a trial is one TrialAgent allows, as budget_experiment     *)
(* needs (stride_detector/generate_stimulus.py).                             *)

\* The places of the client, as the experiment sees them.
Place ==
    IF pc \in {"check", "generate", "await"} THEN pc
    ELSE IF pc \in {"loop", "prompt"} THEN "generate"
    ELSE "over"

\* The placeholder has been sent, for a limit other than the budget.
Stopping ==
    /\ pc \in {"await", "check"}
    /\ sent = 0
    /\ total_msg_cnt > 0
    /\ total_msg_cnt >= DialogBound \/ _check_converge

Agent == INSTANCE TrialAgent WITH
            Budget   <- TokenBudget,
            MaxCall  <- MaxTokens,
            place    <- Place,
            tokens   <- token_budget,
            asked    <- total_msg_cnt > 0,
            stopping <- Stopping,
            left     <- stimuli_buffer,
            replied  <- g_coverage # None

\* A trial with a budget keeps one.
HasBudget == token_budget \in Int

LEMMA InitHasBudget == TokenBudget # None /\ Init => HasBudget
BY LLMAgentAssumption DEF Init, HasBudget

LEMMA HasBudgetKept == HasBudget /\ [Next]_vars => HasBudget'
<1> SUFFICES ASSUME HasBudget, [Next]_vars
             PROVE  HasBudget'
    OBVIOUS
<1>1. ASSUME NEW stimuli \in 0..MaxStimuli, NEW tokens \in 1..MaxTokens,
             Answer(stimuli, tokens)
      PROVE  HasBudget'
    BY <1>1, LLMAgentAssumption DEF Answer, HasBudget
<1>2. HasBudget' \/ UNCHANGED token_budget
    BY <1>1 DEF Next, EndSimulation, GenerateNextValue, SendStimulus, ReturnPlaceholder,
                PreparePrompt, JudgeMessage, AnswerFails, Simulate, Finish, Stopped,
                agentVars, vars
<1>3. QED
    BY <1>2 DEF HasBudget

\* A step that changes neither what is in hand nor what was met is not seen.
LEMMA AgentUnmoved ==
    ASSUME UNCHANGED <<total_msg_cnt, token_budget, stimuli_buffer>>,
           Place' = Place, Stopping' = Stopping,
           (g_coverage # None)' = (g_coverage # None)
    PROVE  UNCHANGED Agent!vars
BY DEF Agent!vars, Agent!trial

\* A judgement is not seen: it changes histories, dialogues and the buffer.
LEMMA AgentJudges ==
    ASSUME pc \in {"generate", "loop"}, pc' \in {"loop", "prompt"},
           JudgeMessage \/ UNCHANGED agentVars,
           UNCHANGED <<stimuli_buffer, g_coverage>>
    PROVE  UNCHANGED Agent!vars
<1>1. UNCHANGED <<total_msg_cnt, token_budget>>
    BY DEF JudgeMessage, agentVars
<1>2. Place = "generate" /\ Place' = "generate"
    BY DEF Place
<1>3. Stopping = FALSE /\ Stopping' = FALSE
    BY DEF Stopping
<1>4. QED
    BY <1>1, <1>2, <1>3, AgentUnmoved

\* end_simulation lets the loop go on where the agent may, and ends it only after
\* a reply.
LEMMA AgentChecks ==
    ASSUME IInv, HasBudget, EndSimulation
    PROVE  Agent!GoOn \/ Agent!End
<1>1. /\ pc = "check" /\ Place = "check"
      /\ UNCHANGED <<total_msg_cnt, token_budget, stimuli_buffer, g_coverage>>
    BY DEF EndSimulation, Place
<1>2. CASE StopReason # "none"
    <2>1. g_coverage # None
        BY <1>2 DEF StopReason
    <2>2. Place' = "over"
        BY <1>2 DEF EndSimulation, Place
    <2>3. QED
        BY <1>1, <2>1, <2>2 DEF Agent!End
<1>3. CASE StopReason = "none"
    <2>1. pc' = "generate" /\ Place' = "generate"
        BY <1>3 DEF EndSimulation, Place
    <2>2. ~LastSent
        BY <1>1, <1>3, Consequences DEF PlaceholderEnds, LastSent
    <2>3. Stopping = FALSE /\ Stopping' = FALSE
        BY <2>1, <2>2 DEF Stopping, LastSent
    <2>4. g_coverage = None \/ stimuli_buffer > 0 \/ ~no_budget
        BY <1>3 DEF StopReason
    <2>5. g_coverage = None \/ stimuli_buffer > 0 \/ ~(token_budget <= 0)
        BY <2>4, LLMAgentAssumption DEF no_budget, HasBudget
    <2>6. QED
        BY <1>1, <2>1, <2>3, <2>5 DEF Agent!GoOn, Agent!Limit, Agent!trial
<1>4. QED
    BY <1>2, <1>3
\* generate_next_value asks for the opening value to be sent, or goes to its loop.
LEMMA AgentGenerates ==
    ASSUME IInv, GenerateNextValue
    PROVE  Agent!Send \/ UNCHANGED Agent!vars
<1>1. pc = "generate" /\ Place = "generate" /\ UNCHANGED <<stimuli_buffer, g_coverage>>
    BY DEF GenerateNextValue, Place
<1>2. CASE g_coverage = None
    <2>1. pc' = "await" /\ sent' = 0 /\ UNCHANGED agentVars
        BY <1>2 DEF GenerateNextValue, Send
    <2>2. Place' = "await" /\ UNCHANGED <<total_msg_cnt, token_budget>>
        BY <2>1 DEF Place, agentVars
    <2>3. Stopping = FALSE
        BY <1>1 DEF Stopping
    <2>4. ~(total_msg_cnt > 0)
        BY <1>2 DEF IInv, Coverage
    <2>5. Stopping' = FALSE
        BY <2>2, <2>4 DEF Stopping
    <2>6. QED
        BY <1>1, <1>2, <2>2, <2>3, <2>5 DEF Agent!Send, Agent!SendOpening
<1>3. CASE g_coverage # None
    <2>1. pc' = "loop" /\ (JudgeMessage \/ UNCHANGED agentVars)
        BY <1>3 DEF GenerateNextValue
    <2>2. QED
        BY <1>1, <2>1, AgentJudges
<1>4. QED
    BY <1>2, <1>3

\* The loop is left with a stimulus, or with the placeholder at a limit.
LEMMA AgentSends ==
    ASSUME IInv, Unspent, HasBudget, SendStimulus \/ ReturnPlaceholder
    PROVE  Agent!Send
<1>1. /\ pc = "loop" /\ pc' = "await"
      /\ UNCHANGED <<total_msg_cnt, token_budget, all_history_cov_rate, g_coverage>>
    BY DEF SendStimulus, ReturnPlaceholder, Send, agentVars
<1>2. Place = "generate" /\ Place' = "await" /\ Stopping = FALSE
    BY <1>1 DEF Place, Stopping
<1>3. CASE SendStimulus
    <2>1. stimuli_buffer > 0 /\ stimuli_buffer' = stimuli_buffer - 1 /\ sent' = total_msg_cnt
        BY <1>3 DEF SendStimulus, Send
    <2>2. Stopping' = FALSE
        BY <1>1, <2>1 DEF Stopping
    <2>3. QED
        BY <1>1, <1>2, <2>1, <2>2 DEF Agent!Send, Agent!SendNext
<1>4. CASE ReturnPlaceholder
    <2>1. /\ stimuli_buffer = 0 /\ stimuli_buffer' = 0 /\ sent' = 0 /\ LimitReached
        BY <1>4 DEF ReturnPlaceholder, Send
    <2>2. total_msg_cnt > 0
        <3>1. CASE total_msg_cnt = 0
            BY <2>1, <3>1, NothingAsked, LLMAgentAssumption DEF LimitReached, Unspent
        <3>2. total_msg_cnt \in 0..DialogBound
            BY DEF IInv, TypeOK
        <3>3. QED
            BY <3>1, <3>2
    <2>3. Stopping' \in BOOLEAN
        BY DEF Stopping
    <2>4. token_budget <= 0 \/ Stopping'
        BY <1>1, <2>1, <2>2 DEF LimitReached, no_budget, Stopping, _check_converge
    <2>5. g_coverage # None
        BY <1>1 DEF IInv, Coverage
    <2>6. QED
        BY <1>1, <1>2, <2>1, <2>2, <2>3, <2>4, <2>5 DEF Agent!Send, Agent!SendPlaceholder
<1>5. QED
    BY <1>3, <1>4

\* The model is asked with tokens and no stimulus in hand.
LEMMA AgentAsks ==
    ASSUME IInv, HasBudget, pc = "prompt"
    PROVE  Agent!MayAsk /\ Stopping = FALSE
<1>1. stimuli_buffer = 0 /\ ~no_budget /\ g_coverage # None
    BY DEF IInv, Control, Coverage
<1>2. ~(token_budget <= 0)
    BY <1>1, LLMAgentAssumption DEF no_budget, HasBudget
<1>3. Place = "generate" /\ Stopping = FALSE
    BY DEF Place, Stopping
<1>4. QED
    BY <1>1, <1>2, <1>3 DEF Agent!MayAsk, Agent!Limit

\* A step of the trial is a step of the agent, or is not seen.
LEMMA AgentStep == IInv /\ Unspent /\ HasBudget /\ [Next]_vars => [Agent!Next]_(Agent!vars)
<1> SUFFICES ASSUME IInv, Unspent, HasBudget, [Next]_vars
             PROVE  Agent!Next \/ UNCHANGED Agent!vars
    OBVIOUS
<1>1. CASE UNCHANGED vars
    BY <1>1, AgentUnmoved DEF vars, agentVars, Place, Stopping, _check_converge
<1>2. CASE EndSimulation
    BY <1>2, AgentChecks DEF Agent!Next
<1>3. CASE GenerateNextValue
    BY <1>3, AgentGenerates DEF Agent!Next
<1>4. CASE SendStimulus \/ ReturnPlaceholder
    BY <1>4, AgentSends DEF Agent!Next
<1>5. CASE PreparePrompt
    BY <1>5, AgentJudges DEF PreparePrompt
<1>6. ASSUME NEW stimuli \in 0..MaxStimuli, NEW tokens \in 1..MaxTokens,
             Answer(stimuli, tokens)
      PROVE  Agent!Ask
    <2>1. /\ pc = "prompt" /\ pc' = "loop" /\ stimuli_buffer' = stimuli
          /\ total_msg_cnt' = total_msg_cnt + 1 /\ UNCHANGED g_coverage
        BY <1>6 DEF Answer
    <2>2. Agent!MayAsk /\ Stopping = FALSE
        BY <2>1, AgentAsks
    <2>3. Place = "generate" /\ Place' = "generate" /\ Stopping' = FALSE
        BY <2>1 DEF Place, Stopping
    <2>4. token_budget' = token_budget - tokens
        BY <1>6, LLMAgentAssumption DEF Answer, HasBudget
    <2>5. (total_msg_cnt > 0)' = TRUE
        <3>1. total_msg_cnt \in 0..DialogBound
            BY DEF IInv, TypeOK
        <3>2. QED
            BY <2>1, <3>1
    <2>6. QED
        BY <2>1, <2>2, <2>3, <2>4, <2>5 DEF Agent!Ask
<1>7. CASE AnswerFails
    <2>1. pc = "prompt" /\ Place' = "over"
        BY <1>7 DEF AnswerFails, Place
    <2>2. QED
        BY <2>1, AgentAsks DEF Agent!Fail, Agent!Next
<1>8. ASSUME NEW hits \in 0..(BinCount - dut_hits), Simulate(hits)
      PROVE  Agent!Receive
    <2>1. /\ pc = "await" /\ pc' = "check" /\ g_coverage' = dut_hits + hits
          /\ UNCHANGED <<total_msg_cnt, token_budget, stimuli_buffer, sent,
                         all_history_cov_rate>>
        BY <1>8 DEF Simulate, agentVars
    <2>2. dut_hits \in 0..BinCount
        BY DEF IInv, TypeOK
    <2>3. (g_coverage # None)' = TRUE
        BY <2>1, <2>2, LLMAgentAssumption
    <2>4. Place = "await" /\ Place' = "check"
        BY <2>1 DEF Place
    <2>5. Stopping' = Stopping
        BY <2>1 DEF Stopping, _check_converge
    <2>6. QED
        BY <2>1, <2>3, <2>4, <2>5 DEF Agent!Receive
<1>9. CASE Finish
    <2>1. Place = "over" /\ Place' = "over"
        BY <1>9 DEF Finish, Place
    <2>2. QED
        BY <2>1 DEF Agent!Between, Agent!Next
<1>10. QED
    BY <1>1, <1>2, <1>3, <1>4, <1>5, <1>6, <1>7, <1>8, <1>9
       DEF Next, Stopped, Agent!Next

\* A trial with a budget starts as a new one.
LEMMA AgentInit == TokenBudget # None /\ Init => Agent!Init
<1> SUFFICES ASSUME TokenBudget # None, Init PROVE Agent!Init
    OBVIOUS
<1>1. Place = "check" /\ Stopping = FALSE /\ (total_msg_cnt > 0) = FALSE
    BY DEF Init, Place, Stopping
<1>2. stimuli_buffer = 0 /\ token_budget = TokenBudget /\ (g_coverage # None) = FALSE
    BY DEF Init
<1>3. QED
    BY <1>1, <1>2 DEF Agent!Init, Agent!trial, Agent!New

\* Every trial with a budget asks and sends as TrialAgent allows, through
\* restarts, gibberish and limits.
THEOREM AgentImplemented ==
    TokenBudget # None /\ Spec => Agent!Init /\ [][Agent!Next]_(Agent!vars)
<1>1. Spec => []Unspent
    BY InitUnspent, UnspentKept, Invariance, PTL DEF Spec
<1>2. TokenBudget # None /\ Spec => []HasBudget
    BY InitHasBudget, HasBudgetKept, PTL DEF Spec
<1>3. QED
    BY <1>1, <1>2, AgentInit, AgentStep, Invariance, PTL DEF Spec
=============================================================================
