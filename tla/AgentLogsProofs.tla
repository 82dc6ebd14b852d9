--------------------------- MODULE AgentLogsProofs ---------------------------
(***************************************************************************)
(* Theorems about AgentLogs: for every trial LLMAgentProofs is about, what *)
(* its log files say of it.                                                *)
(***************************************************************************)
EXTENDS AgentLogs, LLMAgentProofs, FiniteSetTheorems

Role == {"info", "system", "user", "assistant", "coverage", "reset", "stop"}
Reason == {"none", "done", "model converged", "max dialog number", "token budget exceeded"}
Content == {None} \cup Score \cup Reason
LogEntry == [role : Role, content : Content, dialog : Nat, msg : Nat, total : Nat]
FileEntry == [entry : LogEntry, dialog : Nat, msg : Nat, total : Nat]
Txt == [log : Seq(LogEntry), index : Nat, dialog : Nat, msg : Nat, total : Nat,
        file : Seq(FileEntry)]
Action == {"reset"} \cup Reason
Row == [dialog : Nat, msg : Nat, action : Action, cov : Score \cup {None}]
Csv == [log : Seq(Row), file : Seq(Row)]

-----------------------------------------------------------------------------
(* The inductive invariant.                                                *)

Message(entry) == entry.role \in {"user", "assistant"}

\* Entries save_log has not written yet.
Unwritten(t) == (t.index + 1)..Len(t.log)

\* The number save_log gives to the next message.
NextNumber(t, entry) ==
    entry.dialog = t.dialog /\ entry.msg = t.msg + 1 /\ entry.total = t.total + 1

NoMessage(t) == \A j \in Unwritten(t) : ~Message(t.log[j])

\* One message waits to be written, its prompt before its answer.
OneMessage(t) ==
    \E p \in Unwritten(t) :
        /\ t.log[p].role = "user"
        /\ \A j \in Unwritten(t) :
                /\ t.log[j].role = "user" => j = p
                /\ t.log[j].role = "assistant" => p < j
                /\ Message(t.log[j]) => NextNumber(t, t.log[j])

Waiting(t, n) ==
    /\ t.index <= Len(t.log)
    /\ n = 0 => NoMessage(t)
    /\ n = 1 => OneMessage(t)

SameNumber(rec) ==
    /\ rec.dialog = rec.entry.dialog
    /\ rec.msg = rec.entry.msg
    /\ rec.total = rec.entry.total

Prompts(file) == {i \in 1..Len(file) : file[i].entry.role = "user"}

\* The file holds the first `total` messages, in order.
Filed(file, total) ==
    /\ \A i \in 1..Len(file) : Message(file[i].entry) => SameNumber(file[i])
    /\ \A i \in Prompts(file) : file[i].entry.total \in 1..total
    /\ \A m \in 1..total : \E i \in Prompts(file) : file[i].entry.total = m
    /\ \A i, j \in Prompts(file) : i < j => file[i].entry.total < file[j].entry.total

StopFiled(file) ==
    /\ Len(file) > 0
    /\ file[Len(file)].entry.role = "stop"
    /\ file[Len(file)].entry.content = stop

\* The open message is not in the files, until the trial stops.
Unsaved == IF Over THEN 0 ELSE Open

TxtInv ==
    /\ txt \in Txt
    /\ txt.dialog = dialog_index
    /\ txt.msg = msg_index - Unsaved
    /\ txt.total = total_msg_cnt - Unsaved
    /\ Waiting(txt, Unsaved)
    /\ Filed(txt.file, txt.total)
    /\ (Over => StopFiled(txt.file))

\* The row before a message of number `msg` in `dialog`.
Leads(row, dialog, msg) ==
    \/ row.action = "reset" /\ dialog = row.dialog + 1 /\ msg = 1
    \/ row.action = "none" /\ dialog = row.dialog /\ msg = row.msg + 1

\* Each row of the file has the coverage its message was judged by, and leads to
\* the row after it in the log.
RowsOf(file, log, hist) ==
    \A i \in 1..Len(file) :
        /\ file[i].cov # None
        /\ i <= Len(hist) => file[i].cov = hist[i]
        /\ i < Len(log) => Leads(file[i], log[i + 1].dialog, log[i + 1].msg)

\* The rows written are those of the messages judged, and lead to each other
\* and to the next message the agent asks; the row of an open message waits.
CsvInv ==
    /\ csv \in Csv
    /\ Len(csv.log) = total_msg_cnt
    /\ Len(csv.file) = total_msg_cnt - Unsaved
    /\ RowsOf(csv.file, csv.log, all_history_cov_rate)
    /\ ~Over /\ Open = 0 /\ total_msg_cnt > 0 =>
            Leads(csv.file[total_msg_cnt], dialog_index, msg_index + 1)
    /\ ~Over /\ Open = 1 =>
            /\ csv.log[total_msg_cnt].dialog = dialog_index
            /\ csv.log[total_msg_cnt].msg = msg_index
            /\ csv.log[total_msg_cnt].action = "none"

LogsInv == TxtInv /\ CsvInv

-----------------------------------------------------------------------------
(* The text log.                                                           *)

\* What is left of a sequence after its first i elements.
LEMMA Suffix ==
    ASSUME NEW S, NEW s \in Seq(S), NEW i \in 0..Len(s)
    PROVE  /\ SubSeq(s, i + 1, Len(s)) \in Seq(S)
           /\ Len(SubSeq(s, i + 1, Len(s))) = Len(s) - i
           /\ \A k \in 1..(Len(s) - i) : SubSeq(s, i + 1, Len(s))[k] = s[i + k]
OBVIOUS

\* Two sequences in a row.
LEMMA Joined ==
    ASSUME NEW S, NEW a \in Seq(S), NEW b \in Seq(S)
    PROVE  /\ a \o b \in Seq(S) /\ Len(a \o b) = Len(a) + Len(b)
           /\ \A k \in 1..Len(a) : (a \o b)[k] = a[k]
           /\ \A k \in 1..Len(b) : (a \o b)[Len(a) + k] = b[k]
OBVIOUS

\* An element in the place after the last.
LEMMA Appended ==
    ASSUME NEW S, NEW s \in Seq(S), NEW e \in S
    PROVE  /\ Append(s, e) \in Seq(S) /\ Len(Append(s, e)) = Len(s) + 1
           /\ \A k \in 1..Len(s) : Append(s, e)[k] = s[k]
           /\ Append(s, e)[Len(s) + 1] = e
OBVIOUS

\* Messages counted up to place i when one waits at place q.
Passed(q, i) == IF i < q THEN 0 ELSE 1

\* Place q of the entries to write holds the message that waits, if there is one.
WaitsAt(t, new, n, q) ==
    /\ q \in 1..(Len(new) + 1)
    /\ n = 1 <=> q <= Len(new)
    /\ q <= Len(new) => new[q].role = "user"
    /\ \A i \in 1..Len(new) :
            /\ new[i].role = "user" => i = q
            /\ Message(new[i]) => q <= i /\ NextNumber(t, new[i])

\* The entries to write are the end of the log.
LEMMA NewEntries ==
    ASSUME NEW t \in Txt, t.index <= Len(t.log)
    PROVE  LET new == SubSeq(t.log, t.index + 1, Len(t.log))
           IN  /\ new \in Seq(LogEntry) /\ Len(new) \in Nat
               /\ Len(new) = Len(t.log) - t.index
               /\ \A i \in 1..Len(new) : new[i] = t.log[t.index + i]
<1> DEFINE new == SubSeq(t.log, t.index + 1, Len(t.log))
<1>1. t.log \in Seq(LogEntry) /\ t.index \in 0..Len(t.log) /\ Len(t.log) \in Nat
    BY DEF Txt
<1>2. /\ new \in Seq(LogEntry)
      /\ Len(new) = Len(t.log) - t.index
      /\ \A i \in 1..(Len(t.log) - t.index) : new[i] = t.log[t.index + i]
    BY <1>1, Suffix
<1> HIDE DEF new
<1>3. Len(new) \in Nat
    BY <1>2
<1>4. QED
    BY <1>2, <1>3 DEF new

\* There is such a place.
LEMMA Located ==
    ASSUME NEW t \in Txt, NEW n \in {0, 1}, Waiting(t, n)
    PROVE  \E q : WaitsAt(t, SubSeq(t.log, t.index + 1, Len(t.log)), n, q)
<1> DEFINE new == SubSeq(t.log, t.index + 1, Len(t.log))
<1>1. t.log \in Seq(LogEntry) /\ t.index \in Nat /\ t.index <= Len(t.log)
    BY DEF Txt, Waiting
<1>2. PICK k \in Nat : k = Len(new)
    BY <1>1, NewEntries
<1>3. k = Len(t.log) - t.index /\ \A i \in 1..k : new[i] = t.log[t.index + i]
    BY <1>1, <1>2, NewEntries
<1> HIDE DEF new
<1>4. PICK x \in Nat : x = t.index
    BY <1>1
<1>5. Len(t.log) = x + k
    <2>1. Len(t.log) \in Nat
        BY <1>1
    <2>2. QED
        BY <1>3, <1>4, <2>1
<1>6. \A i \in 1..k : x + i \in Unwritten(t)
    BY <1>4, <1>5 DEF Unwritten
<1>7. CASE n = 0
    <2>1. \A i \in 1..k : ~Message(new[i])
        BY <1>3, <1>4, <1>6, <1>7 DEF Waiting, NoMessage
    <2>2. WaitsAt(t, new, n, k + 1)
        BY <1>2, <1>7, <2>1 DEF WaitsAt, Message
    <2>3. QED
        BY <2>2 DEF new
<1>8. CASE n = 1
    <2>1. PICK p \in Unwritten(t) :
            /\ t.log[p].role = "user"
            /\ \A j \in Unwritten(t) :
                    /\ t.log[j].role = "user" => j = p
                    /\ t.log[j].role = "assistant" => p < j
                    /\ Message(t.log[j]) => NextNumber(t, t.log[j])
        BY <1>8 DEF Waiting, OneMessage
    <2>2. p \in (x + 1)..(x + k)
        BY <1>4, <1>5, <2>1 DEF Unwritten
    <2>3. PICK q \in 1..k : p = x + q
        <3>1. p - x \in 1..k /\ p = x + (p - x)
            BY <2>2
        <3>2. QED
            BY <3>1
    <2>4. new[q].role = "user"
        BY <1>3, <1>4, <2>1, <2>3
    <2>5. ASSUME NEW i \in 1..k
          PROVE  /\ new[i].role = "user" => i = q
                 /\ Message(new[i]) => q <= i /\ NextNumber(t, new[i])
        <3>1. new[i] = t.log[x + i] /\ x + i \in Unwritten(t)
            BY <1>3, <1>4, <1>6
        <3>2. /\ new[i].role = "user" => x + i = p
              /\ new[i].role = "assistant" => p < x + i
              /\ Message(new[i]) => NextNumber(t, new[i])
            BY <2>1, <3>1
        <3>3. QED
            BY <2>3, <3>2 DEF Message
    <2>6. WaitsAt(t, new, n, q)
        BY <1>2, <1>8, <2>4, <2>5 DEF WaitsAt
    <2>7. QED
        BY <2>6 DEF new
<1>9. QED
    BY <1>7, <1>8

\* Counting the prompts up to place i is asking whether place q is behind.
LEMMA UsersCounted ==
    ASSUME NEW new \in Seq(LogEntry), NEW q \in 1..(Len(new) + 1),
           q <= Len(new) => new[q].role = "user",
           \A j \in 1..Len(new) : new[j].role = "user" => j = q,
           NEW i \in 0..Len(new)
    PROVE  Cardinality({j \in 1..i : new[j].role = "user"}) = Passed(q, i)
<1> DEFINE users == {j \in 1..i : new[j].role = "user"}
<1>1. \A j \in 1..i : j \in 1..Len(new)
    OBVIOUS
<1>2. CASE i < q
    <2>1. users = {}
        BY <1>1, <1>2
    <2>2. QED
        BY <1>2, <2>1, FS_EmptySet DEF Passed
<1>3. CASE ~(i < q)
    <2>1. q \in 1..i /\ new[q].role = "user"
        BY <1>3
    <2>2. users = {q}
        BY <1>1, <2>1
    <2>3. QED
        BY <1>3, <2>2, FS_Singleton DEF Passed
<1>4. QED
    BY <1>2, <1>3

Numbering(t, new, q) ==
    [i \in 1..Len(new) |->
        [entry |-> new[i], dialog |-> t.dialog, msg |-> t.msg + Passed(q, i),
         total |-> t.total + Passed(q, i)]]

\* What save_log does, in terms of the place of the message that waits.
LEMMA SaveExplicit ==
    ASSUME NEW t \in Txt, NEW n \in {0, 1}, t.index <= Len(t.log),
           NEW q, WaitsAt(t, SubSeq(t.log, t.index + 1, Len(t.log)), n, q)
    PROVE  TxtSave(t) =
                [log |-> t.log, index |-> Len(t.log), dialog |-> t.dialog,
                 msg |-> t.msg + n, total |-> t.total + n,
                 file |-> t.file \o
                            Numbering(t, SubSeq(t.log, t.index + 1, Len(t.log)), q)]
<1> DEFINE new == SubSeq(t.log, t.index + 1, Len(t.log))
           users(i) == Cardinality({j \in 1..i : new[j].role = "user"})
           recs == [i \in 1..Len(new) |->
                        [entry |-> new[i], dialog |-> t.dialog, msg |-> t.msg + users(i),
                         total |-> t.total + users(i)]]
<1>1. new \in Seq(LogEntry) /\ Len(new) \in Nat
    BY NewEntries
<1>2. /\ q \in 1..(Len(new) + 1)
      /\ n = 1 <=> q <= Len(new)
      /\ q <= Len(new) => new[q].role = "user"
      /\ \A j \in 1..Len(new) : new[j].role = "user" => j = q
    BY DEF WaitsAt
<1>3. TxtSave(t) = [t EXCEPT !.index = Len(t.log), !.msg = @ + users(Len(new)),
                             !.total = @ + users(Len(new)), !.file = @ \o recs]
    BY Zenon DEF TxtSave
<1>4. \A i \in 0..Len(new) : users(i) = Passed(q, i)
    <2> HIDE DEF new
    <2> TAKE i \in 0..Len(new)
    <2>1. QED
        BY <1>1, <1>2, UsersCounted
<1> HIDE DEF users, new
<1>5. PICK k \in Nat : k = Len(new)
    BY <1>1
<1>6. users(Len(new)) = n
    <2>1. users(k) = Passed(q, k)
        BY <1>4, <1>5
    <2>2. Passed(q, k) = n
        BY <1>2, <1>5 DEF Passed
    <2>3. QED
        BY <1>5, <2>1, <2>2
<1>7. recs = Numbering(t, new, q)
    <2>1. \A i \in 1..Len(new) : users(i) = Passed(q, i)
        BY <1>4, <1>5
    <2>2. QED
        BY <2>1, Zenon DEF Numbering
<1> HIDE DEF recs
<1>8. TxtSave(t) = [t EXCEPT !.index = Len(t.log), !.msg = @ + n,
                             !.total = @ + n, !.file = @ \o Numbering(t, new, q)]
    BY <1>3, <1>6, <1>7
<1>9. QED
    BY <1>8 DEF Txt, new

\* A file numbered as far as `total` is numbered one message further when the
\* records of one more message, all of it numbered total + 1, are added to it.
LEMMA FiledOn ==
    ASSUME NEW n \in {0, 1}, NEW total \in Nat, NEW q \in Nat,
           NEW file \in Seq(FileEntry), NEW recs \in Seq(FileEntry), Filed(file, total),
           n = 1 <=> q \in 1..Len(recs),
           n = 1 => recs[q].entry.role = "user",
           \A k \in 1..Len(recs) : Message(recs[k].entry) =>
                /\ SameNumber(recs[k])
                /\ recs[k].entry.total = total + 1
                /\ n = 1
                /\ recs[k].entry.role = "user" => k = q
    PROVE  Filed(file \o recs, total + n)
<1> DEFINE all == file \o recs
           f == Len(file)
<1>1. /\ all \in Seq(FileEntry) /\ Len(all) = f + Len(recs)
      /\ \A i \in 1..f : all[i] = file[i]
      /\ \A k \in 1..Len(recs) : all[f + k] = recs[k]
    BY Joined
<1> HIDE DEF all
<1>2. ASSUME NEW i \in 1..Len(all), i \notin 1..f
      PROVE  \E k \in 1..Len(recs) : i = f + k /\ all[i] = recs[k]
    <2>1. i - f \in 1..Len(recs) /\ i = f + (i - f)
        BY <1>1, <1>2
    <2>2. QED
        BY <1>1, <2>1
<1>3. \A i \in 1..Len(all) : Message(all[i].entry) => SameNumber(all[i])
    BY <1>1, <1>2 DEF Filed
<1>4. \A i \in Prompts(file) : i \in Prompts(all) /\ all[i] = file[i]
    BY <1>1 DEF Prompts
<1>5. \A i \in Prompts(all) :
        \/ i \in Prompts(file)
        \/ i = f + q /\ n = 1 /\ all[i].entry.total = total + 1
    <2> TAKE i \in Prompts(all)
    <2>1. i \in 1..Len(all) /\ all[i].entry.role = "user"
        BY DEF Prompts
    <2>2. CASE i \in 1..f
        BY <1>1, <2>1, <2>2 DEF Prompts
    <2>3. CASE i \notin 1..f
        <3>1. PICK k \in 1..Len(recs) : i = f + k /\ all[i] = recs[k]
            BY <1>2, <2>1, <2>3
        <3>2. Message(recs[k].entry) /\ recs[k].entry.role = "user"
            BY <2>1, <3>1 DEF Message
        <3>3. QED
            BY <3>1, <3>2
    <2>4. QED
        BY <2>2, <2>3
<1>6. \A i \in Prompts(file) : all[i].entry.total \in 1..total
    BY <1>4 DEF Filed
<1>7. n = 1 => f + q \in Prompts(all) /\ all[f + q].entry.total = total + 1
    BY <1>1 DEF Prompts, Message
<1>8. \A i \in Prompts(all) : all[i].entry.total \in 1..(total + n)
    BY <1>5, <1>6
<1>9. \A m \in 1..(total + n) : \E i \in Prompts(all) : all[i].entry.total = m
    <2> TAKE m \in 1..(total + n)
    <2>1. CASE m \in 1..total
        BY <1>4, <2>1 DEF Filed
    <2>2. CASE m \notin 1..total
        <3>1. n = 1 /\ m = total + 1
            BY <2>2
        <3>2. QED
            BY <1>7, <3>1
    <2>3. QED
        BY <2>1, <2>2
<1>10. \A i, j \in Prompts(all) : i < j => all[i].entry.total < all[j].entry.total
    <2> TAKE i, j \in Prompts(all)
    <2> HAVE i < j
    <2>1. i \in Prompts(file) => i \in 1..f
        BY DEF Prompts
    <2>2. j \in Prompts(file) => j \in 1..f
        BY DEF Prompts
    <2>3. CASE i \in Prompts(file) /\ j \in Prompts(file)
        BY <1>4, <2>3 DEF Filed
    <2>4. CASE i \in Prompts(file) /\ j \notin Prompts(file)
        <3>1. all[i].entry.total \in 1..total /\ all[j].entry.total = total + 1
            BY <1>5, <1>6, <2>4
        <3>2. QED
            BY <3>1
    <2>5. CASE i \notin Prompts(file)
        <3>1. i = f + q /\ (j = f + q \/ j \in 1..f)
            BY <1>5, <2>2, <2>5
        <3>2. QED
            BY <3>1
    <2>6. QED
        BY <2>3, <2>4, <2>5
<1>11. QED
    BY <1>3, <1>8, <1>9, <1>10 DEF Filed, all

\* save_log writes the waiting message under the number the agent gave it, and
\* nothing waits afterwards.
LEMMA SaveFiles ==
    ASSUME NEW t \in Txt, NEW n \in {0, 1}, Waiting(t, n), Filed(t.file, t.total)
    PROVE  LET s == TxtSave(t)
           IN  /\ s \in Txt
               /\ s.log = t.log /\ s.index = Len(t.log) /\ s.dialog = t.dialog
               /\ s.msg = t.msg + n /\ s.total = t.total + n
               /\ Waiting(s, 0)
               /\ Filed(s.file, s.total)
               /\ t.index < Len(t.log) =>
                    Len(s.file) > 0 /\ s.file[Len(s.file)].entry = t.log[Len(t.log)]
<1> DEFINE new == SubSeq(t.log, t.index + 1, Len(t.log))
           s == TxtSave(t)
<1>1. /\ t.log \in Seq(LogEntry) /\ t.file \in Seq(FileEntry)
      /\ t.index \in Nat /\ t.dialog \in Nat /\ t.msg \in Nat /\ t.total \in Nat
      /\ t.index <= Len(t.log)
    BY DEF Txt, Waiting
<1>2. /\ new \in Seq(LogEntry) /\ Len(new) \in Nat
      /\ Len(new) = Len(t.log) - t.index
      /\ \A i \in 1..Len(new) : new[i] = t.log[t.index + i]
    BY <1>1, NewEntries
<1>3. PICK q : WaitsAt(t, new, n, q)
    BY Located
<1> DEFINE recs == Numbering(t, new, q)
<1>4. s = [log |-> t.log, index |-> Len(t.log), dialog |-> t.dialog,
           msg |-> t.msg + n, total |-> t.total + n, file |-> t.file \o recs]
    BY <1>1, <1>3, SaveExplicit
<1>5. /\ q \in 1..(Len(new) + 1)
      /\ n = 1 <=> q <= Len(new)
      /\ q <= Len(new) => new[q].role = "user"
      /\ \A i \in 1..Len(new) :
                /\ new[i].role = "user" => i = q
                /\ Message(new[i]) => q <= i /\ NextNumber(t, new[i])
    BY <1>3 DEF WaitsAt
<1> HIDE DEF new, s
<1>6. PICK k \in Nat : k = Len(new)
    BY <1>2
<1>7. q \in 1..(k + 1)
    BY <1>5, <1>6
<1>8. /\ DOMAIN recs = 1..k
      /\ \A i \in 1..k :
            recs[i] = [entry |-> new[i], dialog |-> t.dialog, msg |-> t.msg + Passed(q, i),
                       total |-> t.total + Passed(q, i)]
    BY <1>6 DEF Numbering
<1>9. \A i \in 1..k : Passed(q, i) \in Nat /\ (q <= i => Passed(q, i) = 1)
    BY <1>7 DEF Passed
<1>10. recs \in [1..k -> FileEntry]
    <2>1. recs = [i \in 1..k |-> recs[i]]
        BY <1>6 DEF Numbering
    <2>2. ASSUME NEW i \in 1..k PROVE recs[i] \in FileEntry
        <3>1. new[i] \in LogEntry
            BY <1>2, <1>6
        <3>2. t.msg + Passed(q, i) \in Nat /\ t.total + Passed(q, i) \in Nat
            BY <1>1, <1>9
        <3>3. QED
            BY <1>1, <1>8, <3>1, <3>2 DEF FileEntry
    <2> HIDE DEF recs
    <2>3. QED
        BY <2>1, <2>2
<1> HIDE DEF recs
<1>11. recs \in Seq(FileEntry) /\ Len(recs) = k
    BY <1>10
<1>12. ASSUME NEW i \in 1..k, Message(recs[i].entry)
       PROVE  /\ SameNumber(recs[i])
              /\ recs[i].entry.total = t.total + 1
              /\ n = 1
              /\ recs[i].entry.role = "user" => i = q
    <2>1. recs[i].entry = new[i] /\ Message(new[i])
        BY <1>8, <1>12
    <2>2. q <= i /\ NextNumber(t, new[i]) /\ (new[i].role = "user" => i = q)
        BY <1>5, <1>6, <2>1
    <2>3. recs[i] = [entry |-> new[i], dialog |-> t.dialog,
                     msg |-> t.msg + 1, total |-> t.total + 1]
        BY <1>8, <1>9, <2>2
    <2>4. q <= k
        BY <1>7, <2>2
    <2>5. QED
        BY <1>5, <1>6, <2>1, <2>2, <2>3, <2>4 DEF SameNumber, NextNumber
<1>13. Filed(t.file \o recs, t.total + n)
    <2>1. n = 1 <=> q \in 1..Len(recs)
        BY <1>5, <1>6, <1>7, <1>11
    <2>2. n = 1 => recs[q].entry.role = "user"
        BY <1>5, <1>6, <1>7, <1>8
    <2>3. q \in Nat
        BY <1>7
    <2>4. QED
        BY <1>1, <1>11, <1>12, <2>1, <2>2, <2>3, FiledOn
<1>14. /\ t.file \o recs \in Seq(FileEntry) /\ Len(t.file \o recs) = Len(t.file) + k
       /\ \A i \in 1..k : (t.file \o recs)[Len(t.file) + i] = recs[i]
    <2>1. PICK a \in Seq(FileEntry), b \in Seq(FileEntry) : a = t.file /\ b = recs
        BY <1>1, <1>11
    <2>2. /\ a \o b \in Seq(FileEntry) /\ Len(a \o b) = Len(a) + Len(b)
          /\ \A i \in 1..Len(b) : (a \o b)[Len(a) + i] = b[i]
        BY Joined
    <2>3. QED
        BY <1>11, <2>1, <2>2
<1>15. s \in Txt
    <2>1. Len(t.log) \in Nat /\ t.msg + n \in Nat /\ t.total + n \in Nat
        BY <1>1
    <2>2. QED
        BY <1>1, <1>4, <1>14, <2>1 DEF Txt
<1>16. Waiting(s, 0)
    <2>1. s.index = Len(s.log) /\ Len(s.log) \in Nat
        BY <1>1, <1>4
    <2>2. Unwritten(s) = {}
        BY <2>1 DEF Unwritten
    <2>3. QED
        BY <2>1, <2>2 DEF Waiting, NoMessage
<1>17. ASSUME t.index < Len(t.log)
       PROVE  /\ Len(t.file \o recs) > 0
              /\ (t.file \o recs)[Len(t.file \o recs)].entry = t.log[Len(t.log)]
    <2>1. k \in 1..k /\ t.index + k = Len(t.log)
        <3>1. Len(t.log) \in Nat
            BY <1>1
        <3>2. QED
            BY <1>1, <1>2, <1>6, <1>17, <3>1
    <2>2. recs[k].entry = t.log[Len(t.log)]
        BY <1>2, <1>6, <1>8, <2>1
    <2>3. Len(t.file) \in Nat
        BY <1>1
    <2>4. QED
        BY <1>14, <2>1, <2>2, <2>3
<1>18. QED
    BY <1>4, <1>13, <1>15, <1>16, <1>17 DEF s

\* A record with another log.
LEMMA Relogged ==
    ASSUME NEW t \in Txt, NEW log
    PROVE  [t EXCEPT !.log = log] =
                [log |-> log, index |-> t.index, dialog |-> t.dialog,
                 msg |-> t.msg, total |-> t.total, file |-> t.file]
BY DEF Txt

\* An entry that is no message leaves what waits as it is.
LEMMA NoteWaits ==
    ASSUME NEW t \in Txt, NEW n \in {0, 1}, Waiting(t, n),
           NEW e \in LogEntry, ~Message(e)
    PROVE  LET s == TxtAppend(t, e)
           IN  /\ s \in Txt
               /\ s = [t EXCEPT !.log = Append(t.log, e)]
               /\ s.log = Append(t.log, e)
               /\ s.index = t.index /\ s.dialog = t.dialog /\ s.msg = t.msg
               /\ s.total = t.total /\ s.file = t.file
               /\ s.index < Len(s.log) /\ s.log[Len(s.log)] = e
               /\ Waiting(s, n)
<1> DEFINE s == TxtAppend(t, e)
<1>1. /\ t.log \in Seq(LogEntry) /\ t.file \in Seq(FileEntry)
      /\ t.index \in Nat /\ t.dialog \in Nat /\ t.msg \in Nat /\ t.total \in Nat
      /\ t.index <= Len(t.log)
    BY DEF Txt, Waiting
<1>2. /\ s = [t EXCEPT !.log = Append(t.log, e)]
      /\ s = [log |-> Append(t.log, e), index |-> t.index, dialog |-> t.dialog,
              msg |-> t.msg, total |-> t.total, file |-> t.file]
    BY Relogged DEF TxtAppend
<1>3. /\ Append(t.log, e) \in Seq(LogEntry)
      /\ Len(Append(t.log, e)) = Len(t.log) + 1
      /\ \A k \in 1..Len(t.log) : Append(t.log, e)[k] = t.log[k]
      /\ Append(t.log, e)[Len(t.log) + 1] = e
    BY <1>1, Appended
<1> HIDE DEF s
<1>4. s \in Txt
    BY <1>1, <1>2, <1>3 DEF Txt
<1>5. PICK k \in Nat, x \in Nat : k = Len(t.log) /\ x = t.index
    BY <1>1
<1>6. Unwritten(t) = (x + 1)..k /\ Unwritten(s) = (x + 1)..(k + 1) /\ x <= k
    BY <1>1, <1>2, <1>3, <1>5 DEF Unwritten
<1>7. /\ \A j \in (x + 1)..k : s.log[j] = t.log[j]
      /\ s.log[k + 1] = e
    BY <1>2, <1>3, <1>5
<1>8. n = 0 => NoMessage(s)
    <2> SUFFICES ASSUME n = 0, NEW j \in (x + 1)..(k + 1) PROVE ~Message(s.log[j])
        BY <1>6 DEF NoMessage
    <2>1. CASE j = k + 1
        BY <1>7, <2>1
    <2>2. CASE j # k + 1
        BY <1>6, <1>7, <2>2 DEF Waiting, NoMessage
    <2>3. QED
        BY <2>1, <2>2
<1>9. n = 1 => OneMessage(s)
    <2> SUFFICES ASSUME n = 1 PROVE OneMessage(s)
        OBVIOUS
    <2>1. PICK p \in (x + 1)..k :
            /\ t.log[p].role = "user"
            /\ \A j \in (x + 1)..k :
                    /\ t.log[j].role = "user" => j = p
                    /\ t.log[j].role = "assistant" => p < j
                    /\ Message(t.log[j]) => NextNumber(t, t.log[j])
        BY <1>6 DEF Waiting, OneMessage
    <2>2. p \in (x + 1)..(k + 1) /\ s.log[p].role = "user"
        BY <1>7, <2>1
    <2>3. ASSUME NEW j \in (x + 1)..(k + 1)
          PROVE  /\ s.log[j].role = "user" => j = p
                 /\ s.log[j].role = "assistant" => p < j
                 /\ Message(s.log[j]) => NextNumber(s, s.log[j])
        <3>1. CASE j = k + 1
            BY <1>7, <3>1 DEF Message
        <3>2. CASE j # k + 1
            <4>1. j \in (x + 1)..k /\ s.log[j] = t.log[j]
                BY <1>7, <3>2
            <4>2. /\ s.log[j].role = "user" => j = p
                  /\ s.log[j].role = "assistant" => p < j
                  /\ Message(s.log[j]) => NextNumber(t, s.log[j])
                BY <2>1, <4>1
            <4>3. s.dialog = t.dialog /\ s.msg = t.msg /\ s.total = t.total
                BY <1>2
            <4>4. QED
                BY <4>2, <4>3 DEF NextNumber
        <3>3. QED
            BY <3>1, <3>2
    <2>4. QED
        BY <1>6, <2>2, <2>3 DEF OneMessage
<1>10. s.index < Len(s.log) /\ s.log[Len(s.log)] = e /\ s.index <= Len(s.log)
    BY <1>2, <1>3, <1>5, <1>6
<1>11. Waiting(s, n)
    BY <1>8, <1>9, <1>10 DEF Waiting
<1>12. QED
    BY <1>2, <1>4, <1>10, <1>11 DEF s

\* A prompt and its answer, numbered next, are one message that waits.
LEMMA MessageWaits ==
    ASSUME NEW t \in Txt, Waiting(t, 0), NEW u \in LogEntry, NEW a \in LogEntry,
           u.role = "user", a.role = "assistant", NextNumber(t, u), NextNumber(t, a)
    PROVE  LET s == TxtAppend(TxtAppend(t, u), a)
           IN  /\ s \in Txt
               /\ s.dialog = t.dialog /\ s.msg = t.msg
               /\ s.total = t.total /\ s.file = t.file
               /\ Waiting(s, 1)
<1> DEFINE s == TxtAppend(TxtAppend(t, u), a)
           both == Append(Append(t.log, u), a)
<1>1. /\ t.log \in Seq(LogEntry) /\ t.file \in Seq(FileEntry)
      /\ t.index \in Nat /\ t.dialog \in Nat /\ t.msg \in Nat /\ t.total \in Nat
      /\ t.index <= Len(t.log)
    BY DEF Txt, Waiting
<1>2. s = [log |-> both, index |-> t.index, dialog |-> t.dialog,
           msg |-> t.msg, total |-> t.total, file |-> t.file]
    <2> DEFINE first == [log |-> Append(t.log, u), index |-> t.index, dialog |-> t.dialog,
                         msg |-> t.msg, total |-> t.total, file |-> t.file]
    <2>1. TxtAppend(t, u) = first
        BY Relogged DEF TxtAppend
    <2>2. s = [first EXCEPT !.log = Append(@, a)]
        BY <2>1 DEF TxtAppend
    <2>3. QED
        BY <2>2
<1>3. /\ Append(t.log, u) \in Seq(LogEntry)
      /\ Len(Append(t.log, u)) = Len(t.log) + 1
      /\ \A k \in 1..Len(t.log) : Append(t.log, u)[k] = t.log[k]
      /\ Append(t.log, u)[Len(t.log) + 1] = u
    BY <1>1, Appended
<1>4. PICK k \in Nat, x \in Nat : k = Len(t.log) /\ x = t.index
    BY <1>1
<1>5. /\ both \in Seq(LogEntry)
      /\ Len(both) = k + 2
      /\ \A j \in 1..k : both[j] = t.log[j]
      /\ both[k + 1] = u /\ both[k + 2] = a
    <2>1. /\ both \in Seq(LogEntry)
          /\ Len(both) = Len(Append(t.log, u)) + 1
          /\ \A j \in 1..Len(Append(t.log, u)) : both[j] = Append(t.log, u)[j]
          /\ both[Len(Append(t.log, u)) + 1] = a
        BY <1>3, Appended
    <2> HIDE DEF both
    <2>2. Len(Append(t.log, u)) = k + 1
        BY <1>3, <1>4
    <2>3. \A j \in 1..(k + 1) : both[j] = Append(t.log, u)[j]
        BY <2>1, <2>2
    <2>4. \A j \in 1..k : j \in 1..(k + 1)
        OBVIOUS
    <2>5. QED
        BY <1>3, <1>4, <2>1, <2>2, <2>3, <2>4
<1> HIDE DEF s, both
<1>6. s \in Txt
    BY <1>1, <1>2, <1>5 DEF Txt
<1>7. Unwritten(t) = (x + 1)..k /\ Unwritten(s) = (x + 1)..(k + 2) /\ x <= k
    BY <1>1, <1>2, <1>4, <1>5 DEF Unwritten
<1>8. \A j \in (x + 1)..k : ~Message(both[j])
    BY <1>5, <1>7 DEF Waiting, NoMessage
<1>9. NextNumber(s, u) /\ NextNumber(s, a)
    BY <1>2 DEF NextNumber
<1>10. ASSUME NEW j \in (x + 1)..(k + 2)
       PROVE  /\ s.log[j].role = "user" => j = k + 1
              /\ s.log[j].role = "assistant" => k + 1 < j
              /\ Message(s.log[j]) => NextNumber(s, s.log[j])
    <2>1. s.log = both
        BY <1>2
    <2>2. CASE j = k + 1
        BY <1>5, <1>9, <2>1, <2>2
    <2>3. CASE j = k + 2
        BY <1>5, <1>9, <2>1, <2>3
    <2>4. CASE j \in (x + 1)..k
        BY <1>8, <2>1, <2>4 DEF Message
    <2>5. QED
        BY <2>2, <2>3, <2>4
<1>11. OneMessage(s)
    <2>1. k + 1 \in Unwritten(s) /\ s.log[k + 1].role = "user"
        BY <1>2, <1>5, <1>7
    <2>2. QED
        BY <1>7, <1>10, <2>1 DEF OneMessage
<1>12. Waiting(s, 1)
    <2>1. s.index <= Len(s.log)
        BY <1>2, <1>4, <1>5, <1>7
    <2>2. QED
        BY <1>11, <2>1 DEF Waiting
<1>13. QED
    BY <1>2, <1>6, <1>12 DEF s

-----------------------------------------------------------------------------
(* The rows of the CSV log.                                                *)

\* A function over the places up to k is a sequence.
LEMMA Listed ==
    ASSUME NEW S, NEW k \in Nat, NEW f \in [1..k -> S]
    PROVE  f \in Seq(S) /\ Len(f) = k
OBVIOUS

\* What the changes of the last row and the saving of the log do to the record.
LEMMA CoverageRecord ==
    ASSUME NEW log, NEW file, NEW coverage
    PROVE  CsvCoverage([log |-> log, file |-> file], coverage) =
                [log |-> [log EXCEPT ![Len(log)].cov = coverage], file |-> file]
BY DEF CsvCoverage

LEMMA ActionRecord ==
    ASSUME NEW log, NEW file, NEW action
    PROVE  CsvAction([log |-> log, file |-> file], action) =
                [log |-> [log EXCEPT ![Len(log)].action = action], file |-> file]
BY DEF CsvAction

LEMMA SaveRecord ==
    ASSUME NEW log, NEW file
    PROVE  CsvSave([log |-> log, file |-> file]) =
                [log |-> log, file |-> file \o SubSeq(log, Len(file) + 1, Len(log))]
<1> DEFINE c == [log |-> log, file |-> file]
           f == file \o SubSeq(log, Len(file) + 1, Len(log))
<1>1. c.log = log /\ c.file = file
    OBVIOUS
<1>2. CsvSave(c) = [c EXCEPT !.file = f]
    BY <1>1, Zenon DEF CsvSave
<1> HIDE DEF f
<1>3. [c EXCEPT !.file = f] = [log |-> log, file |-> f]
    OBVIOUS
<1>4. QED
    BY <1>2, <1>3 DEF f

Covers(covered, log, coverage) == covered = [log EXCEPT ![Len(log)].cov = coverage]
Marks(marked, log, action) == marked = [log EXCEPT ![Len(log)].action = action]

\* A row with one more thing known of it.
LEMMA RowMarked ==
    ASSUME NEW log \in Seq(Row), Len(log) > 0,
           NEW coverage \in Score, NEW action \in Action,
           NEW covered, Covers(covered, log, coverage),
           NEW marked, Marks(marked, covered, action)
    PROVE  /\ covered \in Seq(Row) /\ Len(covered) = Len(log)
           /\ marked \in Seq(Row) /\ Len(marked) = Len(log)
           /\ \A i \in 1..Len(log) :
                /\ covered[i].dialog = log[i].dialog /\ covered[i].msg = log[i].msg
                /\ marked[i].dialog = log[i].dialog /\ marked[i].msg = log[i].msg
           /\ covered[Len(log)].cov = coverage
           /\ covered[Len(log)].action = log[Len(log)].action
           /\ marked[Len(log)].cov = coverage
           /\ marked[Len(log)].action = action
<1>1. PICK k \in Nat : k = Len(log) /\ k \in 1..k
    <2>1. Len(log) \in Nat /\ Len(log) \in 1..Len(log)
        OBVIOUS
    <2>2. QED
        BY <2>1
<1>2. /\ log \in [1..k -> Row]
      /\ log[k] \in Row
    BY <1>1
<1>0. covered = [log EXCEPT ![k].cov = coverage]
    BY <1>1 DEF Covers
<1>3. /\ covered \in [1..k -> Row]
      /\ \A i \in 1..k : covered[i].dialog = log[i].dialog /\ covered[i].msg = log[i].msg
      /\ covered[k].cov = coverage
      /\ covered[k].action = log[k].action
    <2>1. [log[k] EXCEPT !.cov = coverage] \in Row
        BY <1>2 DEF Row
    <2>2. covered[k] = [log[k] EXCEPT !.cov = coverage]
        BY <1>0, <1>1, <1>2
    <2>3. \A i \in 1..k : i # k => covered[i] = log[i]
        BY <1>0, <1>2
    <2>4. covered \in [1..k -> Row]
        BY <1>0, <1>2, <2>1
    <2>5. /\ covered[k].dialog = log[k].dialog /\ covered[k].msg = log[k].msg
          /\ covered[k].cov = coverage /\ covered[k].action = log[k].action
        BY <1>2, <2>2 DEF Row
    <2>6. QED
        BY <2>3, <2>4, <2>5
<1>4. covered[k] \in Row
    BY <1>1, <1>3
<1>5. /\ marked \in [1..k -> Row]
      /\ \A i \in 1..k :
            marked[i].dialog = covered[i].dialog /\ marked[i].msg = covered[i].msg
      /\ marked[k].cov = coverage
      /\ marked[k].action = action
    <2>0. marked = [covered EXCEPT ![k].action = action]
        <3>1. Len(covered) = k
            BY <1>3, Listed
        <3>2. QED
            BY <3>1 DEF Marks
    <2>1. [covered[k] EXCEPT !.action = action] \in Row
        BY <1>4 DEF Row
    <2>2. marked[k] = [covered[k] EXCEPT !.action = action]
        BY <1>1, <1>3, <2>0
    <2>3. \A i \in 1..k : i # k => marked[i] = covered[i]
        BY <1>3, <2>0
    <2>4. marked \in [1..k -> Row]
        BY <1>3, <2>0, <2>1
    <2>5. /\ marked[k].dialog = covered[k].dialog /\ marked[k].msg = covered[k].msg
          /\ marked[k].cov = coverage /\ marked[k].action = action
        BY <1>3, <1>4, <2>2 DEF Row
    <2>6. QED
        BY <2>3, <2>4, <2>5
<1>6. /\ covered \in Seq(Row) /\ Len(covered) = k
      /\ marked \in Seq(Row) /\ Len(marked) = k
    BY <1>3, <1>5, Listed
<1>7. \A i \in 1..k : marked[i].dialog = log[i].dialog /\ marked[i].msg = log[i].msg
    BY <1>3, <1>5
<1>8. \A i \in 1..Len(log) :
        /\ covered[i].dialog = log[i].dialog /\ covered[i].msg = log[i].msg
        /\ marked[i].dialog = log[i].dialog /\ marked[i].msg = log[i].msg
    BY <1>1, <1>3, <1>7
<1>9. /\ Len(covered) = Len(log) /\ Len(marked) = Len(log)
      /\ covered[Len(log)].cov = coverage /\ marked[Len(log)].cov = coverage
      /\ covered[Len(log)].action = log[Len(log)].action
      /\ marked[Len(log)].action = action
    BY <1>1, <1>3, <1>5, <1>6
<1>10. QED
    BY <1>6, <1>8, <1>9

\* The last row knows the coverage its message was judged by, and, if the dialog
\* or the trial is over, why.
LEMMA RowsMarked ==
    ASSUME NEW c \in Csv, Len(c.log) > 0, NEW coverage \in Score, NEW action \in Action
    PROVE  LET covered == CsvCoverage(c, coverage)
               marked == CsvAction(covered, action)
               k == Len(c.log)
           IN  /\ covered \in Csv /\ covered.file = c.file /\ Len(covered.log) = k
               /\ \A i \in 1..k : /\ covered.log[i].dialog = c.log[i].dialog
                                  /\ covered.log[i].msg = c.log[i].msg
               /\ covered.log[k].cov = coverage
               /\ covered.log[k].action = c.log[k].action
               /\ marked \in Csv /\ marked.file = c.file /\ Len(marked.log) = k
               /\ \A i \in 1..k : /\ marked.log[i].dialog = c.log[i].dialog
                                  /\ marked.log[i].msg = c.log[i].msg
               /\ marked.log[k].cov = coverage
               /\ marked.log[k].action = action
<1>1. PICK log \in Seq(Row), file \in Seq(Row) : c = [log |-> log, file |-> file]
    BY DEF Csv
<1>2. c.log = log /\ c.file = file
    BY <1>1
<1>3. PICK covered, marked :
            Covers(covered, log, coverage) /\ Marks(marked, covered, action)
    BY DEF Covers, Marks
<1>4. /\ CsvCoverage(c, coverage) = [log |-> covered, file |-> file]
      /\ CsvAction(CsvCoverage(c, coverage), action) = [log |-> marked, file |-> file]
    <2>1. CsvCoverage(c, coverage) = [log |-> covered, file |-> file]
        BY <1>1, <1>3, CoverageRecord, Zenon DEF Covers
    <2>2. CsvAction([log |-> covered, file |-> file], action) = [log |-> marked, file |-> file]
        BY <1>3, ActionRecord, Zenon DEF Marks
    <2>3. QED
        BY <2>1, <2>2
<1>5. /\ covered \in Seq(Row) /\ Len(covered) = Len(log)
      /\ marked \in Seq(Row) /\ Len(marked) = Len(log)
      /\ \A i \in 1..Len(log) :
            /\ covered[i].dialog = log[i].dialog /\ covered[i].msg = log[i].msg
            /\ marked[i].dialog = log[i].dialog /\ marked[i].msg = log[i].msg
      /\ covered[Len(log)].cov = coverage
      /\ covered[Len(log)].action = log[Len(log)].action
      /\ marked[Len(log)].cov = coverage
      /\ marked[Len(log)].action = action
    <2>1. Len(log) > 0
        BY <1>2
    <2>2. QED
        BY <1>3, <2>1, RowMarked
<1>6. CsvCoverage(c, coverage) \in Csv /\ CsvAction(CsvCoverage(c, coverage), action) \in Csv
    BY <1>4, <1>5 DEF Csv
<1>7. QED
    BY <1>2, <1>4, <1>5, <1>6

\* save_log writes the rows the file does not have.
LEMMA RowsSaved ==
    ASSUME NEW c \in Csv, NEW n \in {0, 1}, Len(c.file) = Len(c.log) - n
    PROVE  LET s == CsvSave(c)
           IN  /\ s \in Csv /\ s.log = c.log
               /\ Len(s.file) = Len(c.log)
               /\ \A i \in 1..Len(c.file) : s.file[i] = c.file[i]
               /\ n = 1 => s.file[Len(c.log)] = c.log[Len(c.log)]
<1>1. PICK log \in Seq(Row), file \in Seq(Row) : c = [log |-> log, file |-> file]
    BY DEF Csv
<1>2. c.log = log /\ c.file = file /\ Len(file) \in 0..Len(log) /\ Len(log) - Len(file) = n
    BY <1>1
<1> DEFINE new == SubSeq(log, Len(file) + 1, Len(log))
<1>3. CsvSave(c) = [log |-> log, file |-> file \o new]
    BY <1>1, SaveRecord
<1>4. /\ new \in Seq(Row) /\ Len(new) = Len(log) - Len(file)
      /\ \A k \in 1..(Len(log) - Len(file)) : new[k] = log[Len(file) + k]
    BY <1>2, Suffix
<1> HIDE DEF new
<1>5. /\ file \o new \in Seq(Row) /\ Len(file \o new) = Len(file) + Len(new)
      /\ \A k \in 1..Len(file) : (file \o new)[k] = file[k]
      /\ \A k \in 1..Len(new) : (file \o new)[Len(file) + k] = new[k]
    <2>1. PICK b \in Seq(Row) : b = new
        BY <1>4
    <2>2. QED
        BY <2>1, Joined
<1> HIDE DEF new
<1>6. Len(file \o new) = Len(log)
    BY <1>2, <1>4, <1>5
<1>7. n = 1 => (file \o new)[Len(log)] = log[Len(log)]
    <2>1. n = 1 => 1 \in 1..Len(new) /\ Len(file) + 1 = Len(log)
        BY <1>2, <1>4
    <2>2. QED
        BY <1>4, <1>5, <2>1
<1>8. QED
    BY <1>2, <1>3, <1>5, <1>6, <1>7 DEF Csv

-----------------------------------------------------------------------------
(* The steps.                                                              *)

\* Types of what the logs are about.
LEMMA AgentTypes ==
    ASSUME IInv
    PROVE  /\ total_msg_cnt \in Nat /\ msg_index \in Nat /\ dialog_index \in Nat
           /\ Open \in {0, 1}
           /\ all_history_cov_rate \in Seq(Score)
           /\ Len(all_history_cov_rate) \in Nat
           /\ Len(all_history_cov_rate) = total_msg_cnt - Open
           /\ g_coverage # None => g_coverage \in Score
<1>1. /\ total_msg_cnt \in 0..DialogBound /\ msg_index \in 0..total_msg_cnt
      /\ dialog_index \in Nat \ {0}
      /\ all_history_cov_rate \in Seq(Score)
      /\ g_coverage # None => g_coverage \in Score
    BY DEF IInv, TypeOK, Score
<1>2. Open \in {0, 1}
    BY DEF IInv, Control
<1>3. Len(all_history_cov_rate) \in Nat
    BY <1>1
<1>4. PICK total \in Nat, judged \in Nat :
            total = total_msg_cnt /\ judged = Len(all_history_cov_rate)
    BY <1>1, <1>3
<1>5. judged = total - Open
    <2>1. Open = total - judged
        BY <1>4 DEF Open
    <2>2. QED
        BY <2>1
<1>6. msg_index \in Nat
    BY <1>1
<1>7. QED
    BY <1>1, <1>2, <1>3, <1>4, <1>5, <1>6

\* An entry about the last message.
LEMMA NoteTyped ==
    ASSUME IInv, NEW role \in Role, NEW content \in Content
    PROVE  /\ Note(role, content) \in LogEntry
           /\ Note(role, content).role = role /\ Note(role, content).content = content
BY AgentTypes DEF Note, Entry, LogEntry

\* At the start the head of the text log waits, and no row is written.
LEMMA InitLogsInv == InitLogs => IInv /\ LogsInv
<1> SUFFICES ASSUME InitLogs PROVE IInv /\ LogsInv
    OBVIOUS
<1>1. IInv
    BY InitIInv DEF InitLogs
<1>2. /\ total_msg_cnt = 0 /\ msg_index = 0 /\ dialog_index = 1 /\ pc = "check"
      /\ all_history_cov_rate = << >>
      /\ txt = [log |-> Head4Log, index |-> 0, dialog |-> 1, msg |-> 0, total |-> 0,
                file |-> << >>]
      /\ csv = [log |-> << >>, file |-> << >>]
    BY DEF InitLogs, Init
<1>3. ~Over /\ Open = 0 /\ Unsaved = 0
    <2>1. Len(all_history_cov_rate) = 0
        BY <1>2
    <2>2. total_msg_cnt = 0
        BY <1>2
    <2>3. Open = 0
        BY <2>1, <2>2 DEF Open
    <2>4. QED
        BY <1>2, <2>3 DEF Over, Unsaved
<1>4. /\ Head4Log \in Seq(LogEntry) /\ Len(Head4Log) = 2
      /\ \A j \in 1..2 : Head4Log[j].role \in {"info", "system"}
    <2>1. /\ Note("info", None) \in LogEntry /\ Note("system", None) \in LogEntry
          /\ Note("info", None).role = "info" /\ Note("system", None).role = "system"
        BY <1>1, NoteTyped DEF Role, Content
    <2>2. QED
        BY <2>1 DEF Head4Log
<1>5. TxtInv
    <2>1. txt \in Txt
        <3>1. << >> \in Seq(FileEntry)
            OBVIOUS
        <3>2. QED
            BY <1>2, <1>4, <3>1 DEF Txt
    <2>2. Unwritten(txt) = 1..2
        <3>1. txt.index + 1 = 1 /\ Len(txt.log) = 2
            BY <1>2, <1>4
        <3>2. QED
            BY <3>1 DEF Unwritten
    <2>3. Waiting(txt, 0)
        BY <1>2, <1>4, <2>2 DEF Waiting, NoMessage, Message
    <2>4. Filed(txt.file, txt.total)
        BY <1>2 DEF Filed, Prompts
    <2>5. QED
        BY <1>2, <1>3, <2>1, <2>3, <2>4 DEF TxtInv
<1>6. CsvInv
    BY <1>2, <1>3 DEF CsvInv, Csv, RowsOf
<1>7. QED
    BY <1>1, <1>5, <1>6 DEF LogsInv

\* Steps that log nothing, judge nothing and ask nothing.
LEMMA LogsKept ==
    ASSUME IInv, LogsInv, UNCHANGED <<txt, csv, total_msg_cnt, msg_index, dialog_index,
                                      all_history_cov_rate>>,
           Over' = Over, Over => stop' = stop
    PROVE  LogsInv'
<1>1. Open' = Open /\ Unsaved' = Unsaved
    BY DEF Open, Unsaved
<1>2. TxtInv'
    <2>1. Waiting(txt, Unsaved)' /\ Filed(txt.file, txt.total)'
        BY <1>1 DEF LogsInv, TxtInv, Waiting, NoMessage, OneMessage, NextNumber, Unwritten,
                    Message, Filed, Prompts, SameNumber
    <2>2. Over' => StopFiled(txt.file)'
        BY DEF LogsInv, TxtInv, StopFiled
    <2>3. QED
        BY <1>1, <2>1, <2>2 DEF LogsInv, TxtInv
<1>3. CsvInv'
    BY <1>1 DEF LogsInv, CsvInv, RowsOf, Leads
<1>4. QED
    BY <1>2, <1>3 DEF LogsInv

\* What the agent's next row follows, while nothing is open.
LEMMA AnswerIsLogged ==
    ASSUME IInv, LogsInv, IInv', NEW stimuli, NEW tokens, AnswerLogged(stimuli, tokens)
    PROVE  LogsInv'
<1>1. /\ pc = "prompt" /\ pc' = "loop"
      /\ total_msg_cnt' = total_msg_cnt + 1 /\ msg_index' = msg_index + 1
      /\ UNCHANGED <<dialog_index, all_history_cov_rate>>
      /\ txt' = TxtAppend(TxtAppend(txt, Entry("user", None, msg_index + 1, total_msg_cnt + 1)),
                          Entry("assistant", None, msg_index + 1, total_msg_cnt + 1))
      /\ csv' = [csv EXCEPT !.log = Append(@,
                    [dialog |-> dialog_index, msg |-> msg_index + 1,
                     action |-> "none", cov |-> None])]
    BY DEF AnswerLogged, Answer
<1>2. PICK total \in Nat, msg \in Nat, dialog \in Nat :
            total = total_msg_cnt /\ msg = msg_index /\ dialog = dialog_index
    BY AgentTypes
<1>3. ~Over /\ ~Over' /\ Open = 0 /\ Unsaved = 0
    BY <1>1 DEF Over, Unsaved, IInv, Control
<1>4. Open' = 1 /\ Unsaved' = 1
    <2>1. Len(all_history_cov_rate) = total
        BY <1>2, <1>3, AgentTypes
    <2>2. Open' = 1
        BY <1>1, <1>2, <2>1 DEF Open
    <2>3. QED
        BY <1>3, <2>2 DEF Unsaved
<1>5. TxtInv'
    <2> DEFINE u == Entry("user", None, msg_index + 1, total_msg_cnt + 1)
               a == Entry("assistant", None, msg_index + 1, total_msg_cnt + 1)
    <2>1. /\ txt \in Txt /\ Waiting(txt, 0) /\ Filed(txt.file, txt.total)
          /\ txt.dialog = dialog /\ txt.msg = msg /\ txt.total = total
        BY <1>2, <1>3 DEF LogsInv, TxtInv
    <2>2. /\ u \in LogEntry /\ a \in LogEntry
          /\ u.role = "user" /\ a.role = "assistant"
          /\ NextNumber(txt, u) /\ NextNumber(txt, a)
        BY <1>2, <2>1 DEF Entry, LogEntry, Role, Content, NextNumber
    <2> HIDE DEF u, a
    <2>3. /\ txt' \in Txt
          /\ txt'.dialog = txt.dialog /\ txt'.msg = txt.msg
          /\ txt'.total = txt.total /\ txt'.file = txt.file
          /\ Waiting(txt', 1)
        BY <1>1, <2>1, <2>2, MessageWaits DEF u, a
    <2>4. /\ txt'.dialog = dialog_index'
          /\ txt'.msg = msg_index' - 1 /\ txt'.total = total_msg_cnt' - 1
        BY <1>1, <1>2, <2>1, <2>3
    <2>5. Filed(txt'.file, txt'.total)
        BY <2>1, <2>3
    <2>6. QED
        BY <1>3, <1>4, <2>3, <2>4, <2>5 DEF TxtInv
<1>6. CsvInv'
    <2> DEFINE row == [dialog |-> dialog_index, msg |-> msg_index + 1,
                       action |-> "none", cov |-> None]
    <2>1. PICK log \in Seq(Row), file \in Seq(Row) : csv = [log |-> log, file |-> file]
        BY DEF LogsInv, CsvInv, Csv
    <2>2. row \in Row /\ row.dialog = dialog /\ row.msg = msg + 1 /\ row.action = "none"
        <3>1. row = [dialog |-> dialog, msg |-> msg + 1, action |-> "none", cov |-> None]
            BY <1>2
        <3>2. dialog \in Nat /\ msg + 1 \in Nat /\ "none" \in Action
            BY DEF Action, Reason
        <3> HIDE DEF row
        <3>3. QED
            BY <3>1, <3>2 DEF Row
    <2>3. csv' = [log |-> Append(log, row), file |-> file]
        BY <1>1, <2>1
    <2> HIDE DEF row
    <2>4. Len(log) = total /\ Len(file) = total
        BY <1>2, <1>3, <2>1 DEF LogsInv, CsvInv
    <2>5. /\ Append(log, row) \in Seq(Row) /\ Len(Append(log, row)) = total + 1
          /\ \A k \in 1..total : Append(log, row)[k] = log[k]
          /\ Append(log, row)[total + 1] = row
        BY <2>2, <2>4
    <2>6. /\ \A i \in 1..total :
                /\ file[i].cov # None
                /\ i <= Len(all_history_cov_rate) => file[i].cov = all_history_cov_rate[i]
                /\ i < total => Leads(file[i], log[i + 1].dialog, log[i + 1].msg)
          /\ total > 0 => Leads(file[total], dialog, msg + 1)
        BY <1>2, <1>3, <2>1, <2>4 DEF LogsInv, CsvInv, RowsOf
    <2> DEFINE new == Append(log, row)
    <2> HIDE DEF new
    <2>7. ASSUME NEW i \in 1..total
          PROVE  Leads(file[i], new[i + 1].dialog, new[i + 1].msg)
        <3>1. CASE i = total
            BY <2>2, <2>5, <2>6, <3>1 DEF new
        <3>2. CASE i # total
            <4>1. i < total /\ i + 1 \in 1..total
                BY <3>2
            <4>2. QED
                BY <2>5, <2>6, <4>1 DEF new
        <3>3. QED
            BY <3>1, <3>2
    <2>8. csv' \in Csv /\ csv'.log = new /\ csv'.file = file
        BY <2>1, <2>3, <2>5 DEF Csv, new
    <2>9. /\ Len(csv'.log) = total_msg_cnt'
          /\ Len(csv'.file) = total_msg_cnt' - 1
        BY <1>1, <1>2, <2>4, <2>5, <2>8 DEF new
    <2>10. RowsOf(csv'.file, csv'.log, all_history_cov_rate')
        BY <1>1, <2>4, <2>6, <2>7, <2>8 DEF RowsOf
    <2>11. /\ csv'.log[total_msg_cnt'].dialog = dialog_index'
           /\ csv'.log[total_msg_cnt'].msg = msg_index'
           /\ csv'.log[total_msg_cnt'].action = "none"
        BY <1>1, <1>2, <2>2, <2>5, <2>8 DEF new
    <2>12. QED
        BY <1>3, <1>4, <2>8, <2>9, <2>10, <2>11 DEF CsvInv
<1>7. QED
    BY <1>5, <1>6 DEF LogsInv

SameRows(log, other) ==
    /\ Len(log) = Len(other)
    /\ \A i \in 1..Len(log) : log[i].dialog = other[i].dialog /\ log[i].msg = other[i].msg

\* What the rows of the file say when the coverage of the last message is known:
\* the row of an open message is written with it, the others stay.
LEMMA RowsWritten ==
    ASSUME NEW n \in {0, 1}, NEW hist \in Seq(Score), NEW c \in Csv, NEW d \in Csv,
           Len(c.file) = Len(c.log) - n, Len(hist) = Len(c.log) - n,
           RowsOf(c.file, c.log, hist), d.file = c.file, SameRows(d.log, c.log),
           n = 1 => d.log[Len(d.log)].cov # None
    PROVE  LET s == CsvSave(d)
           IN  /\ s \in Csv /\ s.log = d.log /\ Len(s.file) = Len(c.log)
               /\ RowsOf(s.file, s.log, hist)
               /\ n = 1 => s.file[Len(s.file)] = d.log[Len(d.log)]
<1> DEFINE s == CsvSave(d)
<1>1. PICK total \in Nat : total = Len(c.log)
    BY DEF Csv
<1>2. /\ Len(d.file) = Len(d.log) - n /\ Len(d.log) = total
      /\ \A i \in 1..total :
            d.log[i].dialog = c.log[i].dialog /\ d.log[i].msg = c.log[i].msg
    BY <1>1 DEF SameRows
<1>3. /\ s \in Csv /\ s.log = d.log
      /\ Len(s.file) = total
      /\ \A i \in 1..(total - n) : s.file[i] = c.file[i]
      /\ n = 1 => s.file[total] = d.log[total]
    BY <1>1, <1>2, RowsSaved
<1> HIDE DEF s
<1>4. ASSUME NEW i \in 1..total
      PROVE  /\ s.file[i].cov # None
             /\ i <= Len(hist) => s.file[i].cov = hist[i]
             /\ i < total => Leads(s.file[i], s.log[i + 1].dialog, s.log[i + 1].msg)
    <2>1. CASE i \in 1..(total - n)
        <3>1. /\ s.file[i] = c.file[i] /\ i \in 1..Len(c.file)
            BY <1>1, <1>3, <2>1
        <3>2. /\ c.file[i].cov # None
              /\ i <= Len(hist) => c.file[i].cov = hist[i]
              /\ i < total => Leads(c.file[i], c.log[i + 1].dialog, c.log[i + 1].msg)
            BY <1>1, <3>1 DEF RowsOf
        <3>3. i < total => i + 1 \in 1..total
            OBVIOUS
        <3>4. i < total => /\ s.log[i + 1].dialog = c.log[i + 1].dialog
                           /\ s.log[i + 1].msg = c.log[i + 1].msg
            BY <1>2, <1>3, <3>3
        <3>5. QED
            BY <3>1, <3>2, <3>4
    <2>2. CASE i \notin 1..(total - n)
        <3>1. n = 1 /\ i = total
            BY <2>2
        <3>2. s.file[i].cov # None /\ ~(i <= Len(hist))
            BY <1>1, <1>2, <1>3, <3>1
        <3>3. QED
            BY <3>1, <3>2
    <2>3. QED
        BY <2>1, <2>2
<1>5. RowsOf(s.file, s.log, hist)
    BY <1>2, <1>3, <1>4 DEF RowsOf
<1>6. QED
    BY <1>1, <1>2, <1>3, <1>5 DEF s

\* A judged message is written to both files, once, and the counters of the
\* loggers meet those of the agent again.
LEMMA JudgementIsLogged ==
    ASSUME IInv, LogsInv, Answered, g_coverage # None, ~Doomed \/ pc = "loop",
           ~_check_converge, pc \in {"generate", "loop"}, pc' \in {"loop", "prompt"},
           JudgeMessage, UNCHANGED gain, LogJudgement
    PROVE  LogsInv'
<1>1. PICK total \in Nat, msg \in Nat, dialog \in Nat, cov \in Score :
            /\ total = total_msg_cnt /\ msg = msg_index /\ dialog = dialog_index
            /\ cov = g_coverage
    BY AgentTypes
<1>2. /\ ~Over /\ ~Over' /\ Open = 1 /\ Unsaved = 1
      /\ Open' = 0 /\ Unsaved' = 0 /\ total_msg_cnt' = total
      /\ total \in 1..total
    <2>1. Open' = 0 /\ total_msg_cnt' = total_msg_cnt
        BY Judging
    <2>2. ~Over /\ ~Over' /\ Open = 1
        BY DEF Over, Answered
    <2>3. total \in 1..total
        BY <1>1, <2>2, OpenMessage
    <2>4. QED
        BY <1>1, <2>1, <2>2, <2>3 DEF Unsaved
<1>3. /\ all_history_cov_rate \in Seq(Score) /\ Len(all_history_cov_rate) = total - 1
      /\ all_history_cov_rate' = Append(all_history_cov_rate, cov)
      /\ all_history_cov_rate' # all_history_cov_rate
      /\ Len(all_history_cov_rate') = total
      /\ \A i \in 1..(total - 1) : all_history_cov_rate'[i] = all_history_cov_rate[i]
      /\ all_history_cov_rate'[total] = cov
    <2>1. PICK hist \in Seq(Score) : hist = all_history_cov_rate /\ Len(hist) = total - 1
        BY <1>1, <1>2, AgentTypes
    <2>2. all_history_cov_rate' = Append(hist, cov)
        BY <1>1, <2>1 DEF JudgeMessage, Recorded
    <2>3. /\ Append(hist, cov) # hist
          /\ Len(Append(hist, cov)) = total
          /\ \A i \in 1..(total - 1) : Append(hist, cov)[i] = hist[i]
          /\ Append(hist, cov)[total] = cov
        BY <2>1
    <2>4. QED
        BY <2>1, <2>2, <2>3
<1>4. \/ dialog_index' = dialog + 1 /\ msg_index' = 0
      \/ dialog_index' = dialog /\ msg_index' = msg
    BY <1>1 DEF JudgeMessage, reset
<1> DEFINE t == TxtAppend(txt, Note("coverage", g_coverage))
           c == CsvCoverage(csv, g_coverage)
<1>5. \/ dialog_index' = dialog + 1 /\ txt' = TxtReset(t) /\ csv' = CsvSave(CsvAction(c, "reset"))
      \/ dialog_index' = dialog /\ txt' = TxtSave(t) /\ csv' = CsvSave(c)
    BY <1>1, <1>3, <1>4 DEF LogJudgement
<1>6. TxtInv'
    <2>1. /\ txt \in Txt /\ Waiting(txt, 1) /\ Filed(txt.file, txt.total)
          /\ txt.dialog = dialog /\ txt.msg = msg - 1 /\ txt.total = total - 1
        BY <1>1, <1>2 DEF LogsInv, TxtInv
    <2>2. /\ Note("coverage", g_coverage) \in LogEntry
          /\ Note("coverage", g_coverage).role = "coverage"
        BY <1>1, NoteTyped DEF Role, Content
    <2>3. ~Message(Note("coverage", g_coverage))
        BY <2>2 DEF Message
    <2>4. /\ t \in Txt /\ Waiting(t, 1)
          /\ t.dialog = dialog /\ t.msg = msg - 1 /\ t.total = total - 1 /\ t.file = txt.file
        BY <2>1, <2>2, <2>3, NoteWaits
    <2> HIDE DEF t
    <2>5. CASE dialog_index' = dialog /\ txt' = TxtSave(t)
        <3>1. msg_index' = msg
            BY <1>4, <2>5
        <3>2. /\ txt' \in Txt /\ Waiting(txt', 0) /\ Filed(txt'.file, txt'.total)
              /\ txt'.dialog = dialog /\ txt'.msg = t.msg + 1 /\ txt'.total = t.total + 1
            BY <2>1, <2>4, <2>5, SaveFiles
        <3>3. txt'.msg = msg_index' - 0 /\ txt'.total = total_msg_cnt' - 0
            BY <1>2, <2>4, <3>1, <3>2
        <3>4. QED
            BY <1>2, <2>5, <3>2, <3>3 DEF TxtInv
    <2>6. CASE dialog_index' = dialog + 1 /\ txt' = TxtReset(t)
        <3>1. msg_index' = 0
            BY <1>4, <2>6
        <3>2. /\ Note("reset", None) \in LogEntry
              /\ Note("reset", None).role = "reset"
            BY NoteTyped DEF Role, Content
        <3>3. ~Message(Note("reset", None))
            BY <3>2 DEF Message
        <3> DEFINE r == TxtAppend(t, Note("reset", None))
        <3>4. /\ r \in Txt /\ Waiting(r, 1)
              /\ r.dialog = dialog /\ r.msg = msg - 1 /\ r.total = total - 1 /\ r.file = txt.file
            BY <2>4, <3>2, <3>3, NoteWaits
        <3>5. txt' = [TxtSave(r) EXCEPT !.log = << >>, !.index = 0, !.msg = 0, !.dialog = @ + 1]
            BY <2>6 DEF TxtReset
        <3> HIDE DEF r
        <3>6. /\ TxtSave(r) \in Txt /\ Filed(TxtSave(r).file, TxtSave(r).total)
              /\ TxtSave(r).dialog = dialog /\ TxtSave(r).total = r.total + 1
            BY <2>1, <3>4, SaveFiles
        <3>7. PICK s \in Txt : s = TxtSave(r)
            BY <3>6
        <3>8. txt' = [log |-> << >>, index |-> 0, dialog |-> dialog + 1, msg |-> 0,
                      total |-> s.total, file |-> s.file]
            BY <3>5, <3>6, <3>7 DEF Txt
        <3>9. s.total = total
            BY <1>2, <3>4, <3>6, <3>7
        <3>10. txt' \in Txt
            <4>1. << >> \in Seq(LogEntry) /\ s.file \in Seq(FileEntry) /\ dialog + 1 \in Nat
                BY DEF Txt
            <4>2. QED
                BY <3>8, <3>9, <4>1 DEF Txt
        <3>11. Waiting(txt', 0)
            <4>1. txt'.index = 0 /\ Len(txt'.log) = 0
                BY <3>8
            <4>2. Unwritten(txt') = {}
                BY <4>1 DEF Unwritten
            <4>3. QED
                BY <4>1, <4>2 DEF Waiting, NoMessage
        <3>12. Filed(txt'.file, txt'.total)
            BY <3>6, <3>7, <3>8
        <3>13. /\ txt'.dialog = dialog_index' /\ txt'.msg = msg_index' - 0
               /\ txt'.total = total_msg_cnt' - 0
            BY <1>2, <2>6, <3>1, <3>8, <3>9
        <3>14. QED
            BY <1>2, <3>10, <3>11, <3>12, <3>13 DEF TxtInv
    <2>7. QED
        BY <1>5, <2>5, <2>6 DEF t
<1>7. CsvInv'
    <2>1. /\ csv \in Csv /\ Len(csv.log) = total /\ Len(csv.file) = total - 1
          /\ RowsOf(csv.file, csv.log, all_history_cov_rate)
          /\ csv.log[total].dialog = dialog
          /\ csv.log[total].msg = msg
          /\ csv.log[total].action = "none"
        BY <1>1, <1>2 DEF LogsInv, CsvInv
    <2>2. PICK x \in Csv : x = csv
        BY <2>1
    <2> DEFINE y == CsvCoverage(x, cov)
               z == CsvAction(y, "reset")
    <2>3. /\ y \in Csv /\ y.file = x.file /\ SameRows(y.log, x.log)
          /\ y.log[total].cov = cov
          /\ y.log[total].action = "none"
          /\ z \in Csv /\ z.file = x.file /\ SameRows(z.log, x.log)
          /\ z.log[total].cov = cov
          /\ z.log[total].action = "reset"
        <3>1. "reset" \in Action
            BY DEF Action
        <3>2. Len(x.log) > 0 /\ Len(x.log) = total /\ x.log[total].action = "none"
            BY <1>2, <2>1, <2>2
        <3>3. /\ y \in Csv /\ y.file = x.file /\ Len(y.log) = total
              /\ \A i \in 1..total : /\ y.log[i].dialog = x.log[i].dialog
                                     /\ y.log[i].msg = x.log[i].msg
              /\ y.log[total].cov = cov
              /\ y.log[total].action = x.log[total].action
              /\ z \in Csv /\ z.file = x.file /\ Len(z.log) = total
              /\ \A i \in 1..total : /\ z.log[i].dialog = x.log[i].dialog
                                     /\ z.log[i].msg = x.log[i].msg
              /\ z.log[total].cov = cov
              /\ z.log[total].action = "reset"
            BY <3>1, <3>2, RowsMarked
        <3> HIDE DEF y, z
        <3>4. QED
            BY <3>2, <3>3 DEF SameRows
    <2>4. y = c /\ z = CsvAction(c, "reset")
        BY <1>1, <2>2
    <2> HIDE DEF c, y, z
    <2>5. PICK d \in Csv :
            /\ csv' = CsvSave(d)
            /\ d.file = x.file /\ SameRows(d.log, x.log)
            /\ d.log[total].cov = cov
            /\ Leads(d.log[total], dialog_index', msg_index' + 1)
        <3>1. /\ y.log[total].dialog = dialog /\ y.log[total].msg = msg
              /\ z.log[total].dialog = dialog
            BY <1>2, <2>1, <2>2, <2>3 DEF SameRows
        <3>2. CASE dialog_index' = dialog + 1 /\ csv' = CsvSave(z)
            <4>1. Leads(z.log[total], dialog_index', msg_index' + 1)
                BY <1>4, <2>3, <3>1, <3>2 DEF Leads
            <4>2. QED
                BY <2>3, <3>2, <4>1
        <3>3. CASE dialog_index' = dialog /\ csv' = CsvSave(y)
            <4>1. Leads(y.log[total], dialog_index', msg_index' + 1)
                BY <1>4, <2>3, <3>1, <3>3 DEF Leads
            <4>2. QED
                BY <2>3, <3>3, <4>1
        <3>4. QED
            BY <1>5, <2>4, <3>2, <3>3
    <2>6. PICK hist \in Seq(Score) : hist = all_history_cov_rate
        BY <1>3
    <2>7. None \notin Score
        BY LLMAgentAssumption DEF Score
    <2>8. /\ csv' \in Csv /\ csv'.log = d.log /\ Len(csv'.file) = total
          /\ RowsOf(csv'.file, csv'.log, hist)
          /\ csv'.file[total] = d.log[total]
          /\ Len(csv'.log) = total
        <3>1. /\ Len(x.file) = Len(x.log) - 1 /\ Len(hist) = Len(x.log) - 1
              /\ RowsOf(x.file, x.log, hist)
              /\ Len(x.log) = total /\ Len(d.log) = total
            BY <1>3, <2>1, <2>2, <2>5, <2>6 DEF SameRows
        <3>2. d.log[Len(d.log)].cov # None
            BY <2>5, <2>7, <3>1
        <3> DEFINE s == CsvSave(d)
        <3>3. /\ s \in Csv /\ s.log = d.log /\ Len(s.file) = Len(x.log)
              /\ RowsOf(s.file, s.log, hist)
              /\ s.file[Len(s.file)] = d.log[Len(d.log)]
            BY <2>5, <3>1, <3>2, RowsWritten
        <3> HIDE DEF s
        <3>4. csv' = s
            BY <2>5 DEF s
        <3>5. QED
            BY <3>1, <3>3, <3>4
    <2>9. RowsOf(csv'.file, csv'.log, all_history_cov_rate')
        <3> SUFFICES ASSUME NEW i \in 1..total
                     PROVE  csv'.file[i].cov = all_history_cov_rate'[i]
            BY <1>3, <2>6, <2>8 DEF RowsOf
        <3>1. CASE i = total
            BY <1>3, <2>5, <2>8, <3>1
        <3>2. CASE i # total
            <4>1. i \in 1..(total - 1)
                BY <3>2
            <4>2. QED
                BY <1>3, <2>6, <2>8, <4>1 DEF RowsOf
        <3>3. QED
            BY <3>1, <3>2
    <2>10. Leads(csv'.file[total], dialog_index', msg_index' + 1)
        BY <2>5, <2>8
    <2>11. QED
        BY <1>2, <2>8, <2>9, <2>10 DEF CsvInv
<1>8. QED
    BY <1>6, <1>7 DEF LogsInv

\* The end of the trial writes what is not written yet, a message whose stimuli
\* the trial did not wait for included, and the reason.
LEMMA StopIsLogged ==
    ASSUME IInv, LogsInv, EndSimulation, StopReason # "none", LogStop
    PROVE  LogsInv'
<1>1. PICK total \in Nat, n \in {0, 1} : total = total_msg_cnt /\ n = Open
    BY AgentTypes
<1>2. /\ pc = "check" /\ pc' = "finish" /\ stop' = StopReason
      /\ UNCHANGED <<total_msg_cnt, msg_index, dialog_index, all_history_cov_rate>>
    BY DEF EndSimulation
<1>3. ~Over /\ Over' /\ Unsaved = n /\ Unsaved' = 0
    BY <1>1, <1>2 DEF Over, Unsaved
<1>4. StopReason \in Reason /\ g_coverage # None
    BY DEF StopReason, Reason
<1>5. g_coverage \in Score
    BY <1>4, AgentTypes
<1>6. TxtInv'
    <2>1. /\ txt \in Txt /\ Waiting(txt, n) /\ Filed(txt.file, txt.total)
          /\ txt.dialog = dialog_index /\ txt.msg = msg_index - n
          /\ txt.total = total_msg_cnt - n
        BY <1>3 DEF LogsInv, TxtInv
    <2> DEFINE cov == Note("coverage", g_coverage)
               end == Note("stop", StopReason)
    <2>2. /\ cov \in LogEntry /\ cov.role = "coverage"
          /\ end \in LogEntry /\ end.role = "stop" /\ end.content = StopReason
        BY <1>4, <1>5, NoteTyped DEF Role, Content
    <2> HIDE DEF cov, end
    <2>3. ~Message(cov) /\ ~Message(end)
        BY <2>2 DEF Message
    <2> DEFINE t == TxtAppend(txt, cov)
               s == TxtAppend(t, end)
    <2>4. /\ t \in Txt /\ Waiting(t, n)
          /\ t.dialog = txt.dialog /\ t.msg = txt.msg
          /\ t.total = txt.total /\ t.file = txt.file
        BY <2>1, <2>2, <2>3, NoteWaits
    <2> HIDE DEF t
    <2>5. /\ s \in Txt /\ Waiting(s, n)
          /\ s.dialog = txt.dialog /\ s.msg = txt.msg
          /\ s.total = txt.total /\ s.file = txt.file
          /\ s.index < Len(s.log) /\ s.log[Len(s.log)] = end
        BY <2>2, <2>3, <2>4, NoteWaits
    <2>6. txt' = TxtSave(s)
        BY DEF LogStop, cov, end, t
    <2> HIDE DEF s
    <2>7. /\ txt' \in Txt /\ Waiting(txt', 0) /\ Filed(txt'.file, txt'.total)
          /\ txt'.dialog = s.dialog /\ txt'.msg = s.msg + n /\ txt'.total = s.total + n
          /\ Len(txt'.file) > 0 /\ txt'.file[Len(txt'.file)].entry = end
        BY <2>1, <2>5, <2>6, SaveFiles
    <2>8. PICK msg \in Nat, number \in Nat :
            msg = msg_index /\ number = txt.msg /\ txt.total \in Nat
        BY <2>1, AgentTypes DEF Txt
    <2>9. number + n = msg
        BY <2>1, <2>8
    <2>10. txt.total + n = total
        BY <1>1, <2>1, <2>8
    <2>11. txt'.msg = msg_index' - 0 /\ txt'.total = total_msg_cnt' - 0
        <3>1. txt'.msg = number + n /\ txt'.total = txt.total + n
            BY <2>5, <2>7, <2>8
        <3>2. txt'.msg = msg /\ txt'.total = total
            BY <2>9, <2>10, <3>1
        <3>3. QED
            BY <1>1, <1>2, <2>8, <3>2
    <2>12. StopFiled(txt.file)'
        BY <1>2, <2>2, <2>7 DEF StopFiled
    <2>13. QED
        BY <1>2, <1>3, <2>1, <2>5, <2>7, <2>11, <2>12 DEF TxtInv
<1>7. CsvInv'
    <2>1. /\ csv \in Csv /\ Len(csv.log) = total /\ Len(csv.file) = total - n
          /\ RowsOf(csv.file, csv.log, all_history_cov_rate)
        BY <1>1, <1>3 DEF LogsInv, CsvInv
    <2>2. PICK x \in Csv, cov \in Score, reason \in Action :
            x = csv /\ cov = g_coverage /\ reason = StopReason
        BY <1>4, <1>5, <2>1 DEF Action
    <2>3. Len(x.log) > 0 /\ Len(x.log) = total
        <3>1. x.log \in Seq(Row) /\ x.log # << >>
            BY <2>2 DEF Csv, LogStop
        <3>2. QED
            BY <2>1, <2>2, <3>1
    <2> DEFINE d == CsvAction(CsvCoverage(x, cov), reason)
    <2>4. /\ d \in Csv /\ d.file = x.file /\ Len(d.log) = total
          /\ \A i \in 1..total : /\ d.log[i].dialog = x.log[i].dialog
                                 /\ d.log[i].msg = x.log[i].msg
          /\ d.log[total].cov = cov
        BY <2>3, RowsMarked
    <2>5. csv' = CsvSave(d)
        BY <2>2 DEF LogStop
    <2> HIDE DEF d
    <2>6. PICK hist \in Seq(Score) : hist = all_history_cov_rate
        BY AgentTypes
    <2>7. None \notin Score
        BY LLMAgentAssumption DEF Score
    <2>8. /\ Len(x.file) = Len(x.log) - n /\ Len(hist) = Len(x.log) - n
          /\ RowsOf(x.file, x.log, hist) /\ SameRows(d.log, x.log)
          /\ d.log[Len(d.log)].cov # None
        BY <1>1, <2>1, <2>2, <2>3, <2>4, <2>6, <2>7, AgentTypes DEF SameRows
    <2> DEFINE s == CsvSave(d)
    <2>9. /\ s \in Csv /\ s.log = d.log /\ Len(s.file) = Len(x.log)
          /\ RowsOf(s.file, s.log, hist)
        BY <2>4, <2>8, RowsWritten
    <2>10. csv' = s
        BY <2>5
    <2> HIDE DEF s
    <2>11. /\ csv' \in Csv /\ Len(csv'.log) = total /\ Len(csv'.file) = total
           /\ RowsOf(csv'.file, csv'.log, all_history_cov_rate)
        BY <2>3, <2>4, <2>6, <2>9, <2>10
    <2>12. Len(csv'.log) = total_msg_cnt' /\ Len(csv'.file) = total_msg_cnt' - 0
        BY <1>1, <1>2, <2>11
    <2>13. QED
        BY <1>2, <1>3, <2>11, <2>12 DEF CsvInv
<1>8. QED
    BY <1>6, <1>7 DEF LogsInv

\* Full coverage before the first message stops the client in the logger; what
\* the trial was is not changed.
LEMMA StopWithoutRowKeeps ==
    ASSUME IInv, LogsInv, StopWithoutRow
    PROVE  IInv' /\ LogsInv'
<1>1. /\ pc = "check" /\ pc' = "crashed" /\ state' = "DONE" /\ csv' = csv
      /\ txt' = TxtAppend(txt, Note("coverage", g_coverage))
      /\ UNCHANGED <<total_msg_cnt, msg_index, dialog_index, history_cov_rate,
                     all_history_cov_rate, token_budget, best_messages,
                     best_iter_buffer_resetting, stimuli_buffer, f_, g_coverage, dut_hits,
                     stop, sent, gain>>
    BY DEF StopWithoutRow
<1>2. total_msg_cnt = 0
    <2>1. Len(csv.log) = 0
        BY DEF StopWithoutRow
    <2>2. QED
        BY <2>1 DEF LogsInv, CsvInv
<1>3. msg_index = 0 /\ Open = 0
    BY <1>2, NothingAsked
<1>4. Open' = Open
    BY <1>1 DEF Open
<1>5. IInv'
    <2>1. TypeOK'
        BY <1>1 DEF IInv, TypeOK, Entries
    <2>2. Control'
        BY <1>1, <1>3, <1>4 DEF Control
    <2>3. JudgedOnce' /\ NoEarlyConvergence'
        BY <1>1, LedgerKept
    <2>4. Coverage'
        BY <1>1 DEF IInv, Coverage
    <2>5. Paired'
        BY <1>1, <1>3, BufferKept
    <2>6. QED
        BY <2>1, <2>2, <2>3, <2>4, <2>5 DEF IInv
<1>6. ~Over /\ ~Over' /\ Unsaved = 0 /\ Unsaved' = 0
    BY <1>1, <1>3, <1>4 DEF Over, Unsaved
<1>7. TxtInv'
    <2>1. /\ txt \in Txt /\ Waiting(txt, 0) /\ Filed(txt.file, txt.total)
          /\ txt.dialog = dialog_index /\ txt.msg = msg_index - 0
          /\ txt.total = total_msg_cnt - 0
        BY <1>6 DEF LogsInv, TxtInv
    <2>2. g_coverage # None
        BY DEF StopWithoutRow, StopReason
    <2> DEFINE cov == Note("coverage", g_coverage)
    <2>3. cov \in LogEntry /\ cov.role = "coverage"
        BY <2>2, AgentTypes, NoteTyped DEF Role, Content
    <2>4. ~Message(cov)
        BY <2>3 DEF Message
    <2> HIDE DEF cov
    <2>5. /\ txt' \in Txt /\ Waiting(txt', 0)
          /\ txt'.dialog = txt.dialog /\ txt'.msg = txt.msg
          /\ txt'.total = txt.total /\ txt'.file = txt.file
        BY <1>1, <2>1, <2>3, <2>4, NoteWaits DEF cov
    <2>6. QED
        BY <1>1, <1>6, <2>1, <2>5 DEF TxtInv
<1>8. CsvInv'
    BY <1>1, <1>2, <1>3, <1>4, <1>6 DEF LogsInv, CsvInv
<1>9. QED
    BY <1>5, <1>7, <1>8 DEF LogsInv

\* Every step of the trial with its logs.
LEMMA NextLogsInv == IInv /\ LogsInv /\ [NextLogged]_logVars => IInv' /\ LogsInv'
<1> SUFFICES ASSUME IInv, LogsInv, [NextLogged]_logVars
             PROVE  IInv' /\ LogsInv'
    OBVIOUS
<1>1. CASE UNCHANGED logVars
    <2>1. IInv'
        BY <1>1, StutterKeeps DEF logVars
    <2>2. LogsInv'
        BY <1>1, LogsKept DEF logVars, logs, vars, agentVars, Over
    <2>3. QED
        BY <2>1, <2>2
<1>2. CASE EndSimulationLogged
    <2>1. EndSimulation
        BY <1>2 DEF EndSimulationLogged
    <2>2. IInv'
        BY <2>1, NextIInv DEF Next
    <2>3. CASE StopReason = "none"
        <3>1. UNCHANGED logs /\ pc = "check" /\ pc' = "generate"
            BY <1>2, <2>1, <2>3 DEF EndSimulationLogged, EndSimulation
        <3>2. UNCHANGED <<total_msg_cnt, msg_index, dialog_index, all_history_cov_rate>>
            BY <2>1 DEF EndSimulation
        <3>3. QED
            BY <2>2, <3>1, <3>2, LogsKept DEF logs, Over
    <2>4. CASE StopReason # "none"
        BY <1>2, <2>1, <2>2, <2>4, StopIsLogged DEF EndSimulationLogged
    <2>5. QED
        BY <2>3, <2>4
<1>3. CASE StopWithoutRow
    BY <1>3, StopWithoutRowKeeps
<1>4. CASE GenerateNextValue /\ LogJudgement
    <2>1. IInv'
        BY <1>4, NextIInv DEF Next
    <2>2. pc = "generate" /\ pc' \in {"await", "loop"} /\ gain' = gain /\ stop' = stop
        BY <1>4 DEF GenerateNextValue, Send
    <2>3. CASE ~(g_coverage # None /\ stimuli_buffer = 0 /\ state # "INIT")
        <3>1. UNCHANGED agentVars
            BY <1>4, <2>3 DEF GenerateNextValue
        <3>2. UNCHANGED logs
            BY <1>4, <3>1 DEF LogJudgement, agentVars
        <3>3. QED
            BY <2>1, <2>2, <3>1, <3>2, LogsKept DEF logs, agentVars, Over
    <2>4. CASE g_coverage # None /\ stimuli_buffer = 0 /\ state # "INIT"
        <3>1. JudgeMessage /\ pc' = "loop"
            BY <1>4, <2>4 DEF GenerateNextValue
        <3>2. total_msg_cnt # 0
            BY <2>2, <2>4, NothingAsked DEF IInv, Control
        <3>3. ~_check_converge /\ Answered /\ ~Doomed
            BY <2>2, <3>2 DEF IInv, Control, Doomed
        <3>4. QED
            BY <1>4, <2>1, <2>2, <2>4, <3>1, <3>3, JudgementIsLogged
    <2>5. QED
        BY <2>3, <2>4
<1>5. CASE SendStimulus /\ UNCHANGED logs
    <2>1. IInv'
        BY <1>5, NextIInv DEF Next
    <2>2. QED
        BY <1>5, <2>1, LogsKept DEF SendStimulus, Send, logs, agentVars, Over
<1>6. CASE ReturnPlaceholder /\ UNCHANGED logs
    <2>1. IInv'
        BY <1>6, NextIInv DEF Next
    <2>2. QED
        BY <1>6, <2>1, LogsKept DEF ReturnPlaceholder, Send, logs, agentVars, Over
<1>7. CASE PreparePrompt /\ LogJudgement
    <2>1. IInv'
        BY <1>7, NextIInv DEF Next
    <2>2. /\ pc = "loop" /\ pc' = "prompt" /\ gain' = gain /\ stop' = stop
          /\ g_coverage # None /\ ~_check_converge
        BY <1>7 DEF PreparePrompt, LimitReached, IInv, Coverage
    <2>3. CASE f_ = 1
        <3>1. JudgeMessage /\ Open = 1
            BY <1>7, <2>2, <2>3 DEF PreparePrompt, IInv, Control
        <3>2. Answered
            BY <2>2, <3>1, OpenIsAnswered
        <3>3. QED
            BY <1>7, <2>1, <2>2, <3>1, <3>2, JudgementIsLogged
    <2>4. CASE f_ # 1
        <3>1. UNCHANGED agentVars
            BY <1>7, <2>4 DEF PreparePrompt
        <3>2. UNCHANGED logs
            BY <1>7, <3>1 DEF LogJudgement, agentVars
        <3>3. QED
            BY <2>1, <2>2, <3>1, <3>2, LogsKept DEF logs, agentVars, Over
    <2>5. QED
        BY <2>3, <2>4
<1>8. ASSUME NEW stimuli \in 0..MaxStimuli, NEW tokens \in 1..MaxTokens,
             AnswerLogged(stimuli, tokens)
      PROVE  IInv' /\ LogsInv'
    <2>1. IInv'
        BY <1>8, NextIInv DEF Next, AnswerLogged
    <2>2. QED
        BY <1>8, <2>1, AnswerIsLogged
<1>9. CASE AnswerFails /\ UNCHANGED logs
    <2>1. IInv'
        BY <1>9, NextIInv DEF Next
    <2>2. QED
        BY <1>9, <2>1, LogsKept DEF AnswerFails, logs, agentVars, Over
<1>10. ASSUME NEW hits \in 0..(BinCount - dut_hits), Simulate(hits), UNCHANGED logs
       PROVE  IInv' /\ LogsInv'
    <2>1. IInv'
        BY <1>10, NextIInv DEF Next
    <2>2. QED
        BY <1>10, <2>1, LogsKept DEF Simulate, logs, agentVars, Over
<1>11. CASE Finish /\ UNCHANGED logs
    <2>1. IInv'
        BY <1>11, NextIInv DEF Next
    <2>2. QED
        BY <1>11, <2>1, LogsKept DEF Finish, logs, agentVars, Over
<1>12. CASE Stopped /\ UNCHANGED logs
    <2>1. IInv'
        BY <1>12, NextIInv DEF Next
    <2>2. QED
        BY <1>12, <2>1, LogsKept DEF Stopped, vars, logs, agentVars, Over
<1>13. QED
    BY <1>1, <1>2, <1>3, <1>4, <1>5, <1>6, <1>7, <1>8, <1>9, <1>10, <1>11, <1>12 DEF NextLogged

THEOREM LoggedInvariance == SpecLogged => [](IInv /\ LogsInv)
BY InitLogsInv, NextLogsInv, PTL DEF SpecLogged

-----------------------------------------------------------------------------
(* What the logs say.                                                      *)

\* The text file numbers every prompt and answer as the agent did, whatever the
\* order in which loggers and agent count dialogs and messages.
THEOREM NumberedAsAsked == SpecLogged => []TxtNumbering
<1>1. LogsInv => TxtNumbering
    BY DEF LogsInv, TxtInv, Filed, SameNumber, Message, TxtNumbering
<1>2. QED
    BY <1>1, LoggedInvariance, PTL

\* A trial that is over has left every message in the text file, once and in
\* order, and the reason it stopped for at its end.
THEOREM EveryMessageFiled == SpecLogged => []TxtComplete
<1>1. LogsInv => TxtComplete
    <2> SUFFICES ASSUME LogsInv, Over
                 PROVE  TxtComplete
        BY DEF TxtComplete
    <2>1. Unsaved = 0 /\ txt.total = total_msg_cnt - Unsaved
        BY DEF LogsInv, TxtInv, Unsaved
    <2>2. Filed(txt.file, txt.total) /\ StopFiled(txt.file) /\ Asked = Prompts(txt.file)
        BY DEF LogsInv, TxtInv, Asked, Prompts
    <2>3. PICK total \in Nat : total = txt.total
        BY DEF LogsInv, TxtInv, Txt
    <2>4. CsvInv
        BY DEF LogsInv
    <2>5. PICK c \in Nat : c = total_msg_cnt
        <3>1. Len(csv.log) \in Nat
            <4>1. PICK x \in Csv : x = csv
                BY <2>4 DEF CsvInv
            <4>2. x.log \in Seq(Row)
                BY DEF Csv
            <4>3. QED
                BY <4>1, <4>2
        <3>2. QED
            BY <2>4, <3>1 DEF CsvInv
    <2>6. c = total
        BY <2>1, <2>3, <2>5
    <2>7. QED
        BY <2>2, <2>3, <2>5, <2>6 DEF Filed, StopFiled, TxtComplete
<1>2. QED
    BY <1>1, LoggedInvariance, PTL

\* The rows of the CSV file are the messages judged, each with the coverage it
\* was judged by, and "reset" marks exactly the last one of a dialog.
THEOREM RowsWrittenOnce == SpecLogged => []CsvRows
<1>1. LogsInv => CsvRows
    BY DEF LogsInv, CsvInv, RowsOf, Leads, CsvRows
<1>2. QED
    BY <1>1, LoggedInvariance, PTL

-----------------------------------------------------------------------------
(* What LLMAgentProofs shows of the trial holds of the one with its logs,  *)
(* which has one more way to end.                                          *)

\* A step with its logs is a step of the trial, or the crash in the logger.
LEMMA LoggedStep == [NextLogged]_logVars => [Next]_vars \/ StopWithoutRow
BY DEF NextLogged, Next, EndSimulationLogged, AnswerLogged, logVars, vars

\* With the logs, and the crash in them, messages are still judged once, before
\* the next is asked, and ranked by their own hits; a placeholder is still the
\* last stimulus, and a converged run asks one message more at most.
THEOREM LoggedTrial ==
    SpecLogged => [](/\ TypeOK /\ JudgedOnce /\ PairedUpdate /\ HitAttribution
                     /\ PlaceholderEnds /\ ConvergenceStops)
<1>1. IInv => TypeOK /\ JudgedOnce
    BY DEF IInv
<1>2. QED
    BY <1>1, Consequences, LoggedInvariance, PTL

\* The crash in the logger is a stop of the ledger: with the logs too every
\* trial is one MessageLedger allows.
THEOREM LoggedLedger == SpecLogged => Ledger!Init /\ [][Ledger!Next]_(Ledger!vars)
<1>1. InitLogs => Ledger!Init
    BY LedgerInit DEF InitLogs
<1>2. IInv /\ [NextLogged]_logVars => [Ledger!Next]_(Ledger!vars)
    <2> SUFFICES ASSUME IInv, [NextLogged]_logVars
                 PROVE  [Ledger!Next]_(Ledger!vars)
        OBVIOUS
    <2>1. CASE [Next]_vars
        BY <2>1, LedgerStep
    <2>2. CASE StopWithoutRow
        <3>1. /\ pc = "check" /\ pc' = "crashed" /\ state # "DONE"
              /\ UNCHANGED <<total_msg_cnt, all_history_cov_rate>>
            BY <2>2 DEF StopWithoutRow, IInv, Control
        <3>2. Ledger!Stop
            BY <3>1 DEF Ledger!Stop
        <3>3. QED
            BY <3>2 DEF Ledger!Next
    <2>3. QED
        BY <2>1, <2>2, LoggedStep
<1>3. QED
    BY <1>1, <1>2, LoggedInvariance, PTL DEF SpecLogged

\* Nothing is logged while the client stays where it is.
LEMMA LogsStay == NextLogged /\ pc' = pc => UNCHANGED logVars
BY DEF NextLogged, EndSimulationLogged, EndSimulation, StopWithoutRow, GenerateNextValue,
       SendStimulus, ReturnPlaceholder, Send, PreparePrompt, AnswerLogged, Answer,
       AnswerFails, Simulate, Finish, Stopped, logVars

\* With the logs too a trial runs down, the crash in the logger at its end.
THEOREM LoggedRunsDown == SpecLogged => [][Progress]_logVars
<1>1. InitLogs => Unspent
    BY InitUnspent DEF InitLogs
<1>2. IInv /\ Unspent /\ [NextLogged]_logVars => Unspent' /\ [Progress]_logVars
    <2> SUFFICES ASSUME IInv, Unspent, NextLogged
                 PROVE  Unspent' /\ (Progress \/ UNCHANGED logVars)
        BY DEF logVars, vars, agentVars, Unspent, no_budget
    <2>1. CASE [Next]_vars
        <3>1. Unspent' /\ (Progress \/ UNCHANGED vars)
            BY <2>1, UnspentKept, NextProgress
        <3>2. UNCHANGED vars => UNCHANGED logVars
            BY LogsStay DEF vars
        <3>3. QED
            BY <3>1, <3>2
    <2>2. CASE StopWithoutRow
        <3>1. /\ pc = "check" /\ pc' = "crashed"
              /\ UNCHANGED <<total_msg_cnt, stimuli_buffer, token_budget>>
            BY <2>2 DEF StopWithoutRow
        <3>2. Unspent'
            BY <3>1 DEF Unspent, no_budget
        <3>3. Distance > 0 /\ Distance' = 0
            BY <3>1 DEF Distance, LastSent
        <3>4. QED
            BY <3>1, <3>2, <3>3 DEF Progress
    <2>3. QED
        BY <2>1, <2>2, LoggedStep
<1>3. QED
    BY <1>1, <1>2, LoggedInvariance, PTL DEF SpecLogged

\* For the experiment the crash in the logger is the end of the trial: with the
\* logs too a trial with a budget is one TrialAgent allows.
THEOREM LoggedAgent ==
    TokenBudget # None /\ SpecLogged => Agent!Init /\ [][Agent!Next]_(Agent!vars)
<1>1. /\ InitLogs => Unspent
      /\ TokenBudget # None /\ InitLogs => HasBudget /\ Agent!Init
    BY InitUnspent, InitHasBudget, AgentInit DEF InitLogs
<1>2. IInv /\ Unspent /\ HasBudget /\ [NextLogged]_logVars =>
            Unspent' /\ HasBudget' /\ [Agent!Next]_(Agent!vars)
    <2> SUFFICES ASSUME IInv, Unspent, HasBudget, [NextLogged]_logVars
                 PROVE  Unspent' /\ HasBudget' /\ [Agent!Next]_(Agent!vars)
        OBVIOUS
    <2>1. CASE [Next]_vars
        BY <2>1, UnspentKept, HasBudgetKept, AgentStep
    <2>2. CASE StopWithoutRow
        <3>1. /\ pc = "check" /\ pc' = "crashed" /\ StopReason # "none"
              /\ UNCHANGED <<total_msg_cnt, token_budget>>
            BY <2>2 DEF StopWithoutRow
        <3>2. Place = "check" /\ Place' = "over" /\ g_coverage # None
            BY <3>1 DEF Place, StopReason
        <3>3. QED
            BY <3>1, <3>2 DEF Unspent, no_budget, HasBudget, Agent!End, Agent!Next
    <2>3. QED
        BY <2>1, <2>2, LoggedStep
<1>3. QED
    BY <1>1, <1>2, LoggedInvariance, PTL DEF SpecLogged
=============================================================================
