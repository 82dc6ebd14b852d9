-------------------------- MODULE ConversationProofs --------------------------
(***************************************************************************)
(* Theorems about Conversation: for every trial LLMAgentProofs is about,   *)
(* and for every setting of the wrappers, what is sent to the model.       *)
(***************************************************************************)
EXTENDS Conversation, LLMAgentProofs, FiniteSetTheorems

-----------------------------------------------------------------------------
(* The inductive invariant.                                                *)

Msg == [role : {"system", "user", "assistant"}, id : Nat]

\* The conversation after the system prompt.
Body == SubSeq(messages, Len(Opening) + 1, Len(messages))

Turns(b) == \A i \in 1..Len(b) : b[i].role = Turn(i)

Before(m, n) ==
    m.id < n.id \/ (m.id = n.id /\ m.role = "user" /\ n.role = "assistant")

\* From the k-th message on, in the order of the run, and none of them twice.
Rises(b, k) == \A i, j \in k..Len(b) : i < j => b[i].id <= b[j].id

Climbs(b, k) == \A i, j \in k..Len(b) : i < j => Before(b[i], b[j])

Avoids(b, k, id) == \A i \in k..Len(b) : b[i].id # id

UpTo(b, last) == \A i \in 1..Len(b) : b[i].id <= last

Since(b, first) == \A i \in 1..Len(b) : b[i].id >= first

\* The first question and its answer are those with this id.
Opens(b, id) == \A i \in 1..Len(b) : i <= 2 => b[i].id = id

\* A conversation STABLE compresses is not empty.
Begun(b, mode) == mode = "STABLE" => b # << >>

\* Settings under which nothing is offered twice.
Careful(mode, choice) == mode = "STABLE" /\ choice # "best_2_recent_1"

\* A conversation that alternates, is in order and is about the dialog that began
\* with message `first`.
Orderly(b, last, first, mode, choice) ==
    /\ Turns(b)
    /\ UpTo(b, last)
    /\ Rises(b, 3)
    /\ Careful(mode, choice) => Opens(b, first) /\ Climbs(b, 3) /\ Avoids(b, 3, first)
    /\ mode = "CLEAR" => Since(b, first)

\* What the compression keeps after the opening: the same from its first message.
Kept(k, last, first, mode, choice) ==
    /\ Turns(k)
    /\ Len(k) % 2 = 0
    /\ UpTo(k, last)
    /\ Rises(k, 1)
    /\ Careful(mode, choice) => Climbs(k, 1) /\ Avoids(k, 1, first)
    /\ mode = "CLEAR" => Since(k, first)

\* Every question has its answer, and the first of them is that of the dialog.
Complete(b, msgs, first, mode) ==
    /\ Len(b) % 2 = 0
    /\ mode # "KEEP" =>
        IF msgs = 0 THEN b = << >> ELSE b # << >> /\ SubSeq(b, 1, 2) = Pair(first)

BodyInv ==
    /\ messages = Opening \o Body
    /\ pc # "crashed" =>
        /\ Orderly(Body, total_msg_cnt, FirstOfDialog, best_iter_buffer_resetting, algo)
        /\ Complete(Body, msg_index, FirstOfDialog, best_iter_buffer_resetting)
    /\ pc = "crashed" =>
        Orderly(Body, total_msg_cnt + 1, FirstOfDialog, best_iter_buffer_resetting, algo)

\* recent_msgs ends with the last message asked, of whichever dialog.
RecentInv ==
    /\ recent_msgs \in Seq(Msg)
    /\ pc # "crashed" /\ recent_msgs # << >> =>
            /\ Len(recent_msgs) >= 2
            /\ LastN(recent_msgs, 2) = Pair(total_msg_cnt)

Ids(best) == {e.id : e \in Entries(best)}

\* What the buffer offers is older than the next message, never the opening of
\* this dialog, and under CLEAR of this dialog.
BestInv ==
    \A id \in Ids(best_messages) :
        /\ id <= total_msg_cnt
        /\ id # FirstOfDialog
        /\ best_iter_buffer_resetting = "CLEAR" => id >= FirstOfDialog

ConvInv ==
    /\ algo \in {"best_3", "best_2_recent_1", "recent_3"}
    /\ system_prompt \in BOOLEAN
    /\ messages \in Seq(Msg)
    /\ BoundedConversation
    /\ ~OpeningTwice => BodyInv
    /\ RecentInv
    /\ BestInv

-----------------------------------------------------------------------------
(* Sequences of messages.                                                  *)

\* A part of a sequence.
LEMMA Part ==
    ASSUME NEW S, NEW s \in Seq(S), NEW i \in Nat, NEW n \in Nat, i + n <= Len(s)
    PROVE  /\ SubSeq(s, i + 1, i + n) \in Seq(S)
           /\ Len(SubSeq(s, i + 1, i + n)) = n
           /\ \A j \in 1..n : SubSeq(s, i + 1, i + n)[j] = s[i + j]
OBVIOUS

\* One sequence after another.
LEMMA Joined ==
    ASSUME NEW S, NEW s \in Seq(S), NEW t \in Seq(S)
    PROVE  /\ s \o t \in Seq(S)
           /\ Len(s \o t) = Len(s) + Len(t)
           /\ \A i \in 1..Len(s) : (s \o t)[i] = s[i]
           /\ \A i \in 1..Len(t) : (s \o t)[Len(s) + i] = t[i]
OBVIOUS

\* One after another, in whichever order they are put together.
LEMMA Associative ==
    ASSUME NEW S, NEW s \in Seq(S), NEW t \in Seq(S), NEW u \in Seq(S)
    PROVE  (s \o t) \o u = s \o (t \o u)
OBVIOUS

\* Sequences are equal by their elements.
LEMMA SameElements ==
    ASSUME NEW S, NEW s \in Seq(S), NEW t \in Seq(S), Len(s) = Len(t),
           \A i \in 1..Len(s) : s[i] = t[i]
    PROVE  s = t
OBVIOUS

\* The first messages of a sequence.
LEMMA FirstFew ==
    ASSUME NEW b \in Seq(Msg), NEW n \in Nat
    PROVE  /\ FirstN(b, n) \in Seq(Msg)
           /\ Len(FirstN(b, n)) = IF n < Len(b) THEN n ELSE Len(b)
           /\ \A i \in 1..Len(FirstN(b, n)) : FirstN(b, n)[i] = b[i]
<1>1. PICK l \in Nat : l = Len(b)
    OBVIOUS
<1>2. PICK k \in Nat : k = (IF n < l THEN n ELSE l) /\ k <= l
    OBVIOUS
<1>3. FirstN(b, n) = SubSeq(b, 1, k)
    BY <1>1, <1>2 DEF FirstN
<1>4. 0 + 1 = 1 /\ 0 + k = k /\ \A j \in 1..k : 0 + j = j
    OBVIOUS
<1>5. /\ SubSeq(b, 1, k) \in Seq(Msg) /\ Len(SubSeq(b, 1, k)) = k
      /\ \A j \in 1..k : SubSeq(b, 1, k)[j] = b[j]
    BY <1>1, <1>2, <1>4, Part
<1>6. QED
    BY <1>1, <1>2, <1>3, <1>5

\* What follows a prefix.
LEMMA AfterOpening ==
    ASSUME NEW o \in Seq(Msg), NEW b \in Seq(Msg)
    PROVE  /\ o \o b \in Seq(Msg)
           /\ Len(o \o b) = Len(o) + Len(b)
           /\ SubSeq(o \o b, Len(o) + 1, Len(o \o b)) = b
<1>1. o \o b \in Seq(Msg) /\ Len(o \o b) = Len(o) + Len(b)
    OBVIOUS
<1>2. /\ SubSeq(o \o b, Len(o) + 1, Len(o \o b)) \in Seq(Msg)
      /\ Len(SubSeq(o \o b, Len(o) + 1, Len(o \o b))) = Len(b)
    BY <1>1
<1>3. \A i \in 1..Len(b) : SubSeq(o \o b, Len(o) + 1, Len(o \o b))[i] = b[i]
    BY <1>1
<1>4. QED
    BY <1>1, <1>2, <1>3

\* The opening of a conversation is its prompt and what opens the rest.
LEMMA FirstPastOpening ==
    ASSUME NEW o \in Seq(Msg), NEW b \in Seq(Msg)
    PROVE  FirstN(o \o b, Len(o) + 2) = o \o FirstN(b, 2)
<1>1. PICK p \in Nat, l \in Nat : p = Len(o) /\ l = Len(b)
    OBVIOUS
<1>2. PICK c \in Seq(Msg) :
        /\ c = o \o b /\ Len(c) = p + l
        /\ \A i \in 1..p : c[i] = o[i]
        /\ \A i \in 1..l : c[p + i] = b[i]
    <2>1. /\ o \o b \in Seq(Msg)
          /\ Len(o \o b) = Len(o) + Len(b)
          /\ \A i \in 1..Len(o) : (o \o b)[i] = o[i]
          /\ \A i \in 1..Len(b) : (o \o b)[Len(o) + i] = b[i]
        OBVIOUS
    <2>2. QED
        BY <1>1, <2>1
<1>3. PICK h \in Seq(Msg), n \in Nat :
        /\ h = FirstN(b, 2) /\ n = Len(h) /\ n = (IF 2 < l THEN 2 ELSE l)
        /\ \A i \in 1..n : h[i] = b[i]
    BY <1>1, FirstFew
<1>4. PICK x \in Seq(Msg) :
        /\ x = FirstN(c, p + 2)
        /\ Len(x) = p + n
        /\ \A i \in 1..(p + n) : x[i] = c[i]
    <2>1. /\ FirstN(c, p + 2) \in Seq(Msg)
          /\ Len(FirstN(c, p + 2)) = IF p + 2 < Len(c) THEN p + 2 ELSE Len(c)
          /\ \A i \in 1..Len(FirstN(c, p + 2)) : FirstN(c, p + 2)[i] = c[i]
        <3>1. p + 2 \in Nat
            OBVIOUS
        <3>2. QED
            BY <3>1, FirstFew, Zenon
    <2>2. p + n = (IF p + 2 < p + l THEN p + 2 ELSE p + l)
        <3>1. n = (IF 2 < l THEN 2 ELSE l)
            BY <1>3
        <3>2. QED
            BY <3>1
    <2>3. Len(FirstN(c, p + 2)) = p + n
        BY <1>2, <2>1, <2>2
    <2>4. QED
        BY <2>1, <2>3
<1>5. PICK y \in Seq(Msg) :
        /\ y = o \o h /\ Len(y) = p + n
        /\ \A i \in 1..p : y[i] = o[i]
        /\ \A i \in 1..n : y[p + i] = h[i]
    <2>1. /\ o \o h \in Seq(Msg)
          /\ Len(o \o h) = Len(o) + Len(h)
          /\ \A i \in 1..Len(o) : (o \o h)[i] = o[i]
          /\ \A i \in 1..Len(h) : (o \o h)[Len(o) + i] = h[i]
        OBVIOUS
    <2>2. QED
        BY <1>1, <1>3, <2>1
<1>6. ASSUME NEW i \in 1..(p + n)
      PROVE  x[i] = y[i]
    <2>1. CASE i <= p
        BY <1>2, <1>4, <1>5, <2>1
    <2>2. CASE i > p
        <3>1. PICK j \in 1..n : i = p + j
            <4>1. i - p \in 1..n /\ i = p + (i - p)
                BY <2>2
            <4>2. QED
                BY <4>1
        <3>2. n <= l
            BY <1>3
        <3>3. QED
            BY <1>2, <1>3, <1>4, <1>5, <3>1, <3>2
    <2>3. QED
        BY <2>1, <2>2
<1>7. x = y
    BY <1>4, <1>5, <1>6, SameElements
<1>8. QED
    BY <1>1, <1>2, <1>3, <1>4, <1>5, <1>7

\* The messages of a sequence.
LEMMA MessagesOf ==
    ASSUME NEW b \in Seq(Msg)
    PROVE  /\ Len(b) \in Nat
           /\ \A i \in 1..Len(b) : b[i].id \in Nat
<1>1. Len(b) \in Nat /\ \A i \in 1..Len(b) : b[i] \in Msg
    OBVIOUS
<1>2. \A m \in Msg : m.id \in Nat
    BY DEF Msg
<1>3. QED
    BY <1>1, <1>2

\* A question and its answer.
LEMMA PairTurns ==
    ASSUME NEW id \in Nat
    PROVE  /\ Pair(id) \in Seq(Msg)
           /\ Len(Pair(id)) = 2
           /\ Pair(id)[1] = Message("user", id)
           /\ Pair(id)[2] = Message("assistant", id)
           /\ Message("user", id) \in Msg
           /\ Message("assistant", id) \in Msg
BY DEF Pair, Msg, Message

\* Parity of an index, and whose turn it is.
LEMMA TurnShift ==
    ASSUME NEW i \in Nat, NEW n \in Nat, n % 2 = 0
    PROVE  /\ Turn(n + i) = Turn(i)
           /\ Turn(n + 1) = "user" /\ Turn(n + 2) = "assistant"
BY DEF Turn

LEMMA EvenSum ==
    ASSUME NEW n \in Nat, NEW m \in Nat, n % 2 = 0, m % 2 = 0
    PROVE  (n + m) % 2 = 0
OBVIOUS

\* A message asked now, answered or not, comes at the end of all.
LEMMA AskedLast ==
    ASSUME NEW b \in Seq(Msg), NEW c \in Seq(Msg), NEW last \in Nat, NEW first \in Nat,
           NEW mode, NEW choice,
           Orderly(b, last, first, mode, choice), Len(b) % 2 = 0,
           Len(c) \in {Len(b) + 1, Len(b) + 2},
           \A i \in 1..Len(b) : c[i] = b[i],
           \A i \in (Len(b) + 1)..Len(c) : c[i] = Message(Turn(i), last + 1),
           first <= last + 1,
           Careful(mode, choice) => (b = << >> <=> first = last + 1)
    PROVE  Orderly(c, last + 1, first, mode, choice)
<1>1. PICK n \in Nat, m \in Nat : n = Len(b) /\ m = Len(c)
    BY MessagesOf
<1>2. /\ n % 2 = 0 /\ m \in {n + 1, n + 2}
      /\ \A i \in 1..n : c[i] = b[i] /\ b[i].id \in Nat
      /\ \A i \in (n + 1)..m : c[i].role = Turn(i) /\ c[i].id = last + 1
    <2>1. \A i \in 1..n : b[i].id \in Nat
        BY <1>1, MessagesOf
    <2>2. \A i \in (n + 1)..m : c[i] = Message(Turn(i), last + 1)
        <3> SUFFICES ASSUME NEW i \in (n + 1)..m PROVE c[i] = Message(Turn(i), last + 1)
            OBVIOUS
        <3>1. i \in (Len(b) + 1)..Len(c)
            BY <1>1
        <3>2. QED
            BY <3>1
    <2>3. \A i \in (n + 1)..m : c[i].role = Turn(i) /\ c[i].id = last + 1
        <3> SUFFICES ASSUME NEW i \in (n + 1)..m
                     PROVE  c[i].role = Turn(i) /\ c[i].id = last + 1
            OBVIOUS
        <3>1. c[i] = Message(Turn(i), last + 1)
            BY <2>2
        <3>2. QED
            BY <3>1 DEF Message
    <2>4. QED
        BY <1>1, <2>1, <2>3
<1>3. Turns(c)
    <2>1. \A i \in 1..n : b[i].role = Turn(i)
        BY <1>1 DEF Orderly, Turns
    <2>2. QED
        BY <1>1, <1>2, <2>1 DEF Turns
<1>4. \A i \in 1..n : b[i].id <= last
    BY <1>1 DEF Orderly, UpTo
<1>5. UpTo(c, last + 1)
    BY <1>1, <1>2, <1>4 DEF UpTo
<1>6. Rises(c, 3)
    <2>1. \A i, j \in 3..n : i < j => b[i].id <= b[j].id
        BY <1>1 DEF Orderly, Rises
    <2>2. \A i, j \in 3..m : i < j => c[i].id <= c[j].id
        <3> SUFFICES ASSUME NEW i \in 3..m, NEW j \in 3..m, i < j
                     PROVE  c[i].id <= c[j].id
            OBVIOUS
        <3>1. CASE j <= n
            BY <1>2, <2>1, <3>1
        <3>2. CASE j > n /\ i <= n
            <4>1. c[j].id = last + 1 /\ c[i].id <= last /\ c[i].id \in Nat
                BY <1>2, <1>4, <3>2
            <4>2. QED
                BY <4>1
        <3>3. CASE i > n
            BY <1>2, <3>3
        <3>4. QED
            BY <3>1, <3>2, <3>3
    <2>3. QED
        BY <1>1, <2>2 DEF Rises
<1>7. ASSUME Careful(mode, choice)
      PROVE  Opens(c, first) /\ Climbs(c, 3) /\ Avoids(c, 3, first)
    <2>1. /\ \A i, j \in 3..n : i < j => Before(b[i], b[j])
          /\ \A i \in 3..n : b[i].id # first
          /\ \A i \in 1..n : i <= 2 => b[i].id = first
        BY <1>1, <1>7 DEF Orderly, Opens, Climbs, Avoids
    <2>2. \A i, j \in 3..m : i < j => Before(c[i], c[j])
        <3> SUFFICES ASSUME NEW i \in 3..m, NEW j \in 3..m, i < j
                     PROVE  Before(c[i], c[j])
            OBVIOUS
        <3>1. CASE j <= n
            BY <1>2, <2>1, <3>1
        <3>2. CASE j > n /\ i <= n
            <4>1. c[j].id = last + 1 /\ c[i].id <= last /\ c[i].id \in Nat
                BY <1>2, <1>4, <3>2
            <4>2. QED
                BY <4>1 DEF Before
        <3>3. CASE i > n
            <4>1. i = n + 1 /\ j = n + 2
                <5>1. m = n + 1 \/ m = n + 2
                    BY <1>2
                <5>2. QED
                    BY <3>3, <5>1
            <4>2. /\ c[i].id = last + 1 /\ c[j].id = last + 1
                  /\ c[i].role = Turn(n + 1) /\ c[j].role = Turn(n + 2)
                BY <1>2, <3>3, <4>1
            <4> Turn(n + 1) = "user" /\ Turn(n + 2) = "assistant"
                BY <1>2, TurnShift
            <4>3. QED
                BY <4>2 DEF Before
        <3>4. QED
            BY <3>1, <3>2, <3>3
    <2>3. \A i \in 3..m : c[i].id # first
        <3>1. CASE b = << >>
            BY <1>1, <1>2, <3>1
        <3>2. CASE first # last + 1
            BY <1>2, <2>1, <3>2
        <3>3. QED
            BY <1>7, <3>1, <3>2
    <2>4. \A i \in 1..m : i <= 2 => c[i].id = first
        <3>1. CASE b = << >>
            <4>1. n = 0 /\ first = last + 1
                BY <1>1, <1>7, <3>1
            <4>2. QED
                BY <1>2, <4>1
        <3>2. CASE b # << >>
            <4>1. n # 0
                BY <1>1, <3>2
            <4>2. n >= 2
                <5>1. ASSUME n = 1 PROVE FALSE
                    BY <1>2, <5>1
                <5>2. QED
                    BY <4>1, <5>1
            <4>3. QED
                BY <1>2, <2>1, <4>2
        <3>3. QED
            BY <3>1, <3>2
    <2>5. QED
        BY <1>1, <2>2, <2>3, <2>4 DEF Opens, Climbs, Avoids
<1>8. mode = "CLEAR" => Since(c, first)
    <2>1. mode = "CLEAR" => \A i \in 1..n : b[i].id >= first
        BY <1>1 DEF Orderly, Since
    <2>2. mode = "CLEAR" => \A i \in 1..m : c[i].id >= first
        BY <1>2, <2>1
    <2>3. QED
        BY <1>1, <2>2 DEF Since
<1>9. QED
    BY <1>3, <1>5, <1>6, <1>7, <1>8 DEF Orderly

\* The opening and what is kept make an orderly conversation.
LEMMA OpeningAndKept ==
    ASSUME NEW b \in Seq(Msg), NEW k \in Seq(Msg), NEW last \in Nat, NEW first \in Nat,
           NEW mode, NEW choice,
           Orderly(b, last, first, mode, choice), Len(b) % 2 = 0,
           Kept(k, last, first, mode, choice), Begun(b, mode)
    PROVE  LET c == FirstN(b, 2) \o k
           IN  /\ c \in Seq(Msg)
               /\ Len(c) % 2 = 0
               /\ Len(c) <= 2 + Len(k)
               /\ Orderly(c, last, first, mode, choice)
               /\ b # << >> => c # << >> /\ SubSeq(c, 1, 2) = SubSeq(b, 1, 2)
<1> DEFINE h == FirstN(b, 2)
           c == h \o k
<1>1. PICK l \in Nat, m \in Nat : l = Len(b) /\ m = Len(k) /\ l % 2 = 0 /\ m % 2 = 0
    BY MessagesOf DEF Kept
<1>2. l # 1 /\ (l = 0 <=> b = << >>)
    BY <1>1
<1>3. PICK n \in {0, 2}, g \in Seq(Msg) :
        /\ g = h /\ n = Len(g) /\ n <= l /\ (n = 0 <=> l = 0)
        /\ \A i \in 1..n : g[i] = b[i]
    <2>1. PICK g \in Seq(Msg), n \in Nat :
            /\ g = h /\ n = Len(g) /\ n = (IF 2 < l THEN 2 ELSE l)
            /\ \A i \in 1..n : g[i] = b[i]
        BY <1>1, FirstFew
    <2>2. n \in {0, 2} /\ n <= l /\ (n = 0 <=> l = 0)
        <3>1. l = 0 \/ l >= 2
            BY <1>2
        <3>2. n = (IF 2 < l THEN 2 ELSE l)
            BY <2>1
        <3>3. QED
            BY <3>1, <3>2
    <2>3. QED
        BY <2>1, <2>2
<1>4. PICK d \in Seq(Msg) :
        /\ d = c
        /\ Len(d) = n + m
        /\ \A i \in 1..n : d[i] = b[i]
        /\ \A j \in 1..m : d[n + j] = k[j]
    <2>1. /\ g \o k \in Seq(Msg)
          /\ Len(g \o k) = n + m
          /\ \A i \in 1..n : (g \o k)[i] = g[i]
          /\ \A j \in 1..m : (g \o k)[n + j] = k[j]
        BY <1>1, <1>3
    <2>2. \A i \in 1..n : (g \o k)[i] = b[i]
        BY <1>3, <2>1
    <2>3. g \o k = c
        BY <1>3
    <2>4. QED
        BY <2>1, <2>2, <2>3
<1> HIDE DEF h, c
<1>5. (n + m) % 2 = 0 /\ n + m <= 2 + m
    BY <1>1
<1>6. \A i \in 1..(n + m) : i > n => \E j \in 1..m : i = n + j
    <2> SUFFICES ASSUME NEW i \in 1..(n + m), i > n PROVE \E j \in 1..m : i = n + j
        OBVIOUS
    <2>1. i - n \in 1..m /\ i = n + (i - n)
        OBVIOUS
    <2>2. QED
        BY <2>1
<1>7. Turns(d) /\ UpTo(d, last) /\ (mode = "CLEAR" => Since(d, first))
    <2>1. \A i \in 1..n : /\ b[i].role = Turn(i) /\ b[i].id <= last
                          /\ mode = "CLEAR" => b[i].id >= first
        BY <1>1, <1>3 DEF Orderly, Turns, UpTo, Since
    <2>2. \A j \in 1..m : /\ k[j].role = Turn(j) /\ k[j].id <= last
                          /\ mode = "CLEAR" => k[j].id >= first
        BY <1>1 DEF Kept, Turns, UpTo, Since
    <2>3. ASSUME NEW i \in 1..(n + m)
          PROVE  /\ d[i].role = Turn(i) /\ d[i].id <= last
                 /\ mode = "CLEAR" => d[i].id >= first
        <3>1. CASE i <= n
            <4>1. i \in 1..n
                BY <3>1
            <4>2. d[i] = b[i]
                BY <1>4, <4>1
            <4>3. QED
                BY <2>1, <4>1, <4>2, Zenon
        <3>2. CASE i > n
            <4>1. PICK j \in 1..m : i = n + j
                BY <1>6, <3>2, Zenon
            <4>2. n \in Nat /\ n % 2 = 0 /\ j \in Nat
                <5>1. CASE n = 0
                    BY <5>1
                <5>2. CASE n = 2
                    BY <5>2
                <5>3. QED
                    BY <5>1, <5>2
            <4> Turn(n + j) = Turn(j)
                BY <4>2, TurnShift, Zenon
            <4>3. QED
                BY <1>4, <2>2, <4>1
        <3>3. QED
            BY <3>1, <3>2
    <2>4. QED
        BY <1>4, <2>3 DEF Turns, UpTo, Since
<1>8. Rises(d, 3)
    <2> SUFFICES ASSUME NEW x \in 3..(n + m), NEW y \in 3..(n + m), x < y
                 PROVE  d[x].id <= d[y].id
        BY <1>4 DEF Rises
    <2>1. PICK i \in 1..m, j \in 1..m : x = n + i /\ y = n + j
        BY <1>6
    <2>2. k[i].id <= k[j].id
        BY <1>1, <2>1 DEF Kept, Rises
    <2>3. QED
        BY <1>4, <2>1, <2>2
<1>9. ASSUME Careful(mode, choice)
      PROVE  Opens(d, first) /\ Climbs(d, 3) /\ Avoids(d, 3, first)
    <2>1. ASSUME NEW x \in 3..(n + m), NEW y \in 3..(n + m), x < y
          PROVE  Before(d[x], d[y])
        <3>1. PICK i \in 1..m, j \in 1..m : x = n + i /\ y = n + j
            BY <1>6
        <3>2. Before(k[i], k[j])
            BY <1>1, <1>9, <2>1, <3>1 DEF Kept, Climbs
        <3>3. QED
            BY <1>4, <3>1, <3>2
    <2>2. ASSUME NEW x \in 3..(n + m)
          PROVE  d[x].id # first
        <3>1. PICK i \in 1..m : x = n + i
            BY <1>6
        <3>2. k[i].id # first
            BY <1>1, <1>9, <3>1 DEF Kept, Avoids
        <3>3. QED
            BY <1>4, <3>1, <3>2
    <2>3. ASSUME NEW x \in 1..(n + m), x <= 2
          PROVE  d[x].id = first
        <3>1. n = 2
            BY <1>2, <1>3, <1>9 DEF Careful, Begun
        <3>2. x \in 1..n /\ x \in 1..l
            BY <1>3, <2>3, <3>1
        <3>3. b[x].id = first
            BY <1>1, <1>9, <2>3, <3>2 DEF Orderly, Opens
        <3>4. QED
            BY <1>4, <3>2, <3>3
    <2>4. QED
        BY <1>4, <2>1, <2>2, <2>3 DEF Opens, Climbs, Avoids
<1>10. b # << >> => d # << >> /\ SubSeq(d, 1, 2) = SubSeq(b, 1, 2)
    <2> SUFFICES ASSUME b # << >> PROVE d # << >> /\ SubSeq(d, 1, 2) = SubSeq(b, 1, 2)
        OBVIOUS
    <2>1. n = 2 /\ l >= 2
        BY <1>2, <1>3
    <2>2. d[1] = b[1] /\ d[2] = b[2] /\ Len(d) >= 2
        BY <1>4, <2>1
    <2>3. QED
        BY <1>1, <1>4, <2>1, <2>2
<1>11. QED
    BY <1>1, <1>4, <1>5, <1>7, <1>8, <1>9, <1>10 DEF c, h, Orderly

-----------------------------------------------------------------------------
(* What a compression keeps.                                               *)

\* An entry's place, by the index of one of its two messages.
LEMMA Halves ==
    ASSUME NEW i \in Nat, NEW j \in Nat, i < j
    PROVE  \/ (i + 1) \div 2 < (j + 1) \div 2
           \/ (i + 1) \div 2 = (j + 1) \div 2 /\ i % 2 = 1 /\ j % 2 # 1
OBVIOUS

LEMMA HalfRange ==
    ASSUME NEW n \in Nat, NEW i \in 1..2 * n
    PROVE  (i + 1) \div 2 \in 1..n
OBVIOUS

\* Before is an order by ids.
LEMMA ClimbingRises ==
    ASSUME NEW b \in Seq(Msg), NEW k \in Nat \ {0}, Climbs(b, k)
    PROVE  Rises(b, k)
<1>1. PICK l \in Nat : l = Len(b) /\ \A i \in 1..l : b[i].id \in Nat
    BY MessagesOf
<1>2. ASSUME NEW i \in k..l, NEW j \in k..l, i < j
      PROVE  b[i].id <= b[j].id
    <2>1. Before(b[i], b[j])
        BY <1>1, <1>2 DEF Climbs
    <2>2. b[i].id \in Nat /\ b[j].id \in Nat
        BY <1>1
    <2>3. QED
        BY <2>1, <2>2 DEF Before
<1>3. QED
    BY <1>1, <1>2 DEF Rises

\* The pairs of ids that grow.
LEMMA PairsClimb ==
    ASSUME NEW s \in Seq(Nat), \A i, j \in 1..Len(s) : i < j => s[i] < s[j]
    PROVE  /\ Pairs(s) \in Seq(Msg)
           /\ Len(Pairs(s)) = 2 * Len(s)
           /\ Turns(Pairs(s))
           /\ Climbs(Pairs(s), 1)
           /\ \A i \in 1..Len(Pairs(s)) : \E j \in 1..Len(s) : Pairs(s)[i].id = s[j]
<1>1. PICK n \in Nat : n = Len(s)
    OBVIOUS
<1>2. \A i \in 1..2 * n : (i + 1) \div 2 \in 1..n
    BY HalfRange
<1>3. \A i \in 1..2 * n : Message(Turn(i), s[(i + 1) \div 2]) \in Msg
    <2> SUFFICES ASSUME NEW i \in 1..2 * n
                 PROVE  Message(Turn(i), s[(i + 1) \div 2]) \in Msg
        OBVIOUS
    <2>1. s[(i + 1) \div 2] \in Nat
        BY <1>1, <1>2
    <2>2. Turn(i) \in {"user", "assistant"}
        BY DEF Turn
    <2>3. QED
        BY <2>1, <2>2 DEF Message, Msg
<1>4. PICK p \in Seq(Msg) :
        /\ p = Pairs(s)
        /\ Len(p) = 2 * n
        /\ \A i \in 1..2 * n : p[i] = Message(Turn(i), s[(i + 1) \div 2])
    <2>1. Pairs(s) = [i \in 1..2 * n |-> Message(Turn(i), s[(i + 1) \div 2])]
        BY <1>1 DEF Pairs
    <2>2. 2 * n \in Nat
        OBVIOUS
    <2>3. QED
        BY <1>3, <2>1, <2>2
<1>5. \A i \in 1..2 * n : p[i].role = Turn(i) /\ p[i].id = s[(i + 1) \div 2]
    BY <1>4 DEF Message
<1>6. Turns(p)
    BY <1>4, <1>5 DEF Turns
<1>7. Climbs(p, 1)
    <2> SUFFICES ASSUME NEW i \in 1..2 * n, NEW j \in 1..2 * n, i < j
                 PROVE  Before(p[i], p[j])
        BY <1>4 DEF Climbs
    <2>1. PICK a \in 1..n, b \in 1..n : a = (i + 1) \div 2 /\ b = (j + 1) \div 2
        BY <1>2
    <2>2. p[i].id = s[a] /\ p[j].id = s[b] /\ p[i].role = Turn(i) /\ p[j].role = Turn(j)
        BY <1>5, <2>1
    <2>3. a < b \/ (a = b /\ i % 2 = 1 /\ j % 2 # 1)
        <3>1. i \in Nat /\ j \in Nat
            OBVIOUS
        <3>2. QED
            BY <2>1, <3>1, Halves
    <2>4. CASE a < b
        BY <1>1, <2>2, <2>4 DEF Before
    <2>5. CASE a = b /\ i % 2 = 1 /\ j % 2 # 1
        BY <2>2, <2>5 DEF Before, Turn
    <2>6. QED
        BY <2>3, <2>4, <2>5
<1>8. \A i \in 1..2 * n : \E j \in 1..n : p[i].id = s[j]
    BY <1>2, <1>5
<1>9. QED
    BY <1>1, <1>4, <1>6, <1>7, <1>8

\* The ids of the buffer, and how many they can be.
LEMMA IdsFinite ==
    ASSUME IInv
    PROVE  /\ Ids(best_messages) \subseteq 1..DialogBound
           /\ IsFiniteSet(Ids(best_messages))
<1>1. Ids(best_messages) \subseteq 1..DialogBound
    <2>1. Entries(best_messages) \subseteq [id : 1..DialogBound, hit : 0..BinCount]
        BY DEF IInv, TypeOK
    <2>2. \A e \in [id : 1..DialogBound, hit : 0..BinCount] : e.id \in 1..DialogBound
        OBVIOUS
    <2>3. QED
        BY <2>1, <2>2 DEF Ids
<1>2. IsFiniteSet(1..DialogBound)
    BY FS_Interval, LLMAgentAssumption
<1>3. QED
    BY <1>1, <1>2, FS_Subset

\* Any choice of the buffer's entries is kept in the order of the run.
LEMMA SelectionKept ==
    ASSUME IInv, BestInv, NEW n \in Nat, NEW k \in Selections(n)
    PROVE  /\ k \in Seq(Msg)
           /\ Len(k) <= 2 * n
           /\ \A mode, choice : mode = best_iter_buffer_resetting =>
                Kept(k, total_msg_cnt, FirstOfDialog, mode, choice)
<1> DEFINE ids == Ids(best_messages)
<1>1. ids \subseteq 1..DialogBound /\ IsFiniteSet(ids)
    BY IdsFinite
<1>2. PICK chosen \in SUBSET ids, c \in Nat :
        c = Cardinality(chosen) /\ c <= n /\ k \in Chronological(chosen)
    <2>1. PICK chosen \in (IF Cardinality(ids) < n THEN {ids} ELSE kSubset(n, ids)) :
            k \in Chronological(chosen)
        BY DEF Selections, Ids
    <2>2. CASE Cardinality(ids) < n
        <3>1. Cardinality(ids) \in Nat
            BY <1>1, FS_CardinalityType
        <3>2. chosen = ids
            BY <2>1, <2>2
        <3>3. QED
            BY <2>1, <2>2, <3>1, <3>2
    <2>3. CASE ~(Cardinality(ids) < n)
        <3>1. chosen \in SUBSET ids /\ Cardinality(chosen) = n
            BY <2>3 DEF kSubset
        <3>2. QED
            BY <2>1, <3>1
    <2>4. QED
        BY <2>2, <2>3
<1>3. PICK o \in [1..c -> chosen] :
        k = Pairs(o) /\ \A i, j \in DOMAIN o : i < j => o[i] < o[j]
    BY <1>2 DEF Chronological
<1>4. PICK s \in Seq(Nat) :
        /\ s = o /\ Len(s) = c
        /\ \A i, j \in 1..c : i < j => s[i] < s[j]
        /\ \A i \in 1..c : s[i] \in ids
    <2>1. o \in [1..c -> Nat]
        BY <1>1, <1>2, <1>3, LLMAgentAssumption
    <2>2. o \in Seq(Nat) /\ Len(o) = c
        BY <2>1
    <2>3. QED
        BY <1>2, <1>3, <2>2
<1>5. PICK p \in Seq(Msg) :
        /\ p = k /\ Len(p) = 2 * c /\ Turns(p) /\ Climbs(p, 1)
        /\ \A i \in 1..Len(p) : \E j \in 1..c : p[i].id = s[j]
    BY <1>3, <1>4, PairsClimb
<1>6. \A i \in 1..Len(p) : p[i].id \in ids
    BY <1>4, <1>5
<1>7. Rises(p, 1)
    BY <1>5, ClimbingRises
<1>8. (2 * c) % 2 = 0 /\ 2 * c <= 2 * n
    BY <1>2
<1>9. /\ UpTo(p, total_msg_cnt)
      /\ Avoids(p, 1, FirstOfDialog)
      /\ best_iter_buffer_resetting = "CLEAR" => Since(p, FirstOfDialog)
    BY <1>6 DEF BestInv, UpTo, Avoids, Since
<1>10. QED
    BY <1>5, <1>7, <1>8, <1>9 DEF Kept

\* Behind older messages, the last one of the run stays in order.
LEMMA LastKept ==
    ASSUME NEW k \in Seq(Msg), NEW last \in Nat, NEW first \in Nat, NEW mode,
           Kept(k, last, first, mode, "best_2_recent_1"), mode = "CLEAR" => first <= last
    PROVE  /\ k \o Pair(last) \in Seq(Msg)
           /\ Len(k \o Pair(last)) = Len(k) + 2
           /\ Kept(k \o Pair(last), last, first, mode, "best_2_recent_1")
<1>1. PICK n \in Nat : n = Len(k) /\ n % 2 = 0 /\ \A i \in 1..n : k[i].id \in Nat
    BY MessagesOf DEF Kept
<1>2. PICK d \in Seq(Msg) :
        /\ d = k \o Pair(last) /\ Len(d) = n + 2
        /\ \A i \in 1..n : d[i] = k[i]
        /\ d[n + 1] = Message("user", last) /\ d[n + 2] = Message("assistant", last)
    <2>1. PICK q \in Seq(Msg) : /\ q = Pair(last) /\ Len(q) = 2
                                /\ q[1] = Message("user", last)
                                /\ q[2] = Message("assistant", last)
        BY PairTurns
    <2>2. /\ k \o q \in Seq(Msg)
          /\ Len(k \o q) = Len(k) + Len(q)
          /\ \A i \in 1..Len(k) : (k \o q)[i] = k[i]
          /\ \A i \in 1..Len(q) : (k \o q)[Len(k) + i] = q[i]
        OBVIOUS
    <2>3. /\ (k \o q)[Len(k) + 1] = q[1] /\ (k \o q)[Len(k) + 2] = q[2]
          /\ Len(k \o q) = Len(k) + 2
        BY <2>1, <2>2
    <2>4. QED
        BY <1>1, <2>1, <2>2, <2>3
<1>3. /\ d[n + 1].id = last /\ d[n + 1].role = "user"
      /\ d[n + 2].id = last /\ d[n + 2].role = "assistant"
    BY <1>2 DEF Message
<1>4. Turn(n + 1) = "user" /\ Turn(n + 2) = "assistant"
    BY <1>1, TurnShift
<1>5. \A i \in 1..n : /\ k[i].role = Turn(i) /\ k[i].id <= last
                      /\ mode = "CLEAR" => k[i].id >= first
    BY <1>1 DEF Kept, Turns, UpTo, Since
<1>6. ASSUME NEW i \in 1..(n + 2)
      PROVE  /\ d[i].role = Turn(i) /\ d[i].id <= last /\ d[i].id \in Nat
             /\ mode = "CLEAR" => d[i].id >= first
    <2>1. CASE i <= n
        BY <1>1, <1>2, <1>5, <2>1
    <2>2. CASE i = n + 1
        BY <1>3, <1>4, <2>2
    <2>3. CASE i = n + 2
        BY <1>3, <1>4, <2>3
    <2>4. QED
        BY <2>1, <2>2, <2>3
<1>7. Rises(d, 1)
    <2> SUFFICES ASSUME NEW i \in 1..(n + 2), NEW j \in 1..(n + 2), i < j
                 PROVE  d[i].id <= d[j].id
        BY <1>2 DEF Rises
    <2>1. CASE j <= n
        <3>1. k[i].id <= k[j].id
            BY <1>1, <2>1 DEF Kept, Rises
        <3>2. QED
            BY <1>2, <2>1, <3>1
    <2>2. CASE j > n
        <3>1. d[j].id = last
            BY <1>3, <2>2
        <3>2. QED
            BY <1>6, <3>1
    <2>3. QED
        BY <2>1, <2>2
<1>8. (n + 2) % 2 = 0 /\ ~Careful(mode, "best_2_recent_1")
    BY <1>1 DEF Careful
<1>9. QED
    BY <1>1, <1>2, <1>6, <1>7, <1>8 DEF Kept, Turns, UpTo, Since

\* The end of a sequence.
LEMMA LastFew ==
    ASSUME NEW b \in Seq(Msg), NEW n \in Nat
    PROVE  /\ LastN(b, n) \in Seq(Msg)
           /\ Len(LastN(b, n)) = IF n < Len(b) THEN n ELSE Len(b)
           /\ n <= Len(b) => \A i \in 1..n : LastN(b, n)[i] = b[Len(b) - n + i]
<1>1. PICK l \in Nat : l = Len(b)
    OBVIOUS
<1>2. CASE n < l
    <2>1. PICK m \in Nat : m = l - n /\ m + n = l
        BY <1>2
    <2>2. LastN(b, n) = SubSeq(b, m + 1, m + n)
        BY <1>1, <1>2, <2>1 DEF LastN
    <2>3. /\ SubSeq(b, m + 1, m + n) \in Seq(Msg)
          /\ Len(SubSeq(b, m + 1, m + n)) = n
          /\ \A j \in 1..n : SubSeq(b, m + 1, m + n)[j] = b[m + j]
        BY <1>1, <2>1, Part
    <2>4. QED
        BY <1>1, <1>2, <2>1, <2>2, <2>3
<1>3. CASE ~(n < l)
    <2>1. LastN(b, n) = b
        BY <1>1, <1>3 DEF LastN
    <2>2. n <= l => n = l /\ \A i \in 1..n : l - n + i = i
        BY <1>3
    <2>3. QED
        BY <1>1, <1>3, <2>1, <2>2
<1>4. QED
    BY <1>2, <1>3

\* The end of a conversation that is long enough.
LEMMA RecentKept ==
    ASSUME NEW o \in Seq(Msg), NEW b \in Seq(Msg), NEW n \in Nat, n + n + 2 <= Len(b),
           NEW last, NEW first, NEW mode, NEW choice,
           Orderly(b, last, first, mode, choice), Len(b) % 2 = 0
    PROVE  LET k == LastN(o \o b, n + n)
           IN  /\ k \in Seq(Msg)
               /\ Len(k) = n + n
               /\ Kept(k, last, first, mode, choice)
<1>1. PICK p \in Nat, l \in Nat : p = Len(o) /\ l = Len(b) /\ l % 2 = 0 /\ n + n + 2 <= l
    OBVIOUS
<1>2. PICK c \in Seq(Msg) :
        /\ c = o \o b /\ Len(c) = p + l
        /\ \A i \in 1..l : c[p + i] = b[i]
    <2>1. /\ o \o b \in Seq(Msg)
          /\ Len(o \o b) = Len(o) + Len(b)
          /\ \A i \in 1..Len(b) : (o \o b)[Len(o) + i] = b[i]
        OBVIOUS
    <2>2. QED
        BY <1>1, <2>1
<1>3. PICK m \in Nat : m = l - (n + n) /\ m % 2 = 0 /\ 2 <= m
    <2>1. PICK q \in Nat : l = q + q
        <3>1. l \div 2 \in Nat /\ l = (l \div 2) + (l \div 2)
            BY <1>1
        <3>2. QED
            BY <3>1
    <2>2. q - n \in Nat /\ l - (n + n) = (q - n) + (q - n)
        BY <1>1, <2>1
    <2>3. PICK r \in Nat : l - (n + n) = r + r
        BY <2>2
    <2>4. (r + r) % 2 = 0 /\ 2 <= r + r
        BY <1>1, <2>3
    <2>5. QED
        BY <2>3, <2>4
<1>4. PICK k \in Seq(Msg) :
        /\ k = LastN(o \o b, n + n)
        /\ Len(k) = n + n
        /\ \A i \in 1..(n + n) : k[i] = b[m + i]
    <2>1. n + n \in Nat /\ n + n < p + l
        BY <1>1
    <2>2. /\ LastN(c, n + n) \in Seq(Msg)
          /\ Len(LastN(c, n + n)) = n + n
          /\ \A i \in 1..(n + n) : LastN(c, n + n)[i] = c[p + l - (n + n) + i]
        <3>1. PICK h \in Nat : h = n + n /\ h <= p + l
            BY <2>1
        <3>2. /\ LastN(c, h) \in Seq(Msg)
              /\ Len(LastN(c, h)) = IF h < Len(c) THEN h ELSE Len(c)
              /\ h <= Len(c) => \A i \in 1..h : LastN(c, h)[i] = c[Len(c) - h + i]
            BY LastFew
        <3>3. QED
            BY <1>2, <2>1, <3>1, <3>2
    <2>3. \A i \in 1..(n + n) : p + l - (n + n) + i = p + (m + i) /\ m + i \in 1..l
        BY <1>1, <1>3
    <2>4. \A i \in 1..(n + n) : LastN(c, n + n)[i] = b[m + i]
        BY <1>2, <2>2, <2>3
    <2>5. QED
        BY <1>2, <2>2, <2>4
<1>5. ASSUME NEW i \in 1..(n + n)
      PROVE  /\ m + i \in 3..l
             /\ Turn(m + i) = Turn(i)
    <2>1. m + i \in 3..l /\ i \in Nat
        BY <1>3
    <2>2. QED
        BY <1>3, <2>1, TurnShift
<1>6. /\ Turns(k) /\ UpTo(k, last)
      /\ mode = "CLEAR" => Since(k, first)
    BY <1>1, <1>4, <1>5 DEF Orderly, Turns, UpTo, Since
<1>7. Rises(k, 1)
    <2> SUFFICES ASSUME NEW i \in 1..(n + n), NEW j \in 1..(n + n), i < j
                 PROVE  k[i].id <= k[j].id
        BY <1>4 DEF Rises
    <2> m + i < m + j
        OBVIOUS
    <2>1. m + i \in 3..l /\ m + j \in 3..l
        BY <1>5, Zenon
    <2>2. b[m + i].id <= b[m + j].id
        BY <1>1, <2>1 DEF Orderly, Rises
    <2>3. QED
        BY <1>4, <2>2
<1>8. ASSUME Careful(mode, choice)
      PROVE  Climbs(k, 1) /\ Avoids(k, 1, first)
    <2>1. ASSUME NEW i \in 1..(n + n), NEW j \in 1..(n + n), i < j
          PROVE  Before(k[i], k[j])
        <3> m + i < m + j
            BY <2>1
        <3>1. m + i \in 3..l /\ m + j \in 3..l
            BY <1>5, <2>1, Zenon
        <3>2. Before(b[m + i], b[m + j])
            BY <1>1, <1>8, <3>1 DEF Orderly, Climbs
        <3>3. QED
            BY <1>4, <3>2
    <2>2. ASSUME NEW i \in 1..(n + n)
          PROVE  k[i].id # first
        <3>1. m + i \in 3..l
            BY <1>5
        <3>2. QED
            BY <1>1, <1>4, <1>8, <3>1 DEF Orderly, Avoids
    <2>3. QED
        BY <1>4, <2>1, <2>2 DEF Climbs, Avoids
<1>9. (n + n) % 2 = 0
    OBVIOUS
<1>10. QED
    BY <1>4, <1>6, <1>7, <1>8, <1>9 DEF Kept

-----------------------------------------------------------------------------
(* The conversation a call finds and leaves.                               *)

\* At most the system prompt.
LEMMA OpeningIs ==
    /\ Opening \in Seq(Msg)
    /\ Len(Opening) = IF system_prompt THEN 1 ELSE 0
    /\ Len(Opening) <= 1
<1>1. Message("system", 0) \in Msg
    BY DEF Message, Msg
<1>2. CASE system_prompt
    <2>1. Opening = <<Message("system", 0)>>
        BY <1>2 DEF Opening
    <2>2. QED
        BY <1>1, <1>2, <2>1
<1>3. CASE ~system_prompt
    <2>1. Opening = << >>
        BY <1>3 DEF Opening
    <2>2. QED
        BY <1>3, <2>1
<1>4. QED
    BY <1>2, <1>3

\* The counts of messages, and the opening.
LEMMA Counts ==
    ASSUME IInv, ConvInv
    PROVE  /\ total_msg_cnt \in Nat /\ msg_index \in Nat
           /\ FirstOfDialog \in Nat /\ FirstOfDialog <= total_msg_cnt + 1
           /\ (msg_index # 0 => FirstOfDialog <= total_msg_cnt)
           /\ (msg_index = 0 => FirstOfDialog = total_msg_cnt + 1)
           /\ Opening \in Seq(Msg) /\ Len(Opening) = IF system_prompt THEN 1 ELSE 0
           /\ Body \in Seq(Msg)
<1>1. PICK t \in Nat, m \in Nat : t = total_msg_cnt /\ m = msg_index /\ m <= t
    <2>1. total_msg_cnt \in 0..DialogBound /\ msg_index \in 0..total_msg_cnt
        BY DEF IInv, TypeOK
    <2>2. PICK t \in Nat : t = total_msg_cnt
        BY <2>1
    <2>3. PICK m \in 0..t : m = msg_index
        BY <2>1, <2>2
    <2>4. QED
        BY <2>2, <2>3
<1>2. Opening \in Seq(Msg) /\ Len(Opening) = IF system_prompt THEN 1 ELSE 0
    BY OpeningIs
<1>3. Body \in Seq(Msg)
    <2>1. PICK p \in Nat, s \in Seq(Msg), l \in Nat : p = Len(Opening) /\ s = messages /\ l = Len(s)
        BY <1>2 DEF ConvInv
    <2>2. SubSeq(s, p + 1, l) \in Seq(Msg)
        BY <2>1
    <2>3. QED
        BY <2>1, <2>2 DEF Body
<1>4. FirstOfDialog = t - m + 1
    BY <1>1 DEF FirstOfDialog
<1>5. QED
    BY <1>1, <1>2, <1>3, <1>4

\* The length of what is kept, orderly or not.
LEMMA CompressedSize ==
    ASSUME IInv, ConvInv, NEW k \in Compressed
    PROVE  k \in Seq(Msg) /\ Len(k) <= 2 * RemainIterNum
<1>1. PICK r \in Nat \ {0} : r = RemainIterNum
    BY ConversationAssumption
<1>2. CASE algo = "best_3"
    <2>1. k \in Selections(r)
        BY <1>1, <1>2 DEF Compressed
    <2>2. QED
        BY <1>1, <2>1, SelectionKept DEF ConvInv
<1>3. CASE algo = "best_2_recent_1"
    <2>1. PICK best \in Selections(r - 1) : k = best \o LastN(recent_msgs, 2)
        BY <1>1, <1>3 DEF Compressed
    <2>2. PICK q \in Nat : q = r - 1
        BY <1>1
    <2>3. PICK s \in Seq(Msg) : s = best /\ Len(s) <= 2 * q
        BY <2>1, <2>2, SelectionKept DEF ConvInv
    <2>4. PICK t \in Seq(Msg) : t = LastN(recent_msgs, 2) /\ Len(t) <= 2
        <3>1. PICK b \in Seq(Msg), l \in Nat : b = recent_msgs /\ l = Len(b)
            BY DEF ConvInv, RecentInv
        <3>2. LastN(b, 2) \in Seq(Msg) /\ Len(LastN(b, 2)) = IF 2 < l THEN 2 ELSE l
            BY <3>1, LastFew
        <3>3. (IF 2 < l THEN 2 ELSE l) <= 2
            OBVIOUS
        <3>4. QED
            BY <3>1, <3>2, <3>3
    <2>5. s \o t \in Seq(Msg) /\ Len(s \o t) = Len(s) + Len(t)
        OBVIOUS
    <2>6. PICK x \in Nat, y \in Nat : x = Len(s) /\ y = Len(t)
        OBVIOUS
    <2>7. x + y <= 2 * r
        BY <2>2, <2>3, <2>4, <2>6
    <2>8. QED
        BY <1>1, <2>1, <2>3, <2>4, <2>5, <2>6, <2>7
<1>4. CASE algo = "recent_3"
    <2>1. k = LastN(messages, 2 * r)
        BY <1>1, <1>4 DEF Compressed
    <2>2. PICK b \in Seq(Msg), l \in Nat, n \in Nat : b = messages /\ l = Len(b) /\ n = 2 * r
        BY <1>1 DEF ConvInv
    <2>3. LastN(b, n) \in Seq(Msg) /\ Len(LastN(b, n)) = IF n < l THEN n ELSE l
        BY <2>2, LastFew
    <2>4. QED
        BY <1>1, <2>1, <2>2, <2>3
<1>5. QED
    BY <1>2, <1>3, <1>4 DEF ConvInv

\* What is kept is in order, of this dialog where it has to be.
LEMMA CompressedKept ==
    ASSUME IInv, ConvInv, ~OpeningTwice, pc # "crashed", CompressionDue, NEW k \in Compressed
    PROVE  Kept(k, total_msg_cnt, FirstOfDialog, best_iter_buffer_resetting, algo)
<1>1. PICK r \in Nat \ {0}, t \in Nat, f \in Nat, o \in Seq(Msg), b \in Seq(Msg) :
        /\ r = RemainIterNum /\ t = total_msg_cnt /\ f = FirstOfDialog
        /\ o = Opening /\ b = Body /\ Len(o) <= 1
    <2>1. /\ total_msg_cnt \in Nat /\ FirstOfDialog \in Nat
          /\ Opening \in Seq(Msg) /\ Len(Opening) <= 1 /\ Body \in Seq(Msg)
        BY OpeningIs, Counts
    <2>2. QED
        BY <2>1, ConversationAssumption, Zenon
<1>2. /\ messages = o \o b
      /\ Orderly(b, t, f, best_iter_buffer_resetting, algo)
      /\ Complete(b, msg_index, f, best_iter_buffer_resetting)
    BY <1>1 DEF ConvInv, BodyInv
<1>3. PICK l \in Nat : l = Len(b) /\ l % 2 = 0
    BY <1>2 DEF Complete
<1>4. best_iter_buffer_resetting # "KEEP" => r + r + 2 <= l /\ f <= t
    <2> SUFFICES ASSUME best_iter_buffer_resetting # "KEEP"
                 PROVE  r + r + 2 <= l /\ f <= t
        OBVIOUS
    <2>1. Len(o \o b) >= 4 + 2 * r
        BY <1>1, <1>2 DEF CompressionDue
    <2>2. PICK p \in Nat : p = Len(o) /\ p <= 1 /\ Len(o \o b) = p + l
        BY <1>1, <1>3
    <2>3. r + r + 2 <= l
        BY <2>1, <2>2
    <2>4. b # << >>
        BY <1>3, <2>3
    <2>5. msg_index # 0
        BY <1>2, <2>4 DEF Complete
    <2>6. QED
        BY <1>1, <2>3, <2>5, Counts
<1>5. CASE algo = "best_3"
    <2>1. k \in Selections(r)
        BY <1>1, <1>5 DEF Compressed
    <2>2. QED
        BY <2>1, SelectionKept DEF ConvInv
<1>6. CASE algo = "best_2_recent_1"
    <2>1. PICK best \in Selections(r - 1) : k = best \o LastN(recent_msgs, 2)
        BY <1>1, <1>6 DEF Compressed
    <2>2. r - 1 \in Nat
        OBVIOUS
    <2>3. PICK s \in Seq(Msg) :
            s = best /\ Kept(s, t, f, best_iter_buffer_resetting, "best_2_recent_1")
        BY <1>1, <2>1, <2>2, SelectionKept DEF ConvInv
    <2>4. CASE recent_msgs = << >>
        <3>1. LastN(<< >>, 2) = << >>
            BY DEF LastN
        <3>2. s \o << >> = s
            OBVIOUS
        <3>3. QED
            BY <1>1, <1>6, <2>1, <2>3, <2>4, <3>1, <3>2
    <2>5. CASE recent_msgs # << >>
        <3>1. LastN(recent_msgs, 2) = Pair(t)
            BY <1>1, <2>5 DEF ConvInv, RecentInv
        <3>2. Kept(s \o Pair(t), t, f, best_iter_buffer_resetting, "best_2_recent_1")
            BY <1>4, <2>3, LastKept
        <3>3. QED
            BY <1>1, <1>6, <2>1, <2>3, <3>1, <3>2
    <2>6. QED
        BY <2>4, <2>5
<1>7. CASE algo = "recent_3"
    <2>1. best_iter_buffer_resetting # "KEEP"
        BY <1>7 DEF OpeningTwice
    <2>2. r \in Nat /\ 2 * r = r + r /\ Len(b) % 2 = 0 /\ r + r + 2 <= Len(b)
        BY <1>3, <1>4, <2>1
    <2>3. k = LastN(o \o b, r + r)
        BY <1>1, <1>2, <1>7, <2>2 DEF Compressed
    <2>4. Kept(LastN(o \o b, r + r), t, f, best_iter_buffer_resetting, algo)
        BY <1>2, <2>2, RecentKept
    <2>5. QED
        BY <1>1, <2>3, <2>4
<1>8. QED
    BY <1>5, <1>6, <1>7 DEF ConvInv

\* The conversation a call sends its question in.
LEMMA ConversationFound ==
    ASSUME IInv, ConvInv, ~CompressionRaises, pc # "crashed", NEW c \in Conversations
    PROVE  /\ c \in Seq(Msg)
           /\ Len(c) <= 3 + 2 * RemainIterNum
           /\ ~OpeningTwice =>
                \E b \in Seq(Msg) :
                    /\ c = Opening \o b
                    /\ Orderly(b, total_msg_cnt, FirstOfDialog,
                               best_iter_buffer_resetting, algo)
                    /\ Complete(b, msg_index, FirstOfDialog, best_iter_buffer_resetting)
<1>1. PICK r \in Nat \ {0}, s \in Seq(Msg) : r = RemainIterNum /\ s = messages
    BY ConversationAssumption DEF ConvInv
<1>2. CASE ~CompressionDue
    <2>1. c = s
        BY <1>1, <1>2 DEF Conversations
    <2>2. Len(s) <= 3 + 2 * r
        <3>1. ~(Len(s) >= 4 + 2 * r)
            BY <1>1, <1>2 DEF CompressionDue
        <3>2. PICK l \in Nat : l = Len(s)
            OBVIOUS
        <3>3. QED
            BY <3>1, <3>2
    <2>3. QED
        BY <1>1, <2>1, <2>2, Counts DEF ConvInv, BodyInv
<1>3. CASE CompressionDue
    <2>1. PICK k \in Compressed : c = Init3 \o k
        BY <1>3 DEF Conversations
    <2>2. PICK kept \in Seq(Msg), m \in Nat : kept = k /\ m = Len(kept) /\ m <= 2 * r
        BY <1>1, <2>1, CompressedSize
    <2>3. PICK n \in {2, 3} : Init3 = FirstN(s, n) /\ n = (IF s[1].role = "system" THEN 3 ELSE 2)
        BY <1>1 DEF Init3
    <2>4. PICK init \in Seq(Msg), i \in Nat : init = Init3 /\ i = Len(init) /\ i <= 3
        <3>1. PICK l \in Nat : l = Len(s)
            OBVIOUS
        <3>2. FirstN(s, n) \in Seq(Msg) /\ Len(FirstN(s, n)) = IF n < l THEN n ELSE l
            BY <3>1, FirstFew
        <3>3. (IF n < l THEN n ELSE l) \in Nat /\ (IF n < l THEN n ELSE l) <= 3
            OBVIOUS
        <3>4. QED
            BY <2>3, <3>2, <3>3
    <2>5. c \in Seq(Msg) /\ Len(c) <= 3 + 2 * r
        <3>1. init \o kept \in Seq(Msg) /\ Len(init \o kept) = i + m
            BY <2>2, <2>4
        <3>2. i + m <= 3 + 2 * r
            BY <2>2, <2>4
        <3>3. QED
            BY <2>1, <2>2, <2>4, <3>1, <3>2
    <2>6. ASSUME ~OpeningTwice
          PROVE  \E b \in Seq(Msg) :
                    /\ c = Opening \o b
                    /\ Orderly(b, total_msg_cnt, FirstOfDialog,
                               best_iter_buffer_resetting, algo)
                    /\ Complete(b, msg_index, FirstOfDialog, best_iter_buffer_resetting)
        <3>1. PICK o \in Seq(Msg), b \in Seq(Msg), t \in Nat, f \in Nat :
                o = Opening /\ b = Body /\ t = total_msg_cnt /\ f = FirstOfDialog
            BY Counts
        <3>2. /\ s = o \o b
              /\ Orderly(b, t, f, best_iter_buffer_resetting, algo)
              /\ Complete(b, msg_index, f, best_iter_buffer_resetting)
            BY <1>1, <2>6, <3>1 DEF ConvInv, BodyInv
        <3>3. n = Len(o) + 2
            <4>1. s # << >>
                <5>1. CASE best_iter_buffer_resetting = "KEEP"
                    BY <1>1, <5>1 DEF CompressionRaises
                <5>2. CASE best_iter_buffer_resetting # "KEEP"
                    <6>1. Len(s) >= 4 + 2 * r
                        BY <1>1, <1>3, <5>2 DEF CompressionDue
                    <6>2. QED
                        BY <6>1
                <5>3. QED
                    BY <5>1, <5>2
            <4>2. CASE system_prompt
                <5>1. o = <<Message("system", 0)>> /\ Len(o) = 1
                    BY <3>1, <4>2 DEF Opening
                <5>2. s[1] = o[1] /\ o[1] = Message("system", 0)
                    BY <3>2, <5>1
                <5>3. s[1].role = "system"
                    BY <5>2 DEF Message
                <5>4. QED
                    BY <2>3, <5>1, <5>3
            <4>3. CASE ~system_prompt
                <5>1. o = << >> /\ Len(o) = 0
                    BY <3>1, <4>3 DEF Opening
                <5>2. s = b
                    BY <3>2, <5>1
                <5>3. 1 \in 1..Len(b)
                    BY <4>1, <5>2
                <5>4. b[1].role = Turn(1)
                    BY <3>2, <5>3 DEF Orderly, Turns
                <5>5. s[1].role # "system"
                    BY <5>2, <5>4 DEF Turn
                <5>6. QED
                    BY <2>3, <5>1, <5>5
            <4>4. QED
                BY <4>2, <4>3
        <3>4. Init3 = o \o FirstN(b, 2)
            BY <2>3, <3>2, <3>3, FirstPastOpening
        <3>5. Kept(kept, t, f, best_iter_buffer_resetting, algo)
            BY <1>3, <2>1, <2>2, <2>6, <3>1, CompressedKept
        <3>6. ASSUME best_iter_buffer_resetting # "KEEP" PROVE b # << >>
            <4>1. Len(s) >= 4 + 2 * r
                BY <1>1, <1>3, <3>6 DEF CompressionDue
            <4>2. Len(o) <= 1
                BY <3>1, OpeningIs
            <4>3. ASSUME b = << >> PROVE FALSE
                <5>1. s = o
                    BY <3>2, <4>3
                <5>2. QED
                    BY <4>1, <4>2, <5>1
            <4>4. QED
                BY <4>3
        <3>7. PICK d \in Seq(Msg) :
                /\ d = FirstN(b, 2) \o kept
                /\ Len(d) % 2 = 0
                /\ Orderly(d, t, f, best_iter_buffer_resetting, algo)
                /\ b # << >> => d # << >> /\ SubSeq(d, 1, 2) = SubSeq(b, 1, 2)
            BY <3>2, <3>5, <3>6, OpeningAndKept DEF Complete, Begun
        <3>8. c = o \o d
            <4>1. PICK h \in Seq(Msg) : h = FirstN(b, 2)
                <5>1. 2 \in Nat
                    OBVIOUS
                <5>2. FirstN(b, 2) \in Seq(Msg)
                    BY <5>1, FirstFew, Zenon
                <5>3. QED
                    BY <5>2
            <4>2. (o \o h) \o kept = o \o (h \o kept)
                OBVIOUS
            <4>3. QED
                BY <2>1, <2>2, <3>4, <3>7, <4>1, <4>2
        <3>9. Complete(d, msg_index, f, best_iter_buffer_resetting)
            <4>1. CASE best_iter_buffer_resetting = "KEEP"
                BY <3>7, <4>1 DEF Complete
            <4>2. CASE best_iter_buffer_resetting # "KEEP"
                <5>1. msg_index # 0 /\ SubSeq(b, 1, 2) = Pair(f)
                    BY <3>2, <3>6, <4>2 DEF Complete
                <5>2. QED
                    BY <3>7, <3>6, <4>2, <5>1 DEF Complete
            <4>3. QED
                BY <4>1, <4>2
        <3>10. QED
            BY <3>1, <3>7, <3>8, <3>9
    <2>7. QED
        BY <1>1, <2>5, <2>6
<1>4. QED
    BY <1>2, <1>3

-----------------------------------------------------------------------------
(* The steps.                                                              *)

\* The rest of a conversation is what follows the opening.
LEMMA RestOf ==
    ASSUME NEW s \in Seq(Msg), NEW o \in Seq(Msg), NEW b \in Seq(Msg), s = o \o b
    PROVE  SubSeq(s, Len(o) + 1, Len(s)) = b
BY AfterOpening

\* The initial conversation is the opening alone.
LEMMA InitConvInv == InitConversation => ConvInv
<1> SUFFICES ASSUME InitConversation PROVE ConvInv
    OBVIOUS
<1>1. PICK s \in Settings : /\ s.resetting = best_iter_buffer_resetting
                            /\ algo = s.algo /\ system_prompt = s.system_prompt
    BY DEF InitConversation
<1>2. algo \in {"best_3", "best_2_recent_1", "recent_3"} /\ system_prompt \in BOOLEAN
    BY <1>1, ConversationAssumption DEF WrapperSettings
<1>3. /\ total_msg_cnt = 0 /\ msg_index = 0 /\ best_messages = NoMessages /\ pc = "check"
      /\ messages = Opening /\ recent_msgs = << >>
    BY DEF InitConversation, Init
<1>4. PICK o \in Seq(Msg) : o = Opening /\ Len(o) <= 1
    BY OpeningIs
<1>5. << >> \in Seq(Msg) /\ o \o << >> = o /\ Len(<< >>) = 0
    OBVIOUS
<1>6. Body = << >>
    BY <1>3, <1>4, <1>5, RestOf DEF Body
<1>7. BodyInv
    <2>1. messages = Opening \o Body
        BY <1>3, <1>4, <1>5, <1>6
    <2>2. Orderly(Body, total_msg_cnt, FirstOfDialog, best_iter_buffer_resetting, algo)
        BY <1>5, <1>6
            DEF Orderly, Turns, UpTo, Rises, Opens, Climbs, Avoids, Since
    <2>3. Complete(Body, msg_index, FirstOfDialog, best_iter_buffer_resetting)
        BY <1>3, <1>5, <1>6 DEF Complete
    <2>4. QED
        BY <1>3, <2>1, <2>2, <2>3 DEF BodyInv
<1>8. BoundedConversation
    <2>1. PICK r \in Nat : r = RemainIterNum
        BY ConversationAssumption
    <2>2. QED
        BY <1>3, <1>4, <2>1 DEF BoundedConversation
<1>9. Ids(best_messages) = {}
    BY <1>3 DEF Ids, Entries, NoMessages
<1>10. QED
    BY <1>2, <1>3, <1>4, <1>5, <1>7, <1>8, <1>9 DEF ConvInv, RecentInv, BestInv

\* A step that leaves the conversation, the counts and the buffer alone.
LEMMA ConversationLeft ==
    ASSUME ConvInv,
           UNCHANGED <<convVars, total_msg_cnt, msg_index, best_messages,
                       best_iter_buffer_resetting>>,
           pc' = "crashed" <=> pc = "crashed"
    PROVE  ConvInv'
<1>1. /\ FirstOfDialog' = FirstOfDialog /\ Opening' = Opening /\ Body' = Body
      /\ OpeningTwice' = OpeningTwice
    BY DEF convVars, settings, FirstOfDialog, Opening, Body, OpeningTwice
<1>2. BodyInv => BodyInv'
    BY <1>1 DEF BodyInv, convVars, settings
<1>3. RecentInv' /\ BestInv' /\ BoundedConversation'
    BY <1>1 DEF ConvInv, RecentInv, BestInv, BoundedConversation, convVars, settings
<1>4. QED
    BY <1>1, <1>2, <1>3 DEF ConvInv, convVars, settings

\* The ids of the buffer when a message is appended, and when one is judged.
LEMMA AppendedIds ==
    ASSUME NEW best \in Buffer, NEW id, NEW score,
           NEW x \in Ids(append_successful(best, id, score))
    PROVE  x \in Ids(best) \/ x = id
<1> DEFINE entry == [id |-> id, hit |-> score]
           new == append_successful(best, id, score)
<1>1. best.fresh \in Seq(Record)
    BY DEF Buffer
<1>2. new.ranked = best.ranked /\ new.fresh = Append(best.fresh, entry)
    BY DEF append_successful, Buffer
<1>3. PICK fresh \in Seq(Record) : fresh = best.fresh
    BY <1>1
<1>4. \A i \in DOMAIN Append(fresh, entry) :
        Append(fresh, entry)[i] = entry \/ \E j \in DOMAIN fresh : Append(fresh, entry)[i] = fresh[j]
    OBVIOUS
<1>5. PICK e \in Entries(new) : x = e.id
    BY DEF Ids
<1> HIDE DEF new
<1>6. e \in best.ranked \/ \E i \in DOMAIN Append(fresh, entry) : e = Append(fresh, entry)[i]
    BY <1>2, <1>3, <1>5 DEF Entries
<1>7. e \in Entries(best) \/ e = entry
    BY <1>3, <1>4, <1>6 DEF Entries
<1>8. QED
    BY <1>5, <1>7 DEF Ids

LEMMA UpdatedIds ==
    ASSUME NEW best \in Buffer, Len(best.fresh) = 1, NEW score
    PROVE  Ids(update_successful(best, score)) \subseteq Ids(best)
<1> DEFINE last == best.fresh[1]
           settled == [last EXCEPT !.hit = score - @]
           kept == Retained((Entries(best) \ {last}) \cup {settled})
<1>1. best.fresh \in Seq(Record) /\ last \in Record /\ 1 \in DOMAIN best.fresh
    BY DEF Buffer
<1>2. LastMessage(best) = last
    BY <1>1 DEF LastMessage
<1>3. last \in Entries(best)
    BY <1>1 DEF Entries
<1>4. settled.id = last.id
    BY <1>1 DEF Record
<1>5. kept \subseteq Entries(best) \cup {settled}
    BY RetainedSubset
<1>6. update_successful(best, score) = [ranked |-> kept, fresh |-> << >>]
    BY <1>2 DEF update_successful
<1> HIDE DEF kept
<1>7. Entries(update_successful(best, score)) = kept
    BY <1>6 DEF Entries
<1>8. QED
    BY <1>3, <1>4, <1>5, <1>7 DEF Ids

\* A question and its answer, or none, at the end of the conversation.
LEMMA AskedOnce ==
    ASSUME IInv, ConvInv, pc = "prompt", ~OpeningTwice, ~CompressionRaises,
           NEW c \in Conversations, NEW q \in Seq(Msg), Len(q) \in {1, 2},
           q[1] = Message("user", total_msg_cnt + 1),
           Len(q) = 2 => q[2] = Message("assistant", total_msg_cnt + 1)
    PROVE  \E b \in Seq(Msg), d \in Seq(Msg) :
                /\ c = Opening \o b /\ d = b \o q
                /\ c \o q = Opening \o d
                /\ Complete(b, msg_index, FirstOfDialog, best_iter_buffer_resetting)
                /\ Orderly(d, total_msg_cnt + 1, FirstOfDialog,
                           best_iter_buffer_resetting, algo)
<1>1. PICK b \in Seq(Msg) :
        /\ c = Opening \o b
        /\ Orderly(b, total_msg_cnt, FirstOfDialog, best_iter_buffer_resetting, algo)
        /\ Complete(b, msg_index, FirstOfDialog, best_iter_buffer_resetting)
    BY ConversationFound
<1>2. PICK t \in Nat, f \in Nat, o \in Seq(Msg), m \in Nat :
        /\ t = total_msg_cnt /\ f = FirstOfDialog /\ o = Opening /\ m = msg_index
        /\ f <= t + 1 /\ (m # 0 => f <= t)
    BY Counts
<1>3. PICK n \in Nat, l \in {1, 2} : n = Len(b) /\ l = Len(q) /\ n % 2 = 0
    BY <1>1 DEF Complete
<1>4. PICK d \in Seq(Msg) :
        /\ d = b \o q /\ Len(d) = n + l
        /\ \A i \in 1..n : d[i] = b[i]
        /\ \A i \in 1..l : d[n + i] = q[i]
    <2>1. /\ b \o q \in Seq(Msg)
          /\ Len(b \o q) = Len(b) + Len(q)
          /\ \A i \in 1..Len(b) : (b \o q)[i] = b[i]
          /\ \A i \in 1..Len(q) : (b \o q)[Len(b) + i] = q[i]
        OBVIOUS
    <2>2. QED
        BY <1>3, <2>1
<1>5. \A i \in (n + 1)..(n + l) : d[i] = Message(Turn(i), t + 1)
    <2> SUFFICES ASSUME NEW i \in (n + 1)..(n + l)
                 PROVE  d[i] = Message(Turn(i), t + 1)
        OBVIOUS
    <2>1. Turn(n + 1) = "user" /\ Turn(n + 2) = "assistant"
        BY <1>3, TurnShift
    <2>2. i = n + 1 \/ (i = n + 2 /\ l = 2)
        OBVIOUS
    <2>3. d[n + 1] = q[1] /\ (l = 2 => d[n + 2] = q[2])
        BY <1>4
    <2>4. QED
        BY <1>2, <1>3, <2>1, <2>2, <2>3
<1>6. Orderly(d, t + 1, f, best_iter_buffer_resetting, algo)
    <2>1. Careful(best_iter_buffer_resetting, algo) => (b = << >> <=> f = t + 1)
        <3>1. CASE m = 0
            <4>1. f = t + 1
                BY <1>2, <3>1, Counts
            <4>2. Careful(best_iter_buffer_resetting, algo) => b = << >>
                BY <1>1, <1>2, <3>1 DEF Complete, Careful
            <4>3. QED
                BY <4>1, <4>2
        <3>2. CASE m # 0
            <4>1. f # t + 1
                BY <1>2, <3>2
            <4>2. Careful(best_iter_buffer_resetting, algo) => b # << >>
                BY <1>1, <1>2, <3>2 DEF Complete, Careful
            <4>3. QED
                BY <4>1, <4>2
        <3>3. QED
            BY <3>1, <3>2
    <2>2. /\ Len(d) \in {Len(b) + 1, Len(b) + 2} /\ Len(b) % 2 = 0
          /\ \A i \in 1..Len(b) : d[i] = b[i]
          /\ \A i \in (Len(b) + 1)..Len(d) : d[i] = Message(Turn(i), t + 1)
        BY <1>3, <1>4, <1>5
    <2>3. Orderly(b, t, f, best_iter_buffer_resetting, algo)
        BY <1>1, <1>2
    <2>4. f <= t + 1
        BY <1>2
    <2>5. QED
        BY <2>1, <2>2, <2>3, <2>4, AskedLast
<1>7. (o \o b) \o q = o \o (b \o q)
    BY Associative
<1>8. QED
    BY <1>1, <1>2, <1>4, <1>6, <1>7

\* The last two messages are the two put at the end.
LEMMA LastTwo ==
    ASSUME NEW y \in Seq(Msg), NEW q \in Seq(Msg), NEW n \in Nat, Len(y) = n + 2,
           Len(q) = 2, y[n + 1] = q[1], y[n + 2] = q[2]
    PROVE  LastN(y, 2) = q
<1>1. 2 \in Nat
    OBVIOUS
<1>2. /\ LastN(y, 2) \in Seq(Msg)
      /\ Len(LastN(y, 2)) = IF 2 < Len(y) THEN 2 ELSE Len(y)
      /\ 2 <= Len(y) => \A i \in 1..2 : LastN(y, 2)[i] = y[Len(y) - 2 + i]
    BY <1>1, LastFew, Zenon
<1>3. PICK e \in Seq(Msg) : e = LastN(y, 2)
    BY <1>2
<1>4. Len(e) = 2
    <2>1. (IF 2 < n + 2 THEN 2 ELSE n + 2) = 2
        OBVIOUS
    <2>2. QED
        BY <1>2, <1>3, <2>1
<1>5. e[1] = y[n + 1] /\ e[2] = y[n + 2]
    <2>1. \A i \in 1..2 : e[i] = y[n + 2 - 2 + i]
        BY <1>2, <1>3
    <2>2. 1 \in 1..2 /\ 2 \in 1..2 /\ n + 2 - 2 + 1 = n + 1 /\ n + 2 - 2 + 2 = n + 2
        OBVIOUS
    <2>3. QED
        BY <2>1, <2>2
<1>6. e = q
    BY <1>4, <1>5
<1>7. QED
    BY <1>3, <1>6

\* The model answers: the pair is kept in the conversation, among the recent
\* messages and, unless it is the first of its dialog, in the buffer.
LEMMA AnsweredKeeps ==
    ASSUME IInv, ConvInv, NEW stimuli \in 0..MaxStimuli, NEW tokens \in 1..MaxTokens,
           CallAnswered(stimuli, tokens)
    PROVE  ConvInv'
<1>1. /\ ~CompressionRaises /\ pc = "prompt" /\ pc' = "loop"
      /\ UNCHANGED <<settings, best_iter_buffer_resetting>>
      /\ total_msg_cnt' = total_msg_cnt + 1 /\ msg_index' = msg_index + 1
    BY DEF CallAnswered, Answer
<1>2. PICK t \in Nat, m \in Nat, f \in Nat, o \in Seq(Msg) :
        /\ t = total_msg_cnt /\ m = msg_index /\ f = FirstOfDialog /\ o = Opening
        /\ (m = 0 => f = t + 1) /\ f <= t + 1
    BY Counts
<1>3. /\ FirstOfDialog' = FirstOfDialog /\ Opening' = Opening /\ OpeningTwice' = OpeningTwice
      /\ total_msg_cnt' = t + 1 /\ msg_index' = m + 1
    <2>1. t - m + 1 = (t + 1) - (m + 1) + 1
        OBVIOUS
    <2>2. QED
        BY <1>1, <1>2, <2>1 DEF settings, FirstOfDialog, Opening, OpeningTwice
<1>4. PICK c \in Conversations : messages' = c \o Pair(t + 1)
    BY <1>2 DEF CallAnswered
<1>5. PICK s \in Seq(Msg), q \in Seq(Msg) :
        /\ s = c /\ Len(s) <= 3 + 2 * RemainIterNum
        /\ q = Pair(t + 1) /\ Len(q) = 2
        /\ q[1] = Message("user", t + 1) /\ q[2] = Message("assistant", t + 1)
    <2>1. t + 1 \in Nat
        OBVIOUS
    <2>2. QED
        BY <1>1, <1>4, <2>1, PairTurns, ConversationFound
<1>6. messages' \in Seq(Msg) /\ BoundedConversation'
    <2>1. s \o q \in Seq(Msg) /\ Len(s \o q) = Len(s) + Len(q)
        OBVIOUS
    <2>2. PICK l \in Nat, r \in Nat : l = Len(s) /\ r = RemainIterNum
        BY ConversationAssumption
    <2>3. l + 2 <= 5 + 2 * r
        BY <1>5, <2>2
    <2>4. QED
        BY <1>4, <1>5, <2>1, <2>2, <2>3 DEF BoundedConversation
<1>7. ~OpeningTwice' => BodyInv'
    <2> SUFFICES ASSUME ~OpeningTwice PROVE BodyInv'
        BY <1>3
    <2>1. PICK b \in Seq(Msg), d \in Seq(Msg) :
            /\ d = b \o q /\ s \o q = o \o d
            /\ Complete(b, m, f, best_iter_buffer_resetting)
            /\ Orderly(d, t + 1, f, best_iter_buffer_resetting, algo)
        <3>1. /\ Len(q) \in {1, 2} /\ q[1] = Message("user", total_msg_cnt + 1)
              /\ Len(q) = 2 => q[2] = Message("assistant", total_msg_cnt + 1)
            BY <1>2, <1>5
        <3>2. \E b \in Seq(Msg), d \in Seq(Msg) :
                /\ c = Opening \o b /\ d = b \o q
                /\ c \o q = Opening \o d
                /\ Complete(b, msg_index, FirstOfDialog, best_iter_buffer_resetting)
                /\ Orderly(d, total_msg_cnt + 1, FirstOfDialog,
                           best_iter_buffer_resetting, algo)
            BY <1>1, <3>1, AskedOnce
        <3>3. QED
            BY <1>2, <1>5, <3>2
    <2>2. PICK z \in Seq(Msg) : z = messages' /\ z = o \o d
        BY <1>4, <1>5, <1>6, <2>1
    <2>3. SubSeq(z, Len(o) + 1, Len(z)) = d
        BY <2>2, RestOf
    <2>4. Body' = d
        BY <1>2, <1>3, <2>2, <2>3 DEF Body
    <2>5. Complete(d, m + 1, f, best_iter_buffer_resetting)
        <3>1. PICK n \in Nat : n = Len(b) /\ n % 2 = 0
            BY <2>1 DEF Complete
        <3>2. /\ Len(d) = n + 2
              /\ \A i \in 1..n : d[i] = b[i]
              /\ d[n + 1] = q[1] /\ d[n + 2] = q[2]
            <4>1. /\ Len(b \o q) = Len(b) + Len(q)
                  /\ \A i \in 1..Len(b) : (b \o q)[i] = b[i]
                  /\ \A i \in 1..Len(q) : (b \o q)[Len(b) + i] = q[i]
                OBVIOUS
            <4>2. 1 \in 1..Len(q) /\ 2 \in 1..Len(q)
                BY <1>5
            <4>3. QED
                BY <1>5, <2>1, <3>1, <4>1, <4>2
        <3>3. (n + 2) % 2 = 0
            BY <3>1
        <3>4. d # << >>
            BY <3>2
        <3>5. ASSUME best_iter_buffer_resetting # "KEEP"
              PROVE  SubSeq(d, 1, 2) = Pair(f)
            <4>1. CASE m = 0
                <5>1. b = << >> /\ f = t + 1
                    BY <1>2, <2>1, <3>5, <4>1 DEF Complete
                <5>2. d = q
                    BY <2>1, <5>1
                <5>3. SubSeq(q, 1, 2) = q
                    BY <1>5
                <5>4. QED
                    BY <1>5, <5>1, <5>2, <5>3
            <4>2. CASE m # 0
                <5>1. SubSeq(b, 1, 2) = Pair(f)
                    BY <2>1, <3>5, <4>2 DEF Complete
                <5>3. n >= 2
                    <6>1. b # << >>
                        BY <2>1, <3>5, <4>2 DEF Complete
                    <6>2. n # 0
                        BY <3>1, <6>1
                    <6>3. ASSUME n = 1 PROVE FALSE
                        BY <3>1, <6>3
                    <6>4. QED
                        BY <6>2, <6>3
                <5>4. d[1] = b[1] /\ d[2] = b[2]
                    BY <3>2, <5>3
                <5>5. SubSeq(d, 1, 2) = SubSeq(b, 1, 2)
                    BY <3>1, <3>2, <5>3, <5>4
                <5>6. QED
                    BY <5>1, <5>5
            <4>3. QED
                BY <4>1, <4>2
        <3>6. m + 1 # 0
            OBVIOUS
        <3>7. QED
            BY <3>2, <3>3, <3>4, <3>5, <3>6 DEF Complete
    <2>6. messages' = Opening' \o Body'
        BY <1>2, <1>3, <2>2, <2>4
    <2>7. algo' = algo /\ best_iter_buffer_resetting' = best_iter_buffer_resetting
        BY <1>1 DEF settings
    <2>8. QED
        BY <1>1, <1>2, <1>3, <2>1, <2>4, <2>5, <2>6, <2>7 DEF BodyInv
<1>8. RecentInv'
    <2>1. PICK x \in Seq(Msg) : x = recent_msgs
        BY DEF ConvInv, RecentInv
    <2>2. PICK y \in Seq(Msg), n \in Nat :
            /\ y = x \o q /\ n = Len(x) /\ Len(y) = n + 2
            /\ y[n + 1] = q[1] /\ y[n + 2] = q[2]
        <3>1. /\ x \o q \in Seq(Msg)
              /\ Len(x \o q) = Len(x) + Len(q)
              /\ \A i \in 1..Len(q) : (x \o q)[Len(x) + i] = q[i]
            OBVIOUS
        <3>2. /\ (x \o q)[Len(x) + 1] = q[1] /\ (x \o q)[Len(x) + 2] = q[2]
              /\ Len(x \o q) = Len(x) + 2
            BY <1>5, <3>1
        <3>3. Len(x) \in Nat
            OBVIOUS
        <3>4. QED
            BY <3>1, <3>2, <3>3
    <2>3. y = recent_msgs'
        BY <1>2, <1>5, <2>1, <2>2 DEF CallAnswered
    <2>4. LastN(y, 2) = q
        BY <1>5, <2>2, LastTwo
    <2>5. Len(y) >= 2
        BY <2>2
    <2>6. recent_msgs' \in Seq(Msg) /\ Len(recent_msgs') >= 2
        BY <2>3, <2>5
    <2>7. LastN(recent_msgs', 2) = Pair(total_msg_cnt')
        BY <1>3, <1>5, <2>3, <2>4
    <2>8. QED
        BY <2>6, <2>7 DEF RecentInv
<1>9. BestInv'
    <2>1. ASSUME NEW id \in Ids(best_messages')
          PROVE  id \in Ids(best_messages) \/ (id = t + 1 /\ m # 0)
        <3>1. CASE state # "ITER"
            BY <1>1, <2>1, <3>1 DEF CallAnswered, Answer
        <3>2. CASE state = "ITER"
            <4>1. m # 0
                BY <1>1, <1>2, <3>2 DEF IInv, Control
            <4>2. best_messages' = append_successful(best_messages, t + 1, g_coverage)
                BY <1>2, <3>2 DEF CallAnswered, Answer
            <4>3. best_messages \in Buffer
                BY DEF IInv, Paired
            <4>4. QED
                BY <2>1, <4>1, <4>2, <4>3, AppendedIds
        <3>3. QED
            BY <3>1, <3>2
    <2>2. \A id \in Ids(best_messages) :
            /\ id <= t /\ id # f
            /\ best_iter_buffer_resetting = "CLEAR" => id >= f
        BY <1>2 DEF ConvInv, BestInv
    <2>3. m # 0 => t + 1 # f
        BY <1>2, Counts
    <2>4. \A id \in Ids(best_messages) : id \in Nat
        BY IdsFinite, LLMAgentAssumption
    <2>5. ASSUME NEW id \in Ids(best_messages')
          PROVE  /\ id <= t + 1 /\ id # f
                 /\ best_iter_buffer_resetting = "CLEAR" => id >= f
        <3>1. CASE id \in Ids(best_messages)
            BY <2>2, <2>4, <3>1
        <3>2. CASE id = t + 1 /\ m # 0
            BY <1>2, <2>3, <3>2
        <3>3. QED
            BY <2>1, <2>5, <3>1, <3>2
    <2>6. QED
        BY <1>1, <1>2, <1>3, <2>5 DEF BestInv, Ids, Entries
<1>10. QED
    BY <1>1, <1>6, <1>7, <1>8, <1>9 DEF ConvInv, settings

\* Every attempt to call the model fails: its question is the last message.
LEMMA FailedKeeps ==
    ASSUME IInv, ConvInv, CallFails
    PROVE  ConvInv'
<1>1. /\ ~CompressionRaises /\ pc = "prompt" /\ pc' = "crashed"
      /\ UNCHANGED <<settings, best_iter_buffer_resetting, best_messages,
                     total_msg_cnt, msg_index>>
    BY DEF CallFails, AnswerFails, agentVars
<1>2. PICK t \in Nat, o \in Seq(Msg) : t = total_msg_cnt /\ o = Opening
    BY Counts
<1>3. /\ FirstOfDialog' = FirstOfDialog /\ Opening' = Opening /\ OpeningTwice' = OpeningTwice
    BY <1>1 DEF settings, FirstOfDialog, Opening, OpeningTwice
<1>4. PICK m \in Msg : m = Message("user", t + 1)
    <2>1. t + 1 \in Nat
        OBVIOUS
    <2>2. QED
        BY <2>1, PairTurns
<1>5. PICK c \in Conversations : messages' = Append(c, m)
    BY <1>2, <1>4 DEF CallFails, Asked
<1>6. PICK s \in Seq(Msg) : s = c /\ Len(s) <= 3 + 2 * RemainIterNum
    BY <1>1, ConversationFound
<1>7. messages' \in Seq(Msg) /\ BoundedConversation'
    <2>1. Append(s, m) \in Seq(Msg) /\ Len(Append(s, m)) = Len(s) + 1
        OBVIOUS
    <2>2. PICK l \in Nat, r \in Nat : l = Len(s) /\ r = RemainIterNum
        BY ConversationAssumption
    <2>3. l + 1 <= 5 + 2 * r
        BY <1>6, <2>2
    <2>4. QED
        BY <1>5, <1>6, <2>1, <2>2, <2>3 DEF BoundedConversation
<1>8. ~OpeningTwice' => BodyInv'
    <2> SUFFICES ASSUME ~OpeningTwice PROVE BodyInv'
        BY <1>3
    <2>1. PICK q \in Seq(Msg) : q = <<m>> /\ Len(q) = 1 /\ q[1] = m
        <3>1. <<m>> \in Seq(Msg) /\ Len(<<m>>) = 1 /\ <<m>>[1] = m
            OBVIOUS
        <3>2. QED
            BY <3>1, Zenon
    <2>2. PICK b \in Seq(Msg), d \in Seq(Msg) :
            /\ s \o q = o \o d
            /\ Orderly(d, t + 1, FirstOfDialog, best_iter_buffer_resetting, algo)
        <3>1. /\ Len(q) \in {1, 2} /\ q[1] = Message("user", total_msg_cnt + 1)
              /\ Len(q) = 2 => q[2] = Message("assistant", total_msg_cnt + 1)
            BY <1>2, <1>4, <2>1
        <3>2. \E b \in Seq(Msg), d \in Seq(Msg) :
                /\ c = Opening \o b /\ d = b \o q
                /\ c \o q = Opening \o d
                /\ Complete(b, msg_index, FirstOfDialog, best_iter_buffer_resetting)
                /\ Orderly(d, total_msg_cnt + 1, FirstOfDialog,
                           best_iter_buffer_resetting, algo)
            BY <1>1, <3>1, AskedOnce
        <3>3. QED
            BY <1>2, <1>6, <3>2
    <2>3. s \o q = Append(s, m)
        BY <2>1
    <2>4. PICK z \in Seq(Msg) : z = messages' /\ z = o \o d
        BY <1>5, <1>6, <1>7, <2>2, <2>3
    <2>5. SubSeq(z, Len(o) + 1, Len(z)) = d
        BY <2>4, RestOf
    <2>6. Body' = d
        BY <1>2, <1>3, <2>4, <2>5 DEF Body
    <2>7. messages' = Opening' \o Body'
        BY <1>2, <1>3, <2>4, <2>6
    <2>8. Orderly(Body', total_msg_cnt' + 1, FirstOfDialog', best_iter_buffer_resetting', algo')
        BY <1>1, <1>2, <1>3, <2>2, <2>6 DEF settings
    <2>9. QED
        BY <1>1, <2>7, <2>8 DEF BodyInv
<1>9. RecentInv'
    <2>1. PICK x \in Seq(Msg) : x = recent_msgs
        BY DEF ConvInv, RecentInv
    <2>2. Append(x, m) \in Seq(Msg)
        OBVIOUS
    <2>3. recent_msgs' = Append(x, m)
        BY <1>2, <1>4, <2>1 DEF CallFails
    <2>4. QED
        BY <1>1, <2>2, <2>3 DEF RecentInv
<1>10. BestInv'
    BY <1>1, <1>3 DEF ConvInv, BestInv
<1>11. QED
    BY <1>1, <1>7, <1>8, <1>9, <1>10 DEF ConvInv, settings

\* The compression raises: the conversation is left as it was.
LEMMA RaisedKeeps ==
    ASSUME IInv, ConvInv, CallRaises
    PROVE  ConvInv'
<1>1. /\ pc = "prompt" /\ pc' = "crashed"
      /\ UNCHANGED <<convVars, best_iter_buffer_resetting, best_messages,
                     total_msg_cnt, msg_index>>
    BY DEF CallRaises, AnswerFails, agentVars
<1>2. /\ FirstOfDialog' = FirstOfDialog /\ Opening' = Opening /\ OpeningTwice' = OpeningTwice
      /\ Body' = Body
    BY <1>1 DEF convVars, settings, FirstOfDialog, Opening, OpeningTwice, Body
<1>3. ~OpeningTwice' => BodyInv'
    <2> SUFFICES ASSUME ~OpeningTwice PROVE BodyInv'
        BY <1>2
    <2>1. PICK t \in Nat, b \in Seq(Msg) : t = total_msg_cnt /\ b = Body
        BY Counts
    <2>2. Orderly(b, t, FirstOfDialog, best_iter_buffer_resetting, algo) /\ messages = Opening \o b
        BY <1>1, <2>1 DEF ConvInv, BodyInv
    <2>3. Orderly(b, t + 1, FirstOfDialog, best_iter_buffer_resetting, algo)
        <3>1. UpTo(b, t + 1)
            <4>1. \A i \in 1..Len(b) : b[i].id <= t /\ b[i].id \in Nat
                BY <2>2, MessagesOf DEF Orderly, UpTo
            <4>2. \A i \in 1..Len(b) : b[i].id <= t + 1
                BY <4>1
            <4>3. QED
                BY <4>2 DEF UpTo
        <3>2. QED
            BY <2>2, <3>1 DEF Orderly
    <2>4. QED
        BY <1>1, <1>2, <2>1, <2>2, <2>3 DEF BodyInv, convVars, settings
<1>4. RecentInv' /\ BestInv' /\ BoundedConversation'
    BY <1>1, <1>2 DEF ConvInv, RecentInv, BestInv, BoundedConversation, convVars, settings
<1>5. QED
    BY <1>1, <1>2, <1>3, <1>4 DEF ConvInv, convVars, settings

\* An empty conversation is orderly.
LEMMA NothingSaid ==
    ASSUME NEW last, NEW first, NEW mode, NEW choice
    PROVE  Orderly(<< >>, last, first, mode, choice)
<1>1. Len(<< >>) = 0
    OBVIOUS
<1>2. QED
    BY <1>1 DEF Orderly, Turns, UpTo, Rises, Opens, Climbs, Avoids, Since

\* A judgement adds nothing to the buffer, and goes on with the dialog or starts
\* the next one.
LEMMA Judged ==
    ASSUME IInv, Open = 1, JudgeMessage
    PROVE  /\ total_msg_cnt' = total_msg_cnt
           /\ best_iter_buffer_resetting' = best_iter_buffer_resetting
           /\ Ids(best_messages') \subseteq Ids(best_messages)
           /\ dialog_index' = dialog_index => msg_index' = msg_index
           /\ dialog_index' # dialog_index =>
                /\ msg_index' = 0
                /\ best_iter_buffer_resetting = "CLEAR" => Ids(best_messages') = {}
<1> DEFINE best == IF HasEntry
                   THEN update_successful(best_messages, g_coverage)
                   ELSE best_messages
<1>1. Ids(best) \subseteq Ids(best_messages)
    <2>1. CASE ~HasEntry
        BY <2>1
    <2>2. CASE HasEntry
        <3>1. msg_index > 1
            BY <2>2, OpenMessage DEF HasEntry
        <3>2. best_messages \in Buffer /\ Len(best_messages.fresh) = 1
            BY <3>1 DEF IInv, Paired
        <3>3. QED
            BY <2>2, <3>2, UpdatedIds
    <2>3. QED
        BY <2>1, <2>2
<1>2. Ids(NoMessages) = {}
    BY DEF Ids, Entries, NoMessages
<1>3. /\ total_msg_cnt' = total_msg_cnt
      /\ best_iter_buffer_resetting' = best_iter_buffer_resetting
      /\ \/ /\ dialog_index' = dialog_index + 1 /\ msg_index' = 0
            /\ best_messages' = IF best_iter_buffer_resetting = "CLEAR" THEN NoMessages ELSE best
         \/ best_messages' = best /\ dialog_index' = dialog_index /\ msg_index' = msg_index
    BY DEF JudgeMessage, reset
<1> HIDE DEF best
<1>4. dialog_index \in Nat
    BY DEF IInv, TypeOK
<1>5. QED
    BY <1>1, <1>2, <1>3, <1>4

\* What a step that may restart the dialog does to the counts and the buffer.
LEMMA RestartEffect ==
    ASSUME IInv, Restarting
    PROVE  /\ pc # "crashed" /\ pc' # "crashed"
           /\ total_msg_cnt' = total_msg_cnt
           /\ best_iter_buffer_resetting' = best_iter_buffer_resetting
           /\ Ids(best_messages') \subseteq Ids(best_messages)
           /\ dialog_index' = dialog_index => msg_index' = msg_index
           /\ dialog_index' # dialog_index =>
                /\ msg_index' = 0
                /\ best_iter_buffer_resetting = "CLEAR" => Ids(best_messages') = {}
<1>1. pc # "crashed" /\ pc' # "crashed"
    BY DEF Restarting, GenerateNextValue, PreparePrompt, Send
<1>2. CASE UNCHANGED agentVars
    BY <1>1, <1>2 DEF agentVars
<1>3. CASE JudgeMessage /\ Open = 1
    BY <1>1, <1>3, Judged
<1>4. UNCHANGED agentVars \/ (JudgeMessage /\ Open = 1)
    <2>1. CASE GenerateNextValue
        <3>1. pc = "generate"
            BY <2>1 DEF GenerateNextValue
        <3>2. CASE g_coverage # None /\ stimuli_buffer = 0 /\ state # "INIT"
            <4>1. JudgeMessage
                BY <2>1, <3>2 DEF GenerateNextValue
            <4>2. total_msg_cnt # 0
                BY <3>1, <3>2, NothingAsked DEF IInv, Control
            <4>3. Open = 1
                BY <3>1, <4>2 DEF IInv, Control, Answered
            <4>4. QED
                BY <4>1, <4>3
        <3>3. CASE ~(g_coverage # None /\ stimuli_buffer = 0 /\ state # "INIT")
            BY <2>1, <3>3 DEF GenerateNextValue
        <3>4. QED
            BY <3>2, <3>3
    <2>2. CASE PreparePrompt
        <3>1. pc = "loop" /\ ((JudgeMessage /\ f_ = 1) \/ UNCHANGED agentVars)
            BY <2>2 DEF PreparePrompt
        <3>2. f_ = 1 => Open = 1
            BY <3>1 DEF IInv, Control
        <3>3. QED
            BY <3>1, <3>2
    <2>3. QED
        BY <2>1, <2>2 DEF Restarting
<1>5. QED
    BY <1>2, <1>3, <1>4

\* A restarted dialog has the opening alone; one that goes on, what it had.
LEMMA RestartingKeeps ==
    ASSUME IInv, ConvInv, Restarting
    PROVE  ConvInv'
<1>1. UNCHANGED settings
    BY DEF Restarting
<1>2. PICK t \in Nat, f \in Nat, o \in Seq(Msg) :
        t = total_msg_cnt /\ f = FirstOfDialog /\ o = Opening /\ Len(o) <= 1
    BY Counts, OpeningIs
<1>3. /\ pc # "crashed" /\ pc' # "crashed"
      /\ total_msg_cnt' = t /\ best_iter_buffer_resetting' = best_iter_buffer_resetting
      /\ Ids(best_messages') \subseteq Ids(best_messages)
      /\ Opening' = o /\ OpeningTwice' = OpeningTwice
    BY <1>1, <1>2, RestartEffect DEF settings, Opening, OpeningTwice
<1>4. \A id \in Ids(best_messages') :
        /\ id \in Nat /\ id <= t /\ id # f
        /\ best_iter_buffer_resetting = "CLEAR" => id >= f
    <2>1. \A id \in Ids(best_messages) : id \in Nat
        BY IdsFinite, LLMAgentAssumption
    <2>2. QED
        BY <1>2, <1>3, <2>1 DEF ConvInv, BestInv
<1>5. recent_msgs' \in {recent_msgs, << >>}
    BY DEF Restarting, ResetConversation
<1>6. RecentInv'
    <2>1. CASE recent_msgs' = recent_msgs
        BY <1>2, <1>3, <2>1 DEF ConvInv, RecentInv
    <2>2. CASE recent_msgs' = << >>
        BY <2>2 DEF RecentInv
    <2>3. QED
        BY <1>5, <2>1, <2>2
<1>7. CASE dialog_index' # dialog_index
    <2>1. msg_index' = 0 /\ messages' = o
        BY <1>2, <1>7, RestartEffect DEF Restarting, ResetConversation
    <2>2. FirstOfDialog' = t + 1
        BY <1>3, <2>1 DEF FirstOfDialog
    <2>3. BestInv'
        <3>1. best_iter_buffer_resetting = "CLEAR" => Ids(best_messages') = {}
            BY <1>7, RestartEffect
        <3>2. \A id \in Ids(best_messages') : id <= t /\ id # t + 1
            BY <1>4
        <3>3. Ids(best_messages)' = Ids(best_messages')
            BY DEF Ids, Entries
        <3>4. QED
            BY <1>3, <2>2, <3>1, <3>2, <3>3 DEF BestInv
    <2>4. << >> \in Seq(Msg) /\ o = o \o << >> /\ Len(<< >>) % 2 = 0
        OBVIOUS
    <2>5. Body' = << >>
        <3>1. SubSeq(o, Len(o) + 1, Len(o)) = << >>
            BY <2>4, RestOf
        <3>2. QED
            BY <1>3, <2>1, <3>1 DEF Body
    <2>6. BodyInv'
        BY <1>3, <2>1, <2>4, <2>5, NothingSaid DEF BodyInv, Complete
    <2>7. BoundedConversation'
        <3>1. PICK r \in Nat : r = RemainIterNum
            BY ConversationAssumption
        <3>2. QED
            BY <1>2, <2>1, <3>1 DEF BoundedConversation
    <2>8. QED
        BY <1>1, <1>6, <2>1, <2>3, <2>6, <2>7 DEF ConvInv, settings
<1>8. CASE dialog_index' = dialog_index
    <2>1. msg_index' = msg_index /\ messages' = messages
        BY <1>8, RestartEffect DEF Restarting
    <2>2. FirstOfDialog' = FirstOfDialog /\ Body' = Body
        BY <1>2, <1>3, <2>1 DEF FirstOfDialog, Body
    <2>3. BestInv'
        <3>1. Ids(best_messages)' = Ids(best_messages')
            BY DEF Ids, Entries
        <3>2. QED
            BY <1>2, <1>3, <1>4, <2>2, <3>1 DEF BestInv
    <2>4. BodyInv => BodyInv'
        BY <1>1, <1>2, <1>3, <2>1, <2>2 DEF BodyInv, settings
    <2>5. QED
        BY <1>1, <1>3, <1>6, <2>1, <2>3, <2>4 DEF ConvInv, BoundedConversation, settings
<1>9. QED
    BY <1>7, <1>8

\* Every step of the run is a step of the agent, and keeps both invariants.
LEMMA ConversationStep ==
    ASSUME IInv, ConvInv, [NextConversation]_<<vars, convVars>>
    PROVE  IInv' /\ ConvInv'
<1>1. CASE UNCHANGED <<vars, convVars>>
    <2>1. IInv'
        BY <1>1, StutterKeeps
    <2>2. ConvInv'
        BY <1>1, ConversationLeft DEF vars, agentVars
    <2>3. QED
        BY <2>1, <2>2
<1>2. ASSUME NEW stimuli \in 0..MaxStimuli, NEW tokens \in 1..MaxTokens,
             CallAnswered(stimuli, tokens)
      PROVE  IInv' /\ ConvInv'
    <2>1. Next
        BY <1>2 DEF CallAnswered, Next
    <2>2. QED
        BY <1>2, <2>1, NextIInv, AnsweredKeeps
<1>3. CASE Restarting
    BY <1>3, NextIInv, RestartingKeeps DEF Restarting, Next
<1>4. CASE CallFails
    BY <1>4, NextIInv, FailedKeeps DEF CallFails, Next
<1>5. CASE CallRaises
    BY <1>5, NextIInv, RaisedKeeps DEF CallRaises, Next
<1>6. CASE /\ UNCHANGED convVars
           /\ \/ EndSimulation \/ SendStimulus \/ ReturnPlaceholder
              \/ \E hits \in 0..(BinCount - dut_hits) : Simulate(hits)
              \/ Finish \/ Stopped
    <2>1. UNCHANGED convVars => ConvInv'
        <3>1. /\ UNCHANGED <<total_msg_cnt, msg_index, best_messages,
                             best_iter_buffer_resetting>>
              /\ pc' = "crashed" <=> pc = "crashed"
            BY <1>6 DEF EndSimulation, SendStimulus, ReturnPlaceholder, Simulate, Finish,
                        Stopped, Send, vars, agentVars
        <3>2. QED
            BY <3>1, ConversationLeft
    <2>2. Next
        BY <1>6 DEF Next
    <2>3. QED
        BY <1>6, <2>1, <2>2, NextIInv
<1>7. QED
    BY <1>1, <1>2, <1>3, <1>4, <1>5, <1>6 DEF NextConversation

-----------------------------------------------------------------------------
(* What is sent to the model.                                              *)

\* The invariant of the agent and that of its conversation hold in every run of
\* the two together.
THEOREM ConversationInvariance == SpecConversation => [](IInv /\ ConvInv)
<1>1. InitConversation => IInv /\ ConvInv
    BY InitIInv, InitConvInv DEF InitConversation
<1>2. IInv /\ ConvInv /\ [NextConversation]_<<vars, convVars>> => (IInv /\ ConvInv)'
    BY ConversationStep
<1>3. QED
    BY <1>1, <1>2, PTL DEF SpecConversation

\* The conversation in one place: the prompt, if any, then an orderly rest.
LEMMA Whole ==
    ASSUME IInv, ConvInv, ~OpeningTwice
    PROVE  \E p \in {0, 1}, l \in Nat, b \in Seq(Msg), s \in Seq(Msg) :
                /\ s = messages /\ Len(s) = p + l
                /\ p = Len(Opening) /\ l = Len(b) /\ b = Body
                /\ \A i \in 1..p : s[i] = Opening[i] /\ s[i] = Message("system", 0)
                /\ \A i \in 1..l : s[p + i] = b[i] /\ b[i] \in Msg
                /\ \E last : Orderly(b, last, FirstOfDialog, best_iter_buffer_resetting, algo)
<1>1. PICK o \in Seq(Msg), b \in Seq(Msg), p \in {0, 1}, l \in Nat :
        o = Opening /\ b = Body /\ p = Len(o) /\ l = Len(b)
    <2>1. Opening \in Seq(Msg) /\ Body \in Seq(Msg) /\ Len(Opening) \in {0, 1}
        BY Counts
    <2>2. QED
        BY <2>1
<1>2. PICK s \in Seq(Msg) : /\ s = messages /\ s = o \o b /\ Len(s) = p + l
                            /\ \A i \in 1..p : s[i] = o[i]
                            /\ \A i \in 1..l : s[p + i] = b[i]
    <2>1. /\ o \o b \in Seq(Msg)
          /\ Len(o \o b) = Len(o) + Len(b)
          /\ \A i \in 1..Len(o) : (o \o b)[i] = o[i]
          /\ \A i \in 1..Len(b) : (o \o b)[Len(o) + i] = b[i]
        OBVIOUS
    <2>2. messages = o \o b
        BY <1>1 DEF ConvInv, BodyInv
    <2>3. QED
        BY <1>1, <2>1, <2>2
<1>3. \A i \in 1..p : o[i] = Message("system", 0)
    <2>1. CASE system_prompt
        BY <1>1, <2>1 DEF Opening
    <2>2. CASE ~system_prompt
        BY <1>1, <2>2 DEF Opening
    <2>3. QED
        BY <2>1, <2>2
<1>4. \A i \in 1..l : b[i] \in Msg
    BY <1>1
<1>5. \E last : Orderly(b, last, FirstOfDialog, best_iter_buffer_resetting, algo)
    <2>1. CASE pc = "crashed"
        BY <1>1, <2>1 DEF ConvInv, BodyInv
    <2>2. CASE pc # "crashed"
        BY <1>1, <2>2 DEF ConvInv, BodyInv
    <2>3. QED
        BY <2>1, <2>2
<1>6. /\ s = messages /\ Len(s) = p + l
      /\ p = Len(Opening) /\ l = Len(b) /\ b = Body
      /\ \A i \in 1..p : s[i] = Opening[i] /\ s[i] = Message("system", 0)
      /\ \A i \in 1..l : s[p + i] = b[i] /\ b[i] \in Msg
    BY <1>1, <1>2, <1>3, <1>4
<1>7. QED
    BY <1>5, <1>6, Zenon

\* A conversation that has the opening first begins with it.
LEMMA OpeningFirst ==
    ASSUME NEW s \in Seq(Msg), NEW o \in Seq(Msg), Len(o) <= Len(s),
           \A i \in 1..Len(o) : s[i] = o[i]
    PROVE  FirstN(s, Len(o)) = o
<1>1. PICK n \in Nat, l \in Nat : n = Len(o) /\ l = Len(s) /\ n <= l
    OBVIOUS
<1>2. /\ FirstN(s, n) \in Seq(Msg)
      /\ Len(FirstN(s, n)) = IF n < Len(s) THEN n ELSE Len(s)
      /\ \A i \in 1..Len(FirstN(s, n)) : FirstN(s, n)[i] = s[i]
    BY FirstFew
<1>3. PICK x \in Seq(Msg) : x = FirstN(s, n)
    BY <1>2
<1>4. Len(x) = n
    BY <1>1, <1>2, <1>3
<1>5. \A i \in 1..n : x[i] = o[i]
    BY <1>1, <1>2, <1>3, <1>4
<1>6. x = o
    BY <1>1, <1>4, <1>5, SameElements
<1>7. QED
    BY <1>1, <1>3, <1>6

\* However many messages are asked, what is sent to the model is bounded by the
\* number of messages a compression keeps (llm_gpt.py:85).
THEOREM ConversationBounded == SpecConversation => []BoundedConversation
<1>1. ConvInv => BoundedConversation
    BY DEF ConvInv
<1>2. QED
    BY <1>1, ConversationInvariance, PTL

\* What is sent begins with the system prompt, when there is one, and goes on
\* with the user and the assistant in turn, over every compression, restart and
\* failed call.
THEOREM TurnsAlternate == SpecConversation => []Alternating
<1>1. IInv /\ ConvInv => Alternating
    <2> SUFFICES ASSUME IInv, ConvInv, ~OpeningTwice
                 PROVE  /\ FirstN(messages, Len(Opening)) = Opening
                        /\ \A i \in 1..(Len(messages) - Len(Opening)) :
                                messages[i + Len(Opening)].role = Turn(i)
        BY DEF Alternating
    <2>1. PICK p \in {0, 1}, l \in Nat, b \in Seq(Msg), s \in Seq(Msg) :
            /\ s = messages /\ Len(s) = p + l
            /\ p = Len(Opening) /\ l = Len(b)
            /\ \A i \in 1..p : s[i] = Opening[i]
            /\ \A i \in 1..l : s[p + i] = b[i]
            /\ \E last : Orderly(b, last, FirstOfDialog, best_iter_buffer_resetting, algo)
        BY Whole
    <2>2. FirstN(messages, Len(Opening)) = Opening
        <3>1. PICK o \in Seq(Msg) : o = Opening
            BY OpeningIs
        <3>2. Len(o) <= Len(s) /\ \A i \in 1..Len(o) : s[i] = o[i]
            BY <2>1, <3>1
        <3>3. FirstN(s, Len(o)) = o
            BY <3>2, OpeningFirst
        <3>4. QED
            BY <2>1, <3>1, <3>3
    <2>3. ASSUME NEW i \in 1..(Len(messages) - Len(Opening))
          PROVE  messages[i + Len(Opening)].role = Turn(i)
        <3>1. i \in 1..l
            BY <2>1, <2>3
        <3>2. i + p = p + i
            BY <3>1
        <3>3. b[i].role = Turn(i)
            BY <2>1, <3>1 DEF Orderly, Turns
        <3>4. QED
            BY <2>1, <3>1, <3>2, <3>3
    <2>4. QED
        BY <2>2, <2>3
<1>2. QED
    BY <1>1, ConversationInvariance, PTL

\* However often it is compressed, a conversation begins with the first query of
\* its dialog and the answer to it, and under CLEAR it holds nothing of the
\* dialogs before.
THEOREM AboutItsDialog == SpecConversation => []OwnDialog
<1>1. IInv /\ ConvInv => OpeningKept
    <2> SUFFICES ASSUME IInv, ConvInv, best_iter_buffer_resetting # "KEEP"
                 PROVE  /\ FirstN(messages, Len(Opening)) = Opening
                        /\ pc # "crashed" /\ msg_index > 0 =>
                            SubSeq(messages, Len(Opening) + 1, Len(Opening) + 2)
                                = Pair(FirstOfDialog)
        BY DEF OpeningKept
    <2>1. ~OpeningTwice
        BY DEF OpeningTwice
    <2>2. PICK p \in {0, 1}, l \in Nat, b \in Seq(Msg), s \in Seq(Msg) :
            /\ s = messages /\ Len(s) = p + l
            /\ p = Len(Opening) /\ l = Len(b) /\ b = Body
            /\ \A i \in 1..p : s[i] = Opening[i] /\ s[i] = Message("system", 0)
            /\ \A i \in 1..l : s[p + i] = b[i] /\ b[i] \in Msg
            /\ \E last : Orderly(b, last, FirstOfDialog, best_iter_buffer_resetting, algo)
        BY <2>1, Whole, Zenon
    <2>3. FirstN(messages, Len(Opening)) = Opening
        <3>1. PICK o \in Seq(Msg) : o = Opening
            BY OpeningIs
        <3>2. Len(o) <= Len(s) /\ \A i \in 1..Len(o) : s[i] = o[i]
            BY <2>2, <3>1
        <3>3. FirstN(s, Len(o)) = o
            BY <3>2, OpeningFirst
        <3>4. QED
            BY <2>2, <3>1, <3>3
    <2>4. ASSUME pc # "crashed", msg_index > 0
          PROVE  SubSeq(messages, Len(Opening) + 1, Len(Opening) + 2) = Pair(FirstOfDialog)
        <3>1. /\ l % 2 = 0 /\ b # << >>
              /\ SubSeq(b, 1, 2) = Pair(FirstOfDialog)
            <4>1. Complete(b, msg_index, FirstOfDialog, best_iter_buffer_resetting)
                BY <2>1, <2>2, <2>4 DEF ConvInv, BodyInv
            <4>2. msg_index # 0
                BY <2>4, Counts
            <4>3. QED
                BY <2>2, <4>1, <4>2 DEF Complete
        <3>2. l >= 2
            <4>1. l # 0
                BY <2>2, <3>1
            <4>2. ASSUME l = 1 PROVE FALSE
                BY <3>1, <4>2
            <4>3. QED
                BY <4>1, <4>2
        <3>3. s[p + 1] = b[1] /\ s[p + 2] = b[2]
            BY <2>2, <3>2
        <3>4. SubSeq(s, p + 1, p + 2) = SubSeq(b, 1, 2)
            BY <2>2, <3>2, <3>3
        <3>5. QED
            BY <2>2, <3>1, <3>4
    <2>5. QED
        BY <2>3, <2>4
<1>2. IInv /\ ConvInv => ClearForgets
    <2> SUFFICES ASSUME IInv, ConvInv, best_iter_buffer_resetting = "CLEAR",
                        NEW i \in 1..Len(messages), messages[i].role # "system"
                 PROVE  messages[i].id >= FirstOfDialog
        BY DEF ClearForgets
    <2>1. ~OpeningTwice
        BY DEF OpeningTwice
    <2>2. PICK p \in {0, 1}, l \in Nat, b \in Seq(Msg), s \in Seq(Msg) :
            /\ s = messages /\ Len(s) = p + l /\ l = Len(b)
            /\ \A k \in 1..p : s[k] = Message("system", 0)
            /\ \A k \in 1..l : s[p + k] = b[k]
            /\ \E last : Orderly(b, last, FirstOfDialog, best_iter_buffer_resetting, algo)
        BY <2>1, Whole
    <2>3. i \in 1..(p + l) /\ s[i].role # "system"
        BY <2>2
    <2>4. i \notin 1..p
        BY <2>2, <2>3 DEF Message
    <2>5. PICK k \in 1..l : i = p + k
        <3>1. i - p \in 1..l /\ i = p + (i - p)
            BY <2>3, <2>4
        <3>2. QED
            BY <3>1
    <2>6. b[k].id >= FirstOfDialog
        BY <2>2, <2>5 DEF Orderly, Since
    <2>7. QED
        BY <2>2, <2>5, <2>6
<1>3. QED
    BY <1>1, <1>2, ConversationInvariance, PTL DEF OwnDialog

\* The messages after the opening stand in the order of the run, and under the
\* settings that do not take from two sources no message is sent twice.
THEOREM KeptInOrder == SpecConversation => []InOrder
<1>1. IInv /\ ConvInv => NoRepeats
    <2> SUFFICES ASSUME IInv, ConvInv, best_iter_buffer_resetting = "STABLE",
                        algo # "best_2_recent_1",
                        NEW i \in 1..Len(messages), NEW j \in 1..Len(messages),
                        messages[i] = messages[j]
                 PROVE  i = j
        BY DEF NoRepeats
    <2>1. ~OpeningTwice /\ Careful(best_iter_buffer_resetting, algo)
        BY DEF OpeningTwice, Careful
    <2>2. PICK f : f = FirstOfDialog
        OBVIOUS
    <2>3. PICK p \in {0, 1}, l \in Nat, b \in Seq(Msg), s \in Seq(Msg) :
            /\ s = messages /\ Len(s) = p + l /\ l = Len(b)
            /\ \A k \in 1..p : s[k] = Message("system", 0)
            /\ \A k \in 1..l : s[p + k] = b[k] /\ b[k] \in Msg
            /\ \E last : Orderly(b, last, FirstOfDialog, best_iter_buffer_resetting, algo)
        BY <2>1, Whole
    <2>4. /\ \A k \in 1..l : b[k].role = Turn(k) /\ b[k].role \in {"user", "assistant"}
          /\ \A k \in 1..l : k <= 2 => b[k].id = f
          /\ \A k \in 3..l : b[k].id # f
          /\ \A k, m \in 3..l : k < m => Before(b[k], b[m])
          /\ \A k \in 1..l : b[k].id \in Nat
        <3>1. /\ Turns(b) /\ Opens(b, f) /\ Climbs(b, 3) /\ Avoids(b, 3, f)
            BY <2>1, <2>2, <2>3 DEF Orderly
        <3>2. \A k \in 1..l : Turn(k) \in {"user", "assistant"}
            BY DEF Turn
        <3>3. \A k \in 1..l : b[k].id \in Nat
            BY <2>3, MessagesOf
        <3>4. QED
            BY <2>3, <3>1, <3>2, <3>3 DEF Turns, Opens, Climbs, Avoids
    <2>5. ASSUME NEW k \in 1..l, NEW m \in 1..l, k < m, b[k] = b[m]
          PROVE  FALSE
        <3>1. CASE m <= 2
            <4>1. k = 1 /\ m = 2
                BY <2>5, <3>1
            <4>2. b[1].role = "user" /\ b[2].role = "assistant"
                BY <2>4, <4>1 DEF Turn
            <4>3. QED
                BY <2>5, <4>1, <4>2
        <3>2. CASE m > 2 /\ k <= 2
            BY <2>4, <2>5, <3>2
        <3>3. CASE k > 2
            <4>1. Before(b[k], b[m])
                BY <2>4, <2>5, <3>3
            <4>2. b[k].id \in Nat
                BY <2>4
            <4>3. QED
                BY <2>5, <4>1, <4>2 DEF Before
        <3>4. QED
            BY <2>5, <3>1, <3>2, <3>3
    <2>6. ASSUME NEW x \in 1..(p + l), NEW y \in 1..(p + l), x < y, s[x] = s[y]
          PROVE  FALSE
        <3>1. y > p
            BY <2>6
        <3>2. PICK m \in 1..l : y = p + m
            <4>1. y - p \in 1..l /\ y = p + (y - p)
                BY <3>1
            <4>2. QED
                BY <4>1
        <3>3. s[y].role # "system"
            BY <2>3, <2>4, <3>2
        <3>4. x > p
            <4>1. ASSUME x \in 1..p PROVE FALSE
                <5>1. s[x].role = "system"
                    BY <2>3, <4>1 DEF Message
                <5>2. QED
                    BY <2>6, <3>3, <5>1
            <4>2. QED
                BY <4>1
        <3>5. PICK k \in 1..l : x = p + k
            <4>1. x - p \in 1..l /\ x = p + (x - p)
                BY <3>4
            <4>2. QED
                BY <4>1
        <3>6. k < m /\ b[k] = b[m]
            BY <2>3, <2>6, <3>2, <3>5
        <3>7. QED
            BY <2>5, <3>6
    <2>7. i \in 1..(p + l) /\ j \in 1..(p + l) /\ s[i] = s[j]
        BY <2>3
    <2>8. QED
        BY <2>6, <2>7
<1>2. ASSUME IInv, ConvInv, ~OpeningTwice,
             NEW i \in (Len(Opening) + 3)..Len(messages),
             NEW j \in (Len(Opening) + 3)..Len(messages), i < j
      PROVE  messages[i].id <= messages[j].id
    <2>1. PICK p \in {0, 1}, l \in Nat, b \in Seq(Msg), s \in Seq(Msg) :
            /\ s = messages /\ Len(s) = p + l /\ p = Len(Opening) /\ l = Len(b)
            /\ \A k \in 1..l : s[p + k] = b[k]
            /\ \E last : Orderly(b, last, FirstOfDialog, best_iter_buffer_resetting, algo)
        BY <1>2, Whole
    <2>2. PICK k \in 3..l, m \in 3..l : i = p + k /\ j = p + m /\ k < m
        <3>1. i \in (p + 3)..(p + l) /\ j \in (p + 3)..(p + l)
            BY <2>1
        <3>2. /\ i - p \in 3..l /\ j - p \in 3..l /\ i - p < j - p
              /\ i = p + (i - p) /\ j = p + (j - p)
            BY <1>2, <3>1
        <3>3. QED
            BY <3>2
    <2>3. b[k].id <= b[m].id
        BY <2>1, <2>2 DEF Orderly, Rises
    <2>4. QED
        BY <2>1, <2>2, <2>3
<1>3. IInv /\ ConvInv => InOrder
    BY <1>1, <1>2 DEF InOrder
<1>4. QED
    BY <1>3, ConversationInvariance, PTL
=============================================================================
