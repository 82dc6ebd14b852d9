---------------------------- MODULE BestMessages ----------------------------
(***************************************************************************)
(* The buffer of successful iterative messages a language-model wrapper    *)
(* keeps (models/llm_base.py).  An entry [id, hit] is appended when the    *)
(* model answers, with the coverage score of that moment in `hit`, and     *)
(* updated when its stimuli have been simulated, with the score gained.    *)
(*                                                                         *)
(* In the code it is one list, sorted by (hit, id) in decreasing order     *)
(* after every update, so it is always a sorted part followed by what was  *)
(* appended since.  Ids are distinct, which makes the order total: the     *)
(* sorted part is the set `ranked`, and only `fresh` needs a sequence.     *)
(***************************************************************************)
EXTENDS Naturals, Sequences, FiniteSets

CONSTANT BestCap    \* REMAIN_ITER_NUM * 3 in the code

ASSUME BestCapAssumption == BestCap \in Nat \ {0}

NoMessages == [ranked |-> {}, fresh |-> << >>]

\* Every entry of the list.
Entries(best) == best.ranked \cup {best.fresh[i] : i \in DOMAIN best.fresh}

\* a comes before b in the list sorted by (hit, id), reversed.
Precedes(a, b) == a.hit > b.hit \/ (a.hit = b.hit /\ a.id > b.id)

\* best_messages[-1]; the list is not empty.
LastMessage(best) ==
    IF best.fresh # << >>
    THEN best.fresh[Len(best.fresh)]
    ELSE CHOOSE e \in best.ranked : \A f \in best.ranked \ {e} : Precedes(f, e)

append_successful(best, id, score) ==
    [best EXCEPT !.fresh = Append(@, [id |-> id, hit |-> score])]

\* When the last place worth keeping is tied with the first, all ties stay.
Retained(entries) ==
    LET ties == {e \in entries : \A f \in entries : f.hit <= e.hit}
    IN  IF Cardinality(ties) >= BestCap
        THEN ties
        ELSE {e \in entries : Cardinality({f \in entries : Precedes(f, e)}) < BestCap}

\* Faulty: the score is not compared with the one at the answer.
update_successful_Total(best, score) ==
    LET last    == LastMessage(best)
        settled == [last EXCEPT !.hit = score]
    IN  [ranked |-> Retained((Entries(best) \ {last}) \cup {settled}),
         fresh  |-> << >>]

update_successful(best, score) ==
    LET last    == LastMessage(best)
        settled == [last EXCEPT !.hit = score - @]
    IN  [ranked |-> Retained((Entries(best) \ {last}) \cup {settled}),
         fresh  |-> << >>]
=============================================================================
