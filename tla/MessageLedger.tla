---------------------------- MODULE MessageLedger ----------------------------
(***************************************************************************)
(* What a trial promises about its messages, whatever the restart plan,    *)
(* the model and the design under test do: messages are asked one at a     *)
(* time, at most Bound of them; each is judged, once, before the next is   *)
(* asked; nothing is asked or judged after the trial has stopped; and the  *)
(* trial stops.                                                            *)
(***************************************************************************)
EXTENDS Naturals

CONSTANT Bound  \* a natural number

VARIABLES asked, judged, running

vars == <<asked, judged, running>>

Init == asked = 0 /\ judged = 0 /\ running = TRUE

Ask ==
    /\ running
    /\ judged = asked
    /\ asked < Bound
    /\ asked' = asked + 1
    /\ UNCHANGED <<judged, running>>

Judge ==
    /\ running
    /\ judged < asked
    /\ judged' = judged + 1
    /\ UNCHANGED <<asked, running>>

Stop ==
    /\ running
    /\ running' = FALSE
    /\ UNCHANGED <<asked, judged>>

Next == Ask \/ Judge \/ Stop

Spec == Init /\ [][Next]_vars /\ WF_vars(Next)
=============================================================================
