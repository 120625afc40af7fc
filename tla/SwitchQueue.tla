----------------------------- MODULE SwitchQueue -----------------------------
(***************************************************************************)
(* What the switch guard promises: switch requests are served one at a     *)
(* time, in the order in which they were made, and each of them ends.      *)
(***************************************************************************)
EXTENDS Sequences

CONSTANT Tasks

VARIABLES waiting, running, ended

vars == <<waiting, running, ended>>

Known(t) == t \in running \cup ended \/ \E i \in DOMAIN waiting : waiting[i] = t

Init == waiting = <<>> /\ running = {} /\ ended = {}

Request(t) ==
  /\ ~Known(t)
  /\ \/ waiting' = Append(waiting, t) /\ running' = running
     \/ waiting = <<>> /\ running = {} /\ running' = {t} /\ waiting' = waiting
  /\ ended' = ended

Serve ==
  /\ running = {} /\ waiting # <<>>
  /\ running' = {Head(waiting)}
  /\ waiting' = Tail(waiting)
  /\ ended' = ended

Finish ==
  /\ running # {}
  /\ ended' = ended \cup running
  /\ running' = {}
  /\ waiting' = waiting

Next == (\E t \in Tasks : Request(t)) \/ Serve \/ Finish

Spec == Init /\ [][Next]_vars

FairSpec == Spec /\ WF_vars(Serve) /\ WF_vars(Finish)
=============================================================================
