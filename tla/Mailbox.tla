------------------------------ MODULE Mailbox ------------------------------
(***************************************************************************)
(* What the control plane promises about a numbered request that the sync  *)
(* loop carries out later: the Plan and Apply halves of PlanSlot,          *)
(* src/src/daemon.rs.  A client books a request, gets its number and polls *)
(* until a number at least as large is answered.  An answer may cover      *)
(* several bookings, but only work begun after a booking answers it.       *)
(***************************************************************************)
EXTENDS Naturals

VARIABLES
  booked,    \* the number of the last request
  working,   \* the number the work in progress will answer, 0 for no work
  answered   \* the number of the last request answered

mailbox == <<booked, working, answered>>

Init == booked = 0 /\ working = 0 /\ answered = 0

Book == booked' = booked + 1 /\ UNCHANGED <<working, answered>>

Begin ==
  /\ working = 0 /\ answered < booked
  /\ working' = booked
  /\ UNCHANGED <<booked, answered>>

Finish ==
  /\ working > 0
  /\ answered' = working /\ working' = 0
  /\ UNCHANGED booked

(* Answered without any work: refused. *)
Refuse ==
  /\ working = 0 /\ answered < booked
  /\ answered' = booked
  /\ UNCHANGED <<booked, working>>

(* The daemon restarts: requests live in its memory. *)
Restart == booked' = 0 /\ working' = 0 /\ answered' = 0

Next == Book \/ Begin \/ Finish \/ Refuse \/ Restart

Spec == Init /\ [][Next]_mailbox

(* Between an answer and its booking: what polling clients rely on. *)
Ordered ==
  /\ booked \in Nat /\ working \in Nat /\ answered \in Nat
  /\ answered <= booked
  /\ working > 0 => answered < working /\ working <= booked
=============================================================================
