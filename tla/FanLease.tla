------------------------------- MODULE FanLease -------------------------------
(***************************************************************************)
(* What the fan control promises, whoever fails: the fans leave the        *)
(* firmware only under a lease, a lease starts only while manual control   *)
(* is granted and lasts one control tick, and once the grant is withdrawn  *)
(* the fans go back to the firmware.                                       *)
(***************************************************************************)
VARIABLES
  granted,   \* the persisted policy asks for manual control
  leased,    \* a tick of manual control is under way
  manual     \* the firmware does not control every fan

vars == <<granted, leased, manual>>

TypeOK == granted \in BOOLEAN /\ leased \in BOOLEAN /\ manual \in BOOLEAN

Init == ~granted /\ ~leased /\ ~manual

Grant == granted' = TRUE /\ UNCHANGED <<leased, manual>>
Revoke == granted' = FALSE /\ UNCHANGED <<leased, manual>>
Take == granted /\ leased' = TRUE /\ UNCHANGED <<granted, manual>>
Drive == leased /\ manual' = TRUE /\ UNCHANGED <<granted, leased>>

\* The fans go back to the firmware, the lease ends, or both.
GiveBack ==
  /\ leased' \in BOOLEAN /\ (leased' => leased)
  /\ manual' \in BOOLEAN /\ (manual' => manual)
  /\ UNCHANGED granted

Next == Grant \/ Revoke \/ Take \/ Drive \/ GiveBack

Spec == Init /\ [][Next]_vars

\* A grant that stays withdrawn frees the fans for good or until the next one:
\* nothing the code does may leave them manual for ever.
Freed == [](~granted => <>(granted \/ (~leased /\ ~manual)))
=============================================================================
