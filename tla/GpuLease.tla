------------------------------ MODULE GpuLease ------------------------------
(***************************************************************************)
(* What a qualification run promises about the GPUs, with nothing of how:  *)
(* production lends them, test servers take turns on them while they are   *)
(* lent, and once production has them back no test server gets them again. *)
(* No hand-over is direct: the GPUs lie idle in between.                   *)
(***************************************************************************)
VARIABLES
  holder,   \* who computes on the GPUs
  lease     \* not lent yet, lent, or given back

leaseVars == <<holder, lease>>

LeaseTypeOK ==
  /\ holder \in {"production", "nobody", "test"}
  /\ lease \in {"closed", "open", "returned"}

LeaseInit == holder \in {"production", "nobody"} /\ lease = "closed"

\* Only a production server that holds the GPUs lends them.
Lend    == lease = "closed" /\ holder = "production" /\ lease' = "open"
             /\ UNCHANGED holder
Vacate  == lease = "open" /\ holder = "production" /\ holder' = "nobody"
             /\ UNCHANGED lease
Acquire == lease = "open" /\ holder = "nobody" /\ holder' = "test"
             /\ UNCHANGED lease
Release == lease = "open" /\ holder = "test" /\ holder' = "nobody"
             /\ UNCHANGED lease
Return  == lease = "open" /\ holder = "nobody" /\ holder' = "production"
             /\ lease' = "returned"

LeaseNext == Lend \/ Vacate \/ Acquire \/ Release \/ Return

LeaseSpec == LeaseInit /\ [][LeaseNext]_leaseVars
=============================================================================
