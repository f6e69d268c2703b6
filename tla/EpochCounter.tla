---------------------------- MODULE EpochCounter ----------------------------
(***************************************************************************)
(* What the metastore's epoch generator promises its callers (spec.md 2,   *)
(* Metastore Adapter, and 6: "a GenEpoch() -> int64 helper implemented as  *)
(* a transactional UPDATE epoch = epoch + 1; SELECT epoch").  The counter  *)
(* record is created once, with the minimum epoch.  Each GenEpoch that     *)
(* takes effect is one atomic step: the counter goes up by one, and the    *)
(* new value is the epoch that call hands out.  A call that fails takes no *)
(* step.                                                                   *)
(***************************************************************************)
EXTENDS Naturals, Sequences

CONSTANT MinEpoch

VARIABLES
  hasEpoch,  \* the counter record exists
  epoch,     \* its committed value
  given      \* the epochs handed out, in the order they took effect

vars == <<hasEpoch, epoch, given>>

Init ==
  /\ hasEpoch = FALSE
  /\ epoch = 0
  /\ given = << >>

(* The first record is created with the minimum epoch.                     *)
Create ==
  /\ ~hasEpoch
  /\ hasEpoch' = TRUE
  /\ epoch' = MinEpoch
  /\ UNCHANGED given

(* One GenEpoch takes effect: increment and read, as one step.             *)
Gen ==
  /\ hasEpoch
  /\ epoch' = epoch + 1
  /\ given' = Append(given, epoch + 1)
  /\ UNCHANGED hasEpoch

Next == Create \/ Gen

Spec == Init /\ [][Next]_vars

=============================================================================
