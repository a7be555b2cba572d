-------------------------- MODULE WriteBehindTable --------------------------
(***************************************************************************)
(* What JobStore promises with group commit (include/jobengine/store.hpp:  *)
(* 55-63): a table whose readers see every write at once, behind it a disk  *)
(* that follows and never goes back, and a crash that takes the table back  *)
(* to the disk.  A failed transaction may do the same, and is reported.    *)
(* A row is the number of the write that made it; 0 is no row.             *)
(***************************************************************************)
EXTENDS Naturals

CONSTANT Ids

VARIABLES
  table,    \* what get_job returns
  disk,     \* what a crash leaves
  error     \* inserts report a failure

vars == <<table, disk, error>>

Init ==
  /\ table = [i \in Ids |-> 0]
  /\ disk = [i \in Ids |-> 0]
  /\ error = FALSE

\* Every row table and disk change to is one the table held or a newer one.
Write ==
  /\ \A i \in Ids : table'[i] >= table[i]
  /\ UNCHANGED <<disk, error>>

\* Rows inserted past the buffer are on disk when they appear.
WriteThrough ==
  /\ \A i \in Ids : \/ table'[i] = table[i] /\ disk'[i] = disk[i]
                    \/ table[i] = 0 /\ table'[i] > 0 /\ disk'[i] = table'[i]
  /\ UNCHANGED error

Sync ==
  /\ \A i \in Ids : disk[i] <= disk'[i] /\ disk'[i] <= table[i]
  /\ UNCHANGED <<table, error>>

Lose ==
  /\ error' = TRUE
  /\ \A i \in Ids : table'[i] \in {table[i], disk[i]}
  /\ UNCHANGED disk

Crash ==
  /\ table' = disk
  /\ error' = FALSE
  /\ UNCHANGED disk

Next == Write \/ WriteThrough \/ Sync \/ Lose \/ Crash

Spec == Init /\ [][Next]_vars
=============================================================================
