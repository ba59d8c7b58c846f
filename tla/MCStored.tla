------------------------------ MODULE MCStored ------------------------------
(***************************************************************************)
(* The small instances of MCDatabase, saved and opened again.              *)
(***************************************************************************)
EXTENDS MCDatabase, Stored

MCStoredSpec == MCInit /\ [][StoredNext /\ UNCHANGED scope /\ Within']_<<vars, scope>>
=============================================================================
