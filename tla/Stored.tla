------------------------------- MODULE Stored -------------------------------
(***************************************************************************)
(* The in-memory database with the file behind it: between its other calls *)
(* it is saved and opened again.                                           *)
(***************************************************************************)
EXTENDS Database, Reopening

\* A database with an open tracker is borrowed, and a removed root cannot be
\* saved: Database::root would panic.
Reopen ==
    /\ trackers = <<>> /\ Root \in DOMAIN groups
    /\ LET d == Reopened([groups |-> groups, entries |-> entries, attachments |-> attachments,
                          icons |-> icons, meta |-> meta, deleted |-> deleted])
       IN /\ groups' = d.groups /\ entries' = d.entries
          /\ attachments' = d.attachments /\ icons' = d.icons
    /\ UNCHANGED <<meta, deleted, trackers, now>>

StoredNext == Next \/ Reopen

StoredSpec == Init /\ [][StoredNext]_vars

----------------------------------------------------------------------------
\* A saved database holds what the one in memory does: no name of a version,
\* live or in history, changes its binary, and no binary that nothing refers to
\* is written (to_xml, and the end of KeePassFile::xml_to_db).
ReopenExact ==
    [][Reopen =>
          /\ Shown(entries', attachments') = Shown(entries, attachments)
          /\ Orphans' = {}]_vars
=============================================================================
