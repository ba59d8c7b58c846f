----------------------------- MODULE MCDatabase -----------------------------
(***************************************************************************)
(* Small instances of Database for TLC: the identifiers are model values   *)
(* of the configurations, and the databases that a file may have been read *)
(* into are given here, in the shape the XML parser leaves them in.        *)
(***************************************************************************)
EXTENDS Database, Functions

CONSTANTS
    r, a, e1, e2, n1, n2, b1, c1,
    clock,          \* in a scope in which time passes
    Scopes          \* bound: what a behaviour may contain, one set for each scope

VARIABLE scope      \* the one this behaviour keeps to

\* Everything in the database is of the scope.  A run has several where no
\* property is about all they contain together.
Within ==
    /\ DOMAIN groups \cup DOMAIN entries \cup DOMAIN icons \cup Range(attachments) \subseteq scope
    /\ \A f \in MetaFields : meta[f] # None => f \in scope
    /\ now > 0 => clock \in scope

MCInit == Init /\ scope \in Scopes /\ Within

MCSpec == MCInit /\ [][Next /\ UNCHANGED scope /\ Within']_<<vars, scope>>

NoDatabases == {}

\* Two entries and a history version that share one binary, in one of them
\* under two names, as KeePassXC writes them when a file is attached twice.
SharedBinary ==
    LET attached(N) == [NewVersion(r, 0) EXCEPT !.attachments = [n \in N |-> 0]]
    IN {[NewDatabase EXCEPT
           !.groups = [g \in {r} |-> [NewGroup(None, 0) EXCEPT !.entries = {e1, e2}]],
           !.entries = [e \in {e1, e2} |->
               IF e = e1 THEN <<attached({n1, n2}), attached({n1})>> ELSE <<attached({n1})>>],
           !.attachments = [i \in {0} |-> b1]]}

\* A group whose last visible entry is one of a subgroup, and an icon in use by
\* the group, the entry and the entry's history.
IconsAndHints ==
    LET shown == [NewVersion(a, 0) EXCEPT !.icon = c1]
    IN {[NewDatabase EXCEPT
           !.groups = [g \in {r, a} |->
               IF g = r THEN [NewGroup(None, 0) EXCEPT !.groups = {a}, !.ltve = e1]
                        ELSE [NewGroup(r, 0) EXCEPT !.entries = {e1}, !.icon = c1]],
           !.entries = [e \in {e1} |-> <<shown, shown>>],
           !.icons = [c \in {c1} |-> [groups |-> {a}, mtime |-> 0]]]}
SharedObjects == SharedBinary \cup IconsAndHints
=============================================================================
