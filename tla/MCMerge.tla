------------------------------ MODULE MCMerge ------------------------------
(***************************************************************************)
(* Small instances of Merge for TLC: what the two copies have in common.   *)
(***************************************************************************)
EXTENDS Merge, TLC

CONSTANTS r, a, b, e1, c1, x, y

\* Two groups side by side, an entry in one of them
Siblings ==
    [NewDatabase EXCEPT
       !.groups = [g \in {r, a, b} |->
           CASE g = r -> [NewGroup(None, 0) EXCEPT !.groups = {a, b}]
             [] g = a -> [NewGroup(r, 0) EXCEPT !.entries = {e1}]
             [] g = b -> NewGroup(r, 0)],
       !.entries = [e \in {e1} |-> <<NewVersion(a, 0)>>]]

\* A group in a group, an entry at the bottom
Nested ==
    [NewDatabase EXCEPT
       !.groups = [g \in {r, a, b} |->
           CASE g = r -> [NewGroup(None, 0) EXCEPT !.groups = {a}]
             [] g = a -> [NewGroup(r, 0) EXCEPT !.groups = {b}]
             [] g = b -> [NewGroup(a, 0) EXCEPT !.entries = {e1}]],
       !.entries = [e \in {e1} |-> <<NewVersion(b, 0)>>]]

\* One group with an icon, and room for another and for an entry
Small ==
    [NewDatabase EXCEPT
       !.groups = [g \in {r, a} |-> IF g = r THEN [NewGroup(None, 0) EXCEPT !.groups = {a}]
                                             ELSE [NewGroup(r, 0) EXCEPT !.icon = c1]],
       !.icons = [c \in {c1} |-> [groups |-> {a}, mtime |-> 0]]]

Three == {Siblings, Nested, Small}

JustNested == {Nested}

Alike == Permutations({x, y})
=============================================================================
