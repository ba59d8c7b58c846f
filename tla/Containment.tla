---------------------------- MODULE Containment ----------------------------
(***************************************************************************)
(* What a KeePass database promises about who contains whom, with none of  *)
(* the machinery that keeps the promise: one tree of groups under a root   *)
(* that is never moved or removed, every entry in exactly one group, and   *)
(* the removal of a group taking with it exactly what lies below it.       *)
(*                                                                         *)
(* The library represents this tree twice, by parent pointers and by child *)
(* sets, and consults one or the other; here there are parents only.       *)
(***************************************************************************)
CONSTANTS GroupIds, EntryIds, Root, None

VARIABLES
    parentOf,   \* group -> its parent, None for the root
    homeOf      \* entry -> the group it is in

vars == <<parentOf, homeOf>>

\* The groups on the way from g to the root, g included
Chain(par, g) ==
    {x \in DOMAIN par :
        \A S \in SUBSET DOMAIN par :
            g \in S /\ (\A y \in S : par[y] \in DOMAIN par => par[y] \in S) => x \in S}

Below(par, g) == {x \in DOMAIN par : g \in Chain(par, x)}

Extend(f, x, v) == [y \in DOMAIN f \cup {x} |-> IF y = x THEN v ELSE f[y]]

IsTree(par) ==
    /\ DOMAIN par \subseteq GroupIds
    /\ Root \in DOMAIN par /\ par[Root] = None
    /\ \A g \in DOMAIN par \ {Root} : par[g] \in DOMAIN par
    /\ \A g \in DOMAIN par : Root \in Chain(par, g)

Init ==
    /\ IsTree(parentOf)
    /\ DOMAIN homeOf \subseteq EntryIds
    /\ \A e \in DOMAIN homeOf : homeOf[e] \in DOMAIN parentOf

----------------------------------------------------------------------------
AddGroup(p, g) ==
    /\ g \notin DOMAIN parentOf
    /\ parentOf' = Extend(parentOf, g, p)
    /\ UNCHANGED homeOf

AddEntry(p, e) ==
    /\ e \notin DOMAIN homeOf
    /\ homeOf' = Extend(homeOf, e, p)
    /\ UNCHANGED parentOf

MoveGroup(g, q) ==
    /\ g # Root
    /\ parentOf' = [parentOf EXCEPT ![g] = q]
    /\ UNCHANGED homeOf
    /\ g \notin Chain(parentOf, q)

MoveEntry(e, q) ==
    /\ homeOf' = [homeOf EXCEPT ![e] = q]
    /\ UNCHANGED parentOf

RemoveGroup(g) ==
    /\ g # Root
    /\ LET gone == Below(parentOf, g)
       IN /\ parentOf' = [x \in DOMAIN parentOf \ gone |-> parentOf[x]]
          /\ homeOf' = [e \in {x \in DOMAIN homeOf : homeOf[x] \notin gone} |-> homeOf[e]]

RemoveEntry(e) ==
    /\ homeOf' = [x \in DOMAIN homeOf \ {e} |-> homeOf[x]]
    /\ UNCHANGED parentOf

Next ==
    \/ \E p \in DOMAIN parentOf, g \in GroupIds : AddGroup(p, g)
    \/ \E p \in DOMAIN parentOf, e \in EntryIds : AddEntry(p, e)
    \/ \E g, q \in DOMAIN parentOf : MoveGroup(g, q)
    \/ \E e \in DOMAIN homeOf, q \in DOMAIN parentOf : MoveEntry(e, q)
    \/ \E g \in DOMAIN parentOf : RemoveGroup(g)
    \/ \E e \in DOMAIN homeOf : RemoveEntry(e)

Spec == Init /\ [][Next]_vars
=============================================================================
