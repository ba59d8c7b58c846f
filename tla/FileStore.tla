------------------------------ MODULE FileStore ------------------------------
(***************************************************************************)
(* What a user may rely on when databases are kept in files: a file that   *)
(* was written to the end opens to what was written, with its key; one     *)
(* that was not may not open, but never opens to anything else than one    *)
(* of the databases that were being written to it, or were there before.   *)
(***************************************************************************)
CONSTANTS
    Paths,
    None,
    Content(_),         \* what opens of a save
    Fits(_, _),         \* this key is the one of that save,
    Always(_, _)        \* and opens it whatever is plugged in

NoDatabase == [kind |-> "error"]

VARIABLES
    may,        \* the saves that may be at a path
    sure,       \* the paths where the only one of them is, whole
    asked,      \* the path and the key of the call of open in progress, or None
    answer      \* what it returned, or None

storeVars == <<may, sure, asked, answer>>

Init ==
    /\ DOMAIN may = Paths /\ sure \subseteq Paths
    /\ asked = None /\ answer = None

Ask ==
    /\ asked = None /\ asked' # None
    /\ asked'[1] \in Paths
    /\ UNCHANGED <<may, sure, answer>>

Answer ==
    /\ asked # None /\ answer = None
    /\ \/ \E s \in may[asked[1]] : Fits(asked[2], s) /\ answer' = Content(s)
       \/ /\ answer' = NoDatabase
          /\ asked[1] \in sure => \A s \in may[asked[1]] : ~Always(asked[2], s)
    /\ UNCHANGED <<may, sure, asked>>

\* The caller goes on, or is no more.
Forget ==
    /\ asked # None /\ asked' = None /\ answer' = None
    /\ UNCHANGED <<may, sure>>

\* Nothing is left at p of what was there.
Create ==
    /\ asked = None
    /\ \E p \in Paths : may' = [may EXCEPT ![p] = {}] /\ sure' = sure \ {p}
    /\ UNCHANGED <<asked, answer>>

\* A save, the one that is added, is being written to p.
Write ==
    /\ asked = None
    /\ \E p \in Paths :
         /\ may[p] \subseteq may'[p] /\ may' = [may EXCEPT ![p] = may'[p]]
         /\ sure' = sure \ {p}
    /\ UNCHANGED <<asked, answer>>

\* It is there.
Commit ==
    /\ asked = None
    /\ \E p \in Paths : \E s \in may[p] : may' = [may EXCEPT ![p] = {s}] /\ sure' = sure \cup {p}
    /\ UNCHANGED <<asked, answer>>

Next == Ask \/ Answer \/ Forget \/ Create \/ Write \/ Commit

Spec == Init /\ [][Next]_storeVars
=============================================================================
