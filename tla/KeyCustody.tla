----------------------------- MODULE KeyCustody -----------------------------
(***************************************************************************)
(* What internal/keymgr promises about the SSH key the helper uses: there  *)
(* is one private key, kept in the cluster; the helper installs it when    *)
(* there is none and never replaces it; whoever runs, runs with the key    *)
(* that is installed at that moment.  Only an operator changes the key.    *)
(***************************************************************************)
EXTENDS Naturals

CONSTANTS
    Pods,   \* helper processes
    Keys,   \* private keys
    None    \* no key

VARIABLES
    installed,  \* the private key in the cluster
    using,      \* the private key each process signs with
    edits       \* how often an operator has intervened

vars == <<installed, using, edits>>

Init ==
    /\ installed = None
    /\ using = [p \in Pods |-> None]
    /\ edits = 0

\* A process without a key puts a new one where there was none, and may use it.
Install(p, k) ==
    /\ installed = None
    /\ installed' = k
    /\ using' \in {using, [using EXCEPT ![p] = k]}
    /\ UNCHANGED edits

Adopt(p) ==
    /\ installed # None
    /\ using' = [using EXCEPT ![p] = installed]
    /\ UNCHANGED <<installed, edits>>

Drop(p) ==
    /\ using' = [using EXCEPT ![p] = None]
    /\ UNCHANGED <<installed, edits>>

Edit(k) ==
    /\ installed' = k
    /\ edits' = edits + 1
    /\ UNCHANGED using

Next ==
    \/ \E p \in Pods : Adopt(p) \/ Drop(p) \/ \E k \in Keys : Install(p, k)
    \/ \E k \in Keys \cup {None} : Edit(k)

Spec == Init /\ [][Next]_vars

=============================================================================
