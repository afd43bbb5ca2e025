--------------------------- MODULE RestorePoints ---------------------------
(***************************************************************************)
(* What the wizard reads of K10's RestorePoints: k8s/restorepoints.go.     *)
(*                                                                         *)
(* The objects belong to the Kubernetes API server; K10 creates and        *)
(* deletes them whenever it likes.  Every list is read afresh, and may     *)
(* fail.  The order of a listing is layout and left out.                   *)
(***************************************************************************)
EXTENDS FiniteSetsExt

CONSTANTS
    Points,     \* the RestorePoint objects there may be
    Meta        \* what is in each: see Object

PVCArtifact == [pvc : BOOLEAN, name : STRING]

(***************************************************************************)
(* namespace and name; the labels appName, appNamespace and whether        *)
(* appType is virtualMachine; creationTimestamp; and the two places in     *)
(* which /details may list its artifacts.                                  *)
(***************************************************************************)
Object == [ns : STRING, name : STRING, app : STRING, appNs : STRING,
           vm : BOOLEAN, created : Nat \ {0},
           nested : SUBSET PVCArtifact, flat : SUBSET PVCArtifact]

\* Names are unique in a namespace, and K10 keeps a RestorePoint in the namespace
\* of its application.
ASSUME CatalogAssumption ==
    /\ IsFiniteSet(Points)
    /\ DOMAIN Meta = Points
    /\ \A p \in Points :
          /\ Meta[p] \in Object
          /\ Meta[p].appNs = Meta[p].ns /\ Meta[p].ns # ""
          /\ \A q \in Points \ {p} :
                <<Meta[p].ns, Meta[p].name>> # <<Meta[q].ns, Meta[q].name>>

VARIABLE points     \* external: the RestorePoints that exist

\* External: K10 runs a policy, or retires a RestorePoint.
K10Changes(p) == points' = (points \ {p}) \cup ({p} \ points)

-----------------------------------------------------------------------------

IsVM(p) == Meta[p].vm

VMOf(p) == [ns |-> Meta[p].appNs, name |-> Meta[p].app]

VMs == {VMOf(p) : p \in Points}

\* Mutant of AddPoint: RPCount++ has slipped into the if.
AddNewerPoint(p, seen) ==
    [seen EXCEPT ![VMOf(p)] =
        IF Meta[p].created > @.time
           THEN [count |-> @.count + 1, time |-> Meta[p].created, last |-> {p}]
           ELSE @]

\* The body of the loop of ListVMs; last is {} until a LastRPName is known.
AddPoint(p, seen) ==
    [seen EXCEPT ![VMOf(p)] =
        IF Meta[p].created > @.time
           THEN [count |-> @.count + 1, time |-> Meta[p].created, last |-> {p}]
           ELSE [count |-> @.count + 1, time |-> @.time, last |-> @.last]]

\* The VMs ListVMs finds, with RPCount, LastRPTime and LastRPName; no namespaces
\* means all.
ListVMs(namespaces) ==
    LET items == {p \in points : IsVM(p) /\ (namespaces # {} => Meta[p].appNs \in namespaces)}
        none == [v \in VMs |-> [count |-> 0, time |-> 0, last |-> {}]]
        seen == FoldSet(AddPoint, none, items)
    IN  [v \in {w \in VMs : seen[w].count > 0} |-> seen[v]]

ListVMNamespaces == {Meta[p].appNs : p \in {q \in points : IsVM(q)}} \ {""}

\* Mutant of ListRestorePoints: the label tells the VMs apart, not the namespace.
ListRestorePointsAnywhere(ns, app) ==
    {p \in points : IsVM(p) /\ Meta[p].app = app}

ListRestorePoints(ns, app) ==
    {p \in points : IsVM(p) /\ Meta[p].ns = ns /\ Meta[p].app = app}

extractNestedPVCDetails(p) ==
    {a.name : a \in {b \in Meta[p].nested : b.pvc /\ b.name # ""}}

extractFlatPVCDetails(p) == {a.name : a \in {b \in Meta[p].flat : b.pvc}}

parseDetailsPVCs(p) ==
    IF extractNestedPVCDetails(p) # {} THEN extractNestedPVCDetails(p)
                                       ELSE extractFlatPVCDetails(p)

\* What GetRestorePointDetails and Get find; without it the API server answers 404.
Found(ns, name) == {p \in points : Meta[p].ns = ns /\ Meta[p].name = name}

\* The columns of the sessions table for an FRS: all of its volumes carry the name of
\* one RestorePoint, which is looked up in the namespace of the FRS.
LookupFRSSource(ns, name) ==
    {[vm |-> VMOf(p), created |-> Meta[p].created] : p \in Found(ns, name)}

-----------------------------------------------------------------------------
(***************************************************************************)
(* Properties                                                              *)
(***************************************************************************)

\* Every RestorePoint of a VM can be reached: its namespace is offered, its VM is
\* listed there, and that row says how many RestorePoints the next list will show
\* and which of them is the latest.
EveryPointIsOffered ==
    \A p \in points : IsVM(p) =>
        LET vm == VMOf(p)
            shown == ListRestorePoints(vm.ns, vm.name)
        IN  /\ vm.ns \in ListVMNamespaces
            /\ \A namespaces \in {{}, {vm.ns}} :
                  LET found == ListVMs(namespaces) IN
                  /\ vm \in DOMAIN found
                  /\ found[vm].count = Cardinality(shown)
                  /\ \E q \in shown : /\ found[vm].last = {q}
                                      /\ \A o \in shown : Meta[o].created <= Meta[q].created

=============================================================================
