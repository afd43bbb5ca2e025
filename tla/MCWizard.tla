------------------------------ MODULE MCWizard ------------------------------
(***************************************************************************)
(* Wizard for TLC: a VM with two RestorePoints of the same disk, and a VM  *)
(* of the same name in another namespace, the RestorePoint of which has    *)
(* the name of one of the first VM's.                                      *)
(***************************************************************************)
EXTENDS Wizard, TLC

CONSTANTS p1, p2, p3

PVC(name) == [pvc |-> TRUE, name |-> name]
Other(name) == [pvc |-> FALSE, name |-> name]

MCMeta ==
    p1 :> [ns |-> "a", name |-> "rp1", app |-> "vm", appNs |-> "a", vm |-> TRUE, created |-> 1,
           nested |-> {PVC("disk1")}, flat |-> {}]
    @@ p2 :> [ns |-> "a", name |-> "rp2", app |-> "vm", appNs |-> "a", vm |-> TRUE, created |-> 2,
              nested |-> {PVC("disk1"), Other("config")}, flat |-> {}]
    @@ p3 :> [ns |-> "b", name |-> "rp1", app |-> "vm", appNs |-> "b", vm |-> TRUE, created |-> 2,
              nested |-> {PVC("")}, flat |-> {PVC("root")}]

=============================================================================
