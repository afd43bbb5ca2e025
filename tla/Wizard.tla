------------------------------- MODULE Wizard -------------------------------
(***************************************************************************)
(* The recovery wizard: the page (web/templates/wizard.html and initWizard *)
(* in web/static/app.js), the handlers that fill its lists                 *)
(* (handlers/wizard.go) and the POST that creates the FRS.  What becomes   *)
(* of the FRS is in FrsWatch and BrowseFlow.                               *)
(*                                                                         *)
(* htmx is external: it sends a request for a list, and swaps the answer   *)
(* in whenever it comes, in whatever order, if it comes and is a 2xx.      *)
(* After a swap of the volumes it may or may not run the page's            *)
(* htmx:afterRequest handler, which looks at the element the event is for. *)
(* A handler reads the RestorePoints when its answer is swapped in: one    *)
(* that is read earlier is like one that has been on the page for longer.  *)
(***************************************************************************)
EXTENDS RestorePoints

CONSTANTS
    NamespaceWhitelist, \* HELPER_FRS_NAMESPACES; {} if not set
    Volatile,           \* the RestorePoints K10 may create or retire; bounds the changes
    MaxAsked            \* bounds the requests in flight

ASSUME WizardAssumption ==
    /\ NamespaceWhitelist \subseteq STRING
    /\ Volatile \subseteq Points
    /\ MaxAsked \in Nat

VARIABLES
    page,       \* the page the tab shows: "wizard" or "elsewhere"
    nsList,     \* the namespaces the page offers
    vmList,     \* the rows of #vm-list
    rpList,     \* the rows of #rp-list
    volList,    \* the checkboxes of #vol-list
    form,       \* the hidden fields
    disabled,   \* #wizard-submit.disabled
    asked,      \* the requests htmx has sent and not had an answer to
    frs,        \* the form of the FRS the tab has created and was sent on to, if any
    \* history, read by the properties only
    picked,     \* what the user has picked since a VM was chosen
    current,    \* the lists on the page that are for the VM and RestorePoint in the form
    waited,     \* what was picked last from a list that was current, and after a pick like that
    afresh      \* whether boxes have been ticked since the RestorePoint was picked

pageVars == <<page, nsList, vmList, rpList, volList, form, disabled, asked, picked, current, waited,
              afresh>>
vars == <<points, frs, pageVars>>

\* A row that stands for an empty list or for "Loading..." is an <li> without data
\* attributes: its values are undefined, and the fields get the text "undefined".
Placeholder == "undefined"
NoRow == [ns |-> Placeholder, name |-> Placeholder]

\* A field that has been cleared.
Cleared == [ns |-> "", name |-> ""]

VMRows == VMs \cup {NoRow}
RPRow(p) == [ns |-> Meta[p].ns, name |-> Meta[p].name]
RPRows == {RPRow(p) : p \in Points} \cup {NoRow}

\* No RestorePoint "undefined" is in a namespace "undefined", for a placeholder to name.
ASSUME PlaceholderAssumption == \A p \in Points : RPRow(p) # NoRow

\* The checkboxes: a PVC, and the RestorePoint it was read from.
Boxes == UNION {[rp : {p}, pvc : parseDetailsPVCs(p)] : p \in Points}
RowsOr(rows) == IF rows = {} THEN {NoRow} ELSE rows

\* vmNs and vmName, rpName, and pvcNames.  Of rp and of the boxes only the name is
\* sent: the namespace and the RestorePoint they were read from are history.
EmptyForm == [vm |-> Cleared, rp |-> Cleared, pvcs |-> {}]

Picks == {"RestorePoint", "volumes"}

Ask(list, row) == [list |-> list, row |-> row]
Requests == [list : {"vm-list", "rp-list", "vol-list"}, row : VMRows \cup RPRows
                \cup {[ns |-> n, name |-> ""] : n \in {""} \cup {Meta[p].appNs : p \in Points}}]

-----------------------------------------------------------------------------

\* What handleWizardPage renders; #vm-list asks for its rows on load.
FreshPage(namespaces) ==
    /\ page' = "wizard"
    /\ nsList' = namespaces
    /\ vmList' = {NoRow}
    /\ rpList' = {}
    /\ volList' = {}
    /\ form' = EmptyForm
    /\ disabled' = TRUE
    /\ asked' = {Ask("vm-list", Cleared)}
    /\ picked' = {} /\ current' = {} /\ waited' = {} /\ afresh' = FALSE

\* Any other page, the error page included; what is in flight is dropped.
LeavePage ==
    /\ page' = "elsewhere"
    /\ nsList' = {}
    /\ vmList' = {}
    /\ rpList' = {}
    /\ volList' = {}
    /\ form' = EmptyForm
    /\ disabled' = TRUE
    /\ asked' = {}
    /\ picked' = {} /\ current' = {} /\ waited' = {} /\ afresh' = FALSE

Init ==
    /\ points \in {S \in SUBSET Points : Points \ Volatile \subseteq S}
    /\ page = "elsewhere"
    /\ nsList = {} /\ vmList = {} /\ rpList = {} /\ volList = {}
    /\ form = EmptyForm
    /\ disabled = TRUE
    /\ asked = {}
    /\ frs = {}
    /\ picked = {} /\ current = {} /\ waited = {} /\ afresh = FALSE

handleWizardPage ==
    /\ FreshPage(ListVMNamespaces) \/ LeavePage
    /\ frs' = {}
    /\ UNCHANGED points

\* The change listener of #ns-select.
SelectNamespace(ns) ==
    /\ page = "wizard"
    /\ ns \in nsList \cup {""}
    /\ Cardinality(asked) < MaxAsked
    /\ form' = EmptyForm
    /\ disabled' = TRUE
    /\ rpList' = {}
    /\ volList' = {}
    /\ vmList' = {NoRow}
    /\ asked' = asked \cup {Ask("vm-list", [ns |-> ns, name |-> ""])}
    /\ picked' = {} /\ current' = {} /\ waited' = {} /\ afresh' = FALSE
    /\ UNCHANGED <<points, frs, page, nsList>>

\* Mutant of ClickVM: the RestorePoint stays in the form.
ClickVMKeepsPoint(row) ==
    /\ row \in vmList
    /\ Cardinality(asked) < MaxAsked
    /\ form' = [form EXCEPT !.vm = row, !.pvcs = {}]
    /\ disabled' = TRUE
    /\ asked' = asked \cup {Ask("rp-list", row)}
    /\ picked' = {} /\ current' = {} /\ waited' = {} /\ afresh' = FALSE
    /\ UNCHANGED <<points, frs, page, nsList, vmList, rpList, volList>>

\* A click on a row of #vm-list.  The RestorePoints and volumes on the page stay.
ClickVM(row) ==
    /\ row \in vmList
    /\ Cardinality(asked) < MaxAsked
    /\ form' = [vm |-> row, rp |-> Cleared, pvcs |-> {}]
    /\ disabled' = TRUE
    /\ asked' = asked \cup {Ask("rp-list", row)}
    /\ picked' = {} /\ current' = {} /\ waited' = {} /\ afresh' = FALSE
    /\ UNCHANGED <<points, frs, page, nsList, vmList, rpList, volList>>

\* A click on a row of #rp-list.  The volumes, their fields and the button stay.
ClickRP(row) ==
    /\ row \in rpList
    /\ Cardinality(asked) < MaxAsked
    /\ form' = [form EXCEPT !.rp = row]
    /\ asked' = asked \cup {Ask("vol-list", row)}
    /\ picked' = picked \cup {"RestorePoint"}
    /\ waited' = IF "rp-list" \in current THEN waited \cup {"RestorePoint"} ELSE {}
    /\ afresh' = FALSE
    /\ current' = current \ {"vol-list"}
    /\ UNCHANGED <<points, frs, page, nsList, vmList, rpList, volList, disabled>>

\* Mutant of enableSubmitIfVolumesPresent: fields are added, none removed.
AddVolumeFields(checked) ==
    /\ form' = [form EXCEPT !.pvcs = @ \cup checked]
    /\ disabled' = (form'.pvcs = {})

enableSubmitIfVolumesPresent(checked) ==
    /\ form' = [form EXCEPT !.pvcs = checked]
    /\ disabled' = (checked = {})

\* Checkboxes change: from any set of checked boxes the user gets to any other.
Tick(checked) ==
    /\ volList # {}
    /\ checked \subseteq volList
    /\ enableSubmitIfVolumesPresent(checked)
    /\ picked' = picked \cup {"volumes"}
    /\ waited' = IF "vol-list" \in current /\ "RestorePoint" \in waited
                    THEN waited \cup {"volumes"}
                    ELSE waited \ {"volumes"}
    /\ afresh' = TRUE
    /\ UNCHANGED <<current, points, frs, page, nsList, vmList, rpList, volList, asked>>

Swapped(list, asWanted) ==
    current' = IF asWanted THEN current \cup {list} ELSE current \ {list}

\* handleWizardVMs: the namespace asked for, or else the whitelisted ones.
handleWizardVMs(req) ==
    /\ req \in asked /\ req.list = "vm-list"
    /\ LET ns == req.row.ns
           found == ListVMs(IF ns # "" THEN {ns} ELSE NamespaceWhitelist)
       IN  vmList' = RowsOr(DOMAIN found)
    /\ asked' = asked \ {req}
    /\ UNCHANGED <<points, frs, page, nsList, rpList, volList, form, disabled, picked,
                   current, waited, afresh>>

handleWizardRPs(req) ==
    /\ req \in asked /\ req.list = "rp-list"
    /\ rpList' = RowsOr({RPRow(p) : p \in ListRestorePoints(req.row.ns, req.row.name)})
    /\ asked' = asked \ {req}
    /\ Swapped("rp-list", req.row = form.vm)
    /\ UNCHANGED <<points, frs, page, nsList, vmList, volList, form, disabled, picked,
                   waited, afresh>>

\* handleWizardVolumes: all boxes come unchecked.
handleWizardVolumes(req) ==
    /\ req \in asked /\ req.list = "vol-list"
    /\ \E p \in Found(req.row.ns, req.row.name) :
          volList' = [rp : {p}, pvc : parseDetailsPVCs(p)]
    /\ asked' = asked \ {req}
    /\ enableSubmitIfVolumesPresent({}) \/ UNCHANGED <<form, disabled>>
    /\ Swapped("vol-list", req.row = form.rp)
    /\ UNCHANGED <<points, frs, page, nsList, vmList, rpList, picked, waited, afresh>>

\* The answer is an error (renderError's 502, or none at all), and the list stays.
AnswerFails(req) ==
    /\ req \in asked
    /\ asked' = asked \ {req}
    /\ UNCHANGED <<points, frs, page, nsList, vmList, rpList, volList, form, disabled,
                   picked, current, waited, afresh>>

\* The login has expired: RequireAuth's redirect is followed, and the list filled
\* with the login page, which has neither rows nor boxes.
AnswerIsLogin(req) ==
    /\ req \in asked
    /\ asked' = asked \ {req}
    /\ vmList' = IF req.list = "vm-list" THEN {} ELSE vmList
    /\ rpList' = IF req.list = "rp-list" THEN {} ELSE rpList
    /\ volList' = IF req.list = "vol-list" THEN {} ELSE volList
    /\ current' = current \ {req.list}
    /\ UNCHANGED <<points, frs, page, nsList, form, disabled, picked,
                   waited, afresh>>

Missing == form.vm.ns = "" \/ form.vm.name = "" \/ form.rp.name = "" \/ form.pvcs = {}

\* CreateFRS: an object in the VM's namespace with rpName and the PVCs; the browser is
\* sent on to /browse.
CreateFRS == frs' = {[form |-> form, picked |-> picked, waited |-> waited, afresh |-> afresh]}

\* The button is pressed: handleWizardCreate ends on the error page if a field is
\* missing or the API server refuses.
Submit ==
    /\ page = "wizard" /\ ~disabled
    /\ UNCHANGED frs \/ (~Missing /\ CreateFRS)
    /\ LeavePage
    /\ UNCHANGED points

Next ==
    \/ handleWizardPage
    \/ \E ns \in nsList \cup {""} : SelectNamespace(ns)
    \/ \E row \in vmList : ClickVM(row)
    \/ \E row \in rpList : ClickRP(row)
    \/ \E checked \in SUBSET volList : Tick(checked)
    \/ \E req \in asked :
          \/ handleWizardVMs(req)
          \/ handleWizardRPs(req)
          \/ handleWizardVolumes(req)
          \/ AnswerFails(req)
          \/ AnswerIsLogin(req)
    \/ Submit
    \/ \E p \in Volatile : K10Changes(p) /\ UNCHANGED <<frs, pageVars>>

Spec == Init /\ [][Next]_vars

-----------------------------------------------------------------------------
(***************************************************************************)
(* Properties                                                              *)
(***************************************************************************)

Form == [vm : VMRows \cup {Cleared}, rp : RPRows \cup {Cleared}, pvcs : SUBSET Boxes]

TypeOK ==
    /\ points \subseteq Points
    /\ page \in {"wizard", "elsewhere"}
    /\ nsList \subseteq {Meta[p].appNs : p \in Points}
    /\ vmList \subseteq VMRows
    /\ rpList \subseteq RPRows
    /\ volList \subseteq Boxes
    /\ form \in Form
    /\ disabled \in BOOLEAN
    /\ asked \subseteq Requests
    /\ picked \subseteq Picks
    /\ current \subseteq {"rp-list", "vol-list"}
    /\ waited \subseteq Picks
    /\ afresh \in BOOLEAN
    /\ frs \subseteq [form : Form, picked : SUBSET Picks, waited : SUBSET Picks, afresh : BOOLEAN]

\* The volumes of an FRS were all read from one RestorePoint, however the lists
\* were swapped while boxes were ticked: the fields never pile up.
OneRestorePoint ==
    \A f \in frs : \A a, b \in f.form.pvcs : a.rp = b.rp

\* Nothing chosen for one VM is sent for the next: between the last choice of a VM
\* and the FRS the user has picked a RestorePoint and ticked a volume.
NothingCarriedOver ==
    \A f \in frs :
        f.form.vm # Cleared /\ f.picked = Picks

\* FRS f is in the namespace of RestorePoint p, which is one of the chosen VM, and the
\* volumes are those of p; the sessions table says so, for as long as K10 keeps p.
IsFor(f, p) ==
    /\ VMOf(p) = f.form.vm
    /\ RPRow(p) = [ns |-> f.form.vm.ns, name |-> f.form.rp.name]
    /\ \A b \in f.form.pvcs : b.rp = p
    /\ \A source \in LookupFRSSource(f.form.vm.ns, f.form.rp.name) :
          source = [vm |-> f.form.vm, created |-> Meta[p].created]

\* A user who waits for each list before picking from it gets a RestorePoint and
\* volumes of the chosen VM, however late earlier answers come in.  One who has also
\* ticked the boxes again after picking another RestorePoint gets the volumes of that
\* RestorePoint.  (One who has not may get the volumes ticked for the one before.)
WaitingIsRewarded ==
    \A f \in frs : f.waited = Picks =>
        /\ \A p \in Points : RPRow(p) = f.form.rp => VMOf(p) = f.form.vm
        /\ \A b \in f.form.pvcs : VMOf(b.rp) = f.form.vm
        /\ f.afresh => \E p \in Points : IsFor(f, p)

=============================================================================
