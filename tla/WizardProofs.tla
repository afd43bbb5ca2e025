---------------------------- MODULE WizardProofs ----------------------------
(***************************************************************************)
(* What the wizard sends, for any RestorePoints, however many requests are *)
(* in flight and in whatever order their answers are swapped in.           *)
(***************************************************************************)
EXTENDS Wizard, Integers, FiniteSetTheorems, WellFoundedInduction, TLAPS

\* Checkboxes, and the fields made from them, are of one RestorePoint.
FromOne(boxes) == \A a, b \in boxes : a.rp = b.rp

\* The fields are those of one answer, though that answer may be gone from the page.
OneAtATime == FromOne(volList) /\ FromOne(form.pvcs)

\* A field that is filled was filled by the user, after the VM was chosen.
FieldsArePicked ==
    /\ form.rp # Cleared => "RestorePoint" \in picked
    /\ form.pvcs # {} => "volumes" \in picked

\* A row for a RestorePoint of the VM, or the row that stands for none.
OfVM(row, vm) == row = NoRow \/ \E p \in Points : row = RPRow(p) /\ VMOf(p) = vm

\* A list that counts as current is for what is in the form.
CurrentListsFit ==
    /\ "rp-list" \in current => \A row \in rpList : OfVM(row, form.vm)
    /\ "vol-list" \in current => \A b \in volList : RPRow(b.rp) = form.rp

\* So is what was picked from it: the volumes are of the VM, and of the RestorePoint in
\* the form if that was there before they were ticked.
PicksFit ==
    /\ "RestorePoint" \in waited => OfVM(form.rp, form.vm)
    /\ "volumes" \in waited => \A b \in form.pvcs : VMOf(b.rp) = form.vm
    /\ "volumes" \in waited /\ afresh => \A b \in form.pvcs : RPRow(b.rp) = form.rp

\* An FRS asked for by a user who waits is for one RestorePoint of the VM: what IsFor
\* says, without what K10 has done since.
Fits(f, p) ==
    /\ VMOf(p) = f.form.vm
    /\ RPRow(p) = [ns |-> f.form.vm.ns, name |-> f.form.rp.name]
    /\ \A b \in f.form.pvcs : b.rp = p

\* What WaitingIsRewarded says of one FRS, when it is created.
Rewarded(f) ==
    /\ \A p \in Points : RPRow(p) = f.form.rp => VMOf(p) = f.form.vm
    /\ \A b \in f.form.pvcs : VMOf(b.rp) = f.form.vm
    /\ f.afresh => \E p \in Points : Fits(f, p)

CreatedFits == \A f \in frs : f.waited = Picks => Rewarded(f)

\* The inductive invariant.
Inv ==
    /\ TypeOK
    /\ OneAtATime
    /\ FieldsArePicked
    /\ CurrentListsFit
    /\ PicksFit
    /\ OneRestorePoint
    /\ NothingCarriedOver
    /\ CreatedFits

-----------------------------------------------------------------------------

\* A namespace and a name tell RestorePoints apart.
LEMMA RowNamesOne ==
  ASSUME NEW p \in Points, NEW q \in Points,
         Meta[p].ns = Meta[q].ns, Meta[p].name = Meta[q].name
  PROVE  p = q
  BY CatalogAssumption

\* A checkbox belongs to a RestorePoint, and the volumes of each are checkboxes.
LEMMA BoxesOfPoints ==
  /\ \A b \in Boxes : b.rp \in Points
  /\ \A p \in Points : [rp : {p}, pvc : parseDetailsPVCs(p)] \subseteq Boxes
  BY DEF Boxes

\* Of the RestorePoints in a row for the VM, all (there is at most one) are of the VM.
LEMMA RowOfVM ==
  ASSUME NEW p \in Points, NEW vm, OfVM(RPRow(p), vm)
  PROVE  VMOf(p) = vm
<1>1. PICK q \in Points : RPRow(p) = RPRow(q) /\ VMOf(q) = vm
  BY PlaceholderAssumption DEF OfVM
<1>2. p = q
  BY <1>1, RowNamesOne DEF RPRow
<1> QED
  BY <1>1, <1>2

\* The lists the handlers render have rows of their kind.
LEMMA ListTypes ==
  ASSUME points \subseteq Points
  PROVE  /\ ListVMNamespaces \subseteq {Meta[p].appNs : p \in Points}
         /\ \A N : RowsOr(DOMAIN ListVMs(N)) \subseteq VMRows
         /\ \A ns, app : RowsOr({RPRow(p) : p \in ListRestorePoints(ns, app)}) \subseteq RPRows
         /\ \A ns, name : Found(ns, name) \subseteq Points
<1>1. ListVMNamespaces \subseteq {Meta[p].appNs : p \in Points}
  BY DEF ListVMNamespaces
<1>2. ASSUME NEW N
      PROVE  RowsOr(DOMAIN ListVMs(N)) \subseteq VMRows
  <2>1. DOMAIN ListVMs(N) \subseteq VMs
    BY DEF ListVMs
  <2> QED
    BY <2>1 DEF RowsOr, VMRows
<1>3. ASSUME NEW ns, NEW app
      PROVE  RowsOr({RPRow(p) : p \in ListRestorePoints(ns, app)}) \subseteq RPRows
  BY DEF ListRestorePoints, RowsOr, RPRows
<1>4. \A ns, name : Found(ns, name) \subseteq Points
  BY DEF Found
<1> QED
  BY <1>1, <1>2, <1>3, <1>4

\* The fields that name a VM or a RestorePoint are records of a namespace and a name.
LEMMA RowsAreRecords ==
  ASSUME TypeOK
  PROVE  /\ form.vm = [ns |-> form.vm.ns, name |-> form.vm.name]
         /\ form.rp = [ns |-> form.rp.ns, name |-> form.rp.name]
<1>1. form.vm \in VMRows \cup {Cleared} /\ form.rp \in RPRows \cup {Cleared}
  BY DEF TypeOK, Form
<1>2. ASSUME NEW row \in VMRows \cup RPRows \cup {Cleared}
      PROVE  row = [ns |-> row.ns, name |-> row.name]
  <2>1. CASE row = NoRow \/ row = Cleared
    BY <2>1 DEF NoRow, Cleared
  <2>2. CASE \E p \in Points : row = VMOf(p)
    BY <2>2 DEF VMOf
  <2>3. CASE \E p \in Points : row = RPRow(p)
    BY <2>3 DEF RPRow
  <2> QED
    BY <2>1, <2>2, <2>3 DEF VMRows, VMs, RPRows
<1> QED
  BY <1>1, <1>2

\* Loading the page, and leaving it, give it states of its types.
LEMMA PageTypes ==
  ASSUME TypeOK, points' \subseteq Points,
         frs' \subseteq [form : Form, picked : SUBSET Picks, waited : SUBSET Picks, afresh : BOOLEAN],
         FreshPage(ListVMNamespaces) \/ LeavePage
  PROVE  TypeOK'
<1>1. EmptyForm \in Form
  BY DEF EmptyForm, Form
<1>2. Ask("vm-list", Cleared) \in Requests
  BY DEF Ask, Requests, Cleared
<1>3. CASE FreshPage(ListVMNamespaces)
  BY <1>1, <1>2, <1>3, ListTypes DEF FreshPage, TypeOK, VMRows
<1>4. CASE LeavePage
  BY <1>1, <1>4 DEF LeavePage, TypeOK
<1> QED
  BY <1>3, <1>4

\* Every step keeps the types.
LEMMA NextType == TypeOK /\ [Next]_vars => TypeOK'
<1> SUFFICES ASSUME TypeOK, [Next]_vars
             PROVE  TypeOK'
  OBVIOUS
<1> USE DEF TypeOK
<1>0. form \in Form /\ EmptyForm \in Form
  BY DEF EmptyForm, Form
<1>1. CASE handleWizardPage
  BY <1>1, PageTypes DEF handleWizardPage
<1>2. ASSUME NEW ns \in nsList \cup {""}, SelectNamespace(ns)
      PROVE  TypeOK'
  <2>1. Ask("vm-list", [ns |-> ns, name |-> ""]) \in Requests
    BY DEF Ask, Requests
  <2> QED
    BY <1>0, <1>2, <2>1 DEF SelectNamespace, VMRows
<1>3. ASSUME NEW row \in vmList, ClickVM(row)
      PROVE  TypeOK'
  <2>1. Ask("rp-list", row) \in Requests
    BY DEF Ask, Requests
  <2>2. [vm |-> row, rp |-> Cleared, pvcs |-> {}] \in Form
    BY DEF Form
  <2> QED
    BY <1>3, <2>1, <2>2 DEF ClickVM
<1>4. ASSUME NEW row \in rpList, ClickRP(row)
      PROVE  TypeOK'
  <2>1. Ask("vol-list", row) \in Requests
    BY DEF Ask, Requests
  <2>2. [form EXCEPT !.rp = row] \in Form
    BY <1>0 DEF Form
  <2> QED
    BY <1>4, <2>1, <2>2 DEF ClickRP, Picks
<1>5. ASSUME NEW checked \in SUBSET volList, Tick(checked)
      PROVE  TypeOK'
  <2>1. [form EXCEPT !.pvcs = checked] \in Form
    BY <1>0 DEF Form
  <2> QED
    BY <1>5, <2>1 DEF Tick, enableSubmitIfVolumesPresent, Picks
<1>6. ASSUME NEW req \in asked, handleWizardVMs(req)
      PROVE  TypeOK'
  BY <1>6, ListTypes DEF handleWizardVMs
<1>7. ASSUME NEW req \in asked, handleWizardRPs(req)
      PROVE  TypeOK'
  BY <1>7, ListTypes DEF handleWizardRPs, Swapped
<1>8. ASSUME NEW req \in asked, handleWizardVolumes(req)
      PROVE  TypeOK'
  <2>1. volList' \subseteq Boxes
    BY <1>8, ListTypes, BoxesOfPoints DEF handleWizardVolumes
  <2>2. form' \in Form /\ disabled' \in BOOLEAN
    BY <1>0, <1>8 DEF handleWizardVolumes, enableSubmitIfVolumesPresent, Form
  <2> QED
    BY <1>8, <2>1, <2>2 DEF handleWizardVolumes, Swapped
<1>9. ASSUME NEW req \in asked, AnswerFails(req) \/ AnswerIsLogin(req)
      PROVE  TypeOK'
  BY <1>9 DEF AnswerFails, AnswerIsLogin
<1>10. CASE Submit
  <2>1. frs' \subseteq [form : Form, picked : SUBSET Picks, waited : SUBSET Picks, afresh : BOOLEAN]
    BY <1>0, <1>10 DEF Submit, CreateFRS
  <2> QED
    BY <1>10, <2>1, PageTypes DEF Submit
<1>11. ASSUME NEW p \in Points, K10Changes(p), UNCHANGED <<frs, pageVars>>
       PROVE  TypeOK'
  BY <1>11 DEF K10Changes, pageVars
<1>12. CASE UNCHANGED vars
  BY <1>12 DEF vars, pageVars
<1> QED
  BY <1>1, <1>2, <1>3, <1>4, <1>5, <1>6, <1>7, <1>8, <1>9, <1>10, <1>11, <1>12,
     WizardAssumption DEF Next

\* The part of the invariant that is about the page.
PageInv == OneAtATime /\ FieldsArePicked /\ CurrentListsFit /\ PicksFit

\* Nothing is in the form, and no list counts as current.
Blank ==
    /\ FromOne(volList)
    /\ form.rp = Cleared /\ form.pvcs = {}
    /\ picked = {} /\ current = {} /\ waited = {}

\* Such a page satisfies its part of the invariant.
LEMMA BlankInv == Blank => PageInv
  BY DEF Blank, PageInv, OneAtATime, FromOne, FieldsArePicked, CurrentListsFit, PicksFit

\* Every step keeps the part about the page.
LEMMA NextPage == Inv /\ [Next]_vars => PageInv'
<1> SUFFICES ASSUME Inv, [Next]_vars
             PROVE  PageInv'
  OBVIOUS
<1>0. /\ TypeOK /\ TypeOK' /\ form \in Form /\ form' \in Form /\ points \subseteq Points
      /\ OneAtATime /\ FieldsArePicked /\ CurrentListsFit /\ PicksFit
  BY NextType DEF Inv, TypeOK
<1>1. CASE FreshPage(ListVMNamespaces) \/ LeavePage
  <2>1. Blank'
    BY <1>1 DEF FreshPage, LeavePage, Blank, FromOne, EmptyForm
  <2> QED
    BY <2>1, BlankInv, PTL
<1>2. ASSUME NEW ns \in nsList \cup {""}, SelectNamespace(ns)
      PROVE  PageInv'
  <2>1. Blank'
    BY <1>2 DEF SelectNamespace, Blank, FromOne, EmptyForm
  <2> QED
    BY <2>1, BlankInv, PTL
<1>3. ASSUME NEW row \in vmList, ClickVM(row)
      PROVE  PageInv'
  <2>1. Blank'
    BY <1>0, <1>3 DEF ClickVM, Blank, OneAtATime, FromOne
  <2> QED
    BY <2>1, BlankInv, PTL
<1>4. ASSUME NEW row \in rpList, ClickRP(row)
      PROVE  PageInv'
  <2>1. /\ form'.vm = form.vm /\ form'.rp = row /\ form'.pvcs = form.pvcs
        /\ UNCHANGED <<rpList, volList>>
        /\ picked' = picked \cup {"RestorePoint"}
        /\ current' = current \ {"vol-list"}
        /\ "volumes" \in waited' => "volumes" \in waited
        /\ "RestorePoint" \in waited' => "rp-list" \in current
        /\ ~afresh'
    BY <1>0, <1>4 DEF ClickRP, Form
  <2>2. OneAtATime' /\ FieldsArePicked'
    BY <1>0, <2>1 DEF OneAtATime, FromOne, FieldsArePicked
  <2>3. CurrentListsFit'
    BY <1>0, <2>1 DEF CurrentListsFit, OfVM
  <2>4. PicksFit'
    BY <1>0, <2>1 DEF CurrentListsFit, PicksFit, OfVM
  <2> QED
    BY <2>2, <2>3, <2>4 DEF PageInv
<1>5. ASSUME NEW checked \in SUBSET volList, Tick(checked)
      PROVE  PageInv'
  <2>1. /\ form'.vm = form.vm /\ form'.rp = form.rp /\ form'.pvcs = checked
        /\ UNCHANGED <<rpList, volList, current>>
        /\ picked' = picked \cup {"volumes"}
        /\ "RestorePoint" \in waited' => "RestorePoint" \in waited
        /\ "volumes" \in waited' => "vol-list" \in current /\ "RestorePoint" \in waited
    BY <1>0, <1>5 DEF Tick, enableSubmitIfVolumesPresent, Form
  <2>2. OneAtATime' /\ FieldsArePicked'
    BY <1>0, <2>1 DEF OneAtATime, FromOne, FieldsArePicked
  <2>3. CurrentListsFit'
    BY <1>0, <2>1 DEF CurrentListsFit, OfVM
  <2>4. ASSUME "volumes" \in waited', NEW b \in checked
        PROVE  RPRow(b.rp) = form.rp /\ VMOf(b.rp) = form.vm
    <3>1. RPRow(b.rp) = form.rp
      BY <1>0, <2>1, <2>4 DEF CurrentListsFit
    <3>2. OfVM(form.rp, form.vm)
      BY <1>0, <2>1, <2>4 DEF PicksFit
    <3>3. b.rp \in Points
      BY <1>0, BoxesOfPoints DEF TypeOK
    <3> QED
      BY <3>1, <3>2, <3>3, RowOfVM
  <2>5. PicksFit'
    BY <1>0, <2>1, <2>4 DEF PicksFit, OfVM
  <2> QED
    BY <2>2, <2>3, <2>5 DEF PageInv
<1>6. ASSUME NEW req \in asked, handleWizardRPs(req)
      PROVE  PageInv'
  <2>1. /\ UNCHANGED <<form, volList, picked, waited, afresh>>
        /\ rpList' = RowsOr({RPRow(p) : p \in ListRestorePoints(req.row.ns, req.row.name)})
        /\ "rp-list" \in current' => req.row = form.vm
        /\ "vol-list" \in current' => "vol-list" \in current
    BY <1>6 DEF handleWizardRPs, Swapped
  <2>2. ASSUME req.row = form.vm, NEW row \in rpList'
        PROVE  OfVM(row, form.vm)
    <3>1. CASE row = NoRow
      BY <3>1 DEF OfVM
    <3>2. ASSUME NEW p \in ListRestorePoints(req.row.ns, req.row.name), row = RPRow(p)
          PROVE  OfVM(row, form.vm)
      <4>1. p \in Points /\ Meta[p].appNs = form.vm.ns /\ Meta[p].app = form.vm.name
        BY <1>0, <2>2, <3>2, CatalogAssumption DEF ListRestorePoints
      <4>2. VMOf(p) = form.vm
        BY <1>0, <4>1, RowsAreRecords DEF VMOf
      <4> QED
        BY <3>2, <4>1, <4>2 DEF OfVM
    <3> QED
      BY <2>1, <2>2, <3>1, <3>2 DEF RowsOr
  <2>3. CurrentListsFit'
    BY <1>0, <2>1, <2>2 DEF CurrentListsFit, OfVM
  <2> QED
    BY <1>0, <2>1, <2>3 DEF PageInv, OneAtATime, FromOne, FieldsArePicked, PicksFit, OfVM
<1>7. ASSUME NEW req \in asked, handleWizardVolumes(req)
      PROVE  PageInv'
  <2>1. PICK p \in Found(req.row.ns, req.row.name) :
           volList' = [rp : {p}, pvc : parseDetailsPVCs(p)]
    BY <1>7 DEF handleWizardVolumes
  <2>2. /\ UNCHANGED <<rpList, picked, waited, afresh>>
        /\ form'.vm = form.vm /\ form'.rp = form.rp /\ form'.pvcs \in {form.pvcs, {}}
        /\ "vol-list" \in current' => req.row = form.rp
        /\ "rp-list" \in current' => "rp-list" \in current
    BY <1>0, <1>7 DEF handleWizardVolumes, enableSubmitIfVolumesPresent, Swapped, Form
  <2>3. OneAtATime' /\ FieldsArePicked' /\ PicksFit'
    BY <1>0, <2>1, <2>2 DEF OneAtATime, FromOne, FieldsArePicked, PicksFit, OfVM
  <2>4. req.row = form.rp => RPRow(p) = form.rp
    BY <1>0, RowsAreRecords DEF Found, RPRow
  <2>5. CurrentListsFit'
    BY <1>0, <2>1, <2>2, <2>4 DEF CurrentListsFit, OfVM
  <2> QED
    BY <2>3, <2>5 DEF PageInv
<1>8. ASSUME NEW req \in asked, handleWizardVMs(req) \/ AnswerFails(req) \/ AnswerIsLogin(req)
      PROVE  PageInv'
  <2>1. /\ UNCHANGED <<form, picked, waited, afresh>>
        /\ rpList' = rpList \/ rpList' = {}
        /\ volList' = volList \/ volList' = {}
        /\ current' \subseteq current
    BY <1>8 DEF handleWizardVMs, AnswerFails, AnswerIsLogin
  <2> QED
    BY <1>0, <2>1 DEF PageInv, OneAtATime, FromOne, FieldsArePicked, CurrentListsFit, PicksFit, OfVM
<1>9. CASE UNCHANGED pageVars
  BY <1>0, <1>9
  DEF pageVars, PageInv, OneAtATime, FromOne, FieldsArePicked, CurrentListsFit, PicksFit, OfVM
<1> QED
  BY <1>1, <1>2, <1>3, <1>4, <1>5, <1>6, <1>7, <1>8, <1>9
  DEF Next, handleWizardPage, Submit, vars

\* The page the tab starts from satisfies the invariant.
LEMMA InitInv == Init => Inv
<1> SUFFICES ASSUME Init
             PROVE  Inv
  OBVIOUS
<1>1. EmptyForm \in Form
  BY DEF EmptyForm, Form
<1>2. TypeOK
  BY <1>1 DEF Init, TypeOK
<1>3. Blank
  BY DEF Init, Blank, FromOne, EmptyForm
<1> QED
  BY <1>2, <1>3, BlankInv
  DEF Init, Inv, PageInv, OneRestorePoint, NothingCarriedOver, CreatedFits

\* What handleWizardCreate is sent fits, if the user has waited for the lists.
LEMMA FormFits ==
  ASSUME Inv, ~Missing, waited = Picks, NEW f, f.form = form, f.afresh = afresh
  PROVE  Rewarded(f)
<1>1. form \in Form /\ form.pvcs \subseteq Boxes
  BY DEF Inv, TypeOK, Form
<1>2. /\ OfVM(form.rp, form.vm)
      /\ \A b \in form.pvcs : VMOf(b.rp) = form.vm
      /\ afresh => \A b \in form.pvcs : RPRow(b.rp) = form.rp
  BY DEF Inv, PicksFit, Picks
<1>3. \A p \in Points : RPRow(p) = form.rp => VMOf(p) = form.vm
  BY <1>2, RowOfVM
<1>4. ASSUME afresh
      PROVE  \E p \in Points : Fits(f, p)
  <2>1. PICK c \in form.pvcs : TRUE
    BY DEF Missing
  <2> DEFINE p == c.rp
  <2>2. p \in Points /\ RPRow(p) = form.rp /\ VMOf(p) = form.vm
    BY <1>1, <1>2, <1>4, <2>1, BoxesOfPoints
  <2>3. \A b \in form.pvcs : b.rp = p
    <3> SUFFICES ASSUME NEW b \in form.pvcs
                 PROVE  b.rp = p
      OBVIOUS
    <3>1. b.rp \in Points /\ RPRow(b.rp) = RPRow(p)
      BY <1>1, <1>2, <1>4, <2>2, BoxesOfPoints
    <3> QED
      BY <2>2, <3>1, RowNamesOne DEF RPRow
  <2>4. RPRow(p) = [ns |-> form.vm.ns, name |-> form.rp.name]
    <3>1. Meta[p].appNs = Meta[p].ns
      BY <2>2, CatalogAssumption
    <3>2. form.vm.ns = Meta[p].appNs /\ form.rp.name = Meta[p].name
      BY <2>2 DEF VMOf, RPRow
    <3> QED
      BY <3>1, <3>2 DEF RPRow
  <2> HIDE DEF p
  <2> QED
    BY <2>2, <2>3, <2>4 DEF Fits
<1> QED
  BY <1>2, <1>3, <1>4 DEF Rewarded

\* Every step preserves the invariant.
LEMMA NextInv == Inv /\ [Next]_vars => Inv'
<1> SUFFICES ASSUME Inv, [Next]_vars
             PROVE  Inv'
  OBVIOUS
<1>1. TypeOK' /\ PageInv'
  BY NextType, NextPage DEF Inv
<1> DEFINE new == [form |-> form, picked |-> picked, waited |-> waited, afresh |-> afresh]
<1>2. frs' \subseteq frs \/ (frs' = {new} /\ ~Missing)
  <2>1. CASE handleWizardPage \/ Submit
    BY <2>1 DEF handleWizardPage, Submit, CreateFRS
  <2>2. ASSUME NEW ns \in nsList \cup {""}, SelectNamespace(ns)
        PROVE  frs' = frs
    BY <2>2 DEF SelectNamespace
  <2>3. CASE (\E row \in vmList : ClickVM(row)) \/ (\E row \in rpList : ClickRP(row))
    BY <2>3 DEF ClickVM, ClickRP
  <2>4. ASSUME NEW checked \in SUBSET volList, Tick(checked)
        PROVE  frs' = frs
    BY <2>4 DEF Tick
  <2>5. ASSUME NEW req \in asked,
               \/ handleWizardVMs(req) \/ handleWizardRPs(req) \/ handleWizardVolumes(req)
               \/ AnswerFails(req) \/ AnswerIsLogin(req)
        PROVE  frs' = frs
    BY <2>5 DEF handleWizardVMs, handleWizardRPs, handleWizardVolumes, AnswerFails, AnswerIsLogin
  <2> QED
    BY <2>1, <2>2, <2>3, <2>4, <2>5 DEF Next, vars
<1>3. FromOne(new.form.pvcs) /\ (~Missing => new.form.vm # Cleared /\ new.picked = Picks)
  <2>1. FromOne(form.pvcs)
    BY DEF Inv, OneAtATime
  <2>2. ASSUME ~Missing
        PROVE  form.vm # Cleared /\ form.rp # Cleared /\ form.pvcs # {}
    <3>1. Cleared.ns = "" /\ Cleared.name = ""
      BY DEF Cleared
    <3> QED
      BY <2>2, <3>1 DEF Missing
  <2>3. ASSUME ~Missing
        PROVE  picked = Picks
    BY <2>2, <2>3 DEF Inv, TypeOK, FieldsArePicked, Picks
  <2> QED
    BY <2>1, <2>2, <2>3
<1>4. OneRestorePoint'
  BY <1>2, <1>3 DEF Inv, OneRestorePoint, FromOne
<1>5. NothingCarriedOver'
  BY <1>2, <1>3 DEF Inv, NothingCarriedOver
<1>6. CreatedFits'
  <2> SUFFICES ASSUME NEW f \in frs', f.waited = Picks
               PROVE  Rewarded(f)
    BY DEF CreatedFits, Rewarded, Fits
  <2>1. CASE f \in frs
    BY <2>1 DEF Inv, CreatedFits
  <2>2. CASE f = new /\ ~Missing
    BY <2>2, FormFits
  <2> QED
    BY <1>2, <2>1, <2>2
<1> QED
  BY <1>1, <1>4, <1>5, <1>6 DEF Inv, PageInv

\* The invariant holds in every reachable state.
LEMMA SpecInv == Spec => []Inv
  BY InitInv, NextInv, PTL DEF Spec

\* The state of the page and of the requests in flight stays within its types.
THEOREM TypeCorrect == Spec => []TypeOK
  BY SpecInv, PTL DEF Inv

\* The volumes handleWizardCreate is sent are of one RestorePoint, in whatever order the
\* answers of handleWizardVolumes were swapped in.
THEOREM VolumesAreOfOnePoint == Spec => []OneRestorePoint
  BY SpecInv, PTL DEF Inv

\* Each FRS has been picked for from scratch since its VM was chosen (the click listener
\* of #vm-list in app.js).
THEOREM VMsStartAfresh == Spec => []NothingCarriedOver
  BY SpecInv, PTL DEF Inv

\* A user who waits for each list gets a RestorePoint and volumes of the chosen VM, and
\* the volumes of that RestorePoint if they were ticked after it was picked; the sessions
\* table names both (app.js, handleWizardCreate, LookupFRSSource).
THEOREM WaitersAreRewarded == Spec => []WaitingIsRewarded
<1>1. Inv => WaitingIsRewarded
  <2> SUFFICES ASSUME Inv, NEW f \in frs, f.waited = Picks, f.afresh
               PROVE  \E p \in Points : IsFor(f, p)
    BY DEF Inv, CreatedFits, Rewarded, WaitingIsRewarded
  <2>1. PICK p \in Points : Fits(f, p)
    BY DEF Inv, CreatedFits, Rewarded
  <2>2. Meta[p].ns = f.form.vm.ns /\ Meta[p].name = f.form.rp.name
    BY <2>1 DEF Fits, RPRow
  <2>3. Found(f.form.vm.ns, f.form.rp.name) \subseteq {p}
    BY <2>2, RowNamesOne DEF Found, Inv, TypeOK
  <2> QED
    BY <2>1, <2>3 DEF Fits, IsFor, LookupFRSSource
<1> QED
  BY SpecInv, <1>1, PTL

-----------------------------------------------------------------------------
(***************************************************************************)
(* ListVMs counts what the next list shows.  Its loop is a fold: first     *)
(* that the fold goes through the RestorePoints one by one, by induction   *)
(* on their number, then what each of them adds.                           *)
(***************************************************************************)

LessThan == OpToRel(<, Nat)

\* Every set of numbers has a least one.
LEMMA LeastNumber ==
  ASSUME NEW T \in SUBSET Nat, T # {}
  PROVE  \E x \in T : \A y \in T : x <= y
<1>1. IsWellFoundedOn(LessThan, Nat)
  BY NatLessThanWellFounded DEF LessThan
<1>2. PICK x \in T : \A y \in T : ~(<<y, x>> \in LessThan)
  BY <1>1, WFMin
<1>3. ASSUME NEW y \in T
      PROVE  x <= y
  <2>1. x \in Nat /\ y \in Nat
    OBVIOUS
  <2>2. y < x => <<y, x>> \in LessThan
    BY <2>1 DEF LessThan, OpToRel
  <2> QED BY <2>1, <2>2, <1>2
<1> QED BY <1>3

\* A set that holds zero and the successor of each of its numbers holds them all.
LEMMA Induction ==
  ASSUME NEW S, 0 \in S, \A n \in Nat : n \in S => n + 1 \in S
  PROVE  Nat \subseteq S
<1> SUFFICES ASSUME Nat \ S # {} PROVE FALSE
  OBVIOUS
<1>1. PICK x \in Nat \ S : \A y \in Nat \ S : x <= y
  BY LeastNumber
<1>2. x # 0 /\ x - 1 \in Nat /\ x - 1 \in S
  BY <1>1
<1> QED BY <1>1, <1>2

Chosen(s) == CHOOSE x \in s : TRUE

\* One turn of the loop, given what the turns before it have made of the other points.
Turn(before, base, s) ==
    IF s = {} THEN base ELSE AddPoint(Chosen(s), before[s \ {Chosen(s)}])

\* A chosen element is one, and the rest is smaller by one.
LEMMA ChosenFacts ==
  ASSUME NEW s, IsFiniteSet(s), s # {}
  PROVE  /\ Chosen(s) \in s /\ IsFiniteSet(s \ {Chosen(s)})
         /\ Cardinality(s) \in Nat \ {0}
         /\ Cardinality(s \ {Chosen(s)}) = Cardinality(s) - 1
<1>1. Chosen(s) \in s
  BY Zenon DEF Chosen
<1>2. Cardinality(s) \in Nat \ {0}
  BY FS_CardinalityType, FS_EmptySet
<1> QED
  BY <1>1, <1>2, FS_RemoveElement

\* There is a function that takes the loop through every subset of S.
LEMMA LoopExists ==
  ASSUME NEW base, NEW S, IsFiniteSet(S)
  PROVE  \E f : f = [s \in SUBSET S |-> Turn(f, base, s)]
<1> DEFINE Small(n) == {s \in SUBSET S : Cardinality(s) <= n}
           Good == {n \in Nat : \E f : f = [s \in Small(n) |-> Turn(f, base, s)]}
<1>1. \A s \in SUBSET S : IsFiniteSet(s) /\ Cardinality(s) \in Nat
  BY FS_Subset, FS_CardinalityType
<1>2. 0 \in Good
  <2> DEFINE g == [s \in Small(0) |-> base]
  <2>1. \A s \in Small(0) : s = {}
    BY <1>1, FS_EmptySet
  <2>2. \A s \in Small(0) : Turn(g, base, s) = base
    BY <2>1 DEF Turn
  <2>3. g = [s \in Small(0) |-> Turn(g, base, s)]
    <3> HIDE DEF Small
    <3> QED BY <2>2
  <2> QED BY <2>3
<1>3. ASSUME NEW n \in Nat, n \in Good
      PROVE  n + 1 \in Good
  <2>1. PICK f : f = [s \in Small(n) |-> Turn(f, base, s)]
    BY <1>3
  <2> DEFINE g == [s \in Small(n + 1) |-> Turn(f, base, s)]
  <2>2. ASSUME NEW s \in Small(n + 1)
        PROVE  Turn(g, base, s) = Turn(f, base, s)
    <3>1. CASE s = {}
      BY <3>1 DEF Turn
    <3>2. CASE s # {}
      <4> DEFINE r == s \ {Chosen(s)}
      <4>1. r \in SUBSET S /\ Cardinality(r) = Cardinality(s) - 1 /\ Cardinality(s) \in Nat
            /\ Cardinality(s) <= n + 1
        BY <3>2, <1>1, ChosenFacts
      <4>2. r \in Small(n) /\ r \in Small(n + 1)
        BY <4>1
      <4> HIDE DEF r, Small
      <4>3. g[r] = Turn(f, base, r) /\ f[r] = Turn(f, base, r)
        BY <4>2, <2>1
      <4> HIDE DEF g
      <4> QED BY <3>2, <4>3 DEF Turn, r
    <3> QED BY <3>1, <3>2
  <2>3. g = [s \in Small(n + 1) |-> Turn(g, base, s)]
    <3> HIDE DEF Small
    <3> QED BY <2>2
  <2> HIDE DEF g, Small
  <2> QED BY <2>3
<1>4. Nat \subseteq Good
  <2> HIDE DEF Good
  <2> QED BY <1>2, <1>3, Induction
<1>5. Cardinality(S) \in Nat /\ Small(Cardinality(S)) = SUBSET S
  BY FS_CardinalityType, FS_Subset
<1>6. Cardinality(S) \in Good
  BY <1>4, <1>5
<1> HIDE DEF Small
<1>7. \E f : f = [s \in Small(Cardinality(S)) |-> Turn(f, base, s)]
  BY <1>6
<1> QED BY <1>5, <1>7

\* The fold is the value of such a function.
LEMMA FoldIsLoop ==
  ASSUME NEW base, NEW S, IsFiniteSet(S)
  PROVE  \E f : /\ f = [s \in SUBSET S |-> Turn(f, base, s)]
                /\ FoldSet(AddPoint, base, S) = f[S]
<1> DEFINE f == CHOOSE g : g = [s \in SUBSET S |-> Turn(g, base, s)]
<1>1. \E g : g = [s \in SUBSET S |-> Turn(g, base, s)]
  BY LoopExists
<1>2. f = [s \in SUBSET S |-> Turn(f, base, s)]
  BY <1>1, Zenon
<1>3. FoldSet(AddPoint, base, S) = f[S]
  BY DEF FoldSet, MapThenFoldSet, Turn, Chosen
<1> HIDE DEF f
<1> QED BY <1>2, <1>3

PointsOf(s, v) == {p \in s : VMOf(p) = v}

\* What the loop has made of the RestorePoints s: of each VM their number, and the
\* latest of them.
Tally(seen, s) ==
    /\ DOMAIN seen = VMs
    /\ \A v \in VMs :
          /\ seen[v] \in [count : Nat, time : Nat, last : SUBSET Points]
          /\ seen[v].count = Cardinality(PointsOf(s, v))
          /\ PointsOf(s, v) = {} => seen[v].time = 0
          /\ PointsOf(s, v) # {} =>
                \E q \in PointsOf(s, v) :
                    /\ seen[v].last = {q} /\ seen[v].time = Meta[q].created
                    /\ \A o \in PointsOf(s, v) : Meta[o].created <= Meta[q].created

\* One more RestorePoint.
LEMMA AddPointTallies ==
  ASSUME NEW s \in SUBSET Points, NEW p \in s, NEW seen, Tally(seen, s \ {p})
  PROVE  Tally(AddPoint(p, seen), s)
<1> DEFINE new == AddPoint(p, seen)
           w == VMOf(p)
           row == IF Meta[p].created > seen[w].time
                     THEN [count |-> seen[w].count + 1, time |-> Meta[p].created, last |-> {p}]
                     ELSE [count |-> seen[w].count + 1, time |-> seen[w].time, last |-> seen[w].last]
<1>1. \A x \in Points : Meta[x].created \in Nat \ {0}
  BY CatalogAssumption DEF Object
<1>2. w \in VMs /\ DOMAIN seen = VMs /\ new = [seen EXCEPT ![w] = row]
  BY DEF VMs, AddPoint, Tally
<1>3. DOMAIN new = VMs /\ new[w] = row /\ \A v \in VMs : v # w => new[v] = seen[v]
  BY <1>2
<1> HIDE DEF new
<1>4. ASSUME NEW v \in VMs, v # w
      PROVE  PointsOf(s, v) = PointsOf(s \ {p}, v)
  BY <1>4 DEF PointsOf
<1> DEFINE old == PointsOf(s \ {p}, w)
           all == PointsOf(s, w)
<1>5. p \notin old /\ all = old \cup {p} /\ old \subseteq Points
  BY DEF PointsOf
<1>6. IsFiniteSet(old)
  BY <1>5, FS_Subset, CatalogAssumption
<1>7. Cardinality(old) \in Nat /\ Cardinality(all) = Cardinality(old) + 1
  BY <1>5, <1>6, FS_AddElement, FS_CardinalityType
<1>8. /\ seen[w] \in [count : Nat, time : Nat, last : SUBSET Points]
      /\ seen[w].count = Cardinality(old)
      /\ old = {} => seen[w].time = 0
      /\ old # {} => \E q \in old :
            /\ seen[w].last = {q} /\ seen[w].time = Meta[q].created
            /\ \A o \in old : Meta[o].created <= Meta[q].created
  BY <1>2 DEF Tally
<1> HIDE DEF old, all, w
<1>9. /\ row \in [count : Nat, time : Nat, last : SUBSET Points]
      /\ row.count = Cardinality(all)
  BY <1>1, <1>7, <1>8
<1>10. \E q \in all :
          /\ row.last = {q} /\ row.time = Meta[q].created
          /\ \A o \in all : Meta[o].created <= Meta[q].created
  <2>1. CASE Meta[p].created > seen[w].time
    <3>1. row.last = {p} /\ row.time = Meta[p].created
      BY <2>1
    <3>2. ASSUME NEW o \in all
          PROVE  Meta[o].created <= Meta[p].created
      <4>1. CASE o = p
        BY <4>1, <1>1
      <4>2. CASE o \in old
        <5>1. PICK q \in old : /\ seen[w].time = Meta[q].created
                               /\ Meta[o].created <= Meta[q].created
          BY <4>2, <1>8
        <5> QED BY <5>1, <2>1, <1>1, <1>5, <4>2
      <4> QED BY <4>1, <4>2, <1>5
    <3> QED BY <3>1, <3>2, <1>5
  <2>2. CASE ~(Meta[p].created > seen[w].time)
    <3>1. row.last = seen[w].last /\ row.time = seen[w].time
      BY <2>2, <1>8
    <3>2. old # {}
      BY <2>2, <1>1, <1>8
    <3>3. PICK q \in old : /\ seen[w].last = {q} /\ seen[w].time = Meta[q].created
                           /\ \A o \in old : Meta[o].created <= Meta[q].created
      BY <3>2, <1>8
    <3>4. Meta[p].created <= Meta[q].created
      BY <2>2, <3>3, <1>1, <1>5
    <3> QED BY <3>1, <3>3, <3>4, <1>5
  <2> QED BY <2>1, <2>2
<1> HIDE DEF row
<1>11. ASSUME NEW v \in VMs
       PROVE  /\ new[v] \in [count : Nat, time : Nat, last : SUBSET Points]
              /\ new[v].count = Cardinality(PointsOf(s, v))
              /\ PointsOf(s, v) = {} => new[v].time = 0
              /\ PointsOf(s, v) # {} =>
                    \E q \in PointsOf(s, v) :
                        /\ new[v].last = {q} /\ new[v].time = Meta[q].created
                        /\ \A o \in PointsOf(s, v) : Meta[o].created <= Meta[q].created
  <2>1. CASE v = w
    BY <2>1, <1>3, <1>5, <1>9, <1>10 DEF all
  <2>2. CASE v # w
    <3>1. new[v] = seen[v] /\ PointsOf(s, v) = PointsOf(s \ {p}, v)
      BY <2>2, <1>3, <1>4
    <3> QED BY <3>1 DEF Tally
  <2> QED BY <2>1, <2>2
<1> QED BY <1>3, <1>11 DEF Tally, new

\* The whole loop.
LEMMA FoldTallies ==
  ASSUME NEW S \in SUBSET Points
  PROVE  Tally(FoldSet(AddPoint, [v \in VMs |-> [count |-> 0, time |-> 0, last |-> {}]], S), S)
<1> DEFINE base == [v \in VMs |-> [count |-> 0, time |-> 0, last |-> {}]]
<1>1. IsFiniteSet(S)
  BY FS_Subset, CatalogAssumption
<1>2. Tally(base, {})
  <2>1. \A v \in VMs : PointsOf({}, v) = {}
    BY DEF PointsOf
  <2> QED BY <2>1, FS_EmptySet DEF Tally
<1> HIDE DEF base
<1>3. PICK f : /\ f = [s \in SUBSET S |-> Turn(f, base, s)]
               /\ FoldSet(AddPoint, base, S) = f[S]
  BY <1>1, FoldIsLoop
<1> DEFINE Good == {n \in Nat : \A s \in SUBSET S : Cardinality(s) <= n => Tally(f[s], s)}
<1>4. \A s \in SUBSET S : IsFiniteSet(s) /\ Cardinality(s) \in Nat /\ f[s] = Turn(f, base, s)
  BY <1>1, <1>3, FS_Subset, FS_CardinalityType
<1>5. 0 \in Good
  <2> SUFFICES ASSUME NEW s \in SUBSET S, Cardinality(s) <= 0
               PROVE  Tally(f[s], s)
    OBVIOUS
  <2>1. s = {}
    BY <1>4, FS_EmptySet
  <2> QED BY <2>1, <1>2, <1>4 DEF Turn
<1>6. ASSUME NEW n \in Nat, n \in Good
      PROVE  n + 1 \in Good
  <2> SUFFICES ASSUME NEW s \in SUBSET S, Cardinality(s) <= n + 1
               PROVE  Tally(f[s], s)
    OBVIOUS
  <2>1. CASE s = {}
    BY <2>1, <1>2, <1>4 DEF Turn
  <2>2. CASE s # {}
    <3> DEFINE p == Chosen(s)
    <3>1. p \in s /\ Cardinality(s) \in Nat /\ Cardinality(s \ {p}) = Cardinality(s) - 1
      BY <2>2, <1>4, ChosenFacts
    <3>2. f[s] = AddPoint(p, f[s \ {p}])
      BY <2>2, <1>4 DEF Turn
    <3> HIDE DEF p
    <3>3. s \ {p} \in SUBSET S /\ Cardinality(s \ {p}) <= n
      BY <3>1
    <3>4. Tally(f[s \ {p}], s \ {p})
      BY <3>3, <1>6
    <3> QED BY <3>1, <3>2, <3>4, AddPointTallies
  <2> QED BY <2>1, <2>2
<1>7. Nat \subseteq Good
  <2> HIDE DEF Good
  <2> QED BY <1>5, <1>6, Induction
<1>8. Cardinality(S) \in Good
  BY <1>4, <1>7
<1>9. Tally(f[S], S)
  BY <1>4, <1>8
<1> QED BY <1>3, <1>9 DEF base

\* The three listings agree in any state.
LEMMA AllAreOffered ==
  ASSUME points \subseteq Points
  PROVE  EveryPointIsOffered
<1> DEFINE items(N) == {x \in points : IsVM(x) /\ (N # {} => Meta[x].appNs \in N)}
           seen(N) == FoldSet(AddPoint, [v \in VMs |-> [count |-> 0, time |-> 0, last |-> {}]],
                              items(N))
<1>1. ASSUME NEW N
      PROVE  /\ Tally(seen(N), items(N))
             /\ ListVMs(N) = [v \in {u \in VMs : seen(N)[u].count > 0} |-> seen(N)[v]]
  <2>1. items(N) \in SUBSET Points
    OBVIOUS
  <2>2. Tally(seen(N), items(N))
    <3> HIDE DEF items
    <3> QED BY <2>1, FoldTallies
  <2> QED BY <2>2 DEF ListVMs
<1> HIDE DEF seen
<1> SUFFICES ASSUME NEW p \in points, IsVM(p)
             PROVE  /\ VMOf(p).ns \in ListVMNamespaces
                    /\ \A N \in {{}, {VMOf(p).ns}} :
                          /\ VMOf(p) \in DOMAIN ListVMs(N)
                          /\ ListVMs(N)[VMOf(p)].count
                                = Cardinality(ListRestorePoints(VMOf(p).ns, VMOf(p).name))
                          /\ \E q \in ListRestorePoints(VMOf(p).ns, VMOf(p).name) :
                                /\ ListVMs(N)[VMOf(p)].last = {q}
                                /\ \A o \in ListRestorePoints(VMOf(p).ns, VMOf(p).name) :
                                      Meta[o].created <= Meta[q].created
  BY DEF EveryPointIsOffered
<1> DEFINE vm == VMOf(p)
           shown == ListRestorePoints(vm.ns, vm.name)
<1>2. vm.ns = Meta[p].appNs /\ vm.name = Meta[p].app /\ vm \in VMs /\ vm.ns # ""
  BY CatalogAssumption DEF VMOf, VMs
<1>3. vm.ns \in ListVMNamespaces
  BY <1>2 DEF ListVMNamespaces
<1>4. ASSUME NEW N \in {{}, {vm.ns}}
      PROVE  /\ vm \in DOMAIN ListVMs(N)
             /\ ListVMs(N)[vm].count = Cardinality(shown)
             /\ \E q \in shown : /\ ListVMs(N)[vm].last = {q}
                                 /\ \A o \in shown : Meta[o].created <= Meta[q].created
  <2>1. PointsOf(items(N), vm) = shown
    <3>1. \A x \in points : Meta[x].appNs = Meta[x].ns
      BY CatalogAssumption
    <3>2. \A x \in points : VMOf(x) = vm <=> Meta[x].appNs = vm.ns /\ Meta[x].app = vm.name
      BY <1>2 DEF VMOf
    <3> HIDE DEF vm
    <3> QED BY <3>1, <3>2 DEF PointsOf, ListRestorePoints
  <2>2. p \in shown
    BY <1>2, CatalogAssumption DEF ListRestorePoints
  <2> HIDE DEF shown, items, vm
  <2>3. /\ seen(N)[vm].count = Cardinality(shown)
        /\ \E q \in shown : /\ seen(N)[vm].last = {q}
                            /\ \A o \in shown : Meta[o].created <= Meta[q].created
    BY <2>1, <2>2, <1>1, <1>2 DEF Tally
  <2>4. Cardinality(shown) \in Nat \ {0}
    <3>1. shown \subseteq Points
      BY DEF shown, ListRestorePoints
    <3>2. IsFiniteSet(shown)
      BY <3>1, FS_Subset, CatalogAssumption
    <3> QED BY <3>2, <2>2, FS_CardinalityType, FS_EmptySet
  <2>5. vm \in DOMAIN ListVMs(N) /\ ListVMs(N)[vm] = seen(N)[vm]
    <3> DEFINE listed == {u \in VMs : seen(N)[u].count > 0}
    <3>1. vm \in listed
      <4>1. seen(N)[vm].count > 0
        <5>1. seen(N)[vm].count \in Nat \ {0}
          BY <2>3, <2>4
        <5> QED BY <5>1
      <4>2. vm \in VMs
        BY <1>2
      <4> QED BY <4>1, <4>2
    <3>2. ListVMs(N) = [v \in listed |-> seen(N)[v]]
      BY <1>1
    <3> HIDE DEF listed
    <3> QED BY <3>1, <3>2
  <2> QED BY <2>3, <2>5
<1> QED BY <1>3, <1>4

\* Every RestorePoint of a VM is reachable through ListVMNamespaces, ListVMs and
\* ListRestorePoints, and the counts and latest names of ListVMs agree with the list that
\* comes next, however many RestorePoints there are and whenever K10 changes them.
THEOREM PointsAreOffered == Spec => []EveryPointIsOffered
<1>1. Inv => EveryPointIsOffered
  BY AllAreOffered DEF Inv, TypeOK
<1> QED
  BY SpecInv, <1>1, PTL

=============================================================================
