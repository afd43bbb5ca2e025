--------------------------- MODULE FrsWatchProofs ---------------------------
(***************************************************************************)
(* The safety properties of FrsWatch hold for every set of FRSs, every     *)
(* wait timeout, every age limit, and whether or not API calls may fail.   *)
(*                                                                         *)
(* None of them is inductive alone.  What carries them is the state of the *)
(* goroutine: a verdict it has reached but not written is already true     *)
(* (Justified), an entry appears only after the create has been tracked    *)
(* (NotYet), and a verdict in the map means its goroutine has ended, so    *)
(* that nobody is left to overwrite it (Spent).                            *)
(***************************************************************************)
EXTENDS FrsWatch, TLAPS

\* A verdict WaitForReady has returned and nobody has written yet is true.
Justified == \A f \in FRSs : watcher[f] \in {"Ready", "Failed"} => watcher[f] \in reported[f]

\* The handler starts a goroutine only for the FRS it has just created.
Fresh == \A f \in FRSs : frs[f] = "unborn" => watcher[f] = "none"

\* handleWizardCreate writes the entry only after CreateFRS has returned.
NotYet == \A f \in FRSs : watcher[f] \in {"none", "created"} => watch[f] = "none"

\* The goroutine that wrote a verdict has ended.
Spent == \A f \in FRSs : watch[f] \in Verdict => watcher[f] = "done"

\* What a GetFRS can return now has been reported.
Shown == \A f \in FRSs : bound[f] => frs[f] \in Live /\ frs[f] \in reported[f] \cup {"Pending"}

\* The inductive invariant.
Inv ==
    /\ TypeOK
    /\ VerdictIsTrue
    /\ PendingIsWatched
    /\ Justified
    /\ Fresh
    /\ NotYet
    /\ Spent
    /\ Shown

-----------------------------------------------------------------------------

\* A helper that has created nothing yet satisfies the invariant.
LEMMA InitInv == Init => Inv
  BY WatchAssumption
  DEF Init, Inv, TypeOK, VerdictIsTrue, PendingIsWatched, Justified, Fresh, NotYet,
      Spent, Shown, FrsState, WatchState, WatcherState, Verdict, Live

\* Ages stay within one tick of their limit.
LEMMA OlderBound ==
  ASSUME NEW limit \in Nat, NEW n \in 0 .. limit + 1
  PROVE  Older(n, limit) \in 0 .. limit + 1
  BY DEF Older

\* No handler, goroutine, sweep, tick or restart leaves the types.
LEMMA NextType == Inv /\ [Next]_vars => TypeOK'
<1> SUFFICES ASSUME Inv, [Next]_vars
             PROVE  TypeOK'
  OBVIOUS
<1> USE WatchAssumption DEF Inv, TypeOK, FrsState, WatchState, WatcherState, Verdict, Live
<1>1. ASSUME NEW f \in FRSs, handleWizardCreate(f)
      PROVE  TypeOK'
  BY <1>1 DEF handleWizardCreate
<1>2. ASSUME NEW f \in FRSs, TrackCreated(f)
      PROVE  TypeOK'
  BY <1>2 DEF TrackCreated
<1>3. ASSUME NEW f \in FRSs, NEW v \in Verdict, Conclude(f, v)
      PROVE  TypeOK'
  BY <1>3 DEF Conclude
<1>4. ASSUME NEW f \in FRSs, RecordVerdict(f)
      PROVE  TypeOK'
  BY <1>4 DEF RecordVerdict
<1>5. ASSUME NEW f \in FRSs, DeleteFRS(f)
      PROVE  TypeOK'
  BY <1>5 DEF DeleteFRS
<1>6. ASSUME NEW f \in FRSs, ClearWatch(f)
      PROVE  TypeOK'
  BY <1>6 DEF ClearWatch
<1>7. ASSUME NEW f \in FRSs, K10Bind(f)
      PROVE  TypeOK'
  BY <1>7 DEF K10Bind
<1>8. ASSUME NEW f \in FRSs, NEW state \in Live, K10SetState(f, state)
      PROVE  TypeOK'
  BY <1>8 DEF K10SetState
<1>9. CASE SweepWatches
  BY <1>9 DEF SweepWatches
<1>10. CASE Tick
  <2>1. \A f \in FRSs : Older(age[f], MaxAge) \in 0 .. MaxAge + 1
    BY OlderBound
  <2>2. \A f \in FRSs : Older(waited[f], WaitTimeout) \in 0 .. WaitTimeout + 1
    BY OlderBound
  <2> QED
    BY <1>10, <2>1, <2>2 DEF Tick
<1>11. CASE Restart
  BY <1>11 DEF Restart
<1>12. CASE UNCHANGED vars
  BY <1>12 DEF vars
<1> QED
  BY <1>1, <1>2, <1>3, <1>4, <1>5, <1>6, <1>7, <1>8, <1>9, <1>10, <1>11, <1>12
  DEF Next, Watcher

\* Every step keeps the invariant: one case per action, external ones included.
LEMMA NextInv == Inv /\ [Next]_vars => Inv'
<1> SUFFICES ASSUME Inv, [Next]_vars
             PROVE  Inv'
  OBVIOUS
<1>0. TypeOK'
  BY NextType
<1> USE <1>0
    DEF Inv, TypeOK, VerdictIsTrue, PendingIsWatched, Justified, Fresh, NotYet, Spent,
        Shown, Verdict, Live
<1>1. ASSUME NEW f \in FRSs, handleWizardCreate(f)
      PROVE  Inv'
  BY <1>1 DEF handleWizardCreate
<1>2. ASSUME NEW f \in FRSs, TrackCreated(f)
      PROVE  Inv'
  BY <1>2 DEF TrackCreated
<1>3. ASSUME NEW f \in FRSs, NEW v \in Verdict, Conclude(f, v)
      PROVE  Inv'
  <2>1. watcher' = [watcher EXCEPT ![f] = v] /\ watcher[f] = "polling"
    BY <1>3 DEF Conclude
  <2>2. UNCHANGED <<frs, bound, watch, reported>>
    BY <1>3 DEF Conclude
  <2>3. v \in {"Ready", "Failed"} => v \in reported[f]
    BY <1>3 DEF Conclude, GetFRS
  <2>4. Justified'
    BY <2>1, <2>2, <2>3
  <2>5. Fresh' /\ NotYet' /\ Spent' /\ PendingIsWatched'
    BY <2>1, <2>2
  <2>6. Shown' /\ VerdictIsTrue'
    BY <2>2
  <2> QED
    BY <2>4, <2>5, <2>6
<1>4. ASSUME NEW f \in FRSs, RecordVerdict(f)
      PROVE  Inv'
  BY <1>4 DEF RecordVerdict
<1>5. ASSUME NEW f \in FRSs, DeleteFRS(f)
      PROVE  Inv'
  BY <1>5 DEF DeleteFRS
<1>6. ASSUME NEW f \in FRSs, ClearWatch(f)
      PROVE  Inv'
  BY <1>6 DEF ClearWatch
<1>7. ASSUME NEW f \in FRSs, K10Bind(f)
      PROVE  Inv'
  BY <1>7 DEF K10Bind
<1>8. ASSUME NEW f \in FRSs, NEW state \in Live, K10SetState(f, state)
      PROVE  Inv'
  BY <1>8 DEF K10SetState
<1>9. CASE SweepWatches
  BY <1>9 DEF SweepWatches
<1>10. CASE Tick
  BY <1>10 DEF Tick
<1>11. CASE Restart
  BY <1>11 DEF Restart
<1>12. CASE UNCHANGED vars
  BY <1>12 DEF vars
<1> QED
  BY <1>1, <1>2, <1>3, <1>4, <1>5, <1>6, <1>7, <1>8, <1>9, <1>10, <1>11, <1>12
  DEF Next, Watcher

\* The invariant holds in every reachable state.
LEMMA SpecInv == Spec => []Inv
  BY InitInv, NextInv, PTL DEF Spec

-----------------------------------------------------------------------------

\* The watch map, the goroutines and the FRSs keep their types.
THEOREM TypeCorrect == Spec => []TypeOK
  BY SpecInv, PTL DEF Inv

\* The map never says Ready or Failed of an FRS that has not been in that state
\* with its transport published, however many FRSs are being created, deleted,
\* swept and restarted over.
THEOREM VerdictsAreTrue == Spec => []VerdictIsTrue
  BY SpecInv, PTL DEF Inv

\* No page polls an entry that no goroutine is going to conclude.
THEOREM PendingAreWatched == Spec => []PendingIsWatched
  BY SpecInv, PTL DEF Inv

\* One step never revises a verdict: its goroutine has ended, and TrackCreated,
\* the only other writer, runs before there is a verdict.
LEMMA VerdictStep ==
  ASSUME Inv, [Next]_vars
  PROVE  \A f \in FRSs : watch[f] \in Verdict => watch'[f] \in {watch[f], "none"}
<1> USE DEF Inv, TypeOK, Spent, NotYet, Verdict
<1>1. ASSUME NEW g \in FRSs, TrackCreated(g)
      PROVE  \A f \in FRSs : watch[f] \in Verdict => watch'[f] \in {watch[f], "none"}
  BY <1>1 DEF TrackCreated
<1>2. ASSUME NEW g \in FRSs, RecordVerdict(g)
      PROVE  \A f \in FRSs : watch[f] \in Verdict => watch'[f] \in {watch[f], "none"}
  BY <1>2 DEF RecordVerdict
<1>3. ASSUME NEW g \in FRSs, ClearWatch(g)
      PROVE  \A f \in FRSs : watch[f] \in Verdict => watch'[f] \in {watch[f], "none"}
  BY <1>3 DEF ClearWatch
<1>4. CASE SweepWatches \/ Restart
  BY <1>4 DEF SweepWatches, Restart
<1>5. CASE UNCHANGED watch
  BY <1>5
<1> QED
  BY <1>1, <1>2, <1>3, <1>4, <1>5
  DEF Next, Watcher, vars, handleWizardCreate, Conclude, DeleteFRS, K10Bind,
      K10SetState, Tick

\* A verdict in the watch map is never revised, only removed.
THEOREM VerdictsAreFinal == Spec => VerdictIsFinal
<1>1. Inv /\ [Next]_vars =>
        [\A f \in FRSs : watch[f] \in Verdict => watch'[f] \in {watch[f], "none"}]_vars
  BY VerdictStep
<1> QED
  BY <1>1, SpecInv, PTL DEF Spec, VerdictIsFinal

-----------------------------------------------------------------------------

\* Nothing of a deleted FRS is left: no entry, and no goroutine that could write one.
Forgotten(f) ==
    /\ frs[f] = "deleted"
    /\ watch[f] = "none"
    /\ watcher[f] \in {"none", "done"}

\* One step, for one FRS.
LEMMA ForgottenStep ==
  ASSUME Inv, [Next]_vars, NEW f \in FRSs, Forgotten(f)
  PROVE  Forgotten(f)'
<1> USE DEF Inv, TypeOK, Forgotten
<1>1. ASSUME NEW g \in FRSs, handleWizardCreate(g)
      PROVE  Forgotten(f)'
  BY <1>1 DEF handleWizardCreate
<1>2. ASSUME NEW g \in FRSs, TrackCreated(g)
      PROVE  Forgotten(f)'
  BY <1>2 DEF TrackCreated
<1>3. ASSUME NEW g \in FRSs, NEW v \in Verdict, Conclude(g, v)
      PROVE  Forgotten(f)'
  BY <1>3 DEF Conclude
<1>4. ASSUME NEW g \in FRSs, RecordVerdict(g)
      PROVE  Forgotten(f)'
  BY <1>4 DEF RecordVerdict, Verdict
<1>5. ASSUME NEW g \in FRSs, DeleteFRS(g) \/ ClearWatch(g)
      PROVE  Forgotten(f)'
  BY <1>5 DEF DeleteFRS, ClearWatch, Live
<1>6. ASSUME NEW g \in FRSs, K10Bind(g) \/ \E state \in Live : K10SetState(g, state)
      PROVE  Forgotten(f)'
  BY <1>6 DEF K10Bind, K10SetState
<1>7. CASE SweepWatches \/ Restart
  BY <1>7 DEF SweepWatches, Restart
<1>8. CASE Tick \/ UNCHANGED vars
  BY <1>8 DEF Tick, vars
<1> QED
  BY <1>1, <1>2, <1>3, <1>4, <1>5, <1>6, <1>7, <1>8 DEF Next, Watcher

\* The half of DeletedIsForgotten that needs no fairness: once the entry of a deleted
\* FRS is gone and its goroutine has ended, no request, goroutine, sweep or restart
\* brings the entry back.
THEOREM ForgottenForGood ==
  ASSUME NEW f \in FRSs
  PROVE  Spec => [](Forgotten(f) => []Forgotten(f))
<1>1. Inv /\ [Next]_vars /\ Forgotten(f) => Forgotten(f)'
  BY ForgottenStep
<1> QED
  BY <1>1, SpecInv, PTL DEF Spec

=============================================================================
