------------------------------ MODULE FrsWatch ------------------------------
(***************************************************************************)
(* How the helper learns that a FileRecoverySession it created is ready:   *)
(* the watch map and the watchFRSCreated goroutines of handlers/wizard.go, *)
(* the WaitForReady loop of k8s/frs.go, the handlers that create and       *)
(* delete an FRS, and the sweeper.                                         *)
(*                                                                         *)
(* The FRS object itself belongs to the Kubernetes API server and is       *)
(* driven by K10; both are external and may do what they like, whenever.   *)
(* Names come from GenerateName, so an FRS is created at most once.        *)
(*                                                                         *)
(* Times are ages: the code only compares now - createdAt with maxAge and  *)
(* now with the deadline.  Each saturates one tick past its limit.         *)
(***************************************************************************)
EXTENDS Naturals

CONSTANTS
    FRSs,           \* the FRSs the wizard may create
    WaitTimeout,    \* frsTimeout, in ticks
    MaxAge,         \* maxAge of the watch-map sweeper, in ticks
    ApiMayFail      \* whether a Get of the API server may fail

ASSUME WatchAssumption ==
    /\ WaitTimeout \in Nat
    /\ MaxAge \in Nat
    /\ ApiMayFail \in BOOLEAN

VARIABLES
    frs,        \* external: the object's status.state, or "unborn", "deleted"
    bound,      \* external: status.transports.sftp is complete
    watch,      \* watchMap.m: the entry's State, "none" without one
    age,        \* time since the entry's createdAt
    watcher,    \* the goroutine that creates and then watches the FRS
    waited,     \* time since WaitForReady was called
    \* history, read by the properties only
    reported    \* the states other than Pending a GetFRS could have returned so far

vars == <<frs, bound, watch, age, watcher, waited, reported>>

Live == {"Pending", "Ready", "Failed", "Ended"}
FrsState == Live \cup {"unborn", "deleted"}
Verdict == {"Ready", "Failed", "Timeout"}
WatchState == {"none", "Pending"} \cup Verdict
WatcherState == {"none", "created", "polling", "done"} \cup Verdict

Older(n, limit) == IF n <= limit THEN n + 1 ELSE n

\* GetFRS: an error unless the object exists and has its transport (buildFRSView).
GetFRS(f, state) == frs[f] = state /\ state \in Live /\ bound[f]

-----------------------------------------------------------------------------

Init ==
    /\ frs = [f \in FRSs |-> "unborn"]
    /\ bound = [f \in FRSs |-> FALSE]
    /\ watch = [f \in FRSs |-> "none"]
    /\ age = [f \in FRSs |-> 0]
    /\ watcher = [f \in FRSs |-> "none"]
    /\ waited = [f \in FRSs |-> 0]
    /\ reported = [f \in FRSs |-> {}]

\* External: K10 moves the session on; "Ended" is Succeeded or Terminated, and
\* an empty state counts as Pending.
K10SetState(f, state) ==
    /\ frs[f] \in {"Pending", "Ready"}
    /\ state \in Live \ {"Pending", frs[f]}
    /\ frs' = [frs EXCEPT ![f] = state]
    /\ reported' = [reported EXCEPT ![f] = @ \cup (IF bound[f] THEN {state} ELSE {})]
    /\ UNCHANGED <<bound, watch, age, watcher, waited>>

\* External: K10 publishes service name, namespace and port of the SFTP server.
K10Bind(f) ==
    /\ frs[f] \in Live
    /\ ~bound[f]
    /\ bound' = [bound EXCEPT ![f] = TRUE]
    /\ reported' = [reported EXCEPT ![f] = @ \cup ({frs[f]} \ {"Pending"})]
    /\ UNCHANGED <<frs, watch, age, watcher, waited>>

\* handleWizardCreate up to the return of CreateFRS.
handleWizardCreate(f) ==
    /\ frs[f] = "unborn"
    /\ frs' = [frs EXCEPT ![f] = "Pending"]
    /\ watcher' = [watcher EXCEPT ![f] = "created"]
    /\ UNCHANGED <<bound, watch, age, waited, reported>>

\* Mutant of TrackCreated: the goroutine is never started.
TrackUnwatched(f) ==
    /\ watcher[f] = "created"
    /\ watch' = [watch EXCEPT ![f] = "Pending"]
    /\ age' = [age EXCEPT ![f] = 0]
    /\ watcher' = [watcher EXCEPT ![f] = "done"]
    /\ UNCHANGED <<frs, bound, waited, reported>>

\* Mutant of TrackCreated: createdAt is the deadline of the watcher.
TrackFromDeadline(f) ==
    /\ watcher[f] = "created"
    /\ watch' = [watch EXCEPT ![f] = "Pending"]
    /\ age' = [age EXCEPT ![f] = 0 - WaitTimeout]
    /\ watcher' = [watcher EXCEPT ![f] = "polling"]
    /\ waited' = [waited EXCEPT ![f] = 0]
    /\ UNCHANGED <<frs, bound, reported>>

\* The rest of handleWizardCreate: watches.set and go watchFRSCreated.
TrackCreated(f) ==
    /\ watcher[f] = "created"
    /\ watch' = [watch EXCEPT ![f] = "Pending"]
    /\ age' = [age EXCEPT ![f] = 0]
    /\ watcher' = [watcher EXCEPT ![f] = "polling"]
    /\ waited' = [waited EXCEPT ![f] = 0]
    /\ UNCHANGED <<frs, bound, reported>>

\* Mutant of Conclude: running out of time is reported without an error.
ConcludeTimeoutIsReady(f, verdict) ==
    /\ watcher[f] = "polling"
    /\ \/ verdict = "Failed" /\ GetFRS(f, verdict)
       \/ verdict = "Ready" /\ waited[f] > WaitTimeout
    /\ watcher' = [watcher EXCEPT ![f] = verdict]
    /\ waited' = [waited EXCEPT ![f] = 0]
    /\ UNCHANGED <<frs, bound, watch, age, reported>>

\* Mutant of Conclude: the deadline is not checked.
ConcludeNoDeadline(f, verdict) ==
    /\ watcher[f] = "polling"
    /\ verdict \in {"Ready", "Failed"}
    /\ GetFRS(f, verdict)
    /\ watcher' = [watcher EXCEPT ![f] = verdict]
    /\ waited' = [waited EXCEPT ![f] = 0]
    /\ UNCHANGED <<frs, bound, watch, age, reported>>

\* The iteration in which WaitForReady returns; in all others it sleeps.  The
\* deadline is looked at only when GetFRS failed or gave neither Ready nor Failed.
Conclude(f, verdict) ==
    /\ watcher[f] = "polling"
    /\ \/ /\ verdict \in {"Ready", "Failed"}
          /\ GetFRS(f, verdict)
       \/ /\ verdict = "Timeout"
          /\ waited[f] > WaitTimeout
          /\ ApiMayFail \/ ~(GetFRS(f, "Ready") \/ GetFRS(f, "Failed"))
    /\ watcher' = [watcher EXCEPT ![f] = verdict]
    /\ waited' = [waited EXCEPT ![f] = 0]
    /\ UNCHANGED <<frs, bound, watch, age, reported>>

\* Mutant of RecordVerdict: the goroutine starts over instead of ending.
RecordAndRepeat(f) ==
    /\ watcher[f] \in Verdict
    /\ watch' = [watch EXCEPT ![f] = watcher[f]]
    /\ age' = [age EXCEPT ![f] = 0]
    /\ watcher' = [watcher EXCEPT ![f] = "polling"]
    /\ UNCHANGED <<frs, bound, waited, reported>>

\* watchFRSCreatedWithTimeout writes the verdict into the map, whatever became
\* of the entry meanwhile, and the goroutine ends.
RecordVerdict(f) ==
    /\ watcher[f] \in Verdict
    /\ watch' = [watch EXCEPT ![f] = watcher[f]]
    /\ age' = [age EXCEPT ![f] = 0]
    /\ watcher' = [watcher EXCEPT ![f] = "done"]
    /\ UNCHANGED <<frs, bound, waited, reported>>

\* DeleteFRS, called by handleWizardCancel or handleSessionDelete (or an operator).
DeleteFRS(f) ==
    /\ frs[f] \in Live
    /\ frs' = [frs EXCEPT ![f] = "deleted"]
    /\ bound' = [bound EXCEPT ![f] = FALSE]
    /\ UNCHANGED <<watch, age, watcher, waited, reported>>

\* watches.del, which both handlers call once DeleteFRS has returned nil.  The
\* request may be repeated at will: NotFound is nil too.
ClearWatch(f) ==
    /\ frs[f] = "deleted"
    /\ watch' = [watch EXCEPT ![f] = "none"]
    /\ age' = [age EXCEPT ![f] = 0]
    /\ UNCHANGED <<frs, bound, watcher, waited, reported>>

TooOld(f) == watch[f] # "none" /\ age[f] > MaxAge

\* Mutant of SweepWatches: entries the goroutine has finished with are kept.
SweepPendingOnly ==
    LET old == {f \in FRSs : TooOld(f) /\ watch[f] = "Pending"} IN
    /\ old # {}
    /\ watch' = [f \in FRSs |-> IF f \in old THEN "none" ELSE watch[f]]
    /\ age' = [f \in FRSs |-> IF f \in old THEN 0 ELSE age[f]]
    /\ UNCHANGED <<frs, bound, watcher, waited, reported>>

\* watchMap.sweep, on the ticker of startSweeper.
SweepWatches ==
    /\ \E f \in FRSs : TooOld(f)
    /\ watch' = [f \in FRSs |-> IF TooOld(f) THEN "none" ELSE watch[f]]
    /\ age' = [f \in FRSs |-> IF TooOld(f) THEN 0 ELSE age[f]]
    /\ UNCHANGED <<frs, bound, watcher, waited, reported>>

Tick ==
    /\ age' = [f \in FRSs |-> IF watch[f] # "none" THEN Older(age[f], MaxAge) ELSE 0]
    /\ waited' = [f \in FRSs |->
                    IF watcher[f] = "polling" THEN Older(waited[f], WaitTimeout) ELSE waited[f]]
    /\ UNCHANGED <<frs, bound, watch, watcher, reported>>

\* The map and the goroutines live in memory; the FRSs do not.
Restart ==
    /\ watch' = [f \in FRSs |-> "none"]
    /\ age' = [f \in FRSs |-> 0]
    /\ watcher' = [f \in FRSs |-> IF watcher[f] = "none" THEN "none" ELSE "done"]
    /\ waited' = [f \in FRSs |-> 0]
    /\ UNCHANGED <<frs, bound, reported>>

Watcher(f) ==
    \/ TrackCreated(f)
    \/ \E verdict \in Verdict : Conclude(f, verdict)
    \/ RecordVerdict(f)

Next ==
    \/ \E f \in FRSs :
          \/ handleWizardCreate(f)
          \/ Watcher(f)
          \/ DeleteFRS(f)
          \/ ClearWatch(f)
          \/ K10Bind(f)
          \/ \E state \in Live : K10SetState(f, state)
    \/ SweepWatches
    \/ Tick
    \/ Restart

Spec == Init /\ [][Next]_vars

(***************************************************************************)
(* The helper's goroutines run, the sweeper's ticker fires and time        *)
(* passes.  Neither K10 nor the user has to do anything.                   *)
(***************************************************************************)
Fairness ==
    /\ \A f \in FRSs : WF_vars(Watcher(f))
    /\ WF_vars(SweepWatches)
    /\ WF_vars(Tick)

FairSpec == Spec /\ Fairness

-----------------------------------------------------------------------------
(***************************************************************************)
(* Properties                                                              *)
(***************************************************************************)

TypeOK ==
    /\ frs \in [FRSs -> FrsState]
    /\ bound \in [FRSs -> BOOLEAN]
    /\ watch \in [FRSs -> WatchState]
    /\ age \in [FRSs -> 0 .. MaxAge + 1]
    /\ watcher \in [FRSs -> WatcherState]
    /\ waited \in [FRSs -> 0 .. WaitTimeout + 1]
    /\ reported \in [FRSs -> SUBSET (Live \ {"Pending"})]

\* The map says Ready or Failed only of an FRS the API server has shown in that
\* state: the poll page redirects to /browse, or shows the error, on its word.
VerdictIsTrue == \A f \in FRSs : watch[f] \in {"Ready", "Failed"} => watch[f] \in reported[f]

\* While the map says Pending a goroutine is still going to change that: no
\* restart, sweep or delete leaves a page polling for an answer nobody will give.
PendingIsWatched ==
    \A f \in FRSs : watch[f] = "Pending" => watcher[f] \in {"polling"} \cup Verdict

\* A verdict is final: it is never revised, only swept or cleared.
VerdictIsFinal ==
    [][\A f \in FRSs : watch[f] \in Verdict => watch'[f] \in {watch[f], "none"}]_vars

\* Every goroutine handleWizardCreate starts comes to its end and leaves no entry
\* Pending, whatever K10 does with the FRS and whether the entry was swept, cleared or
\* kept.
WatcherEnds ==
    \A f \in FRSs :
        watcher[f] = "polling" ~> watcher[f] = "done" /\ watch[f] # "Pending"

\* Once an FRS is deleted the map forgets it for good, although a goroutine that
\* is still polling may bring its entry back.
DeletedIsForgotten == \A f \in FRSs : frs[f] = "deleted" ~> [](watch[f] = "none")

=============================================================================
