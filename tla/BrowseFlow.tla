----------------------------- MODULE BrowseFlow -----------------------------
(***************************************************************************)
(* From Create FRS to a directory listing: handleBrowse and                *)
(* handlePartialReady with the page that polls it, handleSessions and      *)
(* handleConnect (internal/handlers/handlers.go, web/templates), on top of *)
(* the watch map of FrsWatch.                                              *)
(*                                                                         *)
(* A tab is a window on one FRS; the tabs of one cookie on one FRS share   *)
(* an entry of the pool.  A request is split between its reads of the      *)
(* watch map, the pool and the API server.  Of an entry only its age and   *)
(* its connection matter here (see SftpPool).  A request takes less than   *)
(* the pool's TTL.  partial=ready is asked for by htmx only.               *)
(***************************************************************************)
EXTENDS FrsWatch

CONSTANTS
    Users,      \* cookies
    Windows     \* the tabs that one user may have open for one FRS

VARIABLES
    at,     \* the page a tab shows, or the handler its request is in
    shown,  \* the FRS state on its preparing page, or the row's button in /sessions
    conn    \* the entries of the pool

tabVars == <<at, shown, conn>>
flowVars == <<vars, tabVars>>

Keys == Users \X FRSs
Tabs == Users \X FRSs \X Windows
FRSOf(t) == t[2]
KeyOf(t) == <<t[1], t[2]>>

Pages == {"away", "preparing", "listing", "sessions", "error"}
Handling == {"create", "browse", "get", "query", "queryFailed", "list", "listLost",
             "poll", "pollQuery", "rows", "connect", "dial"}

\* "idle" is an entry older than the TTL, "broken" one whose connection is lost.
Entry == {"none", "open", "idle", "broken"}

Show(t, page, what) ==
    /\ at' = [at EXCEPT ![t] = page]
    /\ shown' = [shown EXCEPT ![t] = what]

Goto(t, handler) == Show(t, handler, "nothing")

\* renderPreparing and renderPreparingBody.
Prepare(t, state) == Show(t, "preparing", state)

\* GetFRS returns an error.
GetFails(f) == ApiMayFail \/ \A state \in Live : ~GetFRS(f, state)

\* K10 serves the FRS's volume over SFTP.
Serving(f) == GetFRS(f, "Ready")

-----------------------------------------------------------------------------

FlowInit ==
    /\ Init
    /\ at = [t \in Tabs |-> "away"]
    /\ shown = [t \in Tabs |-> "nothing"]
    /\ conn = [k \in Keys |-> "none"]

\* The form of the wizard page is sent; CreateFRS returns, or a field is missing,
\* or the API server refuses.
Submit(t) ==
    /\ at[t] = "away"
    /\ \/ handleWizardCreate(FRSOf(t)) /\ Goto(t, "create")
       \/ UNCHANGED vars /\ Goto(t, "error")
    /\ UNCHANGED conn

\* The rest of handleWizardCreate, with its redirect to /browse.
Created(t) ==
    /\ at[t] = "create"
    /\ TrackCreated(FRSOf(t))
    /\ Goto(t, "browse")
    /\ UNCHANGED conn

\* handleBrowse looks at the watch map.
handleBrowse(t) ==
    /\ at[t] = "browse"
    /\ IF watch[FRSOf(t)] \in Verdict \ {"Ready"}
          THEN Prepare(t, watch[FRSOf(t)])
          ELSE Goto(t, "get")
    /\ UNCHANGED <<vars, conn>>

\* handleBrowse calls pool.Get, which drops an entry that is too old.
GetSession(t) ==
    LET k == KeyOf(t) IN
    /\ at[t] = "get"
    /\ \/ conn[k] = "open" /\ Goto(t, "list")
       \/ conn[k] = "broken" /\ Goto(t, "listLost")
       \/ conn[k] \in {"none", "idle"} /\ Goto(t, "query")
    /\ conn' = [conn EXCEPT ![k] = IF @ = "idle" THEN "none" ELSE @]
    /\ UNCHANGED vars

\* ListDir on the session the request got, which is not that of the entry any more if
\* another tab has connected since.  It may fail for any reason, and an error leaves the
\* entry in the pool.
ListDirectory(t) ==
    /\ at[t] \in {"list", "listLost"}
    /\ \/ at[t] = "list" /\ Serving(FRSOf(t)) /\ Goto(t, "listing")
       \/ Goto(t, "error")
    /\ UNCHANGED <<vars, conn>>

\* The 303 to .../connect arrives there as a GET; only POST is routed to
\* handleConnect, and GET / sends the tab on to /sessions.
Reconnect(t) == Goto(t, "rows")

\* Mutant of QueryState: the state that was found is remembered in the watch map.
QueryAndRemember(t) ==
    LET f == FRSOf(t) IN
    /\ at[t] = "query"
    /\ \E state \in {"Pending", "Failed"} :
          /\ GetFRS(f, state)
          /\ Prepare(t, state)
          /\ watch' = [watch EXCEPT ![f] = state]
    /\ UNCHANGED <<frs, bound, age, watcher, waited, reported, conn>>

\* handleBrowse calls GetFRS when the pool has no session.
QueryState(t) ==
    LET f == FRSOf(t) IN
    /\ at[t] = "query"
    /\ \/ GetFails(f) /\ Goto(t, "queryFailed")
       \/ GetFRS(f, "Ready") /\ Reconnect(t)
       \/ \E state \in Live \ {"Ready"} : GetFRS(f, state) /\ Prepare(t, state)
    /\ UNCHANGED <<vars, conn>>

\* handleBrowse falls back to the watch map when GetFRS fails.
QueryFails(t) ==
    LET state == watch[FRSOf(t)] IN
    /\ at[t] = "queryFailed"
    /\ IF state # "none" THEN Prepare(t, state) ELSE Goto(t, "error")
    /\ UNCHANGED <<vars, conn>>

\* The preparing page asks again, every 3 seconds.
Poll(t) ==
    /\ at[t] = "preparing"
    /\ Show(t, "poll", shown[t])
    /\ UNCHANGED <<vars, conn>>

\* handlePartialReady looks at the watch map.
handlePartialReady(t) ==
    LET state == watch[FRSOf(t)] IN
    /\ at[t] = "poll"
    /\ \/ state = "Ready" /\ Goto(t, "browse")
       \/ state \in {"Failed", "Timeout"} /\ Prepare(t, state)
       \/ state \in {"none", "Pending"} /\ Show(t, "pollQuery", shown[t])
    /\ UNCHANGED <<vars, conn>>

\* Mutant of PollState: Failed means keep polling, like any other state.
PollReadyOnly(t) ==
    LET f == FRSOf(t) IN
    /\ at[t] = "pollQuery"
    /\ \/ ~GetFRS(f, "Ready") /\ Prepare(t, shown[t])
       \/ GetFRS(f, "Ready") /\ Goto(t, "browse")
    /\ UNCHANGED <<vars, conn>>

\* The rest of handlePartialReady: 204 without a redirect leaves the page as it is.
PollState(t) ==
    LET f == FRSOf(t) IN
    /\ at[t] = "pollQuery"
    /\ \/ GetFails(f) /\ Prepare(t, shown[t])
       \/ GetFRS(f, "Ready") /\ Goto(t, "browse")
       \/ GetFRS(f, "Failed") /\ Prepare(t, "Failed")
       \/ (GetFRS(f, "Pending") \/ GetFRS(f, "Ended")) /\ Prepare(t, shown[t])
    /\ UNCHANGED <<vars, conn>>

\* handleSessions: Browse is offered for a connectable FRS that has not ended.
handleSessions(t) ==
    LET f == FRSOf(t) IN
    /\ at[t] = "rows"
    /\ \E listed \in {TRUE, ~ApiMayFail} :
          IF listed
             THEN Show(t, "sessions",
                       IF GetFRS(f, "Pending") \/ GetFRS(f, "Ready") THEN "Browse" ELSE "nothing")
             ELSE Goto(t, "error")
    /\ UNCHANGED <<vars, conn>>

\* handleConnect up to Dial; the port is the permitted one.
handleConnect(t) ==
    /\ at[t] = "connect"
    /\ \/ GetFails(FRSOf(t)) /\ Goto(t, "error")
       \/ bound[FRSOf(t)] /\ Goto(t, "dial")
    /\ UNCHANGED <<vars, conn>>

\* The rest of handleConnect: Dial, which may fail for any reason, Store and the
\* redirect to /browse.
DialAndStore(t) ==
    /\ at[t] = "dial"
    /\ \/ Goto(t, "browse") /\ conn' = [conn EXCEPT ![KeyOf(t)] = "open"]
       \/ Goto(t, "error") /\ UNCHANGED conn
    /\ UNCHANGED vars

\* CloseAllForFRS, in handleSessionDelete, after DeleteFRS.  (A listing under way fails
\* in any case: nothing serves the FRS any more.)
CloseAll(f) ==
    /\ frs[f] = "deleted"
    /\ conn' = [k \in Keys |-> IF k[2] = f THEN "none" ELSE conn[k]]
    /\ UNCHANGED <<vars, at, shown>>

\* The user presses Browse, or follows a link, or closes the tab.
ClickBrowse(t) ==
    /\ at[t] = "sessions" /\ shown[t] = "Browse"
    /\ Goto(t, "connect")
    /\ UNCHANGED <<vars, conn>>

Navigate(t) ==
    /\ at[t] \in Pages
    /\ \E to \in {"browse", "rows", "away"} :
          /\ to = "browse" => frs[FRSOf(t)] # "unborn"
          /\ Goto(t, to)
    /\ UNCHANGED <<vars, conn>>

\* External: the user does nothing for longer than the pool's TTL.
EntryAges(k) ==
    /\ conn[k] \in {"open", "broken"}
    /\ \A t \in Tabs : KeyOf(t) = k => at[t] \notin {"list", "listLost"}
    /\ conn' = [conn EXCEPT ![k] = "idle"]
    /\ UNCHANGED <<vars, at, shown>>

\* External: the SFTP server restarts, under the entry and under whoever lists.
ServerRestarts(k) ==
    /\ conn[k] = "open"
    /\ conn' = [conn EXCEPT ![k] = "broken"]
    /\ at' = [t \in Tabs |-> IF KeyOf(t) = k /\ at[t] = "list" THEN "listLost" ELSE at[t]]
    /\ UNCHANGED <<vars, shown>>

\* Requests in flight fail; the pool and the watch map are lost.
HelperRestart ==
    /\ Restart
    /\ at' = [t \in Tabs |-> IF at[t] \in Handling THEN "error" ELSE at[t]]
    /\ shown' = [t \in Tabs |-> IF at[t] \in Handling THEN "nothing" ELSE shown[t]]
    /\ conn' = [k \in Keys |-> "none"]

\* What goes on in FrsWatch meanwhile.
Background ==
    /\ \/ \E f \in FRSs :
             \/ \E verdict \in Verdict : Conclude(f, verdict)
             \/ RecordVerdict(f)
             \/ DeleteFRS(f)
             \/ ClearWatch(f)
             \/ K10Bind(f)
             \/ \E state \in Live : K10SetState(f, state)
       \/ SweepWatches
       \/ Tick
    /\ UNCHANGED tabVars

\* A step of a handler.
Serve(t) ==
    \/ Created(t)
    \/ handleBrowse(t)
    \/ GetSession(t)
    \/ ListDirectory(t)
    \/ QueryState(t)
    \/ QueryFails(t)
    \/ handlePartialReady(t)
    \/ PollState(t)
    \/ handleSessions(t)
    \/ handleConnect(t)
    \/ DialAndStore(t)

FlowNext ==
    \/ \E t \in Tabs :
          \/ Serve(t)
          \/ Poll(t)
          \/ Submit(t)
          \/ ClickBrowse(t)
          \/ Navigate(t)
    \/ \E k \in Keys : EntryAges(k) \/ ServerRestarts(k)
    \/ \E f \in FRSs : CloseAll(f)
    \/ Background
    \/ HelperRestart

FlowSpec == FlowInit /\ [][FlowNext]_flowVars

(***************************************************************************)
(* Handlers run on, htmx polls, and the goroutines, the sweeper and the    *)
(* clock of FrsWatch do as they do there.  Users and K10 owe nothing.      *)
(***************************************************************************)
FlowFairness ==
    /\ \A t \in Tabs : WF_flowVars(Serve(t)) /\ WF_flowVars(Poll(t))
    /\ \A f \in FRSs :
          WF_flowVars(UNCHANGED tabVars
                        /\ (RecordVerdict(f) \/ \E v \in Verdict : Conclude(f, v)))
    /\ WF_flowVars(SweepWatches /\ UNCHANGED tabVars)
    /\ WF_flowVars(Tick /\ UNCHANGED tabVars)

FairFlowSpec == FlowSpec /\ FlowFairness

-----------------------------------------------------------------------------
(***************************************************************************)
(* Properties                                                              *)
(***************************************************************************)

FlowTypeOK ==
    /\ at \in [Tabs -> Pages \cup Handling]
    /\ shown \in [Tabs -> Live \cup {"Timeout", "Browse", "nothing"}]
    /\ conn \in [Keys -> Entry]

\* What the preparing page says of an FRS the API server has said of it, however
\* old the watch entry, the query or the page.
ShownIsTrue ==
    \A t \in Tabs : at[t] = "preparing" /\ shown[t] \in Live \ {"Pending"}
                        => shown[t] \in reported[FRSOf(t)]

\* The handlers use the watch map as FrsWatch says.
UsesWatch == Spec

\* A preparing page left open does not wait for ever for an FRS that K10 serves,
\* even after a Timeout has been recorded: it moves on, if only to /sessions.
WaitingEnds ==
    \A t \in Tabs : <>[]Serving(FRSOf(t)) =>
        (at[t] = "preparing" ~> at[t] \in Pages \ {"preparing"})

\* A preparing page of an FRS that has failed does not say Pending for ever: it comes
\* to say Failed, or Timeout where that was recorded first.
FailureShows ==
    \A t \in Tabs : <>[]GetFRS(FRSOf(t), "Failed") =>
        (at[t] = "preparing" ~>
            \/ at[t] \in Pages \ {"preparing"}
            \/ shown[t] \in {"Failed", "Timeout"})

-----------------------------------------------------------------------------
(***************************************************************************)
(* What the documentation says, and the code does not keep.                *)
(***************************************************************************)

\* README.md:33: "the user sees a "preparing" page until state=Ready, then is
\* redirected to the directory listing": the page that comes after a poll is the
\* listing, unless there is still something to wait for or an error to show.
RedirectsToListing ==
    \A t \in Tabs : <>[]Serving(FRSOf(t)) =>
        (at[t] = "pollQuery" ~> at[t] \in {"listing", "preparing", "error"})

=============================================================================
