-------------------------- MODULE BrowseFlowProofs --------------------------
(***************************************************************************)
(* For any users, FRSs and tabs, the pages use the watch map as FrsWatch   *)
(* says, so that its invariant holds under them, and the preparing page    *)
(* never says of an FRS what the API server has not said.                  *)
(*                                                                         *)
(* ShownIsTrue is not inductive: while a poll is in flight the page is     *)
(* still there and comes back as it was.  And what it takes from the watch *)
(* map or from GetFRS is true because of FrsWatch's invariant.             *)
(***************************************************************************)
EXTENDS BrowseFlow, FrsWatchProofs

\* The page and the polls it has in flight.
Waiting(t) == at[t] \in {"preparing", "poll", "pollQuery"}

Told == Live \ {"Pending"}

\* The inductive invariant, on top of FrsWatch's.
FlowInv ==
    /\ FlowTypeOK
    /\ \A t \in Tabs : Waiting(t) => shown[t] \notin {"Browse", "nothing"}
    /\ \A t \in Tabs : Waiting(t) /\ shown[t] \in Told => shown[t] \in reported[FRSOf(t)]

-----------------------------------------------------------------------------

\* A step of a page is a step of FrsWatch or leaves its state alone.
LEMMA FlowIsWatch == ASSUME [FlowNext]_flowVars
                     PROVE  [Next]_vars
<1>a. \A t \in Tabs : FRSOf(t) \in FRSs
  BY DEF Tabs, FRSOf
<1>1. ASSUME NEW t \in Tabs, Serve(t)
      PROVE  [Next]_vars
  <2>1. CASE Created(t)
    BY <2>1, <1>a DEF Created, Next, Watcher
  <2>2. CASE ~Created(t)
    BY <1>1, <2>2 DEF Serve, handleBrowse, GetSession, ListDirectory, QueryState,
         QueryFails, handlePartialReady, PollState, handleSessions, handleConnect, DialAndStore
  <2> QED
    BY <2>1, <2>2
<1>2. ASSUME NEW t \in Tabs, Submit(t)
      PROVE  [Next]_vars
  BY <1>2, <1>a DEF Submit, Next
<1>3. ASSUME NEW t \in Tabs, Poll(t) \/ ClickBrowse(t) \/ Navigate(t)
      PROVE  [Next]_vars
  BY <1>3 DEF Poll, ClickBrowse, Navigate
<1>4. ASSUME NEW k \in Keys, EntryAges(k) \/ ServerRestarts(k)
      PROVE  [Next]_vars
  BY <1>4 DEF EntryAges, ServerRestarts
<1>5. ASSUME NEW f \in FRSs, CloseAll(f)
      PROVE  [Next]_vars
  BY <1>5 DEF CloseAll
<1>6. CASE Background
  BY <1>6 DEF Background, Next, Watcher
<1>7. CASE HelperRestart
  BY <1>7 DEF HelperRestart, Next
<1>8. CASE UNCHANGED flowVars
  BY <1>8 DEF flowVars
<1> QED
  BY <1>1, <1>2, <1>3, <1>4, <1>5, <1>6, <1>7, <1>8 DEF FlowNext

\* The pages implement the specification of the watch map.
THEOREM PagesUseWatch == FlowSpec => UsesWatch
<1>1. FlowInit => Init
  BY DEF FlowInit
<1>2. [FlowNext]_flowVars => [Next]_vars
  BY FlowIsWatch
<1> QED
  BY <1>1, <1>2, PTL DEF FlowSpec, UsesWatch, Spec

-----------------------------------------------------------------------------

\* What the API server has said of an FRS stays said.
LEMMA ReportedGrows == ASSUME Inv, [Next]_vars, NEW f \in FRSs
                       PROVE  reported[f] \subseteq reported'[f]
<1> USE DEF Inv, TypeOK
<1>1. ASSUME NEW g \in FRSs, NEW state \in Live, K10SetState(g, state)
      PROVE  reported[f] \subseteq reported'[f]
  BY <1>1 DEF K10SetState
<1>2. ASSUME NEW g \in FRSs, K10Bind(g)
      PROVE  reported[f] \subseteq reported'[f]
  BY <1>2 DEF K10Bind
<1>3. CASE UNCHANGED reported
  BY <1>3
<1> QED
  BY <1>1, <1>2, <1>3 DEF Next, Watcher, vars, handleWizardCreate, TrackCreated, Conclude,
       RecordVerdict, DeleteFRS, ClearWatch, SweepWatches, Tick, Restart

\* What the watch map and GetFRS tell a page has been reported.
LEMMA TellsTruth == ASSUME Inv, NEW f \in FRSs, NEW state \in Told,
                           watch[f] = state \/ GetFRS(f, state)
                    PROVE  state \in reported[f]
<1>1. CASE watch[f] = state
  BY <1>1 DEF Inv, VerdictIsTrue, TypeOK, WatchState, Verdict, Told, Live
<1>2. CASE GetFRS(f, state)
  BY <1>2 DEF GetFRS, Inv, Shown, Told
<1> QED
  BY <1>1, <1>2

\* A tab that is shown something true, or leaves the preparing page.
LEMMA ShowKeeps ==
  ASSUME Inv, FlowInv, [Next]_vars, NEW t \in Tabs,
         NEW page \in Pages \cup Handling,
         NEW what \in Live \cup {"Timeout", "Browse", "nothing"},
         Show(t, page, what), conn' \in [Keys -> Entry],
         page \in {"preparing", "poll", "pollQuery"} =>
            /\ what \notin {"Browse", "nothing"}
            /\ what \in Told => what \in reported[FRSOf(t)]
  PROVE  FlowInv'
<1>1. FlowTypeOK'
  BY DEF FlowInv, FlowTypeOK, Show
<1>2. \A s \in Tabs : FRSOf(s) \in FRSs
  BY DEF Tabs, FRSOf
<1>3. \A f \in FRSs : reported[f] \subseteq reported'[f]
  BY ReportedGrows
<1>4. \A s \in Tabs : Waiting(s)' => shown'[s] \notin {"Browse", "nothing"}
  BY DEF FlowInv, FlowTypeOK, Show, Waiting
<1>5. ASSUME NEW s \in Tabs, Waiting(s)', shown'[s] \in Told
      PROVE  shown'[s] \in reported'[FRSOf(s)]
  <2>1. CASE s = t
    BY <2>1, <1>2, <1>3, <1>5 DEF FlowInv, FlowTypeOK, Show, Waiting
  <2>2. CASE s # t
    BY <2>2, <1>2, <1>3, <1>5 DEF FlowInv, FlowTypeOK, Show, Waiting
  <2> QED
    BY <2>1, <2>2
<1> QED
  BY <1>1, <1>4, <1>5 DEF FlowInv, Told

\* A step that shows no tab anything new.
LEMMA SameKeeps ==
  ASSUME Inv, FlowInv, [Next]_vars, UNCHANGED <<at, shown>>, conn' \in [Keys -> Entry]
  PROVE  FlowInv'
<1>1. \A t \in Tabs : FRSOf(t) \in FRSs
  BY DEF Tabs, FRSOf
<1>2. \A f \in FRSs : reported[f] \subseteq reported'[f]
  BY ReportedGrows
<1> QED
  BY <1>1, <1>2 DEF FlowInv, FlowTypeOK, Waiting, Told

-----------------------------------------------------------------------------

\* Nobody looks at a page yet.
LEMMA FlowInitInv == FlowInit => FlowInv
  BY DEF FlowInit, FlowInv, FlowTypeOK, Waiting, Pages, Entry

\* The handlers of /browse: what they put on the preparing page is true.
LEMMA BrowseKeeps ==
  ASSUME Inv, FlowInv, NEW t \in Tabs,
         \/ handleBrowse(t) \/ GetSession(t) \/ ListDirectory(t)
         \/ QueryState(t) \/ QueryFails(t)
  PROVE  FlowInv'
<1> DEFINE f == FRSOf(t)
<1>a. f \in FRSs
  BY DEF Tabs, FRSOf
<1>b. conn \in [Keys -> Entry]
  BY DEF FlowInv, FlowTypeOK
<1>c. watch[f] \in WatchState
  BY <1>a DEF Inv, TypeOK
<1> USE <1>a, <1>b, <1>c, ShowKeeps, TellsTruth DEF Goto, Prepare, Told, Pages, Handling, Live
<1>1. CASE handleBrowse(t)
  BY <1>1 DEF handleBrowse, Verdict
<1>2. CASE GetSession(t)
  <2>1. conn' \in [Keys -> Entry]
    BY <1>2 DEF GetSession, Entry
  <2> QED
    BY <1>2, <2>1 DEF GetSession
<1>3. CASE ListDirectory(t)
  BY <1>3 DEF ListDirectory
<1>4. CASE QueryState(t)
  <2>1. CASE Goto(t, "queryFailed") \/ Reconnect(t)
    BY <1>4, <2>1 DEF QueryState, Reconnect
  <2>2. ASSUME NEW state \in Live \ {"Ready"}, GetFRS(f, state), Prepare(t, state)
        PROVE  FlowInv'
    BY <1>4, <2>2 DEF QueryState
  <2> QED
    BY <1>4, <2>1, <2>2 DEF QueryState
<1>5. CASE QueryFails(t)
  BY <1>5 DEF QueryFails, WatchState, Verdict
<1> QED
  BY <1>1, <1>2, <1>3, <1>4, <1>5

\* The poll and its handler: the page keeps what it said, or says something true.
LEMMA PollKeeps ==
  ASSUME Inv, FlowInv, NEW t \in Tabs,
         Poll(t) \/ handlePartialReady(t) \/ PollState(t)
  PROVE  FlowInv'
<1> DEFINE f == FRSOf(t)
<1>a. f \in FRSs
  BY DEF Tabs, FRSOf
<1>b. /\ conn \in [Keys -> Entry]
      /\ shown[t] \in Live \cup {"Timeout", "Browse", "nothing"}
      /\ Waiting(t) => shown[t] \notin {"Browse", "nothing"}
      /\ Waiting(t) /\ shown[t] \in Told => shown[t] \in reported[f]
  BY DEF FlowInv, FlowTypeOK
<1> USE <1>a, <1>b, ShowKeeps, TellsTruth
    DEF Goto, Prepare, Told, Pages, Handling, Live, Waiting
<1>1. CASE Poll(t)
  BY <1>1 DEF Poll
<1>2. CASE handlePartialReady(t)
  BY <1>2 DEF handlePartialReady
<1>3. CASE PollState(t)
  <2>1. CASE GetFRS(f, "Failed") /\ Prepare(t, "Failed")
    BY <1>3, <2>1 DEF PollState
  <2>2. CASE Goto(t, "browse")
    BY <1>3, <2>2 DEF PollState
  <2>3. CASE Prepare(t, shown[t])
    BY <1>3, <2>3 DEF PollState
  <2> QED
    BY <1>3, <2>1, <2>2, <2>3 DEF PollState
<1> QED
  BY <1>1, <1>2, <1>3

\* Steps that take a tab off the preparing page.
LEMMA LeavingKeeps ==
  ASSUME Inv, FlowInv, NEW t \in Tabs,
         \/ Submit(t) \/ Created(t) \/ handleSessions(t) \/ handleConnect(t)
         \/ DialAndStore(t) \/ ClickBrowse(t) \/ Navigate(t)
  PROVE  FlowInv'
<1>a. FRSOf(t) \in FRSs
  BY DEF Tabs, FRSOf
<1>b. conn \in [Keys -> Entry]
  BY DEF FlowInv, FlowTypeOK
<1> USE <1>a, <1>b, ShowKeeps DEF Goto, Pages, Handling
<1>1. CASE Submit(t)
  BY <1>1 DEF Submit, Next
<1>2. CASE Created(t)
  BY <1>2 DEF Created, Next, Watcher
<1>3. CASE handleSessions(t)
  BY <1>3 DEF handleSessions
<1>4. CASE handleConnect(t)
  BY <1>4 DEF handleConnect
<1>5. CASE DialAndStore(t)
  <2>1. conn' \in [Keys -> Entry]
    BY <1>5 DEF DialAndStore, Entry
  <2> QED
    BY <1>5, <2>1 DEF DialAndStore
<1>6. CASE ClickBrowse(t)
  BY <1>6 DEF ClickBrowse
<1>7. CASE Navigate(t)
  BY <1>7 DEF Navigate
<1> QED
  BY <1>1, <1>2, <1>3, <1>4, <1>5, <1>6, <1>7

\* A restart fails the requests in flight; the pages stay as they are.
LEMMA RestartKeeps == ASSUME Inv, FlowInv, HelperRestart
                      PROVE  FlowInv'
<1>1. reported' = reported
  BY DEF HelperRestart, Restart
<1>2. FlowTypeOK'
  BY DEF HelperRestart, FlowInv, FlowTypeOK, Pages, Entry
<1>3. \A t \in Tabs : Waiting(t)' => at[t] = "preparing" /\ shown'[t] = shown[t]
  BY DEF HelperRestart, FlowInv, FlowTypeOK, Waiting, Handling, Pages
<1> QED
  BY <1>1, <1>2, <1>3 DEF FlowInv, Waiting

\* A server that restarts shows in listings only.
LEMMA LossKeeps == ASSUME Inv, FlowInv, NEW k \in Keys, ServerRestarts(k)
                   PROVE  FlowInv'
<1>1. UNCHANGED <<reported, shown>>
  BY DEF ServerRestarts, vars
<1>2. FlowTypeOK'
  BY DEF ServerRestarts, FlowInv, FlowTypeOK, Handling, Entry
<1>3. \A t \in Tabs : Waiting(t)' => Waiting(t)
  BY DEF ServerRestarts, Waiting
<1> QED
  BY <1>1, <1>2, <1>3 DEF FlowInv

\* Every step of the pages, the handlers and what goes on behind them.
LEMMA FlowNextInv == ASSUME Inv, FlowInv, [FlowNext]_flowVars
                     PROVE  FlowInv'
<1>a. [Next]_vars
  BY FlowIsWatch
<1>b. conn \in [Keys -> Entry]
  BY DEF FlowInv, FlowTypeOK
<1>1. ASSUME NEW t \in Tabs, Serve(t) \/ Poll(t)
      PROVE  FlowInv'
  BY <1>1, BrowseKeeps, PollKeeps, LeavingKeeps DEF Serve
<1>2. ASSUME NEW t \in Tabs, Submit(t) \/ ClickBrowse(t) \/ Navigate(t)
      PROVE  FlowInv'
  BY <1>2, LeavingKeeps
<1>3. ASSUME NEW k \in Keys, EntryAges(k)
      PROVE  FlowInv'
  <2>1. conn' \in [Keys -> Entry]
    BY <1>3, <1>b DEF EntryAges, Entry
  <2> QED
    BY <1>3, <2>1, <1>a, SameKeeps DEF EntryAges
<1>7. ASSUME NEW k \in Keys, ServerRestarts(k)
      PROVE  FlowInv'
  BY <1>7, LossKeeps
<1>4. ASSUME NEW f \in FRSs, CloseAll(f)
      PROVE  FlowInv'
  <2>1. conn' \in [Keys -> Entry]
    BY <1>4, <1>b DEF CloseAll, Entry
  <2> QED
    BY <1>4, <2>1, <1>a, SameKeeps DEF CloseAll
<1>5. CASE Background \/ UNCHANGED flowVars
  BY <1>5, <1>a, <1>b, SameKeeps DEF Background, tabVars, flowVars
<1>6. CASE HelperRestart
  BY <1>6, RestartKeeps
<1> QED
  BY <1>1, <1>2, <1>3, <1>4, <1>5, <1>6, <1>7 DEF FlowNext

\* The invariant of the pages holds in every reachable state.
LEMMA FlowSpecInv == FlowSpec => []FlowInv
<1>1. FlowSpec => []Inv
  BY PagesUseWatch, SpecInv, PTL DEF UsesWatch
<1> QED
  BY <1>1, FlowInitInv, FlowNextInv, PTL DEF FlowSpec

\* Tabs, pages and pool entries keep their types, whatever handlers interleave.
THEOREM FlowTypeCorrect == FlowSpec => []FlowTypeOK
  BY FlowSpecInv, PTL DEF FlowInv

\* However many users and FRSs, and however late a poll is answered: a preparing
\* page says Ready, Failed or Ended only of an FRS that GetFRS has shown so.
THEOREM ShownAreTrue == FlowSpec => []ShownIsTrue
<1>1. FlowInv => ShownIsTrue
  BY DEF FlowInv, ShownIsTrue, Waiting, Told
<1> QED
  BY <1>1, FlowSpecInv, PTL

=============================================================================
