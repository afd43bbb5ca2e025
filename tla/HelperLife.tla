----------------------------- MODULE HelperLife -----------------------------
(***************************************************************************)
(* The life of the helper's process: run in cmd/helper/main.go with the    *)
(* configuration, the preflight and the loading of the key, the serving of *)
(* requests (server.Run and the middleware) and the shutdown.              *)
(*                                                                         *)
(* Up to the listening socket the process does one thing after another, so *)
(* that is two steps.  What is wrong with the cluster is wrong for the     *)
(* whole of a start, and matters only if the start fails for it.  What     *)
(* LoadOrGenerate does to the Secret is in KeyManager.                     *)
(***************************************************************************)
EXTENDS Naturals

CONSTANTS
    Tabs,       \* a tab has at most one request under way
    Faults,     \* sets of things that may be wrong with the cluster at once
    Grace       \* the 10 s of server.Run, in ticks

\* Name resolution, the way to the API server, the credentials, and the verbs the
\* service account may need on the Secret.
Layers == {"dns", "network", "auth", "get", "create", "update"}

ASSUME LifeAssumption ==
    /\ Faults \subseteq SUBSET Layers
    /\ Grace \in Nat

VARIABLES
    phase,      \* what the process is doing
    \* of a start that ended at the key:
    fault,      \*    external: what was wrong
    cause,      \*    what the error of LoadOrGenerate is about
    blamed,     \*    the layers the preflight's log lines name
    exit,       \* how the process ended
    waited,     \* time since srv.Shutdown was called, saturating
    req         \* the request of each tab

lifeVars == <<phase, fault, cause, blamed, exit, waited, req>>

Phase == {"down", "starting", "serving", "draining"}
SecretObj == {"complete", "missing", "empty", "noPublic", "noPrivate", "garbage"}
Exit == {"none", "ok", "error", "key", "killed"}

-----------------------------------------------------------------------------

LifeInit ==
    /\ phase = "down"
    /\ fault = {}
    /\ cause = "none"
    /\ blamed = {}
    /\ exit = "none"
    /\ waited = 0
    /\ req = [t \in Tabs |-> "none"]

\* The process ends; a request that was under way is cut.
End(how) ==
    /\ phase' = "down"
    /\ exit' = how
    /\ waited' = 0
    /\ req' = [t \in Tabs |-> IF req[t] = "running" THEN "cut" ELSE req[t]]

\* What the API calls of the preflight show: discovery tells a timeout from a rejected
\* credential, and an access review has no answer unless discovery had one.
Discovered(f, verbs) ==
    IF "network" \in f THEN {} ELSE IF "auth" \in f THEN {"auth"} ELSE f \cap verbs

\* Mutant of preflight: only the verb that every start needs is asked about.
preflightGetOnly(f) == (f \cap {"dns", "network"}) \cup Discovered(f, {"get"})

\* The layers startup.Run complains about: DNS, the TCP dial, discovery and the two
\* access reviews.  Nothing it finds keeps the helper from going on.
preflight(f) == (f \cap {"dns", "network"}) \cup Discovered(f, {"get", "create"})

\* What the error of LoadOrGenerate is about, in the order it meets things: the calls
\* of the API it needs for the Secret it finds, and the Secret itself.  The client does
\* not resolve names.  An empty Secret exists, so that it cannot be created; garbage
\* does not parse.
LoadOrGenerate(f, sec) ==
    IF "network" \in f THEN "network"
    ELSE IF "auth" \in f THEN "auth"
    ELSE IF "get" \in f THEN "get"
    ELSE IF sec \in {"missing", "empty"} /\ "create" \in f THEN "create"
    ELSE IF sec = "noPublic" /\ "update" \in f THEN "update"
    ELSE IF sec \in {"empty", "noPrivate", "garbage"} THEN "secret"
    ELSE "none"

\* main: config.Load and NewClient return, or main returns their error.
Start ==
    /\ phase = "down"
    /\ phase' = "starting"
    /\ exit' = "none"
    /\ waited' = 0
    /\ fault' = {} /\ cause' = "none" /\ blamed' = {}
    /\ req' = [t \in Tabs |-> "none"]

StartFails ==
    /\ phase = "starting"
    /\ End("error")
    /\ UNCHANGED <<fault, cause, blamed>>

\* The preflight, and LoadOrGenerate with what follows up to server.Run.
LoadKey(f, sec) ==
    /\ phase = "starting"
    /\ IF LoadOrGenerate(f, sec) = "none"
          THEN /\ phase' = "serving"
               /\ UNCHANGED <<fault, cause, blamed, exit, waited, req>>
          ELSE /\ fault' = f
               /\ cause' = LoadOrGenerate(f, sec)
               /\ blamed' = preflight(f)
               /\ End("key")

\* A request has passed the middleware and is being handled.
Begin(t) ==
    /\ phase = "serving"
    /\ req[t] # "running"
    /\ req' = [req EXCEPT ![t] = "running"]
    /\ UNCHANGED <<phase, fault, cause, blamed, exit, waited>>

\* The handler returns, or panics and Recoverer answers 500.
Finish(t) ==
    /\ req[t] = "running"
    /\ req' = [req EXCEPT ![t] = "none"]
    /\ UNCHANGED <<phase, fault, cause, blamed, exit, waited>>

\* SIGTERM: NotifyContext is installed once the socket listens; before that the
\* signal ends the process at once.
Terminate ==
    \/ /\ phase = "starting"
       /\ End("killed")
       /\ UNCHANGED <<fault, cause, blamed>>
    \/ /\ phase = "serving"
       /\ phase' = "draining"
       /\ waited' = 0
       /\ UNCHANGED <<fault, cause, blamed, exit, req>>

\* Mutant of Drained: Shutdown is called with the context the signal has cancelled,
\* and its error is dropped.
DrainedAtOnce ==
    /\ phase = "draining"
    /\ End("ok")
    /\ UNCHANGED <<fault, cause, blamed>>

\* srv.Shutdown returns nil once every request has been answered.
Drained ==
    /\ phase = "draining"
    /\ \A t \in Tabs : req[t] # "running"
    /\ End("ok")
    /\ UNCHANGED <<fault, cause, blamed>>

\* Mutant of DrainTimeout: Shutdown has no deadline.
DrainForever ==
    /\ phase = "draining"
    /\ FALSE
    /\ End("error")
    /\ UNCHANGED <<fault, cause, blamed>>

\* The 10 s are over: Shutdown returns an error, and so does main.
DrainTimeout ==
    /\ phase = "draining"
    /\ waited > Grace
    /\ End("error")
    /\ UNCHANGED <<fault, cause, blamed>>

\* srv.Serve fails.
ServeFails ==
    /\ phase = "serving"
    /\ End("error")
    /\ UNCHANGED <<fault, cause, blamed>>

\* External: SIGKILL, from the kubelet or for lack of memory.
Kill ==
    /\ phase # "down"
    /\ End("killed")
    /\ UNCHANGED <<fault, cause, blamed>>

WaitTick == waited' = IF phase = "draining" /\ waited <= Grace THEN waited + 1 ELSE waited

Process ==
    \/ StartFails
    \/ \E f \in Faults, sec \in SecretObj : LoadKey(f, sec)
    \/ Terminate
    \/ Drained
    \/ DrainTimeout
    \/ ServeFails
    \/ Kill

-----------------------------------------------------------------------------
(***************************************************************************)
(* Properties                                                              *)
(***************************************************************************)

LifeTypeOK ==
    /\ phase \in Phase
    /\ fault \subseteq Layers
    /\ cause \in Layers \cup {"secret", "none"}
    /\ blamed \subseteq Layers
    /\ exit \in Exit
    /\ waited \in 0 .. Grace + 1
    /\ req \in [Tabs -> {"none", "running", "cut"}]

\* The helper exits with status 0 only when every request has had its answer: a
\* download that is cut by the shutdown shows in the status.
CleanExit == exit = "ok" => \A t \in Tabs : req[t] # "cut"

\* When a start ends at the key, the log has named the layer LoadOrGenerate failed at,
\* unless that is update or what the Secret holds, which the preflight does not look at.
\* Whatever else it has named is broken too, although not all of that does harm: names
\* are not resolved, and create is not needed for a Secret that is there.
DiagnosisIsRight ==
    exit = "key" =>
        /\ cause \in blamed \cup {"update", "secret"}
        /\ blamed \subseteq fault

\* SIGTERM ends the process, whether or not the downloads under way ever end.
TermEnds == phase = "draining" ~> phase = "down"

=============================================================================
