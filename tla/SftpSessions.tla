---------------------------- MODULE SftpSessions ----------------------------
(***************************************************************************)
(* The request handlers that use the SFTP pool: handleConnect,             *)
(* handleBrowse, handleDownload and handleDownloadZip (handlers.go),       *)
(* handleSessionDelete (sessions.go) and handleWizardCancel (wizard.go).   *)
(*                                                                         *)
(* Each request runs in a goroutine of its own; a handler is split where   *)
(* another goroutine can run between two of its effects: at the Kubernetes *)
(* and SSH calls, and at each acquisition of the pool's mutex.             *)
(*                                                                         *)
(* An FRS is connectable on the permitted port from the start until it is  *)
(* deleted.  For any other FRS handleConnect answers 502 or 400 and        *)
(* changes nothing.  The watch map, which only decides whether             *)
(* handleBrowse asks the pool at all, is in FrsWatch.                      *)
(***************************************************************************)
EXTENDS SftpPool, FiniteSets

CONSTANTS Reqs  \* request goroutines; bounds the requests in flight

ASSUME SessionsAssumption == IsFiniteSet(Users) /\ IsFiniteSet(FRSs)

VARIABLES
    pc,         \* where each request goroutine is
    key,        \* the SessionKey (cookie, FRS) of its request
    sess,       \* its local variable sess
    seen,       \* the result of its call of Pool.Len
    gauge,      \* metrics.SFTPConnectionsActive
    deleted,    \* FRSs the API server no longer has
    \* history, read by the properties only
    ended,      \* FRSs a handleSessionDelete has closed the sessions of
    owner,      \* the key each session was dialed for
    held        \* time since Get gave the request its session, saturating

vars == <<entries, idle, conn, pc, key, sess, seen, gauge, deleted, ended,
          owner, held>>

PC == {"idle", "dial", "store", "len", "gauge", "using", "closeAll"}

Goto(r, label) == pc' = [pc EXCEPT ![r] = label]

NoKey == <<>>

\* The handler returns and its local variables go out of scope.
Return(r) ==
    /\ pc' = [pc EXCEPT ![r] = "idle"]
    /\ key' = [key EXCEPT ![r] = NoKey]
    /\ sess' = [sess EXCEPT ![r] = NoSession]
    /\ seen' = [seen EXCEPT ![r] = 0]
    /\ held' = [held EXCEPT ![r] = 0]

-----------------------------------------------------------------------------

Init ==
    /\ PoolInit
    /\ pc = [r \in Reqs |-> "idle"]
    /\ key = [r \in Reqs |-> NoKey]
    /\ sess = [r \in Reqs |-> NoSession]
    /\ seen = [r \in Reqs |-> 0]
    /\ gauge = 0
    /\ deleted = {}
    /\ ended = {}
    /\ owner = [s \in Sessions |-> NoKey]
    /\ held = [r \in Reqs |-> 0]

\* Mutant of handleConnect: the FRS is taken from the list the page was made from.
ConnectUnchecked(r, k) ==
    /\ pc[r] = "idle"
    /\ key' = [key EXCEPT ![r] = k]
    /\ Goto(r, "dial")
    /\ UNCHANGED <<entries, idle, conn, sess, seen, gauge, deleted, ended, owner, held>>

\* handleConnect: GetFRS found the FRS and its port is permitted.
handleConnect(r, k) ==
    /\ pc[r] = "idle"
    /\ FrsOf(k) \notin deleted
    /\ key' = [key EXCEPT ![r] = k]
    /\ Goto(r, "dial")
    /\ UNCHANGED <<entries, idle, conn, sess, seen, gauge, deleted, ended, owner, held>>

\* Dial may still reach the SSH server of an FRS deleted since GetFRS.
DialSucceeds(r, s) ==
    /\ pc[r] = "dial"
    /\ Dial(s)
    /\ sess' = [sess EXCEPT ![r] = s]
    /\ owner' = [owner EXCEPT ![s] = key[r]]
    /\ Goto(r, "store")
    /\ UNCHANGED <<key, seen, gauge, deleted, ended, held>>

DialFails(r) ==
    /\ pc[r] = "dial"
    /\ Return(r)
    /\ UNCHANGED <<entries, idle, conn, gauge, deleted, ended, owner>>

\* Mutant of StoreSession: the key has the FRS and any user of it.
StoreForAnyUser(r) ==
    /\ pc[r] = "store"
    /\ \E u \in Users : Store(<<u, FrsOf(key[r])>>, sess[r])
    /\ Goto(r, "len")
    /\ UNCHANGED <<key, sess, seen, gauge, deleted, ended, owner, held>>

StoreSession(r) ==
    /\ pc[r] = "store"
    /\ Store(key[r], sess[r])
    /\ Goto(r, "len")
    /\ UNCHANGED <<key, sess, seen, gauge, deleted, ended, owner, held>>

\* metrics.SFTPConnectionsActive.Set(float64(s.pool.Len())): Len takes the
\* pool's lock, Set does not, and nothing orders the two calls of two requests.
ReadLen(r) ==
    /\ pc[r] = "len"
    /\ seen' = [seen EXCEPT ![r] = Cardinality(InPool)]
    /\ Goto(r, "gauge")
    /\ UNCHANGED <<entries, idle, conn, key, sess, gauge, deleted, ended, owner, held>>

SetGauge(r) ==
    /\ pc[r] = "gauge"
    /\ gauge' = seen[r]
    /\ Return(r)
    /\ UNCHANGED <<entries, idle, conn, deleted, ended, owner>>

\* Pool.Get in handleBrowse, handleDownload and handleDownloadZip: a hit.
Acquire(r, k) ==
    /\ pc[r] = "idle"
    /\ GetHit(k)
    /\ key' = [key EXCEPT ![r] = k]
    /\ sess' = [sess EXCEPT ![r] = entries[k]]
    /\ held' = [held EXCEPT ![r] = 0]
    /\ Goto(r, "using")
    /\ UNCHANGED <<seen, gauge, deleted, ended, owner>>

\* The same call on an expired entry; the request ends with a redirect or a 401.
AcquireExpired(k) ==
    /\ GetExpired(k)
    /\ UNCHANGED <<pc, key, sess, seen, gauge, deleted, ended, owner, held>>

\* The listing has been rendered, or the last byte of the download written.
Release(r) ==
    /\ pc[r] = "using"
    /\ Return(r)
    /\ UNCHANGED <<entries, idle, conn, gauge, deleted, ended, owner>>

\* Mutant of handleSessionDelete: an error of DeleteFRS is not returned on.
SessionDeleteIgnoresError(r, k) ==
    /\ pc[r] = "idle"
    /\ key' = [key EXCEPT ![r] = k]
    /\ deleted' \in {deleted, deleted \cup {FrsOf(k)}}
    /\ Goto(r, "closeAll")
    /\ UNCHANGED <<entries, idle, conn, sess, seen, gauge, ended, owner, held>>

\* handleSessionDelete: DeleteFRS returned nil (NotFound included).
handleSessionDelete(r, k) ==
    /\ pc[r] = "idle"
    /\ key' = [key EXCEPT ![r] = k]
    /\ deleted' = deleted \cup {FrsOf(k)}
    /\ Goto(r, "closeAll")
    /\ UNCHANGED <<entries, idle, conn, sess, seen, gauge, ended, owner, held>>

\* Mutant of CloseSessions: the sessions are closed and stay in the map.
CloseSessionsInPlace(r) ==
    /\ pc[r] = "closeAll"
    /\ conn' = [s \in Sessions |->
                  IF \E k \in Keys : FrsOf(k) = FrsOf(key[r]) /\ entries[k] = s
                     THEN "closing" ELSE conn[s]]
    /\ ended' = ended \cup {FrsOf(key[r])}
    /\ Goto(r, "len")
    /\ UNCHANGED <<entries, idle, key, sess, seen, gauge, deleted, owner, held>>

CloseSessions(r) ==
    /\ pc[r] = "closeAll"
    /\ CloseAllForFRS(FrsOf(key[r]))
    /\ ended' = ended \cup {FrsOf(key[r])}
    /\ Goto(r, "len")
    /\ UNCHANGED <<key, sess, seen, gauge, deleted, owner, held>>

\* handleWizardCancel deletes the FRS and leaves the pool alone; so does kubectl.
handleWizardCancel(f) ==
    /\ f \notin deleted
    /\ deleted' = deleted \cup {f}
    /\ UNCHANGED <<entries, idle, conn, pc, key, sess, seen, gauge, ended, owner, held>>

CloseReturns(s) ==
    /\ CloseDone(s)
    /\ UNCHANGED <<pc, key, sess, seen, gauge, deleted, ended, owner, held>>

ClockTick ==
    /\ Tick
    /\ held' = [r \in Reqs |-> IF pc[r] = "using" THEN Saturate(held[r]) ELSE held[r]]
    /\ UNCHANGED <<pc, key, sess, seen, gauge, deleted, ended, owner>>

\* Nothing of the helper's state survives its process.
HelperRestart ==
    /\ Restart
    /\ pc' = [r \in Reqs |-> "idle"]
    /\ key' = [r \in Reqs |-> NoKey]
    /\ sess' = [r \in Reqs |-> NoSession]
    /\ seen' = [r \in Reqs |-> 0]
    /\ gauge' = 0
    /\ held' = [r \in Reqs |-> 0]
    /\ UNCHANGED <<deleted, ended, owner>>

Request(r) ==
    \/ DialFails(r)
    \/ \E s \in Sessions : DialSucceeds(r, s)
    \/ StoreSession(r)
    \/ ReadLen(r)
    \/ SetGauge(r)
    \/ CloseSessions(r)

Next ==
    \/ \E r \in Reqs : Request(r) \/ Release(r)
    \/ \E r \in Reqs, k \in Keys :
          handleConnect(r, k) \/ Acquire(r, k) \/ handleSessionDelete(r, k)
    \/ \E k \in Keys : AcquireExpired(k)
    \/ \E f \in FRSs : handleWizardCancel(f)
    \/ \E s \in Sessions : CloseReturns(s)
    \/ ClockTick
    \/ HelperRestart

Spec == Init /\ [][Next]_vars

-----------------------------------------------------------------------------
(***************************************************************************)
(* Properties                                                              *)
(***************************************************************************)

TypeOK ==
    /\ PoolTypeOK
    /\ pc \in [Reqs -> PC]
    /\ key \in [Reqs -> Keys \cup {NoKey}]
    /\ sess \in [Reqs -> Sessions \cup {NoSession}]
    /\ seen \in [Reqs -> Nat]
    /\ gauge \in Nat
    /\ deleted \subseteq FRSs
    /\ ended \subseteq deleted
    /\ owner \in [Sessions -> Keys \cup {NoKey}]
    /\ held \in [Reqs -> 0 .. TTL + 1]

\* A request reads files only over a connection that was dialed for its own
\* cookie and its own FRS, whatever other requests store, expire or delete.
Isolation ==
    \A r \in Reqs : pc[r] = "using" =>
        /\ sess[r] \in Sessions
        /\ owner[sess[r]] = key[r]

\* The connection of a request that got its session at most one TTL ago is not
\* closed under it, unless the FRS itself has been deleted.
InUseSurvives ==
    \A r \in Reqs :
        pc[r] = "using" /\ held[r] <= TTL /\ conn[sess[r]] # "stored"
            => FrsOf(key[r]) \in deleted

\* A connection that is open and no longer in the pool was replaced there by a
\* second connect of the same cookie to the same FRS: Store closes nothing, and
\* no other operation loses track of a connection.
OrphansWereReplaced ==
    \A s \in Sessions :
        conn[s] = "stored" =>
            \/ \E k \in Keys : entries[k] = s
            \/ \E t \in Sessions \ {s} :
                  owner[t] = owner[s] /\ conn[t] \in {"stored", "closing", "closed"}

\* The connects that have found FRS f, and the entries for it.
Connecting(f) == {r \in Reqs : pc[r] \in {"dial", "store"} /\ FrsOf(key[r]) = f}
PooledFor(f) == {k \in InPool : FrsOf(k) = f}

\* What DeleteClosesPooled below leaves room for, and no more: once an FRS is deleted
\* no further connect gets as far as Dial, and an entry for it can appear only by the
\* Store of a connect that had found the FRS before.
LateStoresOnly ==
    [][\A f \in deleted :
          /\ Connecting(f)' \subseteq Connecting(f)
          /\ PooledFor(f)' \subseteq PooledFor(f) \cup {key[r] : r \in Connecting(f)}]_vars

\* Every step of the handlers uses the pool the way SftpPool allows.
UsesPool == PoolSpec

-----------------------------------------------------------------------------
(***************************************************************************)
(* What the documentation says, and the code does not keep.                *)
(***************************************************************************)

\* sessions.go:10: handleSessionDelete "closes any pooled SFTP session for it".
DeleteClosesPooled == \A k \in Keys : FrsOf(k) \in ended => ~Pooled(k)

=============================================================================
