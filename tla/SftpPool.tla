------------------------------ MODULE SftpPool ------------------------------
(***************************************************************************)
(* The SFTP session pool of internal/sftpclient/pool.go and the life of    *)
(* the connections it holds (Client.Dial, Session.Close in client.go).     *)
(*                                                                         *)
(* Every operation of the pool runs under its mutex and is one action.     *)
(* What happens outside the mutex is a separate action: Dial before Store, *)
(* and the Session.Close goroutine after an entry was deleted.             *)
(*                                                                         *)
(* Time is discrete.  The code stores lastUsedAt and only ever compares    *)
(* time.Since(lastUsedAt) with the TTL, so the model keeps that age, idle, *)
(* and lets it saturate one tick past the TTL.                             *)
(***************************************************************************)
EXTENDS Naturals

CONSTANTS
    Users,      \* values of the kfrs_sid cookie (SessionKey.UserSessionID)
    FRSs,       \* FileRecoverySessions (SessionKey.FRS)
    Sessions,   \* identities of *Session objects; bounds the number of dials
    NoSession,  \* the nil *Session
    TTL         \* Pool.ttl, in ticks

ASSUME PoolAssumption ==
    /\ NoSession \notin Sessions
    /\ TTL \in Nat

VARIABLES
    entries,    \* Pool.entries: the session stored under each key
    idle,       \* time since poolEntry.lastUsedAt, saturating; 0 if no entry
    conn        \* what became of each Session's connection

poolVars == <<entries, idle, conn>>

Keys == Users \X FRSs

FrsOf(k) == k[2]

(***************************************************************************)
(* A connection is "dialed" while only the handler that dialed it knows    *)
(* it, "stored" once the pool has been given it, "closing" once a call of  *)
(* Session.Close is under way, "closed" when that call has returned.       *)
(***************************************************************************)
ConnState == {"none", "dialed", "stored", "closing", "closed"}

Saturate(n) == IF n <= TTL THEN n + 1 ELSE n

Pooled(k) == entries[k] # NoSession

Expired(k) == Pooled(k) /\ idle[k] > TTL

-----------------------------------------------------------------------------

PoolInit ==
    /\ entries = [k \in Keys |-> NoSession]
    /\ idle = [k \in Keys |-> 0]
    /\ conn = [s \in Sessions |-> "none"]

\* Client.Dial succeeded; a failed Dial closes what it opened and leaves nothing.
Dial(s) ==
    /\ conn[s] = "none"
    /\ conn' = [conn EXCEPT ![s] = "dialed"]
    /\ UNCHANGED <<entries, idle>>

\* Pool.Store: the entry is replaced; a session it held before is not closed.
Store(k, s) ==
    /\ conn[s] = "dialed"
    /\ entries' = [entries EXCEPT ![k] = s]
    /\ idle' = [idle EXCEPT ![k] = 0]
    /\ conn' = [conn EXCEPT ![s] = "stored"]

\* Mutant of Evict: the sessions of the deleted entries are not closed.
EvictOpen(K) ==
    /\ entries' = [k \in Keys |-> IF k \in K THEN NoSession ELSE entries[k]]
    /\ idle' = [k \in Keys |-> IF k \in K THEN 0 ELSE idle[k]]
    /\ UNCHANGED conn

\* The entries of K leave the map and their sessions are being closed.
Evict(K) ==
    /\ entries' = [k \in Keys |-> IF k \in K THEN NoSession ELSE entries[k]]
    /\ idle' = [k \in Keys |-> IF k \in K THEN 0 ELSE idle[k]]
    /\ conn' = [s \in Sessions |->
                  IF \E k \in K : entries[k] = s THEN "closing" ELSE conn[s]]

\* Mutant of GetHit: the age of the entry is not looked at.
GetHitAnyAge(k) ==
    /\ Pooled(k)
    /\ idle' = [idle EXCEPT ![k] = 0]
    /\ UNCHANGED <<entries, conn>>

\* Mutant of GetHit: lastUsedAt is not bumped.
GetHitNoBump(k) ==
    /\ Pooled(k)
    /\ ~Expired(k)
    /\ UNCHANGED <<entries, idle, conn>>

\* Pool.Get on a live entry returns entries[k] and bumps lastUsedAt.  (Without an
\* entry Get misses and changes nothing.)
GetHit(k) ==
    /\ Pooled(k)
    /\ ~Expired(k)
    /\ idle' = [idle EXCEPT ![k] = 0]
    /\ UNCHANGED <<entries, conn>>

\* Mutant of GetExpired: the session is closed and its entry stays.
GetExpiredKeepsEntry(k) ==
    /\ Expired(k)
    /\ conn' = [conn EXCEPT ![entries[k]] = "closing"]
    /\ UNCHANGED <<entries, idle>>

\* Pool.Get on an entry idle for more than the TTL drops it and misses.
GetExpired(k) ==
    /\ Expired(k)
    /\ Evict({k})

\* Pool.Close.
Close(k) ==
    /\ Pooled(k)
    /\ Evict({k})

\* Pool.Sweep, "intended for a periodic timer"; nothing calls it.
Sweep ==
    /\ \E k \in Keys : Expired(k)
    /\ Evict({k \in Keys : Expired(k)})

\* Pool.CloseAllForFRS.
CloseAllForFRS(f) == Evict({k \in Keys : FrsOf(k) = f})

\* Pool.Len
InPool == {k \in Keys : Pooled(k)}

\* Session.Close returns.
CloseDone(s) ==
    /\ conn[s] = "closing"
    /\ conn' = [conn EXCEPT ![s] = "closed"]
    /\ UNCHANGED <<entries, idle>>

Tick ==
    /\ idle' = [k \in Keys |-> IF Pooled(k) THEN Saturate(idle[k]) ELSE 0]
    /\ UNCHANGED <<entries, conn>>

\* The process ends, the kernel closes its sockets, and NewPool starts empty.
Restart ==
    /\ entries' = [k \in Keys |-> NoSession]
    /\ idle' = [k \in Keys |-> 0]
    /\ conn' = [s \in Sessions |-> IF conn[s] = "none" THEN "none" ELSE "closed"]

PoolNext ==
    \/ \E s \in Sessions : Dial(s) \/ CloseDone(s)
    \/ \E k \in Keys, s \in Sessions : Store(k, s)
    \/ \E k \in Keys : GetHit(k) \/ GetExpired(k) \/ Close(k)
    \/ \E f \in FRSs : CloseAllForFRS(f)
    \/ Sweep
    \/ Tick
    \/ Restart

PoolSpec == PoolInit /\ [][PoolNext]_poolVars

-----------------------------------------------------------------------------
(***************************************************************************)
(* Properties                                                              *)
(***************************************************************************)

PoolTypeOK ==
    /\ entries \in [Keys -> Sessions \cup {NoSession}]
    /\ idle \in [Keys -> 0 .. TTL + 1]
    /\ conn \in [Sessions -> ConnState]

\* Get never hands out a session that is closed or being closed: every pooled
\* session is open (Get, Sweep, Close and CloseAllForFRS delete before they close).
PooledIsOpen == \A k \in Keys : Pooled(k) => conn[entries[k]] = "stored"

\* No session is pooled under two keys, so closing one user's entry cannot
\* close the connection another user or another FRS is served from.
OneKeyPerSession ==
    \A j, k \in Keys : Pooled(j) /\ entries[j] = entries[k] => j = k

\* An entry that has been idle for longer than the TTL is never revived: the
\* only way out for it is to leave the pool or to be replaced by a new session.
ExpiredNeverRevived ==
    [][\A k \in Keys : Expired(k) =>
          Expired(k)' \/ entries'[k] # entries[k]]_poolVars

=============================================================================
