------------------------- MODULE SftpSessionsProofs -------------------------
(***************************************************************************)
(* What the pool guarantees for every number of users, FRSs and sessions   *)
(* and every TTL; and that the handlers keep users and FRSs apart, do not  *)
(* pull a connection from under a request and lose track of one only by    *)
(* replacing it, for any number of requests in flight.                     *)
(***************************************************************************)
EXTENDS SftpSessions, FiniteSetTheorems, TLAPS

-----------------------------------------------------------------------------
(***************************************************************************)
(* The pool                                                                *)
(***************************************************************************)

(***************************************************************************)
(* The three state invariants support each other: an eviction leaves the   *)
(* other entries open because no two entries share a session, and Store    *)
(* keeps sessions apart because a session not yet stored is not pooled.    *)
(***************************************************************************)
PoolInv == PoolTypeOK /\ PooledIsOpen /\ OneKeyPerSession

\* The empty pool satisfies the invariant.
LEMMA PoolInitInv == PoolInit => PoolInv
  BY PoolAssumption
  DEF PoolInit, PoolInv, PoolTypeOK, PooledIsOpen, OneKeyPerSession, Pooled, ConnState

\* Saturating a bounded age keeps it within its bound and never lowers it.
LEMMA SaturateBound ==
  ASSUME NEW n \in 0 .. TTL + 1
  PROVE  /\ Saturate(n) \in 0 .. TTL + 1
         /\ Saturate(n) >= n
         /\ Saturate(n) > TTL \/ Saturate(n) = n + 1
  BY PoolAssumption DEF Saturate

\* Get on an expired entry, Close, Sweep and CloseAllForFRS evict a set of keys.
LEMMA EvictInv ==
  ASSUME PoolInv, NEW K \in SUBSET Keys, Evict(K)
  PROVE  PoolInv'
<1> USE PoolAssumption
<1>1. PoolTypeOK'
  BY DEF PoolInv, PoolTypeOK, Evict, ConnState
<1>2. PooledIsOpen'
  <2> SUFFICES ASSUME NEW k \in Keys, Pooled(k)'
               PROVE  (conn[entries[k]] = "stored")'
    BY DEF PooledIsOpen
  <2>1. k \notin K /\ entries'[k] = entries[k] /\ Pooled(k)
    BY DEF Evict, Pooled, PoolInv, PoolTypeOK
  <2>2. entries[k] \in Sessions /\ conn[entries[k]] = "stored"
    BY <2>1 DEF PoolInv, PoolTypeOK, PooledIsOpen, Pooled
  <2>3. ~ \E j \in K : entries[j] = entries[k]
    BY <2>1 DEF PoolInv, OneKeyPerSession, Pooled
  <2> QED
    BY <2>1, <2>2, <2>3 DEF Evict
<1>3. OneKeyPerSession'
  BY DEF PoolInv, PoolTypeOK, OneKeyPerSession, Evict, Pooled
<1> QED
  BY <1>1, <1>2, <1>3 DEF PoolInv

\* Every operation of the pool preserves the invariant.
LEMMA PoolNextInv == PoolInv /\ [PoolNext]_poolVars => PoolInv'
<1> USE PoolAssumption
<1> SUFFICES ASSUME PoolInv, [PoolNext]_poolVars
             PROVE  PoolInv'
  OBVIOUS
<1> USE DEF PoolInv, PoolTypeOK, PooledIsOpen, OneKeyPerSession, Pooled, ConnState
<1>1. ASSUME NEW s \in Sessions, Dial(s)
      PROVE  PoolInv'
  BY <1>1 DEF Dial
<1>2. ASSUME NEW s \in Sessions, CloseDone(s)
      PROVE  PoolInv'
  BY <1>2 DEF CloseDone
<1>3. ASSUME NEW k \in Keys, NEW s \in Sessions, Store(k, s)
      PROVE  PoolInv'
  <2>1. \A j \in Keys : entries[j] # s
    BY <1>3 DEF Store
  <2> QED
    BY <1>3, <2>1 DEF Store
<1>4. ASSUME NEW k \in Keys, GetHit(k)
      PROVE  PoolInv'
  BY <1>4 DEF GetHit
<1>5. ASSUME NEW k \in Keys, GetExpired(k) \/ Close(k)
      PROVE  PoolInv'
  BY <1>5, EvictInv DEF GetExpired, Close
<1>6. ASSUME NEW f \in FRSs, CloseAllForFRS(f)
      PROVE  PoolInv'
  BY <1>6, EvictInv DEF CloseAllForFRS
<1>7. CASE Sweep
  BY <1>7, EvictInv DEF Sweep
<1>8. CASE Tick
  BY <1>8, SaturateBound DEF Tick
<1>9. CASE Restart
  BY <1>9 DEF Restart
<1>10. CASE UNCHANGED poolVars
  BY <1>10 DEF poolVars
<1> QED
  BY <1>1, <1>2, <1>3, <1>4, <1>5, <1>6, <1>7, <1>8, <1>9, <1>10 DEF PoolNext

\* The pool never holds a session that is closed or being closed, nor one
\* session under two keys, whatever its callers do (pool.go).
THEOREM PoolInvariant == PoolSpec => [](PoolTypeOK /\ PooledIsOpen /\ OneKeyPerSession)
<1>1. PoolSpec => []PoolInv
  BY PoolInitInv, PoolNextInv, PTL DEF PoolSpec
<1> QED
  BY <1>1, PTL DEF PoolInv

\* Get, Sweep and Store never bring an expired entry back to life.
THEOREM PoolNeverRevives == PoolSpec => ExpiredNeverRevived
<1> DEFINE Kept == \A k \in Keys : Expired(k) => Expired(k)' \/ entries'[k] # entries[k]
<1>1. ASSUME PoolInv, [PoolNext]_poolVars
      PROVE  [Kept]_poolVars
  <2> SUFFICES ASSUME PoolNext, NEW k \in Keys, Expired(k)
               PROVE  Expired(k)' \/ entries'[k] # entries[k]
    BY <1>1
  <2> USE PoolAssumption, <1>1
      DEF PoolInv, PoolTypeOK, PooledIsOpen, Expired, Pooled
  <2>1. ASSUME NEW s \in Sessions, Dial(s) \/ CloseDone(s)
        PROVE  Expired(k)'
    BY <2>1 DEF Dial, CloseDone
  <2>2. ASSUME NEW j \in Keys, NEW s \in Sessions, Store(j, s)
        PROVE  Expired(k)' \/ entries'[k] # entries[k]
    <3>1. entries[k] # s
      BY <2>2 DEF Store
    <3> QED
      BY <2>2, <3>1 DEF Store
  <2>3. ASSUME NEW j \in Keys, GetHit(j)
        PROVE  Expired(k)'
    BY <2>3 DEF GetHit
  <2>4. ASSUME NEW K \in SUBSET Keys, Evict(K)
        PROVE  Expired(k)' \/ entries'[k] # entries[k]
    BY <2>4 DEF Evict
  <2>5. CASE Tick
    BY <2>5, SaturateBound DEF Tick
  <2>6. CASE Restart
    BY <2>6 DEF Restart
  <2> QED
    BY <2>1, <2>2, <2>3, <2>4, <2>5, <2>6
    DEF PoolNext, GetExpired, Close, CloseAllForFRS, Sweep
<1>2. PoolSpec => []PoolInv
  BY PoolInitInv, PoolNextInv, PTL DEF PoolSpec
<1> QED
  BY <1>1, <1>2, PTL DEF PoolSpec, ExpiredNeverRevived

-----------------------------------------------------------------------------
(***************************************************************************)
(* The handlers                                                            *)
(***************************************************************************)

\* A session between Dial and Store is known to one request only, which will
\* store it under the key it was dialed for.
Storing ==
    \A r \in Reqs : pc[r] = "store" =>
        /\ sess[r] \in Sessions
        /\ conn[sess[r]] = "dialed"
        /\ owner[sess[r]] = key[r]
        /\ \A q \in Reqs : pc[q] = "store" /\ sess[q] = sess[r] => q = r

\* A session given out by Get has been stored, and was dialed for the request's key.
Using ==
    \A r \in Reqs : pc[r] = "using" =>
        /\ sess[r] \in Sessions
        /\ conn[sess[r]] \in {"stored", "closing", "closed"}
        /\ owner[sess[r]] = key[r]

\* A pooled session is pooled under the key it was dialed for.
Owned == \A k \in Keys : Pooled(k) => owner[entries[k]] = k

\* A request in flight has a key, and one that closes the sessions of an FRS has
\* deleted that FRS.
HasKey ==
    \A r \in Reqs :
        /\ pc[r] # "idle" => key[r] \in Keys
        /\ pc[r] = "closeAll" => FrsOf(key[r]) \in deleted

\* Using a session counts as use of its entry: the entry has been idle for no
\* longer than any request has held its session.
Fresh ==
    \A r \in Reqs, k \in Keys :
        pc[r] = "using" /\ entries[k] = sess[r] => idle[k] <= held[r]

\* The inductive invariant.
Inv ==
    /\ TypeOK
    /\ PoolInv
    /\ HasKey
    /\ Storing
    /\ Using
    /\ Owned
    /\ Fresh
    /\ InUseSurvives

\* A freshly started helper satisfies the invariant.
LEMMA InitInv == Init => Inv
  BY PoolInitInv, PoolAssumption
  DEF Init, PoolInit, Inv, TypeOK, PoolInv, PC, HasKey, Storing, Using, Owned, Fresh,
      InUseSurvives, Pooled

\* Every step of a handler is an operation of the pool or leaves it alone.
LEMMA NextIsPoolNext == ASSUME TypeOK, HasKey, Storing, [Next]_vars
                        PROVE  [PoolNext]_poolVars
<1> USE DEF poolVars
<1>1. ASSUME NEW r \in Reqs, Request(r) \/ Release(r)
      PROVE  [PoolNext]_poolVars
  <2>1. ASSUME NEW s \in Sessions, DialSucceeds(r, s)
        PROVE  PoolNext
    BY <2>1 DEF DialSucceeds, PoolNext
  <2>2. CASE StoreSession(r)
    <3>1. key[r] \in Keys /\ sess[r] \in Sessions
      BY <2>2 DEF StoreSession, HasKey, Storing
    <3> QED
      BY <2>2, <3>1 DEF StoreSession, PoolNext
  <2>3. CASE CloseSessions(r)
    <3>1. FrsOf(key[r]) \in FRSs
      BY <2>3 DEF CloseSessions, HasKey, Keys, FrsOf
    <3> QED
      BY <2>3, <3>1 DEF CloseSessions, PoolNext
  <2>4. CASE DialFails(r) \/ ReadLen(r) \/ SetGauge(r) \/ Release(r)
    BY <2>4 DEF DialFails, ReadLen, SetGauge, Release
  <2> QED
    BY <1>1, <2>1, <2>2, <2>3, <2>4 DEF Request
<1>2. ASSUME NEW r \in Reqs, NEW k \in Keys, handleConnect(r, k) \/ handleSessionDelete(r, k)
      PROVE  UNCHANGED poolVars
  BY <1>2 DEF handleConnect, handleSessionDelete
<1>3. ASSUME NEW r \in Reqs, NEW k \in Keys, Acquire(r, k)
      PROVE  PoolNext
  BY <1>3 DEF Acquire, PoolNext
<1>4. ASSUME NEW k \in Keys, AcquireExpired(k)
      PROVE  PoolNext
  BY <1>4 DEF AcquireExpired, PoolNext
<1>5. ASSUME NEW f \in FRSs, handleWizardCancel(f)
      PROVE  UNCHANGED poolVars
  BY <1>5 DEF handleWizardCancel
<1>6. ASSUME NEW s \in Sessions, CloseReturns(s)
      PROVE  PoolNext
  BY <1>6 DEF CloseReturns, PoolNext
<1>7. CASE ClockTick
  BY <1>7 DEF ClockTick, PoolNext
<1>8. CASE HelperRestart
  BY <1>8 DEF HelperRestart, PoolNext
<1>9. CASE UNCHANGED vars
  BY <1>9 DEF vars
<1> QED
  BY <1>1, <1>2, <1>3, <1>4, <1>5, <1>6, <1>7, <1>8, <1>9 DEF Next

\* Len counts a finite set.
LEMMA PoolIsFinite == Cardinality(InPool) \in Nat
<1>1. IsFiniteSet(Keys)
  BY SessionsAssumption, FS_Product DEF Keys
<1> QED
  BY <1>1, FS_Subset, FS_CardinalityType DEF InPool

\* Every step keeps the types: the pool's by PoolNextInv, the rest by inspection.
LEMMA NextType == ASSUME Inv, [Next]_vars
                  PROVE  TypeOK'
<1>1. PoolTypeOK'
  BY NextIsPoolNext, PoolNextInv DEF Inv, PoolInv
<1> USE PoolAssumption, <1>1 DEF Inv, TypeOK, PC, Goto, Return
<1>2. ASSUME NEW r \in Reqs, DialFails(r) \/ SetGauge(r) \/ Release(r)
      PROVE  TypeOK'
  BY <1>2 DEF DialFails, SetGauge, Release
<1>3. ASSUME NEW r \in Reqs, NEW s \in Sessions, DialSucceeds(r, s)
      PROVE  TypeOK'
  BY <1>3 DEF DialSucceeds
<1>4. ASSUME NEW r \in Reqs, StoreSession(r)
      PROVE  TypeOK'
  BY <1>4 DEF StoreSession
<1>5. ASSUME NEW r \in Reqs, ReadLen(r)
      PROVE  TypeOK'
  BY <1>5, PoolIsFinite DEF ReadLen
<1>6. ASSUME NEW r \in Reqs, CloseSessions(r)
      PROVE  TypeOK'
  BY <1>6 DEF CloseSessions, HasKey
<1>7. ASSUME NEW r \in Reqs, NEW k \in Keys, handleConnect(r, k)
      PROVE  TypeOK'
  BY <1>7 DEF handleConnect
<1>8. ASSUME NEW r \in Reqs, NEW k \in Keys, Acquire(r, k)
      PROVE  TypeOK'
  BY <1>8 DEF Acquire, PoolTypeOK
<1>9. ASSUME NEW r \in Reqs, NEW k \in Keys, handleSessionDelete(r, k)
      PROVE  TypeOK'
  BY <1>9 DEF handleSessionDelete, Keys, FrsOf
<1>10. ASSUME NEW k \in Keys, AcquireExpired(k)
       PROVE  TypeOK'
  BY <1>10 DEF AcquireExpired
<1>11. ASSUME NEW f \in FRSs, handleWizardCancel(f)
       PROVE  TypeOK'
  BY <1>11 DEF handleWizardCancel
<1>12. ASSUME NEW s \in Sessions, CloseReturns(s)
       PROVE  TypeOK'
  BY <1>12 DEF CloseReturns
<1>13. CASE ClockTick
  BY <1>13, SaturateBound DEF ClockTick
<1>14. CASE HelperRestart
  BY <1>14 DEF HelperRestart
<1>15. CASE UNCHANGED vars
  BY <1>15 DEF vars
<1> QED
  BY <1>2, <1>3, <1>4, <1>5, <1>6, <1>7, <1>8, <1>9, <1>10, <1>11, <1>12, <1>13, <1>14, <1>15
  DEF Next, Request

\* An eviction closes a session only if its entry had been idle past the TTL, or
\* if its FRS has been deleted.
LEMMA EvictHandlers ==
  ASSUME Inv, TypeOK', PoolInv', NEW K \in SUBSET Keys, Evict(K),
         UNCHANGED <<pc, key, sess, held, owner, deleted>>
         \/ \E r \in Reqs : pc[r] = "closeAll" /\ Goto(r, "len")
                           /\ UNCHANGED <<key, sess, held, owner, deleted>>,
         \A k \in K : Expired(k) \/ FrsOf(k) \in deleted
  PROVE  Inv'
<1> USE DEF Inv, TypeOK, PoolInv, PoolTypeOK, Pooled
<1>0. /\ key' = key /\ sess' = sess /\ held' = held /\ owner' = owner /\ deleted' = deleted
      /\ \A r \in Reqs : pc[r] # "closeAll" => pc'[r] = pc[r]
      /\ \A r \in Reqs : pc[r] = "closeAll" => pc'[r] \in {"closeAll", "len"}
  <2>1. CASE UNCHANGED <<pc, key, sess, held, owner, deleted>>
    BY <2>1
  <2>2. ASSUME NEW q \in Reqs, pc[q] = "closeAll", Goto(q, "len"),
               UNCHANGED <<key, sess, held, owner, deleted>>
        PROVE  /\ \A r \in Reqs : pc[r] # "closeAll" => pc'[r] = pc[r]
               /\ \A r \in Reqs : pc[r] = "closeAll" => pc'[r] \in {"closeAll", "len"}
    <3>1. pc' = [pc EXCEPT ![q] = "len"]
      BY <2>2 DEF Goto
    <3>2. \A r \in Reqs : pc'[r] = IF r = q THEN "len" ELSE pc[r]
      BY <3>1
    <3> QED
      BY <2>2, <3>2
  <2> QED
    BY <2>1, <2>2
<1>1. HasKey'
  BY <1>0 DEF HasKey
<1>2. \A s \in Sessions : conn'[s] # conn[s] => conn[s] = "stored" /\ conn'[s] = "closing"
  BY PoolAssumption DEF Evict, PooledIsOpen
<1>3. Storing'
  BY <1>0, <1>2 DEF Storing
<1>4. Using'
  BY <1>0, <1>2 DEF Using
<1>5. Owned'
  BY <1>0 DEF Owned, Evict
<1>6. Fresh'
  BY <1>0, PoolAssumption DEF Fresh, Evict, Using
<1>7. InUseSurvives'
  <2> SUFFICES ASSUME NEW r \in Reqs, pc'[r] = "using", held'[r] <= TTL,
                      conn'[sess'[r]] # "stored"
               PROVE  FrsOf(key'[r]) \in deleted'
    BY DEF InUseSurvives
  <2>1. pc[r] = "using" /\ sess[r] \in Sessions /\ key[r] = owner[sess[r]]
    BY <1>0 DEF Using
  <2>2. CASE conn[sess[r]] # "stored"
    BY <1>0, <2>1, <2>2 DEF InUseSurvives
  <2>3. CASE conn[sess[r]] = "stored"
    <3>1. PICK k \in K : entries[k] = sess[r]
      BY <1>0, <2>1, <2>3 DEF Evict
    <3>2. key[r] = k /\ idle[k] <= held[r]
      BY <2>1, <3>1, PoolAssumption DEF Owned, Fresh
    <3>3. ~Expired(k)
      BY <1>0, <3>2, PoolAssumption DEF Expired
    <3> QED
      BY <1>0, <3>2, <3>3
  <2> QED
    BY <2>2, <2>3
<1> QED
  BY <1>1, <1>3, <1>4, <1>5, <1>6, <1>7

\* CloseAllForFRS evicts the entries of an FRS that has been deleted.
LEMMA CloseSessionsInv ==
  ASSUME Inv, TypeOK', PoolInv', NEW r \in Reqs, CloseSessions(r)
  PROVE  Inv'
<1> DEFINE K == {k \in Keys : FrsOf(k) = FrsOf(key[r])}
<1>1. Evict(K) /\ K \in SUBSET Keys
  BY DEF CloseSessions, CloseAllForFRS
<1>2. \A k \in K : FrsOf(k) \in deleted
  BY DEF CloseSessions, Inv, HasKey
<1>3. pc[r] = "closeAll" /\ Goto(r, "len") /\ UNCHANGED <<key, sess, held, owner, deleted>>
  BY DEF CloseSessions
<1> HIDE DEF K
<1> QED
  BY <1>1, <1>2, <1>3, EvictHandlers

\* Every step preserves the invariant.
LEMMA NextInv == Inv /\ [Next]_vars => Inv'
<1> SUFFICES ASSUME Inv, [Next]_vars
             PROVE  Inv'
  OBVIOUS
<1>0. TypeOK' /\ PoolInv'
  BY NextType, NextIsPoolNext, PoolNextInv DEF Inv
<1> USE <1>0, PoolAssumption
    DEF Inv, TypeOK, PoolInv, PoolTypeOK, Pooled, Goto, Return,
        HasKey, Storing, Using, Owned, Fresh, InUseSurvives
<1>1. ASSUME NEW r \in Reqs, DialFails(r) \/ SetGauge(r) \/ Release(r) \/ ReadLen(r)
      PROVE  Inv'
  BY <1>1 DEF DialFails, SetGauge, Release, ReadLen
<1>2. ASSUME NEW r \in Reqs, NEW s \in Sessions, DialSucceeds(r, s)
      PROVE  Inv'
  BY <1>2 DEF DialSucceeds, Dial, PooledIsOpen
<1>3. ASSUME NEW r \in Reqs, StoreSession(r)
      PROVE  Inv'
  BY <1>3 DEF StoreSession, Store, PooledIsOpen
<1>4. ASSUME NEW r \in Reqs, CloseSessions(r)
      PROVE  Inv'
  BY ONLY <1>0, <1>4, Inv, CloseSessionsInv
<1>5. ASSUME NEW r \in Reqs, NEW k \in Keys, handleConnect(r, k)
      PROVE  Inv'
  BY <1>5 DEF handleConnect
<1>6. ASSUME NEW r \in Reqs, NEW k \in Keys, Acquire(r, k)
      PROVE  Inv'
  BY <1>6 DEF Acquire, GetHit, PooledIsOpen, OneKeyPerSession
<1>7. ASSUME NEW r \in Reqs, NEW k \in Keys, handleSessionDelete(r, k)
      PROVE  Inv'
  BY <1>7 DEF handleSessionDelete
<1>8. ASSUME NEW k \in Keys, AcquireExpired(k)
      PROVE  Inv'
  BY <1>8, EvictHandlers DEF AcquireExpired, GetExpired
<1>9. ASSUME NEW f \in FRSs, handleWizardCancel(f)
      PROVE  Inv'
  BY <1>9 DEF handleWizardCancel
<1>10. ASSUME NEW s \in Sessions, CloseReturns(s)
       PROVE  Inv'
  BY <1>10 DEF CloseReturns, CloseDone
<1>11. CASE ClockTick
  BY <1>11 DEF ClockTick, Tick, Saturate
<1>12. CASE HelperRestart
  BY <1>12 DEF HelperRestart, Restart
<1>13. CASE UNCHANGED vars
  BY <1>13 DEF vars
<1> QED
  BY <1>1, <1>2, <1>3, <1>4, <1>5, <1>6, <1>7, <1>8, <1>9, <1>10, <1>11, <1>12, <1>13
  DEF Next, Request

\* The invariant holds in every reachable state.
LEMMA SpecInv == Spec => []Inv
  BY InitInv, NextInv, PTL DEF Spec

\* The state of the handlers stays within its types.
THEOREM TypeCorrect == Spec => []TypeOK
  BY SpecInv, PTL DEF Inv

\* No request ever reads over a connection dialed for another cookie or another
\* FRS (handleConnect, handleBrowse, handleDownload, handleDownloadZip).
THEOREM RequestsAreIsolated == Spec => []Isolation
<1>1. Inv => Isolation
  BY DEF Inv, Using, Isolation
<1> QED
  BY SpecInv, <1>1, PTL

\* A request keeps its connection for at least one TTL from its Get, unless its
\* FRS is deleted.
THEOREM InUseIsKept == Spec => []InUseSurvives
  BY SpecInv, PTL DEF Inv

\* An eviction takes a session out of the pool and starts closing it in one step.
LEMMA EvictOrphans ==
  ASSUME Inv, OrphansWereReplaced, NEW K \in SUBSET Keys, Evict(K), owner' = owner
  PROVE  OrphansWereReplaced'
<1> USE DEF Inv, TypeOK, PoolTypeOK
<1> SUFFICES ASSUME NEW s \in Sessions, conn'[s] = "stored"
             PROVE  \/ \E k \in Keys : entries'[k] = s
                    \/ \E t \in Sessions \ {s} :
                          owner'[t] = owner'[s] /\ conn'[t] \in {"stored", "closing", "closed"}
  BY DEF OrphansWereReplaced
<1>1. /\ conn[s] = "stored"
      /\ \A k \in K : entries[k] # s
      /\ \A t \in Sessions : conn'[t] \in {conn[t], "closing"}
  BY DEF Evict
<1>2. CASE \E k \in Keys : entries[k] = s
  BY <1>1, <1>2 DEF Evict
<1>3. ASSUME NEW t \in Sessions \ {s}, owner[t] = owner[s],
             conn[t] \in {"stored", "closing", "closed"}
      PROVE  owner'[t] = owner'[s] /\ conn'[t] \in {"stored", "closing", "closed"}
  BY <1>1, <1>3
<1> QED
  BY <1>1, <1>2, <1>3 DEF OrphansWereReplaced

\* No step but a second Store under the same key loses track of a connection.
LEMMA NextOrphans == Inv /\ OrphansWereReplaced /\ [Next]_vars => OrphansWereReplaced'
<1> SUFFICES ASSUME Inv, OrphansWereReplaced, [Next]_vars
             PROVE  OrphansWereReplaced'
  OBVIOUS
<1> USE PoolAssumption DEF Inv, TypeOK, PoolTypeOK
<1>1. CASE UNCHANGED <<entries, conn, owner>>
  BY <1>1 DEF OrphansWereReplaced
<1>2. ASSUME NEW r \in Reqs, NEW s \in Sessions, DialSucceeds(r, s)
      PROVE  OrphansWereReplaced'
  BY <1>2 DEF DialSucceeds, Dial, OrphansWereReplaced
<1>3. ASSUME NEW r \in Reqs, StoreSession(r)
      PROVE  OrphansWereReplaced'
  <2> DEFINE new == sess[r]
  <2>1. /\ key[r] \in Keys /\ new \in Sessions
        /\ conn[new] = "dialed" /\ owner[new] = key[r]
    BY <1>3 DEF StoreSession, HasKey, Storing
  <2>2. /\ entries' = [entries EXCEPT ![key[r]] = new]
        /\ conn' = [conn EXCEPT ![new] = "stored"]
        /\ owner' = owner
    BY <1>3 DEF StoreSession, Store
  <2> SUFFICES ASSUME NEW s \in Sessions, conn'[s] = "stored"
               PROVE  \/ \E k \in Keys : entries'[k] = s
                      \/ \E t \in Sessions \ {s} :
                            owner'[t] = owner'[s] /\ conn'[t] \in {"stored", "closing", "closed"}
    BY DEF OrphansWereReplaced
  <2>3. CASE s = new
    BY <2>1, <2>2, <2>3
  <2>4. CASE s # new /\ entries[key[r]] = s
    <3>1. owner[s] = key[r]
      BY <2>1, <2>4 DEF Owned, Pooled
    <3> QED
      BY <2>1, <2>2, <2>4, <3>1
  <2>5. CASE s # new /\ entries[key[r]] # s
    BY <2>1, <2>2, <2>5 DEF OrphansWereReplaced
  <2> QED
    BY <2>3, <2>4, <2>5
<1>4. ASSUME NEW r \in Reqs, CloseSessions(r)
      PROVE  OrphansWereReplaced'
  BY <1>4, EvictOrphans DEF CloseSessions, CloseAllForFRS
<1>5. ASSUME NEW k \in Keys, AcquireExpired(k)
      PROVE  OrphansWereReplaced'
  BY <1>5, EvictOrphans DEF AcquireExpired, GetExpired
<1>6. ASSUME NEW s \in Sessions, CloseReturns(s)
      PROVE  OrphansWereReplaced'
  BY <1>6 DEF CloseReturns, CloseDone, OrphansWereReplaced
<1>7. CASE HelperRestart
  BY <1>7 DEF HelperRestart, Restart, OrphansWereReplaced
<1>8. ASSUME NEW r \in Reqs,
             DialFails(r) \/ ReadLen(r) \/ SetGauge(r) \/ Release(r)
      PROVE  UNCHANGED <<entries, conn, owner>>
  BY <1>8 DEF DialFails, ReadLen, SetGauge, Release
<1>9. ASSUME NEW r \in Reqs, NEW k \in Keys,
             handleConnect(r, k) \/ Acquire(r, k) \/ handleSessionDelete(r, k)
      PROVE  UNCHANGED <<entries, conn, owner>>
  BY <1>9 DEF handleConnect, Acquire, GetHit, handleSessionDelete
<1>10. ASSUME NEW f \in FRSs, handleWizardCancel(f)
       PROVE  UNCHANGED <<entries, conn, owner>>
  BY <1>10 DEF handleWizardCancel
<1>11. CASE ClockTick
  BY <1>1, <1>11 DEF ClockTick, Tick
<1>12. CASE UNCHANGED vars
  BY <1>1, <1>12 DEF vars
<1> QED
  BY <1>1, <1>2, <1>3, <1>4, <1>5, <1>6, <1>7, <1>8, <1>9, <1>10, <1>11, <1>12
  DEF Next, Request

\* A connection that is open outside the pool was replaced there by a second connect
\* of the same cookie to the same FRS (Pool.Store closes nothing).
THEOREM NothingElseIsLost == Spec => []OrphansWereReplaced
<1>1. Init => OrphansWereReplaced
  BY DEF Init, PoolInit, OrphansWereReplaced
<1> QED
  BY <1>1, NextOrphans, SpecInv, PTL DEF Spec

-----------------------------------------------------------------------------

LateOnly(f) ==
    /\ Connecting(f)' \subseteq Connecting(f)
    /\ PooledFor(f)' \subseteq PooledFor(f) \cup {key[r] : r \in Connecting(f)}

\* A request that keeps its place and its key, or is not connecting afterwards, adds
\* nobody to those that connect.
LEMMA NobodyConnects ==
  ASSUME NEW f \in deleted,
         \A r \in Reqs : pc'[r] \in {"dial", "store"} =>
             pc[r] \in {"dial", "store"} /\ key'[r] = key[r]
  PROVE  Connecting(f)' \subseteq Connecting(f)
  BY DEF Connecting

\* Keys without a session stay without one.
LEMMA NothingIsPooled ==
  ASSUME NEW f \in deleted, \A k \in Keys : Pooled(k)' => Pooled(k)
  PROVE  PooledFor(f)' \subseteq PooledFor(f)
  BY DEF PooledFor, InPool

\* One step, for one FRS that is deleted already.
LEMMA NextLateOnly == ASSUME Inv, [Next]_vars, NEW f \in deleted
                      PROVE  LateOnly(f)
<1> USE DEF LateOnly
<1>a. TypeOK /\ HasKey
  BY DEF Inv
<1>1. ASSUME NEW r \in Reqs, NEW k \in Keys, handleConnect(r, k)
      PROVE  LateOnly(f)
  <2>1. FrsOf(k) # f
    BY <1>1 DEF handleConnect
  <2>2. Connecting(f)' \subseteq Connecting(f)
    BY <1>1, <1>a, <2>1 DEF handleConnect, Goto, Connecting, TypeOK
  <2>3. \A j \in Keys : Pooled(j)' => Pooled(j)
    BY <1>1 DEF handleConnect, Pooled
  <2> QED
    BY <2>2, <2>3, NothingIsPooled
<1>2. ASSUME NEW r \in Reqs, NEW s \in Sessions, DialSucceeds(r, s)
      PROVE  LateOnly(f)
  <2>1. Connecting(f)' \subseteq Connecting(f)
    BY <1>2, <1>a, NobodyConnects DEF DialSucceeds, Goto, TypeOK
  <2>2. \A j \in Keys : Pooled(j)' => Pooled(j)
    BY <1>2 DEF DialSucceeds, Dial, Pooled
  <2> QED
    BY <2>1, <2>2, NothingIsPooled
<1>3. ASSUME NEW r \in Reqs, StoreSession(r)
      PROVE  LateOnly(f)
  <2>1. Connecting(f)' \subseteq Connecting(f)
    BY <1>3, <1>a, NobodyConnects DEF StoreSession, Goto, TypeOK
  <2>2. \A j \in Keys \ {key[r]} : Pooled(j)' => Pooled(j)
    BY <1>3, <1>a DEF StoreSession, Store, Pooled, TypeOK, PoolTypeOK
  <2>3. FrsOf(key[r]) = f => r \in Connecting(f)
    BY <1>3 DEF StoreSession, Connecting
  <2> QED
    BY <2>1, <2>2, <2>3 DEF PooledFor, InPool
<1>4. ASSUME NEW r \in Reqs, DialFails(r) \/ SetGauge(r) \/ Release(r)
      PROVE  LateOnly(f)
  <2>1. Return(r) /\ UNCHANGED entries
    BY <1>4 DEF DialFails, SetGauge, Release
  <2>2. Connecting(f)' \subseteq Connecting(f)
    BY <2>1, <1>a, NobodyConnects DEF Return, TypeOK
  <2> QED
    BY <2>1, <2>2, NothingIsPooled DEF Pooled
<1>5. ASSUME NEW r \in Reqs, ReadLen(r)
      PROVE  LateOnly(f)
  <2>1. Connecting(f)' \subseteq Connecting(f)
    BY <1>5, <1>a, NobodyConnects DEF ReadLen, Goto, TypeOK
  <2> QED
    BY <1>5, <2>1, NothingIsPooled DEF ReadLen, Pooled
<1>6. ASSUME NEW r \in Reqs, CloseSessions(r)
      PROVE  LateOnly(f)
  <2>1. Connecting(f)' \subseteq Connecting(f)
    BY <1>6, <1>a, NobodyConnects DEF CloseSessions, Goto, TypeOK
  <2> QED
    BY <1>6, <2>1, NothingIsPooled DEF CloseSessions, CloseAllForFRS, Evict, Pooled
<1>7. ASSUME NEW r \in Reqs, NEW k \in Keys, Acquire(r, k) \/ handleSessionDelete(r, k)
      PROVE  LateOnly(f)
  <2>1. Connecting(f)' \subseteq Connecting(f)
    BY <1>7, <1>a, NobodyConnects DEF Acquire, handleSessionDelete, Goto, TypeOK
  <2> QED
    BY <1>7, <2>1, NothingIsPooled DEF Acquire, GetHit, handleSessionDelete, Pooled
<1>8. CASE \/ \E k \in Keys : AcquireExpired(k)
           \/ \E g \in FRSs : handleWizardCancel(g)
           \/ \E s \in Sessions : CloseReturns(s)
           \/ ClockTick
           \/ UNCHANGED vars
  <2>1. UNCHANGED <<pc, key>>
    BY <1>8 DEF AcquireExpired, handleWizardCancel, CloseReturns, ClockTick, vars
  <2>2. Connecting(f)' \subseteq Connecting(f)
    BY <2>1 DEF Connecting
  <2>3. \A j \in Keys : Pooled(j)' => Pooled(j)
    BY <1>8 DEF AcquireExpired, GetExpired, Evict, handleWizardCancel, CloseReturns,
         CloseDone, ClockTick, Tick, vars, Pooled
  <2> QED
    BY <2>2, <2>3, NothingIsPooled
<1>9. CASE HelperRestart
  <2>1. Connecting(f)' = {}
    BY <1>9 DEF HelperRestart, Connecting
  <2>2. \A j \in Keys : ~Pooled(j)'
    BY <1>9 DEF HelperRestart, Restart, Pooled
  <2> QED
    BY <2>1, <2>2, NothingIsPooled
<1> QED
  BY <1>1, <1>2, <1>3, <1>4, <1>5, <1>6, <1>7, <1>8, <1>9 DEF Next, Request

\* A delete that races connects leaves behind the sessions of those connects and of
\* no other, with any number of users, FRSs and requests.
THEOREM DeletesAreFinal == Spec => LateStoresOnly
<1>1. Inv /\ [Next]_vars => [\A f \in deleted : LateOnly(f)]_vars
  BY NextLateOnly
<1> QED
  BY <1>1, SpecInv, PTL DEF Spec, LateStoresOnly, LateOnly

\* The handlers implement the pool's own specification: they call it only in
\* ways for which its guarantees hold.
THEOREM HandlersUsePool == Spec => UsesPool
<1>1. Init => PoolInit
  BY DEF Init
<1>2. Inv /\ [Next]_vars => [PoolNext]_poolVars
  BY NextIsPoolNext DEF Inv
<1> QED
  BY <1>1, <1>2, SpecInv, PTL DEF Spec, UsesPool, PoolSpec

=============================================================================
