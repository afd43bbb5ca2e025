-------------------------- MODULE KeyManagerProofs --------------------------
(***************************************************************************)
(* KeyManager keeps one key, for any number of pods, keys, operator edits  *)
(* and faults: the invariant OneKey, and the refinement of KeyCustody.     *)
(*                                                                         *)
(* The heart of both is Unchanged: the resourceVersion a process has read  *)
(* is the current one only while the Secret still holds what it read, so   *)
(* the whole-Secret Update of deriveAndPatch writes back the same private  *)
(* key.  Create needs Gone: no Secret means no key that could be lost.     *)
(***************************************************************************)
EXTENDS KeyManager, TLAPS

\* A Secret that is not there holds nothing.
Gone == ~exists => secret = Empty

\* resourceVersion tells: at the version a process has read, the Secret holds what
\* it has read.
Unchanged ==
    \A p \in Pods :
        /\ got[p].version <= version
        /\ pc[p] = "update" =>
              /\ got[p].priv \in Keys
              /\ got[p].version = version => secret.priv = got[p].priv

\* LoadOrGenerate gives a process its signer when it returns without an error.
HasSigner == \A p \in Pods : pc[p] = "running" <=> signer[p] # None

\* since is a time in the past.
Past == \A p \in Pods : since[p] <= edits

\* The inductive invariant.
Inv == TypeOK /\ Gone /\ Unchanged /\ HasSigner /\ OneKey /\ Past

-----------------------------------------------------------------------------

\* Before the first start, without a Secret, the invariant holds.
LEMMA InitInv == Init => Inv
<1> SUFFICES ASSUME Init
             PROVE  Inv
  OBVIOUS
<1> USE KeyAssumption DEF Init
<1>1. Empty \in [priv : Field, pub : Field]
  BY DEF Empty, Field
<1>2. NothingGot \in [priv : Field, pub : Field, version : Nat]
  BY DEF NothingGot, Field
<1>3. exists \in BOOLEAN
  OBVIOUS
<1>4. TypeOK
  BY <1>1, <1>2, <1>3 DEF TypeOK, PC
<1>5. Gone
  BY DEF Gone
<1>6. \A p \in Pods : /\ pc[p] = "start" /\ signer[p] = None
                      /\ got[p].version = 0 /\ since[p] = 0
  <2>1. NothingGot.version = 0
    BY DEF NothingGot
  <2> QED
    BY <2>1
<1>7. Unchanged
  <2>1. version = 0
    OBVIOUS
  <2> HIDE DEF Init
  <2>2. ASSUME NEW p \in Pods
        PROVE  got[p].version <= version
    BY <1>6, <2>1, 0 <= 0
  <2>3. ASSUME NEW p \in Pods
        PROVE  pc[p] # "update"
    BY <1>6
  <2> QED
    BY <2>2, <2>3 DEF Unchanged
<1>8. HasSigner /\ OneKey /\ Past
  BY <1>6 DEF HasSigner, OneKey, Past
<1> QED
  BY <1>4, <1>5, <1>7, <1>8 DEF Inv

\* The effect of a process's own step on its variables.
LEMMA RunType ==
  ASSUME TypeOK, NEW p \in Pods, NEW priv \in Keys, NEW pub \in Keys, Run(p, priv, pub)
  PROVE  /\ pc' \in [Pods -> PC]
         /\ signer' \in [Pods -> Keys \cup {None}]
         /\ pubkey' \in [Pods -> Keys \cup {None}]
         /\ since' \in [Pods -> 0 .. MaxEdits]
  BY DEF TypeOK, PC, Run

\* A process that moves on without a key keeps its types.
LEMMA GotoType ==
  ASSUME TypeOK, NEW p \in Pods, NEW label \in PC, Goto(p, label)
  PROVE  /\ pc' \in [Pods -> PC]
         /\ signer' \in [Pods -> Keys \cup {None}]
         /\ pubkey' \in [Pods -> Keys \cup {None}]
         /\ since' \in [Pods -> 0 .. MaxEdits]
  BY DEF TypeOK, Goto

\* So does one whose write was carried out, answered or not.
LEMMA AnsweredType ==
  ASSUME TypeOK, NEW p \in Pods, NEW priv \in Keys, NEW pub \in Keys, Answered(p, priv, pub)
  PROVE  /\ pc' \in [Pods -> PC]
         /\ signer' \in [Pods -> Keys \cup {None}]
         /\ pubkey' \in [Pods -> Keys \cup {None}]
         /\ since' \in [Pods -> 0 .. MaxEdits]
         /\ faults' \in 0 .. MaxFaults
<1>1. faults' \in 0 .. MaxFaults
  BY KeyAssumption DEF Answered, TypeOK
<1>2. "failed" \in PC
  BY DEF PC
<1> QED
  BY <1>1, <1>2, RunType, GotoType DEF Answered

\* Every step of a process or an operator keeps the types.
LEMMA NextType == Inv /\ [Next]_vars => TypeOK'
<1> SUFFICES ASSUME Inv, [Next]_vars
             PROVE  TypeOK'
  OBVIOUS
<1>0. TypeOK
  BY DEF Inv
<1>a. {"start", "create", "update", "failed"} \subseteq PC
  BY DEF PC
<1> USE KeyAssumption, <1>0
<1>1. ASSUME NEW p \in Pods, LoadOrGenerate(p)
      PROVE  TypeOK'
  <2>1. got' \in [Pods -> [priv : Field, pub : Field, version : Nat]]
    BY <1>1 DEF LoadOrGenerate, TypeOK
  <2>2. UNCHANGED <<exists, secret, version, edits, faults>>
    BY <1>1 DEF LoadOrGenerate, secretVars
  <2>3. \/ \E label \in PC : Goto(p, label)
        \/ \E priv, pub \in Keys : Run(p, priv, pub)
    BY <1>1, <1>a DEF LoadOrGenerate, parseInto
  <2>4. /\ pc' \in [Pods -> PC]
        /\ signer' \in [Pods -> Keys \cup {None}]
        /\ pubkey' \in [Pods -> Keys \cup {None}]
        /\ since' \in [Pods -> 0 .. MaxEdits]
    BY <2>3, RunType, GotoType
  <2> QED
    BY <2>1, <2>2, <2>4 DEF TypeOK
<1>2. ASSUME NEW p \in Pods, NEW k \in Keys, generateAndPersist(p, k)
      PROVE  TypeOK'
  <2>1. exists' \in BOOLEAN
    BY <1>2 DEF generateAndPersist, secretVars, TypeOK
  <2>2. secret' \in [priv : Field, pub : Field] /\ version' \in Nat
    BY <1>2 DEF generateAndPersist, secretVars, TypeOK, Field
  <2>3. Answered(p, k, k) \/ (Goto(p, "failed") /\ UNCHANGED faults)
    BY <1>2 DEF generateAndPersist
  <2>4. got' = got /\ edits' = edits
    BY <1>2 DEF generateAndPersist
  <2> QED
    BY <2>1, <2>2, <2>3, <2>4, <1>a, AnsweredType, GotoType DEF TypeOK
<1>3. ASSUME NEW p \in Pods, deriveAndPatch(p)
      PROVE  TypeOK'
  <2>1. got[p].priv \in Keys
    BY <1>3 DEF deriveAndPatch, Inv, Unchanged
  <2>2. secret' \in [priv : Field, pub : Field] /\ version' \in Nat
    BY <1>3, <2>1 DEF deriveAndPatch, TypeOK, Field
  <2>3. Answered(p, got[p].priv, got[p].priv) \/ (Goto(p, "failed") /\ UNCHANGED faults)
    BY <1>3 DEF deriveAndPatch
  <2>4. UNCHANGED <<exists, got, edits>>
    BY <1>3 DEF deriveAndPatch
  <2> QED
    BY <2>1, <2>2, <2>3, <2>4, <1>a, AnsweredType, GotoType DEF TypeOK
<1>4. ASSUME NEW p \in Pods, RestartFailed(p)
      PROVE  TypeOK'
  <2>1. got' \in [Pods -> [priv : Field, pub : Field, version : Nat]]
    BY <1>4 DEF RestartFailed, NothingGot, TypeOK, Field
  <2> QED
    BY <1>4, <2>1, <1>a, GotoType DEF RestartFailed, TypeOK, secretVars
<1>5. ASSUME NEW p \in Pods, Crash(p)
      PROVE  TypeOK'
  BY <1>5, <1>a DEF Crash, TypeOK, secretVars
<1>6. ASSUME NEW c \in Contents, OperatorApplies(c)
      PROVE  TypeOK'
  BY <1>6 DEF OperatorApplies, TypeOK, podVars
<1>7. CASE OperatorDeletes
  <2>1. Empty \in [priv : Field, pub : Field]
    BY DEF Empty, Field
  <2>2. exists' \in BOOLEAN
    BY <1>7 DEF OperatorDeletes
  <2>3. version' \in Nat /\ edits' \in 0 .. MaxEdits
    BY <1>7 DEF OperatorDeletes, TypeOK
  <2> QED
    BY <1>7, <2>1, <2>2, <2>3 DEF OperatorDeletes, TypeOK, podVars
<1>8. CASE UNCHANGED vars
  BY <1>8 DEF vars, TypeOK
<1> QED
  BY <1>1, <1>2, <1>3, <1>4, <1>5, <1>6, <1>7, <1>8 DEF Next, Startup

\* What a process does with the key of the Secret keeps HasSigner and OneKey.
LEMMA RunKeeps ==
  ASSUME Inv, TypeOK', NEW p \in Pods, NEW priv \in Keys, NEW pub \in Keys,
         Run(p, priv, pub), edits' = edits, secret'.priv = priv,
         \A q \in Pods : pc[q] = "running" /\ since[q] = edits => secret'.priv = secret.priv
  PROVE  HasSigner' /\ OneKey' /\ Past'
  BY KeyAssumption DEF Inv, TypeOK, Run, HasSigner, OneKey, Past

\* A process that goes on without a key leaves those that have one alone.
LEMMA GotoKeeps ==
  ASSUME Inv, TypeOK', NEW p \in Pods, NEW label \in PC \ {"running"}, Goto(p, label),
         pc[p] # "running", edits' = edits,
         \A q \in Pods : pc[q] = "running" /\ since[q] = edits => secret'.priv = secret.priv
  PROVE  HasSigner' /\ OneKey' /\ Past'
  BY KeyAssumption DEF Inv, TypeOK, Goto, HasSigner, OneKey, Past

\* Every step preserves the invariant.
LEMMA NextInv == Inv /\ [Next]_vars => Inv'
<1> SUFFICES ASSUME Inv, [Next]_vars
             PROVE  Inv'
  OBVIOUS
<1>0. TypeOK'
  BY NextType
<1>a. {"start", "create", "update", "failed"} \subseteq PC \ {"running"}
  BY DEF PC
<1> USE KeyAssumption, <1>0
<1>1. ASSUME NEW p \in Pods, LoadOrGenerate(p)
      PROVE  Inv'
  <2>1. UNCHANGED <<exists, secret, version, edits>>
    BY <1>1 DEF LoadOrGenerate, secretVars
  <2>2. Gone'
    BY <2>1 DEF Inv, Gone
  <2>3. \/ \E label \in PC \ {"running"} : Goto(p, label)
        \/ \E pub \in Keys : secret.priv \in Keys /\ Run(p, secret.priv, pub)
    BY <1>1, <1>a DEF LoadOrGenerate, parseInto
  <2>4. HasSigner' /\ OneKey' /\ Past'
    BY <1>1, <2>1, <2>3, RunKeeps, GotoKeeps DEF LoadOrGenerate
  <2>5. /\ got' = [got EXCEPT ![p] = [priv |-> secret.priv, pub |-> secret.pub,
                                     version |-> version]]
        /\ \A q \in Pods : q # p => pc'[q] = pc[q]
        /\ pc'[p] = "update" => secret.priv \in Keys
    BY <1>1 DEF LoadOrGenerate, parseInto, Goto, Run, Inv, TypeOK
  <2>6. Unchanged'
    BY <2>1, <2>5 DEF Inv, TypeOK, Unchanged
  <2> QED
    BY <2>2, <2>4, <2>6 DEF Inv
<1>2. ASSUME NEW p \in Pods, NEW k \in Keys, generateAndPersist(p, k)
      PROVE  Inv'
  <2>1. CASE exists
    <3>1. Goto(p, "failed") /\ UNCHANGED <<exists, secret, version, got, edits>>
      BY <1>2, <2>1 DEF generateAndPersist, secretVars
    <3>2. Gone'
      BY <3>1 DEF Inv, Gone
    <3>3. HasSigner' /\ OneKey' /\ Past'
      BY <1>2, <1>a, <3>1, GotoKeeps DEF generateAndPersist
    <3>4. Unchanged'
      BY <3>1 DEF Goto, Inv, TypeOK, Unchanged
    <3> QED
      BY <3>2, <3>3, <3>4 DEF Inv
  <2>2. CASE ~exists
    <3>1. exists' /\ secret' = [priv |-> k, pub |-> k] /\ version' = version + 1
      BY <1>2, <2>2 DEF generateAndPersist
    <3>2. got' = got /\ edits' = edits /\ Answered(p, k, k) /\ pc[p] = "create"
      BY <1>2, <2>2 DEF generateAndPersist
    <3>3. Gone'
      BY <3>1 DEF Gone
    <3>4. \A q \in Pods : ~(pc[q] = "running" /\ since[q] = edits)
      BY <2>2 DEF Inv, Gone, HasSigner, OneKey, Empty
    <3>5. HasSigner' /\ OneKey' /\ Past'
      BY <3>1, <3>2, <3>4, <1>a, RunKeeps, GotoKeeps DEF Answered
    <3>6. \A q \in Pods : got[q].version <= version /\ version \in Nat /\ got[q].version \in Nat
      BY DEF Inv, TypeOK, Unchanged
    <3>7. \A q \in Pods : pc'[q] = "update" => pc[q] = "update"
      BY <3>2 DEF Answered, Run, Goto, Inv, TypeOK
    <3>8. Unchanged'
      BY <3>1, <3>2, <3>6, <3>7 DEF Inv, Unchanged
    <3> QED
      BY <3>3, <3>5, <3>8 DEF Inv
  <2> QED
    BY <2>1, <2>2
<1>3. ASSUME NEW p \in Pods, deriveAndPatch(p)
      PROVE  Inv'
  <2>0. UNCHANGED <<exists, got, edits>> /\ pc[p] = "update"
    BY <1>3 DEF deriveAndPatch
  <2>1. \/ /\ secret.priv = got[p].priv /\ got[p].priv \in Keys /\ exists
           /\ secret' = [priv |-> got[p].priv, pub |-> got[p].priv]
           /\ version' = version + 1
           /\ Answered(p, got[p].priv, got[p].priv)
        \/ Goto(p, "failed") /\ UNCHANGED <<secret, version>>
    BY <1>3 DEF deriveAndPatch, Inv, Unchanged
  <2>2. Gone'
    BY <2>0, <2>1 DEF Inv, Gone
  <2>3. secret'.priv = secret.priv
    BY <2>1
  <2>4. HasSigner' /\ OneKey' /\ Past'
    BY <2>0, <2>1, <2>3, <1>a, RunKeeps, GotoKeeps DEF Answered
  <2>5. \A q \in Pods : pc'[q] = "update" => pc[q] = "update"
    BY <2>1 DEF Answered, Run, Goto, Inv, TypeOK
  <2>6. version' \in Nat /\ version \in Nat /\ version <= version'
    BY <2>1 DEF Inv, TypeOK
  <2>7. ASSUME NEW q \in Pods
        PROVE  /\ got'[q].version <= version'
               /\ got'[q].version = version' => got[q].version = version
    <3>1. got[q].version \in Nat /\ got[q].version <= version
      BY DEF Inv, TypeOK, Unchanged
    <3> QED
      BY <2>0, <2>6, <3>1
  <2>8. Unchanged'
    BY <2>0, <2>3, <2>5, <2>7 DEF Inv, Unchanged
  <2> QED
    BY <2>2, <2>4, <2>8 DEF Inv
<1>4. ASSUME NEW p \in Pods, RestartFailed(p)
      PROVE  Inv'
  <2>1. /\ UNCHANGED <<exists, secret, version, edits>>
        /\ Goto(p, "start") /\ pc[p] = "failed"
        /\ got' = [got EXCEPT ![p] = NothingGot]
    BY <1>4 DEF RestartFailed, secretVars
  <2>2. Gone'
    BY <2>1 DEF Inv, Gone
  <2>3. HasSigner' /\ OneKey' /\ Past'
    BY <2>1, <1>a, GotoKeeps
  <2>4. Unchanged'
    BY <2>1 DEF Goto, NothingGot, Inv, TypeOK, Unchanged
  <2> QED
    BY <2>2, <2>3, <2>4 DEF Inv
<1>5. ASSUME NEW p \in Pods, Crash(p)
      PROVE  Inv'
  <2>1. UNCHANGED <<exists, secret, version, got, edits, since>>
    BY <1>5 DEF Crash, secretVars
  <2>2. Gone'
    BY <2>1 DEF Inv, Gone
  <2>3. HasSigner' /\ OneKey' /\ Past'
    BY <1>5, <2>1 DEF Crash, Inv, TypeOK, HasSigner, OneKey, Past
  <2>4. Unchanged'
    BY <1>5, <2>1 DEF Crash, Inv, TypeOK, Unchanged
  <2> QED
    BY <2>2, <2>3, <2>4 DEF Inv
<1>6. ASSUME edits' = edits + 1, UNCHANGED podVars, version' = version + 1, Gone'
      PROVE  Inv'
  <2>1. HasSigner' /\ Unchanged'
    BY <1>6 DEF podVars, Inv, TypeOK, HasSigner, Unchanged
  <2>2. Past' /\ \A q \in Pods : since'[q] # edits'
    BY <1>6 DEF podVars, Inv, TypeOK, Past
  <2> QED
    BY <1>6, <2>1, <2>2 DEF Inv, OneKey
<1>7. ASSUME NEW c \in Contents, OperatorApplies(c)
      PROVE  Inv'
  BY <1>6, <1>7 DEF OperatorApplies, Gone
<1>8. CASE OperatorDeletes
  BY <1>6, <1>8 DEF OperatorDeletes, Gone
<1>9. CASE UNCHANGED vars
  BY <1>9 DEF vars, Inv, Gone, Unchanged, HasSigner, OneKey, Past
<1> QED
  BY <1>1, <1>2, <1>3, <1>4, <1>5, <1>7, <1>8, <1>9 DEF Next, Startup

\* The invariant holds in every reachable state.
LEMMA SpecInv == Spec => []Inv
  BY InitInv, NextInv, PTL DEF Spec

-----------------------------------------------------------------------------

\* The Secret and the processes keep their types; in particular a running
\* process has a parsed key, whatever operators put into the Secret.
THEOREM TypeCorrect == Spec => []TypeOK
  BY SpecInv, PTL DEF Inv

\* Processes that came up since the last intervention of an operator all sign
\* with the key in the Secret, for any number of them starting at once.
THEOREM OneKeyHolds == Spec => []OneKey
  BY SpecInv, PTL DEF Inv

-----------------------------------------------------------------------------

\* Without a Secret no key is installed, and nobody uses one.
LEMMA CustodyInit == Init => Custody!Init
  BY KeyAssumption DEF Init, Custody!Init, Installed, Empty

\* Every step installs a first key, adopts or drops the installed one, is an
\* operator's, or changes nothing KeyCustody can see.
LEMMA CustodyNext == Inv /\ [Next]_vars => [Custody!Next]_(Custody!vars)
<1> SUFFICES ASSUME Inv, [Next]_vars
             PROVE  Custody!Next \/ UNCHANGED Custody!vars
  OBVIOUS
<1> USE KeyAssumption DEF Custody!vars, Installed
<1>1. ASSUME NEW p \in Pods, LoadOrGenerate(p)
      PROVE  Custody!Next \/ UNCHANGED Custody!vars
  <2>1. UNCHANGED <<secret, edits>>
    BY <1>1 DEF LoadOrGenerate, secretVars
  <2>2. \/ UNCHANGED signer
        \/ secret.priv \in Keys /\ signer' = [signer EXCEPT ![p] = secret.priv]
    BY <1>1 DEF LoadOrGenerate, parseInto, Goto, Run
  <2>3. CASE UNCHANGED signer
    BY <2>1, <2>3
  <2>4. CASE secret.priv \in Keys /\ signer' = [signer EXCEPT ![p] = secret.priv]
    <3>1. Custody!Adopt(p)
      BY <2>1, <2>4 DEF Custody!Adopt
    <3> QED
      BY <3>1 DEF Custody!Next
  <2> QED
    BY <2>2, <2>3, <2>4
<1>2. ASSUME NEW p \in Pods, NEW k \in Keys, generateAndPersist(p, k)
      PROVE  Custody!Next \/ UNCHANGED Custody!vars
  <2>1. CASE exists
    BY <1>2, <2>1 DEF generateAndPersist, Goto, secretVars
  <2>2. CASE ~exists
    <3>1. secret.priv = None
      BY <2>2 DEF Inv, Gone, Empty
    <3>2. secret'.priv = k /\ edits' = edits
      BY <1>2, <2>2 DEF generateAndPersist
    <3>3. signer' \in {signer, [signer EXCEPT ![p] = k]}
      BY <1>2, <2>2 DEF generateAndPersist, Answered, Run, Goto
    <3>4. Custody!Install(p, k)
      BY <3>1, <3>2, <3>3 DEF Custody!Install
    <3> QED
      BY <3>4 DEF Custody!Next
  <2> QED
    BY <2>1, <2>2
<1>3. ASSUME NEW p \in Pods, deriveAndPatch(p)
      PROVE  Custody!Next \/ UNCHANGED Custody!vars
  <2>1. /\ secret'.priv = secret.priv /\ edits' = edits
        /\ \/ UNCHANGED signer
           \/ secret.priv \in Keys /\ signer' = [signer EXCEPT ![p] = secret.priv]
    BY <1>3 DEF deriveAndPatch, Answered, Run, Goto, Inv, Unchanged
  <2>2. CASE UNCHANGED signer
    BY <2>1, <2>2
  <2>3. CASE secret.priv \in Keys /\ signer' = [signer EXCEPT ![p] = secret.priv]
    <3>1. Custody!Adopt(p)
      BY <2>1, <2>3 DEF Custody!Adopt
    <3> QED
      BY <3>1 DEF Custody!Next
  <2> QED
    BY <2>1, <2>2, <2>3
<1>4. ASSUME NEW p \in Pods, RestartFailed(p)
      PROVE  Custody!Next \/ UNCHANGED Custody!vars
  BY <1>4 DEF RestartFailed, Goto, secretVars
<1>5. ASSUME NEW p \in Pods, Crash(p)
      PROVE  Custody!Next \/ UNCHANGED Custody!vars
  <2>1. Custody!Drop(p)
    BY <1>5 DEF Crash, secretVars, Custody!Drop
  <2> QED
    BY <2>1 DEF Custody!Next
<1>6. ASSUME edits' = edits + 1, UNCHANGED signer
      PROVE  Custody!Next
  <2>1. PICK k \in Keys \cup {None} : k = Installed'
    OBVIOUS
  <2>2. Custody!Edit(k)
    BY <1>6, <2>1 DEF Custody!Edit
  <2> QED
    BY <2>2 DEF Custody!Next
<1>7. ASSUME NEW c \in Contents, OperatorApplies(c)
      PROVE  Custody!Next \/ UNCHANGED Custody!vars
  BY <1>6, <1>7 DEF OperatorApplies, podVars
<1>8. CASE OperatorDeletes
  BY <1>6, <1>8 DEF OperatorDeletes, podVars
<1>9. CASE UNCHANGED vars
  BY <1>9 DEF vars
<1> QED
  BY <1>1, <1>2, <1>3, <1>4, <1>5, <1>7, <1>8, <1>9 DEF Next, Startup

\* The start-up protocol implements KeyCustody: no helper ever replaces a key,
\* and none signs with a key that was not installed when it started.
THEOREM CustodyRefined == Spec => KeyIsKept
  BY CustodyInit, CustodyNext, SpecInv, PTL DEF Spec, KeyIsKept, Custody!Spec

-----------------------------------------------------------------------------

\* Operators never provide two halves of different key pairs.
MatchingContents == \A c \in Contents : c.priv \in Keys /\ c.pub \in Keys => c.priv = c.pub

PairInv ==
    /\ PairMatches
    /\ secret.priv \in Keys /\ secret.pub \in Keys => secret.priv = secret.pub

\* With matching contents every step keeps both halves of a pair together.
LEMMA NextPair == MatchingContents /\ Inv /\ PairInv /\ [Next]_vars => PairInv'
<1> SUFFICES ASSUME MatchingContents, Inv, PairInv, [Next]_vars
             PROVE  PairInv'
  OBVIOUS
<1> USE KeyAssumption DEF PairInv, PairMatches, Inv, TypeOK, Goto, Run, Answered, HasSigner
<1>1. ASSUME NEW p \in Pods, LoadOrGenerate(p)
      PROVE  PairInv'
  BY <1>1 DEF LoadOrGenerate, parseInto, secretVars
<1>2. ASSUME NEW p \in Pods, NEW k \in Keys, generateAndPersist(p, k)
      PROVE  PairInv'
  BY <1>2 DEF generateAndPersist, secretVars
<1>3. ASSUME NEW p \in Pods, deriveAndPatch(p)
      PROVE  PairInv'
  BY <1>3 DEF deriveAndPatch
<1>4. ASSUME NEW p \in Pods, RestartFailed(p) \/ Crash(p)
      PROVE  PairInv'
  BY <1>4 DEF RestartFailed, Crash, secretVars
<1>5. ASSUME NEW c \in Contents, OperatorApplies(c)
      PROVE  PairInv'
  BY <1>5 DEF OperatorApplies, podVars, MatchingContents
<1>6. CASE OperatorDeletes \/ UNCHANGED vars
  BY <1>6 DEF OperatorDeletes, Empty, podVars, vars
<1> QED
  BY <1>1, <1>2, <1>3, <1>4, <1>5, <1>6 DEF Next, Startup

\* If operators never provide two halves that do not match, the public key a
\* helper puts into the FRSs it creates is always that of its own signer.
THEOREM PairsMatch ==
  ASSUME MatchingContents
  PROVE  Spec => []PairMatches
<1>1. Init => PairInv
  BY KeyAssumption DEF Init, PairInv, PairMatches, Empty
<1>2. Inv /\ PairInv /\ [Next]_vars => PairInv'
  BY NextPair
<1> QED
  BY <1>1, <1>2, SpecInv, PTL DEF Spec, PairInv

=============================================================================
