----------------------------- MODULE KeyManager -----------------------------
(***************************************************************************)
(* keymgr.LoadOrGenerate, run by every helper process as it starts, on a   *)
(* Secret that other processes (the Deployment's rolling update starts the *)
(* new pod while the old one runs) and operators write too.                *)
(*                                                                         *)
(* A key pair is named by one value: the private field holding k parses to *)
(* the signer k, the public field holding k is k's public key.  Garbage is *)
(* a field that does not parse.  The API server (external) refuses Create  *)
(* of an existing Secret and Update with a stale resourceVersion, and may  *)
(* lose the answer to a call that it has carried out.                      *)
(***************************************************************************)
EXTENDS Naturals

CONSTANTS
    Pods,       \* helper processes
    Keys,       \* key pairs
    None,       \* an empty field
    Garbage,    \* a field with something in it that is not a key
    Contents,   \* what operators put into the Secret: [priv, pub] records
    MaxEdits,   \* bounds the interventions of operators
    MaxFaults   \* bounds crashes, API errors and lost answers

Field == Keys \cup {None, Garbage}

ASSUME KeyAssumption ==
    /\ None \notin Keys
    /\ Garbage \notin Keys \cup {None}
    /\ Contents \subseteq [priv : Field, pub : Field]
    /\ MaxEdits \in Nat
    /\ MaxFaults \in Nat

VARIABLES
    exists,     \* the Secret is there
    secret,     \* its ssh-privatekey and ssh-publickey fields
    version,    \* resourceVersion; grows with every write
    pc,         \* where each process is in its start
    got,        \* what its Get returned: fields and version
    signer,     \* Manager.Signer of a running process, None otherwise
    pubkey,     \* Manager.PublicKey
    edits,      \* interventions of operators so far
    faults,     \* crashes, API errors and lost answers so far
    since       \* history: edits when the process was last given its key

vars == <<exists, secret, version, pc, got, signer, pubkey, edits, faults, since>>
podVars == <<pc, got, signer, pubkey, since>>
secretVars == <<exists, secret, version>>

Empty == [priv |-> None, pub |-> None]
NothingGot == [priv |-> None, pub |-> None, version |-> 0]
PC == {"start", "create", "update", "running", "failed"}

-----------------------------------------------------------------------------

Init ==
    /\ exists = FALSE
    /\ secret = Empty
    /\ version = 0
    /\ pc = [p \in Pods |-> "start"]
    /\ got = [p \in Pods |-> NothingGot]
    /\ signer = [p \in Pods |-> None]
    /\ pubkey = [p \in Pods |-> None]
    /\ edits = 0
    /\ faults = 0
    /\ since = [p \in Pods |-> 0]

Goto(p, label) ==
    /\ pc' = [pc EXCEPT ![p] = label]
    /\ UNCHANGED <<signer, pubkey, since>>

\* LoadOrGenerate returns a Manager and the process serves with it.
Run(p, priv, pub) ==
    /\ pc' = [pc EXCEPT ![p] = "running"]
    /\ signer' = [signer EXCEPT ![p] = priv]
    /\ pubkey' = [pubkey EXCEPT ![p] = pub]
    /\ since' = [since EXCEPT ![p] = edits]

\* Mutant of parseInto: the errors of the two parsers are dropped.
parseUnchecked(p, priv, pub) == Run(p, priv, pub)

\* parseInto: both fields parse, and nobody asks whether they match.
parseInto(p, priv, pub) ==
    IF priv \in Keys /\ pub \in Keys THEN Run(p, priv, pub) ELSE Goto(p, "failed")

\* Mutant of LoadOrGenerate: a partial Secret counts as missing.
LoadPartialAsMissing(p) ==
    /\ pc[p] = "start"
    /\ got' = [got EXCEPT ![p] = [priv |-> secret.priv, pub |-> secret.pub,
                                  version |-> version]]
    /\ IF secret.priv = None \/ secret.pub = None
          THEN Goto(p, "create")
          ELSE parseInto(p, secret.priv, secret.pub)
    /\ UNCHANGED <<secretVars, edits, faults>>

\* LoadOrGenerate: Get and the choice of what to do with the answer.
LoadOrGenerate(p) ==
    /\ pc[p] = "start"
    /\ got' = [got EXCEPT ![p] = [priv |-> secret.priv, pub |-> secret.pub,
                                  version |-> version]]
    /\ \/ /\ secret = Empty     \* NotFound, or there and empty
          /\ Goto(p, "create")
       \/ /\ secret.priv = None /\ secret.pub # None
          /\ Goto(p, "failed")
       \/ /\ secret.priv # None /\ secret.pub = None
          /\ Goto(p, IF secret.priv \in Keys THEN "update" ELSE "failed")
       \/ /\ secret.priv # None /\ secret.pub # None
          /\ parseInto(p, secret.priv, secret.pub)
    /\ UNCHANGED <<secretVars, edits, faults>>

\* A write was carried out: its caller goes on, or fails if the answer was lost.
Answered(p, priv, pub) ==
    \/ Run(p, priv, pub) /\ UNCHANGED faults
    \/ /\ faults < MaxFaults
       /\ faults' = faults + 1
       /\ Goto(p, "failed")

\* Mutant of generateAndPersist: write the Secret whether or not it is there.
generateAndApply(p, k) ==
    /\ pc[p] = "create"
    /\ exists' = TRUE
    /\ secret' = [priv |-> k, pub |-> k]
    /\ version' = version + 1
    /\ Answered(p, k, k)
    /\ UNCHANGED <<got, edits>>

\* Mutant of generateAndPersist: if the Secret exists its public key is used.
generateOrAdopt(p, k) ==
    /\ pc[p] = "create"
    /\ \/ /\ ~exists
          /\ exists' = TRUE
          /\ secret' = [priv |-> k, pub |-> k]
          /\ version' = version + 1
          /\ Answered(p, k, k)
       \/ /\ exists
          /\ Run(p, k, secret.pub)
          /\ UNCHANGED <<secretVars, faults>>
    /\ UNCHANGED <<got, edits>>

\* generateAndPersist with the new key k: Create fails if the Secret exists.
generateAndPersist(p, k) ==
    /\ pc[p] = "create"
    /\ \/ /\ ~exists
          /\ exists' = TRUE
          /\ secret' = [priv |-> k, pub |-> k]
          /\ version' = version + 1
          /\ Answered(p, k, k)
       \/ /\ exists
          /\ Goto(p, "failed")
          /\ UNCHANGED <<secretVars, faults>>
    /\ UNCHANGED <<got, edits>>

\* Mutant of deriveAndPatch: an Update without a resourceVersion.
deriveAndOverwrite(p) ==
    /\ pc[p] = "update"
    /\ exists
    /\ secret' = [priv |-> got[p].priv, pub |-> got[p].priv]
    /\ version' = version + 1
    /\ Answered(p, got[p].priv, got[p].priv)
    /\ UNCHANGED <<exists, got, edits>>

\* deriveAndPatch: Update writes back the whole Secret that Get returned, with
\* the public key filled in, and fails if the Secret changed since.
deriveAndPatch(p) ==
    /\ pc[p] = "update"
    /\ \/ /\ exists /\ version = got[p].version
          /\ secret' = [priv |-> got[p].priv, pub |-> got[p].priv]
          /\ version' = version + 1
          /\ Answered(p, got[p].priv, got[p].priv)
       \/ /\ ~exists \/ version # got[p].version
          /\ Goto(p, "failed")
          /\ UNCHANGED <<secret, version, faults>>
    /\ UNCHANGED <<exists, got, edits>>

\* run() returns the error, the process exits, and the kubelet starts it again.
RestartFailed(p) ==
    /\ pc[p] = "failed"
    /\ got' = [got EXCEPT ![p] = NothingGot]
    /\ Goto(p, "start")
    /\ UNCHANGED <<secretVars, edits, faults>>

\* The process ends at any other point, or an API call fails and makes it end.
Crash(p) ==
    /\ pc[p] # "failed"
    /\ faults < MaxFaults
    /\ faults' = faults + 1
    /\ pc' = [pc EXCEPT ![p] = "failed"]
    /\ signer' = [signer EXCEPT ![p] = None]
    /\ pubkey' = [pubkey EXCEPT ![p] = None]
    /\ UNCHANGED <<secretVars, got, edits, since>>

\* External: an operator applies a Secret of their own.
OperatorApplies(c) ==
    /\ edits < MaxEdits
    /\ edits' = edits + 1
    /\ exists' = TRUE
    /\ secret' = c
    /\ version' = version + 1
    /\ UNCHANGED <<podVars, faults>>

\* External: an operator deletes the Secret.
OperatorDeletes ==
    /\ edits < MaxEdits
    /\ exists
    /\ edits' = edits + 1
    /\ exists' = FALSE
    /\ secret' = Empty
    /\ version' = version + 1
    /\ UNCHANGED <<podVars, faults>>

Startup(p) ==
    \/ LoadOrGenerate(p)
    \/ \E k \in Keys : generateAndPersist(p, k)
    \/ deriveAndPatch(p)
    \/ RestartFailed(p)

Next ==
    \/ \E p \in Pods : Startup(p) \/ Crash(p)
    \/ \E c \in Contents : OperatorApplies(c)
    \/ OperatorDeletes

Spec == Init /\ [][Next]_vars

\* A started process runs on, and the kubelet restarts one that has exited.
Fairness == \A p \in Pods : WF_vars(Startup(p))

FairSpec == Spec /\ Fairness

-----------------------------------------------------------------------------
(***************************************************************************)
(* Properties                                                              *)
(***************************************************************************)

TypeOK ==
    /\ exists \in BOOLEAN
    /\ secret \in [priv : Field, pub : Field]
    /\ version \in Nat
    /\ pc \in [Pods -> PC]
    /\ got \in [Pods -> [priv : Field, pub : Field, version : Nat]]
    /\ signer \in [Pods -> Keys \cup {None}]
    /\ pubkey \in [Pods -> Keys \cup {None}]
    /\ edits \in 0 .. MaxEdits
    /\ faults \in 0 .. MaxFaults
    /\ since \in [Pods -> 0 .. MaxEdits]

Installed == IF secret.priv \in Keys THEN secret.priv ELSE None

\* The key in the Secret is installed once and never replaced by a helper, and
\* every process signs with the key that was installed when it started.
Custody == INSTANCE KeyCustody WITH installed <- Installed, using <- signer
KeyIsKept == Custody!Spec

\* However many processes start together, those that have come up since an
\* operator last touched the Secret all sign with the one key that is in it.
OneKey ==
    \A p \in Pods : pc[p] = "running" /\ since[p] = edits => signer[p] = secret.priv

\* The public key put into new FRSs is that of the signer that will dial them, if
\* operators never provide two halves that do not match.
PairMatches == \A p \in Pods : pc[p] = "running" => pubkey[p] = signer[p]

\* A Secret that LoadOrGenerate can complete: none, or one with a private key.
\* (An existing Secret with empty fields is not: Create refuses to replace it.)
Startable ==
    \/ ~exists
    \/ secret.priv \in Keys /\ secret.pub \in Keys \cup {None}

\* A helper that keeps being restarted comes up, whoever else is starting, once
\* crashes have stopped and operators have left a Secret it can start from.
ComesUp == <>[]Startable => \A p \in Pods : <>[](pc[p] = "running")

=============================================================================
