---------------------------- MODULE MCKeyManager ----------------------------
(***************************************************************************)
(* KeyManager for TLC: what operators may put into the Secret.             *)
(***************************************************************************)
EXTENDS KeyManager

\* Everything but two halves that do not match.
Anything ==
    {[priv |-> k, pub |-> k] : k \in Keys \cup {None, Garbage}}
        \cup {[priv |-> k, pub |-> None] : k \in Keys \cup {Garbage}}
        \cup {[priv |-> None, pub |-> k] : k \in Keys}

=============================================================================
