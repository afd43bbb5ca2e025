--------------------------- MODULE MCSftpSessions ---------------------------
(***************************************************************************)
(* SftpSessions for TLC.  Requests and sessions are interchangeable.       *)
(***************************************************************************)
EXTENDS SftpSessions, TLC

Symmetry == Permutations(Users) \cup Permutations(FRSs)
              \cup Permutations(Reqs) \cup Permutations(Sessions)

=============================================================================
