--------------------------- MODULE MCAuthSession ---------------------------
(***************************************************************************)
(* AuthSession for TLC.                                                    *)
(***************************************************************************)
EXTENDS AuthSession

\* Nothing wrong, one thing wrong that only some starts need, or two things one of
\* which hides the other or does no harm.
MCFaults == {{}, {"create"}, {"network", "auth"}, {"auth", "get"}, {"dns", "update"},
             {"get", "create"}}

=============================================================================
