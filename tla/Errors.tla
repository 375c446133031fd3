------------------------------- MODULE Errors -------------------------------
(***************************************************************************)
(* NdexError: what a process that fails tells its caller.                  *)
(***************************************************************************)
EXTENDS Integers

\* The exit code of each kind of error, which ErrorData takes over the wire.
ExitCode(error) ==
    CASE error = "IndexNotFound"                -> 3
      [] error \in {"RemoteConnection", "Nfs"}  -> 4
      [] error = "VersionIncompatible"          -> 5
      [] error = "SchemaMismatch"               -> 6
      [] error = "NoResults"                    -> 7
      [] error = "Config"                       -> 78
      [] error = "Interrupted"                  -> 130
      [] OTHER                                  -> 1

=============================================================================
