------------------------------ MODULE Replies ------------------------------
(***************************************************************************)
(* How an error of the service becomes an HTTP status (model/errors.go and *)
(* httpapi/server.go).                                                     *)
(***************************************************************************)

AppErrorCode ==
    {"invalid_input", "not_found", "conflict", "forbidden", "unavailable"}

\* Fault: what is no business error counts as a conflict.
FaultyAsAppError(err) == IF err \in AppErrorCode THEN err ELSE "conflict"

\* An error of the database, or a panic that recoverMiddleware has caught, is no
\* business error: it becomes an invalid input.
AsAppError(err) == IF err \in AppErrorCode THEN err ELSE "invalid_input"

\* Fault: the status the comment of errors.go names and server.go does not use.
FaultyStatusFor(code) ==
    CASE code = "invalid_input" -> 422
      [] code = "not_found" -> 404
      [] code \in {"conflict", "forbidden", "unavailable"} -> 409
      [] OTHER -> 500

StatusFor(code) ==
    CASE code = "invalid_input" -> 400
      [] code = "not_found" -> 404
      [] code \in {"conflict", "forbidden", "unavailable"} -> 409
      [] OTHER -> 500

HandleErr(err) == StatusFor(AsAppError(err))
=============================================================================
