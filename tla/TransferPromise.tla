-------------------------- MODULE TransferPromise --------------------------
(***************************************************************************)
(* What fetching and opening bundles promises, without tar, HTTP or files' *)
(* contents: the destination is only ever replaced, in one step, by a      *)
(* whole archive the server offered to the fetch that replaces it; what    *)
(* goes to standard output is a piece of such an archive, all of it when   *)
(* the fetch reports success; and nobody's temporary file outlives its     *)
(* user, unless the user was killed.                                       *)
(***************************************************************************)
EXTENDS Sequences, SequencesExt

CONSTANT Nothing

VARIABLES dest,      \* the file the user named
          stdout,    \* what the current fetch printed
          offered,   \* the whole archives of the server a fetch is talking to
          users,     \* who is at work: "fetch", "analysis"
          files,     \* the temporary files of those at work
          result     \* how the last fetch ended: "none", "ok", "failed", "killed"

promiseVars == <<dest, stdout, offered, users, files, result>>

TempFile(user) == IF user = "fetch" THEN "staging" ELSE "dump"

Init ==
  /\ dest = Nothing /\ stdout = <<>> /\ offered = {} /\ users = {} /\ files = {}
  /\ result = "none"

StartFetch ==
  /\ "fetch" \notin users
  /\ users' = users \cup {"fetch"} /\ stdout' = <<>> /\ result' = "none"
  /\ UNCHANGED <<dest, files>>

\* The server makes up its mind, while the fetch waits.
Offer ==
  /\ "fetch" \in users /\ stdout = <<>> /\ "staging" \notin files
  /\ UNCHANGED <<dest, stdout, users, files, result>>

Create(user) ==
  /\ user \in users
  /\ files' = files \cup {TempFile(user)}
  /\ UNCHANGED <<dest, stdout, offered, users, result>>

Replace ==
  /\ "fetch" \in users /\ stdout = <<>>
  /\ dest' \in offered
  /\ files' = files \ {"staging"}
  /\ UNCHANGED <<stdout, offered, users, result>>

Display ==
  /\ "fetch" \in users
  /\ \E archive \in offered : IsPrefix(stdout', archive) /\ IsPrefix(stdout, stdout')
  /\ UNCHANGED <<dest, offered, users, files, result>>

EndFetch ==
  /\ "fetch" \in users
  /\ result' \in {"ok", "failed", "killed"}
  /\ result' = "ok" => dest \in offered \/ stdout \in offered
  /\ users' = users \ {"fetch"} /\ files' = files \ {"staging"} /\ offered' = {}
  /\ UNCHANGED <<dest, stdout>>

\* Opening hands out the bundle together with the dump it extracted.
StartAnalysis ==
  /\ "analysis" \notin users /\ dest # Nothing
  /\ users' = users \cup {"analysis"} /\ files' = files \cup {"dump"}
  /\ UNCHANGED <<dest, stdout, offered, result>>

EndAnalysis ==
  /\ "analysis" \in users
  /\ users' = users \ {"analysis"} /\ files' = files \ {"dump"}
  /\ UNCHANGED <<dest, stdout, offered, result>>

Next ==
  \/ StartFetch \/ Offer \/ (\E user \in users : Create(user)) \/ Replace \/ Display
  \/ EndFetch \/ StartAnalysis \/ EndAnalysis

Spec == Init /\ [][Next]_promiseVars
=============================================================================
