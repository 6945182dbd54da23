----------------------------- MODULE Refinement -----------------------------
(***************************************************************************)
(* The transport implements EventProcessing: a record's verdict is what    *)
(* became of its handling in the server, and the reported failures are the *)
(* error tuples the client has collected by id.                            *)
(***************************************************************************)
EXTENDS Transport

Verdict(r) ==
  CASE work[r] = "completed" -> "answered"
    [] work[r] = "empty" -> "empty"
    [] work[r] \in {"errored", "unqualified"} -> "failed"
    [] OTHER -> "pending"

Promise == INSTANCE EventProcessing WITH
  Record    <- Request,
  RecordsOf <- [e \in Event |-> Members(e)],
  verdict   <- [r \in Request |-> Verdict(r)],
  failures  <- [e \in Event |-> IF Settled(e) THEN BatchItemFailures(tuples[e]) ELSE {}],
  up        <- process = "running"

\* Every behaviour of the client, broker and server is one of the promised
\* ones: whatever is late, left over or interleaved, each event settles once,
\* after the verdicts on all its own records and in accordance with them.
ImplementsPromise == Promise!AbsSpec
=============================================================================
