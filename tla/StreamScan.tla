----------------------------- MODULE StreamScan -----------------------------
(***************************************************************************)
(* What a streaming subscription promises its client: a scan of the rows,  *)
(* in the order of the cursor columns.  Each batch is read at one moment,  *)
(* and is the first rows there are then behind all that was sent before:   *)
(* there is no cursor, no query that takes time and no queue.  Streams     *)
(* implements it while its re-queries do not overlap.                      *)
(***************************************************************************)
EXTENDS Integers, Sequences, FiniteSets

CONSTANTS
  Columns,    \* number of cursor columns
  Keys,       \* what the cursor columns of a row may hold
  From,       \* where the scan begins
  BatchSize,  \* rows of a batch, at most
  Replica     \* TRUE: a batch may be read from an older state than the one before

VARIABLES
  rows,    \* keys of the rows, in the order of their commits
  out,     \* the batches, each the set of its rows, in the order they are sent
  pulled,  \* how many of them the client has
  seen,    \* how many rows there were when the last one was read
  over     \* whether the subscription has ended

vars == <<rows, out, pulled, seen, over>>

Init == rows = <<>> /\ out = <<>> /\ pulled = 0 /\ seen = 0 /\ over = FALSE

\* The order of the cursor columns: the first that differs decides.
Beyond(k, c) ==
  \E i \in 1..Columns : k[i] > c[i] /\ \A j \in 1..(i - 1) : k[j] = c[j]

\* Of the first n rows, those behind the beginning and behind every row sent.
Fresh(n) ==
  {r \in 1..n : /\ Beyond(rows[r], From)
                /\ \A i \in DOMAIN out : \A s \in out[i] : Beyond(rows[r], rows[s])}

\* b is as many rows of S as a batch holds, or all of them, and none left comes before.
IsFirstOf(S, b) ==
  /\ b \subseteq S
  /\ Cardinality(b) <= BatchSize
  /\ b # S => Cardinality(b) = BatchSize
  /\ \A r \in b, s \in S \ b : ~Beyond(rows[r], rows[s])

Commit(k) ==
  /\ rows' = Append(rows, k)
  /\ UNCHANGED <<out, pulled, seen, over>>

\* Of the rows there are, one at a time unless a replica lags.
Read(b) ==
  /\ ~over
  /\ \E n \in 0..Len(rows) : /\ Replica \/ seen <= n
                             /\ IsFirstOf(Fresh(n), b)
                             /\ seen' = n
  /\ out' = Append(out, b)
  /\ UNCHANGED <<rows, over>>

\* The first batch is handed over whatever it holds, the others wait to be pulled.
Begin(b) == out = <<>> /\ Read(b) /\ pulled' = 1
Continue(b) == out # <<>> /\ b # {} /\ Read(b) /\ pulled' = pulled

Pull ==
  /\ ~over
  /\ pulled < Len(out)
  /\ pulled' = pulled + 1
  /\ UNCHANGED <<rows, out, seen, over>>

End ==
  /\ ~over
  /\ over' = TRUE
  /\ UNCHANGED <<rows, out, pulled, seen>>

Next ==
  \/ \E k \in Keys : Commit(k)
  \/ \E b \in SUBSET DOMAIN rows : Begin(b) \/ Continue(b)
  \/ Pull
  \/ End

Spec == Init /\ [][Next]_vars
=============================================================================
