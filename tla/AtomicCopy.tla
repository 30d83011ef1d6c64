----------------------------- MODULE AtomicCopy -----------------------------
(***************************************************************************)
(* What a COPY ... TO ... (FORMAT LANCE) promises about its destination:   *)
(* the rows of the query appear all at once, in one step, or never; the    *)
(* query succeeds only after they appeared; and between those steps the    *)
(* destination changes only by what other processes commit.  An index that *)
(* fails after the rows appeared still fails the query (README.md).        *)
(***************************************************************************)
CONSTANTS
  Copied,   \* the rows of the query
  Others,   \* the rows other processes may commit
  Mode      \* "create", "append" or "overwrite"

VARIABLES
  exists,   \* there is a dataset at the destination
  rows,     \* the rows of its latest version
  existed,  \* there was one when the COPY opened it
  copy      \* "pending", "running", "published", "success" or "error"

vars == <<exists, rows, existed, copy>>

Init ==
  /\ exists \in BOOLEAN
  /\ rows \in SUBSET Others
  /\ ~exists => rows = {}
  /\ existed = FALSE
  /\ copy = "pending"

\* The COPY opens its destination.
Open ==
  /\ copy = "pending"
  /\ copy' = "running"
  /\ existed' = exists
  /\ UNCHANGED <<exists, rows>>

\* All rows of the query become visible.  An append keeps what is there; a
\* create never follows a dataset that existed at open.
PublishAll ==
  /\ copy = "running"
  /\ Mode = "create" => ~existed
  /\ rows' \in {Copied} \cup (IF Mode = "append" THEN {rows \cup Copied} ELSE {})
  /\ (Mode = "append" /\ existed) => rows' = rows \cup Copied
  /\ exists' = TRUE
  /\ copy' = "published"
  /\ UNCHANGED existed

Succeed ==
  /\ copy = "published"
  /\ copy' = "success"
  /\ UNCHANGED <<exists, rows, existed>>

Fail ==
  /\ copy \in {"pending", "running", "published"}
  /\ copy' = "error"
  /\ UNCHANGED <<exists, rows, existed>>

OtherCommit ==
  /\ \E r \in Others : rows' = rows \cup {r}
  /\ exists' = TRUE
  /\ UNCHANGED <<existed, copy>>

Next == Open \/ PublishAll \/ Succeed \/ Fail \/ OtherCommit

Spec == Init /\ [][Next]_vars
=============================================================================
