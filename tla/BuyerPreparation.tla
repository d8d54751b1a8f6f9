----------------------------- MODULE BuyerPreparation -----------------------------
(***************************************************************************)
(* A buyer fills in missing stocks and terms, and the coordinator derives a  *)
(* new snapshot from an imported one (procurement.prepare).  The rows are    *)
(* written in one transaction that holds the SQLite write lock; the Parquet  *)
(* files are written in place while it is open (contracts/io.write_table),   *)
(* and neither a rollback nor a kill undoes them.                            *)
(*                                                                           *)
(* The id of the derived snapshot is the digest of the source and the inputs *)
(* without the idempotency key, so two requests with different keys may mean *)
(* the same snapshot.  A request that fails validation, or waits longer for  *)
(* the lock than the busy timeout, touches nothing and takes no step.        *)
(***************************************************************************)
EXTENDS Naturals, Sequences

CONSTANTS
    Handlers,       \* request threads of the coordinator
    Keys,           \* idempotency keys of the clients
    BuyerInputs,         \* source snapshot and entered values, as the signature tells them apart
    DerivedTables,         \* tables of the derived snapshot, in the order they are written
    Free            \* nobody holds the write lock

VARIABLES
    snapshots,      \* committed rows of items, kind "snapshots"
    reservations,   \* committed rows of idempotency, scope "buyer-inputs": {[key, input]}
    audit,          \* committed events "buyer_preparation", in sequence
    files,          \* [Inputs -> [table -> "absent", "partial" or "whole"]]
    lock,           \* the handler whose transaction is open, or Free
    transaction     \* what that handler is doing

preparationVars == <<snapshots, reservations, audit, files, lock, transaction>>
rows == <<snapshots, reservations, audit>>

TableNames == {DerivedTables[i] : i \in DOMAIN DerivedTables}

ASSUME TablesAssumption == DerivedTables \in Seq(TableNames)

NoTransaction == [step |-> "none"]
Reservation(key, input) == [key |-> key, input |-> input]

PreparationInit ==
    /\ snapshots = {} /\ reservations = {} /\ audit = <<>>
    /\ files = [i \in BuyerInputs |-> [t \in TableNames |-> "absent"]]
    /\ lock = Free /\ transaction = NoTransaction

\* BEGIN IMMEDIATE: one writer at a time.
Begin(h, key, input) ==
    /\ lock = Free
    /\ lock' = h
    /\ transaction' = [step |-> "reserve", key |-> key, input |-> input, next |-> 1]
    /\ UNCHANGED <<rows, files>>

In(h, step) == lock = h /\ transaction.step = step
End == lock' = Free /\ transaction' = NoTransaction

Unused(key) == \A r \in reservations : r.key # key

\* A used key answers with its snapshot or, for other inputs, is a conflict: no rows change.
Replay(h) ==
    /\ In(h, "reserve") /\ ~ Unused(transaction.key)
    /\ End
    /\ UNCHANGED <<rows, files>>

\* Faulty variant: the derived snapshot is always built anew.
NothingStored(input) == FALSE

Stored(input) == input \in snapshots

\* Another key for a snapshot that exists: the new reservation is committed, nothing is built.
Reuse(h) ==
    /\ In(h, "reserve") /\ Unused(transaction.key) /\ Stored(transaction.input)
    /\ reservations' = reservations \cup {Reservation(transaction.key, transaction.input)}
    /\ End
    /\ UNCHANGED <<snapshots, audit, files>>

StartBuild(h) ==
    /\ In(h, "reserve") /\ Unused(transaction.key) /\ ~ Stored(transaction.input)
    /\ transaction' = [transaction EXCEPT !.step = "write"]
    /\ UNCHANGED <<rows, files, lock>>

\* pq.write_table opens the final path, which empties a file left by an earlier attempt.
OpenFile(h) ==
    /\ In(h, "write") /\ transaction.next <= Len(DerivedTables)
    /\ files' = [files EXCEPT ![transaction.input][DerivedTables[transaction.next]] = "partial"]
    /\ transaction' = [transaction EXCEPT !.step = "file"]
    /\ UNCHANGED <<rows, lock>>

CloseFile(h) ==
    /\ In(h, "file")
    /\ files' = [files EXCEPT ![transaction.input][DerivedTables[transaction.next]] = "whole"]
    /\ transaction' = [transaction EXCEPT !.step = "write", !.next = @ + 1]
    /\ UNCHANGED <<rows, lock>>

\* Faulty variant: the reservation was committed before the files were written.
KeepReservation ==
    reservations \cup {Reservation(transaction.key, transaction.input)}

\* The reservation is part of the transaction that fails.
RollBack == reservations

\* A file error, or inputs that turn out to have no usable demand history
\* (MISSING_DEMAND_HISTORY is raised after the files are written): rows are rolled back.
Raise(h) ==
    /\ In(h, "write") \/ In(h, "file")
    /\ reservations' = RollBack
    /\ End
    /\ UNCHANGED <<snapshots, audit, files>>

\* Faulty variant: the row is written as soon as one table is.
SomeTableWritten == transaction.next > 1

EveryTableWritten == transaction.next > Len(DerivedTables)

\* create_item (which refuses an id that exists), append_audit, COMMIT.
Commit(h) ==
    /\ In(h, "write") /\ EveryTableWritten /\ transaction.input \notin snapshots
    /\ snapshots' = snapshots \cup {transaction.input}
    /\ reservations' = reservations \cup {Reservation(transaction.key, transaction.input)}
    /\ audit' = Append(audit, transaction.input)
    /\ End
    /\ UNCHANGED files

\* The process dies: SQLite rolls the open transaction back, files stay as they are.
Killed ==
    /\ lock # Free
    /\ End
    /\ UNCHANGED <<rows, files>>

PreparationNext ==
    \/ \E h \in Handlers :
        \/ \E key \in Keys, input \in BuyerInputs : Begin(h, key, input)
        \/ Replay(h) \/ Reuse(h) \/ StartBuild(h)
        \/ OpenFile(h) \/ CloseFile(h) \/ Raise(h) \/ Commit(h)
    \/ Killed

PreparationSpec == PreparationInit /\ [][PreparationNext]_preparationVars

--------------------------------------------------------------------------------

\* A snapshot that can be planned on has all its files, complete, whatever attempts failed
\* or died before it was stored: load_table never finds a missing or changed artifact.
StoredSnapshotsAreWhole ==
    \A input \in snapshots : \A t \in TableNames : files[input][t] = "whole"

\* The files of a stored snapshot are never written again, not even with the same bytes:
\* a run may be reading them while another request with another key means the same inputs.
StoredFilesAreNeverRewritten ==
    [][\A input \in snapshots : files'[input] = files[input]]_preparationVars

\* A key that was used answers with a stored snapshot, always the same one, and each
\* stored snapshot was audited exactly once.
KeysNameStoredSnapshots ==
    /\ \A r \in reservations : r.input \in snapshots
    /\ \A r, s \in reservations : r.key = s.key => r = s
    /\ \A input \in snapshots : \E n \in DOMAIN audit : audit[n] = input
    /\ \A m, n \in DOMAIN audit : audit[m] = audit[n] => m = n

================================================================================
