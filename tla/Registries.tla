----------------------------- MODULE Registries -----------------------------
(***************************************************************************)
(* RegistryRepository: creations and updates are transactions of two       *)
(* statements, "clear the default" and "write the row", which PostgreSQL   *)
(* runs at READ COMMITTED; a soft delete is one statement.  Requests meet  *)
(* in row locks and in the two unique indexes, on the name of every row    *)
(* and on is_default of the live ones.                                     *)
(*                                                                         *)
(* Of PostgreSQL the model keeps: a statement sees what was committed when *)
(* it began; an UPDATE waits for the transaction that has changed its row  *)
(* and looks at the row again; an insertion into a unique index waits for  *)
(* the transaction a conflict depends on; a cycle of waits is broken by    *)
(* ending one of the transactions.                                         *)
(***************************************************************************)
CONSTANTS
    Registries,     \* ids, each generated once
    Names,
    Procs           \* request goroutines

VARIABLES
    rows,           \* table registries as committed
    procs           \* where each transaction stands and what it has not committed yet

vars == <<rows, procs>>

None == "none"
ASSUME NoneAssumption == None \notin Registries

Row == [state : {"live", "deleted"}, name : Names, default : {"yes", "no"}]
NoRow == [state |-> "unused"]

Live(r) == rows[r].state = "live"
Default(r) == Live(r) /\ rows[r].default = "yes"

Answers == {"none", "OK", "NOT_FOUND", "ALREADY_EXISTS", "INTERNAL_ERROR"}
Idle == [step : {"idle"}, answer : Answers]

\* target is to become new; found is the default that clearDefault has seen,
\* cleared the one it has updated.
Steps == {"clear", "clear_lock", "write", "name_index", "default_index", "commit"}
Tx == [step : Steps, kind : {"create", "update"}, target : Registries, new : Row,
       found : Registries \cup {None}, cleared : Registries \cup {None}]

TypeOK ==
    /\ rows \in [Registries -> Row \cup {NoRow}]
    /\ procs \in [Procs -> Idle \cup Tx]

Init ==
    /\ rows = [r \in Registries |-> NoRow]
    /\ procs = [p \in Procs |-> [step |-> "idle", answer |-> "none"]]

-----------------------------------------------------------------------------
(* Locks and waits *)

At(p, step) == procs[p].step = step
InTx(p) == procs[p].step # "idle"

\* p has written its row, but not committed it.
Written(p) == procs[p].step \in {"name_index", "default_index", "commit"}

\* The transactions other than p that have changed row r.
Holders(p, r) ==
    {q \in Procs \ {p} : InTx(q) /\ (procs[q].cleared = r
                                     \/ (Written(q) /\ procs[q].target = r))}

\* The rows whose committed version has the name, or holds the default, that
\* p is about to write; p's own update of a row takes its old version away.
SameName(p) ==
    {r \in Registries \ {procs[p].target} :
       rows[r] # NoRow /\ rows[r].name = procs[p].new.name}
OtherDefault(p) ==
    {r \in Registries \ {procs[p].target} : Default(r) /\ r # procs[p].cleared}

\* The transactions that have entered the same name, or a default.
NameEntered(p) ==
    {q \in Procs \ {p} : procs[q].step \in {"default_index", "commit"}
                         /\ procs[q].new.name = procs[p].new.name}
DefaultEntered(p) ==
    {q \in Procs \ {p} : At(q, "commit") /\ procs[q].new.default = "yes"}

\* Whose end the next step of p has to wait for.
Blockers(p) ==
    {q \in Procs \ {p} :
       \/ At(p, "clear_lock") /\ q \in Holders(p, procs[p].found)
       \/ At(p, "write") /\ q \in Holders(p, procs[p].target)
       \/ /\ At(p, "name_index")
          /\ q \in NameEntered(p) \/ \E r \in SameName(p) : q \in Holders(p, r)
       \/ /\ At(p, "default_index") /\ procs[p].new.default = "yes"
          /\ q \in DefaultEntered(p) \/ \E r \in OtherDefault(p) : q \in Holders(p, r)}

Continue(p, q) == procs' = [procs EXCEPT ![p] = q]
Goto(p, step) == Continue(p, [procs[p] EXCEPT !.step = step])

\* The transaction ends and what it has not committed is gone.
Answer(p, a) == Continue(p, [step |-> "idle", answer |-> a])
Rollback(p, a) == Answer(p, a) /\ UNCHANGED rows

-----------------------------------------------------------------------------
(* Create and Update *)

Begin(p, kind, r, n, default) ==
    /\ At(p, "idle")
    /\ Continue(p, [step |-> IF default = "yes" THEN "clear" ELSE "write", kind |-> kind,
                    target |-> r, new |-> [state |-> "live", name |-> n, default |-> default],
                    found |-> None, cleared |-> None])
    /\ UNCHANGED rows

\* uuid.New(), then the transaction.
BeginCreate(p, r, n, default) ==
    /\ rows[r] = NoRow
    /\ \A q \in Procs : InTx(q) => procs[q].target # r
    /\ Begin(p, "create", r, n, default)

\* No live row has the id of the request.
NotFound(p, r) == ~Live(r) /\ At(p, "idle") /\ Rollback(p, "NOT_FOUND")

\* UpdateRegistry looks for the row first.
BeginUpdate(p, r, n, default) ==
    \/ Live(r) /\ Begin(p, "update", r, n, default)
    \/ NotFound(p, r)

\* clearDefault: the rows it is about to update, as committed at this moment
\* (in Update all but the target).
Clear(p) ==
    /\ At(p, "clear")
    /\ \/ \E r \in Registries \ {procs[p].target} :
            Default(r) /\ Continue(p, [procs[p] EXCEPT !.step = "clear_lock", !.found = r])
       \/ /\ \A r \in Registries \ {procs[p].target} : ~Default(r)
          /\ Goto(p, "write")
    /\ UNCHANGED rows

\* Variant of ClearLock: the statement commits on its own, outside a transaction.
ClearLockCommitted(p) ==
    LET r == procs[p].found IN
    /\ At(p, "clear_lock") /\ Blockers(p) = {}
    /\ rows' = IF Default(r) THEN [rows EXCEPT ![r].default = "no"] ELSE rows
    /\ Goto(p, "write")

\* The row found, when nobody holds it, is updated if it is still the default.
ClearLock(p) ==
    LET r == procs[p].found IN
    /\ At(p, "clear_lock") /\ Blockers(p) = {}
    /\ Continue(p, [procs[p] EXCEPT !.step = "write",
                                    !.cleared = IF Default(r) THEN r ELSE None])
    /\ UNCHANGED rows

\* Variant of Write: the early return leaves the transaction open.
WriteLeaking(p) ==
    /\ At(p, "write") /\ Blockers(p) = {}
    /\ \/ /\ procs[p].kind = "create" \/ Live(procs[p].target)
          /\ Goto(p, "name_index")
       \/ /\ procs[p].kind = "update" /\ ~Live(procs[p].target)
          /\ UNCHANGED procs
    /\ UNCHANGED rows

\* INSERT, or UPDATE ... WHERE id AND deleted_at IS NULL: the row itself.
Write(p) ==
    /\ At(p, "write") /\ Blockers(p) = {}
    /\ \/ /\ procs[p].kind = "create" \/ Live(procs[p].target)
          /\ Goto(p, "name_index")
          /\ UNCHANGED rows
       \/ /\ procs[p].kind = "update" /\ ~Live(procs[p].target)
          /\ Rollback(p, "NOT_FOUND")

\* ... its entry in the unique index on name ...
NameIndex(p) ==
    /\ At(p, "name_index") /\ Blockers(p) = {}
    /\ \/ SameName(p) = {} /\ Goto(p, "default_index") /\ UNCHANGED rows
       \/ SameName(p) # {} /\ Rollback(p, "ALREADY_EXISTS")

\* Variant of DefaultIndex: no unique index on is_default.
DefaultIndexMissing(p) ==
    /\ At(p, "default_index")
    /\ Goto(p, "commit")
    /\ UNCHANGED rows

\* ... and in idx_registries_single_default.  Both are unique violations.
DefaultIndex(p) ==
    /\ At(p, "default_index") /\ Blockers(p) = {}
    /\ \/ /\ procs[p].new.default = "yes" => OtherDefault(p) = {}
          /\ Goto(p, "commit")
          /\ UNCHANGED rows
       \/ /\ procs[p].new.default = "yes" /\ OtherDefault(p) # {}
          /\ Rollback(p, "ALREADY_EXISTS")

\* Variant of Commit: clearDefault sets NULL.
CommitNull(p) ==
    LET tx == procs[p] IN
    /\ At(p, "commit")
    /\ rows' = [r \in Registries |->
                  IF r = tx.target THEN tx.new
                  ELSE IF r = tx.cleared THEN [rows[r] EXCEPT !.default = "null"]
                  ELSE rows[r]]
    /\ Answer(p, "OK")

\* The answer to a commit may be lost.
Commit(p) ==
    LET tx == procs[p] IN
    /\ At(p, "commit")
    /\ rows' = [r \in Registries |->
                  IF r = tx.target THEN tx.new
                  ELSE IF r = tx.cleared THEN [rows[r] EXCEPT !.default = "no"]
                  ELSE rows[r]]
    /\ \E a \in {"OK", "INTERNAL_ERROR"} : Answer(p, a)

\* A statement or the commit fails.
Fail(p) == InTx(p) /\ Rollback(p, "INTERNAL_ERROR")

\* p is on a cycle of waits.
Deadlocked(p) ==
    \E S \in SUBSET Procs :
        /\ p \in S
        /\ \A q \in S : Blockers(q) \cap S # {} /\ \E o \in S : q \in Blockers(o)

DeadlockAbort(p) == Deadlocked(p) /\ Rollback(p, "INTERNAL_ERROR")

-----------------------------------------------------------------------------

\* SoftDelete, one statement that waits while the row is locked.
SoftDeleted(p, r) ==
    /\ At(p, "idle")
    /\ Live(r) /\ Holders(p, r) = {}
    /\ rows' = [rows EXCEPT ![r].state = "deleted", ![r].default = "no"]
    /\ \E a \in {"OK", "INTERNAL_ERROR"} : Answer(p, a)

\* No early read here: the WHERE clause finds the row or does not.
SoftDelete(p, r) ==
    \/ SoftDeleted(p, r) \/ NotFound(p, r)
    \/ At(p, "idle") /\ Rollback(p, "INTERNAL_ERROR")

Request(p) ==
    \E r \in Registries :
        \/ SoftDelete(p, r)
        \/ \E n \in Names, default \in {"yes", "no"} :
             BeginCreate(p, r, n, default) \/ BeginUpdate(p, r, n, default)

Proceed(p) ==
    \/ Clear(p) \/ ClearLock(p) \/ Write(p) \/ NameIndex(p) \/ DefaultIndex(p) \/ Commit(p)
    \/ DeadlockAbort(p)

Next == \E p \in Procs : Request(p) \/ Proceed(p) \/ Fail(p)

\* Statements return; PostgreSQL hands a lock to the one who waits longest.
Fairness == \A p \in Procs : SF_vars(Proceed(p))

Spec == Init /\ [][Next]_vars /\ Fairness

-----------------------------------------------------------------------------
(* Properties *)

\* Whatever creations, updates and deletions overlap, at most one live
\* registry is the default.
AtMostOneDefault == \A r, s \in Registries : Default(r) /\ Default(s) => r = s

\* The default is lost only by a request that is about that registry: one
\* that fails, or loses a race for the default, leaves the old one in place.
DefaultNotLost ==
    [][\A r \in Registries : Default(r) /\ (\A s \in Registries : ~Default(s)') =>
         \/ rows'[r].state = "deleted"
         \/ \E p \in Procs : At(p, "commit") /\ procs[p].target = r /\ ~InTx(p)']_vars

\* Every transaction ends: no early return leaves one open, and those caught
\* in a cycle of waits get out of it.
TransactionsEnd == \A p \in Procs : InTx(p) ~> ~InTx(p)

=============================================================================
