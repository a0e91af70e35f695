-------------------------------- MODULE Auth --------------------------------
(***************************************************************************)
(* Employee sessions: login, the check made on every protected request,    *)
(* logout, and the triggers of the employees table that revoke tokens.     *)
(*                                                                         *)
(* One step is one SQL statement or one stretch of Go between two          *)
(* statements, so requests interleave wherever the service waits for the   *)
(* database.  Employees are never written by the service: a person edits   *)
(* the table, and the triggers of migrations 000002 and 000003 run in the  *)
(* same statement.  The service and the database share one clock, now.     *)
(***************************************************************************)
EXTENDS Integers

CONSTANTS
    Employees,      \* rows the employees table can hold
    Tokens,         \* opaque tokens that can be generated, each used once
    Requests,       \* request goroutines running at the same time
    TokenTTL,       \* AUTH_TOKEN_TTL, in ticks
    MaxTime         \* bound on the clock

ASSUME TTLAssumption == TokenTTL \in Nat /\ TokenTTL > 0
ASSUME TimeAssumption == MaxTime \in Nat

VARIABLES
    now,            \* s.clock() and NOW()
    employees,      \* table employees
    tokens,         \* table auth_tokens
    requests,       \* what each request goroutine has read and where it stands
    touches         \* touchLastUsedAsync goroutines not finished yet

vars == <<now, employees, tokens, requests, touches>>

Null == -1          \* SQL NULL in a timestamp column

Reasons == {"none", "user logout", "employee disabled"}
Answers == {"none", "OK", "INVALID_CREDENTIALS", "UNAUTHORIZED", "TOKEN_EXPIRED",
            "TOKEN_REVOKED", "EMPLOYEE_DISABLED", "INTERNAL_ERROR"}

Statuses == {"ENABLED", "DISABLED", "ABSENT"}    \* ABSENT: no such row
EmployeeRow == [status : Statuses, deleted : BOOLEAN]

TokenRow == [row : {"stored"}, employee : Employees, issued : Nat, expires : Nat,
             lastUsed : Nat \cup {Null}, revoked : Nat \cup {Null}, reason : Reasons]
NoRow == [row |-> "none"]       \* not generated yet
GoneRow == [row |-> "gone"]     \* after ON DELETE CASCADE

Stored(row) == row.row = "stored"

\* What a request goroutine holds at each of the points where it may wait.
Idle   == [step : {"idle"}, answer : Answers]
Verify == [step : {"verify"}, employee : Employees, read : EmployeeRow]
Create == [step : {"create"}, employee : Employees, at : Nat]
Find   == [step : {"find"}, token : Tokens, logout : BOOLEAN, late : BOOLEAN]
Judge  == [step : {"judge"}, token : Tokens, logout : BOOLEAN, late : BOOLEAN,
           row : TokenRow, status : Statuses]
Serve  == [step : {"serve"}, token : Tokens, logout : BOOLEAN, late : BOOLEAN]

-----------------------------------------------------------------------------

TypeOK ==
    /\ now \in Nat
    /\ employees \in [Employees -> EmployeeRow]
    /\ tokens \in [Tokens -> TokenRow \cup {NoRow, GoneRow}]
    /\ requests \in [Requests -> Idle \cup Verify \cup Create \cup Find \cup Judge \cup Serve]
    /\ touches \subseteq [token : Tokens, at : Nat]

\* Rows are inserted by hand with either status and no soft-delete mark.
Init ==
    /\ now = 0
    /\ employees \in [Employees -> [status : {"ENABLED", "DISABLED"}, deleted : {FALSE}]]
    /\ tokens = [t \in Tokens |-> NoRow]
    /\ requests = [r \in Requests |-> [step |-> "idle", answer |-> "none"]]
    /\ touches = {}

-----------------------------------------------------------------------------

\* Request r goes on with q in its local variables.
Continue(r, q) == requests' = [requests EXCEPT ![r] = q]

\* Request r ends with answer a; what it had read goes out of scope.
Answer(r, a) == Continue(r, [step |-> "idle", answer |-> a])

\* Employee.IsActive
IsActiveEmployee(e) == e.status = "ENABLED" /\ ~e.deleted

\* AuthToken.IsActive
IsActiveToken(row, t) == row.revoked = Null /\ t < row.expires

-----------------------------------------------------------------------------
(* POST /api/auth/login *)

\* FindByEmail answers with the row as it is now, or with no row.
LoginFind(r, e) ==
    /\ requests[r].step = "idle"
    /\ IF employees[e].status = "ABSENT"
       THEN Answer(r, "INVALID_CREDENTIALS")
       ELSE Continue(r, [step |-> "verify", employee |-> e, read |-> employees[e]])
    /\ UNCHANGED <<now, employees, tokens, touches>>

\* bcrypt, then the status read by LoginFind; a new token is stamped with the
\* time of this moment.
LoginVerify(r, passwordMatches) ==
    LET q == requests[r] IN
    /\ q.step = "verify"
    /\ IF passwordMatches /\ IsActiveEmployee(q.read)
       THEN Continue(r, [step |-> "create", employee |-> q.employee, at |-> now])
       ELSE Answer(r, "INVALID_CREDENTIALS")
    /\ UNCHANGED <<now, employees, tokens, touches>>

\* Variant of IssuedRow: the lifetime is subtracted.
IssuedRowExpired(q) ==
    [row |-> "stored", employee |-> q.employee, issued |-> q.at,
     expires |-> q.at - 2 * TokenTTL, lastUsed |-> Null, revoked |-> Null, reason |-> "none"]

\* The row Login inserts for request q.
IssuedRow(q) ==
    [row |-> "stored", employee |-> q.employee, issued |-> q.at,
     expires |-> q.at + TokenTTL, lastUsed |-> Null, revoked |-> Null, reason |-> "none"]

\* INSERT INTO auth_tokens.  The foreign key refuses a deleted employee; the
\* answer to a committed insert may still be lost on the way (500).
LoginCreate(r, t) ==
    LET q == requests[r] IN
    /\ q.step = "create"
    /\ tokens[t] = NoRow
    /\ employees[q.employee].status # "ABSENT"
    /\ tokens' = [tokens EXCEPT ![t] = IssuedRow(q)]
    /\ \E a \in {"OK", "INTERNAL_ERROR"} : Answer(r, a)
    /\ UNCHANGED <<now, employees, touches>>

-----------------------------------------------------------------------------
(* Protected routes: middleware Auth, then the handler. *)

\* The session of token t is stored, not revoked and not expired.
Open(t) == Stored(tokens[t]) /\ IsActiveToken(tokens[t], now)

\* A request for the logout route or another one arrives with a token given
\* out earlier.  late remembers that the session was over when it came.
Present(r, t, logout) ==
    /\ requests[r].step = "idle"
    /\ tokens[t] # NoRow
    /\ Continue(r, [step |-> "find", token |-> t, logout |-> logout, late |-> ~Open(t)])
    /\ UNCHANGED <<now, employees, tokens, touches>>

\* FindActiveByHash: token row and current status of its owner, one query.
AuthFind(r) ==
    LET q == requests[r]
        row == tokens[q.token]
    IN
    /\ q.step = "find"
    /\ IF Stored(row)
       THEN Continue(r, [step |-> "judge", token |-> q.token, logout |-> q.logout,
                         late |-> q.late, row |-> row,
                         status |-> employees[row.employee].status])
       ELSE Answer(r, "UNAUTHORIZED")
    /\ UNCHANGED <<now, employees, tokens, touches>>

\* Variant of Verdict: only the revocation is checked, not the expiry.
VerdictUnexpired(row, status, t) ==
    CASE row.revoked # Null -> "TOKEN_REVOKED"
      [] row.revoked = Null /\ status # "ENABLED" -> "EMPLOYEE_DISABLED"
      [] OTHER -> "OK"

\* The order of the checks in Authenticate, on the row read earlier.
Verdict(row, status, t) ==
    CASE row.revoked # Null        -> "TOKEN_REVOKED"
      [] row.revoked = Null /\ ~IsActiveToken(row, t) -> "TOKEN_EXPIRED"
      [] IsActiveToken(row, t) /\ status # "ENABLED"  -> "EMPLOYEE_DISABLED"
      [] OTHER                     -> "OK"

\* The checks of Authenticate on what AuthFind read, against the clock of
\* this moment; success starts the goroutine that records the use.
AuthJudge(r) ==
    LET q == requests[r]
        verdict == Verdict(q.row, q.status, now)
    IN
    /\ q.step = "judge"
    /\ \/ /\ verdict = "OK"
          /\ Continue(r, [step |-> "serve", token |-> q.token, logout |-> q.logout,
                          late |-> q.late])
          /\ touches' = touches \cup {[token |-> q.token, at |-> now]}
       \/ /\ verdict # "OK"
          /\ Answer(r, verdict)
          /\ UNCHANGED touches
    /\ UNCHANGED <<now, employees, tokens>>

\* A protected handler other than logout runs to its end.
Handle(r) ==
    /\ requests[r].step = "serve"
    /\ ~requests[r].logout
    /\ Answer(r, "OK")
    /\ UNCHANGED <<now, employees, tokens, touches>>

\* Variant of Revoked: without the condition revoked_at IS NULL.
RevokedAgain(row, why, t) ==
    IF Stored(row) THEN [row EXCEPT !.revoked = t, !.reason = why] ELSE row

\* SET revoked_at, revoked_reason ... WHERE revoked_at IS NULL
Revoked(row, why, t) ==
    IF Stored(row) /\ row.revoked = Null
    THEN [row EXCEPT !.revoked = t, !.reason = why]
    ELSE row

\* POST /api/auth/logout: revoke by the id in the Principal, then answer.
Logout(r) ==
    LET t == requests[r].token IN
    /\ requests[r].step = "serve"
    /\ requests[r].logout
    /\ tokens' = [tokens EXCEPT ![t] = Revoked(@, "user logout", now)]
    /\ Answer(r, "OK")
    /\ UNCHANGED <<now, employees, touches>>

\* A statement fails (no connection, cancelled request), or bcrypt on the stored
\* hash, for another reason than the password: 500, no effect.
DatabaseError(r) ==
    /\ \/ requests[r].step \in {"idle", "verify", "create", "find"}
       \/ requests[r].step = "serve" /\ requests[r].logout
    /\ Answer(r, "INTERNAL_ERROR")
    /\ UNCHANGED <<now, employees, tokens, touches>>

-----------------------------------------------------------------------------
(* touchLastUsedAsync *)

\* Variant of Touch: the time of the UPDATE, not the one AuthJudge captured.
TouchNow(u) ==
    /\ u \in touches
    /\ touches' = touches \ {u}
    /\ tokens' = IF Stored(tokens[u.token])
                 THEN [tokens EXCEPT ![u.token].lastUsed = now] ELSE tokens
    /\ UNCHANGED <<now, employees, requests>>

\* UPDATE auth_tokens SET last_used_at: the time captured by AuthJudge, on
\* whatever the row has become; a deleted row is not updated.
Touch(u) ==
    /\ u \in touches
    /\ touches' = touches \ {u}
    /\ tokens' = IF Stored(tokens[u.token])
                 THEN [tokens EXCEPT ![u.token].lastUsed = u.at] ELSE tokens
    /\ UNCHANGED <<now, employees, requests>>

\* Timeout, database error or process exit: the use is not recorded.
TouchLost(u) ==
    /\ u \in touches
    /\ touches' = touches \ {u}
    /\ UNCHANGED <<now, employees, tokens, requests>>

-----------------------------------------------------------------------------
(* The administrator's statements on employees, with their triggers. *)

TokensOf(e) == {t \in Tokens : Stored(tokens[t]) /\ tokens[t].employee = e}

\* UPDATE ... SET status = 'DISABLED' with sync_deleted_at_employees and
\* revoke_tokens_on_employee_disable.
AdminDisable(e) ==
    /\ employees[e].status = "ENABLED"
    /\ employees' = [employees EXCEPT ![e] = [status |-> "DISABLED", deleted |-> TRUE]]
    /\ tokens' = [t \in Tokens |->
                    IF t \in TokensOf(e) THEN Revoked(tokens[t], "employee disabled", now)
                                         ELSE tokens[t]]
    /\ UNCHANGED <<now, requests, touches>>

\* Variant of AdminEnable: enabling also lifts the revocations of disabling.
AdminEnableRestoring(e) ==
    /\ employees[e].status = "DISABLED"
    /\ employees' = [employees EXCEPT ![e] = [status |-> "ENABLED", deleted |-> FALSE]]
    /\ tokens' = [t \in Tokens |->
                    IF t \in TokensOf(e) /\ tokens[t].reason = "employee disabled"
                    THEN [tokens[t] EXCEPT !.revoked = Null, !.reason = "none"]
                    ELSE tokens[t]]
    /\ UNCHANGED <<now, requests, touches>>

\* UPDATE ... SET status = 'ENABLED': the trigger clears deleted_at.
AdminEnable(e) ==
    /\ employees[e].status = "DISABLED"
    /\ employees' = [employees EXCEPT ![e] = [status |-> "ENABLED", deleted |-> FALSE]]
    /\ UNCHANGED <<now, tokens, requests, touches>>

\* DELETE FROM employees: ON DELETE CASCADE removes the tokens.
AdminDelete(e) ==
    /\ employees[e].status # "ABSENT"
    /\ employees' = [employees EXCEPT ![e] = [status |-> "ABSENT", deleted |-> FALSE]]
    /\ tokens' = [t \in Tokens |->
                    IF t \in TokensOf(e) THEN GoneRow ELSE tokens[t]]
    /\ UNCHANGED <<now, requests, touches>>

Tick ==
    /\ now < MaxTime
    /\ now' = now + 1
    /\ UNCHANGED <<employees, tokens, requests, touches>>

-----------------------------------------------------------------------------

LoginStep(r) ==
    \/ \E e \in Employees : LoginFind(r, e)
    \/ \E matches \in BOOLEAN : LoginVerify(r, matches)
    \/ \E t \in Tokens : LoginCreate(r, t)

ProtectedStep(r) == AuthFind(r) \/ AuthJudge(r) \/ Handle(r) \/ Logout(r)

Arrive(r) == \E t \in Tokens, logout \in BOOLEAN : Present(r, t, logout)

Admin(e) == AdminDisable(e) \/ AdminEnable(e) \/ AdminDelete(e)

Background(u) == Touch(u) \/ TouchLost(u)

Next ==
    \/ \E r \in Requests : LoginStep(r) \/ Arrive(r) \/ ProtectedStep(r) \/ DatabaseError(r)
    \/ \E u \in touches : Background(u)
    \/ \E e \in Employees : Admin(e)
    \/ Tick

Spec == Init /\ [][Next]_vars

-----------------------------------------------------------------------------
(* Properties *)

\* A request that came after its session was over (revoked by logout or by
\* disabling the employee, expired, or deleted with the employee) is never
\* handed to a protected handler, whatever happens between its arrival, the
\* read of the row and the checks of Authenticate.
LateRequestNotServed ==
    \A r \in Requests : requests[r].step = "serve" => ~requests[r].late

\* The session of each token and the place of each request, as Sessions sees them.
Phase == [t \in Tokens |->
    CASE tokens[t] = NoRow -> "unused"
      [] Open(t)           -> "open"
      [] OTHER             -> "closed"]
Where(q) ==
    CASE q.step \in {"idle", "verify", "create"}    -> "out"
      [] q.step \in {"find", "judge"} /\ ~q.late    -> "early"
      [] q.step \in {"find", "judge"} /\ q.late     -> "late"
      [] q.step = "serve"                          -> "in"
Visit == [r \in Requests |-> Where(requests[r])]

Contract == INSTANCE Sessions WITH phase <- Phase, visit <- Visit

\* The service implements the contract of Sessions: one life per session, and
\* admission only for requests that came while it lasted.
ImplementsSessions == Contract!Spec

\* The dates of a stored token are consistent although three uncoordinated
\* writers set them: the goroutine that records the use (possibly long after
\* the token expired), logout and the trigger.
AuditTrail ==
    \A t \in Tokens : LET row == tokens[t] IN Stored(row) =>
        /\ row.lastUsed # Null => row.issued <= row.lastUsed /\ row.lastUsed < row.expires
        /\ row.revoked # Null => row.issued <= row.revoked /\ row.revoked <= now
        /\ row.revoked # Null <=> row.reason # "none"

\* A revoked token keeps the date and the reason of its first revocation as
\* long as its row exists: neither a second logout, nor disabling the
\* employee afterwards, nor enabling him again changes them.
RevocationIsFinal ==
    [][\A t \in Tokens :
         Stored(tokens[t]) /\ tokens[t].revoked # Null =>
            \/ ~Stored(tokens'[t])
            \/ /\ tokens'[t].revoked = tokens[t].revoked
               /\ tokens'[t].reason = tokens[t].reason]_vars

\* "DISABLED accounts must not log in" (auth_service.go): no token is stored
\* for an employee who is disabled at that moment.  Login checks a status it
\* read before the password hash was compared.
NoLoginWhileDisabled ==
    [][\A t \in Tokens :
         tokens[t] = NoRow /\ tokens'[t] # NoRow =>
            employees[tokens'[t].employee].status = "ENABLED"]_vars
=============================================================================
