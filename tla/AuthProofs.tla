----------------------------- MODULE AuthProofs -----------------------------
(***************************************************************************)
(* Auth for any employees, tokens, requests, token lifetime and clock:     *)
(* type correctness, the invariants, finality of revocation, and the       *)
(* refinement of Sessions.                                                 *)
(***************************************************************************)
EXTENDS Auth, TLAPS

Local == Idle \cup Verify \cup Create \cup Find \cup Judge \cup Serve
Row == TokenRow \cup {NoRow, GoneRow}

USE TTLAssumption, TimeAssumption

LEMMA StoredRow ==
    ASSUME NEW row \in Row
    PROVE  Stored(row) <=> row \in TokenRow
BY DEF Stored, Row, TokenRow, NoRow, GoneRow

LEMMA RevokedType ==
    ASSUME NEW row \in Row, NEW why \in Reasons, NEW t \in Nat
    PROVE  Revoked(row, why, t) \in Row
BY StoredRow DEF Revoked, Row, TokenRow

\* A request that moves on leaves the others where they are.
LEMMA ContinueType ==
    ASSUME requests \in [Requests -> Local], NEW r \in Requests, NEW q \in Local,
           Continue(r, q)
    PROVE  /\ requests' \in [Requests -> Local]
           /\ requests'[r] = q
           /\ \A s \in Requests : s # r => requests'[s] = requests[s]
BY DEF Continue

LEMMA AnswerType ==
    ASSUME requests \in [Requests -> Local], NEW r \in Requests, NEW a \in Answers,
           Answer(r, a)
    PROVE  /\ requests' \in [Requests -> Local]
           /\ requests'[r].step = "idle"
           /\ \A s \in Requests : s # r => requests'[s] = requests[s]
<1>1. [step |-> "idle", answer |-> a] \in Local
  BY DEF Local, Idle
<1>. QED  BY <1>1, ContinueType DEF Answer

\* The step of a request tells which variables it holds.
LEMMA LocalShape ==
    ASSUME NEW q \in Local
    PROVE  /\ q.step = "verify" => q \in Verify
           /\ q.step = "create" => q \in Create
           /\ q.step = "find" => q \in Find
           /\ q.step = "judge" => q \in Judge
           /\ q.step = "serve" => q \in Serve
BY DEF Local, Idle, Verify, Create, Find, Judge, Serve

-----------------------------------------------------------------------------
(* Type correctness. *)

\* Every step keeps every variable in its type.
LEMMA TypeStep == TypeOK /\ [Next]_vars => TypeOK'
<1> SUFFICES ASSUME TypeOK, [Next]_vars
             PROVE  TypeOK'
  OBVIOUS
<1> USE DEF TypeOK, Local, Row
<1>1. ASSUME NEW r \in Requests, NEW e \in Employees, LoginFind(r, e)
      PROVE  TypeOK'
  <2>1. CASE employees[e].status = "ABSENT"
    BY <1>1, <2>1, AnswerType DEF LoginFind, Answers
  <2>2. CASE employees[e].status # "ABSENT"
    <3>1. [step |-> "verify", employee |-> e, read |-> employees[e]] \in Verify
      BY DEF Verify
    <3>. QED  BY <1>1, <2>2, <3>1, ContinueType DEF LoginFind
  <2>. QED  BY <2>1, <2>2
<1>2. ASSUME NEW r \in Requests, NEW m \in BOOLEAN, LoginVerify(r, m)
      PROVE  TypeOK'
  <2>1. requests[r] \in Verify
    BY <1>2, LocalShape DEF LoginVerify
  <2>2. [step |-> "create", employee |-> requests[r].employee, at |-> now] \in Create
    BY <2>1 DEF Verify, Create
  <2>. QED  BY <1>2, <2>2, AnswerType, ContinueType DEF LoginVerify, Answers
<1>3. ASSUME NEW r \in Requests, NEW t \in Tokens, LoginCreate(r, t)
      PROVE  TypeOK'
  <2>1. requests[r] \in Create
    BY <1>3, LocalShape DEF LoginCreate
  <2>2. IssuedRow(requests[r]) \in TokenRow
    <3>1. /\ requests[r].employee \in Employees
          /\ requests[r].at \in Nat
          /\ requests[r].at + TokenTTL \in Nat
      BY <2>1 DEF Create
    <3>. QED  BY <3>1 DEF IssuedRow, TokenRow, Reasons
  <2>. QED  BY <1>3, <2>2, AnswerType DEF LoginCreate, Answers
<1>4. ASSUME NEW r \in Requests, NEW t \in Tokens, NEW l \in BOOLEAN, Present(r, t, l)
      PROVE  TypeOK'
  <2>1. [step |-> "find", token |-> t, logout |-> l, late |-> ~Open(t)] \in Find
    BY DEF Find
  <2>. QED  BY <1>4, <2>1, ContinueType DEF Present
<1>5. ASSUME NEW r \in Requests, AuthFind(r)
      PROVE  TypeOK'
  <2> DEFINE q == requests[r]
             row == tokens[q.token]
             j == [step |-> "judge", token |-> q.token, logout |-> q.logout,
                   late |-> q.late, row |-> row, status |-> employees[row.employee].status]
  <2>1. q \in Find
    BY <1>5, LocalShape DEF AuthFind
  <2>2. CASE Stored(row)
    <3>1. row \in TokenRow
      BY <2>1, <2>2, StoredRow DEF Find
    <3>2. employees[row.employee].status \in Statuses
      BY <3>1 DEF TokenRow, EmployeeRow
    <3>3. j \in Judge
      BY <2>1, <3>1, <3>2 DEF Find, Judge
    <3>4. Continue(r, j)
      BY <1>5, <2>2 DEF AuthFind
    <3>. QED  BY <1>5, <3>3, <3>4, ContinueType DEF AuthFind
  <2>3. CASE ~Stored(row)
    BY <1>5, <2>3, AnswerType DEF AuthFind, Answers
  <2>. QED  BY <2>2, <2>3
<1>6. ASSUME NEW r \in Requests, AuthJudge(r)
      PROVE  TypeOK'
  <2>1. requests[r] \in Judge
    BY <1>6, LocalShape DEF AuthJudge
  <2> DEFINE q == requests[r]
             s == [step |-> "serve", token |-> q.token, logout |-> q.logout, late |-> q.late]
             verdict == Verdict(q.row, q.status, now)
  <2>2. s \in Serve /\ q.token \in Tokens
    BY <2>1 DEF Serve, Judge
  <2>3. verdict \in Answers
    BY DEF Verdict, Answers
  <2>4. \/ /\ Continue(r, s)
           /\ touches' = touches \cup {[token |-> q.token, at |-> now]}
        \/ /\ Answer(r, verdict)
           /\ touches' = touches
    BY <1>6 DEF AuthJudge
  <2>. QED  BY <1>6, <2>2, <2>3, <2>4, AnswerType, ContinueType DEF AuthJudge
<1>7. ASSUME NEW r \in Requests, Handle(r)
      PROVE  TypeOK'
  BY <1>7, AnswerType DEF Handle, Answers
<1>8. ASSUME NEW r \in Requests, Logout(r)
      PROVE  TypeOK'
  <2>1. requests[r].token \in Tokens
    BY <1>8, LocalShape DEF Logout, Serve
  <2>2. Revoked(tokens[requests[r].token], "user logout", now) \in Row
    BY <2>1, RevokedType DEF Reasons
  <2>. QED  BY <1>8, <2>2, AnswerType DEF Logout, Answers
<1>9. ASSUME NEW r \in Requests, DatabaseError(r)
      PROVE  TypeOK'
  BY <1>9, AnswerType DEF DatabaseError, Answers
<1>10. ASSUME NEW u \in touches, Touch(u) \/ TouchLost(u)
       PROVE  TypeOK'
  <2>1. u.token \in Tokens /\ u.at \in Nat
    OBVIOUS
  <2>2. ASSUME Stored(tokens[u.token])
        PROVE  [tokens[u.token] EXCEPT !.lastUsed = u.at] \in TokenRow
    <3>1. tokens[u.token] \in TokenRow
      BY <2>1, <2>2, StoredRow
    <3>. QED  BY <2>1, <3>1 DEF TokenRow
  <2>. QED  BY <1>10, <2>1, <2>2 DEF Touch, TouchLost
<1>11. ASSUME NEW e \in Employees, AdminDisable(e)
       PROVE  TypeOK'
  <2>1. \A t \in Tokens : Revoked(tokens[t], "employee disabled", now) \in Row
    BY RevokedType DEF Reasons
  <2>. QED  BY <1>11, <2>1 DEF AdminDisable, EmployeeRow, Statuses
<1>12. ASSUME NEW e \in Employees, AdminEnable(e) \/ AdminDelete(e)
       PROVE  TypeOK'
  <2>1. CASE AdminEnable(e)
    BY <2>1 DEF AdminEnable, EmployeeRow, Statuses
  <2>2. CASE AdminDelete(e)
    BY <2>2 DEF AdminDelete, EmployeeRow, Statuses
  <2>. QED  BY <1>12, <2>1, <2>2
<1>13. CASE Tick
  BY <1>13 DEF Tick
<1>14. CASE UNCHANGED vars
  BY <1>14 DEF vars
<1>. QED
  BY <1>1, <1>2, <1>3, <1>4, <1>5, <1>6, <1>7, <1>8, <1>9, <1>10, <1>11, <1>12, <1>13, <1>14
  DEF Next, LoginStep, ProtectedStep, Arrive, Admin, Background

\* Type correctness of the session service (auth_service.go and the tables
\* employees and auth_tokens), for any number of concurrent requests.
THEOREM TypeCorrect == Spec => []TypeOK
<1>1. Init => TypeOK
  <2>1. [step |-> "idle", answer |-> "none"] \in Idle
    BY DEF Idle, Answers
  <2>2. [status : {"ENABLED", "DISABLED"}, deleted : {FALSE}] \subseteq EmployeeRow
    BY DEF EmployeeRow, Statuses
  <2> SUFFICES ASSUME Init PROVE TypeOK
    OBVIOUS
  <2>3. employees \in [Employees -> EmployeeRow]
    BY <2>2 DEF Init
  <2>4. requests \in [Requests -> Idle]
    BY <2>1 DEF Init
  <2>. QED  BY <2>3, <2>4 DEF Init, TypeOK
<1>. QED  BY <1>1, TypeStep, PTL DEF Spec

-----------------------------------------------------------------------------
(* How one row of auth_tokens may change in one step. *)

\* The row is inserted by a request that has passed the checks of Login.
Inserted(t) ==
    /\ tokens[t] = NoRow
    /\ \E r \in Requests : requests[r] \in Create /\ tokens'[t] = IssuedRow(requests[r])

\* Dates of issue and expiry stay; the use or the revocation is recorded.
Updated(t) ==
    /\ tokens[t] \in TokenRow /\ tokens'[t] \in TokenRow
    /\ tokens'[t].issued = tokens[t].issued
    /\ tokens'[t].expires = tokens[t].expires
    /\ \/ /\ tokens'[t].revoked = tokens[t].revoked
          /\ tokens'[t].reason = tokens[t].reason
          /\ [token |-> t, at |-> tokens'[t].lastUsed] \in touches
       \/ /\ tokens[t].revoked = Null /\ tokens'[t].revoked = now
          /\ tokens'[t].reason \in Reasons \ {"none"}
          /\ tokens'[t].lastUsed = tokens[t].lastUsed

Removed(t) == tokens[t] \in TokenRow /\ tokens'[t] = GoneRow

LEMMA RevokedRow ==
    ASSUME TypeOK, NEW t \in Tokens, NEW why \in Reasons \ {"none"},
           tokens'[t] = Revoked(tokens[t], why, now)
    PROVE  tokens'[t] = tokens[t] \/ Updated(t)
<1>1. CASE Stored(tokens[t]) /\ tokens[t].revoked = Null
  <2>1. tokens[t] \in TokenRow
    BY <1>1, StoredRow DEF TypeOK, Row
  <2>2. tokens'[t] = [tokens[t] EXCEPT !.revoked = now, !.reason = why]
    BY <1>1 DEF Revoked
  <2>. QED  BY <1>1, <2>1, <2>2 DEF Updated, TokenRow, TypeOK
<1>2. CASE ~(Stored(tokens[t]) /\ tokens[t].revoked = Null)
  BY <1>2 DEF Revoked
<1>. QED  BY <1>1, <1>2

\* Every step changes each token row in one of three ways or not at all.
LEMMA RowStep ==
    ASSUME TypeOK, [Next]_vars, NEW t \in Tokens
    PROVE  tokens'[t] = tokens[t] \/ Inserted(t) \/ Updated(t) \/ Removed(t)
<1>1. ASSUME NEW r \in Requests, NEW u \in Tokens, LoginCreate(r, u)
      PROVE  tokens'[t] = tokens[t] \/ Inserted(t)
  <2>1. requests[r] \in Create
    BY <1>1, LocalShape DEF LoginCreate, TypeOK, Local
  <2>. QED  BY <1>1, <2>1 DEF LoginCreate, Inserted, TypeOK
<1>2. ASSUME NEW r \in Requests, Logout(r)
      PROVE  tokens'[t] = tokens[t] \/ Updated(t)
  <2>1. requests[r].token \in Tokens
    BY <1>2, LocalShape DEF Logout, Serve, TypeOK, Local
  <2>2. tokens'[t] = tokens[t] \/ tokens'[t] = Revoked(tokens[t], "user logout", now)
    BY <1>2, <2>1 DEF Logout, TypeOK
  <2>. QED  BY <2>2, RevokedRow DEF Reasons
<1>3. ASSUME NEW e \in Employees, AdminDisable(e)
      PROVE  tokens'[t] = tokens[t] \/ Updated(t)
  <2>1. tokens'[t] = tokens[t] \/ tokens'[t] = Revoked(tokens[t], "employee disabled", now)
    BY <1>3 DEF AdminDisable
  <2>. QED  BY <2>1, RevokedRow DEF Reasons
<1>4. ASSUME NEW e \in Employees, AdminDelete(e)
      PROVE  tokens'[t] = tokens[t] \/ Removed(t)
  <2>1. t \in TokensOf(e) => tokens[t] \in TokenRow
    BY StoredRow DEF TokensOf, TypeOK, Row
  <2>. QED  BY <1>4, <2>1 DEF AdminDelete, Removed
<1>5. ASSUME NEW u \in touches, Touch(u)
      PROVE  tokens'[t] = tokens[t] \/ Updated(t)
  <2>1. CASE u.token = t /\ Stored(tokens[t])
    <3>1. tokens[t] \in TokenRow
      BY <2>1, StoredRow DEF TypeOK, Row
    <3>2. u.at \in Nat /\ u = [token |-> t, at |-> u.at]
      BY <2>1 DEF TypeOK
    <3>3. tokens'[t] = [tokens[t] EXCEPT !.lastUsed = u.at]
      BY <1>5, <2>1 DEF Touch, TypeOK
    <3>4. [tokens[t] EXCEPT !.lastUsed = u.at] \in TokenRow
      BY <3>1, <3>2 DEF TokenRow
    <3>5. tokens'[t].lastUsed = u.at
      BY <3>1, <3>3 DEF TokenRow
    <3>6. [token |-> t, at |-> tokens'[t].lastUsed] \in touches
      BY <3>2, <3>5
    <3>7. /\ tokens'[t].issued = tokens[t].issued
          /\ tokens'[t].expires = tokens[t].expires
          /\ tokens'[t].revoked = tokens[t].revoked
          /\ tokens'[t].reason = tokens[t].reason
      BY <3>1, <3>3 DEF TokenRow
    <3>. QED  BY <3>1, <3>3, <3>4, <3>6, <3>7 DEF Updated
  <2>2. CASE ~(u.token = t /\ Stored(tokens[t]))
    BY <1>5, <2>2 DEF Touch, TypeOK
  <2>. QED  BY <2>1, <2>2
<1>6. CASE UNCHANGED tokens
  BY <1>6
<1>. QED
  BY <1>1, <1>2, <1>3, <1>4, <1>5, <1>6
  DEF Next, LoginStep, ProtectedStep, Arrive, Admin, Background, vars, LoginFind, LoginVerify,
      Present, AuthFind, AuthJudge, Handle, DatabaseError, TouchLost, AdminEnable, Tick

\* The clock does not run backwards.
LEMMA ClockStep ==
    ASSUME TypeOK, [Next]_vars
    PROVE  now \in Nat /\ now' \in Nat /\ now <= now'
<1>1. Tick \/ now' = now
  BY DEF Next, LoginStep, ProtectedStep, Arrive, Admin, Background, vars, LoginFind,
         LoginVerify, LoginCreate, Present, AuthFind, AuthJudge, Handle, Logout,
         DatabaseError, Touch, TouchLost, AdminDisable, AdminEnable, AdminDelete
<1>2. now \in Nat
  BY DEF TypeOK
<1>. QED  BY <1>1, <1>2 DEF Tick

\* A token given out stays given out, and a session that is over stays over.
LEMMA SessionStep ==
    ASSUME TypeOK, [Next]_vars, NEW t \in Tokens, tokens[t] # NoRow
    PROVE  tokens'[t] # NoRow /\ (~Open(t) => ~Open(t)')
<1>1. CASE Updated(t)
  <2>1. tokens'[t] # NoRow
    <3>1. tokens'[t].row = "stored"
      BY <1>1 DEF Updated, TokenRow
    <3>. QED  BY <3>1 DEF NoRow
  <2>2. /\ Stored(tokens[t])
        /\ tokens[t].expires \in Nat /\ tokens'[t].expires = tokens[t].expires
        /\ tokens[t].revoked # Null => tokens'[t].revoked = tokens[t].revoked
    BY <1>1 DEF Updated, TokenRow, Stored
  <2>. QED  BY <2>1, <2>2, ClockStep DEF Open, IsActiveToken, Stored
<1>2. CASE Removed(t)
  BY <1>2 DEF Removed, Open, Stored, GoneRow, NoRow
<1>3. CASE tokens'[t] = tokens[t]
  <2>1. Stored(tokens[t]) => tokens[t].expires \in Nat
    BY StoredRow DEF TypeOK, Row, TokenRow
  <2>. QED  BY <1>3, <2>1, ClockStep DEF Open, IsActiveToken, Stored
<1>. QED  BY <1>1, <1>2, <1>3, RowStep DEF Inserted

\* A revocation is never overwritten or lifted: Revoke and the trigger both
\* update only rows with revoked_at IS NULL.
THEOREM Finality == Spec => RevocationIsFinal
<1>1. ASSUME TypeOK, [Next]_vars, NEW t \in Tokens,
             Stored(tokens[t]), tokens[t].revoked # Null, Stored(tokens'[t])
      PROVE  tokens'[t].revoked = tokens[t].revoked /\ tokens'[t].reason = tokens[t].reason
  <2>1. tokens[t] # NoRow /\ tokens'[t] # GoneRow
    BY <1>1 DEF Stored, NoRow, GoneRow
  <2>2. tokens'[t] = tokens[t] \/ Updated(t)
    BY <1>1, <2>1, RowStep DEF Inserted, Removed
  <2>. QED  BY <1>1, <2>2 DEF Updated
<1>2. TypeOK /\ [Next]_vars =>
        [\A t \in Tokens :
            Stored(tokens[t]) /\ tokens[t].revoked # Null =>
               \/ ~Stored(tokens'[t])
               \/ /\ tokens'[t].revoked = tokens[t].revoked
                  /\ tokens'[t].reason = tokens[t].reason]_vars
  BY <1>1
<1>. QED  BY <1>2, TypeCorrect, PTL DEF Spec, RevocationIsFinal

-----------------------------------------------------------------------------
(* Admission: LateRequestNotServed and the refinement of Sessions. *)

\* A request under way presented a token that had been given out.
Known(r) ==
    requests[r].step \in {"find", "judge", "serve"} => tokens[requests[r].token] # NoRow

\* What makes Authenticate refuse a late request: until the row is read the
\* session stays over; once it is read the copy itself shows that it is over,
\* and time only makes it more so.
Refused(r) ==
    LET q == requests[r] IN
    /\ q.step = "find" /\ q.late => ~Open(q.token)
    /\ q.step = "judge" /\ q.late => ~IsActiveToken(q.row, now)
    /\ q.step = "serve" => ~q.late

AdmissionInv == \A r \in Requests : Known(r) /\ Refused(r)

\* A request whose local variables a step does not touch keeps both facts.
LEMMA OtherRequest ==
    ASSUME TypeOK, [Next]_vars, NEW r \in Requests, Known(r) /\ Refused(r),
           requests'[r] = requests[r]
    PROVE  Known(r)' /\ Refused(r)'
<1> DEFINE q == requests[r]
<1>1. q \in Local
  BY DEF TypeOK, Local
<1>2. q.step \in {"find", "judge", "serve"} => q.token \in Tokens
  BY <1>1, LocalShape DEF Find, Judge, Serve
<1>3. Known(r)'
  BY <1>2, SessionStep DEF Known
<1>4. q.step = "find" /\ q.late => ~Open(q.token)'
  BY <1>2, SessionStep DEF Known, Refused
<1>5. ASSUME q.step = "judge", q.late
      PROVE  ~IsActiveToken(q.row, now')
  <2>1. q.row.expires \in Nat
    BY <1>1, <1>5, LocalShape DEF Judge, TokenRow
  <2>. QED  BY <1>5, <2>1, ClockStep DEF Refused, IsActiveToken
<1>. QED  BY <1>3, <1>4, <1>5 DEF Refused

LEMMA AdmissionStep == TypeOK /\ AdmissionInv /\ [Next]_vars => AdmissionInv'
<1> SUFFICES ASSUME TypeOK, AdmissionInv, [Next]_vars, NEW s \in Requests
             PROVE  Known(s)' /\ Refused(s)'
  BY DEF AdmissionInv
<1>1. CASE requests'[s] = requests[s]
  BY <1>1, OtherRequest DEF AdmissionInv
<1>2. CASE requests'[s].step \in {"idle", "verify", "create"}
  BY <1>2 DEF Known, Refused
<1>3. ASSUME NEW t \in Tokens, NEW l \in BOOLEAN, Present(s, t, l)
      PROVE  Known(s)' /\ Refused(s)'
  <2>1. requests'[s] = [step |-> "find", token |-> t, logout |-> l, late |-> ~Open(t)]
    BY <1>3 DEF Present, Continue, TypeOK
  <2>2. /\ requests'[s].step = "find" /\ requests'[s].token = t
        /\ requests'[s].late = ~Open(t)
    BY <2>1
  <2>3. tokens'[t] # NoRow /\ (~Open(t) => ~Open(t)')
    BY <1>3, SessionStep DEF Present
  <2>. QED  BY <2>2, <2>3 DEF Known, Refused
<1>4. CASE AuthFind(s)
  <2> DEFINE q == requests[s]
             row == tokens[q.token]
  <2>1. q \in Find
    BY <1>4, LocalShape DEF AuthFind, TypeOK, Local
  <2>2. CASE Stored(row)
    <3>1. requests'[s] = [step |-> "judge", token |-> q.token, logout |-> q.logout,
                          late |-> q.late, row |-> row,
                          status |-> employees[row.employee].status]
      BY <1>4, <2>2 DEF AuthFind, Continue, TypeOK
    <3>2. now' = now /\ tokens' = tokens
      BY <1>4 DEF AuthFind
    <3>3. q.step = "find"
      BY <2>1 DEF Find
    <3>4. Known(s)'
      BY <3>1, <3>2, <3>3 DEF AdmissionInv, Known
    <3>5. q.late => ~IsActiveToken(row, now)
      BY <2>2, <3>3 DEF AdmissionInv, Refused, Open
    <3>. QED  BY <3>1, <3>2, <3>4, <3>5 DEF Refused
  <2>3. CASE ~Stored(row)
    BY <1>2, <1>4, <2>3 DEF AuthFind, Answer, Continue, TypeOK
  <2>. QED  BY <2>2, <2>3
<1>5. CASE AuthJudge(s)
  <2> DEFINE q == requests[s]
  <2>1. q \in Judge
    BY <1>5, LocalShape DEF AuthJudge, TypeOK, Local
  <2>2. CASE Verdict(q.row, q.status, now) = "OK"
    <3>1. requests'[s] = [step |-> "serve", token |-> q.token, logout |-> q.logout,
                          late |-> q.late]
      BY <1>5, <2>2 DEF AuthJudge, Continue, TypeOK
    <3>2. q.step = "judge" /\ tokens' = tokens
      BY <1>5 DEF AuthJudge
    <3>3. IsActiveToken(q.row, now)
      BY <2>2 DEF Verdict, IsActiveToken
    <3>4. Known(s)'
      BY <3>1, <3>2 DEF AdmissionInv, Known
    <3>5. ~q.late
      BY <3>2, <3>3 DEF AdmissionInv, Refused
    <3>. QED  BY <3>1, <3>4, <3>5 DEF Refused
  <2>3. CASE Verdict(q.row, q.status, now) # "OK"
    BY <1>2, <1>5, <2>3 DEF AuthJudge, Answer, Continue, TypeOK
  <2>. QED  BY <2>2, <2>3
<1>6. ASSUME NEW r \in Requests, NEW e \in Employees, LoginFind(r, e)
      PROVE  requests'[s] = requests[s] \/ requests'[s].step \in {"idle", "verify", "create"}
  BY <1>6 DEF LoginFind, Answer, Continue, TypeOK
<1>7. ASSUME NEW r \in Requests, NEW m \in BOOLEAN, LoginVerify(r, m)
      PROVE  requests'[s] = requests[s] \/ requests'[s].step \in {"idle", "verify", "create"}
  BY <1>7 DEF LoginVerify, Answer, Continue, TypeOK
<1>8. ASSUME NEW r \in Requests,
             \/ \E t \in Tokens : LoginCreate(r, t)
             \/ Handle(r) \/ Logout(r) \/ DatabaseError(r)
      PROVE  requests'[s] = requests[s] \/ requests'[s].step \in {"idle", "verify", "create"}
  <2>1. \E a : Answer(r, a)
    BY <1>8, Zenon DEF LoginCreate, Handle, Logout, DatabaseError
  <2>. QED  BY <2>1 DEF Answer, Continue, TypeOK
<1>9. ASSUME NEW r \in Requests, s # r, Arrive(r) \/ AuthFind(r) \/ AuthJudge(r)
      PROVE  requests'[s] = requests[s]
  BY <1>9 DEF Arrive, Present, AuthFind, AuthJudge, Answer, Continue, TypeOK
<1>10. CASE \/ \E u \in touches : Background(u)
            \/ \E e \in Employees : Admin(e)
            \/ Tick
            \/ UNCHANGED vars
  BY <1>1, <1>10 DEF Background, Touch, TouchLost, Admin, AdminDisable, AdminEnable,
                     AdminDelete, Tick, vars
<1>. QED
  BY <1>1, <1>2, <1>3, <1>4, <1>5, <1>6, <1>7, <1>8, <1>9, <1>10
  DEF Next, LoginStep, ProtectedStep, Arrive

THEOREM Admission == Spec => []AdmissionInv
<1>1. Init => AdmissionInv
  BY DEF Init, AdmissionInv, Known, Refused
<1>. QED  BY <1>1, AdmissionStep, TypeCorrect, PTL DEF Spec

\* No request that came after its session was over reaches a protected handler.
THEOREM NoLateService == Spec => []LateRequestNotServed
<1>1. AdmissionInv => LateRequestNotServed
  BY DEF AdmissionInv, Refused, LateRequestNotServed
<1>. QED  BY <1>1, Admission, PTL

-----------------------------------------------------------------------------
(* The dates in auth_tokens. *)

\* Issue and expiry of a row are fixed by the insert, so the copy AuthFind
\* made still shows them when AuthJudge compares the clock with them.
SameLife(row, t) ==
    row.issued <= now /\ (Stored(tokens[t]) => /\ tokens[t].issued = row.issued
                                              /\ tokens[t].expires = row.expires)

\* A recorded or still unrecorded use falls into the life of its token.
InLife(t, at) ==
    /\ tokens[t] # NoRow
    /\ Stored(tokens[t]) => tokens[t].issued <= at /\ at < tokens[t].expires

RequestDates(r) ==
    LET q == requests[r] IN
    /\ q.step = "create" => q.at <= now
    /\ q.step = "judge" => SameLife(q.row, q.token)

RowDates(row, n) ==
    Stored(row) =>
        /\ row.issued <= n
        /\ row.lastUsed # Null => row.issued <= row.lastUsed /\ row.lastUsed < row.expires
        /\ row.revoked # Null => row.issued <= row.revoked /\ row.revoked <= n
        /\ row.revoked # Null <=> row.reason # "none"

DateInv ==
    /\ \A r \in Requests : RequestDates(r)
    /\ \A u \in touches : InLife(u.token, u.at)
    /\ \A t \in Tokens : RowDates(tokens[t], now)

\* The insert happens after the token was stamped, a use is recorded with a
\* time inside the life of the token, a revocation with the current time.
LEMMA RowDatesStep ==
    ASSUME TypeOK, DateInv, [Next]_vars, NEW t \in Tokens
    PROVE  RowDates(tokens'[t], now')
<1>0. now \in Nat /\ now' \in Nat /\ now <= now' /\ RowDates(tokens[t], now)
  BY ClockStep DEF DateInv
<1>1. CASE tokens'[t] = tokens[t]
  <2>1. CASE Stored(tokens[t])
    <3>1. tokens[t] \in TokenRow
      BY <2>1, StoredRow DEF TypeOK, Row
    <3>2. tokens[t].issued \in Nat /\ tokens[t].revoked \in Nat \cup {Null}
      BY <3>1 DEF TokenRow
    <3>. QED  BY <1>0, <1>1, <2>1, <3>2 DEF RowDates, Null
  <2>2. CASE ~Stored(tokens[t])
    BY <1>1, <2>2 DEF RowDates
  <2>. QED  BY <2>1, <2>2
<1>2. CASE Inserted(t)
  <2>1. PICK r \in Requests : requests[r] \in Create /\ tokens'[t] = IssuedRow(requests[r])
    BY <1>2 DEF Inserted
  <2>2. requests[r].at \in Nat /\ requests[r].at <= now
    BY <2>1 DEF Create, DateInv, RequestDates
  <2>. QED  BY <1>0, <2>1, <2>2 DEF IssuedRow, RowDates, Null
<1>3. CASE Updated(t)
  <2>1. /\ Stored(tokens[t])
        /\ tokens[t].issued \in Nat /\ tokens[t].expires \in Nat
        /\ tokens[t].revoked \in Nat \cup {Null}
    BY <1>3 DEF Updated, TokenRow, Stored
  <2>2. CASE /\ tokens'[t].revoked = tokens[t].revoked
             /\ tokens'[t].reason = tokens[t].reason
             /\ [token |-> t, at |-> tokens'[t].lastUsed] \in touches
    <3>1. InLife(t, tokens'[t].lastUsed)
      BY <2>2 DEF DateInv
    <3>. QED  BY <1>0, <1>3, <2>1, <2>2, <3>1 DEF InLife, RowDates, Updated, Null
  <2>3. CASE /\ tokens[t].revoked = Null /\ tokens'[t].revoked = now
             /\ tokens'[t].reason \in Reasons \ {"none"}
             /\ tokens'[t].lastUsed = tokens[t].lastUsed
    BY <1>0, <1>3, <2>1, <2>3 DEF RowDates, Updated, Null
  <2>. QED  BY <1>3, <2>2, <2>3 DEF Updated
<1>4. CASE Removed(t)
  BY <1>4 DEF Removed, RowDates, Stored, GoneRow
<1>. QED  BY <1>1, <1>2, <1>3, <1>4, RowStep

\* Rows that stay keep their dates, rows that go are no longer stored.
LEMMA KeepLife ==
    ASSUME TypeOK, [Next]_vars, NEW t \in Tokens, tokens[t] # NoRow
    PROVE  /\ tokens'[t] # NoRow
           /\ Stored(tokens'[t]) => /\ Stored(tokens[t])
                                    /\ tokens'[t].issued = tokens[t].issued
                                    /\ tokens'[t].expires = tokens[t].expires
<1>1. CASE Updated(t)
  BY <1>1, SessionStep DEF Updated, Stored, TokenRow
<1>2. CASE Removed(t)
  BY <1>2, SessionStep DEF Removed, Stored, GoneRow
<1>3. CASE tokens'[t] = tokens[t]
  BY <1>3
<1>. QED  BY <1>1, <1>2, <1>3, RowStep DEF Inserted

\* The requests: a stamp taken at login is not ahead of the clock, and a copy
\* of a row agrees with the row as long as that is stored.
LEMMA RequestDatesStep ==
    ASSUME TypeOK, AdmissionInv, DateInv, [Next]_vars, NEW s \in Requests
    PROVE  RequestDates(s)'
<1>0. now \in Nat /\ now' \in Nat /\ now <= now' /\ RequestDates(s)
  BY ClockStep DEF DateInv
<1>1. CASE requests'[s] = requests[s]
  <2> DEFINE q == requests[s]
  <2>1. q.step = "create" => q.at \in Nat
    BY LocalShape DEF TypeOK, Local, Create
  <2>2. q.step = "create" => q.at <= now'
    BY <1>0, <2>1 DEF RequestDates
  <2>3. ASSUME q.step = "judge"
        PROVE  SameLife(q.row, q.token)'
    <3>1. q.token \in Tokens /\ q.row.issued \in Nat
      BY <2>3, LocalShape DEF TypeOK, Local, Judge, TokenRow
    <3>2. tokens[q.token] # NoRow
      BY <2>3 DEF AdmissionInv, Known
    <3>3. SameLife(q.row, q.token)
      BY <1>0, <2>3 DEF RequestDates
    <3>4. /\ Stored(tokens'[q.token]) => /\ Stored(tokens[q.token])
                                         /\ tokens'[q.token].issued = tokens[q.token].issued
                                         /\ tokens'[q.token].expires = tokens[q.token].expires
      BY <3>1, <3>2, KeepLife
    <3>. QED  BY <1>0, <1>1, <3>1, <3>3, <3>4 DEF SameLife
  <2>. QED  BY <1>1, <2>2, <2>3 DEF RequestDates
<1>2. CASE requests'[s].step \notin {"create", "judge"}
  BY <1>2 DEF RequestDates
<1>3. ASSUME NEW m \in BOOLEAN, LoginVerify(s, m)
      PROVE  RequestDates(s)'
  <2>1. \/ requests'[s] = [step |-> "create", employee |-> requests[s].employee, at |-> now]
        \/ requests'[s].step = "idle"
    BY <1>3 DEF LoginVerify, Answer, Continue, TypeOK
  <2>2. now' = now
    BY <1>3 DEF LoginVerify
  <2>. QED  BY <1>0, <1>2, <2>1, <2>2 DEF RequestDates
<1>4. CASE AuthFind(s)
  <2> DEFINE q == requests[s]
             row == tokens[q.token]
  <2>1. q \in Find /\ q.token \in Tokens
    BY <1>4, LocalShape DEF AuthFind, TypeOK, Local, Find
  <2>2. CASE Stored(row)
    <3>1. requests'[s] = [step |-> "judge", token |-> q.token, logout |-> q.logout,
                          late |-> q.late, row |-> row,
                          status |-> employees[row.employee].status]
      BY <1>4, <2>2 DEF AuthFind, Continue, TypeOK
    <3>2. now' = now /\ tokens' = tokens
      BY <1>4 DEF AuthFind
    <3>3. row.issued <= now
      BY <2>1, <2>2 DEF DateInv, RowDates
    <3>4. requests'[s].step = "judge" /\ requests'[s].row = row /\ requests'[s].token = q.token
      BY <3>1
    <3>. QED  BY <3>2, <3>3, <3>4 DEF RequestDates, SameLife
  <2>3. CASE ~Stored(row)
    BY <1>2, <1>4, <2>3 DEF AuthFind, Answer, Continue, TypeOK
  <2>. QED  BY <2>2, <2>3
<1>5. ASSUME NEW r \in Requests,
             \/ \E t \in Tokens : LoginCreate(r, t)
             \/ Handle(r) \/ Logout(r) \/ DatabaseError(r)
      PROVE  requests'[s] = requests[s] \/ requests'[s].step = "idle"
  <2>1. \E a : Answer(r, a)
    BY <1>5, Zenon DEF LoginCreate, Handle, Logout, DatabaseError
  <2>. QED  BY <2>1 DEF Answer, Continue, TypeOK
<1>6. ASSUME NEW r \in Requests, NEW e \in Employees, LoginFind(r, e)
      PROVE  requests'[s] = requests[s] \/ requests'[s].step \in {"idle", "verify"}
  BY <1>6 DEF LoginFind, Answer, Continue, TypeOK
<1>7. ASSUME NEW r \in Requests, Arrive(r) \/ AuthJudge(r)
      PROVE  requests'[s] = requests[s] \/ requests'[s].step \in {"idle", "find", "serve"}
  BY <1>7 DEF Arrive, Present, AuthJudge, Answer, Continue, TypeOK
<1>8. ASSUME NEW r \in Requests, s # r, AuthFind(r) \/ \E m \in BOOLEAN : LoginVerify(r, m)
      PROVE  requests'[s] = requests[s]
  BY <1>8 DEF AuthFind, LoginVerify, Answer, Continue, TypeOK
<1>9. CASE \/ \E u \in touches : Background(u)
           \/ \E e \in Employees : Admin(e)
           \/ Tick
           \/ UNCHANGED vars
  BY <1>1, <1>9 DEF Background, Touch, TouchLost, Admin, AdminDisable, AdminEnable,
                    AdminDelete, Tick, vars
<1>. QED
  BY <1>1, <1>2, <1>3, <1>4, <1>5, <1>6, <1>7, <1>8, <1>9 DEF Next, LoginStep, ProtectedStep

\* The uses still to be recorded: AuthJudge adds one inside the life of the
\* row it read; a row that stays keeps its life.
LEMMA TouchDatesStep ==
    ASSUME TypeOK, AdmissionInv, DateInv, [Next]_vars, NEW u \in touches'
    PROVE  InLife(u.token, u.at)'
<1>1. CASE u \in touches
  <2>1. u.token \in Tokens /\ InLife(u.token, u.at)
    BY <1>1 DEF TypeOK, DateInv
  <2>. QED  BY <2>1, KeepLife DEF InLife
<1>2. ASSUME NEW r \in Requests, AuthJudge(r), u \notin touches
      PROVE  InLife(u.token, u.at)'
  <2> DEFINE q == requests[r]
  <2>1. q \in Judge /\ q.step = "judge"
    BY <1>2, LocalShape DEF AuthJudge, TypeOK, Local
  <2>2. /\ Verdict(q.row, q.status, now) = "OK"
        /\ u = [token |-> q.token, at |-> now]
        /\ tokens' = tokens
    BY <1>2 DEF AuthJudge
  <2>3. now < q.row.expires
    BY <2>2 DEF Verdict, IsActiveToken
  <2>4. SameLife(q.row, q.token) /\ tokens[q.token] # NoRow
    BY <2>1 DEF DateInv, RequestDates, AdmissionInv, Known
  <2>. QED  BY <2>2, <2>3, <2>4 DEF InLife, SameLife
<1>3. (\E r \in Requests : AuthJudge(r)) \/ touches' \subseteq touches
  BY DEF Next, LoginStep, ProtectedStep, Arrive, Admin, Background, vars, LoginFind,
         LoginVerify, LoginCreate, Present, AuthFind, Handle, Logout, DatabaseError,
         Touch, TouchLost, AdminDisable, AdminEnable, AdminDelete, Tick
<1>. QED  BY <1>1, <1>2, <1>3

THEOREM Dates == Spec => []DateInv
<1>1. Init => DateInv
  BY DEF Init, DateInv, RequestDates, RowDates, Stored, NoRow
<1>2. TypeOK /\ AdmissionInv /\ DateInv /\ [Next]_vars => DateInv'
  BY RowDatesStep, RequestDatesStep, TouchDatesStep DEF DateInv
<1>. QED  BY <1>1, <1>2, TypeCorrect, Admission, PTL DEF Spec

\* The audit columns of auth_tokens are consistent however late the use is
\* recorded and whoever revokes first.
THEOREM Audit == Spec => []AuditTrail
<1>1. DateInv => AuditTrail
  BY DEF DateInv, RowDates, AuditTrail
<1>. QED  BY <1>1, Dates, PTL

-----------------------------------------------------------------------------
(* The refinement of Sessions. *)

LEMMA PhaseValue ==
    ASSUME NEW t \in Tokens
    PROVE  /\ Phase[t] = IF tokens[t] = NoRow THEN "unused"
                         ELSE IF Open(t) THEN "open" ELSE "closed"
           /\ Phase'[t] = IF tokens'[t] = NoRow THEN "unused"
                          ELSE IF Open(t)' THEN "open" ELSE "closed"
BY DEF Phase, Open, Stored, NoRow

\* A step that inserts no token closes some open sessions, perhaps none.
LEMMA ClosingStep ==
    ASSUME TypeOK, [Next]_vars, \A t \in Tokens : tokens[t] = NoRow => tokens'[t] = NoRow
    PROVE  \E S \in SUBSET Tokens : Phase' = Contract!Closing(S)
<1> DEFINE S == {t \in Tokens : Phase[t] = "open" /\ Phase'[t] = "closed"}
<1>1. ASSUME NEW t \in Tokens
      PROVE  Phase'[t] = IF t \in S /\ Phase[t] = "open" THEN "closed" ELSE Phase[t]
  <2>1. CASE tokens[t] = NoRow
    BY <2>1, PhaseValue
  <2>2. CASE tokens[t] # NoRow
    BY <2>2, PhaseValue, SessionStep
  <2>. QED  BY <2>1, <2>2
<1>2. Phase' = [t \in Tokens |-> Phase'[t]]
  BY DEF Phase
<1>3. Phase' = Contract!Closing(S)
  BY <1>1, <1>2 DEF Contract!Closing
<1>. QED  BY <1>3

LEMMA VisitStep ==
    ASSUME TypeOK, NEW r \in Requests, NEW q, Continue(r, q)
    PROVE  /\ Visit[r] = Where(requests[r])
           /\ Visit' = [Visit EXCEPT ![r] = Where(q)]
           /\ Where(q) = Visit[r] => Visit' = Visit
BY DEF Visit, Continue, TypeOK

\* Every step of the service is a step of the contract or leaves it unchanged.
LEMMA Simulation ==
    TypeOK /\ AdmissionInv /\ [Next]_vars => [Contract!Next]_<<Phase, Visit>>
<1> SUFFICES ASSUME TypeOK, AdmissionInv, [Next]_vars
             PROVE  Contract!Next \/ (Phase' = Phase /\ Visit' = Visit)
  OBVIOUS
<1>1. ASSUME now' = now, tokens' = tokens
      PROVE  Phase' = Phase
  BY <1>1 DEF Phase, Open
<1>2. ASSUME NEW a
      PROVE  Where([step |-> "idle", answer |-> a]) = "out"
  BY DEF Where
<1>3. ASSUME NEW r \in Requests, NEW e \in Employees, LoginFind(r, e)
      PROVE  Phase' = Phase /\ Visit' = Visit
  <2>1. PICK q : Continue(r, q) /\ Where(q) = "out"
    BY <1>2, <1>3 DEF LoginFind, Answer, Where
  <2>2. Where(requests[r]) = "out"
    BY <1>3 DEF LoginFind, Where
  <2>. QED  BY <1>1, <1>3, <2>1, <2>2, VisitStep DEF LoginFind
<1>4. ASSUME NEW r \in Requests, NEW m \in BOOLEAN, LoginVerify(r, m)
      PROVE  Phase' = Phase /\ Visit' = Visit
  <2>1. PICK q : Continue(r, q) /\ Where(q) = "out"
    BY <1>2, <1>4 DEF LoginVerify, Answer, Where
  <2>2. Where(requests[r]) = "out"
    BY <1>4 DEF LoginVerify, Where
  <2>. QED  BY <1>1, <1>4, <2>1, <2>2, VisitStep DEF LoginVerify
<1>5. ASSUME NEW r \in Requests, NEW t \in Tokens, LoginCreate(r, t)
      PROVE  Contract!Begin(t)
  <2>1. PICK a : Answer(r, a)
    BY <1>5 DEF LoginCreate
  <2>2. Visit' = Visit
    <3>1. Where(requests[r]) = "out"
      BY <1>5 DEF LoginCreate, Where
    <3>. QED  BY <1>2, <2>1, <3>1, VisitStep DEF Answer
  <2>3. Phase[t] = "unused"
    BY <1>5, PhaseValue DEF LoginCreate
  <2>4. now' = now /\ tokens' = [tokens EXCEPT ![t] = IssuedRow(requests[r])]
    BY <1>5 DEF LoginCreate
  <2>5. tokens'[t] # NoRow
    <3>1. tokens'[t] = IssuedRow(requests[r])
      BY <2>4 DEF TypeOK
    <3>2. tokens'[t].row = "stored"
      BY <3>1 DEF IssuedRow
    <3>. QED  BY <3>2 DEF NoRow
  <2>6. ASSUME NEW u \in Tokens, u # t
        PROVE  Phase'[u] = Phase[u]
    <3>1. tokens'[u] = tokens[u]
      BY <2>4, <2>6 DEF TypeOK
    <3>. QED  BY <2>4, <3>1, PhaseValue DEF Open
  <2>7. Phase'[t] \in {"open", "closed"}
    BY <2>5, PhaseValue
  <2>8. Phase' = [Phase EXCEPT ![t] = Phase'[t]]
    <3>1. Phase' = [u \in Tokens |-> Phase'[u]] /\ Phase = [u \in Tokens |-> Phase[u]]
      BY DEF Phase
    <3>. QED  BY <2>6, <3>1
  <2>. QED  BY <2>2, <2>3, <2>7, <2>8 DEF Contract!Begin
<1>6. ASSUME NEW r \in Requests, NEW t \in Tokens, NEW l \in BOOLEAN, Present(r, t, l)
      PROVE  Contract!Come(r, t)
  <2> DEFINE q == [step |-> "find", token |-> t, logout |-> l, late |-> ~Open(t)]
  <2>1. Continue(r, q) /\ Where(requests[r]) = "out"
    BY <1>6 DEF Present, Where
  <2>2. Phase[t] # "unused" /\ (Phase[t] = "open" <=> Open(t))
    BY <1>6, PhaseValue DEF Present
  <2>3. Where(q) = IF Open(t) THEN "early" ELSE "late"
    BY DEF Where
  <2>4. Phase' = Phase
    BY <1>1, <1>6 DEF Present
  <2> HIDE DEF q
  <2>. QED  BY <2>1, <2>2, <2>3, <2>4, VisitStep DEF Contract!Come
<1>7. ASSUME NEW r \in Requests, AuthFind(r)
      PROVE  Contract!Refuse(r) \/ (Phase' = Phase /\ Visit' = Visit)
  <2> DEFINE q == requests[r]
             row == tokens[q.token]
  <2>1. q \in Find /\ q.step = "find"
    BY <1>7, LocalShape DEF AuthFind, TypeOK, Local
  <2>2. Where(q) \in {"early", "late"}
    BY <2>1 DEF Where, Find
  <2>3. Phase' = Phase
    BY <1>1, <1>7 DEF AuthFind
  <2>4. CASE Stored(row)
    <3>1. PICK p : Continue(r, p) /\ p.step = "judge" /\ p.late = q.late
      BY <1>7, <2>4 DEF AuthFind
    <3>2. Where(p) = Where(q)
      BY <2>1, <3>1 DEF Where, Find
    <3>. QED  BY <2>3, <3>1, <3>2, VisitStep
  <2>5. CASE ~Stored(row)
    <3>1. Continue(r, [step |-> "idle", answer |-> "UNAUTHORIZED"])
      BY <1>7, <2>5 DEF AuthFind, Answer
    <3>. QED  BY <1>2, <2>2, <2>3, <3>1, VisitStep DEF Contract!Refuse
  <2>. QED  BY <2>4, <2>5
<1>8. ASSUME NEW r \in Requests, AuthJudge(r)
      PROVE  Contract!Admit(r) \/ Contract!Refuse(r)
  <2> DEFINE q == requests[r]
  <2>1. q \in Judge /\ q.step = "judge"
    BY <1>8, LocalShape DEF AuthJudge, TypeOK, Local
  <2>2. Where(q) = IF q.late THEN "late" ELSE "early"
    BY <2>1 DEF Where, Judge
  <2>3. Phase' = Phase
    BY <1>1, <1>8 DEF AuthJudge
  <2>4. CASE Verdict(q.row, q.status, now) = "OK"
    <3>1. PICK p : Continue(r, p) /\ p.step = "serve"
      BY <1>8, <2>4 DEF AuthJudge
    <3>2. ~q.late
      BY <2>1, <2>4 DEF AdmissionInv, Refused, Verdict, IsActiveToken
    <3>3. Where(p) = "in"
      BY <3>1 DEF Where
    <3>. QED  BY <2>2, <2>3, <3>1, <3>2, <3>3, VisitStep DEF Contract!Admit
  <2>5. CASE Verdict(q.row, q.status, now) # "OK"
    <3>1. PICK a : Continue(r, [step |-> "idle", answer |-> a])
      BY <1>8, <2>5 DEF AuthJudge, Answer
    <3>. QED  BY <1>2, <2>2, <2>3, <3>1, VisitStep DEF Contract!Refuse
  <2>. QED  BY <2>4, <2>5
<1>9. ASSUME NEW r \in Requests, requests[r].step = "serve", NEW a, Answer(r, a),
             \A t \in Tokens : tokens[t] = NoRow => tokens'[t] = NoRow
      PROVE  Contract!Leave(r)
  <2>1. Where(requests[r]) = "in"
    BY <1>9 DEF Where
  <2>. QED  BY <1>2, <1>9, <2>1, ClosingStep, VisitStep DEF Answer, Contract!Leave
<1>10. ASSUME NEW r \in Requests, Logout(r)
       PROVE  Contract!Leave(r)
  <2>1. \A t \in Tokens : tokens[t] = NoRow => tokens'[t] = NoRow
    BY <1>10 DEF Logout, Revoked, Stored, NoRow, TypeOK
  <2>. QED  BY <1>9, <1>10, <2>1 DEF Logout
<1>11. ASSUME NEW r \in Requests, Handle(r)
       PROVE  Contract!Leave(r)
  BY <1>9, <1>11 DEF Handle
<1>12. ASSUME NEW r \in Requests, DatabaseError(r)
       PROVE  Contract!Leave(r) \/ Contract!Refuse(r) \/ (Phase' = Phase /\ Visit' = Visit)
  <2> DEFINE q == requests[r]
  <2>1. Answer(r, "INTERNAL_ERROR") /\ tokens' = tokens
    BY <1>12 DEF DatabaseError
  <2>2. Phase' = Phase
    BY <1>1, <1>12 DEF DatabaseError
  <2>3. CASE q.step \in {"idle", "verify", "create"}
    <3>1. Where(q) = "out"
      BY <2>3 DEF Where
    <3>. QED  BY <1>2, <2>1, <2>2, <3>1, VisitStep DEF Answer
  <2>4. CASE q.step = "find"
    <3>1. q \in Find
      BY <2>4, LocalShape DEF TypeOK, Local
    <3>2. Where(q) \in {"early", "late"}
      BY <2>4, <3>1 DEF Where, Find
    <3>. QED  BY <1>2, <2>1, <2>2, <3>2, VisitStep DEF Answer, Contract!Refuse
  <2>5. CASE q.step = "serve"
    BY <1>9, <2>1, <2>5
  <2>. QED  BY <1>12, <2>3, <2>4, <2>5 DEF DatabaseError
<1>13. ASSUME requests' = requests,
              \A t \in Tokens : tokens[t] = NoRow => tokens'[t] = NoRow
       PROVE  Contract!Close
  BY <1>13, ClosingStep DEF Visit, Contract!Close
<1>14. CASE \/ \E u \in touches : Background(u)
            \/ \E e \in Employees : Admin(e)
            \/ Tick
  <2>1. requests' = requests
    BY <1>14 DEF Background, Touch, TouchLost, Admin, AdminDisable, AdminEnable,
                 AdminDelete, Tick
  <2>2. ASSUME NEW t \in Tokens, tokens[t] = NoRow
        PROVE  tokens'[t] = NoRow
    <3>1. ~Stored(tokens[t])
      BY <2>2 DEF Stored, NoRow
    <3>2. \A u \in touches : Touch(u) => tokens'[t] = tokens[t]
      BY <3>1 DEF Touch, TypeOK
    <3>3. \A e \in Employees : AdminDisable(e) \/ AdminDelete(e) => tokens'[t] = tokens[t]
      BY <3>1 DEF AdminDisable, AdminDelete, TokensOf
    <3>. QED  BY <1>14, <2>2, <3>2, <3>3 DEF Background, TouchLost, Admin, AdminEnable, Tick
  <2>. QED  BY <1>13, <2>1, <2>2 DEF Contract!Next
<1>15. CASE UNCHANGED vars
  BY <1>15 DEF vars, Phase, Visit, Open
<1>. QED
  BY <1>3, <1>4, <1>5, <1>6, <1>7, <1>8, <1>10, <1>11, <1>12, <1>14, <1>15
  DEF Next, LoginStep, ProtectedStep, Arrive, Contract!Next

\* Every behaviour of the service is one the contract of Sessions allows.
THEOREM Refinement == Spec => ImplementsSessions
<1>1. Init => Contract!Init
  <2> SUFFICES ASSUME Init PROVE Contract!Init
    OBVIOUS
  <2>1. \A t \in Tokens : Phase[t] = "unused"
    BY PhaseValue DEF Init
  <2>2. \A r \in Requests : Where(requests[r]) = "out"
    BY DEF Init, Where
  <2>3. Phase = [t \in Tokens |-> "unused"]
    BY <2>1 DEF Phase
  <2>4. Visit = [r \in Requests |-> "out"]
    BY <2>2 DEF Visit
  <2>. QED  BY <2>3, <2>4 DEF Contract!Init
<1>. QED
  BY <1>1, Simulation, TypeCorrect, Admission, PTL
  DEF Spec, ImplementsSessions, Contract!Spec
=============================================================================
