---------------------------- MODULE ServersProofs ----------------------------
(***************************************************************************)
(* Proofs about Servers, for any rows, hosts, keys and overlapping         *)
(* requests: what a row says can be trusted while its address and the      *)
(* application's key stay, and a deleted row never changes.                *)
(***************************************************************************)
EXTENDS Servers, TLAPS

RemoteSteps == {"dial_key", "dial_password", "check_key", "login", "grep", "append",
                "verify", "mark", "status", "facts"}

ProcState == {Idle} \cup Updating \cup Remote

\* What is known of a row whose address no update has changed.
TrustedRow(s) ==
    /\ rows[s].facts \in {None, rows[s].host}
    /\ rows[s].installed /\ ~keyRemoved => Accepts(rows[s].host, key)

RowsInv == \A s \in Servers \ moved : rows[s] # NoRow => TrustedRow(s)

\* A request talks to the host of its row, installs a key, and sets the flag
\* only of a host that accepts the application's key.
RequestOK(q) ==
    /\ rows[q.row] # NoRow
    /\ q.row \notin moved => q.host = rows[q.row].host
    /\ q.step \in {"login", "grep", "append"} => q.new \in Keys
    /\ q.step = "mark" /\ ~keyRemoved => Accepts(q.host, key)

RequestsInv == \A p \in Procs : procs[p] \in Remote => RequestOK(procs[p])

Inv == TypeOK /\ RowsInv /\ RequestsInv

\* What no step undoes: a row keeps its address unless it moves, accounts
\* lose no key, and the application keeps its key unless it is removed.
Lasting ==
    /\ \A s \in Servers : rows[s] # NoRow =>
          /\ rows'[s] # NoRow
          /\ s \notin moved' => s \notin moved /\ rows'[s].host = rows[s].host
    /\ \A h \in Hosts : accounts[h].authorized \subseteq accounts'[h].authorized
    /\ ~keyRemoved' => ~keyRemoved /\ (key \in Keys => key' = key)

Frozen == \A s \in Servers : rows[s].state = "deleted" => rows'[s] = rows[s]

-----------------------------------------------------------------------------

LEMMA RequestShape ==
  ASSUME TypeOK, NEW p \in Procs, procs[p].step \in RemoteSteps
  PROVE  procs[p] \in Remote
  BY DEF TypeOK, RemoteSteps, Updating, Idle

LEMMA RemoteFields ==
  ASSUME NEW q \in Remote
  PROVE  /\ q.step \in RemoteSteps /\ q.kind \in Kinds /\ q.row \in Servers /\ q.host \in Hosts
         /\ q.password \in Passwords \cup {None} /\ q.new \in Keys \cup {None} /\ q.ok \in BOOLEAN
  BY DEF Remote, RemoteSteps

LEMMA RowShape ==
  ASSUME TypeOK, NEW s \in Servers
  PROVE  /\ rows[s] \in Row \cup {NoRow}
         /\ rows[s] \in Row <=> rows[s] # NoRow
         /\ Live(s) => rows[s] \in Row
  BY DEF TypeOK, Row, NoRow, Live

\* An account that accepts the key goes on doing so.
LEMMA AcceptsLasting ==
  ASSUME TypeOK, Lasting, NEW h \in Hosts, ~keyRemoved', Accepts(h, key)
  PROVE  ~keyRemoved /\ Accepts(h, key)'
<1>1. key \in Keys
    BY DEF TypeOK, Account, Accepts
<1>2. key' = key /\ ~keyRemoved
    BY <1>1 DEF Lasting
<1> QED
    BY <1>2 DEF Lasting, Accepts

LEMMA RequestLasting ==
  ASSUME TypeOK, Lasting, NEW q \in Remote, RequestOK(q)
  PROVE  RequestOK(q)'
<1>1. q.row \in Servers /\ q.host \in Hosts
    BY RemoteFields
<1>2. ASSUME q.step = "mark", ~keyRemoved'
      PROVE  Accepts(q.host, key)'
  <2>1. ~keyRemoved
      BY <1>2 DEF Lasting
  <2> QED
      BY <1>1, <1>2, <2>1, AcceptsLasting DEF RequestOK
<1> QED
    BY <1>1, <1>2 DEF RequestOK, Lasting

LEMMA RequestsLasting ==
  ASSUME Inv, Lasting, NEW p \in Procs, NEW q \in ProcState, Continue(p, q),
         q \in Remote => RequestOK(q)'
  PROVE  procs' \in [Procs -> ProcState] /\ RequestsInv'
<1>1. procs' = [procs EXCEPT ![p] = q] /\ procs \in [Procs -> ProcState]
    BY DEF Continue, Inv, TypeOK, ProcState
<1>2. ASSUME NEW r \in Procs, procs'[r] \in Remote
      PROVE  RequestOK(procs[r])'
  <2>1. CASE r = p
    <3>1. procs'[r] = q
        BY <1>1, <2>1
    <3> QED
        BY <1>2, <3>1 DEF RequestOK, Accepts
  <2>2. CASE r # p
    <3>1. procs'[r] = procs[r]
        BY <1>1, <2>2
    <3>2. RequestOK(procs[r])
        BY <1>2, <3>1 DEF Inv, RequestsInv
    <3>3. RequestOK(procs[r])'
      <4> PICK m \in Remote : m = procs[r]
          BY <1>2, <3>1
      <4>1. RequestOK(m)'
          BY <3>2, RequestLasting DEF Inv
      <4> QED
          BY <3>1, <4>1 DEF RequestOK, Accepts
    <3> QED
        BY <3>3
  <2> QED
      BY <2>1, <2>2
<1> QED
    BY <1>1, <1>2 DEF RequestsInv

\* A step that only moves a request on.
LEMMA OnlyRequest ==
  ASSUME Inv, UNCHANGED <<key, rows, accounts, observers>>, NEW p \in Procs,
         NEW q \in ProcState, Continue(p, q), q \in Remote => RequestOK(q)
  PROVE  Inv' /\ Frozen
<1>1. Lasting /\ Frozen
    BY DEF Lasting, Frozen, observers
<1>2. q \in Remote => RequestOK(q)'
    BY DEF RequestOK, Accepts, observers
<1>3. procs' \in [Procs -> ProcState] /\ RequestsInv'
    BY <1>1, <1>2, RequestsLasting
<1>4. TypeOK'
    BY <1>3 DEF Inv, TypeOK, ProcState, observers
<1>5. RowsInv'
    BY DEF Inv, RowsInv, TrustedRow, Accepts, observers
<1> QED
    BY <1>1, <1>3, <1>4, <1>5 DEF Inv

LEMMA GotoRequest ==
  ASSUME Inv, NEW p \in Procs, procs[p].step \in RemoteSteps, NEW st \in RemoteSteps, Goto(p, st),
         st = "mark" /\ ~keyRemoved => Accepts(procs[p].host, key),
         st \in {"login", "grep", "append"} => procs[p].new \in Keys
  PROVE  \E q \in Remote : Continue(p, q) /\ RequestOK(q)
<1>1. procs[p] \in Remote /\ RequestOK(procs[p])
    BY RequestShape DEF Inv, RequestsInv
<1> PICK q : q = [procs[p] EXCEPT !.step = st]
    OBVIOUS
<1>2. /\ q \in Remote /\ q.step = st /\ q.row = procs[p].row /\ q.host = procs[p].host
      /\ q.new = procs[p].new
    BY <1>1 DEF Remote, RemoteSteps
<1>3. RequestOK(q)
    BY <1>1, <1>2 DEF RequestOK
<1> QED
    BY <1>2, <1>3 DEF Goto

LEMMA OutcomeRequest ==
  ASSUME Inv, NEW p \in Procs, procs[p].step \in RemoteSteps, NEW ok \in BOOLEAN, Outcome(p, ok)
  PROVE  \E q \in Remote : Continue(p, q) /\ RequestOK(q)
<1>1. procs[p] \in Remote /\ RequestOK(procs[p])
    BY RequestShape DEF Inv, RequestsInv
<1> PICK q : q = [procs[p] EXCEPT !.step = "status", !.ok = ok, !.password = None, !.new = None]
    OBVIOUS
<1>2. q \in Remote /\ q.step = "status" /\ q.row = procs[p].row /\ q.host = procs[p].host
    BY <1>1 DEF Remote
<1>3. RequestOK(q)
    BY <1>1, <1>2 DEF RequestOK
<1> QED
    BY <1>2, <1>3 DEF Outcome

\* A step of a request that changes nothing else, whichever way it goes.
LEMMA RequestStep ==
  ASSUME Inv, UNCHANGED <<key, rows, accounts, observers>>, NEW p \in Procs,
         \E q \in Remote : Continue(p, q) /\ RequestOK(q)
  PROVE  Inv' /\ Frozen
  BY OnlyRequest DEF ProcState
-----------------------------------------------------------------------------
(* Requests that only read. *)

LEMMA UpdateReadStep ==
  ASSUME Inv, NEW p \in Procs, NEW s \in Servers, NEW input \in Passwords \cup {"keep", "clear"},
         UpdateRead(p, s, input)
  PROVE  Inv' /\ Frozen
<1>1. rows[s] \in Row
    BY RowShape DEF Inv, UpdateRead
<1>2. ResolveSecret(input, rows[s].password) \in Passwords \cup {None}
    BY <1>1 DEF ResolveSecret, Row
<1> PICK q : q = [step |-> "update", row |-> s, kept |-> input = "keep",
                  password |-> ResolveSecret(input, rows[s].password)]
    OBVIOUS
<1>3. q \in Updating
    BY <1>2 DEF Updating
<1>4. q \notin Remote
    BY DEF Remote
<1>5. Continue(p, q) /\ UNCHANGED <<key, rows, accounts, observers>>
    BY DEF UpdateRead
<1> QED
    BY <1>3, <1>4, <1>5, OnlyRequest DEF ProcState

LEMMA LoadStep ==
  ASSUME Inv, NEW p \in Procs, NEW kind \in Kinds, NEW s \in Servers, Load(p, kind, s)
  PROVE  Inv' /\ Frozen
<1>1. rows[s] \in Row /\ rows[s] # NoRow
    BY RowShape DEF Inv, Load
<1> PICK q : q = [step |-> IF kind = "install" THEN "check_key" ELSE "dial_key",
                  kind |-> kind, row |-> s, host |-> rows[s].host,
                  password |-> rows[s].password, new |-> None, ok |-> FALSE]
    OBVIOUS
<1>2. rows[s].host \in Hosts /\ rows[s].password \in Passwords \cup {None}
    BY <1>1 DEF Row
<1>3. q \in Remote
    BY <1>2 DEF Remote
<1>4. RequestOK(q)
    BY <1>1 DEF RequestOK
<1>5. Continue(p, q) /\ UNCHANGED <<key, rows, accounts, observers>>
    BY DEF Load
<1> QED
    BY <1>3, <1>4, <1>5, RequestStep

LEMMA SessionRequest ==
  ASSUME Inv, NEW p \in Procs, procs[p].step \in RemoteSteps, UseSession(p)
  PROVE  \E q \in Remote : Continue(p, q) /\ RequestOK(q)
  BY OutcomeRequest DEF UseSession

LEMMA DialKeyStep ==
  ASSUME Inv, NEW p \in Procs, DialKey(p)
  PROVE  Inv' /\ Frozen
<1>1. procs[p].step \in RemoteSteps
    BY DEF DialKey, At, RemoteSteps
<1>2. UseSession(p) \/ Outcome(p, FALSE) \/ Goto(p, "dial_password")
    BY DEF DialKey
<1>3. "dial_password" \in RemoteSteps
    BY DEF RemoteSteps
<1>4. \E q \in Remote : Continue(p, q) /\ RequestOK(q)
    BY <1>1, <1>2, <1>3, SessionRequest, OutcomeRequest, GotoRequest
<1> QED
    BY <1>4, RequestStep DEF DialKey

LEMMA DialPasswordStep ==
  ASSUME Inv, NEW p \in Procs, DialPassword(p)
  PROVE  Inv' /\ Frozen
<1>1. procs[p].step \in RemoteSteps
    BY DEF DialPassword, At, RemoteSteps
<1>2. UseSession(p) \/ Outcome(p, FALSE)
    BY DEF DialPassword
<1>3. \E q \in Remote : Continue(p, q) /\ RequestOK(q)
    BY <1>1, <1>2, SessionRequest, OutcomeRequest
<1> QED
    BY <1>3, RequestStep DEF DialPassword

LEMMA CheckKeyStep ==
  ASSUME Inv, NEW p \in Procs, CheckKey(p)
  PROVE  Inv' /\ Frozen
<1>1. procs[p] \in Remote /\ RequestOK(procs[p])
  <2>1. procs[p].step \in RemoteSteps
      BY DEF CheckKey, At, RemoteSteps
  <2> QED
      BY <2>1, RequestShape DEF Inv, RequestsInv
<1>2. CASE key \in Keys
  <2> PICK q : q = [procs[p] EXCEPT !.step = "login", !.new = key]
      OBVIOUS
  <2>1. /\ q \in Remote /\ q.step = "login" /\ q.row = procs[p].row /\ q.host = procs[p].host
        /\ q.new = key
      BY <1>1, <1>2 DEF Remote
  <2>2. RequestOK(q)
      BY <1>1, <1>2, <2>1 DEF RequestOK
  <2> QED
      BY <1>2, <2>1, <2>2, RequestStep DEF CheckKey
<1>3. CASE key \notin Keys
  <2>1. Idle \in ProcState /\ Idle \notin Remote
      BY DEF ProcState, Idle, Remote
  <2> QED
      BY <1>3, <2>1, OnlyRequest DEF CheckKey
<1> QED
    BY <1>2, <1>3

LEMMA LoginHostStep ==
  ASSUME Inv, NEW p \in Procs, LoginHost(p)
  PROVE  Inv' /\ Frozen
<1>1. procs[p].step \in RemoteSteps /\ procs[p].step = "login" /\ "grep" \in RemoteSteps
    BY DEF LoginHost, At, RemoteSteps
<1>2. procs[p].new \in Keys
    BY <1>1, RequestShape DEF Inv, RequestsInv, RequestOK
<1>3. Goto(p, "grep") \/ Outcome(p, FALSE)
    BY DEF LoginHost
<1>4. \E q \in Remote : Continue(p, q) /\ RequestOK(q)
    BY <1>1, <1>2, <1>3, OutcomeRequest, GotoRequest
<1> QED
    BY <1>4, RequestStep DEF LoginHost

LEMMA GrepStep ==
  ASSUME Inv, NEW p \in Procs, Grep(p)
  PROVE  Inv' /\ Frozen
<1>1. /\ procs[p].step \in RemoteSteps /\ procs[p].step = "grep"
      /\ "verify" \in RemoteSteps /\ "append" \in RemoteSteps
    BY DEF Grep, At, RemoteSteps
<1>2. procs[p].new \in Keys
    BY <1>1, RequestShape DEF Inv, RequestsInv, RequestOK
<1>3. Goto(p, "verify") \/ Goto(p, "append") \/ Outcome(p, FALSE)
    BY DEF Grep
<1>4. \E q \in Remote : Continue(p, q) /\ RequestOK(q)
    BY <1>1, <1>2, <1>3, OutcomeRequest, GotoRequest
<1> QED
    BY <1>4, RequestStep DEF Grep

\* The flag will be set only of a host that has accepted the key on the disk.
LEMMA VerifyStep ==
  ASSUME Inv, NEW p \in Procs, Verify(p)
  PROVE  Inv' /\ Frozen
<1>1. procs[p].step \in RemoteSteps /\ "mark" \in RemoteSteps
    BY DEF Verify, At, RemoteSteps
<1>2. \/ Accepts(procs[p].host, key) /\ Goto(p, "mark")
     \/ Outcome(p, TRUE)
    BY DEF Verify
<1>3. \E q \in Remote : Continue(p, q) /\ RequestOK(q)
    BY <1>1, <1>2, OutcomeRequest, GotoRequest
<1> QED
    BY <1>3, RequestStep DEF Verify

-----------------------------------------------------------------------------
(* Steps that write. *)

LEMMA CreateServerStep ==
  ASSUME Inv, NEW p \in Procs, NEW s \in Servers, NEW h \in Hosts,
         NEW pw \in Passwords \cup {None}, CreateServer(p, s, h, pw)
  PROVE  Inv' /\ Frozen
<1>1. PICK row : /\ row = [state |-> "live", host |-> h, password |-> pw, active |-> TRUE,
                           installed |-> FALSE, status |-> None, facts |-> None]
                 /\ rows' = [rows EXCEPT ![s] = row]
    BY DEF CreateServer
<1>2. row \in Row /\ row.facts = None /\ ~row.installed
    BY <1>1 DEF Row
<1>3. rows[s] = NoRow /\ rows \in [Servers -> Row \cup {NoRow}]
    BY DEF CreateServer, Inv, TypeOK
<1>4. rows'[s] = row /\ \A x \in Servers \ {s} : rows'[x] = rows[x]
    BY <1>1, <1>3
<1>5. Lasting /\ Frozen
    BY <1>3, <1>4 DEF Lasting, Frozen, CreateServer, observers, NoRow
<1>6. TypeOK'
    BY <1>1, <1>2 DEF CreateServer, Inv, TypeOK, observers
<1>7. RowsInv'
    BY <1>2, <1>4 DEF CreateServer, Inv, RowsInv, TrustedRow, Accepts, observers
<1>8. RequestsInv'
  <2> SUFFICES ASSUME NEW r \in Procs, procs[r] \in Remote PROVE RequestOK(procs[r])'
      BY DEF RequestsInv, CreateServer
  <2> PICK q \in Remote : q = procs[r]
      OBVIOUS
  <2>1. RequestOK(q)'
      BY <1>5, RequestLasting DEF Inv, RequestsInv
  <2> QED
      BY <2>1 DEF RequestOK, Accepts, CreateServer
<1> QED
    BY <1>5, <1>6, <1>7, <1>8 DEF Inv

\* A row changes under a request that goes on or ends.
LEMMA RowStep ==
  ASSUME Inv, NEW s \in Servers, Live(s), NEW row \in Row, rows' = [rows EXCEPT ![s] = row],
         row.host = rows[s].host \/ s \in moved', moved \subseteq moved', moved' \subseteq Servers,
         s \notin moved' =>
             /\ row.facts \in {None, row.host}
             /\ row.installed /\ ~keyRemoved => Accepts(row.host, key),
         UNCHANGED <<key, accounts, keyRemoved>>,
         NEW p \in Procs, NEW q \in ProcState, Continue(p, q), q \in Remote => RequestOK(q)
  PROVE  Inv' /\ Frozen
<1>1. rows \in [Servers -> Row \cup {NoRow}]
    BY DEF Inv, TypeOK
<1>2. rows'[s] = row /\ \A x \in Servers \ {s} : rows'[x] = rows[x]
    BY <1>1
<1>3. row # NoRow
    BY DEF Row, NoRow
<1>4. Frozen
    BY <1>2 DEF Frozen, Live
<1>5. Lasting
    BY <1>2, <1>3 DEF Lasting
<1>6. q \in Remote => RequestOK(q)'
    BY <1>5, RequestLasting DEF Inv
<1>7. procs' \in [Procs -> ProcState] /\ RequestsInv'
    BY <1>5, <1>6, RequestsLasting
<1>8. TypeOK'
    BY <1>7 DEF Inv, TypeOK, ProcState
<1>9. RowsInv'
  <2> SUFFICES ASSUME NEW x \in Servers, x \notin moved', rows'[x] # NoRow PROVE TrustedRow(x)'
      BY DEF RowsInv
  <2>1. CASE x = s
      BY <1>2, <2>1 DEF TrustedRow, Accepts
  <2>2. CASE x # s
      BY <1>2, <2>2 DEF Inv, RowsInv, TrustedRow, Accepts
  <2> QED
      BY <2>1, <2>2
<1> QED
    BY <1>4, <1>7, <1>8, <1>9 DEF Inv

\* What a live row says before a step.
LEMMA LiveRow ==
  ASSUME Inv, NEW s \in Servers, Live(s)
  PROVE  rows[s] \in Row /\ (s \notin moved => TrustedRow(s))
  BY RowShape DEF Inv, RowsInv, Live, NoRow

LEMMA IdleIsFree == Idle \in ProcState /\ Idle \notin Remote
  BY DEF ProcState, Idle, Remote

LEMMA UpdateWriteStep ==
  ASSUME Inv, NEW p \in Procs, NEW h \in Hosts, NEW a \in BOOLEAN, UpdateWrite(p, h, a)
  PROVE  Inv' /\ Frozen
<1> PICK s : s = procs[p].row
    OBVIOUS
<1>1. s \in Servers /\ procs[p].password \in Passwords \cup {None}
  <2>1. procs[p] \in Updating
      BY DEF UpdateWrite, At, Inv, TypeOK, Idle, Remote
  <2> QED
      BY <2>1 DEF Updating
<1>2. Continue(p, Idle) /\ UNCHANGED <<key, accounts, keyRemoved>>
    BY DEF UpdateWrite
<1>3. CASE UNCHANGED <<rows, moved>>
    BY <1>2, <1>3, IdleIsFree, OnlyRequest DEF observers
<1>4. CASE /\ Live(s)
           /\ rows' = [rows EXCEPT ![s].host = h, ![s].password = procs[p].password,
                                   ![s].active = a]
           /\ moved' = IF h = rows[s].host THEN moved ELSE moved \cup {s}
  <2>1. rows[s] \in Row /\ (s \notin moved => TrustedRow(s))
      BY <1>1, <1>4, LiveRow
  <2> PICK row : row = [rows[s] EXCEPT !.host = h, !.password = procs[p].password, !.active = a]
      OBVIOUS
  <2>2. /\ row \in Row /\ row.host = h
        /\ row.facts = rows[s].facts /\ (row.installed <=> rows[s].installed)
      BY <1>1, <2>1 DEF Row
  <2>3. rows' = [rows EXCEPT ![s] = row]
      BY <1>1, <1>4 DEF Inv, TypeOK
  <2>4. row.host = rows[s].host \/ s \in moved'
      BY <1>4, <2>2
  <2>5. moved \subseteq moved' /\ moved' \subseteq Servers
      BY <1>1, <1>4 DEF Inv, TypeOK
  <2>6. s \notin moved' =>
             /\ row.facts \in {None, row.host}
             /\ row.installed /\ ~keyRemoved => Accepts(row.host, key)
      BY <1>4, <2>1, <2>2 DEF TrustedRow
  <2> QED
      BY <1>1, <1>2, <1>4, <2>2, <2>3, <2>4, <2>5, <2>6, IdleIsFree, RowStep
<1> QED
    BY <1>3, <1>4 DEF UpdateWrite

LEMMA DeleteServerStep ==
  ASSUME Inv, NEW p \in Procs, NEW s \in Servers, DeleteServer(p, s)
  PROVE  Inv' /\ Frozen
<1>1. rows[s] \in Row /\ (s \notin moved => TrustedRow(s)) /\ Live(s)
    BY LiveRow DEF DeleteServer
<1> PICK row : row = [rows[s] EXCEPT !.state = "deleted"]
    OBVIOUS
<1>2. /\ row \in Row /\ row.host = rows[s].host
      /\ row.facts = rows[s].facts /\ (row.installed <=> rows[s].installed)
    BY <1>1 DEF Row
<1>3. rows' = [rows EXCEPT ![s] = row] /\ UNCHANGED <<key, accounts, keyRemoved, moved>>
    BY DEF DeleteServer, observers
<1>4. s \notin moved' =>
             /\ row.facts \in {None, row.host}
             /\ row.installed /\ ~keyRemoved => Accepts(row.host, key)
    BY <1>1, <1>2, <1>3 DEF TrustedRow
<1>5. Continue(p, procs[p]) /\ procs[p] \in ProcState /\ (procs[p] \in Remote => RequestOK(procs[p]))
    BY DEF DeleteServer, Continue, Inv, TypeOK, ProcState, RequestsInv
<1>6. moved \subseteq moved' /\ moved' \subseteq Servers
    BY <1>3 DEF Inv, TypeOK
<1> QED
    BY <1>1, <1>2, <1>3, <1>4, <1>5, <1>6, RowStep

LEMMA AppendStep ==
  ASSUME Inv, NEW p \in Procs, Append(p)
  PROVE  Inv' /\ Frozen
<1>1. /\ procs[p].step \in RemoteSteps /\ procs[p].step = "append"
      /\ "verify" \in RemoteSteps
    BY DEF Append, At, RemoteSteps
<1>2. procs[p].new \in Keys /\ procs[p].host \in Hosts
    BY <1>1, RequestShape, RemoteFields DEF Inv, RequestsInv, RequestOK
<1>3. Goto(p, "verify") \/ Outcome(p, FALSE)
    BY DEF Append
<1>4. PICK q \in Remote : Continue(p, q) /\ RequestOK(q)
    BY <1>1, <1>2, <1>3, OutcomeRequest, GotoRequest
<1>5. UNCHANGED <<key, rows, observers>>
    BY DEF Append
<1>6. CASE UNCHANGED accounts
    BY <1>4, <1>5, <1>6, RequestStep
<1>7. CASE accounts' = [accounts EXCEPT ![procs[p].host].authorized = @ \cup {procs[p].new}]
  <2> PICK h \in Hosts : h = procs[p].host
      BY <1>2
  <2>1. accounts[h] \in Account
      BY DEF Inv, TypeOK
  <2> PICK account : account = [accounts[h] EXCEPT !.authorized = @ \cup {procs[p].new}]
      OBVIOUS
  <2>2. account \in Account /\ accounts[h].authorized \subseteq account.authorized
      BY <1>2, <2>1 DEF Account
  <2>3. accounts' = [accounts EXCEPT ![h] = account]
      BY <1>7
  <2>4. Lasting /\ Frozen
      BY <1>5, <2>2, <2>3 DEF Lasting, Frozen, Inv, TypeOK, observers
  <2>5. q \in Remote => RequestOK(q)'
      BY <1>4, <2>4, RequestLasting DEF Inv
  <2>6. q \in ProcState
      BY DEF ProcState
  <2>7. procs' \in [Procs -> ProcState] /\ RequestsInv'
      BY <1>4, <2>4, <2>5, <2>6, RequestsLasting
  <2>8. TypeOK'
      BY <1>5, <2>2, <2>3, <2>7 DEF Inv, TypeOK, ProcState, observers
  <2>9. RowsInv'
    <3> SUFFICES ASSUME NEW x \in Servers, x \notin moved, rows[x] # NoRow PROVE TrustedRow(x)'
        BY <1>5 DEF RowsInv, observers
    <3>1. rows[x].host \in Hosts /\ TrustedRow(x)
        BY RowShape DEF Inv, RowsInv, Row
    <3>2. UNCHANGED <<rows, key, keyRemoved>>
        BY <1>5 DEF observers
    <3>3. Accepts(rows[x].host, key) => Accepts(rows[x].host, key)'
        BY <2>4, <3>1, <3>2 DEF Lasting, Accepts
    <3> QED
        BY <3>1, <3>2, <3>3 DEF TrustedRow, Accepts
  <2> QED
      BY <2>4, <2>7, <2>8, <2>9 DEF Inv
<1> QED
    BY <1>6, <1>7 DEF Append

LEMMA MarkStep ==
  ASSUME Inv, NEW p \in Procs, Mark(p)
  PROVE  Inv' /\ Frozen
<1>1. procs[p].step \in RemoteSteps /\ procs[p].step = "mark"
    BY DEF Mark, At, RemoteSteps
<1>2. procs[p] \in Remote /\ RequestOK(procs[p])
    BY <1>1, RequestShape DEF Inv, RequestsInv
<1> PICK s \in Servers : s = procs[p].row
    BY <1>2, RemoteFields
<1>3. PICK q \in Remote : Continue(p, q) /\ RequestOK(q)
    BY <1>1, OutcomeRequest DEF Mark
<1>4. UNCHANGED <<key, accounts, observers>>
    BY DEF Mark
<1>5. CASE UNCHANGED rows
    BY <1>3, <1>4, <1>5, RequestStep
<1>6. CASE Live(s) /\ rows' = [rows EXCEPT ![s].installed = TRUE]
  <2>1. rows[s] \in Row /\ (s \notin moved => TrustedRow(s))
      BY <1>6, LiveRow
  <2> PICK row : row = [rows[s] EXCEPT !.installed = TRUE]
      OBVIOUS
  <2>2. row \in Row /\ row.host = rows[s].host /\ row.facts = rows[s].facts
      BY <2>1 DEF Row
  <2>3. rows' = [rows EXCEPT ![s] = row] /\ UNCHANGED <<key, accounts, keyRemoved, moved>>
      BY <1>4, <1>6 DEF observers
  <2>4. s \notin moved' =>
             /\ row.facts \in {None, row.host}
             /\ row.installed /\ ~keyRemoved => Accepts(row.host, key)
      BY <1>1, <1>2, <2>1, <2>2, <2>3 DEF TrustedRow, RequestOK
  <2>5. moved \subseteq moved' /\ moved' \subseteq Servers /\ q \in ProcState
      BY <2>3 DEF Inv, TypeOK, ProcState
  <2> QED
      BY <1>3, <1>6, <2>2, <2>3, <2>4, <2>5, RowStep
<1> QED
    BY <1>5, <1>6 DEF Mark

LEMMA RecordStatusStep ==
  ASSUME Inv, NEW p \in Procs, RecordStatus(p)
  PROVE  Inv' /\ Frozen
<1>1. procs[p].step \in RemoteSteps /\ "facts" \in RemoteSteps
    BY DEF RecordStatus, At, RemoteSteps
<1>2. procs[p] \in Remote
    BY <1>1, RequestShape DEF Inv
<1> PICK s \in Servers : s = procs[p].row
    BY <1>2, RemoteFields
<1>3. PICK q \in ProcState : Continue(p, q) /\ (q \in Remote => RequestOK(q))
  <2>1. CASE Continue(p, Idle)
      BY <2>1, IdleIsFree
  <2>2. CASE Goto(p, "facts")
      BY <1>1, <2>2, GotoRequest DEF ProcState
  <2> QED
      BY <2>1, <2>2 DEF RecordStatus
<1>4. UNCHANGED <<key, accounts, observers>>
    BY DEF RecordStatus
<1>5. CASE UNCHANGED rows
    BY <1>3, <1>4, <1>5, OnlyRequest
<1>6. CASE Live(s) /\ UNCHANGED observers /\ ~UNCHANGED rows
  <2>1. rows[s] \in Row /\ (s \notin moved => TrustedRow(s))
      BY <1>6, LiveRow
  <2>2. PICK status \in {"OK", "FAILED"}, active \in BOOLEAN :
            rows' = [rows EXCEPT ![s] = [rows[s] EXCEPT !.status = status, !.active = active]]
    <3>1. /\ procs[p].ok \in BOOLEAN /\ rows[s].active \in BOOLEAN
          /\ DOMAIN rows = Servers
        BY <1>2, <2>1, RemoteFields DEF Row, Inv, TypeOK
    <3>2. rows' = [rows EXCEPT ![s].status = IF procs[p].ok THEN "OK" ELSE "FAILED",
                               ![s].active = IF procs[p].kind = "ping" THEN procs[p].ok ELSE @]
        BY <1>6 DEF RecordStatus
    <3> PICK status : status = IF procs[p].ok THEN "OK" ELSE "FAILED"
        OBVIOUS
    <3>3. status \in {"OK", "FAILED"}
        OBVIOUS
    <3>4. CASE procs[p].kind = "ping"
        BY <3>1, <3>2, <3>3, <3>4
    <3>5. CASE procs[p].kind # "ping"
        BY <2>1, <3>1, <3>2, <3>3, <3>5 DEF Row
    <3> QED
        BY <3>4, <3>5
  <2> PICK row : row = [rows[s] EXCEPT !.status = status, !.active = active]
      OBVIOUS
  <2>3. /\ row \in Row /\ row.host = rows[s].host
        /\ row.facts = rows[s].facts /\ (row.installed <=> rows[s].installed)
      BY <2>1 DEF Row
  <2>4. rows' = [rows EXCEPT ![s] = row] /\ UNCHANGED <<key, accounts, keyRemoved, moved>>
      BY <1>4, <2>2 DEF observers
  <2>5. s \notin moved' =>
             /\ row.facts \in {None, row.host}
             /\ row.installed /\ ~keyRemoved => Accepts(row.host, key)
      BY <2>1, <2>3, <2>4 DEF TrustedRow
  <2>6. moved \subseteq moved' /\ moved' \subseteq Servers
      BY <2>4 DEF Inv, TypeOK
  <2> QED
      BY <1>3, <1>6, <2>3, <2>4, <2>5, <2>6, RowStep
<1> QED
    BY <1>4, <1>5, <1>6 DEF RecordStatus

LEMMA RecordFactsStep ==
  ASSUME Inv, NEW p \in Procs, RecordFacts(p)
  PROVE  Inv' /\ Frozen
<1>1. procs[p].step \in RemoteSteps
    BY DEF RecordFacts, At, RemoteSteps
<1>2. procs[p] \in Remote /\ RequestOK(procs[p])
    BY <1>1, RequestShape DEF Inv, RequestsInv
<1>3. procs[p].row \in Servers /\ procs[p].host \in Hosts
    BY <1>2, RemoteFields
<1> PICK s \in Servers : s = procs[p].row
    BY <1>3
<1>4. Continue(p, Idle) /\ UNCHANGED <<key, accounts, observers>>
    BY DEF RecordFacts
<1>5. CASE UNCHANGED rows
    BY <1>4, <1>5, IdleIsFree, OnlyRequest
<1>6. CASE Live(s) /\ rows' = [rows EXCEPT ![s].facts = procs[p].host]
  <2>1. rows[s] \in Row /\ (s \notin moved => TrustedRow(s))
      BY <1>6, LiveRow
  <2> PICK row : row = [rows[s] EXCEPT !.facts = procs[p].host]
      OBVIOUS
  <2>2. /\ row \in Row /\ row.host = rows[s].host
        /\ row.facts = procs[p].host /\ (row.installed <=> rows[s].installed)
      BY <1>3, <2>1 DEF Row
  <2>3. rows' = [rows EXCEPT ![s] = row] /\ UNCHANGED <<key, accounts, keyRemoved, moved>>
      BY <1>4, <1>6 DEF observers
  <2>4. s \notin moved' =>
             /\ row.facts \in {None, row.host}
             /\ row.installed /\ ~keyRemoved => Accepts(row.host, key)
      BY <1>2, <2>1, <2>2, <2>3 DEF TrustedRow, RequestOK
  <2>5. moved \subseteq moved' /\ moved' \subseteq Servers
      BY <2>3 DEF Inv, TypeOK
  <2> QED
      BY <1>4, <1>6, <2>2, <2>3, <2>4, <2>5, IdleIsFree, RowStep
<1> QED
    BY <1>5, <1>6 DEF RecordFacts

\* The application's key goes from hand to hand only through its removal.
LEMMA KeyStepOK ==
  ASSUME Inv, KeyStep
  PROVE  Inv' /\ Frozen
<1>1. key' \in Keys \cup {NoKey, Writing, Broken}
    BY DEF KeyStep, KeyNext, Begin, Finish, Abandon, Remove
<1>2. keyRemoved' \in BOOLEAN /\ (~keyRemoved' => ~keyRemoved /\ (key \in Keys => key' = key))
    BY KeysAreKeys DEF Inv, TypeOK, KeyStep, KeyNext, Begin, Finish, Abandon, Remove, NoKey,
                       Writing, Broken
<1>3. UNCHANGED <<rows, accounts, procs, moved>>
    BY DEF KeyStep
<1>4. Lasting /\ Frozen
    BY <1>2, <1>3 DEF Lasting, Frozen
<1>5. TypeOK'
    BY <1>1, <1>2, <1>3 DEF Inv, TypeOK
<1>6. RequestsInv'
  <2> SUFFICES ASSUME NEW r \in Procs, procs[r] \in Remote PROVE RequestOK(procs[r])'
      BY <1>3 DEF RequestsInv
  <2> PICK q \in Remote : q = procs[r]
      OBVIOUS
  <2>1. RequestOK(q)'
      BY <1>4, RequestLasting DEF Inv, RequestsInv
  <2> QED
      BY <1>3, <2>1 DEF RequestOK, Accepts
<1>7. RowsInv'
  <2> SUFFICES ASSUME NEW x \in Servers, x \notin moved, rows[x] # NoRow PROVE TrustedRow(x)'
      BY <1>3 DEF RowsInv
  <2> PICK h \in Hosts : h = rows[x].host
      BY RowShape DEF Inv, Row
  <2>1. TrustedRow(x)
      BY DEF Inv, RowsInv
  <2>2. ASSUME rows[x].installed, ~keyRemoved'
        PROVE  Accepts(h, key)'
      BY <1>2, <1>4, <2>1, <2>2, AcceptsLasting DEF Inv, TrustedRow
  <2> QED
      BY <1>3, <2>1, <2>2 DEF TrustedRow, Accepts
<1> QED
    BY <1>4, <1>5, <1>6, <1>7 DEF Inv

-----------------------------------------------------------------------------
(* The specification. *)

LEMMA Initially == Init => Inv
<1> SUFFICES ASSUME Init PROVE Inv
    OBVIOUS
<1>1. TypeOK
    BY DEF Init, KeyInit, TypeOK, Account
<1>2. RowsInv /\ RequestsInv
    BY DEF Init, RowsInv, RequestsInv, Idle, Remote
<1> QED
    BY <1>1, <1>2 DEF Inv

LEMMA Inductive ==
  ASSUME Inv, [Next]_vars
  PROVE  Inv' /\ Frozen
<1>1. CASE KeyStep
    BY <1>1, KeyStepOK
<1>2. ASSUME NEW p \in Procs, Crud(p)
      PROVE  Inv' /\ Frozen
    BY <1>2, CreateServerStep, UpdateReadStep, UpdateWriteStep, DeleteServerStep DEF Crud
<1>3. ASSUME NEW p \in Procs, Connect(p)
      PROVE  Inv' /\ Frozen
  <2>1. ASSUME NEW s \in Servers, NEW kind \in Kinds, Load(p, kind, s)
        PROVE  Inv' /\ Frozen
      BY <2>1, LoadStep
  <2>2. CASE \E s \in Servers : \/ RemotePing(p, s) \/ RemoteConnect(p, s) \/ Collect(p, s)
                                \/ RunJob(p, s) \/ InstallSSHKey(p, s)
      BY <2>1, <2>2 DEF RemotePing, RemoteConnect, Collect, RunJob, InstallSSHKey, Kinds
  <2> QED
      BY <1>3, <2>2, DialKeyStep, DialPasswordStep, CheckKeyStep, LoginHostStep, GrepStep,
         AppendStep, VerifyStep, MarkStep, RecordStatusStep, RecordFactsStep DEF Connect
<1>4. CASE UNCHANGED vars
  <2>1. TypeOK' /\ RowsInv'
      BY <1>4 DEF Inv, TypeOK, RowsInv, TrustedRow, Accepts, vars, serverVars, observers
  <2>2. RequestsInv' /\ Frozen
      BY <1>4 DEF Inv, RequestsInv, RequestOK, Accepts, Frozen, vars, serverVars, observers
  <2> QED
      BY <2>1, <2>2 DEF Inv
<1> QED
    BY <1>1, <1>2, <1>3, <1>4 DEF Next

LEMMA Invariance == Spec => []Inv
  BY Initially, Inductive, PTL DEF Spec

\* Rows, accounts and requests are well-formed.
THEOREM TypeCorrect == Spec => []TypeOK
  BY Invariance, PTL DEF Inv

\* As long as no update has changed a row's address, its facts are of its
\* host, and its installed flag is true of the host's account unless the
\* application's key was deleted -- for any number of overlapping
\* installations, connections, updates and failures (server_service.go).
THEOREM Trustworthy == Spec => []RowTrustworthy
<1>1. Inv => RowTrustworthy
    BY DEF Inv, RowsInv, TrustedRow, RowTrustworthy, Live, NoRow
<1> QED
    BY <1>1, Invariance, PTL

\* No result that arrives late reaches a deleted row (the condition
\* deleted_at IS NULL of every UPDATE in server_repository.go).
THEOREM DeletedStays == Spec => DeletedIsFrozen
<1>1. ASSUME Inv, [Next]_vars
      PROVE  [Frozen]_vars
    BY <1>1, Inductive
<1> QED
    BY <1>1, Invariance, PTL DEF Spec, DeletedIsFrozen, Frozen
=============================================================================
