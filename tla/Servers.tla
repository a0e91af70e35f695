------------------------------ MODULE Servers ------------------------------
(***************************************************************************)
(* ServerService and the servers table: a row holds the address, the       *)
(* password and what is believed of a remote host; requests load it, talk  *)
(* to the host over SSH for seconds and write their results back, each     *)
(* statement on its own.  The application's key is KeyStore's; the remote  *)
(* hosts belong to the environment.                                        *)
(***************************************************************************)
EXTENDS KeyStore

CONSTANTS
    Servers,        \* ids of rows
    Hosts,          \* addresses
    Passwords,      \* what a row or a host can have as password
    Procs           \* request goroutines

\* A key is none of the other things the key file can hold.
ASSUME KeysAreKeys == Keys \cap {NoKey, Writing, Broken} = {}

VARIABLES
    rows,           \* table servers
    accounts,       \* remote accounts: password and keys in authorized_keys
    procs,          \* where each request stands and what it has read
    moved,          \* observer: rows whose address an update has changed
    keyRemoved      \* observer: the application's key was deleted

serverVars == <<rows, accounts, procs>>
observers == <<moved, keyRemoved>>
vars == <<key, serverVars, observers>>

None == "none"          \* NULL, or a pointer that is nil
NoRow == [state |-> "unused"]
Row == [state : {"live", "deleted"}, host : Hosts, password : Passwords \cup {None},
        active : BOOLEAN, installed : BOOLEAN,
        status : {None, "OK", "FAILED"},        \* FAILED: any last_status but OK
        facts : Hosts \cup {None}]              \* the host they were read on

Live(s) == rows[s].state = "live"

Account == [password : Passwords, authorized : SUBSET Keys]

Idle == [step |-> "idle"]
Kinds == {"ping", "connect", "collect", "job", "install"}
Updating == [step : {"update"}, row : Servers, password : Passwords \cup {None},
             kept : BOOLEAN]
Remote == [step : {"dial_key", "dial_password", "check_key", "login", "grep", "append",
                   "verify", "mark", "status", "facts"},
           kind : Kinds, row : Servers, host : Hosts, password : Passwords \cup {None},
           new : Keys \cup {None}, ok : BOOLEAN]

TypeOK ==
    /\ key \in Keys \cup {NoKey, Writing, Broken}
    /\ rows \in [Servers -> Row \cup {NoRow}]
    /\ accounts \in [Hosts -> Account]
    /\ procs \in [Procs -> {Idle} \cup Updating \cup Remote]
    /\ moved \subseteq Servers /\ keyRemoved \in BOOLEAN

Init ==
    /\ KeyInit
    /\ rows = [s \in Servers |-> NoRow]
    /\ accounts \in [Hosts -> [password : Passwords, authorized : {{}}]]
    /\ procs = [p \in Procs |-> Idle]
    /\ moved = {} /\ keyRemoved = FALSE

At(p, step) == procs[p].step = step
Continue(p, q) == procs' = [procs EXCEPT ![p] = q]
Goto(p, step) == Continue(p, [procs[p] EXCEPT !.step = step])

-----------------------------------------------------------------------------
(* CRUD *)

\* POST create: one INSERT.
CreateServer(p, s, h, pw) ==
    /\ At(p, "idle")
    /\ rows[s] = NoRow
    /\ rows' = [rows EXCEPT ![s] =
           [state |-> "live", host |-> h, password |-> pw, active |-> TRUE,
            installed |-> FALSE, status |-> None, facts |-> None]]
    /\ UNCHANGED <<key, accounts, procs, observers>>

\* Variant of ResolveSecret: the empty string itself is stored.
ResolveSecretEmpty(input, existing) ==
    IF input = "keep" THEN existing ELSE IF input = "clear" THEN "" ELSE input

\* resolveSecret: nil keeps, the empty string clears, anything else replaces.
ResolveSecret(input, existing) ==
    IF input = "keep" THEN existing ELSE IF input = "clear" THEN None ELSE input

\* PUT update reads the row for the secrets the request leaves out ...
UpdateRead(p, s, input) ==
    /\ At(p, "idle")
    /\ Live(s)
    /\ Continue(p, [step |-> "update", row |-> s, kept |-> input = "keep",
                    password |-> ResolveSecret(input, rows[s].password)])
    /\ UNCHANGED <<key, rows, accounts, observers>>

\* ... and writes every column but the flag and the results of connections.
UpdateWrite(p, h, a) ==
    LET s == procs[p].row IN
    /\ At(p, "update")
    /\ \/ /\ Live(s)
          /\ rows' = [rows EXCEPT ![s].host = h, ![s].password = procs[p].password,
                                  ![s].active = a]
          /\ moved' = IF h = rows[s].host THEN moved ELSE moved \cup {s}
       \/ UNCHANGED <<rows, moved>>     \* no such row, a taken name, a database error
    /\ Continue(p, Idle)
    /\ UNCHANGED <<key, accounts, keyRemoved>>

\* DELETE: soft delete.
DeleteServer(p, s) ==
    /\ At(p, "idle")
    /\ Live(s)
    /\ rows' = [rows EXCEPT ![s].state = "deleted"]
    /\ UNCHANGED <<key, accounts, procs, observers>>

-----------------------------------------------------------------------------
(* Requests that connect *)

\* loadServerForSSH, one query.
Load(p, kind, s) ==
    /\ At(p, "idle")
    /\ Live(s)
    /\ Continue(p, [step |-> IF kind = "install" THEN "check_key" ELSE "dial_key",
                    kind |-> kind, row |-> s, host |-> rows[s].host,
                    password |-> rows[s].password, new |-> None, ok |-> FALSE])
    /\ UNCHANGED <<key, rows, accounts, observers>>

RemotePing(p, s) == Load(p, "ping", s)
RemoteConnect(p, s) == Load(p, "connect", s)

\* System, containers, images, services, logs.
Collect(p, s) == Load(p, "collect", s)

\* Deploy, PurgeImage.
RunJob(p, s) == Load(p, "job", s)

\* An installation needs a password.
InstallSSHKey(p, s) == Live(s) /\ rows[s].password # None /\ Load(p, "install", s)

\* The request is done with the host and its secrets; the outcome goes to the row.
Outcome(p, ok) ==
    Continue(p, [procs[p] EXCEPT !.step = "status", !.ok = ok,
                                 !.password = None, !.new = None])

\* With a session: what the host answers is not the connection's success,
\* except for a job, which records whether its steps went well.
UseSession(p) ==
    \/ Outcome(p, TRUE)
    \/ procs[p].kind = "job" /\ Outcome(p, FALSE)

Accepts(h, k) == k \in accounts[h].authorized

\* establish tries the application's key if there is one.  A network error
\* ends the attempt, a refusal leads to the password.
DialKey(p) ==
    /\ At(p, "dial_key")
    /\ \/ Accepts(procs[p].host, key) /\ UseSession(p)
       \/ Outcome(p, FALSE)                     \* network or session error
       \/ ~Accepts(procs[p].host, key) /\ Goto(p, "dial_password")
    /\ UNCHANGED <<key, rows, accounts, observers>>

DialPassword(p) ==
    LET q == procs[p] IN
    /\ At(p, "dial_password")
    /\ \/ q.password = accounts[q.host].password /\ UseSession(p)
       \/ Outcome(p, FALSE)
    /\ UNCHANGED <<key, rows, accounts, observers>>

\* InstallSSHKey: keys.Check; without a valid key the request is refused.
CheckKey(p) ==
    /\ At(p, "check_key")
    /\ IF key \in Keys
       THEN Continue(p, [procs[p] EXCEPT !.step = "login", !.new = key])
       ELSE Continue(p, Idle)
    /\ UNCHANGED <<key, rows, accounts, observers>>

LoginHost(p) ==
    LET q == procs[p] IN
    /\ At(p, "login")
    /\ \/ q.password = accounts[q.host].password /\ Goto(p, "grep")
       \/ Outcome(p, FALSE)
    /\ UNCHANGED <<key, rows, accounts, observers>>

\* The script looks for the key in authorized_keys ...
Grep(p) ==
    LET q == procs[p] IN
    /\ At(p, "grep")
    /\ \/ Accepts(q.host, q.new) /\ Goto(p, "verify")
       \/ ~Accepts(q.host, q.new) /\ Goto(p, "append")
       \/ Outcome(p, FALSE)
    /\ UNCHANGED <<key, rows, accounts, observers>>

\* Variant of Append: the flag is set as soon as the login worked.
AppendTrusted(p) ==
    LET q == procs[p] IN
    /\ At(p, "append")
    /\ \/ accounts' = [accounts EXCEPT ![q.host].authorized = @ \cup {q.new}]
       \/ UNCHANGED accounts
    /\ Goto(p, "mark")
    /\ UNCHANGED <<key, rows, observers>>

\* ... and appends it.  The session may be lost before or after.
Append(p) ==
    LET q == procs[p] IN
    /\ At(p, "append")
    /\ \/ /\ accounts' = [accounts EXCEPT ![q.host].authorized = @ \cup {q.new}]
          /\ Goto(p, "verify") \/ Outcome(p, FALSE)
       \/ UNCHANGED accounts /\ Outcome(p, FALSE)
    /\ UNCHANGED <<key, rows, observers>>

\* verifyKeyAuth connects again with the key that is on the disk by now.
Verify(p) ==
    /\ At(p, "verify")
    /\ \/ Accepts(procs[p].host, key) /\ Goto(p, "mark")
       \/ Outcome(p, TRUE)
    /\ UNCHANGED <<key, rows, accounts, observers>>

\* MarkSSHKeyInstalled; on an error or a deleted row the request goes on.
Mark(p) ==
    LET s == procs[p].row IN
    /\ At(p, "mark")
    /\ \/ /\ Live(s)
          /\ rows' = [rows EXCEPT ![s].installed = TRUE]
       \/ UNCHANGED rows
    /\ Outcome(p, TRUE)
    /\ UNCHANGED <<key, accounts, observers>>

\* Variant of RecordStatus: without the condition deleted_at IS NULL.
RecordStatusAnyRow(p) ==
    LET q == procs[p] IN
    /\ At(p, "status")
    /\ rows' = [rows EXCEPT ![q.row].status = IF q.ok THEN "OK" ELSE "FAILED",
                            ![q.row].active = IF q.kind = "ping" THEN q.ok ELSE @]
    /\ Continue(p, Idle)
    /\ UNCHANGED <<key, accounts, observers>>

\* UpdateConnectionStatus; only a ping sets is_active.  Then the answer, but
\* after a connection that has read the facts of the host.
RecordStatus(p) ==
    LET q == procs[p] IN
    /\ At(p, "status")
    /\ \/ /\ Live(q.row)
          /\ rows' = [rows EXCEPT ![q.row].status = IF q.ok THEN "OK" ELSE "FAILED",
                                  ![q.row].active = IF q.kind = "ping" THEN q.ok ELSE @]
       \/ UNCHANGED rows                        \* no such row, or a database error
    /\ \/ Continue(p, Idle)
       \/ q.kind = "connect" /\ q.ok /\ Goto(p, "facts")
    /\ UNCHANGED <<key, accounts, observers>>

\* UpdateFacts, a statement of its own.
RecordFacts(p) ==
    LET q == procs[p] IN
    /\ At(p, "facts")
    /\ \/ Live(q.row) /\ rows' = [rows EXCEPT ![q.row].facts = q.host]
       \/ UNCHANGED rows
    /\ Continue(p, Idle)
    /\ UNCHANGED <<key, accounts, observers>>

-----------------------------------------------------------------------------

\* POST create and DELETE of the application's key.
KeyStep ==
    /\ KeyNext
    /\ keyRemoved' = (keyRemoved \/ key' = NoKey)
    /\ UNCHANGED <<rows, accounts, procs, moved>>

Crud(p) ==
    \/ \E s \in Servers, h \in Hosts, pw \in Passwords \cup {None} : CreateServer(p, s, h, pw)
    \/ \E s \in Servers, input \in Passwords \cup {"keep", "clear"} : UpdateRead(p, s, input)
    \/ \E h \in Hosts, a \in BOOLEAN : UpdateWrite(p, h, a)
    \/ \E s \in Servers : DeleteServer(p, s)

Connect(p) ==
    \/ \E s \in Servers : \/ RemotePing(p, s) \/ RemoteConnect(p, s) \/ Collect(p, s)
                          \/ RunJob(p, s) \/ InstallSSHKey(p, s)
    \/ DialKey(p) \/ DialPassword(p)
    \/ CheckKey(p) \/ LoginHost(p) \/ Grep(p) \/ Append(p) \/ Verify(p) \/ Mark(p)
    \/ RecordStatus(p) \/ RecordFacts(p)

Next == KeyStep \/ \E p \in Procs : Crud(p) \/ Connect(p)

Spec == Init /\ [][Next]_vars

-----------------------------------------------------------------------------
(* Properties *)

\* The results of requests that were on their way when a row was deleted
\* (pings, connections, installations, updates) do not reach it any more.
DeletedIsFrozen ==
    [][\A s \in Servers : rows[s].state = "deleted" => rows'[s] = rows[s]]_vars

\* Where a row can be trusted: as long as no update has changed the address,
\* its facts are this host's, and with the installed flag, if the
\* application's key was never deleted, the account accepts the key -- however
\* installations, failures and other requests overlap.
RowTrustworthy ==
    \A s \in Servers \ moved : Live(s) =>
        /\ rows[s].facts \in {None, rows[s].host}
        /\ rows[s].installed /\ ~keyRemoved => Accepts(rows[s].host, key)

\* "nil: keep the current" secret (server_dto.go, UpdateServerInput).
KeptSecretStays ==
    [][\A p \in Procs : At(p, "update") /\ procs[p].kept /\ procs'[p] = Idle =>
         rows'[procs[p].row].password = rows[procs[p].row].password]_vars
=============================================================================
