# Formal models of dijex-api

TLA+ models of the Go service in this repository: what its concurrent parts do,
which properties they keep, which statements of its documentation they do not
keep, and machine-checked proofs of the most important of the former.

    tlasany M.tla                          parse a module
    tlc -workers 2 -config X.cfg M         model-check module M with X.cfg
    tlapm M.tla                            check the proofs of module M

`PROJECT.json` lists components, runs, mutants, the source lines every
definition stands for, findings, hazards and theorems.

## 1. The system

dijex-api is an HTTP service (chi router, PostgreSQL through pgx) with which
employees administer servers and container registries. Every request is a
goroutine; there are no queues and almost no locks. What a request knows it
reads from a table, and then it waits (for bcrypt, for a remote host, for
docker, for a registry) and writes back in a separate statement. All the hard
behaviour of the system comes from what happens during these waits.

| Component | State | Operations | Hard behaviour |
|---|---|---|---|
| Authentication (`service/auth_service.go`, `middleware/auth.go`, migrations 2, 3) | `employees`, `auth_tokens` | login, check of a bearer token, logout, detached write of `last_used_at`; triggers that revoke tokens when an employee is disabled | status read before a slow comparison; row judged after it was read; three uncoordinated writers of a token row; expiry |
| Application SSH key (`sshkey/manager.go`) | two files, one mutex | create, delete, check, load for a connection | crashes and errors between system calls; readers outside the mutex |
| Servers (`service/server_service.go`, `repository/postgres/server_repository.go`, `sshclient/connector.go`) | table `servers`; remote accounts | CRUD, connect, ping, remote collections, installation of the key | results that arrive after updates and deletions; lost updates; a remote script that is not atomic |
| Remote deploy (`remotedeploy`) | containers and images of the remote host | a chain of seven docker commands after a probe | jobs sharing a host; failures and retries in the middle; stale lists of ids |
| Remote purge (`remotepurge`) | the same | a chain of five after a probe | errors that look like absence |
| Registries (`service/registry_service.go`, `repository/postgres/registry_repository.go`) | table `registries`, at most one default | CRUD, connect, ping, list images | the default moves in a transaction at READ COMMITTED under a unique index; results of checks that arrive late |
| Registry client (`registryclient`) | none | check the credentials, list repositories and tags | an exchange of up to three requests that can fail at each; a few tag fetches at a time |
| Remote logs (`remotelogs`) | a bounded tail buffer per stream | collect | limit of the buffer, truncation; a session that cannot be opened |
| Container lists (`docker`, `remotedocker`) | none | list and inspect | the host changes between list and inspection; a script whose output breaks off |
| Service lists (`systemd`, `remotesystemd`) | none | list and ask for properties | the same, with two calls per unit and batches |
| System reports (`sysinfo`, `remoteinfo`) | a mutex and a cached address per collector | fan out, join | sections that fail while others append to the same list |
| Feedback (`service/feedback_service.go`, `notifier/telegram`) | table `feedback_requests` | create, then a detached notification | stored without an answer; at most one notification; lost on exit |
| Process (`cmd/api/main.go`, `postgres/migrator.go`, `transport/http/server.go`) | phase of the process, `schema_migrations` | migrate, serve, drain, exit | kill in the middle of a migration; a signal in any phase; draining against its timeout |
| Image lists, routing and other middleware | none | list; recover, CORS, ids | none of their own |
| Configuration, logging, geo lookup, crypto, validation | none | pure functions | none |

How they interact: the handlers of `servers` load a row, connect through
`sshclient.Connector` with the key of `sshkey.Manager` or the row's password,
run a collector, a deploy, a purge or the installation script on the remote
host, and write the outcome back to the row. Deploys also read a registry's
credentials. The bearer check precedes all of them. Nothing but single SQL
statements (and the transaction of the registries) and the mutex of the key
manager orders two requests.

What makes each part correct:

* Authentication: a session that is over stays over and admits nobody who comes
  later; the audit columns of a token tell a consistent story.
* SSH key: whatever crashes or fails, the private key file is one key, absent,
  being written or broken, and only a deletion makes room for a new key; both
  halves belong together; nobody is left waiting for the mutex.
* Deploy and purge: no container of somebody else is touched; a retry heals what
  a broken-off job has left; a reported success is real.
* Servers: a deleted row is frozen; the installed flag and the facts are set on
  evidence only, and about the host of the row.
* Registries: at most one live default, and a failed change changes nothing; a
  check says "authenticated" only of a password that the registry has accepted,
  and its result reaches a live row only.
* Whatever collects from others (logs, containers, services, reports, images,
  pages): what failed is told and costs nothing else, what nobody touched is
  there, once and right, and the answer comes.
* Feedback and process: an announced or confirmed request is stored; the process
  serves only with the whole schema, and a clean exit has cut nobody off.

## 2. Modules

| Module | Models | |
|---|---|---|
| `Sessions` | what the service promises about sessions | abstract |
| `Auth` | login, bearer check, logout, touches, triggers | implements `Sessions` |
| `MCAuth` | symmetry and view for TLC | |
| `AuthProofs` | theorems about `Auth` | TLAPS |
| `KeyStore` | what the private key file may look like to a reader | abstract |
| `SshKey` | the manager, one system call at a time | implements `KeyStore` |
| `SshKeyProofs` | theorems about `SshKey` | TLAPS |
| `Servers` | the row, the remote accounts, the requests | uses `KeyStore` as environment |
| `MCServers` | symmetry for TLC | |
| `ServersProofs` | theorems about `Servers` | TLAPS |
| `Registries` | creations, updates and deletions of registries, statement by statement | |
| `RegistriesProofs` | theorems about `Registries` | TLAPS |
| `DockerHost` | the docker engine of one host (external) | |
| `RemoteDeploy`, `RemotePurge` | the two runners | use `DockerHost` |
| `HostJobs` | deploys and purges sharing one host | composes the three |
| `MCHostJobs` | the set of jobs, and symmetry, for TLC | |
| `HostJobsProofs` | theorems about `HostJobs` | TLAPS |
| `ContainerLogs` | docker logs over SSH and the tail buffers | |
| `ContainerLists` | the list of containers, own host and remote | |
| `ServiceLists` | the list of systemd units, own host and remote | |
| `SystemReports` | overlapping reports, their sections and mutex | |
| `Listings` | reading a table page by page | |
| `RegistryChecks` | connect, ping and images of a registry | the row that `Registries` writes |
| `Collections` | one endpoint of the six at a time | composes the six |
| `MCCollections` | the sets of endpoints and the trimmed unit names for TLC | |
| `ListProofs` | inductive invariants of the three endpoints that answer lists | TLAPS |
| `CollectionProofs` | theorems about `Collections` | TLAPS, uses `ListProofs` |
| `Lifecycle` | process, migrations, shutdown, feedback | |
| `LifecycleProofs` | theorems about `Lifecycle` | TLAPS |

### Auth

`employees` and `tokens` are the tables; `requests` holds for every goroutine the
local variables of the function it is in; `touches` the detached goroutines of
`touchLastUsedAsync`. One action is one SQL statement or the Go code between
two: `LoginFind` (FindByEmail), `LoginVerify` (bcrypt and the status check on the
row read before), `LoginCreate` (INSERT), `Present` and `AuthFind` (middleware and
the join), `AuthJudge` (the checks of `Authenticate` on that row), `Handle`,
`Logout`, `Touch`. `AdminDisable`, `AdminEnable` and `AdminDelete` are an
administrator's statements together with their triggers and ON DELETE CASCADE.
`DatabaseError` ends a request with 500 wherever a statement can fail, and where
bcrypt answers with an error other than a mismatch.

The clock of the service and NOW() of the database are one variable, which is
how the deployment runs (one host); clock skew between the two is not modelled.
Hashes are the tokens themselves.

### SshKey and KeyStore

`priv` and `pub` are the files; "partial" stands for everything that does not parse.
`os.WriteFile` is two steps, for it truncates and then writes. `Crash` kills all
requests and frees the mutex. `Failures` says which system calls may fail.
`Check` has no mutex, so its two steps interleave with the others.
`KeyStore` has one variable: a key, absent, being written, or broken. `Stored` is
the refinement mapping: a partial file is "writing" while a request is between
truncating and writing it, "broken" otherwise.

### Servers

Every request that goes to the host loads the row first (`Load`): a ping
(`RemotePing`), a connect (`RemoteConnect`), a collection (`Collect`), a deploy or a
purge (`RunJob`) and the installation of the key (`InstallSSHKey`, only with a
password in the row). It tries the application's key and then the password
(`DialKey`, `DialPassword`); with the connection open, `UseSession` stands for what
it does there, and ends with OK or a failure. Every request records its outcome
(`RecordStatus`), and a connect that learnt the host's facts stores them in a
second statement (`RecordFacts`). The installation goes on instead with `CheckKey`,
`LoginHost`, `Grep` and `Append` (the two commands of the remote script), `Verify`,
`Mark`, `RecordStatus`. The row's `auth_method` is left out: nothing acts on it.
`UpdateRead` and `UpdateWrite` are the two
statements of an update; a column left out of the request is written back from
the first. The key moves as `KeyStore` says, which `SshKey` implements, so the two
modules compose. A row's host stands for its address (host, port and user
name); the three secrets behave alike and are represented by one. Two
observers, `moved` and `keyRemoved`, remember what a property needs to exclude.
`authorized_keys` is a set of keys: a line written twice has no effect on sshd.
Nobody but the installations edits it, which `RowTrustworthy` needs.

### Registries

`rows` is the committed table, `procs` the transactions: where each one is and
what it has written without committing it (`cleared`, and `new` from the step
`name_index` on). `Create` and `Update` share their steps: `Clear` and `ClearLock` are
`clearDefault` (find the row, then lock it and look at it again, as PostgreSQL
does at READ COMMITTED), `Write`, `NameIndex` and `DefaultIndex` the INSERT or UPDATE
(the row, and its entries in the two unique indexes), then `Commit`. `Rollback` is
the deferred one that every early return runs. `Blockers` says whose end a step
has to wait for; `DeadlockAbort` is PostgreSQL ending one of the transactions of a
cycle. A row keeps its name and whether it is the default; a transaction's own
effects become visible at `Commit`.

### DockerHost, RemoteDeploy, RemotePurge, HostJobs

The engine is modelled from the commands the runners send: `ps -a` filtered by
name or image, `stop`, `rm -f`, `image inspect`, `rmi -f`, `pull`, `run -d --name`,
`inspect`. A container keeps the reference it was made from (`ancestor` filter).
Every action of a runner is one command with its outcomes: executed and
answered, refused, executed in part with the answer lost, or never delivered.
`undisturbed` and `faultless` observe which jobs ran alone and without failing
commands; only properties read them. The runners' jobs run once, so the runs
end in states without successor and do not check deadlock.

In `HostJobs` a job is a deploy or a purge, whichever it begins as.

### ContainerLogs

`docker` is what the command meets on the host, `logs` the local state of
`Collect`: the probe, `docker logs` (a second session), the streams, the judgement of the
error by what stderr says. A byte is its position in the stream, so that a
buffer's content says which bytes were kept; `Write` is `tailWriter.Write`. Each of the two
goroutines of the SSH library writes chunks of any length up to `MaxChunk`, for
which io.Copy's buffer of 32 KiB stands; `ChunkFits` says that it is smaller than
the limit, as it is in the code (10 MiB): `Write` would report a
truncation for a first chunk of exactly the limit.

### ContainerLists, ServiceLists

`boxes` and `units` are the host, which changes while it is looked at; `sweep` and `scan`
are the collections. On the own host every call of the engine or of D-Bus is
an action, and the goroutines of the errgroup take the places its limit leaves.
On a remote host every script is one action that delivers all of its output, a
first part, or nothing. `steady`, `hurt`, `trouble` and `watch` are observers. A parser is
modelled by what it makes of its lines: `parseListUnits` cuts leading x from the
names of units, and `Trimmed` says what is left of each: the name of another unit,
or one that nobody has, of which `systemctl show` knows nothing. `Enriched` adds
the properties of a batch to the rows by name, so of two rows with one name the
last gets them. A script whose output breaks off before anything has come reads
as a host without systemctl.

### SystemReports

A section of a report is running, has an error to add, holds the mutex and has
read the list (`AddErrLock`), or is done (`AddErr`). The slice of errors is read and
written in two steps, since that is what append is without the mutex.
`publicIP` is the cache two requests may miss at the same time.

### Listings

`Count` and `SelectPage` are the two statements of a page; a client walks through
as many pages as `total_pages` tells. `Orders` are the answers ORDER BY allows.

### RegistryChecks

`registry` is the row, `docker_io` the registry (Docker Hub, or one that is open or asks for
basic authentication or a token, or for something unknown), `calls` the requests.
The login is the row's email, which is mandatory; only the password can be missing,
and is then tried as the empty one, except with Docker Hub, whose login asks for
both. A `lenient` registry accepts that. `docker_io.valid`, an observer, has the
passwords that the registry has accepted at some time. Each `Exchange` is one HTTP
request with every answer it can get; `CheckStatus` and `ListError` are the
classification of what ends it, `Authenticated` the answer's flag. A listing shows
the repositories the registry counts up to `MaxRepos` (`Cut`) and fetches the tags
of each. An update is one step here, with a new password, the old one or none;
`Registries` takes it apart.

### Collections

The six endpoints share no state, so a behaviour is a behaviour of one of
them, chosen at the beginning, and one run covers them all.

### Lifecycle

`server.phase` follows `main`: connect, migrate (file after file, each with its dirty
mark), wire, serve, drain, close. `Exit` ends every goroutine the process has.
`posts` are feedback requests from their arrival to their answer, `notices` the
goroutines of `notifyAsync`, `rows` and `messages` what the outside has of them. A request
whose client has left or whose WriteTimeout is over goes on unnoticed. Requests
arrive while the server drains, too, on connections it has already accepted, and
draining waits for them.

## 3. What is checked

| Run | Module, cfg | Shows |
|---|---|---|
| `sessions` | `MCAuth`, `MCAuth.cfg` | one life per session, late requests refused, consistent audit columns, final revocations; `Auth` implements `Sessions` |
| `login_race` | `MCAuth`, `MCAuthDisabled.cfg` | *violation*: a token for an employee disabled during the password comparison |
| `jobs` | `MCHostJobs`, `MCJobs.cfg` | two jobs, each a deploy or a purge: ordered reports, only targets are removed, a job left alone does its work whatever the other left behind, success is real |
| `purge_verified` | `MCHostJobs`, `MCPurgeVerified.cfg` | *violation*: success of a purge that could reach nothing |
| `ssh_key` | `SshKey`, `MCSshKey.cfg` | refinement, pairing, answers that are true, and no starvation, with crashes and failing writes |
| `create_yields_key` | `SshKey`, `MCCreateYieldsKey.cfg` | *violation*: a creation that answers without error and without usable key |
| `servers` | `MCServers`, `MCServers.cfg` | deleted rows are frozen; when the flag and the facts of a row can be trusted |
| `kept_secret_stays` | `MCServers`, `MCKeptSecretStays.cfg` | *violation*: an update restores a password another has changed |
| `registries` | `Registries`, `MCRegistries.cfg` | one default at most, never lost by accident; every transaction ends, deadlocks included |
| `collections` | `MCCollections`, `MCCollections.cfg` | the six endpoints: exact tails, whole and truthful lists and reports, pages that divide the table, checks that are authenticated only with a password the registry has accepted, listings of images without gaps, and an end for every collection of the own host |
| `logs_panic` | `MCCollections`, `MCLogsPanic.cfg` | *violation*: a request for logs that ends in a panic |
| `lifecycle` | `Lifecycle`, `MCLifecycle.cfg` | kills, signals and errors anywhere: whole schema, nothing announced or confirmed that is not stored, clean exits, and an end after a signal |

The violations are disagreements between the code and one of its own comments or
messages; PROJECT.json quotes each under "findings". Definitions called "Variant
of ..." are plausible bugs of a definition; each shows that a property is able to
fail.

`CHECK_DEADLOCK FALSE` stands where the system really may stop: jobs, collections
and starts of the process are used up, and rows of `servers` and `registries` stay
deleted.

### Bounds

* `MCAuth`: one employee, two tokens, two requests, a clock of two instants and a
  lifetime of one. Rows of different employees never meet in a statement. Two
  tokens and two requests are needed for a session to be revoked by the one
  request while the other is on its way, and for a login to overlap either. An
  expiry needs one tick. The view drops the last answer of an idle request,
  which no guard and no property reads.
* `MCHostJobs`: two jobs, two names, two references, three containers (one found
  on the host and one of each deploy). Every conflict of the chains is between
  two jobs; a third adds another disturbance of the same kinds. The host may
  hold one earlier container of any name, image and state.
* `MCSshKey`: two requests, two keys. With two keys the halves of a pair can
  differ; requests return to idle, so chains of operations of any length are
  covered. `ImplementsKeyStore` assumes that reads do not fail (`Failures` without
  "read"), and it has to: `Create` takes a failing read for the absence of a key.
* `MCServers`: one row, two addresses, two requests, one key that can be deleted
  and made again in `servers`; a second password in `kept_secret_stays`. Rows do
  not influence each other.
* `Registries`: three rows, two names, two requests that begin again and again.
  Three rows are a default, the one that replaces it and a third that competes;
  two requests are enough for every pair of steps to meet, for a row lock to be
  waited for, for the lost race on the index, and for deadlocks: one has entered
  a name the other wants, and needs the default of a row the other is updating. No
  symmetry, because of
  `TransactionsEnd`.

* `MCCollections`, all endpoints: containers are touched and rows of the table
  changed any number of times, at any point; unit 2 alone (`Restless`) changes, any
  number of times, the others stay steady. A failure of the registry lasts, and its
  password changes at most once, since none comes back. `MaxLogBytes` 4, chunks up to 3, streams up
  to 8: the buffer is filled exactly, overflows by one, and is replaced twice
  over. Two containers with one inspection at a time, three units with one call
  at a time and batches of two: something always waits, and a batch is not full.
  Two overlapping reports. Three rows, two values of the sort column (so there are
  ties), pages of every size up to one above the limit. The name of unit 3, trimmed,
  is the name of unit 1, so that two rows have one name. Two callers, three
  repositories of which two are shown, one tag fetch at a time; rows with and without
  a password, registries that accept a login without one and that do not. One caller
  at most lists images, and then no check runs next to it: a listing writes nothing,
  and reads nothing that a check writes.
* `MCLifecycle`: three starts (a kill in each of two migrations, and the start that
  meets the dirty schema), two migrations, two requests.

Symmetry sets hold only values that no guard, property or Init distinguishes and
are used with invariants and action properties; `ssh_key` and `registries`, which
check liveness, use none.

### Fairness

`Served` needs weak fairness of every step a request takes on its
own (a system call returns) and strong fairness of taking the mutex, which Go's
sync.Mutex grants (a waiter that has waited a millisecond is handed the lock).
`TransactionsEnd` needs strong fairness of the next step of a transaction: a
statement returns, and PostgreSQL queues those who wait for a lock, so nobody is
overtaken for ever. `CollectionEnds` needs weak fairness of the steps on the own
host: calls of the engine, of D-Bus and of the net are bounded by the context
of the request or by a timeout of their own, and goroutines are scheduled. It
claims nothing of remote hosts: the code runs commands there without a bound.
`SignalEnds` needs weak fairness of `main` itself (as far as the database answers) and
of the timer of Shutdown; handlers may hang. Nothing is assumed of clients, failures and crashes: `Enter`,
`Request`, `Fail` and `Crash` are not fair.

## 4. What is proved

The proofs hold for every value of the constants that the assumptions of the
modules admit; TLC has checked each formula first on the instances above. Every
invariant and action property of the passing runs has its theorem.

* `AuthProofs`. `TypeCorrect`: the types, action by action. `Finality`: no step
  changes date or reason of a revocation. `Admission`: the invariant
  `AdmissionInv` -- what a request holds from its read is no newer than the
  row: a row read as revoked or expired still is, and a late request carries a
  row that the checks refuse -- from which `NoLateService` follows. `Dates` and
  `Audit`: the dates of rows, requests under way and pending touches are ordered;
  the touches have to be in the invariant because they outlive their request.
  `Refinement`: `Auth` implements `Sessions`, each action mapped to a step or a
  stutter. Assumption: `TokenTTL` is positive.
* `SshKeyProofs`. The inductive invariant is `TypeOK`, `LockInv` (a request inside
  Create or Delete holds the mutex), `WriterInv` (what the files hold at each of
  its steps), `PairInv` and `VacancyInv` (a request about to generate has seen no
  key, unless reads fail). `PairConsistent` is not inductive: the halves differ
  while a creation is between them. From it: `TypeCorrect`, `MutualExclusion`,
  `Pairing`, `CreationStored`, and `Refinement` to `KeyStore` under the assumption
  that reads do not fail.
* `RegistriesProofs`. The inductive invariant adds to `TypeOK` and
  `AtMostOneDefault`: `ClearedInv` (only a transaction that appoints a default
  clears one, and the row exists) and `PendingInv` (a transaction about to commit
  a new default has cleared the old one and is the only such transaction, which
  is what passing the index on `is_default` establishes). From it: `TypeCorrect`,
  `UniqueDefault`, `DefaultKept`. Assumption: "none" is not an id.

* `HostJobsProofs`. `IInv` adds to the types that a report in progress is a chain
  (`Chain`: well up to the step the job is at, not run from there on), which
  `StrictlySequential` alone does not give, and `Aimed`: every id in a job's list
  is of a container that once matched the job. Since a container keeps its name and image
  and no id is used twice (`Keeps`), a stale id still is of a target or of nothing:
  `TypeCorrect`, `Sequential`, `OthersSafe`. `RealSuccess` rests on `RealInv`: from the start of
  its container on a deploy that nobody disturbs has its name to itself. `DeployHeals` and
  `PurgeHeals`: a job that nobody disturbs and whose commands do not fail does its work,
  whatever is on the host. Neither conclusion is inductive; `CleanInv` says what such a
  job knows at each place of its chain about the containers of its name and image
  (the collected ids are all of them, after the removal there are none, after `docker
  run` there is its own). A step of another job that would break it is one that
  disturbs. Assumption: the missing name (`NoName`) is no name.
* `ServersProofs`. `RequestsInv` follows the requests between `Load` and their last write:
  the host they talk to is their row's unless an update moved it, and one about
  to set the flag has seen the host accept the key. `Lasting` is what no step
  undoes, and carries all of it past the steps of other requests. From it:
  `TypeCorrect`, `Trustworthy`, `DeletedStays`. Assumption: a key is none of the
  other states of the file.
* `LifecycleProofs`. `Stories` (where a request, its row, its goroutine and its message can stand
  together), `SchemaInv` (a phase past the migrations has the whole schema, and a
  clean mark) and `QuietInv` (past draining no request is active) give `TypeCorrect`,
  `AnnouncedIsStored`, `WholeSchemaServed` and `CleanExit`, for any number of
  requests, migrations and starts.
* `CollectionProofs` and `ListProofs`. The endpoints share no state, so the invariant
  `Inv` is one conjunct for each, and a step is a step of one and a stutter of the
  others.
  * `LogsInv`: each buffer is the end of its stream. `LastBytesKept`, for any
    limit, stream and chunks; a chunk is shorter than the limit (`ChunkFits`).
  * `ReportInv` and `ReportTypes`: what each section has entered and what the holder of the mutex
    has read. `FailuresNamed`, for any number of overlapping reports.
  * `BoxInv`: on the own host the list agrees with the host on what nobody
    has touched, every row made without an inspection has an error, and every other
    row of a steady container is right (`LocalStory`); on a remote host the rows
    come from one inspection of all that was listed, and only trouble leaves it out
    (`RemoteStory`). `UntouchedContainersShown` and `NoErrorNothingMissed`, for any
    number of containers.
  * `UnitInv`: every unit is listed once, in its state and, on a remote host, under
    what is left of its name (`ListingStory`); a call or a batch that is over has
    brought its properties, or it is known to have failed and, on the own host, is
    an error (`LocalScan`, `RemoteScan`). `UntouchedUnitsShown` and
    `FailedCallsReported`, for any number of units, limit and size of a batch, and any
    trimming that leaves trimmed names alone. Of a remote host the former speaks
    of the units whose name stays and is no other's (`Alone`); on them a
    batch enriches the one row there is (`SingleIsLast`).
  * `ListInv` rests on the rank of a row, the number of matching rows
    before it: as long as none comes in, the rows that have been seen have ranks below
    the pages yet to come, and no rank grows; as long as none goes either, the k-th
    row seen has rank k - 1. `PagesDivideTables`, for tables and pages of any size. The
    lemmas about `Before` (a strict total order) and `Orders` carry it.
  * `RegInv`: a call that has a token, or is authenticated by a registry that is not
    open, holds a password that the registry accepted at some time, the missing one
    of a row without password included (`CallStory`); a listing has a row for each of the
    first repositories up to the limit, and a row without tags is of a fetch that
    failed. `OKMeansRightPassword`, `TagsOfOthersKept` and, step by step,
    `ActivityHasReason`: a live row alone changes, its activity only by an update or by
    the end of a check of that very outcome.
  * `TypeCorrect` holds the limits on inspections, property calls and tag fetches
    under way. Assumptions: the limits are positive, `RepoCount` is a number, the
    default size of a page is between 1 and the largest.

Only model-checked: `Served`, `TransactionsEnd`, `CollectionEnds` and `SignalEnds`, since
liveness under fairness is beyond the prover; and the violations, which are
counterexamples.

## 5. Worth knowing

Behaviour of the code that the models contain and no run calls a violation,
because nothing in the repository says otherwise, or only in passing:

* A deploy's verification asks for the name: another deploy's container with the
  same name passes it (`SuccessIsReal` speaks of undisturbed deploys only).
* A registry refused by the unique index on the default is answered "already
  exists". A registry's name stays taken after a soft delete.
* A registry that never answers holds its check until the client leaves, and the
  cancelled context then carries the UPDATE: the row stays active, which is only
  logged (`registry_service.go:512`). Any failure of the token request counts as
  AUTH_FAILED, as does a 5xx of Docker Hub's login.
* The login of a registry is mandatory (`registry_service.go:239`), so `hasCreds`
  (`checker.go:41`) is always true: a row without a password is tried as (email, "")
  and is `authenticated` by a registry that lets it in. The branch for a registry
  without credentials is never met. An open registry asks for nothing, and
  `authenticated` is true there, too.
* The comment on `UpdateConnectionStatus` (`registry_repository.go:109`) says that a
  failed check does not switch off an active registry, by a CASE. The statement
  is COALESCE, and a ping that fails passes FALSE (`registry_service.go:508`, "both
  ways"): only connect leaves an active row alone. `ActivityIsJustified` says what the
  code does.
* The `total` of a listing is Docker Hub's own count, but for other registries the
  number of repositories they have named when asked for 100 (`n=100`).
* The last ping to finish wins. `ConnectRegistry` and `UpdateRegistry` answer from or write back
  what they read earlier, like `UpdateServer`.
* `parseListUnits` trims leading x characters from unit names. If what is left is
  another unit's name, two rows have it: the last gets the properties, the
  other none.
* A server row whose address an update moves keeps the facts of the old host and
  the flag of the key, as it keeps the flag when the application's key is
  deleted; `RowTrustworthy` speaks of neither.
* A container that logs "permission denied" on stderr and whose `docker logs` then
  fails is reported as one the user may not read.
* The remote list of containers is empty and without an error if the script breaks
  off between its commands; a paused container is not running in the row that is
  made when its inspection fails.
* `system_handler.go:14` speaks of a 500 on a timeout; the handler always answers 200.
* Any error of the check in `Create` of the application's key is taken for absence.
  Two installations of the key can append it twice.
* `(page-1)*size` of an absurd page number overflows, and the database refuses the
  offset.

## 6. Not modelled, and why

* Image lists: the calls and the script of the container lists with one list call
  instead of inspections; no state, concurrency or order of their own.
* Routing and the middleware other than authentication: a fixed chain without state.
  Where a panic leaves a handler the models stop.
* What the collectors' sections measure and how their text is parsed, `dto`, validation,
  quoting, `clientinfo`, `geo`, `logger`, `config`, `crypto`: pure functions of text or
  bytes with unit tests of their own.
* The columns of a server that only describe it, the uniqueness of its name (a
  refused creation changes nothing), and the registry row a deploy reads.
* How long a remote command takes: `sess.Run` has no bound, so nothing that waits
  for a remote host is claimed to end.
* Clock skew, and PostgreSQL itself beyond statements, row locks and unique indexes.
* `AGENT`, `WINRM`, `RDP`: values the code stores and never acts on.

## 7. Plan

Done, in order of importance: `Sessions`, `Auth`; `DockerHost`, `RemoteDeploy`, `RemotePurge`, `HostJobs`;
`KeyStore`, `SshKey`; `Servers`; `Registries`; `Lifecycle`; the endpoints of `Collections`; and the proofs
about each, down to every invariant and action property of the passing runs. What
is left: a composition of `Servers` with `HostJobs`, where the row is updated while
the deploy it started goes on.
