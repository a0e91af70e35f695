-------------------------- MODULE RegistriesProofs --------------------------
(***************************************************************************)
(* Proofs about Registries: there is never more than one default, and it   *)
(* is lost only on purpose, for any number of rows, names and requests.    *)
(***************************************************************************)
EXTENDS Registries, TLAPS

\* Only a transaction that appoints a default clears one, and what it has
\* cleared is a row of the table.
Sound(tx) ==
    /\ tx.new.state = "live"
    /\ tx.step \in {"clear", "clear_lock"} => tx.new.default = "yes"
    /\ tx.cleared # None => tx.new.default = "yes" /\ rows[tx.cleared] \in Row
ClearedInv == \A p \in Procs : InTx(p) => Sound(procs[p])

\* A transaction about to commit a new default has cleared the old one, and
\* there is no other such transaction.
Appointing(p) == At(p, "commit") /\ procs[p].new.default = "yes"
PendingInv ==
    \A p \in Procs : Appointing(p) =>
        /\ \A r \in Registries : Default(r) => r \in {procs[p].target, procs[p].cleared}
        /\ \A q \in Procs : Appointing(q) => q = p

Inv == TypeOK /\ AtMostOneDefault /\ ClearedInv /\ PendingInv

-----------------------------------------------------------------------------

LEMMA InitInv == Init => Inv
  BY DEF Init, Inv, TypeOK, AtMostOneDefault, ClearedInv, PendingInv, Appointing, Default, Live,
         InTx, At, Idle, Answers, NoRow

\* Where a request stands is an answer or a transaction.
LEMMA Shape ==
  ASSUME TypeOK, NEW p \in Procs
  PROVE  (InTx(p) => procs[p] \in Tx) /\ (~InTx(p) => procs[p] \in Idle)
  BY DEF TypeOK, InTx, Idle, Tx, Steps

\* What Continue does to the requests.
LEMMA Moves ==
  ASSUME TypeOK, NEW p \in Procs, NEW q \in Idle \cup Tx, Continue(p, q)
  PROVE  /\ procs' \in [Procs -> Idle \cup Tx]
         /\ procs'[p] = q
         /\ \A o \in Procs \ {p} : procs'[o] = procs[o]
  BY DEF TypeOK, Continue

\* A step that leaves the table alone and does not reach the commit.
LEMMA QuietStep ==
  ASSUME Inv, NEW p \in Procs, NEW q \in Idle \cup Tx, Continue(p, q), UNCHANGED rows,
         q.step # "commit", q.step # "idle" => Sound(q)
  PROVE  Inv'
<1>1. /\ procs' \in [Procs -> Idle \cup Tx]
      /\ procs'[p] = q
      /\ \A o \in Procs \ {p} : procs'[o] = procs[o]
    BY Moves DEF Inv
<1>2. TypeOK'
    BY <1>1 DEF Inv, TypeOK
<1>3. AtMostOneDefault'
    BY DEF Inv, AtMostOneDefault, Default, Live
<1>4. ClearedInv'
    BY <1>1 DEF Inv, ClearedInv, Sound, InTx
<1>5. PendingInv'
    BY <1>1 DEF Inv, PendingInv, Appointing, At, Default, Live
<1> QED
    BY <1>2, <1>3, <1>4, <1>5 DEF Inv

\* A transaction that ends without effect.
LEMMA RollbackInv ==
  ASSUME Inv, NEW p \in Procs, NEW a \in Answers, Rollback(p, a)
  PROVE  Inv'
<1> DEFINE q == [step |-> "idle", answer |-> a]
<1>1. q \in Idle \cup Tx /\ q.step = "idle"
    BY DEF Idle
<1>2. Continue(p, q) /\ UNCHANGED rows
    BY DEF Rollback, Answer
<1> QED
    BY <1>1, <1>2, QuietStep

\* A transaction that goes on to a step other than the commit.
LEMMA GotoInv ==
  ASSUME Inv, NEW p \in Procs, InTx(p), NEW s \in Steps \ {"clear", "clear_lock", "commit"},
         Goto(p, s), UNCHANGED rows
  PROVE  Inv'
<1> DEFINE q == [procs[p] EXCEPT !.step = s]
<1>1. procs[p] \in Tx
    BY Shape DEF Inv
<1>2. q \in Tx /\ q.step = s /\ q.cleared = procs[p].cleared /\ q.new = procs[p].new
    BY <1>1 DEF Tx
<1>3. Continue(p, q)
    BY DEF Goto
<1>4. Sound(q)
    BY <1>2 DEF Inv, ClearedInv, Sound
<1> QED
    BY <1>2, <1>3, <1>4, QuietStep

-----------------------------------------------------------------------------

LEMMA BeginInv ==
  ASSUME Inv, NEW p \in Procs, NEW k \in {"create", "update"}, NEW r \in Registries,
         NEW n \in Names, NEW d \in {"yes", "no"}, Begin(p, k, r, n, d)
  PROVE  Inv'
<1> DEFINE new == [state |-> "live", name |-> n, default |-> d]
           q == [step |-> IF d = "yes" THEN "clear" ELSE "write", kind |-> k, target |-> r,
                 new |-> new, found |-> None, cleared |-> None]
<1>1. new \in Row
    BY DEF Row
<1>2. q \in Tx
    BY <1>1 DEF Tx, Steps
<1>3. Continue(p, q) /\ UNCHANGED rows
    BY DEF Begin
<1>4. q.step # "commit" /\ Sound(q)
    BY DEF Sound
<1> QED
    BY <1>2, <1>3, <1>4, QuietStep

LEMMA ClearInv ==
  ASSUME Inv, NEW p \in Procs, Clear(p)
  PROVE  Inv'
<1>1. InTx(p)
    BY DEF Clear, At, InTx
<1>2. ASSUME NEW r \in Registries,
             Continue(p, [procs[p] EXCEPT !.step = "clear_lock", !.found = r])
      PROVE  Inv'
    <2> DEFINE q == [procs[p] EXCEPT !.step = "clear_lock", !.found = r]
    <2>1. procs[p] \in Tx
        BY <1>1, Shape DEF Inv
    <2>2. /\ q \in Tx /\ q.step = "clear_lock"
          /\ q.cleared = procs[p].cleared /\ q.new = procs[p].new
        BY <2>1 DEF Tx, Steps
    <2>3. Sound(q)
        BY <1>1, <2>2 DEF Inv, ClearedInv, Sound, Clear, At
    <2> QED
        BY <1>2, <2>2, <2>3, QuietStep DEF Clear
<1>3. ASSUME Goto(p, "write") PROVE Inv'
    <2>1. "write" \in Steps \ {"clear", "clear_lock", "commit"}
        BY DEF Steps
    <2> QED
        BY <1>1, <1>3, <2>1, GotoInv DEF Clear
<1> QED
    BY <1>2, <1>3 DEF Clear

LEMMA ClearLockInv ==
  ASSUME Inv, NEW p \in Procs, ClearLock(p)
  PROVE  Inv'
<1> DEFINE r == procs[p].found
           c == IF Default(r) THEN r ELSE None
           q == [procs[p] EXCEPT !.step = "write", !.cleared = c]
<1>1. procs[p] \in Tx /\ Sound(procs[p]) /\ At(p, "clear_lock")
    BY Shape DEF Inv, ClearedInv, ClearLock, At, InTx
<1>2. r \in Registries \cup {None}
    BY <1>1 DEF Tx
<1>3. ASSUME Default(r), r \in Registries PROVE rows[r] \in Row
    BY <1>3 DEF Inv, TypeOK, Default, Live, NoRow
<1>4. ASSUME r = None PROVE Inv'
    <2>1. q \in Tx /\ q.step = "write" /\ q.cleared = None /\ q.new = procs[p].new
        BY <1>1, <1>4 DEF Tx, Steps
    <2>2. Sound(q)
        BY <1>1, <2>1 DEF Sound
    <2> QED
        BY <2>1, <2>2, QuietStep DEF ClearLock
<1>5. ASSUME r \in Registries PROVE Inv'
    <2>1. q \in Tx /\ q.step = "write" /\ q.cleared = c /\ q.new = procs[p].new
        BY <1>1, <1>5 DEF Tx, Steps
    <2>2. Sound(q)
        BY <1>1, <1>3, <1>5, <2>1 DEF Sound, At
    <2> QED
        BY <2>1, <2>2, QuietStep DEF ClearLock
<1> QED
    BY <1>2, <1>4, <1>5

LEMMA WriteInv ==
  ASSUME Inv, NEW p \in Procs, Write(p)
  PROVE  Inv'
<1>1. InTx(p) /\ "name_index" \in Steps \ {"clear", "clear_lock", "commit"} /\ "NOT_FOUND" \in Answers
    BY DEF Write, At, InTx, Steps, Answers
<1> QED
    BY <1>1, GotoInv, RollbackInv DEF Write

LEMMA NameIndexInv ==
  ASSUME Inv, NEW p \in Procs, NameIndex(p)
  PROVE  Inv'
<1>1. InTx(p) /\ "default_index" \in Steps \ {"clear", "clear_lock", "commit"} /\ "ALREADY_EXISTS" \in Answers
    BY DEF NameIndex, At, InTx, Steps, Answers
<1> QED
    BY <1>1, GotoInv, RollbackInv DEF NameIndex

\* Passing the index on is_default establishes PendingInv for the request.
LEMMA DefaultIndexInv ==
  ASSUME Inv, NEW p \in Procs, DefaultIndex(p)
  PROVE  Inv'
<1>1. procs[p] \in Tx /\ InTx(p)
    BY Shape DEF Inv, DefaultIndex, At, InTx
<1>2. ASSUME Rollback(p, "ALREADY_EXISTS") PROVE Inv'
    BY <1>2, RollbackInv DEF Answers
<1>3. ASSUME procs[p].new.default = "yes" => OtherDefault(p) = {},
             Goto(p, "commit"), UNCHANGED rows
      PROVE  Inv'
    <2> DEFINE q == [procs[p] EXCEPT !.step = "commit"]
    <2>1. /\ q \in Tx /\ q.step = "commit" /\ q.cleared = procs[p].cleared
          /\ q.target = procs[p].target /\ q.new = procs[p].new
        BY <1>1 DEF Tx, Steps
    <2>2. /\ procs' \in [Procs -> Idle \cup Tx]
          /\ procs'[p] = q
          /\ \A o \in Procs \ {p} : procs'[o] = procs[o]
        BY <1>3, <2>1, Moves DEF Inv, Goto
    <2> HIDE DEF q
    <2>3. TypeOK' /\ AtMostOneDefault'
        BY <1>3, <2>2 DEF Inv, TypeOK, AtMostOneDefault, Default, Live
    <2>4. ClearedInv'
        BY <1>1, <1>3, <2>1, <2>2 DEF Inv, ClearedInv, Sound, InTx
    <2>5. ASSUME procs[p].new.default = "yes"
          PROVE  /\ \A r \in Registries :
                       Default(r) => r \in {procs[p].target, procs[p].cleared}
                 /\ \A o \in Procs \ {p} : ~Appointing(o)
        BY <1>3, <2>5 DEF DefaultIndex, OtherDefault, Blockers, DefaultEntered, At, Appointing
    <2>6. \A o \in Procs \ {p} : Appointing(o)' <=> Appointing(o)
        BY <2>2 DEF Appointing, At
    <2>7. Appointing(p)' <=> procs[p].new.default = "yes"
        BY <2>1, <2>2 DEF Appointing, At
    <2>8. \A r \in Registries : Default(r)' <=> Default(r)
        BY <1>3 DEF Default, Live
    <2>9. ASSUME NEW o \in Procs, Appointing(o)'
          PROVE  /\ \A r \in Registries : Default(r)' => r \in {procs'[o].target, procs'[o].cleared}
                 /\ \A i \in Procs : Appointing(i)' => i = o
        <3>1. CASE o = p
            BY <2>1, <2>2, <2>5, <2>6, <2>7, <2>8, <2>9, <3>1
        <3>2. CASE o # p
            <4>1. Appointing(o)
                BY <2>6, <2>9, <3>2
            <4>2. ~Appointing(p)'
                BY <2>5, <2>7, <3>2, <4>1
            <4> QED
                BY <2>2, <2>6, <2>8, <3>2, <4>1, <4>2 DEF Inv, PendingInv
        <3> QED
            BY <3>1, <3>2
    <2>10. PendingInv'
        BY <2>9 DEF PendingInv
    <2> QED
        BY <2>3, <2>4, <2>10 DEF Inv
<1> QED
    BY <1>2, <1>3 DEF DefaultIndex

-----------------------------------------------------------------------------

\* A request that ends and makes no row the default.
LEMMA NoNewDefault ==
  ASSUME Inv, NEW p \in Procs, NEW a \in Answers, Answer(p, a),
         rows' \in [Registries -> Row \cup {NoRow}],
         \A r \in Registries : rows[r] \in Row => rows'[r] \in Row,
         \A r \in Registries : Default(r)' => Default(r)
  PROVE  Inv'
<1> DEFINE q == [step |-> "idle", answer |-> a]
<1>1. q \in Idle \cup Tx /\ q.step = "idle"
    BY DEF Idle
<1>2. /\ procs' \in [Procs -> Idle \cup Tx]
      /\ procs'[p] = q
      /\ \A o \in Procs \ {p} : procs'[o] = procs[o]
    BY <1>1, Moves DEF Inv, Answer
<1>3. TypeOK' /\ AtMostOneDefault'
    BY <1>2 DEF Inv, TypeOK, AtMostOneDefault
<1>4. ClearedInv'
    <2> SUFFICES ASSUME NEW o \in Procs, InTx(o)'
                 PROVE  Sound(procs[o])'
        BY DEF ClearedInv
    <2>1. o # p /\ procs'[o] = procs[o] /\ procs[o] \in Tx /\ Sound(procs[o])
        BY <1>1, <1>2, Shape DEF Inv, ClearedInv, InTx
    <2> QED
        BY <2>1 DEF Sound, Tx
<1>5. PendingInv'
    BY <1>1, <1>2 DEF Inv, PendingInv, Appointing, At
<1> QED
    BY <1>3, <1>4, <1>5 DEF Inv

LEMMA SoftDeletedInv ==
  ASSUME Inv, NEW p \in Procs, NEW r \in Registries, SoftDeleted(p, r)
  PROVE  Inv'
<1> DEFINE row == [rows[r] EXCEPT !.state = "deleted", !.default = "no"]
<1>1. rows[r] \in Row
    BY DEF Inv, TypeOK, SoftDeleted, Live, NoRow
<1>2. row \in Row /\ row.state = "deleted"
    BY <1>1 DEF Row
<1>3. /\ rows' \in [Registries -> Row \cup {NoRow}]
      /\ rows'[r] = row
      /\ \A s \in Registries \ {r} : rows'[s] = rows[s]
    BY <1>2 DEF Inv, TypeOK, SoftDeleted
<1> HIDE DEF row
<1>4. \A s \in Registries : rows[s] \in Row => rows'[s] \in Row
    BY <1>2, <1>3
<1>5. \A s \in Registries : Default(s)' => Default(s)
    BY <1>2, <1>3 DEF Default, Live
<1>6. PICK a \in Answers : Answer(p, a)
    BY DEF SoftDeleted, Answers
<1> QED
    BY <1>3, <1>4, <1>5, <1>6, NoNewDefault

\* What a commit does to the table.
LEMMA Committed ==
  ASSUME Inv, NEW p \in Procs, Commit(p)
  PROVE  /\ InTx(p) /\ procs[p] \in Tx /\ Sound(procs[p])
         /\ rows' \in [Registries -> Row \cup {NoRow}]
         /\ \A r \in Registries : rows[r] \in Row => rows'[r] \in Row
         /\ rows'[procs[p].target] = procs[p].new
         /\ \A r \in Registries \ {procs[p].target} :
               Default(r)' <=> Default(r) /\ r # procs[p].cleared
<1> DEFINE tx == procs[p]
           freed(r) == [rows[r] EXCEPT !.default = "no"]
<1>1. InTx(p) /\ tx \in Tx /\ Sound(tx)
    BY Shape DEF Inv, ClearedInv, Commit, At, InTx
<1>2. tx.new \in Row /\ tx.target \in Registries
    BY <1>1 DEF Tx
<1>3. ASSUME NEW r \in Registries, r = tx.cleared
      PROVE  /\ freed(r) \in Row
             /\ freed(r).default = "no"
    <2>1. rows[r] \in Row
        BY <1>1, <1>3, NoneAssumption DEF Sound
    <2> QED
        BY <2>1 DEF Row
<1>4. \A r \in Registries :
        rows'[r] = IF r = tx.target THEN tx.new
                   ELSE IF r = tx.cleared THEN freed(r) ELSE rows[r]
    BY DEF Commit
<1>5. \A r \in Registries : rows'[r] \in Row \cup {NoRow}
    BY <1>2, <1>3, <1>4 DEF Inv, TypeOK
<1>6. rows' \in [Registries -> Row \cup {NoRow}]
    BY <1>5 DEF Commit
<1>7. \A r \in Registries : rows[r] \in Row => rows'[r] \in Row
    BY <1>2, <1>3, <1>4
<1>8. ASSUME NEW r \in Registries \ {tx.target}
      PROVE  Default(r)' <=> Default(r) /\ r # tx.cleared
    <2>1. CASE r = tx.cleared
        BY <1>3, <1>4, <2>1 DEF Default
    <2>2. CASE r # tx.cleared
        BY <1>4, <2>2 DEF Default, Live
    <2> QED
        BY <2>1, <2>2
<1> QED
    BY <1>1, <1>2, <1>4, <1>6, <1>7, <1>8

LEMMA CommitInv ==
  ASSUME Inv, NEW p \in Procs, Commit(p)
  PROVE  Inv'
<1> DEFINE tx == procs[p]
<1>1. /\ InTx(p) /\ tx \in Tx
      /\ rows' \in [Registries -> Row \cup {NoRow}]
      /\ \A r \in Registries : rows[r] \in Row => rows'[r] \in Row
      /\ rows'[tx.target] = tx.new
      /\ \A r \in Registries \ {tx.target} : Default(r)' <=> Default(r) /\ r # tx.cleared
    BY Committed
<1>2. PICK a \in Answers : Answer(p, a)
    BY DEF Commit, Answers
<1>3. CASE tx.new.default # "yes"
    <2>1. \A r \in Registries : Default(r)' => Default(r)
        BY <1>1, <1>3 DEF Default
    <2> QED
        BY <1>1, <1>2, <2>1, NoNewDefault
<1>4. CASE tx.new.default = "yes"
    <2>1. Appointing(p)
        BY <1>4 DEF Appointing, Commit
    <2>2. \A r \in Registries : Default(r)' => r = tx.target
        BY <1>1, <2>1 DEF Inv, PendingInv
    <2>3. \A o \in Procs : Appointing(o) => o = p
        BY <2>1 DEF Inv, PendingInv
    <2> DEFINE q == [step |-> "idle", answer |-> a]
    <2>4. q \in Idle \cup Tx /\ q.step = "idle"
        BY DEF Idle
    <2>5. /\ procs' \in [Procs -> Idle \cup Tx]
          /\ procs'[p] = q
          /\ \A o \in Procs \ {p} : procs'[o] = procs[o]
        BY <1>2, <2>4, Moves DEF Inv, Answer
    <2>6. TypeOK' /\ AtMostOneDefault'
        BY <1>1, <2>2, <2>5 DEF TypeOK, AtMostOneDefault
    <2>7. ClearedInv'
        <3> SUFFICES ASSUME NEW o \in Procs, InTx(o)'
                     PROVE  Sound(procs[o])'
            BY DEF ClearedInv
        <3>1. o # p /\ procs'[o] = procs[o] /\ procs[o] \in Tx /\ Sound(procs[o])
            BY <2>4, <2>5, Shape DEF Inv, ClearedInv, InTx
        <3> QED
            BY <1>1, <3>1 DEF Sound, Tx
    <2>8. PendingInv'
        BY <2>3, <2>4, <2>5 DEF PendingInv, Appointing, At
    <2> QED
        BY <2>6, <2>7, <2>8 DEF Inv
<1> QED
    BY <1>3, <1>4

-----------------------------------------------------------------------------

LEMMA StepInv == Inv /\ [Next]_vars => Inv'
<1> SUFFICES ASSUME Inv, [Next]_vars PROVE Inv'
    OBVIOUS
<1>1. CASE UNCHANGED vars
    BY <1>1 DEF vars, Inv, TypeOK, AtMostOneDefault, ClearedInv, Sound, PendingInv, Appointing,
                Default, Live, InTx, At
<1>2. ASSUME NEW p \in Procs, Request(p) PROVE Inv'
    <2>1. ASSUME NEW r \in Registries, SoftDelete(p, r) PROVE Inv'
        BY <2>1, SoftDeletedInv, RollbackInv DEF SoftDelete, NotFound, Answers
    <2>2. ASSUME NEW r \in Registries, NEW n \in Names, NEW d \in {"yes", "no"},
                 BeginCreate(p, r, n, d) \/ BeginUpdate(p, r, n, d)
          PROVE  Inv'
        BY <2>2, BeginInv, RollbackInv DEF BeginCreate, BeginUpdate, NotFound, Answers
    <2> QED
        BY <1>2, <2>1, <2>2 DEF Request
<1>3. ASSUME NEW p \in Procs, Proceed(p) PROVE Inv'
    <2>1. CASE Clear(p)
        BY <2>1, ClearInv
    <2>2. CASE ClearLock(p)
        BY <2>2, ClearLockInv
    <2>3. CASE Write(p)
        BY <2>3, WriteInv
    <2>4. CASE NameIndex(p)
        BY <2>4, NameIndexInv
    <2>5. CASE DefaultIndex(p)
        BY <2>5, DefaultIndexInv
    <2>6. CASE Commit(p)
        BY <2>6, CommitInv
    <2>7. CASE DeadlockAbort(p)
        BY <2>7, RollbackInv DEF DeadlockAbort, Answers
    <2> QED
        BY <1>3, <2>1, <2>2, <2>3, <2>4, <2>5, <2>6, <2>7 DEF Proceed
<1>4. ASSUME NEW p \in Procs, Fail(p) PROVE Inv'
    BY <1>4, RollbackInv DEF Fail, Answers
<1> QED
    BY <1>1, <1>2, <1>3, <1>4 DEF Next

LEMMA Invariance == Spec => []Inv
<1> QED
    BY InitInv, StepInv, PTL DEF Spec

\* Every reachable state is well typed.
THEOREM TypeCorrect == Spec => []TypeOK
<1>1. Inv => TypeOK
    BY DEF Inv
<1> QED
    BY <1>1, Invariance, PTL

\* There is never more than one default.
THEOREM UniqueDefault == Spec => []AtMostOneDefault
<1>1. Inv => AtMostOneDefault
    BY DEF Inv
<1> QED
    BY <1>1, Invariance, PTL

\* The table loses its default only to a request about that very row.
THEOREM DefaultKept == Spec => DefaultNotLost
<1> DEFINE Kept == \A r \in Registries : Default(r) /\ (\A s \in Registries : ~Default(s)') =>
                     \/ rows'[r].state = "deleted"
                     \/ \E p \in Procs : At(p, "commit") /\ procs[p].target = r /\ ~InTx(p)'
<1>1. ASSUME Inv, [Next]_vars PROVE [Kept]_vars
    <2> SUFFICES ASSUME Next, NEW r \in Registries, Default(r), \A s \in Registries : ~Default(s)'
                 PROVE  \/ rows'[r].state = "deleted"
                        \/ \E p \in Procs : /\ At(p, "commit") /\ procs[p].target = r
                                             /\ ~InTx(p)'
        BY <1>1
    <2>1. ASSUME UNCHANGED rows PROVE FALSE
        BY <2>1 DEF Default, Live
    <2>2. ASSUME NEW p \in Procs, NEW s \in Registries, SoftDeleted(p, s)
          PROVE  rows'[r].state = "deleted"
        <3>1. CASE s = r
            <4>1. rows[r] \in Row
                BY <1>1 DEF Inv, TypeOK, Default, Live, NoRow
            <4> QED
                BY <1>1, <2>2, <3>1, <4>1 DEF SoftDeleted, Inv, TypeOK, Row
        <3>2. CASE s # r
            BY <1>1, <2>2, <3>2 DEF SoftDeleted, Inv, TypeOK, Default, Live
        <3> QED
            BY <3>1, <3>2
    <2>3. ASSUME NEW p \in Procs, Commit(p)
          PROVE  At(p, "commit") /\ procs[p].target = r /\ ~InTx(p)'
        <3>1. /\ procs[p] \in Tx /\ Sound(procs[p])
              /\ rows'[procs[p].target] = procs[p].new
              /\ \A s \in Registries \ {procs[p].target} :
                    Default(s)' <=> Default(s) /\ s # procs[p].cleared
            BY <1>1, <2>3, Committed
        <3>2. At(p, "commit") /\ ~InTx(p)'
            BY <1>1, <2>3 DEF Commit, Answer, Continue, InTx, Inv, TypeOK
        <3>3. PICK t \in Registries : t = procs[p].target
            BY <3>1 DEF Tx
        <3>4. t # r => procs[p].cleared = r
            BY <3>1, <3>3
        <3>5. procs[p].cleared = r => Default(t)'
            BY <3>1, <3>3, NoneAssumption DEF Sound, Default, Live
        <3> QED
            BY <3>2, <3>3, <3>4, <3>5
    <2> QED
        BY <2>1, <2>2, <2>3 DEF Next, Request, Proceed, Fail, DeadlockAbort, Rollback,
           SoftDelete, NotFound, BeginCreate, BeginUpdate, Begin, Clear, ClearLock, Write, NameIndex, DefaultIndex
<1> QED
    BY <1>1, Invariance, PTL DEF Spec, DefaultNotLost
=============================================================================
