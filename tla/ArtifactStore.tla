--------------------------- MODULE ArtifactStore ---------------------------
(***************************************************************************)
(* The SQLite artifact store (storage.artifacts_sqlite).                   *)
(*                                                                         *)
(* A process opens one connection to the database file and shares it among *)
(* its threads under one re-entrant lock.  A thread runs one call of put   *)
(* or add_provenance; each SQL statement of the call is a step, so that    *)
(* threads of one process, and processes that share the file, interleave   *)
(* where the code lets them.  A process that crashes loses its open        *)
(* transaction; a process that is started again is another member of Procs.*)
(*                                                                         *)
(* The database is the set of committed facts.  A fact is the call that    *)
(* inserted it: a row of the artifacts table or a provenance link.         *)
(***************************************************************************)
EXTENDS ProvenanceGraph

CONSTANTS
    Procs,      \* processes that open the database file
    Threads,    \* threads that call the store
    ProcOf,     \* the process of a thread
    Ids,        \* artifact ids
    Calls,      \* the calls of put and add_provenance a thread may make
    Stored,     \* the facts already in the file
    NoThread,   \* the owner of a free lock
    NoCall      \* a thread that has not called yet

PutCall  == [op : {"put"}, id : Ids, payload : {"p1", "p2"}]
LinkCall == [op : {"link"}, src : Ids, tgt : Ids,
             rel : {"derived_from", "extracted_from",
                    "generated_from", "supersedes"}]
Call     == PutCall \cup LinkCall

ASSUME ProcOfAssumption == ProcOf \in [Threads -> Procs]
ASSUME CallsAssumption  == Calls \subseteq Call
ASSUME StoredAssumption ==
    /\ Stored \subseteq Call
    /\ \A f, g \in Stored : Key(f) = Key(g) => f = g
    /\ \A e \in EdgesOf(Stored) : HasRow(Stored, e[1]) /\ HasRow(Stored, e[2])
    /\ Acyclic(Ids, EdgesOf(Stored))
ASSUME NoThreadAssumption == NoThread \notin Threads
ASSUME NoCallAssumption   == NoCall \notin Call

VARIABLES
    db,         \* committed facts
    pending,    \* facts written in the open transaction of a process
    inTxn,      \* whether the connection of a process has a transaction
    open,       \* whether the connection of a process is open
    lock,       \* the thread that holds self._lock of a process
    pc,         \* where a thread is in its call
    call,       \* the call a thread makes
    visited,    \* visited of _would_create_cycle_sync
    queue,      \* its queue; only membership matters to the answer
    published   \* threads whose artifact.created/provenance.created is out

vars == <<db, pending, inTxn, open, lock, pc, call, visited, queue, published>>
txnVars == <<pending, inTxn>>
walkVars == <<visited, queue>>

Critical == {"check", "walk", "begin", "insert", "commit"}
Finished == {"done", "failed", "dead"}
PCs == {"idle", "wait", "publish"} \cup Critical \cup Finished

TypeOK ==
    /\ db \subseteq Call
    /\ pending \in [Procs -> SUBSET Call]
    /\ inTxn \in [Procs -> BOOLEAN]
    /\ open \in [Procs -> BOOLEAN]
    /\ lock \in [Procs -> Threads \cup {NoThread}]
    /\ pc \in [Threads -> PCs]
    /\ call \in [Threads -> Call \cup {NoCall}]
    /\ visited \in [Threads -> SUBSET Ids]
    /\ queue \in [Threads -> SUBSET Ids]
    /\ published \subseteq Threads

Init ==
    /\ db = Stored
    /\ pending = [p \in Procs |-> {}]
    /\ inTxn = [p \in Procs |-> FALSE]
    /\ open = [p \in Procs |-> TRUE]
    /\ lock = [p \in Procs |-> NoThread]
    /\ pc = [t \in Threads |-> "idle"]
    /\ call = [t \in Threads |-> NoCall]
    /\ visited = [t \in Threads |-> {}]
    /\ queue = [t \in Threads |-> {}]
    /\ published = {}

-----------------------------------------------------------------------------
\* What a statement on the connection of p reads: the committed facts and the
\* ones of the transaction its threads have open.
Visible(p) == db \cup pending[p]

\* SQLite has one writer: a statement that writes waits for the others.
OtherWriter(p) == \E q \in Procs \ {p} : inTxn[q]

Goto(t, to) == pc' = [pc EXCEPT ![t] = to]

\* Mutants: the lock table loses the other processes; an error path that keeps
\* the lock; no lock; a check that skips the target; no primary key; a walk
\* that never leaves the target.
ReleaseForgets(t) == lock' = [q \in {ProcOf[t]} |-> NoThread]
ReleaseSkipped(t) == UNCHANGED lock
LockIgnored(p) == TRUE
SourceExists(D, c) == HasRow(D, c.src)
NoPrimaryKey(D, c) == FALSE
NoLinksFrom(E, x) == {}

Release(t) == lock' = [lock EXCEPT ![ProcOf[t]] = NoThread]

\* rollback(), and what commit() leaves: no transaction, nothing pending.
EndTxn(p) ==
    /\ pending' = [pending EXCEPT ![p] = {}]
    /\ inTxn' = [inTxn EXCEPT ![p] = FALSE]

\* The lock can be taken.
LockFree(p) == lock[p] = NoThread

\* Both artifacts of a link exist.
EndpointsExist(D, c) == HasRow(D, c.src) /\ HasRow(D, c.tgt)

\* The INSERT violates the primary key.
Duplicate(D, c) == \E f \in D : Key(f) = Key(c)

\* The rows SELECT returns for the children of x in the walk.
LinksFrom(E, x) == Children(E, x)

\* A step inside "with self._lock" raises: the lock is released.
Fail(t) == Goto(t, "failed") /\ Release(t)

-----------------------------------------------------------------------------
(* A thread calls put or add_provenance.  put fails before the lock when    *)
(* the content hash does not match the payload or the payload cannot be     *)
(* serialised; add_provenance when source and target are the same.          *)
Enter(t) ==
    /\ pc[t] = "idle"
    /\ \E c \in Calls :
        /\ call' = [call EXCEPT ![t] = c]
        /\ \/ c.op = "put" /\ \E to \in {"wait", "failed"} : Goto(t, to)
           \/ c.op = "link" /\ c.src # c.tgt /\ Goto(t, "wait")
           \/ c.op = "link" /\ c.src = c.tgt /\ Goto(t, "failed")
    /\ UNCHANGED <<db, txnVars, open, lock, walkVars, published>>

Acquire(t) ==
    /\ pc[t] = "wait"
    /\ LockFree(ProcOf[t])
    /\ lock' = [lock EXCEPT ![ProcOf[t]] = t]
    /\ Goto(t, "check")
    /\ UNCHANGED <<db, txnVars, open, call, walkVars, published>>

\* Any statement on a closed connection raises.
ClosedConnection(t) ==
    /\ pc[t] = "check"
    /\ ~open[ProcOf[t]]
    /\ Fail(t)
    /\ UNCHANGED <<db, txnVars, open, call, walkVars, published>>

\* put: _exists_sync before the insert.
CheckAbsent(t) ==
    /\ pc[t] = "check" /\ call[t].op = "put"
    /\ open[ProcOf[t]]
    /\ \/ HasRow(Visible(ProcOf[t]), call[t].id) /\ Fail(t)
       \/ /\ ~HasRow(Visible(ProcOf[t]), call[t].id)
          /\ Goto(t, "begin")
          /\ UNCHANGED lock
    /\ UNCHANGED <<db, txnVars, open, call, walkVars, published>>

\* add_provenance: both artifacts exist; the walk starts at the target.
CheckEndpoints(t) ==
    /\ pc[t] = "check" /\ call[t].op = "link"
    /\ open[ProcOf[t]]
    /\ \/ /\ ~EndpointsExist(Visible(ProcOf[t]), call[t])
          /\ Fail(t)
          /\ UNCHANGED walkVars
       \/ /\ EndpointsExist(Visible(ProcOf[t]), call[t])
          /\ visited' = [visited EXCEPT ![t] = {call[t].tgt}]
          /\ queue' = [queue EXCEPT ![t] = {call[t].tgt}]
          /\ Goto(t, "walk")
          /\ UNCHANGED lock
    /\ UNCHANGED <<db, txnVars, open, call, published>>

\* One iteration of the loop of _would_create_cycle_sync.
Walk(t) ==
    /\ pc[t] = "walk"
    /\ \E cur \in queue[t] :
        LET next == LinksFrom(EdgesOf(Visible(ProcOf[t])), cur) IN
        \/ call[t].src \in next /\ Fail(t) /\ UNCHANGED walkVars
        \/ /\ call[t].src \notin next
           /\ visited' = [visited EXCEPT ![t] = @ \cup next]
           /\ queue' = [queue EXCEPT ![t] = (@ \ {cur}) \cup (next \ visited[t])]
           /\ UNCHANGED <<lock, pc>>
    /\ UNCHANGED <<db, txnVars, open, call, published>>

\* The queue is empty: the link closes no cycle.
WalkEnds(t) ==
    /\ pc[t] = "walk" /\ queue[t] = {}
    /\ Goto(t, "begin")
    /\ UNCHANGED <<db, txnVars, open, lock, call, walkVars, published>>

\* BEGIN IMMEDIATE.
Begin(t) ==
    /\ pc[t] = "begin"
    /\ \A q \in Procs : ~inTxn[q]
    /\ inTxn' = [inTxn EXCEPT ![ProcOf[t]] = TRUE]
    /\ Goto(t, "insert")
    /\ UNCHANGED <<db, pending, open, lock, call, walkVars, published>>

\* BEGIN IMMEDIATE raises, and the handler rolls back: busy_timeout passed
\* while another process held the write lock, or (were the lock not held) the
\* connection is already in a transaction.
BeginFails(t) ==
    /\ pc[t] = "begin"
    /\ \E q \in Procs : inTxn[q]
    /\ EndTxn(ProcOf[t]) /\ Fail(t)
    /\ UNCHANGED <<db, open, call, walkVars, published>>

\* INSERT, in a transaction of its own should none be open any more.
Insert(t) ==
    /\ pc[t] = "insert"
    /\ ~OtherWriter(ProcOf[t])
    /\ \/ /\ Duplicate(Visible(ProcOf[t]), call[t])
          /\ EndTxn(ProcOf[t]) /\ Fail(t)
       \/ /\ ~Duplicate(Visible(ProcOf[t]), call[t])
          /\ pending' = [pending EXCEPT ![ProcOf[t]] = @ \cup {call[t]}]
          /\ inTxn' = [inTxn EXCEPT ![ProcOf[t]] = TRUE]
          /\ Goto(t, "commit")
          /\ UNCHANGED lock
    /\ UNCHANGED <<db, open, call, walkVars, published>>

\* commit(), which does nothing when no transaction is open.
Commit(t) ==
    /\ pc[t] = "commit"
    /\ db' = db \cup pending[ProcOf[t]]
    /\ EndTxn(ProcOf[t])
    /\ Goto(t, "publish")
    /\ Release(t)
    /\ UNCHANGED <<open, call, walkVars, published>>

\* INSERT or commit raises for another reason (disk full, I/O error).
StorageError(t) ==
    /\ pc[t] \in {"insert", "commit"}
    /\ EndTxn(ProcOf[t]) /\ Fail(t)
    /\ UNCHANGED <<db, open, call, walkVars, published>>

\* The event is published outside the lock, after the commit.
Publish(t) ==
    /\ pc[t] = "publish"
    /\ published' = published \cup {t}
    /\ Goto(t, "done")
    /\ UNCHANGED <<db, txnVars, open, lock, call, walkVars>>

\* close() of the plugin's stop.
Close(p) ==
    /\ open[p] /\ LockFree(p)
    /\ open' = [open EXCEPT ![p] = FALSE]
    /\ UNCHANGED <<db, txnVars, lock, pc, call, walkVars, published>>

\* The process dies at any point.
Crash(p) ==
    /\ \E t \in Threads : ProcOf[t] = p /\ pc[t] \notin Finished
    /\ pc' = [t \in Threads |->
                IF ProcOf[t] = p /\ pc[t] \notin Finished THEN "dead" ELSE pc[t]]
    /\ lock' = [lock EXCEPT ![p] = NoThread]
    /\ open' = [open EXCEPT ![p] = FALSE]
    /\ EndTxn(p)
    /\ UNCHANGED <<db, call, walkVars, published>>

\* The steps of a call under way.
Step(t) ==
    \/ Acquire(t) \/ ClosedConnection(t) \/ CheckAbsent(t) \/ CheckEndpoints(t)
    \/ Walk(t) \/ WalkEnds(t) \/ Begin(t) \/ BeginFails(t) \/ Insert(t)
    \/ Commit(t) \/ Publish(t)

Next ==
    \/ \E t \in Threads : Enter(t) \/ Step(t) \/ StorageError(t)
    \/ \E p \in Procs : Close(p) \/ Crash(p)

\* Every thread keeps running: a step it can take it takes in the end.
Fairness == \A t \in Threads : WF_vars(Step(t))

Spec == Init /\ [][Next]_vars /\ Fairness

-----------------------------------------------------------------------------
(* No artifact is its own ancestor: the links committed to the file form no *)
(* cycle, whatever calls of add_provenance overlapped (the check of         *)
(* _would_create_cycle_sync and the INSERT are one critical section).       *)
LineageAcyclic == Acyclic(Ids, EdgesOf(db))

(* A call that returned without an exception left its row or link in the    *)
(* file, with the payload it was given, and it is still there: no rollback  *)
(* by another thread of the shared connection, crash or later call took it. *)
SuccessMeansPersisted ==
    \A t \in Threads : pc[t] \in {"publish", "done"} => call[t] \in db

(* The trajectory never announces an artifact or link that is not in the    *)
(* file, and never announces the same one twice.                            *)
EventsMatchFacts ==
    /\ \A t \in published : call[t] \in db
    /\ \A t, u \in published : Key(call[t]) = Key(call[u]) => t = u

(* A link never names an artifact that is not stored.                       *)
NoDanglingLinks ==
    \A e \in EdgesOf(db) : HasRow(db, e[1]) /\ HasRow(db, e[2])

(* Artifacts and links are immutable: a step never removes or rewrites what *)
(* is committed, and never commits a second payload for an id.              *)
CommittedForever ==
    [][/\ db \subseteq db'
       /\ \A f, g \in db' : Key(f) = Key(g) => f = g]_vars

(* Every call that waits for the lock comes back, with a result or an       *)
(* exception, unless its process dies: no error path keeps the lock.        *)
CallsReturn == \A t \in Threads : pc[t] = "wait" ~> pc[t] \in Finished

(* To its callers the store of one process is the contract's ledger: each   *)
(* step records one admissible fact, announces one, or changes nothing seen.*)
Ledger == INSTANCE ArtifactLedger
            WITH facts <- db, announced <- {call[t] : t \in published}
ImplementsLedger == Ledger!Spec

-----------------------------------------------------------------------------
(* Why the store is right: each part is preserved by every step.            *)

\* A thread beyond "idle" has a call; a link under way is no self-link.
CallInv ==
    \A t \in Threads :
        /\ pc[t] \notin {"idle", "dead"} => call[t] \in Call
        /\ /\ pc[t] \notin {"idle", "dead", "failed"}
           /\ call[t].op = "link"
           => call[t].src # call[t].tgt
        /\ pc[t] = "walk" => call[t].op = "link"

\* A thread in the critical section holds the lock of its process.
LockInv == \A t \in Threads : pc[t] \in Critical => lock[ProcOf[t]] = t

\* One transaction at a time, between the BEGIN and the end of one call; it
\* holds what that call inserted and nothing of another thread.
TxnInv ==
    /\ \A p \in Procs :
        /\ pending[p] # {} => inTxn[p]
        /\ inTxn[p] => \E t \in Threads :
                          ProcOf[t] = p /\ pc[t] \in {"insert", "commit"}
    /\ \A p, q \in Procs : inTxn[p] /\ inTxn[q] => p = q
    /\ \A t \in Threads :
        /\ pc[t] = "insert" => inTxn[ProcOf[t]] /\ pending[ProcOf[t]] = {}
        /\ pc[t] = "commit" => /\ inTxn[ProcOf[t]]
                               /\ pending[ProcOf[t]] = {call[t]}
                               /\ ~Duplicate(db, call[t])

UniqueKeys == \A f, g \in db : Key(f) = Key(g) => f = g

\* No two calls that succeeded stored the same key; only a call that is over
\* has been announced.
SuccessInv ==
    /\ \A t \in published : pc[t] = "done"
    /\ \A t, u \in Threads :
        /\ pc[t] \in {"publish", "done"} /\ pc[u] \in {"publish", "done"}
        /\ Key(call[t]) = Key(call[u])
        => t = u

\* What the existence check saw still holds at the INSERT.
EndpointsInv ==
    \A t \in Threads :
        /\ pc[t] \in {"walk", "begin", "insert", "commit"}
        /\ call[t].op = "link"
        => EndpointsExist(db, call[t])

(* What holds between the steps of any number of processes that share the   *)
(* file: the lock of a process covers the transaction from the check to the *)
(* commit, so what a check saw is still so at the INSERT.                   *)
StoreInv ==
    /\ CallInv /\ LockInv /\ TxnInv /\ UniqueKeys /\ SuccessInv
    /\ EndpointsInv /\ SuccessMeansPersisted /\ NoDanglingLinks

(* In one process the walk of _would_create_cycle_sync sees a stable graph: *)
(* what it has left the queue of is closed, and stays so until the commit,  *)
(* with the new link's target inside and its source outside.                *)
WalkInv ==
    \A t \in Threads :
        /\ pc[t] \in {"walk", "begin", "insert", "commit"}
        /\ call[t].op = "link"
        => /\ call[t].tgt \in visited[t] /\ call[t].src \notin visited[t]
           /\ queue[t] \subseteq visited[t]
           /\ \A e \in EdgesOf(db) :
                e[1] \in visited[t] \ queue[t] => e[2] \in visited[t]
           /\ pc[t] # "walk" => queue[t] = {}
=============================================================================
