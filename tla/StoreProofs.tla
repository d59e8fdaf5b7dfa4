---------------------------- MODULE StoreProofs ----------------------------
(***************************************************************************)
(* What the two stores guarantee: the artifact store for every number of   *)
(* processes, threads, artifacts and calls, the blob store for any number  *)
(* of processes, any digests and any layout of the directories.            *)
(*                                                                         *)
(* StoreInv is inductive with TypeOK; with one process WalkInv is too, and *)
(* gives the acyclicity of the lineage.  Of the blobs BlobInv is: they are *)
(* whole and references resolve.                                           *)
(***************************************************************************)
EXTENDS ArtifactStore, BlobStore, TLAPS

USE ProcOfAssumption, CallsAssumption, NoThreadAssumption, NoCallAssumption

(* The actions behind a step of a thread, and of a process.                 *)
LEMMA StepCases ==
    ASSUME Next
    PROVE  \/ \E t \in Threads :
                \/ Enter(t) \/ Acquire(t) \/ ClosedConnection(t)
                \/ CheckAbsent(t) \/ CheckEndpoints(t) \/ Walk(t)
                \/ WalkEnds(t) \/ Begin(t) \/ BeginFails(t) \/ Insert(t)
                \/ Commit(t) \/ Publish(t) \/ StorageError(t)
           \/ \E p \in Procs : Close(p) \/ Crash(p)
BY DEF Next, Step

-----------------------------------------------------------------------------
(* The fields of a call.                                                    *)
LEMMA CallFields ==
    ASSUME NEW c \in Call
    PROVE  /\ c.op \in {"put", "link"}
           /\ c.op = "link" => c.src \in Ids /\ c.tgt \in Ids /\ c \in LinkCall
           /\ c.op = "put" => c.id \in Ids /\ c \in PutCall
BY DEF Call, PutCall, LinkCall

(* Links join artifact ids.                                                 *)
LEMMA EdgesInIds ==
    ASSUME NEW D \in SUBSET Call
    PROVE  EdgesOf(D) \subseteq Ids \X Ids
BY CallFields DEF EdgesOf

(* A new fact adds its edge when it is a link, and no edge when it is a row. *)
LEMMA EdgesOfAdd ==
    ASSUME NEW D, NEW c
    PROVE  EdgesOf(D \cup {c}) =
             EdgesOf(D) \cup (IF c.op = "link" THEN {<<c.src, c.tgt>>} ELSE {})
BY DEF EdgesOf

(* What is stored stays stored.                                             *)
LEMMA HasRowGrows ==
    ASSUME NEW D, NEW E, D \subseteq E, NEW i, HasRow(D, i)
    PROVE  HasRow(E, i)
BY DEF HasRow, RowsOf

(* The initial states have the types.                                       *)
LEMMA TypeInit == Init => TypeOK
BY StoredAssumption DEF Init, TypeOK, PCs, Critical, Finished

(* Every step keeps the types, given that a thread under way has a call.    *)
LEMMA TypeNext == TypeOK /\ CallInv /\ [Next]_vars => TypeOK'
<1> SUFFICES ASSUME TypeOK /\ CallInv, [Next]_vars PROVE TypeOK'
  OBVIOUS
<1> USE DEF TypeOK, PCs, Critical, Finished
<1>1. ASSUME NEW t \in Threads, Enter(t) PROVE TypeOK'
  BY <1>1 DEF Enter, Goto, txnVars, walkVars
<1>2. ASSUME NEW t \in Threads, Acquire(t) PROVE TypeOK'
  BY <1>2 DEF Acquire, Goto, txnVars, walkVars
<1>3. ASSUME NEW t \in Threads, ClosedConnection(t) PROVE TypeOK'
  BY <1>3 DEF ClosedConnection, Fail, Release, Goto, txnVars, walkVars
<1>4. ASSUME NEW t \in Threads, CheckAbsent(t) PROVE TypeOK'
  BY <1>4 DEF CheckAbsent, Fail, Release, Goto, txnVars, walkVars
<1>5. ASSUME NEW t \in Threads, CheckEndpoints(t) PROVE TypeOK'
  <2>1. call[t] \in Call /\ call[t].tgt \in Ids
    BY <1>5, CallFields DEF CheckEndpoints, CallInv
  <2> QED BY <1>5, <2>1 DEF CheckEndpoints, Fail, Release, Goto, txnVars,
       walkVars
<1>6. ASSUME NEW t \in Threads, Walk(t) PROVE TypeOK'
  <2>1. \A cur : LinksFrom(EdgesOf(Visible(ProcOf[t])), cur) \subseteq Ids
    <3>1. Visible(ProcOf[t]) \in SUBSET Call
      BY DEF Visible
    <3> QED BY <3>1, EdgesInIds DEF LinksFrom, Children
  <2> QED BY <1>6, <2>1 DEF Walk, Fail, Release, Goto, txnVars, walkVars
<1>7. ASSUME NEW t \in Threads, WalkEnds(t) PROVE TypeOK'
  BY <1>7 DEF WalkEnds, Goto, txnVars, walkVars
<1>8. ASSUME NEW t \in Threads, Begin(t) PROVE TypeOK'
  BY <1>8 DEF Begin, Goto, txnVars, walkVars
<1>9. ASSUME NEW t \in Threads, BeginFails(t) PROVE TypeOK'
  BY <1>9 DEF BeginFails, EndTxn, Fail, Release, Goto, txnVars, walkVars
<1>10. ASSUME NEW t \in Threads, Insert(t) PROVE TypeOK'
  <2>1. call[t] \in Call
    BY <1>10 DEF Insert, CallInv
  <2>2. CASE Duplicate(Visible(ProcOf[t]), call[t])
    BY <1>10, <2>2 DEF Insert, EndTxn, Fail, Release, Goto, txnVars, walkVars
  <2>3. CASE ~Duplicate(Visible(ProcOf[t]), call[t])
    <3>1. pending[ProcOf[t]] \cup {call[t]} \in SUBSET Call
      BY <2>1
    <3>2. pending' \in [Procs -> SUBSET Call]
      BY <1>10, <2>3, <3>1 DEF Insert, EndTxn, Fail, Release, Goto
    <3> QED BY <1>10, <2>3, <3>2 DEF Insert, EndTxn, Fail, Release, Goto,
         txnVars, walkVars
  <2> QED BY <2>2, <2>3
<1>11. ASSUME NEW t \in Threads, Commit(t) PROVE TypeOK'
  BY <1>11 DEF Commit, EndTxn, Release, Goto, txnVars, walkVars
<1>12. ASSUME NEW t \in Threads, Publish(t) PROVE TypeOK'
  BY <1>12 DEF Publish, Goto, txnVars, walkVars
<1>13. ASSUME NEW t \in Threads, StorageError(t) PROVE TypeOK'
  BY <1>13 DEF StorageError, EndTxn, Fail, Release, Goto, txnVars, walkVars
<1>14. ASSUME NEW p \in Procs, Close(p) PROVE TypeOK'
  BY <1>14 DEF Close, txnVars, walkVars
<1>15. ASSUME NEW p \in Procs, Crash(p) PROVE TypeOK'
  BY <1>15 DEF Crash, EndTxn, txnVars, walkVars
<1>16. ASSUME UNCHANGED vars PROVE TypeOK'
  BY <1>16 DEF vars, txnVars, walkVars
<1> QED
  BY <1>1, <1>2, <1>3, <1>4, <1>5, <1>6, <1>7, <1>8, <1>9, <1>10, <1>11,
     <1>12, <1>13, <1>14, <1>15, <1>16, StepCases

(* CallInv is preserved.                                                    *)
LEMMA CallNext == TypeOK /\ CallInv /\ [Next]_vars => CallInv'
<1> SUFFICES ASSUME TypeOK /\ CallInv, [Next]_vars PROVE CallInv'
  OBVIOUS
<1> USE DEF TypeOK, CallInv, PCs, Critical, Finished
<1>1. ASSUME NEW t \in Threads, Enter(t) PROVE CallInv'
  BY <1>1 DEF Enter, Goto, txnVars, walkVars
<1>2. ASSUME NEW t \in Threads, Acquire(t) PROVE CallInv'
  BY <1>2 DEF Acquire, Goto, txnVars, walkVars
<1>3. ASSUME NEW t \in Threads, ClosedConnection(t) PROVE CallInv'
  BY <1>3 DEF ClosedConnection, Fail, Release, Goto, txnVars, walkVars
<1>4. ASSUME NEW t \in Threads, CheckAbsent(t) PROVE CallInv'
  BY <1>4 DEF CheckAbsent, Fail, Release, Goto, txnVars, walkVars
<1>5. ASSUME NEW t \in Threads, CheckEndpoints(t) PROVE CallInv'
  BY <1>5 DEF CheckEndpoints, Fail, Release, Goto, txnVars, walkVars
<1>6. ASSUME NEW t \in Threads, Walk(t) PROVE CallInv'
  BY <1>6 DEF Walk, Fail, Release, Goto, txnVars, walkVars
<1>7. ASSUME NEW t \in Threads, WalkEnds(t) PROVE CallInv'
  BY <1>7 DEF WalkEnds, Goto, txnVars, walkVars
<1>8. ASSUME NEW t \in Threads, Begin(t) PROVE CallInv'
  BY <1>8 DEF Begin, Goto, txnVars, walkVars
<1>9. ASSUME NEW t \in Threads, BeginFails(t) PROVE CallInv'
  BY <1>9 DEF BeginFails, EndTxn, Fail, Release, Goto, txnVars, walkVars
<1>10. ASSUME NEW t \in Threads, Insert(t) PROVE CallInv'
  BY <1>10 DEF Insert, EndTxn, Fail, Release, Goto, txnVars, walkVars
<1>11. ASSUME NEW t \in Threads, Commit(t) PROVE CallInv'
  BY <1>11 DEF Commit, EndTxn, Release, Goto, txnVars, walkVars
<1>12. ASSUME NEW t \in Threads, Publish(t) PROVE CallInv'
  BY <1>12 DEF Publish, Goto, txnVars, walkVars
<1>13. ASSUME NEW t \in Threads, StorageError(t) PROVE CallInv'
  BY <1>13 DEF StorageError, EndTxn, Fail, Release, Goto, txnVars, walkVars
<1>14. ASSUME NEW p \in Procs, Close(p) PROVE CallInv'
  BY <1>14 DEF Close, txnVars, walkVars
<1>15. ASSUME NEW p \in Procs, Crash(p) PROVE CallInv'
  BY <1>15 DEF Crash, EndTxn, txnVars, walkVars
<1>16. ASSUME UNCHANGED vars PROVE CallInv'
  BY <1>16 DEF vars, txnVars, walkVars
<1> QED
  BY <1>1, <1>2, <1>3, <1>4, <1>5, <1>6, <1>7, <1>8, <1>9, <1>10, <1>11,
     <1>12, <1>13, <1>14, <1>15, <1>16, StepCases

(* The variables of the store always hold values of their types.            *)
THEOREM TypeCorrect == Spec => []TypeOK
<1>1. Init => TypeOK /\ CallInv
  BY TypeInit DEF Init, CallInv
<1>2. TypeOK /\ CallInv /\ [Next]_vars => (TypeOK /\ CallInv)'
  BY TypeNext, CallNext
<1> QED BY <1>1, <1>2, PTL DEF Spec

-----------------------------------------------------------------------------
(* The lock admits one thread of a process to the critical section.         *)
LEMMA AloneInSection ==
    ASSUME TypeOK, LockInv, NEW t \in Threads, NEW u \in Threads,
           ProcOf[t] = ProcOf[u], pc[t] \in Critical, pc[u] \in Critical
    PROVE  t = u
BY DEF LockInv

(* LockInv is preserved.                                                    *)
LEMMA LockNext == TypeOK /\ LockInv /\ [Next]_vars => LockInv'
<1> SUFFICES ASSUME TypeOK /\ LockInv, [Next]_vars PROVE LockInv'
  OBVIOUS
<1> USE DEF TypeOK, LockInv, Critical, Finished
<1>1. ASSUME NEW t \in Threads, Enter(t) PROVE LockInv'
  BY <1>1 DEF Enter, Goto, txnVars, walkVars, LockFree
<1>2. ASSUME NEW t \in Threads, Acquire(t) PROVE LockInv'
  BY <1>2 DEF Acquire, Goto, txnVars, walkVars, LockFree
<1>3. ASSUME NEW t \in Threads, ClosedConnection(t) PROVE LockInv'
  BY <1>3 DEF ClosedConnection, Fail, Release, Goto, txnVars, walkVars, LockFree
<1>4. ASSUME NEW t \in Threads, CheckAbsent(t) PROVE LockInv'
  BY <1>4 DEF CheckAbsent, Fail, Release, Goto, txnVars, walkVars, LockFree
<1>5. ASSUME NEW t \in Threads, CheckEndpoints(t) PROVE LockInv'
  BY <1>5 DEF CheckEndpoints, Fail, Release, Goto, txnVars, walkVars, LockFree
<1>6. ASSUME NEW t \in Threads, Walk(t) PROVE LockInv'
  BY <1>6 DEF Walk, Fail, Release, Goto, txnVars, walkVars, LockFree
<1>7. ASSUME NEW t \in Threads, WalkEnds(t) PROVE LockInv'
  BY <1>7 DEF WalkEnds, Goto, txnVars, walkVars, LockFree
<1>8. ASSUME NEW t \in Threads, Begin(t) PROVE LockInv'
  BY <1>8 DEF Begin, Goto, txnVars, walkVars, LockFree
<1>9. ASSUME NEW t \in Threads, BeginFails(t) PROVE LockInv'
  BY <1>9 DEF BeginFails, EndTxn, Fail, Release, Goto, txnVars, walkVars,
       LockFree
<1>10. ASSUME NEW t \in Threads, Insert(t) PROVE LockInv'
  BY <1>10 DEF Insert, EndTxn, Fail, Release, Goto, txnVars, walkVars, LockFree
<1>11. ASSUME NEW t \in Threads, Commit(t) PROVE LockInv'
  BY <1>11 DEF Commit, EndTxn, Release, Goto, txnVars, walkVars, LockFree
<1>12. ASSUME NEW t \in Threads, Publish(t) PROVE LockInv'
  BY <1>12 DEF Publish, Goto, txnVars, walkVars, LockFree
<1>13. ASSUME NEW t \in Threads, StorageError(t) PROVE LockInv'
  BY <1>13 DEF StorageError, EndTxn, Fail, Release, Goto, txnVars, walkVars,
       LockFree
<1>14. ASSUME NEW p \in Procs, Close(p) PROVE LockInv'
  BY <1>14 DEF Close, txnVars, walkVars, LockFree
<1>15. ASSUME NEW p \in Procs, Crash(p) PROVE LockInv'
  BY <1>15 DEF Crash, EndTxn, txnVars, walkVars, LockFree
<1>16. ASSUME UNCHANGED vars PROVE LockInv'
  BY <1>16 DEF vars, txnVars, walkVars, LockFree
<1> QED
  BY <1>1, <1>2, <1>3, <1>4, <1>5, <1>6, <1>7, <1>8, <1>9, <1>10, <1>11,
     <1>12, <1>13, <1>14, <1>15, <1>16, StepCases

(* Before its BEGIN a call sees exactly the committed facts.                *)
LEMMA BeforeBegin ==
    ASSUME TypeOK, LockInv, TxnInv, NEW t \in Threads,
           pc[t] \in {"check", "walk", "begin"}
    PROVE  ~inTxn[ProcOf[t]] /\ pending[ProcOf[t]] = {}
<1>1. ~inTxn[ProcOf[t]]
  BY AloneInSection DEF TypeOK, TxnInv, Critical
<1> QED BY <1>1 DEF TxnInv

(* One thread in all is between a BEGIN and the end of its transaction.     *)
LEMMA SoleWriter ==
    ASSUME TypeOK, LockInv, TxnInv, NEW t \in Threads, NEW u \in Threads,
           pc[t] \in {"insert", "commit"}, pc[u] \in {"insert", "commit"}
    PROVE  t = u
<1>1. ProcOf[t] = ProcOf[u]
  BY DEF TxnInv
<1> QED BY <1>1, AloneInSection DEF Critical

(* A call that ends its transaction leaves none behind.                     *)
LEMMA TxnEnds ==
    ASSUME TypeOK, LockInv, TxnInv, NEW t \in Threads,
           pc[t] \in {"insert", "commit"}, EndTxn(ProcOf[t]),
           NEW to \in PCs \ {"insert", "commit"}, Goto(t, to)
    PROVE  TxnInv'
<1>1. \A u \in Threads : pc'[u] \notin {"insert", "commit"}
  BY SoleWriter DEF Goto, TypeOK
<1>2. \A p \in Procs : ~inTxn'[p] /\ pending'[p] = {}
  <2>1. inTxn[ProcOf[t]]
    BY DEF TxnInv
  <2>2. \A p \in Procs : p # ProcOf[t] => ~inTxn[p] /\ pending[p] = {}
    BY <2>1 DEF TxnInv
  <2> QED BY <2>2 DEF EndTxn, TypeOK
<1> QED BY <1>1, <1>2 DEF TxnInv

(* TxnInv is preserved.                                                     *)
LEMMA TxnNext == TypeOK /\ LockInv /\ TxnInv /\ [Next]_vars => TxnInv'
<1> SUFFICES ASSUME TypeOK /\ LockInv /\ TxnInv, [Next]_vars PROVE TxnInv'
  OBVIOUS
<1>1. ASSUME NEW t \in Threads, Enter(t) PROVE TxnInv'
  BY <1>1 DEF Enter, Goto, txnVars, walkVars, TxnInv, TypeOK, Critical, Finished
<1>2. ASSUME NEW t \in Threads, Acquire(t) PROVE TxnInv'
  BY <1>2 DEF Acquire, Goto, txnVars, walkVars, TxnInv, TypeOK, Critical,
       Finished
<1>3. ASSUME NEW t \in Threads, ClosedConnection(t) PROVE TxnInv'
  BY <1>3 DEF ClosedConnection, Fail, Release, Goto, txnVars, walkVars, TxnInv,
       TypeOK, Critical, Finished
<1>4. ASSUME NEW t \in Threads, CheckAbsent(t) PROVE TxnInv'
  BY <1>4 DEF CheckAbsent, Fail, Release, Goto, txnVars, walkVars, TxnInv,
       TypeOK, Critical, Finished
<1>5. ASSUME NEW t \in Threads, CheckEndpoints(t) PROVE TxnInv'
  BY <1>5 DEF CheckEndpoints, Fail, Release, Goto, txnVars, walkVars, TxnInv,
       TypeOK, Critical, Finished
<1>6. ASSUME NEW t \in Threads, Walk(t) PROVE TxnInv'
  BY <1>6 DEF Walk, Fail, Release, Goto, txnVars, walkVars, TxnInv, TypeOK,
       Critical, Finished
<1>7. ASSUME NEW t \in Threads, WalkEnds(t) PROVE TxnInv'
  BY <1>7 DEF WalkEnds, Goto, txnVars, walkVars, TxnInv, TypeOK, Critical,
       Finished
<1>8. ASSUME NEW t \in Threads, Begin(t) PROVE TxnInv'
  BY <1>8 DEF Begin, Goto, txnVars, walkVars, TxnInv, TypeOK, Critical, Finished
<1>9. ASSUME NEW t \in Threads, BeginFails(t) PROVE TxnInv'
  <2>1. pending' = pending /\ inTxn' = inTxn
    BY <1>9, BeforeBegin DEF BeginFails, EndTxn, TypeOK
  <2> QED BY <1>9, <2>1 DEF BeginFails, Fail, Goto, TxnInv, TypeOK
<1>10. ASSUME NEW t \in Threads, Insert(t) PROVE TxnInv'
  <2>1. CASE Duplicate(Visible(ProcOf[t]), call[t])
    BY <1>10, <2>1, TxnEnds DEF Insert, Fail, PCs, Finished
  <2>2. CASE ~Duplicate(Visible(ProcOf[t]), call[t])
    <3>1. /\ pending' = [pending EXCEPT ![ProcOf[t]] = @ \cup {call[t]}]
          /\ inTxn' = [inTxn EXCEPT ![ProcOf[t]] = TRUE]
          /\ Goto(t, "commit")
          /\ pc[t] = "insert" /\ db' = db /\ call' = call
      BY <1>10, <2>2 DEF Insert, Fail, Goto
    <3>2. inTxn[ProcOf[t]] /\ pending[ProcOf[t]] = {}
      BY <3>1 DEF TxnInv
    <3>3. inTxn' = inTxn /\ pending'[ProcOf[t]] = {call[t]}
      BY <3>1, <3>2 DEF TypeOK
    <3>4. ~Duplicate(db, call[t])
      BY <2>2 DEF Duplicate, Visible
    <3>5. \A u \in Threads : u # t => pc[u] \notin {"insert", "commit"}
      BY <3>1, SoleWriter
    <3>6. \A u \in Threads : u # t => pc'[u] = pc[u]
      BY <3>1 DEF Goto, TypeOK
    <3>7. pc'[t] = "commit" /\ (Duplicate(db, call[t]))' = Duplicate(db, call[t])
      BY <3>1 DEF Goto, TypeOK, Duplicate
    <3>8. \A p \in Procs : p # ProcOf[t] => pending'[p] = pending[p]
      BY <3>1 DEF TypeOK
    <3> QED BY <3>1, <3>2, <3>3, <3>4, <3>5, <3>6, <3>7, <3>8 DEF TxnInv
  <2> QED BY <2>1, <2>2
<1>11. ASSUME NEW t \in Threads, Commit(t) PROVE TxnInv'
  BY <1>11, TxnEnds DEF Commit, PCs
<1>12. ASSUME NEW t \in Threads, Publish(t) PROVE TxnInv'
  BY <1>12 DEF Publish, Goto, txnVars, walkVars, TxnInv, TypeOK, Critical,
       Finished
<1>13. ASSUME NEW t \in Threads, StorageError(t) PROVE TxnInv'
  BY <1>13, TxnEnds DEF StorageError, Fail, PCs, Finished
<1>14. ASSUME NEW p \in Procs, Close(p) PROVE TxnInv'
  BY <1>14 DEF Close, txnVars, walkVars, TxnInv, TypeOK, Critical, Finished
<1>15. ASSUME NEW p \in Procs, Crash(p) PROVE TxnInv'
  BY <1>15 DEF Crash, EndTxn, txnVars, walkVars, TxnInv, TypeOK, Critical,
       Finished
<1>16. ASSUME UNCHANGED vars PROVE TxnInv'
  BY <1>16 DEF vars, txnVars, walkVars, TxnInv, TypeOK, Critical, Finished
<1> QED
  BY <1>1, <1>2, <1>3, <1>4, <1>5, <1>6, <1>7, <1>8, <1>9, <1>10, <1>11,
     <1>12, <1>13, <1>14, <1>15, <1>16, StepCases

(* The database changes at a commit only, by the call's own fact.           *)
LEMMA CommitAdds ==
    ASSUME TypeOK, TxnInv, NEW t \in Threads, Commit(t)
    PROVE  db' = db \cup {call[t]} /\ ~Duplicate(db, call[t])
BY DEF Commit, TxnInv

(* No step removes a fact.                                                  *)
LEMMA DbGrows == [Next]_vars => db \subseteq db'
<1> SUFFICES ASSUME [Next]_vars PROVE db \subseteq db'
  OBVIOUS
<1> USE DEF txnVars, walkVars
<1>1. ASSUME NEW t \in Threads, Enter(t) PROVE db \subseteq db'
  BY <1>1 DEF Enter
<1>2. ASSUME NEW t \in Threads, Acquire(t) PROVE db \subseteq db'
  BY <1>2 DEF Acquire
<1>3. ASSUME NEW t \in Threads, ClosedConnection(t) PROVE db \subseteq db'
  BY <1>3 DEF ClosedConnection
<1>4. ASSUME NEW t \in Threads, CheckAbsent(t) PROVE db \subseteq db'
  BY <1>4 DEF CheckAbsent
<1>5. ASSUME NEW t \in Threads, CheckEndpoints(t) PROVE db \subseteq db'
  BY <1>5 DEF CheckEndpoints
<1>6. ASSUME NEW t \in Threads, Walk(t) PROVE db \subseteq db'
  BY <1>6 DEF Walk
<1>7. ASSUME NEW t \in Threads, WalkEnds(t) PROVE db \subseteq db'
  BY <1>7 DEF WalkEnds
<1>8. ASSUME NEW t \in Threads, Begin(t) PROVE db \subseteq db'
  BY <1>8 DEF Begin
<1>9. ASSUME NEW t \in Threads, BeginFails(t) PROVE db \subseteq db'
  BY <1>9 DEF BeginFails
<1>10. ASSUME NEW t \in Threads, Insert(t) PROVE db \subseteq db'
  BY <1>10 DEF Insert
<1>11. ASSUME NEW t \in Threads, Commit(t) PROVE db \subseteq db'
  BY <1>11 DEF Commit
<1>12. ASSUME NEW t \in Threads, Publish(t) PROVE db \subseteq db'
  BY <1>12 DEF Publish
<1>13. ASSUME NEW t \in Threads, StorageError(t) PROVE db \subseteq db'
  BY <1>13 DEF StorageError
<1>14. ASSUME NEW p \in Procs, Close(p) PROVE db \subseteq db'
  BY <1>14 DEF Close
<1>15. ASSUME NEW p \in Procs, Crash(p) PROVE db \subseteq db'
  BY <1>15 DEF Crash
<1>16. ASSUME UNCHANGED vars PROVE db \subseteq db'
  BY <1>16 DEF vars
<1> QED
  BY <1>1, <1>2, <1>3, <1>4, <1>5, <1>6, <1>7, <1>8, <1>9, <1>10, <1>11,
     <1>12, <1>13, <1>14, <1>15, <1>16, StepCases

(* The keys of the two tables stay unique.                                  *)
LEMMA KeysNext == TypeOK /\ TxnInv /\ UniqueKeys /\ [Next]_vars => UniqueKeys'
<1> SUFFICES ASSUME TypeOK /\ TxnInv /\ UniqueKeys, [Next]_vars
             PROVE UniqueKeys'
  OBVIOUS
<1>1. ASSUME NEW t \in Threads, Enter(t) PROVE UniqueKeys'
  BY <1>1 DEF Enter, Goto, txnVars, walkVars, UniqueKeys
<1>2. ASSUME NEW t \in Threads, Acquire(t) PROVE UniqueKeys'
  BY <1>2 DEF Acquire, Goto, txnVars, walkVars, UniqueKeys
<1>3. ASSUME NEW t \in Threads, ClosedConnection(t) PROVE UniqueKeys'
  BY <1>3 DEF ClosedConnection, Fail, Release, Goto, txnVars, walkVars,
       UniqueKeys
<1>4. ASSUME NEW t \in Threads, CheckAbsent(t) PROVE UniqueKeys'
  BY <1>4 DEF CheckAbsent, Fail, Release, Goto, txnVars, walkVars, UniqueKeys
<1>5. ASSUME NEW t \in Threads, CheckEndpoints(t) PROVE UniqueKeys'
  BY <1>5 DEF CheckEndpoints, Fail, Release, Goto, txnVars, walkVars, UniqueKeys
<1>6. ASSUME NEW t \in Threads, Walk(t) PROVE UniqueKeys'
  BY <1>6 DEF Walk, Fail, Release, Goto, txnVars, walkVars, UniqueKeys
<1>7. ASSUME NEW t \in Threads, WalkEnds(t) PROVE UniqueKeys'
  BY <1>7 DEF WalkEnds, Goto, txnVars, walkVars, UniqueKeys
<1>8. ASSUME NEW t \in Threads, Begin(t) PROVE UniqueKeys'
  BY <1>8 DEF Begin, Goto, txnVars, walkVars, UniqueKeys
<1>9. ASSUME NEW t \in Threads, BeginFails(t) PROVE UniqueKeys'
  BY <1>9 DEF BeginFails, EndTxn, Fail, Release, Goto, txnVars, walkVars,
       UniqueKeys
<1>10. ASSUME NEW t \in Threads, Insert(t) PROVE UniqueKeys'
  BY <1>10 DEF Insert, EndTxn, Fail, Release, Goto, txnVars, walkVars,
       UniqueKeys
<1>11. ASSUME NEW t \in Threads, Commit(t) PROVE UniqueKeys'
  BY <1>11, CommitAdds DEF UniqueKeys, Duplicate
<1>12. ASSUME NEW t \in Threads, Publish(t) PROVE UniqueKeys'
  BY <1>12 DEF Publish, Goto, txnVars, walkVars, UniqueKeys
<1>13. ASSUME NEW t \in Threads, StorageError(t) PROVE UniqueKeys'
  BY <1>13 DEF StorageError, EndTxn, Fail, Release, Goto, txnVars, walkVars,
       UniqueKeys
<1>14. ASSUME NEW p \in Procs, Close(p) PROVE UniqueKeys'
  BY <1>14 DEF Close, txnVars, walkVars, UniqueKeys
<1>15. ASSUME NEW p \in Procs, Crash(p) PROVE UniqueKeys'
  BY <1>15 DEF Crash, EndTxn, txnVars, walkVars, UniqueKeys
<1>16. ASSUME UNCHANGED vars PROVE UniqueKeys'
  BY <1>16 DEF vars, txnVars, walkVars, UniqueKeys
<1> QED
  BY <1>1, <1>2, <1>3, <1>4, <1>5, <1>6, <1>7, <1>8, <1>9, <1>10, <1>11,
     <1>12, <1>13, <1>14, <1>15, <1>16, StepCases

(* Success is followed by nothing that undoes it.                           *)
LEMMA PersistedNext ==
    TypeOK /\ TxnInv /\ SuccessMeansPersisted /\ [Next]_vars
    => SuccessMeansPersisted'
<1> SUFFICES ASSUME TypeOK /\ TxnInv /\ SuccessMeansPersisted, [Next]_vars
             PROVE SuccessMeansPersisted'
  OBVIOUS
<1>1. ASSUME NEW t \in Threads, Enter(t) PROVE SuccessMeansPersisted'
  BY <1>1 DEF Enter, Goto, txnVars, walkVars, SuccessMeansPersisted, TypeOK,
       Finished
<1>2. ASSUME NEW t \in Threads, Acquire(t) PROVE SuccessMeansPersisted'
  BY <1>2 DEF Acquire, Goto, txnVars, walkVars, SuccessMeansPersisted, TypeOK,
       Finished
<1>3. ASSUME NEW t \in Threads, ClosedConnection(t) PROVE SuccessMeansPersisted'
  BY <1>3 DEF ClosedConnection, Fail, Release, Goto, txnVars, walkVars,
       SuccessMeansPersisted, TypeOK, Finished
<1>4. ASSUME NEW t \in Threads, CheckAbsent(t) PROVE SuccessMeansPersisted'
  BY <1>4 DEF CheckAbsent, Fail, Release, Goto, txnVars, walkVars,
       SuccessMeansPersisted, TypeOK, Finished
<1>5. ASSUME NEW t \in Threads, CheckEndpoints(t) PROVE SuccessMeansPersisted'
  BY <1>5 DEF CheckEndpoints, Fail, Release, Goto, txnVars, walkVars,
       SuccessMeansPersisted, TypeOK, Finished
<1>6. ASSUME NEW t \in Threads, Walk(t) PROVE SuccessMeansPersisted'
  BY <1>6 DEF Walk, Fail, Release, Goto, txnVars, walkVars,
       SuccessMeansPersisted, TypeOK, Finished
<1>7. ASSUME NEW t \in Threads, WalkEnds(t) PROVE SuccessMeansPersisted'
  BY <1>7 DEF WalkEnds, Goto, txnVars, walkVars, SuccessMeansPersisted, TypeOK,
       Finished
<1>8. ASSUME NEW t \in Threads, Begin(t) PROVE SuccessMeansPersisted'
  BY <1>8 DEF Begin, Goto, txnVars, walkVars, SuccessMeansPersisted, TypeOK,
       Finished
<1>9. ASSUME NEW t \in Threads, BeginFails(t) PROVE SuccessMeansPersisted'
  BY <1>9 DEF BeginFails, EndTxn, Fail, Release, Goto, txnVars, walkVars,
       SuccessMeansPersisted, TypeOK, Finished
<1>10. ASSUME NEW t \in Threads, Insert(t) PROVE SuccessMeansPersisted'
  BY <1>10 DEF Insert, EndTxn, Fail, Release, Goto, txnVars, walkVars,
       SuccessMeansPersisted, TypeOK, Finished
<1>11. ASSUME NEW t \in Threads, Commit(t) PROVE SuccessMeansPersisted'
  <2>1. \A u \in Threads : pc'[u] \in {"publish", "done"} =>
            u = t \/ pc[u] \in {"publish", "done"}
    BY <1>11 DEF Commit, Goto, TypeOK
  <2> QED BY <1>11, <2>1, CommitAdds DEF Commit, SuccessMeansPersisted
<1>12. ASSUME NEW t \in Threads, Publish(t) PROVE SuccessMeansPersisted'
  BY <1>12 DEF Publish, Goto, txnVars, walkVars, SuccessMeansPersisted, TypeOK,
       Finished
<1>13. ASSUME NEW t \in Threads, StorageError(t) PROVE SuccessMeansPersisted'
  BY <1>13 DEF StorageError, EndTxn, Fail, Release, Goto, txnVars, walkVars,
       SuccessMeansPersisted, TypeOK, Finished
<1>14. ASSUME NEW p \in Procs, Close(p) PROVE SuccessMeansPersisted'
  BY <1>14 DEF Close, txnVars, walkVars, SuccessMeansPersisted, TypeOK, Finished
<1>15. ASSUME NEW p \in Procs, Crash(p) PROVE SuccessMeansPersisted'
  BY <1>15 DEF Crash, EndTxn, txnVars, walkVars, SuccessMeansPersisted, TypeOK,
       Finished
<1>16. ASSUME UNCHANGED vars PROVE SuccessMeansPersisted'
  BY <1>16 DEF vars, txnVars, walkVars, SuccessMeansPersisted, TypeOK, Finished
<1> QED
  BY <1>1, <1>2, <1>3, <1>4, <1>5, <1>6, <1>7, <1>8, <1>9, <1>10, <1>11,
     <1>12, <1>13, <1>14, <1>15, <1>16, StepCases

(* SuccessInv is preserved.                                                 *)
LEMMA SuccessNext ==
    TypeOK /\ TxnInv /\ SuccessMeansPersisted /\ SuccessInv /\ [Next]_vars
    => SuccessInv'
<1> SUFFICES ASSUME TypeOK /\ TxnInv /\ SuccessMeansPersisted /\ SuccessInv, [Next]_vars
             PROVE SuccessInv'
  OBVIOUS
<1>1. ASSUME NEW t \in Threads, Enter(t) PROVE SuccessInv'
  BY <1>1 DEF Enter, Goto, txnVars, walkVars, SuccessInv, TypeOK, Finished
<1>2. ASSUME NEW t \in Threads, Acquire(t) PROVE SuccessInv'
  BY <1>2 DEF Acquire, Goto, txnVars, walkVars, SuccessInv, TypeOK, Finished
<1>3. ASSUME NEW t \in Threads, ClosedConnection(t) PROVE SuccessInv'
  BY <1>3 DEF ClosedConnection, Fail, Release, Goto, txnVars, walkVars,
       SuccessInv, TypeOK, Finished
<1>4. ASSUME NEW t \in Threads, CheckAbsent(t) PROVE SuccessInv'
  BY <1>4 DEF CheckAbsent, Fail, Release, Goto, txnVars, walkVars, SuccessInv,
       TypeOK, Finished
<1>5. ASSUME NEW t \in Threads, CheckEndpoints(t) PROVE SuccessInv'
  BY <1>5 DEF CheckEndpoints, Fail, Release, Goto, txnVars, walkVars,
       SuccessInv, TypeOK, Finished
<1>6. ASSUME NEW t \in Threads, Walk(t) PROVE SuccessInv'
  BY <1>6 DEF Walk, Fail, Release, Goto, txnVars, walkVars, SuccessInv, TypeOK,
       Finished
<1>7. ASSUME NEW t \in Threads, WalkEnds(t) PROVE SuccessInv'
  BY <1>7 DEF WalkEnds, Goto, txnVars, walkVars, SuccessInv, TypeOK, Finished
<1>8. ASSUME NEW t \in Threads, Begin(t) PROVE SuccessInv'
  BY <1>8 DEF Begin, Goto, txnVars, walkVars, SuccessInv, TypeOK, Finished
<1>9. ASSUME NEW t \in Threads, BeginFails(t) PROVE SuccessInv'
  BY <1>9 DEF BeginFails, EndTxn, Fail, Release, Goto, txnVars, walkVars,
       SuccessInv, TypeOK, Finished
<1>10. ASSUME NEW t \in Threads, Insert(t) PROVE SuccessInv'
  BY <1>10 DEF Insert, EndTxn, Fail, Release, Goto, txnVars, walkVars,
       SuccessInv, TypeOK, Finished
<1>11. ASSUME NEW t \in Threads, Commit(t) PROVE SuccessInv'
  <2>1. \A u \in Threads : pc'[u] \in {"publish", "done"} =>
            u = t \/ pc[u] \in {"publish", "done"}
    BY <1>11 DEF Commit, Goto, TypeOK
  <2>2. \A u \in Threads : pc[u] \in {"publish", "done"} =>
            Key(call[u]) # Key(call[t])
    BY <1>11, CommitAdds DEF SuccessMeansPersisted, Duplicate
  <2>3. call' = call /\ published' = published
    BY <1>11 DEF Commit
  <2>4. \A u \in Threads : pc[u] = "done" => pc'[u] = "done"
    BY <1>11 DEF Commit, Goto, TypeOK
  <2> QED BY <2>1, <2>2, <2>3, <2>4 DEF SuccessInv, TypeOK
<1>12. ASSUME NEW t \in Threads, Publish(t) PROVE SuccessInv'
  BY <1>12 DEF Publish, Goto, txnVars, walkVars, SuccessInv, TypeOK, Finished
<1>13. ASSUME NEW t \in Threads, StorageError(t) PROVE SuccessInv'
  BY <1>13 DEF StorageError, EndTxn, Fail, Release, Goto, txnVars, walkVars,
       SuccessInv, TypeOK, Finished
<1>14. ASSUME NEW p \in Procs, Close(p) PROVE SuccessInv'
  BY <1>14 DEF Close, txnVars, walkVars, SuccessInv, TypeOK, Finished
<1>15. ASSUME NEW p \in Procs, Crash(p) PROVE SuccessInv'
  BY <1>15 DEF Crash, EndTxn, txnVars, walkVars, SuccessInv, TypeOK, Finished
<1>16. ASSUME UNCHANGED vars PROVE SuccessInv'
  BY <1>16 DEF vars, txnVars, walkVars, SuccessInv, TypeOK, Finished
<1> QED
  BY <1>1, <1>2, <1>3, <1>4, <1>5, <1>6, <1>7, <1>8, <1>9, <1>10, <1>11,
     <1>12, <1>13, <1>14, <1>15, <1>16, StepCases

(* What the existence check saw holds until the INSERT.                      *)
LEMMA EndpointsNext ==
    TypeOK /\ LockInv /\ TxnInv /\ EndpointsInv /\ [Next]_vars
    => EndpointsInv'
<1> SUFFICES ASSUME TypeOK /\ LockInv /\ TxnInv /\ EndpointsInv, [Next]_vars
             PROVE EndpointsInv'
  OBVIOUS
<1>1. ASSUME NEW t \in Threads, Enter(t) PROVE EndpointsInv'
  BY <1>1 DEF Enter, Goto, txnVars, walkVars, EndpointsInv, TypeOK, Finished,
       EndpointsExist
<1>2. ASSUME NEW t \in Threads, Acquire(t) PROVE EndpointsInv'
  BY <1>2 DEF Acquire, Goto, txnVars, walkVars, EndpointsInv, TypeOK, Finished,
       EndpointsExist
<1>3. ASSUME NEW t \in Threads, ClosedConnection(t) PROVE EndpointsInv'
  BY <1>3 DEF ClosedConnection, Fail, Release, Goto, txnVars, walkVars,
       EndpointsInv, TypeOK, Finished, EndpointsExist
<1>4. ASSUME NEW t \in Threads, CheckAbsent(t) PROVE EndpointsInv'
  BY <1>4 DEF CheckAbsent, Fail, Release, Goto, txnVars, walkVars,
       EndpointsInv, TypeOK, Finished, EndpointsExist
<1>5. ASSUME NEW t \in Threads, CheckEndpoints(t) PROVE EndpointsInv'
  <2>1. Visible(ProcOf[t]) = db
    BY <1>5, BeforeBegin DEF CheckEndpoints, Visible
  <2>2. db' = db /\ call' = call
    BY <1>5 DEF CheckEndpoints
  <2>3. \A u \in Threads : u # t => pc'[u] = pc[u]
    BY <1>5 DEF CheckEndpoints, Fail, Release, Goto, TypeOK
  <2>4. pc'[t] \notin {"begin", "insert", "commit"}
    BY <1>5 DEF CheckEndpoints, Fail, Release, Goto, TypeOK
  <2>5. pc'[t] = "walk" => EndpointsExist(db, call[t])
    BY <1>5, <2>1 DEF CheckEndpoints, Fail, Release, Goto, TypeOK
  <2> QED BY <2>2, <2>3, <2>4, <2>5 DEF EndpointsInv, EndpointsExist, HasRow,
       RowsOf
<1>6. ASSUME NEW t \in Threads, Walk(t) PROVE EndpointsInv'
  BY <1>6 DEF Walk, Fail, Release, Goto, txnVars, walkVars, EndpointsInv,
       TypeOK, Finished, EndpointsExist
<1>7. ASSUME NEW t \in Threads, WalkEnds(t) PROVE EndpointsInv'
  BY <1>7 DEF WalkEnds, Goto, txnVars, walkVars, EndpointsInv, TypeOK,
       Finished, EndpointsExist
<1>8. ASSUME NEW t \in Threads, Begin(t) PROVE EndpointsInv'
  BY <1>8 DEF Begin, Goto, txnVars, walkVars, EndpointsInv, TypeOK, Finished,
       EndpointsExist
<1>9. ASSUME NEW t \in Threads, BeginFails(t) PROVE EndpointsInv'
  BY <1>9 DEF BeginFails, EndTxn, Fail, Release, Goto, txnVars, walkVars,
       EndpointsInv, TypeOK, Finished, EndpointsExist
<1>10. ASSUME NEW t \in Threads, Insert(t) PROVE EndpointsInv'
  BY <1>10 DEF Insert, EndTxn, Fail, Release, Goto, txnVars, walkVars,
       EndpointsInv, TypeOK, Finished, EndpointsExist
<1>11. ASSUME NEW t \in Threads, Commit(t) PROVE EndpointsInv'
  <2>1. \A i : HasRow(db, i) => HasRow(db', i)
    BY DbGrows, HasRowGrows
  <2>3. call' = call
    BY <1>11 DEF Commit
  <2>4. \A u \in Threads : pc'[u] \in {"walk", "begin", "insert", "commit"} => pc[u] = pc'[u]
    BY <1>11 DEF Commit, Goto, TypeOK
  <2> QED BY <2>1, <2>3, <2>4 DEF EndpointsInv, EndpointsExist
<1>12. ASSUME NEW t \in Threads, Publish(t) PROVE EndpointsInv'
  BY <1>12 DEF Publish, Goto, txnVars, walkVars, EndpointsInv, TypeOK,
       Finished, EndpointsExist
<1>13. ASSUME NEW t \in Threads, StorageError(t) PROVE EndpointsInv'
  BY <1>13 DEF StorageError, EndTxn, Fail, Release, Goto, txnVars, walkVars,
       EndpointsInv, TypeOK, Finished, EndpointsExist
<1>14. ASSUME NEW p \in Procs, Close(p) PROVE EndpointsInv'
  BY <1>14 DEF Close, txnVars, walkVars, EndpointsInv, TypeOK, Finished,
       EndpointsExist
<1>15. ASSUME NEW p \in Procs, Crash(p) PROVE EndpointsInv'
  BY <1>15 DEF Crash, EndTxn, txnVars, walkVars, EndpointsInv, TypeOK,
       Finished, EndpointsExist
<1>16. ASSUME UNCHANGED vars PROVE EndpointsInv'
  BY <1>16 DEF vars, txnVars, walkVars, EndpointsInv, TypeOK, Finished,
       EndpointsExist
<1> QED
  BY <1>1, <1>2, <1>3, <1>4, <1>5, <1>6, <1>7, <1>8, <1>9, <1>10, <1>11,
     <1>12, <1>13, <1>14, <1>15, <1>16, StepCases

(* No committed link loses an end.                                          *)
LEMMA DanglingNext ==
    TypeOK /\ TxnInv /\ EndpointsInv /\ NoDanglingLinks /\ [Next]_vars
    => NoDanglingLinks'
<1> SUFFICES ASSUME TypeOK /\ TxnInv /\ EndpointsInv /\ NoDanglingLinks, [Next]_vars
             PROVE NoDanglingLinks'
  OBVIOUS
<1>1. ASSUME NEW t \in Threads, Enter(t) PROVE NoDanglingLinks'
  BY <1>1 DEF Enter, Goto, txnVars, walkVars, NoDanglingLinks
<1>2. ASSUME NEW t \in Threads, Acquire(t) PROVE NoDanglingLinks'
  BY <1>2 DEF Acquire, Goto, txnVars, walkVars, NoDanglingLinks
<1>3. ASSUME NEW t \in Threads, ClosedConnection(t) PROVE NoDanglingLinks'
  BY <1>3 DEF ClosedConnection, Fail, Release, Goto, txnVars, walkVars,
       NoDanglingLinks
<1>4. ASSUME NEW t \in Threads, CheckAbsent(t) PROVE NoDanglingLinks'
  BY <1>4 DEF CheckAbsent, Fail, Release, Goto, txnVars, walkVars,
       NoDanglingLinks
<1>5. ASSUME NEW t \in Threads, CheckEndpoints(t) PROVE NoDanglingLinks'
  BY <1>5 DEF CheckEndpoints, Fail, Release, Goto, txnVars, walkVars,
       NoDanglingLinks
<1>6. ASSUME NEW t \in Threads, Walk(t) PROVE NoDanglingLinks'
  BY <1>6 DEF Walk, Fail, Release, Goto, txnVars, walkVars, NoDanglingLinks
<1>7. ASSUME NEW t \in Threads, WalkEnds(t) PROVE NoDanglingLinks'
  BY <1>7 DEF WalkEnds, Goto, txnVars, walkVars, NoDanglingLinks
<1>8. ASSUME NEW t \in Threads, Begin(t) PROVE NoDanglingLinks'
  BY <1>8 DEF Begin, Goto, txnVars, walkVars, NoDanglingLinks
<1>9. ASSUME NEW t \in Threads, BeginFails(t) PROVE NoDanglingLinks'
  BY <1>9 DEF BeginFails, EndTxn, Fail, Release, Goto, txnVars, walkVars,
       NoDanglingLinks
<1>10. ASSUME NEW t \in Threads, Insert(t) PROVE NoDanglingLinks'
  BY <1>10 DEF Insert, EndTxn, Fail, Release, Goto, txnVars, walkVars,
       NoDanglingLinks
<1>11. ASSUME NEW t \in Threads, Commit(t) PROVE NoDanglingLinks'
  <2>1. db' = db \cup {call[t]}
    BY <1>11, CommitAdds
  <2>2. \A i : HasRow(db, i) => HasRow(db', i)
    BY DbGrows, HasRowGrows
  <2>3. call[t].op = "link" => EndpointsExist(db, call[t])
    BY <1>11 DEF Commit, EndpointsInv
  <2>4. \A e \in EdgesOf(db') :
            \/ e \in EdgesOf(db)
            \/ call[t].op = "link" /\ e = <<call[t].src, call[t].tgt>>
    <3>1. EdgesOf(db \cup {call[t]}) = EdgesOf(db) \cup
             (IF call[t].op = "link" THEN {<<call[t].src, call[t].tgt>>} ELSE {})
      BY EdgesOfAdd
    <3>2. EdgesOf(db') = EdgesOf(db \cup {call[t]})
      BY <2>1, Zenon
    <3> QED BY <3>1, <3>2
  <2>5. ASSUME NEW e \in EdgesOf(db') PROVE HasRow(db', e[1]) /\ HasRow(db', e[2])
    <3>1. CASE e \in EdgesOf(db)
      BY <2>2, <3>1 DEF NoDanglingLinks
    <3>2. CASE call[t].op = "link" /\ e = <<call[t].src, call[t].tgt>>
      <4>1. e[1] = call[t].src /\ e[2] = call[t].tgt
        BY <3>2
      <4> QED BY <2>2, <2>3, <3>2, <4>1 DEF EndpointsExist
    <3> QED BY <2>4, <3>1, <3>2
  <2> QED BY <2>5 DEF NoDanglingLinks
<1>12. ASSUME NEW t \in Threads, Publish(t) PROVE NoDanglingLinks'
  BY <1>12 DEF Publish, Goto, txnVars, walkVars, NoDanglingLinks
<1>13. ASSUME NEW t \in Threads, StorageError(t) PROVE NoDanglingLinks'
  BY <1>13 DEF StorageError, EndTxn, Fail, Release, Goto, txnVars, walkVars,
       NoDanglingLinks
<1>14. ASSUME NEW p \in Procs, Close(p) PROVE NoDanglingLinks'
  BY <1>14 DEF Close, txnVars, walkVars, NoDanglingLinks
<1>15. ASSUME NEW p \in Procs, Crash(p) PROVE NoDanglingLinks'
  BY <1>15 DEF Crash, EndTxn, txnVars, walkVars, NoDanglingLinks
<1>16. ASSUME UNCHANGED vars PROVE NoDanglingLinks'
  BY <1>16 DEF vars, txnVars, walkVars, NoDanglingLinks
<1> QED
  BY <1>1, <1>2, <1>3, <1>4, <1>5, <1>6, <1>7, <1>8, <1>9, <1>10, <1>11,
     <1>12, <1>13, <1>14, <1>15, <1>16, StepCases

(* Every step preserves StoreInv: its parts together.                      *)
LEMMA StoreNext == TypeOK /\ StoreInv /\ [Next]_vars => (TypeOK /\ StoreInv)'
BY TypeNext, CallNext, LockNext, TxnNext, KeysNext, SuccessNext, EndpointsNext,
   PersistedNext, DanglingNext DEF StoreInv

(* StoreInv holds at the start.                                            *)
LEMMA StoreInit == Init => TypeOK /\ StoreInv
<1> SUFFICES ASSUME Init PROVE TypeOK /\ StoreInv
  OBVIOUS
<1>1. TypeOK
  BY TypeInit
<1>2. CallInv /\ LockInv /\ SuccessInv /\ EndpointsInv /\ SuccessMeansPersisted
  BY DEF Init, CallInv, LockInv, SuccessInv, EndpointsInv,
       SuccessMeansPersisted, Critical
<1>3. TxnInv
  BY DEF Init, TxnInv
<1>4. UniqueKeys
  BY StoredAssumption DEF Init, UniqueKeys
<1>5. NoDanglingLinks
  BY StoredAssumption DEF Init, NoDanglingLinks
<1> QED BY <1>1, <1>2, <1>3, <1>4, <1>5 DEF StoreInv

(* Whatever processes and threads share the file, the lock and the          *)
(* transaction together keep every part of StoreInv.                        *)
THEOREM StoreCorrect == Spec => []StoreInv
<1> QED BY StoreInit, StoreNext, PTL DEF Spec

(* A call that returned without an exception is in the file, for good.      *)
THEOREM SuccessPersists == Spec => []SuccessMeansPersisted
<1>1. StoreInv => SuccessMeansPersisted
  BY DEF StoreInv
<1> QED BY <1>1, StoreCorrect, PTL

(* Every announced artifact or link is stored, and announced once.          *)
THEOREM EventsSound == Spec => []EventsMatchFacts
<1>1. TypeOK /\ StoreInv => EventsMatchFacts
  BY DEF StoreInv, SuccessInv, SuccessMeansPersisted, EventsMatchFacts, TypeOK
<1> QED BY <1>1, StoreCorrect, TypeCorrect, PTL

(* The ends of every link are stored artifacts.                             *)
THEOREM LinksNeverDangle == Spec => []NoDanglingLinks
<1>1. StoreInv => NoDanglingLinks
  BY DEF StoreInv
<1> QED BY <1>1, StoreCorrect, PTL

(* Artifacts and links are immutable in every run.                          *)
THEOREM Immutable == Spec => CommittedForever
<1>1. UniqueKeys' /\ [Next]_vars =>
        [/\ db \subseteq db'
         /\ \A f, g \in db' : Key(f) = Key(g) => f = g]_vars
  BY DbGrows DEF UniqueKeys
<1>2. StoreInv => UniqueKeys
  BY DEF StoreInv
<1> QED BY <1>1, <1>2, StoreCorrect, PTL DEF Spec, CommittedForever

-----------------------------------------------------------------------------
(* One process: no cycle.                                                   *)

(* A link from outside a closed set to a member of it closes no cycle.      *)
LEMMA AcyclicExtend ==
    ASSUME NEW N, NEW E, NEW R, NEW s, NEW t,
           Acyclic(N, E), ClosedUnder(E, R), t \in R, s \notin R
    PROVE  Acyclic(N, E \cup {<<s, t>>})
<1> SUFFICES ASSUME NEW S \in SUBSET N,
                    \A x \in S : \E y \in S : <<x, y>> \in E \cup {<<s, t>>}
             PROVE  S = {}
  BY DEF Acyclic
<1>1. \A x \in S \cap R : \E y \in S \cap R : <<x, y>> \in E
  <2> SUFFICES ASSUME NEW x \in S \cap R
               PROVE  \E y \in S \cap R : <<x, y>> \in E
    OBVIOUS
  <2>1. PICK y \in S : <<x, y>> \in E \cup {<<s, t>>}
    OBVIOUS
  <2>2. <<x, y>> # <<s, t>>
    OBVIOUS
  <2>3. <<x, y>> \in E
    BY <2>1, <2>2
  <2>4. y \in R
    BY <2>3 DEF ClosedUnder
  <2> QED BY <2>3, <2>4
<1>2. S \cap R = {}
  BY <1>1 DEF Acyclic
<1>3. \A x \in S : \E y \in S : <<x, y>> \in E
  <2> SUFFICES ASSUME NEW x \in S PROVE \E y \in S : <<x, y>> \in E
    OBVIOUS
  <2>1. PICK y \in S : <<x, y>> \in E \cup {<<s, t>>}
    OBVIOUS
  <2>2. y # t
    BY <1>2
  <2> QED BY <2>1, <2>2
<1> QED BY <1>3 DEF Acyclic

(* WalkInv is preserved when the file belongs to one process.               *)
LEMMA WalkNext ==
    /\ \A p, q \in Procs : p = q
    /\ TypeOK /\ CallInv /\ LockInv /\ TxnInv /\ WalkInv
    /\ [Next]_vars
    => WalkInv'
<1> SUFFICES ASSUME \A p, q \in Procs : p = q,
                     TypeOK /\ CallInv /\ LockInv /\ TxnInv /\ WalkInv, [Next]_vars
             PROVE WalkInv'
  OBVIOUS
<1>1. ASSUME NEW t \in Threads, Enter(t) PROVE WalkInv'
  BY <1>1 DEF Enter, Goto, txnVars, walkVars, WalkInv, TypeOK, Finished
<1>2. ASSUME NEW t \in Threads, Acquire(t) PROVE WalkInv'
  BY <1>2 DEF Acquire, Goto, txnVars, walkVars, WalkInv, TypeOK, Finished
<1>3. ASSUME NEW t \in Threads, ClosedConnection(t) PROVE WalkInv'
  BY <1>3 DEF ClosedConnection, Fail, Release, Goto, txnVars, walkVars,
       WalkInv, TypeOK, Finished
<1>4. ASSUME NEW t \in Threads, CheckAbsent(t) PROVE WalkInv'
  BY <1>4 DEF CheckAbsent, Fail, Release, Goto, txnVars, walkVars, WalkInv,
       TypeOK, Finished
<1>5. ASSUME NEW t \in Threads, CheckEndpoints(t) PROVE WalkInv'
  <2>1. \A u \in Threads : u # t => /\ pc'[u] = pc[u]
                                    /\ visited'[u] = visited[u]
                                    /\ queue'[u] = queue[u]
    BY <1>5 DEF CheckEndpoints, Fail, Release, Goto, walkVars, TypeOK
  <2>2. db' = db /\ call' = call
    BY <1>5 DEF CheckEndpoints
  <2>3. pc'[t] = "walk" =>
          visited'[t] = {call[t].tgt} /\ queue'[t] = {call[t].tgt}
    BY <1>5 DEF CheckEndpoints, Fail, Release, Goto, TypeOK
  <2>4. pc'[t] \in {"walk", "failed"}
    BY <1>5 DEF CheckEndpoints, Fail, Release, Goto, TypeOK
  <2>5. call[t].op = "link" => call[t].src # call[t].tgt
    BY <1>5 DEF CheckEndpoints, CallInv
  <2> QED BY <2>1, <2>2, <2>3, <2>4, <2>5 DEF WalkInv
<1>6. ASSUME NEW t \in Threads, Walk(t) PROVE WalkInv'
  <2>1. Visible(ProcOf[t]) = db
    BY <1>6, BeforeBegin DEF Walk, Visible
  <2>2. PICK cur \in queue[t] :
          LET next == LinksFrom(EdgesOf(db), cur) IN
          \/ call[t].src \in next /\ Fail(t) /\ UNCHANGED walkVars
          \/ /\ call[t].src \notin next
             /\ visited' = [visited EXCEPT ![t] = @ \cup next]
             /\ queue' = [queue EXCEPT ![t] = (@ \ {cur}) \cup (next \ visited[t])]
             /\ UNCHANGED <<lock, pc>>
    BY <1>6, <2>1 DEF Walk
  <2>3. db' = db /\ call' = call /\ pc[t] = "walk" /\ call[t].op = "link"
    BY <1>6 DEF Walk, CallInv
  <2>4. CASE Fail(t) /\ UNCHANGED walkVars
    BY <2>3, <2>4 DEF Fail, Goto, walkVars, WalkInv, TypeOK
  <2>5. CASE /\ call[t].src \notin LinksFrom(EdgesOf(db), cur)
             /\ visited' = [visited EXCEPT ![t] = @ \cup LinksFrom(EdgesOf(db), cur)]
             /\ queue' = [queue EXCEPT ![t] =
                   (@ \ {cur}) \cup (LinksFrom(EdgesOf(db), cur) \ visited[t])]
             /\ UNCHANGED <<lock, pc>>
    <3> DEFINE next == LinksFrom(EdgesOf(db), cur)
    <3>1. \A e \in EdgesOf(db) : e[1] = cur => e[2] \in next
      BY DEF LinksFrom, Children
    <3> HIDE DEF next
    <3>2. \A u \in Threads : u # t => visited'[u] = visited[u] /\ queue'[u] = queue[u]
      BY <2>5 DEF TypeOK
    <3>3. /\ visited'[t] = visited[t] \cup next
          /\ queue'[t] = (queue[t] \ {cur}) \cup (next \ visited[t])
      BY <2>5 DEF TypeOK, next
    <3>4. call[t].src \notin next
      BY <2>5 DEF next
    <3>5. \A e \in EdgesOf(db) :
            e[1] \in visited'[t] \ queue'[t] => e[2] \in visited'[t]
      BY <2>3, <3>1, <3>3 DEF WalkInv
    <3>6. /\ call[t].tgt \in visited'[t] /\ call[t].src \notin visited'[t]
          /\ queue'[t] \subseteq visited'[t]
      BY <2>3, <3>3, <3>4 DEF WalkInv
    <3>7. pc' = pc
      BY <2>5
    <3> QED BY <2>3, <3>2, <3>5, <3>6, <3>7 DEF WalkInv
  <2> QED BY <2>2, <2>4, <2>5
<1>7. ASSUME NEW t \in Threads, WalkEnds(t) PROVE WalkInv'
  BY <1>7 DEF WalkEnds, Goto, txnVars, walkVars, WalkInv, TypeOK, Finished
<1>8. ASSUME NEW t \in Threads, Begin(t) PROVE WalkInv'
  BY <1>8 DEF Begin, Goto, txnVars, walkVars, WalkInv, TypeOK, Finished
<1>9. ASSUME NEW t \in Threads, BeginFails(t) PROVE WalkInv'
  BY <1>9 DEF BeginFails, EndTxn, Fail, Release, Goto, txnVars, walkVars,
       WalkInv, TypeOK, Finished
<1>10. ASSUME NEW t \in Threads, Insert(t) PROVE WalkInv'
  BY <1>10 DEF Insert, EndTxn, Fail, Release, Goto, txnVars, walkVars, WalkInv,
       TypeOK, Finished
<1>11. ASSUME NEW t \in Threads, Commit(t) PROVE WalkInv'
  <2>1. \A u \in Threads :
          pc'[u] \notin {"walk", "begin", "insert", "commit"}
    BY <1>11, AloneInSection DEF Commit, Goto, TypeOK, Critical
  <2> QED BY <2>1 DEF WalkInv
<1>12. ASSUME NEW t \in Threads, Publish(t) PROVE WalkInv'
  BY <1>12 DEF Publish, Goto, txnVars, walkVars, WalkInv, TypeOK, Finished
<1>13. ASSUME NEW t \in Threads, StorageError(t) PROVE WalkInv'
  BY <1>13 DEF StorageError, EndTxn, Fail, Release, Goto, txnVars, walkVars,
       WalkInv, TypeOK, Finished
<1>14. ASSUME NEW p \in Procs, Close(p) PROVE WalkInv'
  BY <1>14 DEF Close, txnVars, walkVars, WalkInv, TypeOK, Finished
<1>15. ASSUME NEW p \in Procs, Crash(p) PROVE WalkInv'
  BY <1>15 DEF Crash, EndTxn, txnVars, walkVars, WalkInv, TypeOK, Finished
<1>16. ASSUME UNCHANGED vars PROVE WalkInv'
  BY <1>16 DEF vars, txnVars, walkVars, WalkInv, TypeOK, Finished
<1> QED
  BY <1>1, <1>2, <1>3, <1>4, <1>5, <1>6, <1>7, <1>8, <1>9, <1>10, <1>11,
     <1>12, <1>13, <1>14, <1>15, <1>16, StepCases

(* The link a commit adds closes no cycle.                                  *)
LEMMA AcyclicNext ==
    TypeOK /\ TxnInv /\ WalkInv /\ LineageAcyclic /\ [Next]_vars
    => LineageAcyclic'
<1> SUFFICES ASSUME TypeOK /\ TxnInv /\ WalkInv /\ LineageAcyclic, [Next]_vars
             PROVE LineageAcyclic'
  OBVIOUS
<1>1. ASSUME NEW t \in Threads, Enter(t) PROVE LineageAcyclic'
  BY <1>1 DEF Enter, Goto, txnVars, walkVars, LineageAcyclic
<1>2. ASSUME NEW t \in Threads, Acquire(t) PROVE LineageAcyclic'
  BY <1>2 DEF Acquire, Goto, txnVars, walkVars, LineageAcyclic
<1>3. ASSUME NEW t \in Threads, ClosedConnection(t) PROVE LineageAcyclic'
  BY <1>3 DEF ClosedConnection, Fail, Release, Goto, txnVars, walkVars,
       LineageAcyclic
<1>4. ASSUME NEW t \in Threads, CheckAbsent(t) PROVE LineageAcyclic'
  BY <1>4 DEF CheckAbsent, Fail, Release, Goto, txnVars, walkVars,
       LineageAcyclic
<1>5. ASSUME NEW t \in Threads, CheckEndpoints(t) PROVE LineageAcyclic'
  BY <1>5 DEF CheckEndpoints, Fail, Release, Goto, txnVars, walkVars,
       LineageAcyclic
<1>6. ASSUME NEW t \in Threads, Walk(t) PROVE LineageAcyclic'
  BY <1>6 DEF Walk, Fail, Release, Goto, txnVars, walkVars, LineageAcyclic
<1>7. ASSUME NEW t \in Threads, WalkEnds(t) PROVE LineageAcyclic'
  BY <1>7 DEF WalkEnds, Goto, txnVars, walkVars, LineageAcyclic
<1>8. ASSUME NEW t \in Threads, Begin(t) PROVE LineageAcyclic'
  BY <1>8 DEF Begin, Goto, txnVars, walkVars, LineageAcyclic
<1>9. ASSUME NEW t \in Threads, BeginFails(t) PROVE LineageAcyclic'
  BY <1>9 DEF BeginFails, EndTxn, Fail, Release, Goto, txnVars, walkVars,
       LineageAcyclic
<1>10. ASSUME NEW t \in Threads, Insert(t) PROVE LineageAcyclic'
  BY <1>10 DEF Insert, EndTxn, Fail, Release, Goto, txnVars, walkVars,
       LineageAcyclic
<1>11. ASSUME NEW t \in Threads, Commit(t) PROVE LineageAcyclic'
  <2>1. db' = db \cup {call[t]}
    BY <1>11, CommitAdds
  <2>2. EdgesOf(db \cup {call[t]}) = EdgesOf(db) \cup
          (IF call[t].op = "link" THEN {<<call[t].src, call[t].tgt>>} ELSE {})
    BY EdgesOfAdd
  <2>3. CASE call[t].op = "link"
    <3>1. /\ call[t].tgt \in visited[t] /\ call[t].src \notin visited[t]
          /\ ClosedUnder(EdgesOf(db), visited[t])
      BY <1>11, <2>3 DEF Commit, WalkInv, ClosedUnder
    <3>2. Acyclic(Ids, EdgesOf(db) \cup {<<call[t].src, call[t].tgt>>})
      BY <3>1, AcyclicExtend DEF LineageAcyclic
    <3> QED BY <2>1, <2>2, <2>3, <3>2 DEF LineageAcyclic
  <2>4. CASE call[t].op # "link"
    <3>1. EdgesOf(db \cup {call[t]}) = EdgesOf(db)
      BY <2>2, <2>4
    <3> QED BY <2>1, <3>1 DEF LineageAcyclic
  <2> QED BY <2>3, <2>4
<1>12. ASSUME NEW t \in Threads, Publish(t) PROVE LineageAcyclic'
  BY <1>12 DEF Publish, Goto, txnVars, walkVars, LineageAcyclic
<1>13. ASSUME NEW t \in Threads, StorageError(t) PROVE LineageAcyclic'
  BY <1>13 DEF StorageError, EndTxn, Fail, Release, Goto, txnVars, walkVars,
       LineageAcyclic
<1>14. ASSUME NEW p \in Procs, Close(p) PROVE LineageAcyclic'
  BY <1>14 DEF Close, txnVars, walkVars, LineageAcyclic
<1>15. ASSUME NEW p \in Procs, Crash(p) PROVE LineageAcyclic'
  BY <1>15 DEF Crash, EndTxn, txnVars, walkVars, LineageAcyclic
<1>16. ASSUME UNCHANGED vars PROVE LineageAcyclic'
  BY <1>16 DEF vars, txnVars, walkVars, LineageAcyclic
<1> QED
  BY <1>1, <1>2, <1>3, <1>4, <1>5, <1>6, <1>7, <1>8, <1>9, <1>10, <1>11,
     <1>12, <1>13, <1>14, <1>15, <1>16, StepCases

(* What holds at every step when the file belongs to one process.           *)
OneProcessInv == TypeOK /\ StoreInv /\ WalkInv /\ LineageAcyclic

(* The invariant of the single process is inductive.                        *)
LEMMA OneProcessNext ==
    ASSUME \A p, q \in Procs : p = q
    PROVE  OneProcessInv /\ [Next]_vars => OneProcessInv'
BY StoreNext, WalkNext, AcyclicNext DEF StoreInv, OneProcessInv

(* In one process StoreInv, WalkInv and acyclicity hold throughout.         *)
LEMMA OneProcessInvariant ==
    ASSUME \A p, q \in Procs : p = q
    PROVE  Spec => []OneProcessInv
<1>1. Init => OneProcessInv
  BY StoreInit, StoredAssumption DEF Init, WalkInv, LineageAcyclic,
       OneProcessInv
<1> QED BY <1>1, OneProcessNext, PTL DEF Spec

(* In one process, whatever its threads do, the lineage stays acyclic.      *)
THEOREM OneProcessAcyclic ==
    ASSUME \A p, q \in Procs : p = q
    PROVE  Spec => []LineageAcyclic
<1>1. OneProcessInv => LineageAcyclic
  BY DEF OneProcessInv
<1> QED BY <1>1, OneProcessInvariant, PTL

-----------------------------------------------------------------------------
(* The store of one process implements the ledger of its contract.          *)

(* A step that neither commits nor announces is none of the ledger's.       *)
LEMMA LedgerStutters ==
    ASSUME db' = db, published' = published,
           \A t \in published : call'[t] = call[t]
    PROVE  UNCHANGED <<db, {call[t] : t \in published}>>
OBVIOUS

(* A commit is a Record step of the ledger.                                 *)
LEMMA CommitRecords ==
    ASSUME OneProcessInv, LineageAcyclic', NEW t \in Threads, Commit(t)
    PROVE  Ledger!Record
<1>1. db' = db \cup {call[t]} /\ ~Duplicate(db, call[t]) /\ call[t] \in Call
  BY CommitAdds DEF OneProcessInv, StoreInv, CallInv, Commit
<1>2. call[t].op = "link" =>
        call[t].src # call[t].tgt /\ EndpointsExist(db, call[t])
  BY DEF Commit, OneProcessInv, StoreInv, CallInv, EndpointsInv
<1>3. Acyclic(Ids, EdgesOf(db \cup {call[t]}))
  BY <1>1 DEF LineageAcyclic
<1>4. Ledger!Acyclic(Ids, Ledger!EdgesOf(db \cup {call[t]}))
  BY <1>3 DEF Acyclic, Ledger!Acyclic, EdgesOf, Ledger!EdgesOf
<1>5. \A f \in db : Ledger!Key(f) # Ledger!Key(call[t])
  BY <1>1 DEF Duplicate, Key, Ledger!Key
<1>6. call[t].op = "link" =>
        /\ call[t].src # call[t].tgt
        /\ Ledger!HasRow(db, call[t].src) /\ Ledger!HasRow(db, call[t].tgt)
  BY <1>2 DEF EndpointsExist, HasRow, RowsOf, Ledger!HasRow, Ledger!RowsOf
<1>7. Ledger!Admissible(call[t])
  BY <1>4, <1>5, <1>6 DEF Ledger!Admissible
<1>8. UNCHANGED {call[u] : u \in published}
  BY DEF Commit
<1> QED BY <1>1, <1>7, <1>8 DEF Ledger!Record

(* A publication is an Announce step of the ledger.                         *)
LEMMA PublishAnnounces ==
    ASSUME TypeOK, StoreInv, NEW t \in Threads, Publish(t)
    PROVE  Ledger!Announce
<1>1. call[t] \in db
  BY DEF Publish, StoreInv, SuccessMeansPersisted
<1>2. \A u \in published : call[u] # call[t]
  BY DEF Publish, StoreInv, SuccessInv, TypeOK
<1>3. /\ db' = db
      /\ {call[u] : u \in published}' = {call[u] : u \in published} \cup {call[t]}
  BY DEF Publish
<1> QED BY <1>1, <1>2, <1>3 DEF Ledger!Announce

(* Every step of the store is a step of the ledger or changes nothing of it.*)
LEMMA LedgerNext ==
    ASSUME OneProcessInv, LineageAcyclic', [Next]_vars
    PROVE  [Ledger!Next]_<<db, {call[t] : t \in published}>>
<1> DEFINE LStep == [Ledger!Next]_<<db, {call[t] : t \in published}>>
<1> HIDE DEF LStep
<1>0. ASSUME db' = db, published' = published,
             \A t \in published : call'[t] = call[t]
      PROVE  LStep
  BY <1>0, LedgerStutters DEF LStep
<1>1. ASSUME NEW t \in Threads, Enter(t) PROVE LStep
  <2>1. \A u \in published : pc[u] = "done" /\ u \in Threads
    BY DEF OneProcessInv, StoreInv, SuccessInv, TypeOK
  <2> QED BY <1>0, <1>1, <2>1 DEF Enter, OneProcessInv, TypeOK
<1>2. ASSUME NEW t \in Threads, Acquire(t) PROVE LStep
  BY <1>0, <1>2 DEF Acquire
<1>3. ASSUME NEW t \in Threads, ClosedConnection(t) PROVE LStep
  BY <1>0, <1>3 DEF ClosedConnection
<1>4. ASSUME NEW t \in Threads, CheckAbsent(t) PROVE LStep
  BY <1>0, <1>4 DEF CheckAbsent
<1>5. ASSUME NEW t \in Threads, CheckEndpoints(t) PROVE LStep
  BY <1>0, <1>5 DEF CheckEndpoints
<1>6. ASSUME NEW t \in Threads, Walk(t) PROVE LStep
  BY <1>0, <1>6 DEF Walk
<1>7. ASSUME NEW t \in Threads, WalkEnds(t) PROVE LStep
  BY <1>0, <1>7 DEF WalkEnds
<1>8. ASSUME NEW t \in Threads, Begin(t) PROVE LStep
  BY <1>0, <1>8 DEF Begin
<1>9. ASSUME NEW t \in Threads, BeginFails(t) PROVE LStep
  BY <1>0, <1>9 DEF BeginFails
<1>10. ASSUME NEW t \in Threads, Insert(t) PROVE LStep
  BY <1>0, <1>10 DEF Insert
<1>11. ASSUME NEW t \in Threads, Commit(t) PROVE LStep
  BY <1>11, CommitRecords DEF LStep, Ledger!Next
<1>12. ASSUME NEW t \in Threads, Publish(t) PROVE LStep
  BY <1>12, PublishAnnounces DEF LStep, Ledger!Next, OneProcessInv
<1>13. ASSUME NEW t \in Threads, StorageError(t) PROVE LStep
  BY <1>0, <1>13 DEF StorageError
<1>14. ASSUME NEW p \in Procs, Close(p) PROVE LStep
  BY <1>0, <1>14 DEF Close
<1>15. ASSUME NEW p \in Procs, Crash(p) PROVE LStep
  BY <1>0, <1>15 DEF Crash
<1>16. ASSUME UNCHANGED vars PROVE LStep
  BY <1>0, <1>16 DEF vars
<1>17. LStep
  BY <1>1, <1>2, <1>3, <1>4, <1>5, <1>6, <1>7, <1>8, <1>9, <1>10, <1>11,
     <1>12, <1>13, <1>14, <1>15, <1>16, StepCases
<1> QED BY <1>17 DEF LStep

(* The store of one process is a ledger: a behaviour of the code, seen      *)
(* through the committed facts and the announcements, is one of the         *)
(* contract's.                                                              *)
THEOREM Refinement ==
    ASSUME \A p, q \in Procs : p = q
    PROVE  Spec => ImplementsLedger
<1>1. Init => Ledger!Init
  BY DEF Init, Ledger!Init
<1>2. OneProcessInv /\ OneProcessInv' /\ [Next]_vars =>
        [Ledger!Next]_<<db, {call[t] : t \in published}>>
  BY LedgerNext DEF OneProcessInv
<1> QED BY <1>1, <1>2, OneProcessInvariant, PTL
        DEF Spec, ImplementsLedger, Ledger!Spec

-----------------------------------------------------------------------------
(* Blobs                                                                    *)
\* What a writer has on disk at each place: a temporary file only while it
\* writes or after it died, the whole bytes before the rename, and the blob
\* after it, unless somebody deleted it.
WriterInv ==
    \A w \in Writers :
        /\ temp[w] # "none" => step[w] \in {"write", "replace", "dead"}
        /\ step[w] = "write" => temp[w] # "none"
        /\ step[w] = "replace" => temp[w] = "whole"
        /\ step[w] = "stored" => file[digest[w]] = "whole" \/ digest[w] \in deleted

BlobInv == BlobTypeOK /\ WriterInv /\ BlobsWhole /\ ReferencesResolve /\ DirectoryInUse

(* An empty store.                                                          *)
LEMMA BlobInvInit == BlobInit => BlobInv
BY DEF BlobInit, BlobInv, BlobTypeOK, WriterInv, BlobsWhole, ReferencesResolve, DirectoryInUse,
       Content, Users

(* Steps that change nothing on disk, except for a directory that is made.  *)
LEMMA LooksKeep ==
    ASSUME BlobInv,
           \/ \E w \in Writers : PutBytes(w) \/ VerifyStored(w) \/ MakeDir(w) \/ WriterDies(w)
           \/ \E r \in Readers : Look(r) \/ Read(r)
    PROVE  BlobInv'
<1>1. PICK p \in Users :
        \E to \in {"verify", "mkdir", "mkstemp", "stored", "raised", "dead",
                   "read", "absent", "done"} :
           /\ Proceed(p, to)
           /\ to = "stored" => file[digest[p]] = "whole"
           /\ to # "dead" => step[p] \in {"idle", "verify", "mkdir", "read"}
           /\ to = "read" => step[p] = "idle"
  <2>1. ASSUME NEW w \in Writers, PutBytes(w) \/ VerifyStored(w) \/ MakeDir(w) \/ WriterDies(w)
        PROVE  \E to \in {"verify", "mkdir", "mkstemp", "stored", "raised", "dead"} :
                 /\ Proceed(w, to)
                 /\ to = "stored" => file[digest[w]] = "whole"
                 /\ to # "dead" => step[w] \in {"idle", "verify", "mkdir", "read"}
    BY <2>1 DEF PutBytes, VerifyStored, MakeDir, WriterDies
  <2>2. ASSUME NEW r \in Readers, Look(r) \/ Read(r)
        PROVE  \E to \in {"read", "absent", "done", "raised"} :
                 /\ Proceed(r, to)
                 /\ step[r] \in {"idle", "read"}
                 /\ to = "read" => step[r] = "idle"
    <3>1. CASE Look(r)
      BY <3>1 DEF Look
    <3>2. CASE Read(r)
      <4>1. digest[r] \in Digests
        BY DEF BlobInv, BlobTypeOK, Users
      <4>2. file[digest[r]] \in {"none", "partial", "whole"}
        BY <4>1 DEF BlobInv, BlobTypeOK, Content
      <4> QED BY <3>2, <4>2 DEF Read
    <3> QED BY <2>2, <3>1, <3>2
  <2> QED BY <2>1, <2>2 DEF Users
<1>2. /\ UNCHANGED <<file, temp, digest, refs, deleted>>
      /\ dirs \subseteq dirs' /\ dirs' \subseteq {Dir[d] : d \in Digests}
  BY DEF PutBytes, VerifyStored, MakeDir, WriterDies, Look, Read, BlobInv, BlobTypeOK, Users
<1>3. BlobTypeOK'
  BY <1>1, <1>2 DEF BlobInv, BlobTypeOK, Proceed, Over
<1>4. WriterInv'
  BY <1>1, <1>2 DEF BlobInv, BlobTypeOK, WriterInv, Proceed
<1> QED BY <1>2, <1>3, <1>4 DEF BlobInv, BlobsWhole, ReferencesResolve, DirectoryInUse

(* A temporary file is opened in a directory that is there, is written, or  *)
(* is discarded after a failed write.                                       *)
LEMMA WritesKeep ==
    ASSUME BlobInv, NEW w \in Writers, OpenTemp(w) \/ Write(w)
    PROVE  BlobInv'
<1>1. /\ \/ Dir[digest[w]] \in dirs /\ Proceed(w, "write") /\ temp' = [temp EXCEPT ![w] = "partial"]
         \/ step[w] = "mkstemp" /\ Proceed(w, "raised") /\ temp' = temp
         \/ step[w] = "write" /\ Proceed(w, "replace") /\ temp' = [temp EXCEPT ![w] = "whole"]
         \/ Proceed(w, "raised") /\ temp' = [temp EXCEPT ![w] = "none"]
      /\ UNCHANGED <<file, dirs, digest, refs, deleted>>
      /\ step[w] \in {"mkstemp", "write"}
  BY DEF OpenTemp, Write, MakeTemp, Discard
<1>2. BlobTypeOK'
  BY <1>1 DEF BlobInv, BlobTypeOK, Proceed, Content, Over, Users
<1>3. WriterInv'
  BY <1>1 DEF BlobInv, BlobTypeOK, WriterInv, Proceed, Users
<1>4. DirectoryInUse'
  <2>1. SUFFICES ASSUME NEW v \in Writers, temp'[v] # "none"
                 PROVE  Dir[digest[v]] \in dirs
    BY <1>1 DEF DirectoryInUse
  <2>2. CASE temp[v] # "none"
    BY <2>2 DEF BlobInv, DirectoryInUse
  <2>3. CASE temp[v] = "none"
    BY <1>1, <2>1, <2>3 DEF BlobInv, BlobTypeOK, WriterInv, Content
  <2> QED BY <2>2, <2>3
<1> QED BY <1>1, <1>2, <1>3, <1>4 DEF BlobInv, BlobsWhole, ReferencesResolve

(* The rename puts the whole bytes at the blob's path at once.              *)
LEMMA ReplaceKeeps ==
    ASSUME BlobInv, NEW w \in Writers, Replace(w)
    PROVE  BlobInv'
<1>1. /\ file' = [file EXCEPT ![digest[w]] = "whole"]
      /\ temp' = [temp EXCEPT ![w] = "none"]
      /\ Proceed(w, "stored")
      /\ UNCHANGED <<dirs, digest, refs, deleted>>
  BY DEF Replace, Rename, Discard, BlobInv, WriterInv
<1>2. BlobTypeOK'
  BY <1>1 DEF BlobInv, BlobTypeOK, Proceed, Content, Users
<1>3. digest[w] \in Digests /\ file'[digest[w]] = "whole"
  BY <1>1 DEF BlobInv, BlobTypeOK, Users
<1>4. WriterInv'
  <2> SUFFICES ASSUME NEW v \in Writers
               PROVE  /\ temp'[v] # "none" => step'[v] \in {"write", "replace", "dead"}
                      /\ step'[v] = "write" => temp'[v] # "none"
                      /\ step'[v] = "replace" => temp'[v] = "whole"
                      /\ step'[v] = "stored" =>
                           file'[digest[v]] = "whole" \/ digest[v] \in deleted
    BY <1>1 DEF WriterInv
  <2>1. CASE v = w
    BY <1>1, <1>3, <2>1 DEF BlobInv, BlobTypeOK, Proceed, Users
  <2>2. CASE v # w
    <3>1. step'[v] = step[v] /\ temp'[v] = temp[v]
      BY <1>1, <2>2 DEF BlobInv, BlobTypeOK, Proceed, Users
    <3>2. digest[v] \in Digests
      BY DEF BlobInv, BlobTypeOK, Users
    <3>3. file'[digest[v]] = file[digest[v]] \/ file'[digest[v]] = "whole"
      BY <1>1, <3>2 DEF BlobInv, BlobTypeOK
    <3> QED BY <3>1, <3>3 DEF BlobInv, WriterInv
  <2> QED BY <2>1, <2>2
<1>5. BlobsWhole' /\ ReferencesResolve'
  BY <1>1 DEF BlobInv, BlobTypeOK, BlobsWhole, ReferencesResolve
<1>6. DirectoryInUse'
  BY <1>1 DEF BlobInv, BlobTypeOK, DirectoryInUse
<1> QED BY <1>2, <1>4, <1>5, <1>6 DEF BlobInv

(* The reference is stored after the blob.                                  *)
LEMMA ReferKeeps ==
    ASSUME BlobInv, NEW w \in Writers, Refer(w)
    PROVE  BlobInv'
<1>1. /\ step[w] = "stored"
      /\ \/ Proceed(w, "done") /\ refs' = refs \cup {digest[w]}
         \/ Proceed(w, "raised") /\ refs' = refs
      /\ UNCHANGED <<file, dirs, temp, digest, deleted>>
  BY DEF Refer
<1>2. BlobTypeOK'
  BY <1>1 DEF BlobInv, BlobTypeOK, Proceed, Over, Users
<1>3. WriterInv'
  BY <1>1 DEF BlobInv, BlobTypeOK, WriterInv, Proceed, Users
<1>4. ReferencesResolve'
  BY <1>1 DEF BlobInv, WriterInv, ReferencesResolve
<1> QED BY <1>1, <1>2, <1>3, <1>4 DEF BlobInv, BlobsWhole, DirectoryInUse

(* A deletion takes the blob and, when nothing else is in it, its directory. *)
LEMMA DeletesKeep ==
    ASSUME BlobInv, NEW x \in Deleters, Delete(x) \/ RemoveDir(x)
    PROVE  BlobInv'
<1>1. CASE Delete(x)
  <2>1. BlobTypeOK'
    BY <1>1 DEF Delete, BlobInv, BlobTypeOK, Proceed, Content, Users
  <2>2. WriterInv'
    BY <1>1 DEF Delete, BlobInv, BlobTypeOK, WriterInv, Proceed, Users
  <2> QED BY <1>1, <2>1, <2>2
          DEF Delete, BlobInv, BlobTypeOK, BlobsWhole, ReferencesResolve, DirectoryInUse
<1>2. CASE RemoveDir(x)
  <2>1. BlobTypeOK'
    BY <1>2 DEF RemoveDir, BlobInv, BlobTypeOK, Proceed, Over, Users
  <2>2. WriterInv'
    BY <1>2 DEF RemoveDir, BlobInv, BlobTypeOK, WriterInv, Proceed, Users
  <2>3. DirectoryInUse'
    BY <1>2 DEF RemoveDir, Empty, BlobInv, DirectoryInUse
  <2> QED BY <1>2, <2>1, <2>2, <2>3
          DEF RemoveDir, BlobInv, BlobsWhole, ReferencesResolve
<1> QED BY <1>1, <1>2

(* BlobInv is inductive.                                                    *)
LEMMA BlobInvNext == BlobInv /\ [BlobNext]_blobVars => BlobInv'
<1> SUFFICES ASSUME BlobInv, [BlobNext]_blobVars PROVE BlobInv'
  OBVIOUS
<1>1. CASE BlobNext
  BY <1>1, LooksKeep, WritesKeep, ReplaceKeeps, ReferKeeps, DeletesKeep DEF BlobNext
<1>2. CASE UNCHANGED blobVars
  BY <1>2 DEF blobVars, BlobInv, BlobTypeOK, WriterInv, BlobsWhole, ReferencesResolve,
              DirectoryInUse
<1> QED BY <1>1, <1>2

(* The variables of the blob store keep their types.                        *)
THEOREM BlobTypes == BlobSpec => []BlobTypeOK
<1>1. BlobInv => BlobTypeOK
  BY DEF BlobInv
<1> QED BY <1>1, BlobInvInit, BlobInvNext, PTL DEF BlobSpec

(* A blob's path never holds a part of its bytes, for any number of writers *)
(* and whoever of them dies: nobody reads half a document.                  *)
THEOREM BlobsAreWhole == BlobSpec => []BlobsWhole
<1>1. BlobInv => BlobsWhole
  BY DEF BlobInv
<1> QED BY <1>1, BlobInvInit, BlobInvNext, PTL DEF BlobSpec

(* Every stored artifact finds the bytes it refers to, unless they were     *)
(* deleted.                                                                 *)
THEOREM ReferencesHold == BlobSpec => []ReferencesResolve
<1>1. BlobInv => ReferencesResolve
  BY DEF BlobInv
<1> QED BY <1>1, BlobInvInit, BlobInvNext, PTL DEF BlobSpec

(* No directory is removed under a writer.                                  *)
THEOREM DirectoriesStay == BlobSpec => []DirectoryInUse
<1>1. BlobInv => DirectoryInUse
  BY DEF BlobInv
<1> QED BY <1>1, BlobInvInit, BlobInvNext, PTL DEF BlobSpec

(* A writer that ended without dying left no temporary file.                *)
THEOREM NoTempStays == BlobSpec => []NoTempLeft
<1>1. BlobInv => NoTempLeft
  BY DEF BlobInv, WriterInv, NoTempLeft
<1> QED BY <1>1, BlobInvInit, BlobInvNext, PTL DEF BlobSpec
=============================================================================
