-------------------------- MODULE ModelCallsProofs --------------------------
(***************************************************************************)
(* Requests keep their distance and their number, for any number of calls, *)
(* any pacing and any service.  The length of a backoff plays no part: the  *)
(* provers know nothing of powers of two, and nothing of them is used.     *)
(***************************************************************************)
EXTENDS ModelCalls, TLAPS

\* The types of what matters; a task's sleep counts while it holds the lock.
CallTypes ==
    /\ config \in Configs
    /\ pc \in [Tasks -> PCs]
    /\ attempt \in [Tasks -> Nat]
    /\ DOMAIN sleep = Tasks
    /\ lock \in Tasks \cup {NoTask}
    /\ gap \in Nat
    /\ idle \in 0 .. Interval
    /\ sent \in [Tasks -> Nat]

\* An attempt is counted before its request goes out, and is not made when all
\* have been.
CountInv ==
    \A t \in Tasks :
        /\ sent[t] <= attempt[t]
        /\ attempt[t] <= Retries + 1
        /\ pc[t] \in {"pace", "held"} => sent[t] < attempt[t]
        /\ pc[t] \in {"new", "loop", "backoff"} => attempt[t] <= Retries

\* The next slot is Interval or more after the last request, and the task that
\* holds the lock sleeps at least as long as that.
PaceInv ==
    /\ gap + idle >= Interval
    /\ \A t \in Tasks : pc[t] = "held" =>
          lock = t /\ sleep[t] \in Nat /\ sleep[t] >= gap

CallsInv == CallTypes /\ CountInv /\ PaceInv

(* The configuration has numbers.                                           *)
LEMMA ConfigTypes ==
    ASSUME config \in Configs
    PROVE  Interval \in Nat /\ Configured \in Nat /\ Retries \in Nat
BY ConfigsAssumption DEF Interval, Configured, Retries, MAX_RETRIES

(* Nothing has been sent yet, and nobody holds the lock.                    *)
LEMMA InvInit == Init => CallsInv
<1> SUFFICES ASSUME Init PROVE CallsInv
  OBVIOUS
<1>1. Interval \in Nat /\ Retries \in Nat
  BY ConfigTypes DEF Init
<1>2. CallTypes
  BY <1>1 DEF Init, CallTypes, PCs
<1>3. CountInv /\ PaceInv
  BY <1>1 DEF Init, CountInv, PaceInv
<1> QED BY <1>2, <1>3 DEF CallsInv

(* The configuration stays, and with it all that is read from it.           *)
LEMMA ConfigStays ==
    ASSUME config' = config
    PROVE  Interval' = Interval /\ Configured' = Configured /\ Retries' = Retries
BY DEF Interval, Configured, Retries

(* Steps that only move a call from one place to another.                   *)
LEMMA MovesKeep ==
    ASSUME CallsInv, NEW t \in Tasks, Begin(t) \/ Answer(t) \/ Retry(t)
    PROVE  CallsInv'
<1>1. /\ \E to \in {"loop", "answered", "raised"} :
             /\ pc' = [pc EXCEPT ![t] = to]
             /\ to = "loop" => pc[t] \in {"new", "backoff"}
      /\ UNCHANGED <<config, attempt, sleep, lock, gap, idle, rest, sent>>
  BY DEF Begin, Answer, Retry, Goto
<1>2. Interval' = Interval /\ Retries' = Retries
  BY <1>1, ConfigStays
<1>3. CallTypes'
  BY <1>1, <1>2 DEF CallsInv, CallTypes, PCs, Ended
<1>4. CountInv'
  BY <1>1, <1>2 DEF CallsInv, CallTypes, CountInv
<1>5. PaceInv'
  BY <1>1, <1>2 DEF CallsInv, CallTypes, PaceInv
<1> QED BY <1>3, <1>4, <1>5 DEF CallsInv

(* Counting an attempt.                                                     *)
LEMMA AttemptKeeps ==
    ASSUME CallsInv, NEW t \in Tasks, Attempt(t)
    PROVE  CallsInv'
<1>1. /\ pc[t] = "loop"
      /\ pc' = [pc EXCEPT ![t] = "pace"]
      /\ attempt' = [attempt EXCEPT ![t] = attempt[t] + 1]
      /\ UNCHANGED <<config, sleep, lock, gap, idle, rest, sent>>
  BY DEF Attempt, Goto
<1>2. Interval' = Interval /\ Retries' = Retries /\ Retries \in Nat
  BY <1>1, ConfigStays, ConfigTypes DEF CallsInv, CallTypes
<1>3. CallTypes'
  BY <1>1, <1>2 DEF CallsInv, CallTypes, PCs
<1>4. CountInv'
  BY <1>1, <1>2 DEF CallsInv, CallTypes, CountInv
<1>5. PaceInv'
  BY <1>1, <1>2 DEF CallsInv, CallTypes, PaceInv
<1> QED BY <1>3, <1>4, <1>5 DEF CallsInv

(* Taking the lock: nobody else is in its critical section.                 *)
LEMMA PaceKeeps ==
    ASSUME CallsInv, NEW t \in Tasks, Pace(t)
    PROVE  CallsInv'
<1>1. /\ pc[t] = "pace" /\ lock = NoTask
      /\ pc' = [pc EXCEPT ![t] = "held"]
      /\ lock' = t
      /\ sleep' = [sleep EXCEPT ![t] = gap]
      /\ UNCHANGED <<config, attempt, gap, idle, rest, sent>>
  BY DEF Pace, Goto, LockFree
<1>2. Interval' = Interval /\ Retries' = Retries
  BY <1>1, ConfigStays
<1>3. CallTypes'
  BY <1>1, <1>2 DEF CallsInv, CallTypes, PCs
<1>4. CountInv'
  BY <1>1, <1>2 DEF CallsInv, CallTypes, CountInv
<1>5. \A u \in Tasks : pc[u] # "held"
  BY <1>1, NoTaskAssumption DEF CallsInv, PaceInv
<1>6. PaceInv'
  BY <1>1, <1>2, <1>5 DEF CallsInv, CallTypes, PaceInv
<1> QED BY <1>3, <1>4, <1>6 DEF CallsInv

(* Sending: a paced request goes out when its slot has come, and books the  *)
(* next one; the lock is free afterwards.                                   *)
LEMMA SendKeeps ==
    ASSUME CallsInv, NEW t \in Tasks, Send(t)
    PROVE  CallsInv'
<1>1. /\ pc[t] \in {"pace", "held"}
      /\ pc' = [pc EXCEPT ![t] = "wait"]
      /\ sent' = [sent EXCEPT ![t] = sent[t] + 1]
      /\ idle' = 0
      /\ UNCHANGED <<config, attempt, sleep, rest>>
  BY DEF Send, Goto
<1>2. /\ Interval' = Interval /\ Retries' = Retries
      /\ Interval \in Nat /\ Retries \in Nat
  BY <1>1, ConfigStays, ConfigTypes DEF CallsInv, CallTypes
<1>3. \/ pc[t] = "pace" /\ Interval = 0 /\ gap' = gap /\ lock' = lock
      \/ /\ pc[t] = "held" /\ lock = t
         /\ gap' = Interval /\ lock' = NoTask
  BY DEF Send, Unlock, Booked, CallsInv, PaceInv
<1>4. CallTypes'
  BY <1>1, <1>2, <1>3 DEF CallsInv, CallTypes, PCs
<1>5. CountInv'
  BY <1>1, <1>2 DEF CallsInv, CallTypes, CountInv
<1>6. PaceInv'
  BY <1>1, <1>2, <1>3 DEF CallsInv, CallTypes, PaceInv
<1> QED BY <1>4, <1>5, <1>6 DEF CallsInv

(* A failure is retried only when an attempt is left.                       *)
LEMMA TransientKeeps ==
    ASSUME CallsInv, NEW t \in Tasks, Transient(t)
    PROVE  CallsInv'
<1>1. /\ \/ pc' = [pc EXCEPT ![t] = "raised"] /\ sleep' = sleep
         \/ /\ pc' = [pc EXCEPT ![t] = "backoff"]
            /\ attempt[t] # Retries + 1
            /\ \E d : sleep' = [sleep EXCEPT ![t] = d]
      /\ UNCHANGED <<config, attempt, lock, gap, idle, sent>>
  BY DEF Transient, Goto, IsLast
<1>2. Interval' = Interval /\ Retries' = Retries /\ Retries \in Nat
  BY <1>1, ConfigStays, ConfigTypes DEF CallsInv, CallTypes
<1>3. CallTypes'
  BY <1>1, <1>2 DEF CallsInv, CallTypes, PCs, Ended
<1>4. CountInv'
  BY <1>1, <1>2 DEF CallsInv, CallTypes, CountInv
<1>5. PaceInv'
  BY <1>1, <1>2 DEF CallsInv, CallTypes, PaceInv
<1> QED BY <1>3, <1>4, <1>5 DEF CallsInv

(* A cancelled task gives the lock back, and the slot stays where it was.   *)
LEMMA CancelKeeps ==
    ASSUME CallsInv, NEW t \in Tasks, Cancel(t)
    PROVE  CallsInv'
<1>1. /\ pc' = [pc EXCEPT ![t] = "cancelled"]
      /\ sleep' = [sleep EXCEPT ![t] = 0]
      /\ lock' = IF lock = t THEN NoTask ELSE lock
      /\ UNCHANGED <<config, attempt, gap, idle, rest, sent>>
  BY DEF Cancel, Goto, Unlock
<1>2. Interval' = Interval /\ Retries' = Retries
  BY <1>1, ConfigStays
<1>3. CallTypes'
  BY <1>1, <1>2 DEF CallsInv, CallTypes, PCs, Ended
<1>4. CountInv'
  BY <1>1, <1>2 DEF CallsInv, CallTypes, CountInv
<1>5. PaceInv'
  BY <1>1, <1>2 DEF CallsInv, CallTypes, PaceInv
<1> QED BY <1>3, <1>4, <1>5 DEF CallsInv

(* Time passes for the slot, the holder of the lock and the last request    *)
(* alike.                                                                   *)
LEMMA TickKeeps ==
    ASSUME CallsInv, Tick
    PROVE  CallsInv'
<1>1. /\ gap' = AtLeast0(gap - 1)
      /\ idle' = Least(idle + 1, Interval)
      /\ sleep' = [t \in Tasks |-> AtLeast0(sleep[t] - 1)]
      /\ UNCHANGED <<config, pc, attempt, lock, sent>>
  BY DEF Tick
<1>2. Interval' = Interval /\ Retries' = Retries /\ Interval \in Nat
  BY <1>1, ConfigStays, ConfigTypes DEF CallsInv, CallTypes
<1>3. CallTypes'
  BY <1>1, <1>2 DEF CallsInv, CallTypes, AtLeast0, Least
<1>4. CountInv'
  BY <1>1, <1>2 DEF CallsInv, CountInv
<1>5. PaceInv'
  BY <1>1, <1>2 DEF CallsInv, CallTypes, PaceInv, AtLeast0, Least
<1> QED BY <1>3, <1>4, <1>5 DEF CallsInv

(* CallsInv is inductive.                                                   *)
LEMMA InvNext == CallsInv /\ [Next]_vars => CallsInv'
<1> SUFFICES ASSUME CallsInv, [Next]_vars PROVE CallsInv'
  OBVIOUS
<1>1. ASSUME NEW t \in Tasks, Step(t) PROVE CallsInv'
  BY <1>1, MovesKeep, AttemptKeeps, PaceKeeps, SendKeeps, TransientKeeps DEF Step
<1>2. ASSUME NEW t \in Tasks, Cancel(t) PROVE CallsInv'
  BY <1>2, CancelKeeps
<1>3. CASE Tick
  BY <1>3, TickKeeps
<1>4. CASE UNCHANGED vars
  BY <1>4 DEF vars, CallsInv, CallTypes, CountInv, PaceInv, Interval, Retries, Configured
<1> QED BY <1>1, <1>2, <1>3, <1>4 DEF Next

(* For any calls and configurations a task that holds the pacing lock       *)
(* sleeps until its slot, and attempts are counted before they are made.    *)
THEOREM CallsCorrect == Spec => []CallsInv
BY InvInit, InvNext, PTL DEF Spec

(* Two requests never go out less than Interval apart, for any number of    *)
(* tasks and any interval: the pacing of _pace keeps the provider's limit.  *)
THEOREM PacingCorrect == Spec => RequestsApart
<1>1. CallsInv /\ [Next]_vars => [(\E t \in Tasks : sent'[t] # sent[t]) => idle = Interval]_vars
  <2> SUFFICES ASSUME CallsInv, Next, NEW u \in Tasks, sent'[u] # sent[u]
               PROVE  idle = Interval
    BY DEF vars
  <2>1. PICK t \in Tasks : Send(t)
    BY DEF Next, Step, Begin, Attempt, Pace, Answer, Transient, Retry, Cancel, Tick
  <2>2. Interval \in Nat
    BY ConfigTypes DEF CallsInv, CallTypes
  <2>3. CASE Interval = 0
    BY <2>3 DEF CallsInv, CallTypes
  <2>4. CASE pc[t] = "held" /\ sleep[t] = 0
    BY <2>2, <2>4 DEF CallsInv, CallTypes, PaceInv
  <2> QED BY <2>1, <2>3, <2>4 DEF Send
<1> QED BY <1>1, CallsCorrect, PTL DEF RequestsApart, Spec

(* A call sends at most one request more than the configured retries, or,   *)
(* configured with 0, than the module's default, which setup makes of it:   *)
(* for any configurations, Retry-After headers, failures and cancellations. *)
THEOREM RetriesCorrect == Spec => []RetriesAsConfigured
<1>1. CallsInv => RetriesAsConfigured
  <2> SUFFICES ASSUME CallsInv, NEW t \in Tasks
               PROVE  sent[t] <= 1 + IF Configured # 0 THEN Configured ELSE MAX_RETRIES
    BY DEF RetriesAsConfigured
  <2>1. Configured \in Nat /\ Retries = IF Configured # 0 THEN Configured ELSE MAX_RETRIES
    BY ConfigTypes DEF CallsInv, CallTypes, Retries, Configured
  <2>2. sent[t] \in Nat /\ attempt[t] \in Nat /\ Retries \in Nat
    BY <2>1 DEF CallsInv, CallTypes, MAX_RETRIES
  <2>3. sent[t] <= Retries + 1
    BY <2>2 DEF CallsInv, CountInv
  <2> QED BY <2>1, <2>2, <2>3
<1> QED BY <1>1, CallsCorrect, PTL
=============================================================================
