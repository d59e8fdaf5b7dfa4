----------------------------- MODULE ModelCalls -----------------------------
(***************************************************************************)
(* Calls of the model provider (models.openrouter): pacing of the requests *)
(* that go out, retries with backoff, and cancellation by the time limits  *)
(* of its callers (asyncio.wait_for).                                      *)
(*                                                                         *)
(* Time is what is left of each delay: Tick is one unit of it.  A task may  *)
(* go on later than its sleep ends, never earlier.                         *)
(***************************************************************************)
EXTENDS Integers

CONSTANTS
    Tasks,          \* concurrent calls of complete
    Configs,        \* the configurations the plugin may be set up with
    RetryAfters,    \* the Retry-After headers of the service
    MaxBackoff,     \* MAX_BACKOFF_SECONDS
    NoTask

\* 1 / requests_per_second, 0 when the requests are not paced; max_retries.
ASSUME ConfigsAssumption == Configs \subseteq [interval : Nat, retries : Nat]
ASSUME TimesAssumption == RetryAfters \subseteq Int /\ MaxBackoff \in Nat
ASSUME NoTaskAssumption == NoTask \notin Tasks

\* MAX_RETRIES of the module
MAX_RETRIES == 2

VARIABLES
    config,     \* the configuration
    pc,         \* where a call is
    attempt,    \* the attempts it has begun
    sleep,      \* what is left of its sleep
    lock,       \* the task that holds _pace_lock
    gap,        \* what is left until _next_allowed
    idle,       \* time since the last request went out, at most Interval
    rest,       \* what is left of the delay the last failure of a task asked for
    sent        \* the requests a task sent

vars == <<config, pc, attempt, sleep, lock, gap, idle, rest, sent>>

Ended == {"answered", "raised", "cancelled"}
PCs == {"new", "loop", "pace", "held", "wait", "backoff"} \cup Ended

Least(a, b) == IF a <= b THEN a ELSE b
AtLeast0(a) == IF a >= 0 THEN a ELSE 0

Interval == config.interval
Configured == config.retries

\* What the plugin's setup makes of the configuration.
Retries == IF Configured = 0 THEN MAX_RETRIES ELSE Configured

TypeOK ==
    /\ config \in Configs
    /\ pc \in [Tasks -> PCs]
    /\ attempt \in [Tasks -> 0 .. Retries + 1]
    /\ sleep \in [Tasks -> Nat]
    /\ lock \in Tasks \cup {NoTask}
    /\ gap \in 0 .. Interval
    /\ idle \in 0 .. Interval
    /\ rest \in [Tasks -> Nat]
    /\ sent \in [Tasks -> Nat]

Init ==
    /\ config \in Configs
    /\ pc = [t \in Tasks |-> "new"]
    /\ attempt = [t \in Tasks |-> 0]
    /\ sleep = [t \in Tasks |-> 0]
    /\ lock = NoTask
    /\ gap = 0
    /\ idle = Interval
    /\ rest = [t \in Tasks |-> 0]
    /\ sent = [t \in Tasks |-> 0]

-----------------------------------------------------------------------------
\* Mutants: a lock nobody waits for; a lock that is not released; one attempt
\* more; a retry without a delay.
NeverHeld == TRUE
KeepsLock(t) == UNCHANGED lock
OneMore(t) == attempt[t] = Retries + 2
NoDelay(n, header) == {0}

Goto(t, to) == pc' = [pc EXCEPT ![t] = to]

LockFree == lock = NoTask

\* _next_allowed = now + min_interval.
Booked == Interval

\* The end of "async with self._pace_lock" for the task that holds it.
Unlock(t) == lock' = IF lock = t THEN NoTask ELSE lock

\* The attempt at hand is the last.
IsLast(t) == attempt[t] = Retries + 1

\* _backoff_delay for attempt n: min(2**n + jitter, cap), or Retry-After.
NoHeader == -1000
Backoff(n, header) ==
    IF header # NoHeader
    THEN {Least(AtLeast0(header), MaxBackoff)}
    ELSE {Least(2^n + jitter, MaxBackoff) : jitter \in {0, 1}}

-----------------------------------------------------------------------------
\* complete raises without an API key or a model; else the loop begins.
Begin(t) ==
    /\ pc[t] = "new"
    /\ Goto(t, "loop") \/ Goto(t, "raised")
    /\ UNCHANGED <<config, attempt, sleep, lock, gap, idle, rest, sent>>

Attempt(t) ==
    /\ pc[t] = "loop"
    /\ attempt' = [attempt EXCEPT ![t] = @ + 1]
    /\ Goto(t, "pace")
    /\ UNCHANGED <<config, sleep, lock, gap, idle, rest, sent>>

\* _pace takes the lock and sleeps as long as _next_allowed is ahead.
Pace(t) ==
    /\ pc[t] = "pace" /\ Interval > 0
    /\ LockFree
    /\ lock' = t
    /\ sleep' = [sleep EXCEPT ![t] = gap]
    /\ Goto(t, "held")
    /\ UNCHANGED <<config, attempt, gap, idle, rest, sent>>

\* The next slot is booked, the lock released and the request sent: nothing is
\* awaited in between.
Send(t) ==
    /\ \/ pc[t] = "pace" /\ Interval = 0 /\ UNCHANGED <<gap, lock>>
       \/ pc[t] = "held" /\ sleep[t] = 0 /\ gap' = Booked /\ Unlock(t)
    /\ idle' = 0
    /\ sent' = [sent EXCEPT ![t] = @ + 1]
    /\ Goto(t, "wait")
    /\ UNCHANGED <<config, attempt, sleep, rest>>

\* An answer; a status not worth a retry, an error envelope, a malformed answer.
Answer(t) ==
    /\ pc[t] = "wait"
    /\ Goto(t, "answered") \/ Goto(t, "raised")
    /\ UNCHANGED <<config, attempt, sleep, lock, gap, idle, rest, sent>>

(* A retryable status, with or without Retry-After, a timeout or a failure  *)
(* of the transport.                                                        *)
Transient(t) ==
    /\ pc[t] = "wait"
    /\ \/ /\ IsLast(t)
          /\ Goto(t, "raised")
          /\ UNCHANGED <<sleep, rest>>
       \/ /\ ~IsLast(t)
          /\ \E header \in RetryAfters \cup {NoHeader} :
              /\ \E d \in Backoff(attempt[t] - 1, header) : sleep' = [sleep EXCEPT ![t] = d]
              /\ rest' = [rest EXCEPT ![t] =
                   IF header = NoHeader THEN Least(2^(attempt[t] - 1), MaxBackoff)
                   ELSE Least(AtLeast0(header), MaxBackoff)]
          /\ Goto(t, "backoff")
    /\ UNCHANGED <<config, attempt, lock, gap, idle, sent>>

Retry(t) ==
    /\ pc[t] = "backoff" /\ sleep[t] = 0
    /\ Goto(t, "loop")
    /\ UNCHANGED <<config, attempt, sleep, lock, gap, idle, rest, sent>>

\* The caller's time limit cancels the task where it waits.
Cancel(t) ==
    /\ pc[t] \in {"pace", "held", "wait", "backoff"}
    /\ Unlock(t)
    /\ sleep' = [sleep EXCEPT ![t] = 0]
    /\ Goto(t, "cancelled")
    /\ UNCHANGED <<config, attempt, gap, idle, rest, sent>>

Tick ==
    /\ \/ gap > 0 \/ idle < Interval
       \/ \E t \in Tasks : sleep[t] > 0 \/ rest[t] > 0
    /\ gap' = AtLeast0(gap - 1)
    /\ idle' = Least(idle + 1, Interval)
    /\ sleep' = [t \in Tasks |-> AtLeast0(sleep[t] - 1)]
    /\ rest' = [t \in Tasks |-> AtLeast0(rest[t] - 1)]
    /\ UNCHANGED <<config, pc, attempt, lock, sent>>

Step(t) ==
    \/ Begin(t) \/ Attempt(t) \/ Pace(t) \/ Send(t)
    \/ Answer(t) \/ Transient(t) \/ Retry(t)

Next == (\E t \in Tasks : Step(t) \/ Cancel(t)) \/ Tick

\* Time passes, the event loop runs what is ready, and a request ends: httpx
\* gives it a timeout.
Fairness == WF_vars(Tick) /\ \A t \in Tasks : WF_vars(Step(t))

Spec == Init /\ [][Next]_vars /\ Fairness

-----------------------------------------------------------------------------
(* Two requests never go out less than Interval apart, whichever tasks they *)
(* belong to, first attempts or retries, and also when a task is cancelled  *)
(* while it waits for its slot.                                             *)
RequestsApart == [][(\E t \in Tasks : sent'[t] # sent[t]) => idle = Interval]_vars

(* A retry waits out what the failure before it asked for: Retry-After as   *)
(* far as the cap, or the exponential backoff.                              *)
RestRespected == [][\A t \in Tasks : sent'[t] # sent[t] => rest[t] = 0]_vars

(* A call sends at most one request more than the configured retries, for   *)
(* every number the schema allows but one: a configured 0 means no retries   *)
(* (config/schema.py:38), and the plugin's setup, which takes it for a       *)
(* number that is not given, makes the module's default of it.  It is held   *)
(* to that default here.                                                     *)
RetriesAsConfigured ==
    \A t \in Tasks : sent[t] <= 1 + IF Configured # 0 THEN Configured ELSE MAX_RETRIES

(* Every call ends, with an answer or an exception: no cancelled or failed  *)
(* task takes the slot or the lock with it.                                 *)
CallsEnd == \A t \in Tasks : pc[t] = "loop" ~> pc[t] \in Ended
=============================================================================
