---------------------------- MODULE AgentSession ----------------------------
(***************************************************************************)
(* The agent loop (loop.simple_tool_loop), the event bus it publishes to   *)
(* and the session log that listens (session.jsonl).                       *)
(*                                                                         *)
(* Runs are tasks of one process.  A step of a run goes from one event to  *)
(* the next: publish awaits its handlers, the model and the tools are      *)
(* awaited, and there other runs come in.  Publishing appends the event to *)
(* the file of the run's session before the run goes on; an append that    *)
(* raises is logged and swallowed.  A process that dies may leave the line *)
(* it was writing torn; the runs that start later do so in a new process.  *)
(***************************************************************************)
EXTENDS Naturals, Sequences, FiniteSets

CONSTANTS
    Runs,       \* calls of SimpleToolLoop.run
    Sessions,   \* session ids
    Existing,   \* the sessions whose directory exists
    Given,      \* run -> the session_id it is called with, or NoSession
    Fresh,      \* run -> the id create_session makes for it
    Settings,   \* the runs that may start, the answers of the model (sequences
                \* of tool call ids), max_steps of the loop, and the faults that
                \* may occur, of "cancel", "crash", "create", "write"
    NoSession,  \* no log
    Torn,       \* a line that was not written to its end, without newline
    Garbled     \* a line that holds a torn line and what was written after it

ASSUME SessionsAssumption ==
    /\ Existing \subseteq Sessions /\ NoSession \notin Sessions
    /\ Given \in [Runs -> Sessions \cup {NoSession}]
    /\ Fresh \in [Runs -> Sessions \ Existing]
    /\ \A r, q \in Runs : Fresh[r] = Fresh[q] => r = q

\* The ids of the tool calls that the model may ask for.
Calls == UNION {UNION {{a[i] : i \in DOMAIN a} : a \in s.answers} : s \in Settings}

EventTypes ==
    {"run.started", "run.completed", "run.failed", "model.requested", "model.completed",
     "model.failed", "tool.requested", "tool.completed", "tool.failed"}
\* An event with the ids of the tool calls that it carries.
Event == [run : Runs, type : EventTypes, calls : Seq(Calls)]
Line == Event \cup {Torn, Garbled}

ASSUME SettingsAssumption ==
    \A s \in Settings : /\ s.runs \subseteq Runs
                        /\ s.maxSteps \in Nat
                        /\ s.answers \subseteq Seq(Calls)
                        /\ s.faults \subseteq {"cancel", "crash", "create", "write"}
ASSUME LinesAssumption == Torn # Garbled /\ Torn \notin Event /\ Garbled \notin Event

VARIABLES
    pc,         \* where a run is
    step,       \* model calls it has made
    messages,   \* its conversation after the prompt
    todo,       \* tool calls of the last answer still to dispatch
    session,    \* the session that logs it
    files,      \* session -> lines of its events.jsonl
    setting     \* the setting, chosen at the beginning

vars == <<pc, step, messages, todo, session, files, setting>>
loopVars == <<step, messages, todo>>

Ended == {"returned", "raised", "cancelled", "dead"}
PCs == {"idle", "lookup", "ask", "model", "failing", "dispatch", "tool", "final"} \cup Ended

Answers == setting.answers
MaxSteps == setting.maxSteps
Faults == setting.faults

Message == [role : {"assistant", "tool"}, calls : Seq(Calls)]

TypeOK ==
    /\ setting \in Settings
    /\ pc \in [Runs -> PCs]
    /\ step \in [Runs -> 0 .. MaxSteps]
    /\ messages \in [Runs -> Seq(Message)]
    /\ todo \in [Runs -> Seq(Calls)]
    /\ session \in [Runs -> Sessions \cup {NoSession}]
    /\ files \in [Sessions -> Seq(Line)]

Init ==
    /\ setting \in Settings
    /\ pc = [r \in Runs |-> "idle"]
    /\ step = [r \in Runs |-> 0]
    /\ messages = [r \in Runs |-> <<>>]
    /\ todo = [r \in Runs |-> <<>>]
    /\ session = [r \in Runs |-> NoSession]
    /\ files = [s \in Sessions |-> <<>>]

-----------------------------------------------------------------------------
\* Mutants: a tool call that gets no message; a limit that nobody hears of; a
\* file opened to be written anew; a dispatch that does not go on to the next
\* step.
Unanswered(r) == messages[r]
NoLimitEvent(r) == UNCHANGED files
Rewritten(f, line) == <<line>>
DispatchAgain(r) == "dispatch"

Goto(r, to) == pc' = [pc EXCEPT ![r] = to]

\* The file once a line is written: after a torn line it goes to the same line.
Written(f, line) ==
    IF Len(f) > 0 /\ f[Len(f)] = Torn
    THEN [f EXCEPT ![Len(f)] = IF line = Torn THEN Torn ELSE Garbled]
    ELSE Append(f, line)

\* publish, _persist and append, for a run whose events go to the log of s.
EmitTo(s, r, type, calls) ==
    \/ s = NoSession /\ UNCHANGED files
    \/ /\ s # NoSession
       /\ files' = [files EXCEPT ![s] =
                       Written(@, [run |-> r, type |-> type, calls |-> calls])]
    \/ /\ s # NoSession /\ "write" \in Faults
       /\ \/ UNCHANGED files
          \/ files' = [files EXCEPT ![s] = Written(@, Torn)]

Emit(r, type, calls) == EmitTo(session[r], r, type, calls)

\* The loop is exhausted.
EmitLimit(r) == Emit(r, "run.failed", <<>>)

\* The step of the next iteration.
NextStep(r) == step[r] + 1

\* The next tool call of the answer, or the next step.
AfterTool(r) == IF Len(todo[r]) = 1 THEN "ask" ELSE "dispatch"

\* The conversation with a message for the tool call at hand.
Answered(r) == Append(messages[r], [role |-> "tool", calls |-> <<todo[r][1]>>])

-----------------------------------------------------------------------------
(* run, as far as its first event.  The events of an id nobody created go   *)
(* nowhere, and so do all of them when create_session fails.                *)
Start(r) ==
    /\ pc[r] = "idle" /\ r \in setting.runs
    /\ \E s \in Sessions \cup {NoSession} :
        /\ \/ Given[r] # NoSession /\ s = IF Given[r] \in Existing THEN Given[r] ELSE NoSession
           \/ Given[r] = NoSession /\ s = Fresh[r]
           \/ Given[r] = NoSession /\ s = NoSession /\ "create" \in Faults
        /\ session' = [session EXCEPT ![r] = s]
        /\ EmitTo(s, r, "run.started", <<>>)
    /\ Goto(r, "lookup")
    /\ UNCHANGED <<loopVars, setting>>

\* The model router is looked up, and the tools; a tool that is not there is
\* left out.
Lookup(r) ==
    /\ pc[r] = "lookup"
    /\ \/ Goto(r, "ask") /\ UNCHANGED files
       \/ Goto(r, "raised") /\ Emit(r, "run.failed", <<>>)
    /\ UNCHANGED <<loopVars, session, setting>>

Ask(r) ==
    /\ pc[r] = "ask"
    /\ step[r] < MaxSteps
    /\ step' = [step EXCEPT ![r] = NextStep(r)]
    /\ Emit(r, "model.requested", <<>>)
    /\ Goto(r, "model")
    /\ UNCHANGED <<messages, todo, session, setting>>

Exhausted(r) ==
    /\ pc[r] = "ask"
    /\ step[r] = MaxSteps
    /\ EmitLimit(r)
    /\ Goto(r, "raised")
    /\ UNCHANGED <<loopVars, session, setting>>

ModelFails(r) ==
    /\ pc[r] = "model"
    /\ Emit(r, "model.failed", <<>>)
    /\ Goto(r, "failing")
    /\ UNCHANGED <<loopVars, session, setting>>

RunFails(r) ==
    /\ pc[r] = "failing"
    /\ Emit(r, "run.failed", <<>>)
    /\ Goto(r, "raised")
    /\ UNCHANGED <<loopVars, session, setting>>

ModelAnswers(r) ==
    /\ pc[r] = "model"
    /\ \E calls \in Answers :
        /\ Emit(r, "model.completed", calls)
        /\ todo' = [todo EXCEPT ![r] = calls]
        /\ messages' = [messages EXCEPT ![r] =
             IF calls = <<>> THEN @
             ELSE Append(@, [role |-> "assistant", calls |-> calls])]
        /\ Goto(r, IF calls = <<>> THEN "final" ELSE "dispatch")
    /\ UNCHANGED <<step, session, setting>>

RequestTool(r) ==
    /\ pc[r] = "dispatch" /\ todo[r] # <<>>
    /\ Emit(r, "tool.requested", <<todo[r][1]>>)
    /\ Goto(r, "tool")
    /\ UNCHANGED <<loopVars, session, setting>>

(* The tool is not there, raises, returns what json.dumps refuses, or       *)
(* returns: the conversation goes on in each case.                          *)
ToolEnds(r) ==
    /\ pc[r] = "tool"
    /\ \/ Emit(r, "tool.completed", <<todo[r][1]>>)
       \/ Emit(r, "tool.failed", <<>>)
    /\ messages' = [messages EXCEPT ![r] = Answered(r)]
    /\ todo' = [todo EXCEPT ![r] = Tail(@)]
    /\ Goto(r, AfterTool(r))
    /\ UNCHANGED <<step, session, setting>>

Return(r) ==
    /\ pc[r] = "final"
    /\ Emit(r, "run.completed", <<>>)
    /\ Goto(r, "returned")
    /\ UNCHANGED <<loopVars, session, setting>>

(* asyncio.CancelledError where the run waits: no handler of run catches it. *)
Cancel(r) ==
    /\ "cancel" \in Faults /\ pc[r] \in {"model", "tool"}
    /\ Goto(r, "cancelled")
    /\ UNCHANGED <<loopVars, session, files, setting>>

(* The process dies; the line that one of its runs was writing may be torn. *)
Live == {r \in Runs : pc[r] \notin Ended \cup {"idle"}}
Crash ==
    /\ "crash" \in Faults /\ Live # {}
    /\ pc' = [r \in Runs |-> IF r \in Live THEN "dead" ELSE pc[r]]
    /\ \/ UNCHANGED files
       \/ \E r \in Live : /\ session[r] # NoSession
                          /\ files' = [files EXCEPT ![session[r]] = Written(@, Torn)]
    /\ UNCHANGED <<loopVars, session, setting>>

Step(r) ==
    \/ Lookup(r) \/ Ask(r) \/ Exhausted(r) \/ ModelFails(r) \/ RunFails(r)
    \/ ModelAnswers(r) \/ RequestTool(r) \/ ToolEnds(r) \/ Return(r)

Next == (\E r \in Runs : Start(r) \/ Step(r) \/ Cancel(r)) \/ Crash

\* The model and the tools answer or raise in the end, and the event loop runs
\* every task that is ready.
Fairness == \A r \in Runs : WF_vars(Step(r))

Spec == Init /\ [][Next]_vars /\ Fairness

-----------------------------------------------------------------------------
\* Where the log of a run has its events of some types.
Events(r, types) ==
    {i \in DOMAIN files[session[r]] :
        LET line == files[session[r]][i]
        IN  line \notin {Torn, Garbled} /\ line.run = r /\ line.type \in types}

Count(r, types) == Cardinality(Events(r, types))

(* The model never sees an unanswered tool call: each assistant message is  *)
(* followed by one tool message for each of its calls, in their order, what *)
(* ever became of the tool and also when ids repeat.                        *)
ToolResultsPaired ==
    \A r \in Runs : pc[r] = "model" =>
        \A i \in DOMAIN messages[r] : messages[r][i].role = "assistant" =>
            LET calls == messages[r][i].calls IN
            /\ i + Len(calls) <= Len(messages[r])
            /\ \A k \in DOMAIN calls :
                 messages[r][i + k] = [role |-> "tool", calls |-> <<calls[k]>>]
            /\ i + Len(calls) < Len(messages[r]) =>
                 messages[r][i + Len(calls) + 1].role = "assistant"

\* Every append succeeds.
Writable == "write" \notin Faults

(* A run that returns or raises leaves its whole trajectory in the log, as  *)
(* long as the log can be written: one terminal event, the right one and    *)
(* the last, an answer for each of at most max_steps model requests and a   *)
(* result for each tool request, however runs that share it interleave.     *)
TrajectoryComplete ==
    \A r \in Runs : Writable /\ pc[r] \in {"returned", "raised"} /\ session[r] # NoSession =>
        /\ \E last \in Events(r, IF pc[r] = "returned" THEN {"run.completed"} ELSE {"run.failed"}) :
              \A i \in Events(r, EventTypes) : i <= last
        /\ Count(r, {"run.completed", "run.failed"}) = 1
        /\ Count(r, {"model.requested"}) <= MaxSteps
        /\ Count(r, {"model.requested"}) = Count(r, {"model.completed", "model.failed"})
        /\ Count(r, {"tool.requested"}) = Count(r, {"tool.completed", "tool.failed"})

\* The events that tell what was said: answers with tool calls, and the calls.
Said(r) ==
    {i \in Events(r, {"model.completed", "tool.requested"}) : files[session[r]][i].calls # <<>>}

\* The message an event stands for.
Told(event) ==
    [role |-> IF event.type = "model.completed" THEN "assistant" ELSE "tool",
     calls |-> event.calls]

\* What was said is the conversation, message for message.
Retells(r, conversation) ==
    /\ Cardinality(Said(r)) = Len(conversation)
    /\ \A i \in Said(r) :
          conversation[Cardinality({j \in Said(r) : j <= i})] = Told(files[session[r]][i])

(* The log, when it can be written, is enough to replay a run: when the     *)
(* model is asked, the answers and tool calls logged so far are the         *)
(* conversation it is asked with.                                           *)
ReplayRebuilds ==
    \A r \in Runs : Writable /\ pc[r] = "model" /\ session[r] # NoSession =>
        Retells(r, messages[r])

(* A line that is whole in the log stays as it is, whatever fails after it. *)
HistoryKept ==
    [][\A s \in Sessions : \A i \in DOMAIN files[s] :
          files[s][i] # Torn => i \in DOMAIN files'[s] /\ files'[s][i] = files[s][i]]_vars

(* Every run ends by itself, with an answer or an exception, whatever       *)
(* becomes of its log.                                                      *)
RunsEnd == \A r \in Runs : pc[r] = "lookup" ~> pc[r] \in Ended

(* The conversation is sound: the model sees an answer to each of its tool   *)
(* calls, and the log is enough to rebuild what it sees.                     *)
ConversationSound == ToolResultsPaired /\ ReplayRebuilds
=============================================================================
