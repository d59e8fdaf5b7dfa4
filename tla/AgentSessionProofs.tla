------------------------- MODULE AgentSessionProofs -------------------------
(***************************************************************************)
(* What the agent loop and its session log guarantee for any runs,         *)
(* sessions, answers of the model, limits and faults.                      *)
(*                                                                         *)
(* A step of a run writes at most one line to one log.  The lemmas on      *)
(* Written say what that line does to what the log tells of each run; the  *)
(* invariant says, of every run, how its conversation stands to the tool   *)
(* calls still to dispatch, and how its log stands to both.                *)
(***************************************************************************)
EXTENDS AgentSession, FiniteSetTheorems, SequenceTheorems, TLAPS

USE LinesAssumption

Untorn(log) == Len(log) > 0 => log[Len(log)] # Torn

(* The calls of message i are followed by their results; where there are    *)
(* not all of them yet, the missing ones are those still to do.             *)
PairedAt(conversation, left, i, calls) ==
    /\ \A k \in DOMAIN calls : i + k <= Len(conversation) =>
          conversation[i + k] = [role |-> "tool", calls |-> <<calls[k]>>]
    /\ i + Len(calls) < Len(conversation) =>
          conversation[i + Len(calls) + 1].role = "assistant"
    /\ i + Len(calls) >= Len(conversation) =>
          /\ i + Len(calls) = Len(conversation) + Len(left)
          /\ \A k \in DOMAIN left : left[k] = calls[Len(conversation) - i + k]

CallsAnswered(conversation, left) ==
    \A i \in DOMAIN conversation : conversation[i].role = "assistant" =>
        PairedAt(conversation, left, i, conversation[i].calls)

ConversationInv ==
    \A r \in Runs :
        /\ CallsAnswered(messages[r], todo[r])
        /\ pc[r] \in {"idle", "lookup", "ask", "model", "failing", "final"} => todo[r] = <<>>
        /\ pc[r] \in {"dispatch", "tool"} => todo[r] # <<>>

(* No log tells of a run that has not started, and nobody who still writes  *)
(* to a log that can be written finds it torn.                              *)
LogInv ==
    /\ \A s \in Sessions : \A i \in DOMAIN files[s] :
          files[s][i] \in Event => pc[files[s][i].run] # "idle"
    /\ \A r \in Runs : pc[r] = "idle" => session[r] = NoSession /\ step[r] = 0 /\ messages[r] = <<>>
    /\ Writable => \A r \in Live : session[r] # NoSession => Untorn(files[session[r]])

(* What the log tells of a run that was neither cancelled nor cut short:    *)
(* how far it has come, and the conversation with the call under way.       *)
Conversation(r) == IF pc[r] = "tool" THEN Answered(r) ELSE messages[r]
Bookkept(r) ==
    /\ Count(r, {"run.completed", "run.failed"}) = IF pc[r] \in {"returned", "raised"} THEN 1 ELSE 0
    /\ pc[r] \in {"returned", "raised"} =>
          \E last \in Events(r, IF pc[r] = "returned" THEN {"run.completed"} ELSE {"run.failed"}) :
              \A i \in Events(r, EventTypes) : i <= last
    /\ Count(r, {"model.requested"}) <= step[r]
    /\ Count(r, {"model.requested"}) =
          Count(r, {"model.completed", "model.failed"}) + IF pc[r] = "model" THEN 1 ELSE 0
    /\ Count(r, {"tool.requested"}) =
          Count(r, {"tool.completed", "tool.failed"}) + IF pc[r] = "tool" THEN 1 ELSE 0
Whole(r) ==
    Writable /\ session[r] # NoSession /\ pc[r] \notin {"idle", "cancelled", "dead"} =>
        Bookkept(r) /\ Retells(r, Conversation(r))
WholeInv == \A r \in Runs : Whole(r)

Inv == ConversationInv /\ LogInv /\ WholeInv

-----------------------------------------------------------------------------
(* Lines and files                                                          *)

(* A log with one more line has all lines it had that were whole, where     *)
(* they were.                                                               *)
LEMMA WrittenKeepsLines ==
    ASSUME NEW log \in Seq(Line), NEW line \in Line
    PROVE  /\ Written(log, line) \in Seq(Line)
           /\ \A i \in DOMAIN log : log[i] # Torn =>
                 i \in DOMAIN Written(log, line) /\ Written(log, line)[i] = log[i]
<1>1. CASE Len(log) > 0 /\ log[Len(log)] = Torn
  <2> DEFINE new == IF line = Torn THEN Torn ELSE Garbled
  <2>1. Written(log, line) = [log EXCEPT ![Len(log)] = new] /\ new \in Line
    BY <1>1 DEF Written, Line
  <2>2. [log EXCEPT ![Len(log)] = new] \in Seq(Line)
    BY <1>1, <2>1, ExceptSeq
  <2> QED BY <1>1, <2>1, <2>2
<1>2. CASE ~(Len(log) > 0 /\ log[Len(log)] = Torn)
  BY <1>2 DEF Written
<1> QED BY <1>1, <1>2

(* Where a log has events of a run.                                         *)
Places(log, r, types) ==
    {i \in DOMAIN log : log[i] \notin {Torn, Garbled} /\ log[i].run = r /\ log[i].type \in types}

(* A torn line, or an event of another run, changes nothing of what a log   *)
(* tells of a run.                                                          *)
LEMMA WrittenForOthers ==
    ASSUME NEW log \in Seq(Line), NEW line \in Line, NEW r, NEW types,
           line = Torn \/ (line \in Event /\ line.run # r)
    PROVE  /\ Places(Written(log, line), r, types) = Places(log, r, types)
           /\ \A i \in Places(log, r, types) : Written(log, line)[i] = log[i]
<1>1. CASE Len(log) > 0 /\ log[Len(log)] = Torn
  <2> DEFINE new == IF line = Torn THEN Torn ELSE Garbled
  <2>1. Written(log, line) = [log EXCEPT ![Len(log)] = new]
    BY <1>1 DEF Written
  <2>2. DOMAIN Written(log, line) = DOMAIN log
    BY <2>1
  <2>3. Len(log) \notin Places(Written(log, line), r, types) /\ Len(log) \notin Places(log, r, types)
    BY <1>1, <2>1 DEF Places
  <2>4. \A i \in DOMAIN log : i # Len(log) => Written(log, line)[i] = log[i]
    BY <2>1
  <2> QED BY <2>2, <2>3, <2>4 DEF Places
<1>2. CASE ~(Len(log) > 0 /\ log[Len(log)] = Torn)
  <2>1. Written(log, line) = Append(log, line)
    BY <1>2 DEF Written
  <2>2. /\ DOMAIN Append(log, line) = DOMAIN log \cup {Len(log) + 1}
        /\ Append(log, line)[Len(log) + 1] = line
        /\ \A i \in DOMAIN log : Append(log, line)[i] = log[i]
    OBVIOUS
  <2>3. Len(log) + 1 \notin Places(Append(log, line), r, types)
    BY <2>2 DEF Places
  <2> QED BY <2>1, <2>2, <2>3 DEF Places
<1> QED BY <1>1, <1>2

(* An event that is written after a whole line is the last.                 *)
LEMMA WrittenAfterWhole ==
    ASSUME NEW log \in Seq(Line), NEW event \in Event, NEW types, Untorn(log)
    PROVE  /\ Untorn(Written(log, event))
           /\ Written(log, event)[Len(log) + 1] = event
           /\ \A i \in DOMAIN log : Written(log, event)[i] = log[i]
           /\ event.type \in types =>
                 Places(Written(log, event), event.run, types) =
                    Places(log, event.run, types) \cup {Len(log) + 1}
           /\ event.type \notin types =>
                 Places(Written(log, event), event.run, types) = Places(log, event.run, types)
<1>1. Written(log, event) = Append(log, event)
  BY DEF Untorn, Written
<1>2. /\ DOMAIN Append(log, event) = DOMAIN log \cup {Len(log) + 1}
      /\ Append(log, event)[Len(log) + 1] = event
      /\ \A i \in DOMAIN log : Append(log, event)[i] = log[i]
      /\ Len(Append(log, event)) = Len(log) + 1
      /\ event \in Line
  BY DEF Line
<1>3. event \notin {Torn, Garbled}
  OBVIOUS
<1> QED BY <1>1, <1>2, <1>3 DEF Places, Untorn

(* Events are found at finitely many places, none past the end.             *)
LEMMA PlacesFinite ==
    ASSUME NEW log \in Seq(Line), NEW r, NEW types
    PROVE  /\ IsFiniteSet(Places(log, r, types))
           /\ Cardinality(Places(log, r, types)) \in Nat
           /\ \A i \in Places(log, r, types) : i \in Nat /\ i <= Len(log)
<1>1. IsFiniteSet(1 .. Len(log))
  BY FS_Interval
<1>2. Places(log, r, types) \subseteq 1 .. Len(log)
  BY DEF Places
<1> QED BY <1>1, <1>2, FS_Subset, FS_CardinalityType

-----------------------------------------------------------------------------
(* Types                                                                    *)

(* An event goes to a log with the types.                                   *)
LEMMA EmitToTypes ==
    ASSUME files \in [Sessions -> Seq(Line)], NEW s \in Sessions \cup {NoSession},
           NEW r \in Runs, NEW type \in EventTypes, NEW said \in Seq(Calls),
           EmitTo(s, r, type, said)
    PROVE  files' \in [Sessions -> Seq(Line)]
<1> DEFINE event == [run |-> r, type |-> type, calls |-> said]
<1>1. event \in Line /\ Torn \in Line
  BY DEF Event, Line
<1>2. ASSUME s # NoSession
      PROVE  /\ Written(files[s], event) \in Seq(Line)
             /\ Written(files[s], Torn) \in Seq(Line)
  <2>1. files[s] \in Seq(Line)
    BY <1>2
  <2> QED BY <1>1, <2>1, WrittenKeepsLines
<1> QED BY <1>2 DEF EmitTo

LEMMA EmitTypes ==
    ASSUME TypeOK, NEW r \in Runs, NEW type \in EventTypes, NEW said \in Seq(Calls),
           Emit(r, type, said)
    PROVE  files' \in [Sessions -> Seq(Line)]
<1>1. session[r] \in Sessions \cup {NoSession}
  BY DEF TypeOK
<1> QED BY <1>1, EmitToTypes DEF Emit, TypeOK

LEMMA PlainTypes ==
    ASSUME TypeOK, NEW r \in Runs, NEW type \in EventTypes, Emit(r, type, <<>>)
    PROVE  files' \in [Sessions -> Seq(Line)]
<1>1. <<>> \in Seq(Calls)
  OBVIOUS
<1> QED BY <1>1, EmitTypes

(* The answers of the model are sequences of tool call ids.                 *)
LEMMA SettingTypes ==
    ASSUME TypeOK
    PROVE  /\ setting.runs \subseteq Runs /\ MaxSteps \in Nat
           /\ Answers \subseteq Seq(Calls)
BY SettingsAssumption DEF TypeOK, MaxSteps, Answers

LEMMA TypeInit == Init => TypeOK
<1>1. ASSUME Init PROVE MaxSteps \in Nat
  BY <1>1, SettingsAssumption DEF Init, MaxSteps
<1> QED BY <1>1 DEF Init, TypeOK, PCs

(* A run that starts is logged by its session, by a new one, or nowhere.    *)
LEMMA StartSessions ==
    ASSUME NEW r \in Runs, Start(r)
    PROVE  \E s \in Sessions \cup {NoSession} :
              /\ session' = [session EXCEPT ![r] = s]
              /\ EmitTo(s, r, "run.started", <<>>)
BY DEF Start

(* Every step keeps the types; a run without calls to do dispatches none.   *)
LEMMA TypeNext ==
    ASSUME TypeOK, ConversationInv, [Next]_vars
    PROVE  TypeOK'
<1> USE DEF TypeOK, PCs, Ended
<1>1. ASSUME NEW r \in Runs, Start(r) PROVE TypeOK'
  <2>1. PICK s \in Sessions \cup {NoSession} :
          session' = [session EXCEPT ![r] = s] /\ EmitTo(s, r, "run.started", <<>>)
    BY <1>1, StartSessions
  <2>2. files' \in [Sessions -> Seq(Line)]
    <3>1. <<>> \in Seq(Calls)
      OBVIOUS
    <3> QED BY <2>1, <3>1, EmitToTypes DEF EventTypes
  <2> QED BY <1>1, <2>1, <2>2 DEF Start, Goto, loopVars, MaxSteps, Message
<1>2. ASSUME NEW r \in Runs, Lookup(r) PROVE TypeOK'
  <2>1. files' \in [Sessions -> Seq(Line)]
    BY <1>2, PlainTypes DEF Lookup, EventTypes
  <2> QED BY <1>2, <2>1 DEF Lookup, Goto, loopVars, MaxSteps, Message
<1>3. ASSUME NEW r \in Runs, Ask(r) PROVE TypeOK'
  <2>1. files' \in [Sessions -> Seq(Line)]
    BY <1>3, PlainTypes DEF Ask, EventTypes
  <2>2. step'[r] \in 0 .. MaxSteps
    BY <1>3, SettingTypes DEF Ask, NextStep
  <2> QED BY <1>3, <2>1, <2>2 DEF Ask, Goto, MaxSteps, Message
<1>4. ASSUME NEW r \in Runs, Exhausted(r) PROVE TypeOK'
  <2>1. files' \in [Sessions -> Seq(Line)]
    BY <1>4, PlainTypes DEF Exhausted, EmitLimit, EventTypes
  <2> QED BY <1>4, <2>1 DEF Exhausted, Goto, loopVars, MaxSteps, Message
<1>5. ASSUME NEW r \in Runs, ModelFails(r) PROVE TypeOK'
  <2>1. files' \in [Sessions -> Seq(Line)]
    BY <1>5, PlainTypes DEF ModelFails, EventTypes
  <2> QED BY <1>5, <2>1 DEF ModelFails, Goto, loopVars, MaxSteps, Message
<1>6. ASSUME NEW r \in Runs, RunFails(r) PROVE TypeOK'
  <2>1. files' \in [Sessions -> Seq(Line)]
    BY <1>6, PlainTypes DEF RunFails, EventTypes
  <2> QED BY <1>6, <2>1 DEF RunFails, Goto, loopVars, MaxSteps, Message
<1>7. ASSUME NEW r \in Runs, ModelAnswers(r) PROVE TypeOK'
  <2>1. PICK said \in Answers :
          /\ Emit(r, "model.completed", said)
          /\ todo' = [todo EXCEPT ![r] = said]
          /\ messages' = [messages EXCEPT ![r] =
               IF said = <<>> THEN @ ELSE Append(@, [role |-> "assistant", calls |-> said])]
          /\ Goto(r, IF said = <<>> THEN "final" ELSE "dispatch")
    BY <1>7 DEF ModelAnswers
  <2>2. said \in Seq(Calls)
    BY SettingTypes
  <2>3. files' \in [Sessions -> Seq(Line)]
    BY <2>1, <2>2, EmitTypes DEF EventTypes
  <2>4. messages' \in [Runs -> Seq(Message)]
    <3>1. [role |-> "assistant", calls |-> said] \in Message
      BY <2>2 DEF Message
    <3>2. Append(messages[r], [role |-> "assistant", calls |-> said]) \in Seq(Message)
      BY <3>1
    <3> QED BY <2>1, <3>2
  <2> QED BY <1>7, <2>1, <2>2, <2>3, <2>4 DEF ModelAnswers, Goto, MaxSteps
<1>8. ASSUME NEW r \in Runs, RequestTool(r) PROVE TypeOK'
  <2>1. <<todo[r][1]>> \in Seq(Calls)
    BY <1>8 DEF RequestTool
  <2>2. files' \in [Sessions -> Seq(Line)]
    BY <1>8, <2>1, EmitTypes DEF RequestTool, EventTypes
  <2> QED BY <1>8, <2>2 DEF RequestTool, Goto, loopVars, MaxSteps
<1>9. ASSUME NEW r \in Runs, ToolEnds(r) PROVE TypeOK'
  <2>1. todo[r] # <<>> /\ todo[r] \in Seq(Calls)
    BY <1>9 DEF ToolEnds, ConversationInv
  <2>2. <<todo[r][1]>> \in Seq(Calls) /\ Tail(todo[r]) \in Seq(Calls)
    BY <2>1
  <2>3. files' \in [Sessions -> Seq(Line)]
    BY <1>9, <2>2, EmitTypes, PlainTypes DEF ToolEnds, EventTypes
  <2>4. messages' \in [Runs -> Seq(Message)]
    <3>1. [role |-> "tool", calls |-> <<todo[r][1]>>] \in Message
      BY <2>2 DEF Message
    <3>2. Answered(r) \in Seq(Message)
      BY <3>1 DEF Answered
    <3> QED BY <1>9, <3>2 DEF ToolEnds
  <2> QED BY <1>9, <2>2, <2>3, <2>4 DEF ToolEnds, Goto, AfterTool, MaxSteps
<1>10. ASSUME NEW r \in Runs, Return(r) PROVE TypeOK'
  <2>1. files' \in [Sessions -> Seq(Line)]
    BY <1>10, PlainTypes DEF Return, EventTypes
  <2> QED BY <1>10, <2>1 DEF Return, Goto, loopVars, MaxSteps, Message
<1>11. ASSUME NEW r \in Runs, Cancel(r) PROVE TypeOK'
  BY <1>11 DEF Cancel, Goto, loopVars, MaxSteps
<1>12. ASSUME Crash PROVE TypeOK'
  <2>1. files' \in [Sessions -> Seq(Line)]
    <3>1. ASSUME NEW r \in Live, session[r] # NoSession,
                 files' = [files EXCEPT ![session[r]] = Written(@, Torn)]
          PROVE  files' \in [Sessions -> Seq(Line)]
      <4>1. files[session[r]] \in Seq(Line) /\ Torn \in Line
        BY <3>1 DEF Live, Line
      <4> QED BY <3>1, <4>1, WrittenKeepsLines
    <3> QED BY <1>12, <3>1 DEF Crash
  <2> QED BY <1>12, <2>1 DEF Crash, loopVars, MaxSteps
<1>13. ASSUME UNCHANGED vars PROVE TypeOK'
  BY <1>13 DEF vars, MaxSteps
<1> QED BY <1>1, <1>2, <1>3, <1>4, <1>5, <1>6, <1>7, <1>8, <1>9, <1>10, <1>11, <1>12, <1>13
        DEF Next, Step

-----------------------------------------------------------------------------
(* The conversation                                                         *)

(* The conversation before a message stays as it is.                        *)
LEMMA Longer ==
    ASSUME NEW S, NEW conversation \in Seq(S), NEW message \in S
    PROVE  LET next == Append(conversation, message) IN
           /\ Len(conversation) \in Nat /\ Len(next) = Len(conversation) + 1
           /\ next \in Seq(S)
           /\ \A i \in DOMAIN next : i \in DOMAIN conversation \/ i = Len(conversation) + 1
           /\ next[Len(conversation) + 1] = message
           /\ \A i \in DOMAIN conversation :
                 i \in Nat /\ i > 0 /\ i <= Len(conversation) /\ next[i] = conversation[i]
           /\ \A i \in Nat : i > 0 /\ i <= Len(conversation) => i \in DOMAIN conversation
OBVIOUS

(* An answer that is missing is the next to come.                           *)
LEMMA AnswerPairsAt ==
    ASSUME NEW conversation \in Seq(Message), NEW left \in Seq(Calls), left # <<>>,
           NEW next, next = Append(conversation, [role |-> "tool", calls |-> <<left[1]>>]),
           NEW i \in DOMAIN conversation, NEW calls \in Seq(Calls),
           PairedAt(conversation, left, i, calls)
    PROVE  PairedAt(next, Tail(left), i, calls)
<1>1. [role |-> "tool", calls |-> <<left[1]>>] \in Message
  BY DEF Message
<1>2. /\ Len(conversation) \in Nat /\ Len(next) = Len(conversation) + 1
      /\ next[Len(conversation) + 1] = [role |-> "tool", calls |-> <<left[1]>>]
      /\ \A j \in Nat : j > 0 /\ j <= Len(conversation) => next[j] = conversation[j]
      /\ i \in Nat /\ i > 0 /\ i <= Len(conversation)
  BY <1>1, Longer
<1>3. /\ Len(Tail(left)) = Len(left) - 1 /\ Len(left) \in Nat /\ Len(left) > 0
      /\ \A k \in DOMAIN Tail(left) : k \in Nat /\ k + 1 \in DOMAIN left /\ Tail(left)[k] = left[k + 1]
      /\ 1 \in DOMAIN left
      /\ Len(calls) \in Nat /\ DOMAIN calls = 1 .. Len(calls)
  OBVIOUS
<1>4. ASSUME NEW k \in DOMAIN calls, i + k <= Len(next)
      PROVE  next[i + k] = [role |-> "tool", calls |-> <<calls[k]>>]
  <2>1. CASE i + k <= Len(conversation)
    BY <1>2, <1>3, <2>1 DEF PairedAt
  <2>2. CASE i + k = Len(conversation) + 1
    <3>1. i + Len(calls) >= Len(conversation) /\ Len(conversation) - i + 1 = k
      BY <1>2, <1>3, <2>2
    <3>2. left[1] = calls[k]
      BY <1>3, <3>1 DEF PairedAt
    <3> QED BY <1>2, <2>2, <3>2
  <2>3. i + k \in Nat
    BY <1>2, <1>3
  <2> QED BY <1>2, <1>4, <2>1, <2>2, <2>3
<1>5. ASSUME i + Len(calls) < Len(next)
      PROVE  next[i + Len(calls) + 1].role = "assistant"
  <2>1. i + Len(calls) < Len(conversation)
    BY <1>2, <1>3, <1>5 DEF PairedAt
  <2>2. i + Len(calls) + 1 \in Nat /\ i + Len(calls) + 1 <= Len(conversation) /\ i + Len(calls) + 1 > 0
    BY <1>2, <1>3, <2>1
  <2>3. conversation[i + Len(calls) + 1].role = "assistant"
    BY <2>1 DEF PairedAt
  <2> QED BY <1>2, <2>2, <2>3
<1>6. ASSUME i + Len(calls) >= Len(next)
      PROVE  /\ i + Len(calls) = Len(next) + Len(Tail(left))
             /\ \A k \in DOMAIN Tail(left) : Tail(left)[k] = calls[Len(next) - i + k]
  <2>1. i + Len(calls) >= Len(conversation)
    BY <1>2, <1>3, <1>6
  <2>2. i + Len(calls) = Len(conversation) + Len(left)
    BY <2>1 DEF PairedAt
  <2>3. ASSUME NEW k \in DOMAIN Tail(left) PROVE Tail(left)[k] = calls[Len(next) - i + k]
    <3>1. Len(next) - i + k = Len(conversation) - i + (k + 1)
      BY <1>2, <1>3
    <3>2. left[k + 1] = calls[Len(conversation) - i + (k + 1)]
      BY <1>3, <2>1 DEF PairedAt
    <3> QED BY <1>3, <3>1, <3>2
  <2> QED BY <1>2, <1>3, <2>2, <2>3
<1> QED BY <1>4, <1>5, <1>6 DEF PairedAt

(* The result of the next call to do brings the conversation on.            *)
LEMMA AnswerPairs ==
    ASSUME NEW conversation \in Seq(Message), NEW left \in Seq(Calls), left # <<>>,
           CallsAnswered(conversation, left)
    PROVE  CallsAnswered(Append(conversation, [role |-> "tool", calls |-> <<left[1]>>]), Tail(left))
<1> DEFINE next == Append(conversation, [role |-> "tool", calls |-> <<left[1]>>])
<1>1. [role |-> "tool", calls |-> <<left[1]>>] \in Message
  BY DEF Message
<1>2. ASSUME NEW i \in DOMAIN next, next[i].role = "assistant"
      PROVE  PairedAt(next, Tail(left), i, next[i].calls)
  <2>1. i \in DOMAIN conversation \/ i = Len(conversation) + 1
    BY <1>1, Longer
  <2>2. next[Len(conversation) + 1].role = "tool"
    BY <1>1, Longer
  <2>3. i \in DOMAIN conversation /\ next[i] = conversation[i]
    BY <1>1, <1>2, <2>1, <2>2, Longer
  <2>4. conversation[i].calls \in Seq(Calls)
    <3>1. conversation[i] \in Message
      BY <2>3
    <3> QED BY <3>1 DEF Message
  <2>5. PairedAt(conversation, left, i, conversation[i].calls)
    BY <1>2, <2>3 DEF CallsAnswered
  <2>6. PairedAt(next, Tail(left), i, conversation[i].calls)
    BY <2>3, <2>4, <2>5, AnswerPairsAt
  <2> QED BY <2>3, <2>6
<1> HIDE DEF next
<1>3. CallsAnswered(next, Tail(left))
  BY <1>2 DEF CallsAnswered
<1> QED BY <1>3 DEF next

(* So does the next answer, when no call is left to do.                     *)
LEMMA AskPairs ==
    ASSUME NEW conversation \in Seq(Message), NEW said \in Seq(Calls),
           CallsAnswered(conversation, <<>>)
    PROVE  CallsAnswered(Append(conversation, [role |-> "assistant", calls |-> said]), said)
<1> DEFINE next == Append(conversation, [role |-> "assistant", calls |-> said])
<1>1. [role |-> "assistant", calls |-> said] \in Message
  BY DEF Message
<1>2. /\ Len(conversation) \in Nat /\ Len(next) = Len(conversation) + 1
      /\ next[Len(conversation) + 1] = [role |-> "assistant", calls |-> said]
      /\ \A j \in DOMAIN conversation :
            j \in Nat /\ j > 0 /\ j <= Len(conversation) /\ next[j] = conversation[j]
      /\ \A j \in Nat : j > 0 /\ j <= Len(conversation) => j \in DOMAIN conversation
      /\ \A j \in DOMAIN next : j \in DOMAIN conversation \/ j = Len(conversation) + 1
      /\ Len(said) \in Nat /\ DOMAIN said = 1 .. Len(said)
  BY <1>1, Longer
<1> HIDE DEF next
<1>3. ASSUME NEW i \in DOMAIN next, next[i].role = "assistant"
      PROVE  PairedAt(next, said, i, next[i].calls)
  <2>1. CASE i = Len(conversation) + 1
    <3>1. next[i].calls = said /\ i = Len(next) /\ i \in Nat
      BY <1>2, <2>1
    <3>2. \A k \in DOMAIN said : Len(next) - i + k = k /\ ~(i + k <= Len(next))
      BY <1>2, <3>1
    <3>3. ~(i + Len(said) < Len(next)) /\ i + Len(said) = Len(next) + Len(said)
      BY <1>2, <3>1
    <3> QED BY <3>1, <3>2, <3>3 DEF PairedAt
  <2>2. CASE i \in DOMAIN conversation
    <3> DEFINE calls == conversation[i].calls
    <3>1. PairedAt(conversation, <<>>, i, calls) /\ next[i].calls = calls
      BY <1>2, <1>3, <2>2 DEF CallsAnswered
    <3>2. calls \in Seq(Calls)
      <4>1. conversation[i] \in Message
        BY <2>2
      <4> QED BY <4>1 DEF Message
    <3> HIDE DEF calls
    <3>3. Len(calls) \in Nat /\ DOMAIN calls = 1 .. Len(calls) /\ i \in Nat
      BY <1>2, <2>2, <3>2
    <3>4. i + Len(calls) <= Len(conversation)
      <4>1. i + Len(calls) >= Len(conversation) => i + Len(calls) = Len(conversation) + Len(<<>>)
        BY <3>1 DEF PairedAt
      <4>2. Len(<<>>) = 0
        OBVIOUS
      <4> QED BY <1>2, <3>3, <4>1, <4>2
    <3>5. ASSUME NEW k \in DOMAIN calls
          PROVE  next[i + k] = [role |-> "tool", calls |-> <<calls[k]>>]
      <4>1. i + k \in Nat /\ i + k > 0 /\ i + k <= Len(conversation)
        BY <1>2, <3>3, <3>4
      <4> QED BY <1>2, <3>1, <4>1 DEF PairedAt
    <3>6. next[i + Len(calls) + 1].role = "assistant"
      <4>1. CASE i + Len(calls) = Len(conversation)
        BY <1>2, <4>1
      <4>2. CASE i + Len(calls) < Len(conversation)
        <5>1. i + Len(calls) + 1 \in DOMAIN conversation
          BY <1>2, <3>3, <4>2
        <5> QED BY <1>2, <3>1, <4>2, <5>1 DEF PairedAt
      <4> QED BY <1>2, <3>3, <3>4, <4>1, <4>2
    <3>7. ~(i + Len(calls) >= Len(next))
      BY <1>2, <3>3, <3>4
    <3> QED BY <3>1, <3>5, <3>6, <3>7 DEF PairedAt
  <2> QED BY <1>2, <2>1, <2>2
<1>4. CallsAnswered(next, said)
  BY <1>3 DEF CallsAnswered
<1> QED BY <1>4 DEF next

(* The last call to do is the one after which nothing is left.              *)
LEMMA LastCall ==
    ASSUME NEW left \in Seq(Calls), left # <<>>
    PROVE  (Len(left) = 1) <=> (Tail(left) = <<>>)
<1> DEFINE rest == Tail(left)
           none == <<>>
<1>1. rest \in Seq(Calls) /\ Len(rest) = Len(left) - 1 /\ Len(left) \in Nat
  OBVIOUS
<1>2. (\A seq \in Seq(Calls) : seq # none => Len(seq) # 0) /\ Len(none) = 0
  BY EmptySeq
<1> HIDE DEF rest, none
<1>3. (Len(left) = 1) <=> (rest = none)
  BY <1>1, <1>2
<1> QED BY <1>3 DEF rest, none

(* Every step keeps the conversations in order.                             *)
LEMMA ConversationNext ==
    ASSUME TypeOK, ConversationInv, [Next]_vars
    PROVE  ConversationInv'
<1> USE DEF TypeOK, PCs, Ended, ConversationInv, loopVars
<1>1. ASSUME NEW r \in Runs, Start(r) PROVE ConversationInv'
  BY <1>1 DEF Start, Goto
<1>2. ASSUME NEW r \in Runs, Lookup(r) PROVE ConversationInv'
  BY <1>2 DEF Lookup, Goto
<1>3. ASSUME NEW r \in Runs, Ask(r) PROVE ConversationInv'
  BY <1>3 DEF Ask, Goto
<1>4. ASSUME NEW r \in Runs, Exhausted(r) PROVE ConversationInv'
  BY <1>4 DEF Exhausted, Goto
<1>5. ASSUME NEW r \in Runs, ModelFails(r) PROVE ConversationInv'
  BY <1>5 DEF ModelFails, Goto
<1>6. ASSUME NEW r \in Runs, RunFails(r) PROVE ConversationInv'
  BY <1>6 DEF RunFails, Goto
<1>7. ASSUME NEW r \in Runs, ModelAnswers(r) PROVE ConversationInv'
  <2>1. PICK said \in Answers :
          /\ todo' = [todo EXCEPT ![r] = said]
          /\ messages' = [messages EXCEPT ![r] =
               IF said = <<>> THEN @ ELSE Append(@, [role |-> "assistant", calls |-> said])]
          /\ pc' = [pc EXCEPT ![r] = IF said = <<>> THEN "final" ELSE "dispatch"]
    BY <1>7 DEF ModelAnswers, Goto
  <2>2. said \in Seq(Calls)
    BY SettingTypes
  <2>3. CallsAnswered(messages[r], <<>>) /\ messages[r] \in Seq(Message)
    BY <1>7 DEF ModelAnswers
  <2>4. CallsAnswered(messages'[r], said)
    BY <2>1, <2>2, <2>3, AskPairs
  <2> QED BY <2>1, <2>4
<1>8. ASSUME NEW r \in Runs, RequestTool(r) PROVE ConversationInv'
  BY <1>8 DEF RequestTool, Goto
<1>9. ASSUME NEW r \in Runs, ToolEnds(r) PROVE ConversationInv'
  <2>1. todo[r] # <<>> /\ todo[r] \in Seq(Calls) /\ messages[r] \in Seq(Message)
    BY <1>9 DEF ToolEnds
  <2>2. CallsAnswered(Answered(r), Tail(todo[r]))
    BY <2>1, AnswerPairs DEF Answered
  <2>3. (Len(todo[r]) = 1) <=> (Tail(todo[r]) = <<>>)
    BY <2>1, LastCall
  <2> QED BY <1>9, <2>1, <2>2, <2>3 DEF ToolEnds, Goto, AfterTool
<1>10. ASSUME NEW r \in Runs, Return(r) PROVE ConversationInv'
  BY <1>10 DEF Return, Goto
<1>11. ASSUME NEW r \in Runs, Cancel(r) PROVE ConversationInv'
  BY <1>11 DEF Cancel, Goto
<1>12. ASSUME Crash PROVE ConversationInv'
  BY <1>12 DEF Crash, Live
<1>13. ASSUME UNCHANGED vars PROVE ConversationInv'
  BY <1>13 DEF vars
<1> QED BY <1>1, <1>2, <1>3, <1>4, <1>5, <1>6, <1>7, <1>8, <1>9, <1>10, <1>11, <1>12, <1>13
        DEF Next, Step

(* When the model is asked, each tool call has its result.                  *)
LEMMA ConversationPairs ==
    ASSUME TypeOK, ConversationInv
    PROVE  ToolResultsPaired
<1> SUFFICES ASSUME NEW r \in Runs, pc[r] = "model",
                    NEW i \in DOMAIN messages[r], messages[r][i].role = "assistant"
             PROVE  LET calls == messages[r][i].calls IN
                    /\ i + Len(calls) <= Len(messages[r])
                    /\ \A k \in DOMAIN calls :
                         messages[r][i + k] = [role |-> "tool", calls |-> <<calls[k]>>]
                    /\ i + Len(calls) < Len(messages[r]) =>
                         messages[r][i + Len(calls) + 1].role = "assistant"
  BY DEF ToolResultsPaired
<1> DEFINE conversation == messages[r]
           calls == messages[r][i].calls
<1>1. conversation \in Seq(Message) /\ CallsAnswered(conversation, <<>>)
  BY DEF TypeOK, ConversationInv
<1>2. calls \in Seq(Calls) /\ i \in Nat /\ i <= Len(conversation)
  <2>1. messages[r][i] \in Message
    BY DEF TypeOK
  <2> QED BY <1>1, <2>1 DEF Message
<1>3. PairedAt(conversation, <<>>, i, calls) /\ Len(<<>>) = 0
  BY <1>1 DEF CallsAnswered
<1> HIDE DEF conversation, calls
<1>4. i + Len(calls) <= Len(conversation) /\ DOMAIN calls = 1 .. Len(calls) /\ Len(calls) \in Nat
  BY <1>1, <1>2, <1>3 DEF PairedAt
<1>5. \A k \in DOMAIN calls : i + k <= Len(conversation)
  BY <1>1, <1>2, <1>4
<1>6. /\ i + Len(calls) <= Len(conversation)
      /\ \A k \in DOMAIN calls : conversation[i + k] = [role |-> "tool", calls |-> <<calls[k]>>]
      /\ i + Len(calls) < Len(conversation) => conversation[i + Len(calls) + 1].role = "assistant"
  BY <1>3, <1>4, <1>5 DEF PairedAt
<1> QED BY <1>6 DEF conversation, calls

-----------------------------------------------------------------------------
(* The logs                                                                 *)

(* A log that an event was written to last does not end torn.               *)
LEMMA WrittenUntorn ==
    ASSUME NEW log \in Seq(Line), NEW event \in Event
    PROVE  Untorn(Written(log, event))
<1>1. event # Torn
  OBVIOUS
<1>2. CASE Len(log) > 0 /\ log[Len(log)] = Torn
  <2>1. /\ Len(Written(log, event)) = Len(log)
        /\ Written(log, event)[Len(log)] = Garbled
    BY <1>1, <1>2 DEF Written
  <2> QED BY <2>1 DEF Untorn
<1>3. CASE ~(Len(log) > 0 /\ log[Len(log)] = Torn)
  <2>1. Written(log, event) = Append(log, event)
    BY <1>3 DEF Written
  <2> QED BY <1>1, <2>1 DEF Untorn
<1> QED BY <1>2, <1>3

(* What is found in a log after a line is written was there, is that line,  *)
(* or is garbled.                                                           *)
LEMMA WrittenLines ==
    ASSUME NEW log \in Seq(Line), NEW line \in Line, NEW i \in DOMAIN Written(log, line)
    PROVE  \/ i \in DOMAIN log /\ Written(log, line)[i] = log[i]
           \/ Written(log, line)[i] \in {line, Torn, Garbled}
<1>1. CASE Len(log) > 0 /\ log[Len(log)] = Torn
  BY <1>1 DEF Written
<1>2. CASE ~(Len(log) > 0 /\ log[Len(log)] = Torn)
  BY <1>2 DEF Written
<1> QED BY <1>1, <1>2

(* A step that writes an event of a run, or less, keeps LogInv.             *)
LEMMA LogKept ==
    ASSUME TypeOK, LogInv, NEW r \in Runs, NEW s \in Sessions \cup {NoSession},
           NEW type \in EventTypes, NEW said \in Seq(Calls),
           EmitTo(s, r, type, said),
           \A q \in Runs \ {r} : /\ pc'[q] = pc[q] /\ session'[q] = session[q]
                                /\ step'[q] = step[q] /\ messages'[q] = messages[q],
           pc'[r] # "idle", session'[r] = s,
           s = session[r] \/ pc[r] = "idle",
           setting' = setting
    PROVE  LogInv'
<1> DEFINE event == [run |-> r, type |-> type, calls |-> said]
<1>1. event \in Event /\ event \in Line /\ Torn \in Line
  BY DEF Event, Line
<1>2. \A t \in Sessions : files[t] \in Seq(Line)
  BY DEF TypeOK
<1>3. \/ files' = files
      \/ s \in Sessions /\ \E line \in {event, Torn} :
            files' = [files EXCEPT ![s] = Written(files[s], line)]
  BY DEF EmitTo
<1>4. Writable /\ s # NoSession =>
         files' = [files EXCEPT ![s] = Written(files[s], event)] /\ s \in Sessions
  BY DEF EmitTo, Writable
<1> HIDE DEF event
<1>5. ASSUME NEW t \in Sessions, NEW i \in DOMAIN files'[t], files'[t][i] \in Event
      PROVE  pc'[files'[t][i].run] # "idle"
  <2>1. \/ i \in DOMAIN files[t] /\ files'[t][i] = files[t][i]
        \/ files'[t][i] \in {event, Torn, Garbled}
    <3>1. CASE files' = files
      BY <3>1, <1>5
    <3>2. ASSUME s \in Sessions, NEW line \in {event, Torn},
                 files' = [files EXCEPT ![s] = Written(files[s], line)], t = s
          PROVE  \/ i \in DOMAIN files[t] /\ files'[t][i] = files[t][i]
                 \/ files'[t][i] \in {event, Torn, Garbled}
      <4>1. files'[t] = Written(files[s], line) /\ line \in Line /\ files[s] \in Seq(Line)
        BY <1>1, <1>2, <3>2 DEF TypeOK
      <4> QED BY <1>5, <3>2, <4>1, WrittenLines
    <3>3. ASSUME s \in Sessions, NEW line \in {event, Torn},
                 files' = [files EXCEPT ![s] = Written(files[s], line)], t # s
          PROVE  i \in DOMAIN files[t] /\ files'[t][i] = files[t][i]
      BY <1>5, <3>3 DEF TypeOK
    <3> QED BY <1>3, <3>1, <3>2, <3>3
  <2>2. CASE i \in DOMAIN files[t] /\ files'[t][i] = files[t][i]
    <3>1. pc[files[t][i].run] # "idle" /\ files[t][i].run \in Runs
      BY <1>5, <2>2 DEF LogInv, Event
    <3> QED BY <2>2, <3>1
  <2>3. CASE files'[t][i] = event
    BY <2>3 DEF event
  <2> QED BY <1>5, <2>1, <2>2, <2>3
<1>6. ASSUME Writable', NEW q \in Live', session'[q] # NoSession
      PROVE  Untorn(files'[session'[q]])
  <2>1. Writable
    BY <1>6 DEF Writable, Faults
  <2>2. session'[q] = s => Untorn(files'[s])
    <3>1. ASSUME session'[q] = s PROVE Untorn(files'[s])
      <4>1. files'[s] = Written(files[s], event) /\ files[s] \in Seq(Line)
        BY <1>2, <1>4, <1>6, <2>1, <3>1 DEF TypeOK
      <4> QED BY <1>1, <4>1, WrittenUntorn
    <3> QED BY <3>1
  <2>3. ASSUME session'[q] # s PROVE Untorn(files'[session'[q]])
    <3>1. q # r /\ q \in Live /\ q \in Runs /\ session[q] = session'[q]
      BY <1>6, <2>3 DEF Live
    <3>2. session[q] \in Sessions
      BY <1>6, <3>1 DEF TypeOK
    <3>4. files'[session[q]] = files[session[q]]
      BY <1>3, <2>3, <3>1, <3>2 DEF TypeOK
    <3>3. Untorn(files[session[q]])
      BY <1>6, <2>1, <3>1 DEF LogInv
    <3> QED BY <3>1, <3>3, <3>4
  <2> QED BY <2>2, <2>3
<1>7. \A q \in Runs : pc'[q] = "idle" => session'[q] = NoSession /\ step'[q] = 0 /\ messages'[q] = <<>>
  BY DEF LogInv
<1> QED BY <1>5, <1>6, <1>7 DEF LogInv

(* So does a step of a run that writes nothing.                             *)
LEMMA LogMoves ==
    ASSUME TypeOK, LogInv, UNCHANGED <<step, messages, session, files, setting>>,
           NEW r \in Runs, pc[r] \notin Ended \cup {"idle"}, pc'[r] # "idle",
           \A q \in Runs \ {r} : pc'[q] = pc[q]
    PROVE  LogInv'
<1>1. \A q \in Runs : (pc'[q] = "idle" <=> pc[q] = "idle")
  OBVIOUS
<1>2. \A s \in Sessions : \A i \in DOMAIN files[s] :
         files[s][i] \in Event => files[s][i].run \in Runs
  BY DEF Event
<1>3. Live' \subseteq Live
  BY DEF Live
<1>4. Writable' = Writable
  BY DEF Writable, Faults
<1>5. \A s \in Sessions : \A i \in DOMAIN files'[s] :
         files'[s][i] \in Event => pc'[files'[s][i].run] # "idle"
  BY <1>1, <1>2 DEF LogInv
<1>6. Writable' => \A q \in Live' : session'[q] # NoSession => Untorn(files'[session'[q]])
  BY <1>3, <1>4 DEF LogInv
<1> QED BY <1>1, <1>5, <1>6 DEF LogInv

(* Every step keeps LogInv.                                                 *)
LEMMA LogNext ==
    ASSUME TypeOK, ConversationInv, LogInv, [Next]_vars
    PROVE  LogInv'
<1> USE DEF Goto, loopVars
<1>0. /\ <<>> \in Seq(Calls)
      /\ \A r \in Runs : session[r] \in Sessions \cup {NoSession}
      /\ DOMAIN pc = Runs /\ DOMAIN session = Runs /\ DOMAIN step = Runs /\ DOMAIN messages = Runs
  BY DEF TypeOK
<1>1. ASSUME NEW r \in Runs, Start(r) PROVE LogInv'
  <2>1. PICK s \in Sessions \cup {NoSession} :
          session' = [session EXCEPT ![r] = s] /\ EmitTo(s, r, "run.started", <<>>)
    BY <1>1, StartSessions
  <2> HIDE DEF EmitTo
  <2>2. /\ pc' = [pc EXCEPT ![r] = "lookup"] /\ pc[r] = "idle"
        /\ UNCHANGED <<step, messages, setting>>
    BY <1>1 DEF Start
  <2>3. /\ pc'[r] = "lookup" /\ session'[r] = s
        /\ \A q \in Runs \ {r} : /\ pc'[q] = pc[q] /\ session'[q] = session[q]
                               /\ step'[q] = step[q] /\ messages'[q] = messages[q]
        /\ pc'[r] # "idle" /\ setting' = setting
    BY <1>0, <2>1, <2>2
  <2>4. "run.started" \in EventTypes
    BY DEF EventTypes
  <2> QED BY <1>0, <2>1, <2>2, <2>3, <2>4, LogKept
<1>2. ASSUME NEW r \in Runs, Lookup(r) PROVE LogInv'
  <2>1. CASE Goto(r, "ask") /\ UNCHANGED files
    BY <1>0, <1>2, <2>1, LogMoves DEF Lookup, Ended
  <2>2. CASE Goto(r, "raised") /\ Emit(r, "run.failed", <<>>)
    BY <1>0, <1>2, <2>2, LogKept DEF Lookup, EventTypes, Emit
  <2> QED BY <1>2, <2>1, <2>2 DEF Lookup
<1>3. ASSUME NEW r \in Runs, Ask(r) PROVE LogInv'
  BY <1>0, <1>3, LogKept DEF Ask, EventTypes, Emit
<1>4. ASSUME NEW r \in Runs, Exhausted(r) PROVE LogInv'
  BY <1>0, <1>4, LogKept DEF Exhausted, EmitLimit, EventTypes, Emit
<1>5. ASSUME NEW r \in Runs, ModelFails(r) PROVE LogInv'
  BY <1>0, <1>5, LogKept DEF ModelFails, EventTypes, Emit
<1>6. ASSUME NEW r \in Runs, RunFails(r) PROVE LogInv'
  BY <1>0, <1>6, LogKept DEF RunFails, EventTypes, Emit
<1>7. ASSUME NEW r \in Runs, ModelAnswers(r) PROVE LogInv'
  <2>1. PICK said \in Answers :
          /\ Emit(r, "model.completed", said)
          /\ messages' = [messages EXCEPT ![r] =
               IF said = <<>> THEN @ ELSE Append(@, [role |-> "assistant", calls |-> said])]
          /\ Goto(r, IF said = <<>> THEN "final" ELSE "dispatch")
    BY <1>7 DEF ModelAnswers
  <2>2. said \in Seq(Calls)
    BY SettingTypes
  <2>3. UNCHANGED <<step, session, setting>>
    BY <1>7 DEF ModelAnswers
  <2> QED BY <1>0, <2>1, <2>2, <2>3, LogKept DEF EventTypes, Emit
<1>8. ASSUME NEW r \in Runs, RequestTool(r) PROVE LogInv'
  <2>1. <<todo[r][1]>> \in Seq(Calls)
    BY <1>8 DEF RequestTool, TypeOK
  <2> QED BY <1>0, <1>8, <2>1, LogKept DEF RequestTool, EventTypes, Emit
<1>9. ASSUME NEW r \in Runs, ToolEnds(r) PROVE LogInv'
  <2>1. <<todo[r][1]>> \in Seq(Calls)
    BY <1>9 DEF ToolEnds, TypeOK, ConversationInv
  <2>2. PICK type \in {"tool.completed", "tool.failed"}, said \in {<<todo[r][1]>>, <<>>} :
          EmitTo(session[r], r, type, said)
    BY <1>9 DEF ToolEnds, Emit
  <2>3. AfterTool(r) # "idle"
    BY DEF AfterTool
  <2>4. /\ pc' = [pc EXCEPT ![r] = AfterTool(r)]
        /\ messages' = [messages EXCEPT ![r] = Answered(r)]
        /\ UNCHANGED <<step, session, setting>>
    BY <1>9 DEF ToolEnds
  <2> QED BY <1>0, <2>1, <2>2, <2>3, <2>4, LogKept DEF EventTypes
<1>10. ASSUME NEW r \in Runs, Return(r) PROVE LogInv'
  BY <1>0, <1>10, LogKept DEF Return, EventTypes, Emit
<1>11. ASSUME NEW r \in Runs, Cancel(r) PROVE LogInv'
  BY <1>0, <1>11, LogMoves DEF Cancel, Ended
<1>12. ASSUME Crash PROVE LogInv'
  <2>1. Live' = {}
    BY <1>12 DEF Crash, Live, Ended
  <2>2. ASSUME NEW s \in Sessions, NEW i \in DOMAIN files'[s], files'[s][i] \in Event
        PROVE  i \in DOMAIN files[s] /\ files'[s][i] = files[s][i]
    <3>1. ASSUME NEW r \in Live, session[r] = s, files' = [files EXCEPT ![session[r]] = Written(@, Torn)]
          PROVE  i \in DOMAIN files[s] /\ files'[s][i] = files[s][i]
      <4>1. files[s] \in Seq(Line) /\ Torn \in Line /\ files'[s] = Written(files[s], Torn)
        BY <3>1 DEF TypeOK, Line
      <4> QED BY <2>2, <4>1, WrittenLines
    <3> QED BY <1>12, <2>2, <3>1 DEF Crash, TypeOK
  <2>3. \A r \in Runs : pc[r] # "idle" <=> pc'[r] # "idle"
    BY <1>12 DEF Crash, Live, TypeOK
  <2>4. \A s \in Sessions : \A i \in DOMAIN files'[s] :
          files'[s][i] \in Event => pc'[files'[s][i].run] # "idle"
    BY <2>2, <2>3 DEF LogInv, Event
  <2> QED BY <1>12, <2>1, <2>3, <2>4 DEF Crash, LogInv
<1>13. ASSUME UNCHANGED vars PROVE LogInv'
  BY <1>13 DEF vars, LogInv, Live, Writable, Faults
<1> QED BY <1>1, <1>2, <1>3, <1>4, <1>5, <1>6, <1>7, <1>8, <1>9, <1>10, <1>11, <1>12, <1>13
        DEF Next, Step

-----------------------------------------------------------------------------
(* What a log tells of a run                                                *)

LEMMA EventsArePlaces ==
    ASSUME NEW r, NEW types
    PROVE  Events(r, types) = Places(files[session[r]], r, types)
BY DEF Events, Places

(* A step writes, of what is not about a run, at most one line.             *)
WritesFor(q) ==
    \/ files' = files
    \/ \E s \in Sessions, line \in Line :
          /\ line = Torn \/ (line \in Event /\ line.run # q)
          /\ files' = [files EXCEPT ![s] = Written(files[s], line)]

(* Such a step leaves the events of the run where they are, as they are.    *)
LEMMA EventsStay ==
    ASSUME TypeOK, NEW q \in Runs, session[q] # NoSession, session'[q] = session[q], WritesFor(q)
    PROVE  /\ \A types : Events(q, types)' = Events(q, types)
           /\ \A types : \A i \in Events(q, types) : files'[session'[q]][i] = files[session[q]][i]
<1> DEFINE log == files[session[q]]
<1>1. log \in Seq(Line) /\ session[q] \in Sessions
  BY DEF TypeOK
<1>2. \/ files'[session[q]] = log
      \/ \E line \in Line : /\ line = Torn \/ (line \in Event /\ line.run # q)
                           /\ files'[session[q]] = Written(log, line)
  BY <1>1 DEF WritesFor, TypeOK
<1>3. ASSUME NEW types
      PROVE  /\ Places(files'[session[q]], q, types) = Places(log, q, types)
             /\ \A i \in Places(log, q, types) : files'[session[q]][i] = log[i]
  <2> HIDE DEF log
  <2>1. CASE files'[session[q]] = log
    BY <2>1
  <2>2. ASSUME NEW line \in Line, line = Torn \/ (line \in Event /\ line.run # q),
               files'[session[q]] = Written(log, line)
        PROVE  /\ Places(files'[session[q]], q, types) = Places(log, q, types)
               /\ \A i \in Places(log, q, types) : files'[session[q]][i] = log[i]
    BY <1>1, <2>2, WrittenForOthers
  <2> QED BY <1>2, <2>1, <2>2
<1>4. \A types : Events(q, types)' = Places(files'[session[q]], q, types)
  BY DEF Events, Places
<1>5. \A types : Events(q, types) = Places(log, q, types)
  BY DEF Events, Places
<1> QED BY <1>3, <1>4, <1>5

(* So what the log tells of a run that does not move remains whole.         *)
LEMMA WholeStays ==
    ASSUME TypeOK, NEW q \in Runs, Whole(q), WritesFor(q),
           pc'[q] = pc[q], session'[q] = session[q], step'[q] = step[q],
           messages'[q] = messages[q], todo'[q] = todo[q], setting' = setting
    PROVE  Whole(q)'
<1>1. Writable' = Writable
  BY DEF Writable, Faults
<1> SUFFICES ASSUME Writable, session[q] # NoSession, pc[q] \notin {"idle", "cancelled", "dead"}
             PROVE  Bookkept(q)' /\ Retells(q, Conversation(q))'
  BY <1>1 DEF Whole
<1>2. Bookkept(q) /\ Retells(q, Conversation(q))
  BY DEF Whole
<1>3. \A types : Events(q, types)' = Events(q, types)
  BY EventsStay
<1>4. \A types : \A i \in Events(q, types) : files'[session'[q]][i] = files[session[q]][i]
  BY EventsStay
<1>5. \A types : Count(q, types)' = Count(q, types)
  BY <1>3 DEF Count
<1>6. Conversation(q)' = Conversation(q)
  BY DEF Conversation, Answered
<1>7. Said(q)' = Said(q)
  <2> DEFINE types == {"model.completed", "tool.requested"}
  <2>1. Events(q, types)' = Events(q, types)
    BY <1>3
  <2>2. \A i \in Events(q, types) : files'[session'[q]][i] = files[session[q]][i]
    BY <1>4
  <2> QED BY <2>1, <2>2 DEF Said
<1>8. \A i \in Said(q) : files'[session'[q]][i] = files[session[q]][i]
  BY <1>4 DEF Said
<1>9. Retells(q, Conversation(q))'
  BY <1>2, <1>6, <1>7, <1>8 DEF Retells, Told
<1>10. Bookkept(q)'
  BY <1>2, <1>3, <1>5 DEF Bookkept
<1> QED BY <1>9, <1>10

(* A run logs an event, to a log that ends whole.                           *)
Logs(r, type, said) ==
    /\ session[r] # NoSession /\ session'[r] = session[r]
    /\ Untorn(files[session[r]])
    /\ files' = [files EXCEPT ![session[r]] =
                    Written(files[session[r]], [run |-> r, type |-> type, calls |-> said])]

(* An event that is logged comes after those that were.                     *)
LEMMA EventsGrow ==
    ASSUME TypeOK, NEW r \in Runs, NEW type \in EventTypes, NEW said \in Seq(Calls),
           Logs(r, type, said), NEW types
    PROVE  /\ type \in types =>
                /\ Events(r, types)' = Events(r, types) \cup {Len(files[session[r]]) + 1}
                /\ Count(r, types)' = Count(r, types) + 1
           /\ type \notin types =>
                Events(r, types)' = Events(r, types) /\ Count(r, types)' = Count(r, types)
           /\ Count(r, types) \in Nat /\ IsFiniteSet(Events(r, types))
           /\ \A i \in Events(r, types) :
                 /\ i \in Nat /\ i < Len(files[session[r]]) + 1
                 /\ files'[session'[r]][i] = files[session[r]][i]
           /\ Len(files[session[r]]) \in Nat
           /\ files'[session'[r]][Len(files[session[r]]) + 1] =
                 [run |-> r, type |-> type, calls |-> said]
<1>0. PICK log, event : /\ log = files[session[r]]
                        /\ event = [run |-> r, type |-> type, calls |-> said]
  OBVIOUS
<1> DEFINE last == Len(log) + 1
<1>1. log \in Seq(Line) /\ session[r] \in Sessions /\ event \in Event /\ Untorn(log)
  BY <1>0 DEF TypeOK, Event, Logs
<1>2. files'[session'[r]] = Written(log, event)
  BY <1>0, <1>1 DEF TypeOK, Logs
<1>3. event.run = r /\ event.type = type /\ last \in Nat
  BY <1>0, <1>1
<1>4. Events(r, types) = Places(log, r, types)
  BY <1>0, EventsArePlaces
<1>5. Events(r, types)' = Places(Written(log, event), r, types)
  BY <1>2 DEF Events, Places
<1>6. /\ type \in types => Events(r, types)' = Events(r, types) \cup {last}
      /\ type \notin types => Events(r, types)' = Events(r, types)
  <2>1. /\ event.type \in types =>
             Places(Written(log, event), event.run, types) =
                Places(log, event.run, types) \cup {Len(log) + 1}
        /\ event.type \notin types =>
             Places(Written(log, event), event.run, types) = Places(log, event.run, types)
    BY ONLY <1>1, WrittenAfterWhole
  <2> QED BY <1>3, <1>4, <1>5, <2>1
<1>7. /\ \A i \in Events(r, types) : i \in Nat /\ i < last /\ i \in DOMAIN log
      /\ IsFiniteSet(Events(r, types))
      /\ Count(r, types) \in Nat
  <2>1. /\ IsFiniteSet(Places(log, r, types))
        /\ Cardinality(Places(log, r, types)) \in Nat
        /\ \A i \in Places(log, r, types) : i \in Nat /\ i <= Len(log)
    BY ONLY <1>1, PlacesFinite
  <2>2. \A i \in Places(log, r, types) : i < last /\ i \in DOMAIN log
    BY <1>1, <1>3, <2>1 DEF Places
  <2> QED BY <1>4, <2>1, <2>2 DEF Count
<1>8. type \in types => Count(r, types)' = Count(r, types) + 1
  <2>1. last \notin Events(r, types)
    BY <1>3, <1>7
  <2>2. Cardinality(Events(r, types) \cup {last}) = Cardinality(Events(r, types)) + 1
    BY <1>7, <2>1, FS_AddElement
  <2> QED BY <1>6, <2>2 DEF Count
<1>9. type \notin types => Count(r, types)' = Count(r, types)
  BY <1>6 DEF Count
<1>10. Written(log, event)[last] = event /\ \A i \in DOMAIN log : Written(log, event)[i] = log[i]
  BY ONLY <1>1, WrittenAfterWhole
<1> QED BY <1>0, <1>1, <1>2, <1>6, <1>7, <1>8, <1>9, <1>10

(* An event without calls tells of no message.                              *)
LEMMA RetoldSame ==
    ASSUME TypeOK, NEW r \in Runs, NEW type \in EventTypes, NEW said \in Seq(Calls),
           Logs(r, type, said),
           type \notin {"model.completed", "tool.requested"} \/ said = <<>>,
           NEW conversation, Retells(r, conversation)
    PROVE  Retells(r, conversation)'
<1> DEFINE last == Len(files[session[r]]) + 1
           telling == {"model.completed", "tool.requested"}
<1>1. /\ type \in telling => Events(r, telling)' = Events(r, telling) \cup {last}
      /\ type \notin telling => Events(r, telling)' = Events(r, telling)
      /\ \A i \in Events(r, telling) :
            i \in Nat /\ i < last /\ files'[session'[r]][i] = files[session[r]][i]
      /\ files'[session'[r]][last] = [run |-> r, type |-> type, calls |-> said]
  BY EventsGrow
<1>2. Said(r)' = Said(r)
  BY <1>1 DEF Said
<1>3. \A i \in Said(r) : files'[session'[r]][i] = files[session[r]][i]
  BY <1>1 DEF Said
<1> QED BY <1>2, <1>3 DEF Retells, Told

(* An event with calls tells of the next message.                           *)
LEMMA RetoldMore ==
    ASSUME TypeOK, NEW r \in Runs, NEW type \in {"model.completed", "tool.requested"},
           NEW said \in Seq(Calls), said # <<>>, Logs(r, type, said),
           NEW conversation \in Seq(Message), Retells(r, conversation),
           NEW message \in Message,
           message = [role |-> IF type = "model.completed" THEN "assistant" ELSE "tool", calls |-> said]
    PROVE  Retells(r, Append(conversation, message))'
<1> DEFINE last == Len(files[session[r]]) + 1
           telling == {"model.completed", "tool.requested"}
           next == Append(conversation, message)
<1>0. type \in EventTypes /\ last \in Nat
  BY DEF EventTypes, TypeOK, Logs
<1>1. /\ Events(r, telling)' = Events(r, telling) \cup {last}
      /\ \A i \in Events(r, telling) :
            i \in Nat /\ i < last /\ files'[session'[r]][i] = files[session[r]][i]
      /\ files'[session'[r]][last] = [run |-> r, type |-> type, calls |-> said]
      /\ IsFiniteSet(Events(r, telling))
  BY <1>0, EventsGrow
<1>2. Said(r)' = Said(r) \cup {last} /\ last \notin Said(r)
  BY <1>0, <1>1 DEF Said
<1>3. /\ IsFiniteSet(Said(r)) /\ Cardinality(Said(r)) \in Nat
      /\ \A i \in Said(r) : i \in Nat /\ i < last
  <2>1. Said(r) \subseteq Events(r, telling)
    BY DEF Said
  <2> QED BY <1>1, <2>1, FS_Subset, FS_CardinalityType
<1>4. Cardinality(Said(r) \cup {last}) = Cardinality(Said(r)) + 1
  BY <1>2, <1>3, FS_AddElement
<1>5. /\ Len(conversation) \in Nat /\ Len(next) = Len(conversation) + 1
      /\ next[Len(conversation) + 1] = message
      /\ \A i \in Nat : i > 0 /\ i <= Len(conversation) => next[i] = conversation[i]
  BY Longer
<1>6. Cardinality(Said(r)) = Len(conversation)
  BY DEF Retells
<1> HIDE DEF next
<1>7. ASSUME NEW i \in Said(r)
      PROVE  next[Cardinality({j \in Said(r) \cup {last} : j <= i})] = Told(files'[session'[r]][i])
  <2> DEFINE before == {j \in Said(r) : j <= i}
  <2>1. {j \in Said(r) \cup {last} : j <= i} = before
    BY <1>0, <1>3
  <2>2. IsFiniteSet(before) /\ Cardinality(before) \in Nat /\ Cardinality(before) <= Cardinality(Said(r))
    <3>1. before \subseteq Said(r)
      OBVIOUS
    <3> QED BY <1>3, <3>1, FS_Subset, FS_CardinalityType
  <2>3. Cardinality(before) > 0
    <3>1. i \in before
      BY <1>3
    <3>2. before # {}
      BY <3>1
    <3> HIDE DEF before
    <3>3. Cardinality(before) # 0
      BY <2>2, <3>2, FS_EmptySet
    <3> QED BY <2>2, <3>3
  <2>4. conversation[Cardinality(before)] = Told(files[session[r]][i])
    BY DEF Retells
  <2>5. files'[session'[r]][i] = files[session[r]][i]
    BY <1>1 DEF Said
  <2> HIDE DEF before
  <2>6. next[Cardinality(before)] = conversation[Cardinality(before)]
    BY <1>5, <1>6, <2>2, <2>3
  <2> QED BY <2>1, <2>4, <2>5, <2>6
<1>8. next[Cardinality({j \in Said(r) \cup {last} : j <= last})] = Told(files'[session'[r]][last])
  <2>1. {j \in Said(r) \cup {last} : j <= last} = Said(r) \cup {last}
    BY <1>0, <1>3
  <2>2. Told(files'[session'[r]][last]) = message
    BY <1>1 DEF Told
  <2> QED BY <1>4, <1>5, <1>6, <2>1, <2>2
<1>9. Retells(r, next)'
  <2>1. Cardinality(Said(r)') = Len(next)
    BY <1>2, <1>4, <1>5, <1>6
  <2>2. \A i \in Said(r)' :
           next[Cardinality({j \in Said(r)' : j <= i})] = Told(files'[session'[r]][i])
    BY <1>2, <1>7, <1>8
  <2>3. next' = next
    BY DEF next
  <2> QED BY <2>1, <2>2, <2>3 DEF Retells, Told
<1> QED BY <1>9 DEF next

-----------------------------------------------------------------------------
(* Whole trajectories                                                       *)

(* What the loop publishes while a run is under way is logged, when the log *)
(* can be written.                                                          *)
LEMMA EmitLogs ==
    ASSUME TypeOK, LogInv, NEW r \in Runs, NEW type, NEW said, Emit(r, type, said),
           Writable, session[r] # NoSession, session'[r] = session[r],
           pc[r] \notin Ended \cup {"idle"}
    PROVE  Logs(r, type, said)
<1>1. r \in Live
  BY DEF Live
<1>2. Untorn(files[session[r]])
  BY <1>1 DEF LogInv
<1> QED BY <1>2 DEF Emit, EmitTo, Logs, Writable

(* It is nothing about the other runs.                                      *)
LEMMA OthersWhole ==
    ASSUME TypeOK, WholeInv, NEW r \in Runs, NEW s \in Sessions \cup {NoSession},
           NEW type \in EventTypes, NEW said \in Seq(Calls), EmitTo(s, r, type, said),
           \A q \in Runs \ {r} : /\ pc'[q] = pc[q] /\ session'[q] = session[q]
                                /\ step'[q] = step[q] /\ messages'[q] = messages[q]
                                /\ todo'[q] = todo[q],
           setting' = setting
    PROVE  \A q \in Runs \ {r} : Whole(q)'
<1> DEFINE event == [run |-> r, type |-> type, calls |-> said]
<1>1. event \in Event /\ event \in Line /\ Torn \in Line /\ event.run = r
  BY DEF Event, Line
<1>2. \/ files' = files
      \/ s \in Sessions /\ \E line \in {event, Torn} :
            files' = [files EXCEPT ![s] = Written(files[s], line)]
  BY DEF EmitTo
<1>3. ASSUME NEW q \in Runs \ {r} PROVE Whole(q)'
  <2> HIDE DEF event
  <2>1. WritesFor(q)
    BY <1>1, <1>2 DEF WritesFor
  <2> QED BY <2>1, WholeStays DEF WholeInv
<1> QED BY <1>3

(* How the counts of a run move when it logs an event.                      *)
LEMMA CountsMove ==
    ASSUME TypeOK, NEW r \in Runs, NEW type \in EventTypes, NEW said \in Seq(Calls),
           Logs(r, type, said)
    PROVE  /\ Count(r, {"run.completed", "run.failed"})' =
                 IF type \in {"run.completed", "run.failed"}
                 THEN Count(r, {"run.completed", "run.failed"}) + 1
                 ELSE Count(r, {"run.completed", "run.failed"})
           /\ Count(r, {"model.requested"})' =
                 IF type = "model.requested" THEN Count(r, {"model.requested"}) + 1
                 ELSE Count(r, {"model.requested"})
           /\ Count(r, {"model.completed", "model.failed"})' =
                 IF type \in {"model.completed", "model.failed"}
                 THEN Count(r, {"model.completed", "model.failed"}) + 1
                 ELSE Count(r, {"model.completed", "model.failed"})
           /\ Count(r, {"tool.requested"})' =
                 IF type = "tool.requested" THEN Count(r, {"tool.requested"}) + 1
                 ELSE Count(r, {"tool.requested"})
           /\ Count(r, {"tool.completed", "tool.failed"})' =
                 IF type \in {"tool.completed", "tool.failed"}
                 THEN Count(r, {"tool.completed", "tool.failed"}) + 1
                 ELSE Count(r, {"tool.completed", "tool.failed"})
           /\ \A types : Count(r, types) \in Nat
<1>1. ASSUME NEW types
      PROVE  /\ type \in types => Count(r, types)' = Count(r, types) + 1
             /\ type \notin types => Count(r, types)' = Count(r, types)
             /\ Count(r, types) \in Nat
  BY EventsGrow
<1> QED BY <1>1

(* The event that is logged is the last of its run.                         *)
LEMMA LastLogged ==
    ASSUME TypeOK, NEW r \in Runs, NEW type \in EventTypes, NEW said \in Seq(Calls),
           Logs(r, type, said)
    PROVE  \E last \in Events(r, {type})' : \A i \in Events(r, EventTypes)' : i <= last
<1> DEFINE last == Len(files[session[r]]) + 1
<1>1. last \in Nat /\ last \in Events(r, {type})'
  <2>1. ASSUME NEW types, type \in types
        PROVE  Events(r, types)' = Events(r, types) \cup {last} /\ Len(files[session[r]]) \in Nat
    BY <2>1, EventsGrow
  <2>2. last \in Nat
    BY <2>1
  <2>3. last \in Events(r, {type})'
    BY <2>1
  <2> QED BY <2>2, <2>3
<1>2. Events(r, EventTypes)' = Events(r, EventTypes) \cup {last}
  BY EventsGrow
<1>3. \A i \in Events(r, EventTypes) : i \in Nat /\ i < last
  BY EventsGrow
<1> QED BY <1>1, <1>2, <1>3

(* The log retells what the conversation has become.                        *)
LEMMA RetellsNext ==
    ASSUME NEW r, NEW conversation, Retells(r, conversation)', conversation = Conversation(r)'
    PROVE  Retells(r, Conversation(r))'
<1>1. /\ Cardinality(Said(r)') = Len(conversation)
      /\ \A i \in Said(r)' :
            conversation[Cardinality({j \in Said(r)' : j <= i})] = Told(files'[session'[r]][i])
  BY DEF Retells, Told
<1>2. /\ Cardinality(Said(r)') = Len(Conversation(r)')
      /\ \A i \in Said(r)' :
            Conversation(r)'[Cardinality({j \in Said(r)' : j <= i})] = Told(files'[session'[r]][i])
  BY <1>1
<1> QED BY <1>2 DEF Retells, Told

(* A run that starts has said nothing yet.                                  *)
LEMMA StartWhole ==
    ASSUME TypeOK, LogInv, NEW r \in Runs, Start(r)
    PROVE  Whole(r)'
<1>1. PICK s \in Sessions \cup {NoSession} :
        session' = [session EXCEPT ![r] = s] /\ EmitTo(s, r, "run.started", <<>>)
  BY StartSessions
<1>2. /\ pc[r] = "idle" /\ pc' = [pc EXCEPT ![r] = "lookup"]
      /\ messages' = messages /\ step' = step /\ setting' = setting
  BY DEF Start, Goto, loopVars
<1>3. session'[r] = s /\ pc'[r] = "lookup" /\ messages'[r] = <<>> /\ step'[r] = 0
  BY <1>1, <1>2 DEF TypeOK, LogInv
<1>4. ASSUME s # NoSession, Writable,
             NEW types, "run.started" \notin types
      PROVE  Events(r, types)' = {}
  <2> DEFINE event == [run |-> r, type |-> "run.started", calls |-> <<>>]
  <2>1. files' = [files EXCEPT ![s] = Written(files[s], event)] /\ s \in Sessions
    BY <1>1, <1>4 DEF EmitTo, Writable
  <2>2. files'[s] = Written(files[s], event) /\ files[s] \in Seq(Line)
    BY <2>1 DEF TypeOK
  <2>3. <<>> \in Seq(Calls)
    OBVIOUS
  <2>4. event \in Event /\ event \in Line
    BY <2>3 DEF Event, EventTypes, Line
  <2>5. event.type \notin types
    BY <1>4
  <2> HIDE DEF event
  <2>6. SUFFICES ASSUME NEW i \in DOMAIN files'[s], files'[s][i] \notin {Torn, Garbled},
                        files'[s][i].run = r, files'[s][i].type \in types
                 PROVE  FALSE
    BY <1>3 DEF Events
  <2>7. i \in DOMAIN files[s] /\ files'[s][i] = files[s][i]
    BY ONLY <2>2, <2>4, <2>5, <2>6, WrittenLines
  <2>8. files[s][i] \in Event
    BY <2>2, <2>6, <2>7 DEF Line
  <2> QED BY <1>2, <2>1, <2>6, <2>7, <2>8 DEF LogInv
<1>5. SUFFICES ASSUME Writable', session'[r] # NoSession
               PROVE  Bookkept(r)' /\ Retells(r, Conversation(r))'
  BY DEF Whole
<1>6. Writable /\ s # NoSession
  BY <1>2, <1>3, <1>5 DEF Writable, Faults
<1>7. /\ Events(r, {"run.completed", "run.failed"})' = {}
      /\ Events(r, {"model.requested"})' = {}
      /\ Events(r, {"model.completed", "model.failed"})' = {}
      /\ Events(r, {"tool.requested"})' = {}
      /\ Events(r, {"tool.completed", "tool.failed"})' = {}
      /\ Events(r, {"model.completed", "tool.requested"})' = {}
  BY <1>4, <1>6
<1>8. Cardinality({}) = 0
  BY FS_EmptySet
<1>9. Bookkept(r)'
  <2>1. /\ Count(r, {"run.completed", "run.failed"})' = 0
        /\ Count(r, {"model.requested"})' = 0
        /\ Count(r, {"model.completed", "model.failed"})' = 0
        /\ Count(r, {"tool.requested"})' = 0
        /\ Count(r, {"tool.completed", "tool.failed"})' = 0
    BY <1>7, <1>8 DEF Count
  <2> QED BY <1>3, <2>1 DEF Bookkept
<1>10. Said(r)' = {} /\ Conversation(r)' = <<>>
  BY <1>3, <1>7 DEF Said, Conversation
<1>11. Len(<<>>) = 0
  OBVIOUS
<1>12. Retells(r, Conversation(r))'
  BY <1>8, <1>10, <1>11 DEF Retells
<1> QED BY <1>9, <1>12

(* An event without calls leaves what is retold as it is.                   *)
LEMMA QuietStep ==
    ASSUME TypeOK, NEW r \in Runs, NEW type \in EventTypes, NEW said \in Seq(Calls),
           Logs(r, type, said),
           type \notin {"model.completed", "tool.requested"} \/ said = <<>>,
           Retells(r, Conversation(r)), Conversation(r)' = Conversation(r)
    PROVE  Retells(r, Conversation(r))'
<1>1. PICK conversation : conversation = Conversation(r)
  OBVIOUS
<1>2. Retells(r, conversation)'
  BY <1>1, RetoldSame
<1> QED BY <1>1, <1>2, RetellsNext

(* An event of each kind is logged where the loop stands so, and then so.   *)
LEMMA BookMoves ==
    ASSUME TypeOK, NEW r \in Runs, NEW type \in EventTypes, NEW said \in Seq(Calls),
           Logs(r, type, said), Bookkept(r), pc[r] \notin {"returned", "raised"},
           (pc'[r] = "returned") <=> (type = "run.completed"),
           (pc'[r] = "raised") <=> (type = "run.failed"),
           (pc'[r] = "model") <=> (type = "model.requested"),
           (pc[r] = "model") <=> (type \in {"model.completed", "model.failed"}),
           (pc'[r] = "tool") <=> (type = "tool.requested"),
           (pc[r] = "tool") <=> (type \in {"tool.completed", "tool.failed"}),
           step'[r] = IF type = "model.requested" THEN step[r] + 1 ELSE step[r]
    PROVE  Bookkept(r)'
<1>1. Count(r, {"run.completed", "run.failed"})' =
         IF pc'[r] \in {"returned", "raised"} THEN 1 ELSE 0
  <2>1. Count(r, {"run.completed", "run.failed"}) = 0
    BY DEF Bookkept
  <2>2. Count(r, {"run.completed", "run.failed"})' =
           IF type \in {"run.completed", "run.failed"}
           THEN Count(r, {"run.completed", "run.failed"}) + 1
           ELSE Count(r, {"run.completed", "run.failed"})
    BY CountsMove
  <2> QED BY <2>1, <2>2
<1>2. ASSUME pc'[r] \in {"returned", "raised"}
      PROVE  \E last \in Events(r, IF pc[r] = "returned" THEN {"run.completed"} ELSE {"run.failed"})' :
                \A i \in Events(r, EventTypes)' : i <= last
  <2>1. \E last \in Events(r, {type})' : \A i \in Events(r, EventTypes)' : i <= last
    BY LastLogged
  <2>2. (IF pc'[r] = "returned" THEN {"run.completed"} ELSE {"run.failed"}) = {type}
    BY <1>2
  <2>3. Events(r, IF pc[r] = "returned" THEN {"run.completed"} ELSE {"run.failed"})' =
           Events(r, {type})'
    BY <2>2 DEF Events
  <2> QED BY <2>1, <2>3
<1>3. /\ Count(r, {"model.requested"})' =
            IF type = "model.requested" THEN Count(r, {"model.requested"}) + 1
            ELSE Count(r, {"model.requested"})
      /\ Count(r, {"model.completed", "model.failed"})' =
            IF type \in {"model.completed", "model.failed"}
            THEN Count(r, {"model.completed", "model.failed"}) + 1
            ELSE Count(r, {"model.completed", "model.failed"})
      /\ Count(r, {"model.requested"}) \in Nat
      /\ Count(r, {"model.completed", "model.failed"}) \in Nat
      /\ step[r] \in Nat
  BY CountsMove DEF TypeOK
<1>4. Count(r, {"model.requested"})' <= step'[r]
  BY <1>3 DEF Bookkept
<1>5. Count(r, {"model.requested"})' =
         Count(r, {"model.completed", "model.failed"})' + IF pc'[r] = "model" THEN 1 ELSE 0
  <2>1. Count(r, {"model.requested"}) =
           Count(r, {"model.completed", "model.failed"}) + IF pc[r] = "model" THEN 1 ELSE 0
    BY DEF Bookkept
  <2> QED BY <1>3, <2>1
<1>6. Count(r, {"tool.requested"})' =
         Count(r, {"tool.completed", "tool.failed"})' + IF pc'[r] = "tool" THEN 1 ELSE 0
  <2>1. Count(r, {"tool.requested"}) =
           Count(r, {"tool.completed", "tool.failed"}) + IF pc[r] = "tool" THEN 1 ELSE 0
    BY DEF Bookkept
  <2>2. /\ Count(r, {"tool.requested"})' =
              IF type = "tool.requested" THEN Count(r, {"tool.requested"}) + 1
              ELSE Count(r, {"tool.requested"})
        /\ Count(r, {"tool.completed", "tool.failed"})' =
              IF type \in {"tool.completed", "tool.failed"}
              THEN Count(r, {"tool.completed", "tool.failed"}) + 1
              ELSE Count(r, {"tool.completed", "tool.failed"})
        /\ Count(r, {"tool.requested"}) \in Nat
        /\ Count(r, {"tool.completed", "tool.failed"}) \in Nat
    BY CountsMove
  <2> QED BY <2>1, <2>2
<1> QED BY <1>1, <1>2, <1>4, <1>5, <1>6 DEF Bookkept

(* Every step keeps the trajectories whole.                                 *)
LEMMA WholeNext ==
    ASSUME TypeOK, ConversationInv, LogInv, WholeInv, [Next]_vars
    PROVE  WholeInv'
<1> USE DEF Goto, loopVars
<1>0. /\ <<>> \in Seq(Calls)
      /\ \A r \in Runs : session[r] \in Sessions \cup {NoSession}
      /\ DOMAIN pc = Runs /\ DOMAIN session = Runs /\ DOMAIN step = Runs /\ DOMAIN messages = Runs
      /\ DOMAIN todo = Runs
  BY DEF TypeOK
<1>1. ASSUME NEW r \in Runs, Start(r) PROVE WholeInv'
  <2>1. PICK s \in Sessions \cup {NoSession} :
          session' = [session EXCEPT ![r] = s] /\ EmitTo(s, r, "run.started", <<>>)
    BY <1>1, StartSessions
  <2>2. /\ UNCHANGED <<step, messages, todo, setting>>
        /\ \A q \in Runs \ {r} : pc'[q] = pc[q] /\ session'[q] = session[q]
    BY <1>0, <1>1, <2>1 DEF Start
  <2>3. "run.started" \in EventTypes
    BY DEF EventTypes
  <2>4. \A q \in Runs \ {r} : Whole(q)'
    BY <1>0, <2>1, <2>2, <2>3, OthersWhole
  <2> QED BY <1>1, <2>4, StartWhole DEF WholeInv
<1>2. ASSUME NEW r \in Runs, Lookup(r) PROVE WholeInv'
  <2>1. CASE Goto(r, "ask") /\ UNCHANGED files
    <3>1. \A q \in Runs \ {r} : Whole(q)'
      BY <1>0, <1>2, <2>1, WholeStays DEF Lookup, WholeInv, WritesFor
    <3>2. Whole(r) /\ pc[r] = "lookup" /\ pc'[r] = "ask"
      BY <1>0, <1>2, <2>1 DEF Lookup, WholeInv
    <3>3. ASSUME Writable, session[r] # NoSession
          PROVE  Bookkept(r)' /\ Retells(r, Conversation(r))'
      <4>1. Bookkept(r) /\ Retells(r, Conversation(r))
        BY <3>2, <3>3 DEF Whole
      <4>2. UNCHANGED <<files, session, step, messages, todo, setting>>
        BY <1>2, <2>1 DEF Lookup
      <4>4. /\ \A types : Events(r, types)' = Events(r, types)
            /\ Said(r)' = Said(r)
        BY <4>2 DEF Events, Said
      <4>5. \A types : Count(r, types)' = Count(r, types)
        BY <4>4 DEF Count
      <4>6. Bookkept(r)'
        BY <3>2, <4>1, <4>2, <4>5 DEF Bookkept
      <4>7. Conversation(r)' = Conversation(r)
        BY <3>2, <4>2 DEF Conversation
      <4>8. Retells(r, Conversation(r))'
        BY <4>1, <4>2, <4>4, <4>7 DEF Retells, Told
      <4> QED BY <4>6, <4>8
    <3>4. Whole(r)'
      BY <1>2, <3>3 DEF Lookup, Whole, Writable, Faults
    <3> QED BY <3>1, <3>4 DEF WholeInv
  <2>2. CASE Goto(r, "raised") /\ Emit(r, "run.failed", <<>>)
    <3>1. /\ Emit(r, "run.failed", <<>>) /\ session' = session /\ setting' = setting
          /\ "run.failed" \in EventTypes
          /\ pc[r] = "lookup" /\ pc'[r] = "raised" /\ UNCHANGED <<messages, todo, step>>
          /\ \A q \in Runs \ {r} : pc'[q] = pc[q]
      BY <1>0, <1>2, <2>2 DEF Lookup, EventTypes
    <3>2. \A q \in Runs \ {r} : Whole(q)'
      BY <1>0, <3>1, OthersWhole DEF Emit
    <3>3. ASSUME Writable, session[r] # NoSession
          PROVE  Bookkept(r)' /\ Retells(r, Conversation(r))'
      <4>1. Bookkept(r) /\ Retells(r, Conversation(r))
        BY <3>1, <3>3 DEF WholeInv, Whole
      <4>2. Logs(r, "run.failed", <<>>)
        BY <3>1, <3>3, EmitLogs DEF Ended
      <4>3. Conversation(r)' = Conversation(r)
        BY <3>1 DEF Conversation
      <4>4. Retells(r, Conversation(r))'
        BY <1>0, <3>1, <4>1, <4>2, <4>3, QuietStep
      <4>5. Bookkept(r)'
        BY <1>0, <3>1, <4>1, <4>2, BookMoves
      <4> QED BY <4>4, <4>5
    <3> QED BY <3>1, <3>2, <3>3 DEF WholeInv, Whole, Writable, Faults
  <2> QED BY <1>2, <2>1, <2>2 DEF Lookup
<1>3. ASSUME NEW r \in Runs, Ask(r) PROVE WholeInv'
  <2>1. /\ Emit(r, "model.requested", <<>>) /\ session' = session /\ setting' = setting
        /\ "model.requested" \in EventTypes
        /\ pc[r] = "ask" /\ pc'[r] = "model" /\ "ask" \notin Ended \cup {"idle"}
        /\ step'[r] = IF "model.requested" = "model.requested" THEN step[r] + 1 ELSE step[r]
        /\ messages' = messages /\ todo' = todo
        /\ \A q \in Runs \ {r} : pc'[q] = pc[q] /\ step'[q] = step[q]
    BY <1>0, <1>3 DEF Ask, EventTypes, Ended, NextStep
  <2>2. \A q \in Runs \ {r} : Whole(q)'
    BY <1>0, <2>1, OthersWhole DEF Emit
  <2>3. ASSUME Writable, session[r] # NoSession
        PROVE  Bookkept(r)' /\ Retells(r, Conversation(r))'
    <3>1. Bookkept(r) /\ Retells(r, Conversation(r))
      BY <2>1, <2>3 DEF WholeInv, Whole, Ended
    <3>2. Logs(r, "model.requested", <<>>)
      BY <2>1, <2>3, EmitLogs
    <3>3. Conversation(r)' = Conversation(r)
      BY <2>1 DEF Conversation
    <3>4. Retells(r, Conversation(r))'
      BY <1>0, <2>1, <3>1, <3>2, <3>3, QuietStep
    <3>5. Bookkept(r)'
      BY <1>0, <2>1, <3>1, <3>2, BookMoves
    <3> QED BY <3>4, <3>5
  <2> QED BY <2>1, <2>2, <2>3 DEF WholeInv, Whole, Writable, Faults
<1>4. ASSUME NEW r \in Runs, Exhausted(r) PROVE WholeInv'
  <2>1. /\ Emit(r, "run.failed", <<>>) /\ session' = session /\ setting' = setting
        /\ "run.failed" \in EventTypes
        /\ pc[r] = "ask" /\ pc'[r] = "raised" /\ "ask" \notin Ended \cup {"idle"}
        /\ step'[r] = IF "run.failed" = "model.requested" THEN step[r] + 1 ELSE step[r]
        /\ messages' = messages /\ todo' = todo
        /\ \A q \in Runs \ {r} : pc'[q] = pc[q] /\ step'[q] = step[q]
    BY <1>0, <1>4 DEF Exhausted, EventTypes, Ended, NextStep, EmitLimit
  <2>2. \A q \in Runs \ {r} : Whole(q)'
    BY <1>0, <2>1, OthersWhole DEF Emit
  <2>3. ASSUME Writable, session[r] # NoSession
        PROVE  Bookkept(r)' /\ Retells(r, Conversation(r))'
    <3>1. Bookkept(r) /\ Retells(r, Conversation(r))
      BY <2>1, <2>3 DEF WholeInv, Whole, Ended
    <3>2. Logs(r, "run.failed", <<>>)
      BY <2>1, <2>3, EmitLogs
    <3>3. Conversation(r)' = Conversation(r)
      BY <2>1 DEF Conversation
    <3>4. Retells(r, Conversation(r))'
      BY <1>0, <2>1, <3>1, <3>2, <3>3, QuietStep
    <3>5. Bookkept(r)'
      BY <1>0, <2>1, <3>1, <3>2, BookMoves
    <3> QED BY <3>4, <3>5
  <2> QED BY <2>1, <2>2, <2>3 DEF WholeInv, Whole, Writable, Faults
<1>5. ASSUME NEW r \in Runs, ModelFails(r) PROVE WholeInv'
  <2>1. /\ Emit(r, "model.failed", <<>>) /\ session' = session /\ setting' = setting
        /\ "model.failed" \in EventTypes
        /\ pc[r] = "model" /\ pc'[r] = "failing" /\ "model" \notin Ended \cup {"idle"}
        /\ step'[r] = IF "model.failed" = "model.requested" THEN step[r] + 1 ELSE step[r]
        /\ messages' = messages /\ todo' = todo
        /\ \A q \in Runs \ {r} : pc'[q] = pc[q] /\ step'[q] = step[q]
    BY <1>0, <1>5 DEF ModelFails, EventTypes, Ended, NextStep
  <2>2. \A q \in Runs \ {r} : Whole(q)'
    BY <1>0, <2>1, OthersWhole DEF Emit
  <2>3. ASSUME Writable, session[r] # NoSession
        PROVE  Bookkept(r)' /\ Retells(r, Conversation(r))'
    <3>1. Bookkept(r) /\ Retells(r, Conversation(r))
      BY <2>1, <2>3 DEF WholeInv, Whole, Ended
    <3>2. Logs(r, "model.failed", <<>>)
      BY <2>1, <2>3, EmitLogs
    <3>3. Conversation(r)' = Conversation(r)
      BY <2>1 DEF Conversation
    <3>4. Retells(r, Conversation(r))'
      BY <1>0, <2>1, <3>1, <3>2, <3>3, QuietStep
    <3>5. Bookkept(r)'
      BY <1>0, <2>1, <3>1, <3>2, BookMoves
    <3> QED BY <3>4, <3>5
  <2> QED BY <2>1, <2>2, <2>3 DEF WholeInv, Whole, Writable, Faults
<1>6. ASSUME NEW r \in Runs, RunFails(r) PROVE WholeInv'
  <2>1. /\ Emit(r, "run.failed", <<>>) /\ session' = session /\ setting' = setting
        /\ "run.failed" \in EventTypes
        /\ pc[r] = "failing" /\ pc'[r] = "raised" /\ "failing" \notin Ended \cup {"idle"}
        /\ step'[r] = IF "run.failed" = "model.requested" THEN step[r] + 1 ELSE step[r]
        /\ messages' = messages /\ todo' = todo
        /\ \A q \in Runs \ {r} : pc'[q] = pc[q] /\ step'[q] = step[q]
    BY <1>0, <1>6 DEF RunFails, EventTypes, Ended, NextStep
  <2>2. \A q \in Runs \ {r} : Whole(q)'
    BY <1>0, <2>1, OthersWhole DEF Emit
  <2>3. ASSUME Writable, session[r] # NoSession
        PROVE  Bookkept(r)' /\ Retells(r, Conversation(r))'
    <3>1. Bookkept(r) /\ Retells(r, Conversation(r))
      BY <2>1, <2>3 DEF WholeInv, Whole, Ended
    <3>2. Logs(r, "run.failed", <<>>)
      BY <2>1, <2>3, EmitLogs
    <3>3. Conversation(r)' = Conversation(r)
      BY <2>1 DEF Conversation
    <3>4. Retells(r, Conversation(r))'
      BY <1>0, <2>1, <3>1, <3>2, <3>3, QuietStep
    <3>5. Bookkept(r)'
      BY <1>0, <2>1, <3>1, <3>2, BookMoves
    <3> QED BY <3>4, <3>5
  <2> QED BY <2>1, <2>2, <2>3 DEF WholeInv, Whole, Writable, Faults
<1>7. ASSUME NEW r \in Runs, ModelAnswers(r) PROVE WholeInv'
  <2>1. PICK said \in Answers :
          /\ Emit(r, "model.completed", said)
          /\ todo' = [todo EXCEPT ![r] = said]
          /\ messages' = [messages EXCEPT ![r] =
               IF said = <<>> THEN @ ELSE Append(@, [role |-> "assistant", calls |-> said])]
          /\ Goto(r, IF said = <<>> THEN "final" ELSE "dispatch")
    BY <1>7 DEF ModelAnswers
  <2>2. said \in Seq(Calls) /\ "model.completed" \in EventTypes
    BY SettingTypes DEF EventTypes
  <2>3. /\ pc[r] = "model" /\ pc'[r] \in {"final", "dispatch"}
        /\ UNCHANGED <<step, session, setting>>
        /\ \A q \in Runs \ {r} : pc'[q] = pc[q] /\ messages'[q] = messages[q] /\ todo'[q] = todo[q]
    BY <1>0, <1>7, <2>1 DEF ModelAnswers
  <2>4. \A q \in Runs \ {r} : Whole(q)'
    BY <1>0, <2>1, <2>2, <2>3, OthersWhole DEF Emit
  <2>5. ASSUME Writable, session[r] # NoSession
        PROVE  Bookkept(r)' /\ Retells(r, Conversation(r))'
    <3>1. Bookkept(r) /\ Retells(r, Conversation(r))
      BY <2>3, <2>5 DEF WholeInv, Whole
    <3>2. Logs(r, "model.completed", said)
      BY <2>1, <2>3, <2>5, EmitLogs DEF Ended
    <3>3. Bookkept(r)'
      BY <2>2, <2>3, <3>1, <3>2, BookMoves
    <3>4. Retells(r, Conversation(r))'
      <4>1. CASE said = <<>>
        <5>1. Conversation(r)' = Conversation(r)
          BY <2>1, <2>3, <4>1 DEF Conversation, TypeOK
        <5> QED BY <2>2, <3>1, <3>2, <4>1, <5>1, QuietStep
      <4>2. CASE said # <<>>
        <5>1. PICK conversation \in Seq(Message) : conversation = messages[r]
          BY DEF TypeOK
        <5>2. PICK message \in Message : message = [role |-> "assistant", calls |-> said]
          BY <2>2 DEF Message
        <5>3. Retells(r, conversation)
          BY <2>3, <3>1, <5>1 DEF Conversation
        <5>4. Retells(r, Append(conversation, message))'
          BY <2>2, <3>2, <4>2, <5>2, <5>3, RetoldMore
        <5>5. Append(conversation, message) = Conversation(r)'
          BY <1>0, <2>1, <2>3, <4>2, <5>1, <5>2 DEF Conversation
        <5> QED BY <5>4, <5>5, RetellsNext
      <4> QED BY <4>1, <4>2
    <3> QED BY <3>3, <3>4
  <2> QED BY <2>3, <2>4, <2>5 DEF WholeInv, Whole, Writable, Faults
<1>8. ASSUME NEW r \in Runs, RequestTool(r) PROVE WholeInv'
  <2>1. PICK said \in Seq(Calls) : said = <<todo[r][1]>>
    <3>1. todo[r] \in Seq(Calls) /\ todo[r] # <<>>
      BY <1>8 DEF RequestTool, TypeOK
    <3>2. <<todo[r][1]>> \in Seq(Calls)
      BY <3>1
    <3> QED BY <3>2
  <2>2. /\ Emit(r, "tool.requested", said) /\ "tool.requested" \in EventTypes
        /\ pc[r] = "dispatch" /\ pc'[r] = "tool"
        /\ UNCHANGED <<step, messages, todo, session, setting>>
        /\ \A q \in Runs \ {r} : pc'[q] = pc[q]
    BY <1>0, <1>8, <2>1 DEF RequestTool, EventTypes
  <2>3. \A q \in Runs \ {r} : Whole(q)'
    BY <1>0, <2>2, OthersWhole DEF Emit
  <2>4. ASSUME Writable, session[r] # NoSession
        PROVE  Bookkept(r)' /\ Retells(r, Conversation(r))'
    <3>1. Bookkept(r) /\ Retells(r, Conversation(r))
      BY <2>2, <2>4 DEF WholeInv, Whole
    <3>2. Logs(r, "tool.requested", said)
      BY <2>2, <2>4, EmitLogs DEF Ended
    <3>3. Bookkept(r)'
      BY <2>2, <3>1, <3>2, BookMoves
    <3>4. PICK conversation \in Seq(Message) : conversation = messages[r]
      BY DEF TypeOK
    <3>5. PICK message \in Message : message = [role |-> "tool", calls |-> said]
      BY DEF Message
    <3>6. Retells(r, conversation)
      BY <2>2, <3>1, <3>4 DEF Conversation
    <3>7. said # <<>>
      BY <2>1
    <3>8. Retells(r, Append(conversation, message))'
      BY <3>2, <3>5, <3>6, <3>7, RetoldMore
    <3>9. Append(conversation, message) = Conversation(r)'
      BY <2>1, <2>2, <3>4, <3>5 DEF Conversation, Answered
    <3>10. Retells(r, Conversation(r))'
      BY <3>8, <3>9, RetellsNext
    <3> QED BY <3>3, <3>10
  <2> QED BY <2>2, <2>3, <2>4 DEF WholeInv, Whole, Writable, Faults
<1>9. ASSUME NEW r \in Runs, ToolEnds(r) PROVE WholeInv'
  <2>1. <<todo[r][1]>> \in Seq(Calls)
    BY <1>9 DEF ToolEnds, TypeOK, ConversationInv
  <2>2. PICK type \in {"tool.completed", "tool.failed"}, said \in {<<todo[r][1]>>, <<>>} :
          Emit(r, type, said)
    BY <1>9 DEF ToolEnds
  <2>3. /\ said \in Seq(Calls) /\ type \in EventTypes
        /\ type \notin {"model.completed", "tool.requested", "model.requested", "model.failed",
                        "run.completed", "run.failed"}
    BY <1>0, <2>1 DEF EventTypes
  <2>4. /\ pc[r] = "tool" /\ pc'[r] \in {"ask", "dispatch"}
        /\ messages'[r] = Answered(r)
        /\ UNCHANGED <<step, session, setting>>
        /\ \A q \in Runs \ {r} : pc'[q] = pc[q] /\ messages'[q] = messages[q] /\ todo'[q] = todo[q]
    BY <1>0, <1>9 DEF ToolEnds, AfterTool
  <2>5. \A q \in Runs \ {r} : Whole(q)'
    BY <1>0, <2>2, <2>3, <2>4, OthersWhole DEF Emit
  <2>6. ASSUME Writable, session[r] # NoSession
        PROVE  Bookkept(r)' /\ Retells(r, Conversation(r))'
    <3>1. Bookkept(r) /\ Retells(r, Conversation(r))
      BY <2>4, <2>6 DEF WholeInv, Whole
    <3>2. Logs(r, type, said)
      BY <2>2, <2>4, <2>6, EmitLogs DEF Ended
    <3>3. Bookkept(r)'
      BY <2>2, <2>3, <2>4, <3>1, <3>2, BookMoves
    <3>4. Conversation(r)' = Conversation(r)
      BY <2>4 DEF Conversation
    <3>5. Retells(r, Conversation(r))'
      BY <2>3, <3>1, <3>2, <3>4, QuietStep
    <3> QED BY <3>3, <3>5
  <2> QED BY <2>4, <2>5, <2>6 DEF WholeInv, Whole, Writable, Faults
<1>10. ASSUME NEW r \in Runs, Return(r) PROVE WholeInv'
  <2>1. /\ Emit(r, "run.completed", <<>>) /\ session' = session /\ setting' = setting
        /\ "run.completed" \in EventTypes
        /\ pc[r] = "final" /\ pc'[r] = "returned" /\ "final" \notin Ended \cup {"idle"}
        /\ step'[r] = IF "run.completed" = "model.requested" THEN step[r] + 1 ELSE step[r]
        /\ messages' = messages /\ todo' = todo
        /\ \A q \in Runs \ {r} : pc'[q] = pc[q] /\ step'[q] = step[q]
    BY <1>0, <1>10 DEF Return, EventTypes, Ended, NextStep
  <2>2. \A q \in Runs \ {r} : Whole(q)'
    BY <1>0, <2>1, OthersWhole DEF Emit
  <2>3. ASSUME Writable, session[r] # NoSession
        PROVE  Bookkept(r)' /\ Retells(r, Conversation(r))'
    <3>1. Bookkept(r) /\ Retells(r, Conversation(r))
      BY <2>1, <2>3 DEF WholeInv, Whole, Ended
    <3>2. Logs(r, "run.completed", <<>>)
      BY <2>1, <2>3, EmitLogs
    <3>3. Conversation(r)' = Conversation(r)
      BY <2>1 DEF Conversation
    <3>4. Retells(r, Conversation(r))'
      BY <1>0, <2>1, <3>1, <3>2, <3>3, QuietStep
    <3>5. Bookkept(r)'
      BY <1>0, <2>1, <3>1, <3>2, BookMoves
    <3> QED BY <3>4, <3>5
  <2> QED BY <2>1, <2>2, <2>3 DEF WholeInv, Whole, Writable, Faults
<1>11. ASSUME NEW r \in Runs, Cancel(r) PROVE WholeInv'
  <2>1. \A q \in Runs \ {r} : Whole(q)'
    BY <1>0, <1>11, WholeStays DEF Cancel, WholeInv, WritesFor
  <2>2. pc'[r] = "cancelled"
    BY <1>0, <1>11 DEF Cancel
  <2> QED BY <2>1, <2>2 DEF WholeInv, Whole
<1>12. ASSUME Crash PROVE WholeInv'
  <2>1. ASSUME NEW q \in Runs PROVE Whole(q)'
    <3>1. CASE q \in Live
      BY <1>12, <3>1 DEF Crash, Whole
    <3>2. CASE q \notin Live
      <4>1. pc'[q] = pc[q] /\ UNCHANGED <<step, messages, todo, session, setting>>
        BY <1>12, <3>2 DEF Crash
      <4>2. WritesFor(q)
        <5>1. \A r \in Live : session[r] # NoSession => session[r] \in Sessions
          BY DEF Live, TypeOK
        <5>2. Torn \in Line
          BY DEF Line
        <5> QED BY <1>12, <5>1, <5>2 DEF Crash, WritesFor
      <4> QED BY <4>1, <4>2, WholeStays DEF WholeInv
    <3> QED BY <3>1, <3>2
  <2> QED BY <2>1 DEF WholeInv
<1>13. ASSUME UNCHANGED vars PROVE WholeInv'
  BY <1>13, WholeStays DEF vars, WholeInv, WritesFor
<1> QED BY <1>1, <1>2, <1>3, <1>4, <1>5, <1>6, <1>7, <1>8, <1>9, <1>10, <1>11, <1>12, <1>13
        DEF Next, Step

-----------------------------------------------------------------------------
(* Theorems                                                                 *)

LEMMA InvInit == Init => Inv
<1> SUFFICES ASSUME Init PROVE Inv
  OBVIOUS
<1>1. ConversationInv
  BY DEF Init, ConversationInv, CallsAnswered
<1>2. LogInv
  BY DEF Init, LogInv, Live, Ended
<1>3. WholeInv
  BY DEF Init, WholeInv, Whole
<1> QED BY <1>1, <1>2, <1>3 DEF Inv

(* The invariant is inductive together with the types.                      *)
LEMMA Invariance == Spec => [](TypeOK /\ Inv)
<1>1. Init => TypeOK /\ Inv
  BY TypeInit, InvInit
<1>2. TypeOK /\ Inv /\ [Next]_vars => (TypeOK /\ Inv)'
  BY TypeNext, ConversationNext, LogNext, WholeNext DEF Inv
<1> QED BY <1>1, <1>2, PTL DEF Spec

(* The types are kept: at most max_steps model calls are made, and what is  *)
(* logged are events, torn lines and garbled ones.                          *)
THEOREM SessionTypes == Spec => []TypeOK
BY Invariance, PTL

(* The model is never asked with a tool call that has no result, and the    *)
(* log rebuilds what it is asked with, whatever other runs log between.     *)
THEOREM Conversations == Spec => []ConversationSound
<1>1. TypeOK /\ Inv => ConversationSound
  <2> SUFFICES ASSUME TypeOK, Inv PROVE ToolResultsPaired /\ ReplayRebuilds
    BY DEF ConversationSound
  <2>1. ToolResultsPaired
    BY ConversationPairs DEF Inv
  <2>2. ReplayRebuilds
    BY DEF Inv, WholeInv, Whole, ReplayRebuilds, Conversation
  <2> QED BY <2>1, <2>2
<1> QED BY <1>1, Invariance, PTL

(* A run that ended by itself has a whole trajectory in its log.            *)
THEOREM Trajectories == Spec => []TrajectoryComplete
<1>1. TypeOK /\ Inv => TrajectoryComplete
  <2> SUFFICES ASSUME TypeOK, Inv,
                      NEW r \in Runs, Writable, pc[r] \in {"returned", "raised"}, session[r] # NoSession
               PROVE  /\ \E last \in Events(r, IF pc[r] = "returned" THEN {"run.completed"}
                                                ELSE {"run.failed"}) :
                             \A i \in Events(r, EventTypes) : i <= last
                      /\ Count(r, {"run.completed", "run.failed"}) = 1
                      /\ Count(r, {"model.requested"}) <= MaxSteps
                      /\ Count(r, {"model.requested"}) = Count(r, {"model.completed", "model.failed"})
                      /\ Count(r, {"tool.requested"}) = Count(r, {"tool.completed", "tool.failed"})
    BY DEF TrajectoryComplete
  <2>1. Bookkept(r)
    BY DEF Inv, WholeInv, Whole
  <2>2. \A types : Count(r, types) \in Nat
    <3> SUFFICES ASSUME NEW types PROVE Count(r, types) \in Nat
      OBVIOUS
    <3>1. PICK log \in Seq(Line) : log = files[session[r]]
      BY DEF TypeOK
    <3>2. Cardinality(Places(log, r, types)) \in Nat
      BY PlacesFinite
    <3> QED BY <3>1, <3>2, EventsArePlaces DEF Count
  <2>3. step[r] <= MaxSteps /\ step[r] \in Nat /\ MaxSteps \in Nat
    BY SettingTypes DEF TypeOK
  <2> QED BY <2>1, <2>2, <2>3 DEF Bookkept
<1> QED BY <1>1, Invariance, PTL

(* A step writes at most one line.                                          *)
WritesOne ==
    files' = files \/ \E s \in Sessions, line \in Line :
                         files' = [files EXCEPT ![s] = Written(files[s], line)]

LEMMA EmitWrites ==
    ASSUME TypeOK, NEW r \in Runs, NEW type \in EventTypes, NEW said \in Seq(Calls),
           \/ Emit(r, type, said)
           \/ \E s \in Sessions \cup {NoSession} : EmitTo(s, r, type, said)
    PROVE  WritesOne
<1>1. [run |-> r, type |-> type, calls |-> said] \in Line /\ Torn \in Line
  BY DEF Event, Line
<1>2. PICK s \in Sessions \cup {NoSession} : EmitTo(s, r, type, said)
  BY DEF Emit, TypeOK
<1> QED BY <1>1, <1>2 DEF EmitTo, WritesOne

LEMMA StepWrites ==
    ASSUME TypeOK, ConversationInv, [Next]_vars
    PROVE  WritesOne
<1>0. <<>> \in Seq(Calls)
  OBVIOUS
<1>1. ASSUME NEW r \in Runs, Start(r) PROVE WritesOne
  <2>1. "run.started" \in EventTypes
    BY DEF EventTypes
  <2> QED BY <1>0, <1>1, <2>1, StartSessions, EmitWrites
<1>2. ASSUME NEW r \in Runs,
             \/ Lookup(r) \/ Ask(r) \/ Exhausted(r) \/ ModelFails(r) \/ RunFails(r) \/ Return(r)
      PROVE  WritesOne
  <2>1. files' = files \/ \E type \in EventTypes : Emit(r, type, <<>>)
    BY <1>2 DEF Lookup, Ask, Exhausted, EmitLimit, ModelFails, RunFails, Return, EventTypes
  <2> QED BY <1>0, <2>1, EmitWrites DEF WritesOne
<1>3. ASSUME NEW r \in Runs, ModelAnswers(r) PROVE WritesOne
  <2>1. PICK said \in Answers : Emit(r, "model.completed", said)
    BY <1>3 DEF ModelAnswers
  <2>2. said \in Seq(Calls) /\ "model.completed" \in EventTypes
    BY SettingTypes DEF EventTypes
  <2> QED BY <2>1, <2>2, EmitWrites
<1>4. ASSUME NEW r \in Runs, RequestTool(r) \/ ToolEnds(r) PROVE WritesOne
  <2>1. <<todo[r][1]>> \in Seq(Calls)
    BY <1>4 DEF RequestTool, ToolEnds, TypeOK, ConversationInv
  <2>2. \E type \in EventTypes, said \in {<<todo[r][1]>>, <<>>} : Emit(r, type, said)
    BY <1>4 DEF RequestTool, ToolEnds, EventTypes
  <2> QED BY <1>0, <2>1, <2>2, EmitWrites
<1>5. ASSUME Crash PROVE WritesOne
  <2>1. \A r \in Live : session[r] # NoSession => session[r] \in Sessions
    BY DEF Live, TypeOK
  <2>2. Torn \in Line
    BY DEF Line
  <2> QED BY <1>5, <2>1, <2>2 DEF Crash, WritesOne
<1>6. ASSUME (\E r \in Runs : Cancel(r)) \/ UNCHANGED vars PROVE WritesOne
  BY <1>6 DEF Cancel, vars, WritesOne
<1> QED BY <1>1, <1>2, <1>3, <1>4, <1>5, <1>6 DEF Next, Step

(* A whole line stays in the log, whatever is written after it and whatever *)
(* fails.                                                                   *)
THEOREM WholeLinesStay == Spec => HistoryKept
<1> DEFINE Kept == \A s \in Sessions : \A i \in DOMAIN files[s] :
                      files[s][i] # Torn => i \in DOMAIN files'[s] /\ files'[s][i] = files[s][i]
<1>1. TypeOK /\ Inv /\ [Next]_vars => [Kept]_vars
  <2> SUFFICES ASSUME TypeOK, Inv, [Next]_vars PROVE Kept
    OBVIOUS
  <2>1. WritesOne
    BY StepWrites DEF Inv
  <2>2. ASSUME NEW s \in Sessions, NEW line \in Line, files' = [files EXCEPT ![s] = Written(files[s], line)]
        PROVE  Kept
    BY <2>2, WrittenKeepsLines DEF TypeOK
  <2> QED BY <2>1, <2>2 DEF WritesOne
<1>2. [][Kept]_vars => HistoryKept
  BY PTL DEF HistoryKept
<1> QED BY <1>1, <1>2, Invariance, PTL DEF Spec
=============================================================================
