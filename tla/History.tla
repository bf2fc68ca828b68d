-------------------------------- MODULE History --------------------------------
(***************************************************************************)
(* The message history of the agent loop, and what of it the model is sent *)
(* (prepare_messages_for_llm).                                             *)
(*                                                                         *)
(* agent_node sends the history through compaction and three repairs and   *)
(* appends the reply; the tools node answers all its calls at once, the    *)
(* decomposition gate only the call it blocks, an abandoned turn none.     *)
(* The LLM APIs take a list only when every tool call is answered right    *)
(* after the message that makes it.                                        *)
(*                                                                         *)
(* Calls are numbered in the order they are made, a model gives each an id *)
(* of its own.  Message texts are left out.  The model and the library     *)
(* that compacts a long history are external.                              *)
(***************************************************************************)
EXTENDS Naturals, Sequences, FiniteSets, SequencesExt

CONSTANTS MaxCalls,     \* bound: calls in the whole history
          MaxBatch,     \* bound: calls in one reply
          MaxMessages   \* bound: messages in the history

ASSUME CallBounds == MaxCalls \in Nat /\ MaxBatch \in Nat /\ MaxMessages \in Nat

VARIABLES
  at,        \* the node the graph is at, "idle" between turns
  history,   \* state["messages"]
  used,      \* how many calls have been made
  nameless,  \* the calls whose name is empty
  gated,     \* the calls that delegate to a role behind the gate
  confirmed, \* decomposition_confirmed
  given,     \* the list agent_node last handed to prepare_messages_for_llm
  sent       \* ... and the list it got back

vars == <<at, history, used, nameless, gated, confirmed, given, sent>>

Calls == 1 .. MaxCalls

\* A message and the calls it makes, or the one it answers.
Message(kind, calls) == [kind |-> kind, calls |-> calls]
Human    == Message("human", {})
System   == Message("system", {})
Summary  == Message("ai", {})
Reply(calls) == Message("ai", calls)

\* Fault: the answer does not say which call it answers.
AnswerUnkeyed(c) == [kind |-> "tool"]

Answer(c) == Message("tool", {c})

Messages == [kind : {"human", "system", "ai", "tool"}, calls : SUBSET Calls]

TypeOK ==
  /\ at \in {"idle", "agent", "routing", "tools", "gate"}
  /\ history \in Seq(Messages)
  /\ used \in 0 .. MaxCalls
  /\ nameless \subseteq 1 .. used
  /\ gated \subseteq (1 .. used) \ nameless
  /\ confirmed \in BOOLEAN
  /\ given \in Seq(Messages)
  /\ sent \in Seq(Messages)

Init ==
  /\ at = "idle" /\ history = <<>> /\ used = 0
  /\ nameless = {} /\ gated = {} /\ confirmed = FALSE
  /\ given = <<>> /\ sent = <<>>

(***************************************************************************)
(* The repairs.                                                            *)
(***************************************************************************)

IsTool(m) == m.kind = "tool"

\* m with no calls but those in keep; one that keeps none is a plain text.
Keeping(m, keep) == [m EXCEPT !.calls = @ \cap keep]

\* tc_name: in place of an empty name it takes the type, which every call of an
\* AIMessage has.
TcName(c) == IF c \in nameless THEN "tool_call" ELSE "task"

\* filter_invalid_tool_calls
FilterInvalid(s) ==
  [i \in DOMAIN s |->
     IF IsTool(s[i]) THEN s[i] ELSE Keeping(s[i], {c \in s[i].calls : TcName(c) # ""})]

Made(s)     == UNION {s[i].calls : i \in {j \in DOMAIN s : ~ IsTool(s[j])}}
Answered(s) == UNION {s[i].calls : i \in {j \in DOMAIN s : IsTool(s[j])}}

\* The messages of s at the positions in K, in their order.
Rank(K, i) == Cardinality({j \in K : j <= i})

Subsequence(s, K) ==
  [k \in 1 .. Cardinality(K) |-> s[CHOOSE i \in K : Rank(K, i) = k]]

\* Fault: one unanswered call costs a message all its calls.
DropOrphansWhole(s) ==
  LET made == Made(s)
      answered == Answered(s)
      whole == [i \in DOMAIN s |->
                  IF IsTool(s[i]) \/ s[i].calls \subseteq answered THEN s[i]
                                                              ELSE Keeping(s[i], {})]
  IN Subsequence(whole, {i \in DOMAIN s : IsTool(s[i]) => s[i].calls \subseteq made})

\* sanitize_messages_for_llm, phases 1 and 2: calls answered nowhere and answers
\* whose call is nowhere are dropped.
DropOrphans(s) ==
  LET made == Made(s)
      answered == Answered(s)
      answeredOnly == [i \in DOMAIN s |->
                         IF IsTool(s[i]) THEN s[i] ELSE Keeping(s[i], answered)]
  IN Subsequence(answeredOnly, {i \in DOMAIN s : IsTool(s[i]) => s[i].calls \subseteq made})

\* The answers that stand right after message i.
AnswersAfter(s, i) ==
  UNION {s[j].calls : j \in {k \in (i + 1) .. Len(s) : \A l \in (i + 1) .. k : IsTool(s[l])}}

\* Fault: only the one message that follows is looked at.
DemoteShortSighted(s) ==
  [i \in DOMAIN s |->
     IF IsTool(s[i]) \/ s[i].calls = {} THEN s[i]
     ELSE IF i < Len(s) /\ IsTool(s[i + 1]) /\ s[i].calls \subseteq s[i + 1].calls
     THEN s[i] ELSE Keeping(s[i], {})]

\* sanitize_messages_for_llm, the strict order: a message whose calls are not all
\* answered right after it becomes a text; the answers are left as they are.
Demote(s) ==
  [i \in DOMAIN s |->
     IF IsTool(s[i]) \/ s[i].calls \subseteq AnswersAfter(s, i)
       THEN s[i] ELSE Keeping(s[i], {})]

\* Fault: the strict order alone is taken to be enough.
PrepareUnswept(s) == Demote(FilterInvalid(s))

\* prepare_messages_for_llm; the serialisation changes no call and no answer.
Prepare(s) == Demote(DropOrphans(FilterInvalid(s)))

(***************************************************************************)
(* The graph's nodes, as far as they append messages.                      *)
(***************************************************************************)

Room(n) == Len(history) + n <= MaxMessages

\* The list as it is, or the first message, a summary and any tail of the rest.
Compacted ==
  {history} \cup
  {<<history[1], Summary>> \o SubSeq(history, n, Len(history)) : n \in 3 .. Len(history)}

\* The user's next message, after a turn that ended, stopped or was given up.
NewTurn ==
  /\ at = "idle" /\ Room(1)
  /\ at' = "agent"
  /\ history' = Append(history, Human)
  /\ UNCHANGED <<used, nameless, gated, confirmed, given, sent>>

\* Compaction, the system prompt in front, the repairs; then the call.
Sends ==
  \E s \in Compacted :
    /\ given' = <<System>> \o s
    /\ sent' = Prepare(<<System>> \o s)

\* The calls of a reply, the model's own or parsed from its text: each has an id no
\* other call has.
Fresh(n) == (used + 1) .. (used + n)

AgentReplies ==
  /\ at = "agent" /\ Room(1)
  /\ Sends
  /\ \E n \in 0 .. MaxBatch :
       LET batch == Fresh(n)
       IN /\ used + n <= MaxCalls
          /\ used' = used + n
          /\ history' = Append(history, Reply(batch))
          /\ \E bad \in SUBSET batch : nameless' = nameless \cup bad
          /\ \E g \in SUBSET (batch \ nameless') : gated' = gated \cup g
  /\ at' = "routing"
  /\ UNCHANGED confirmed

\* The model call fails: handle_error tries again or stops the turn.
AgentFails ==
  /\ at = "agent"
  /\ Sends
  /\ at' \in {"agent", "idle"}
  /\ UNCHANGED <<history, used, nameless, gated, confirmed>>

LastCalls == Last(history).calls
Blocked   == LastCalls \cap gated

\* safe_stop may come first; an empty ledger needs no confirmation.
RouteToTools ==
  /\ at = "routing" /\ LastCalls # {}
  /\ \/ at' = "idle"
     \/ at' = "tools"
     \/ at' = "gate" /\ ~ confirmed /\ Blocked # {}
  /\ UNCHANGED <<history, used, nameless, gated, confirmed, given, sent>>

\* The turn's end, a nudge, or the sufficiency loop's feedback.
RouteText ==
  /\ at = "routing" /\ LastCalls = {}
  /\ \/ at' = "idle" /\ UNCHANGED history
     \/ at' = "agent" /\ Room(1) /\ history' = Append(history, Human)
  /\ UNCHANGED <<used, nameless, gated, confirmed, given, sent>>

\* ToolNode answers every call of the batch, a nameless one with an error.  After
\* it check_progress may stop the turn.
ToolsAnswer ==
  /\ at = "tools" /\ Room(Cardinality(LastCalls))
  /\ history' = history \o [i \in 1 .. Cardinality(LastCalls) |->
                              Answer(used - Cardinality(LastCalls) + i)]
  /\ at' \in {"agent", "idle"}
  /\ UNCHANGED <<used, nameless, gated, confirmed, given, sent>>

FirstBlocked == CHOOSE c \in Blocked : \A d \in Blocked : c <= d

\* The first blocked delegation is answered, the rest of the batch is not; finer
\* and coarser add what to do instead.
GateAnswers ==
  /\ at = "gate" /\ Room(2)
  /\ \E redirected \in BOOLEAN :
       history' = history \o <<Answer(FirstBlocked)>>
                          \o IF redirected THEN <<Human>> ELSE <<>>
  /\ confirmed' = TRUE
  /\ at' = "agent"
  /\ UNCHANGED <<used, nameless, gated, given, sent>>

\* A question is left unanswered or a tool raises: the node appends nothing.
TurnGivenUp ==
  /\ at \in {"tools", "gate"}
  /\ at' = "idle"
  /\ UNCHANGED <<history, used, nameless, gated, confirmed, given, sent>>

Next ==
  \/ NewTurn \/ AgentReplies \/ AgentFails
  \/ RouteToTools \/ RouteText
  \/ ToolsAnswer \/ GateAnswers \/ TurnGivenUp

Spec == Init /\ [][Next]_vars

(***************************************************************************)
(* Properties.                                                             *)
(***************************************************************************)

\* The rule of the LLM APIs: a message's calls are answered, each once, in the
\* answers right after it, and every answer stands after the message it answers.
Paired(s) ==
  \A i \in DOMAIN s :
    IF IsTool(s[i])
      THEN /\ \E j \in 1 .. (i - 1) :
                /\ s[i].calls \subseteq s[j].calls
                /\ \A l \in (j + 1) .. i : IsTool(s[l])
                /\ ~ IsTool(s[j])
           /\ \A j \in DOMAIN s \ {i} : IsTool(s[j]) => s[j].calls # s[i].calls
      ELSE s[i].calls \subseteq AnswersAfter(s, i)

\* Whatever turns were given up and calls blocked, and wherever the history was
\* cut, the list the model is sent keeps the APIs' rule (docstring of
\* sanitize_messages_for_llm).
SentIsPaired == Paired(sent)

\* The repairs lose no result: an answer whose call was in the list is sent, with
\* its call.
ResultsAreSent ==
  \A i \in DOMAIN given :
    IsTool(given[i]) /\ given[i].calls \subseteq Made(given)
      => /\ given[i] \in ToSet(sent)
         /\ given[i].calls \subseteq Made(sent)

\* A list that already keeps the rule is sent as it is.
PairedIsLeftAlone == Paired(given) => sent = given

\* (docstring of filter_invalid_tool_calls) calls with an empty name are removed.
NamelessIsFiltered == Made(sent) \cap nameless = {}
===============================================================================
