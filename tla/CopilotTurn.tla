----------------------------- MODULE CopilotTurn -----------------------------
(***************************************************************************)
(* One answer of the copilot: run() in api/v1/copilot.py, the provider     *)
(* stream of services/copilot_gateway.py and the read-only tools of        *)
(* services/copilot_tools.py.                                              *)
(*                                                                         *)
(* A first tool call is chosen from the question; then the model is asked  *)
(* in at most three rounds.  A round's output that starts with a brace is  *)
(* kept from the client and read as a tool call, anything else is streamed *)
(* as it comes, its end held back for redaction.  Text is counted in parts *)
(* that hold more than blanks.                                             *)
(***************************************************************************)
EXTENDS Integers, Sequences

CONSTANTS
    Calls,     \* tool calls the model can ask for
    First,     \* the call initial_tools() chooses
    MaxParts,  \* bound: parts of text the model emits in a round
    Timeout    \* ticks until asyncio.timeout(300)

ASSUME TurnAssumption == First \in Calls /\ MaxParts \in Nat \ {0} /\ Timeout \in Nat

VARIABLES
    pc,        \* where run() stands
    round,     \* round_number
    memory,    \* memory_enabled when the chat began
    requests,  \* tool_requests
    invoked,   \* history: the calls invoke() carried out, in order
    buffer,    \* parts received and not passed on
    isTool,    \* is_tool: None, True or False
    answer,    \* parts of the answer
    sent,      \* history: parts the client was sent
    whole,     \* history: the provider ended the round by itself
    saved,     \* the conversation record: parts of the answer, or Nil
    leased,    \* the user's lease
    left,      \* ticks until the timeout
    client     \* what the client saw last: "open", "done", "error", "gone"

text == <<buffer, isTool, answer, sent, whole>>
turnVars == <<pc, round, memory, requests, invoked, text, saved, leased, left, client>>

-----------------------------------------------------------------------------
NotSaved == 0 - 1
Rounds == 3
Stages == {"tools", "asking", "streaming", "calling", "saving", "noting", "failed", "stopped",
           "releasing", "ended"}

TurnTypeOK ==
    /\ pc \in Stages /\ round \in 0..(Rounds - 1) /\ memory \in BOOLEAN
    /\ requests \in SUBSET Calls /\ invoked \in Seq(Calls)
    /\ buffer \in 0..MaxParts /\ isTool \in {"unknown", "tool", "text"}
    /\ answer \in Nat /\ sent \in Nat /\ whole \in BOOLEAN
    /\ saved \in Nat \cup {NotSaved} /\ leased \in BOOLEAN /\ left \in 0..Timeout
    /\ client \in {"open", "done", "error", "gone"}

TurnInit ==
    /\ pc = "tools" /\ round = 0 /\ memory \in BOOLEAN
    /\ requests = {} /\ invoked = <<>>
    /\ buffer = 0 /\ isTool = "unknown" /\ answer = 0 /\ sent = 0 /\ whole = FALSE
    /\ saved = NotSaved /\ leased = TRUE /\ left = Timeout /\ client = "open"

InTimeout == pc \in {"tools", "asking", "streaming", "calling", "saving", "noting"}

\* A call that was answered, with data or as UNAVAILABLE.
Invoke(c) == requests' = requests \cup {c} /\ invoked' = Append(invoked, c)

-----------------------------------------------------------------------------
\* The call chosen from the question; the incident context is noted with it.
InitialTool ==
    /\ pc = "tools" /\ pc' = "asking"
    /\ Invoke(First)
    /\ UNCHANGED <<round, memory, text, saved, leased, left, client>>

\* gateway.stream: the provider accepts; a round begins with empty buffers.
AskModel ==
    /\ pc = "asking" /\ pc' = "streaming"
    /\ buffer' = 0 /\ isTool' = "unknown" /\ answer' = 0 /\ whole' = FALSE
    /\ UNCHANGED <<round, memory, requests, invoked, sent, saved, leased, left, client>>

\* Mutant: a long tool request is passed on as text.
ShownWhenLong(kind) == TRUE

Shown(kind) == kind = "text"

\* A delta: the first visible text decides what the round is.  Once the buffer is long
\* its beginning is passed on, and its last words are held back.
Delta(kind, flush) ==
    /\ pc = "streaming" /\ buffer + answer < MaxParts
    /\ isTool' = IF isTool = "unknown" THEN kind ELSE isTool
    /\ flush => Shown(isTool') /\ buffer > 0
    /\ buffer' = IF flush THEN 1 ELSE buffer + 1
    /\ answer' = IF flush THEN answer + buffer ELSE answer
    /\ sent' = IF flush THEN sent + buffer ELSE sent
    /\ UNCHANGED <<pc, round, memory, requests, invoked, whole, saved, leased, left, client>>

\* Mutant: a call may be repeated.
MoreThanOnce(r, c) == r < Rounds - 1

\* A tool request is carried out unless it is repeated or made in the last round.
CarriedOut(r, c) == r < Rounds - 1 /\ c \notin requests

RequestTool(c) ==
    /\ pc = "streaming" /\ isTool = "tool" /\ CarriedOut(round, c)
    /\ pc' = "calling" /\ whole' = TRUE
    /\ Invoke(c)
    /\ UNCHANGED <<round, memory, buffer, isTool, answer, sent, saved, leased, left, client>>

NextRound ==
    /\ pc = "calling" /\ pc' = "asking"
    /\ round' = round + 1
    /\ UNCHANGED <<memory, requests, invoked, text, saved, leased, left, client>>

\* The fixed text, one part, in place of a request that is malformed or not carried out.
RefuseTool ==
    /\ pc = "streaming" /\ isTool = "tool"
    /\ pc' = "saving" /\ whole' = TRUE
    /\ answer' = 1 /\ sent' = sent + 1 /\ buffer' = 0
    /\ UNCHANGED <<round, memory, requests, invoked, isTool, saved, leased, left, client>>

\* The stream ends with text: the tail is sent.  Blank text is an error, as is none.
EndText ==
    /\ pc = "streaming" /\ isTool = "text"
    /\ pc' = "saving" /\ whole' = TRUE
    /\ sent' = sent + buffer /\ answer' = answer + buffer /\ buffer' = 0
    /\ UNCHANGED <<round, memory, requests, invoked, isTool, saved, leased, left, client>>

\* put conversation, unless memory is off.
SaveAnswered ==
    /\ pc = "saving" /\ pc' = "noting"
    /\ saved' = IF memory THEN answer ELSE NotSaved
    /\ UNCHANGED <<round, memory, requests, invoked, text, leased, left, client>>

\* put usage, audit, and the done event.
Done ==
    /\ pc = "noting" /\ pc' = "releasing"
    /\ client' = "done"
    /\ UNCHANGED <<round, memory, requests, invoked, text, saved, leased, left>>

-----------------------------------------------------------------------------
\* Mutant: an answer that was cut off is kept for the next question.
FailSaving == saved' = IF memory /\ answer > 0 THEN answer ELSE saved

KeepOnFailure == UNCHANGED saved

\* A tool, the provider or the database fails, the answer is empty or the 300 seconds are
\* over: one error event.  A provider that fails half-way may already have sent parts.
Fail ==
    /\ InTimeout /\ pc' = "failed"
    /\ KeepOnFailure
    /\ UNCHANGED <<round, memory, requests, invoked, text, leased, left, client>>

ErrorEvent ==
    /\ pc = "failed" /\ pc' = "releasing"
    /\ client' = "error"
    /\ UNCHANGED <<round, memory, requests, invoked, text, saved, leased, left>>

\* The client leaves; seen at the next part of the stream or at the next event.
Leave ==
    /\ client = "open" /\ client' = "gone"
    /\ UNCHANGED <<pc, round, memory, requests, invoked, text, saved, leased, left>>

Stop ==
    /\ client = "gone" /\ InTimeout /\ pc' = "stopped"
    /\ UNCHANGED <<round, memory, requests, invoked, text, saved, leased, left, client>>

AuditStop ==
    /\ pc = "stopped" /\ pc' = "releasing"
    /\ UNCHANGED <<round, memory, requests, invoked, text, saved, leased, left, client>>

\* Mutant: the lease is given back only where the answer or the error is sent.
ReleaseIfPresent ==
    /\ pc = "releasing" /\ pc' = "ended"
    /\ leased' = (client = "gone")
    /\ UNCHANGED <<round, memory, requests, invoked, text, saved, left, client>>

\* finally
Release ==
    /\ pc = "releasing" /\ pc' = "ended"
    /\ leased' = FALSE
    /\ UNCHANGED <<round, memory, requests, invoked, text, saved, left, client>>

TurnTick ==
    /\ InTimeout /\ left > 0
    /\ left' = left - 1
    /\ UNCHANGED <<pc, round, memory, requests, invoked, text, saved, leased, client>>

\* What the handler does by itself; the model and the client are not obliged to anything.
HandlerStep == \/ InitialTool \/ AskModel \/ NextRound \/ SaveAnswered \/ Done
               \/ ErrorEvent \/ AuditStop \/ Release

\* asyncio.timeout fires.
TimeIsUp == left = 0 /\ Fail

TurnNext ==
    \/ HandlerStep \/ Fail \/ Leave \/ Stop \/ TurnTick
    \/ \E c \in Calls : RequestTool(c)
    \/ \E kind \in {"tool", "text"}, flush \in BOOLEAN : Delta(kind, flush)
    \/ RefuseTool \/ EndText

TurnSpec == /\ TurnInit /\ [][TurnNext]_turnVars
            /\ WF_turnVars(HandlerStep) /\ WF_turnVars(TurnTick) /\ WF_turnVars(TimeIsUp)

-----------------------------------------------------------------------------
(* Properties. *)

\* copilot.py:315, "Partial text is not saved": what is saved is the whole answer of a
\* round the provider ended, and exactly what the client was sent.
PartialNotSaved == saved # NotSaved => whole /\ saved = sent

\* docs/COPILOT.md:19: three model rounds, and no tool call is carried out twice; the
\* question's own call counts.
ToolBudget ==
    /\ Len(invoked) <= Rounds
    /\ \A i, j \in DOMAIN invoked : invoked[i] = invoked[j] => i = j

\* What is streamed is never taken back: a round whose beginning was shown as text is not
\* turned into a tool call, and a tool request is never shown.
ShownIsText == pc = "calling" => sent = 0

\* A silent provider, a client that left, a failing tool: the turn ends and the lease is
\* given back.
TurnEnds == <>(pc = "ended" /\ ~leased)

\* What the client saw as the answer, what was saved as the answer and what the provider
\* ended as the answer are one text.
AnswerFaithful == TurnTypeOK /\ PartialNotSaved /\ ShownIsText
=============================================================================
