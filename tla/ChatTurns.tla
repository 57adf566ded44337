----------------------------- MODULE ChatTurns -----------------------------
(***************************************************************************)
(* A turn of a conversation from the form of pages/Chat.tsx, through       *)
(* streamChat of lib/api.ts and stream_conversation_turn, to the messages  *)
(* the page shows.  One browser tab.  Which thread is on screen, and which *)
(* threads exist, is decided by ChatThreads; here they change at any time. *)
(*                                                                         *)
(* A message is named after the question of its turn.  Left out: the order *)
(* of messages, the draft, the text that has streamed in so far (it is     *)
(* shown while the page is sending, under whatever thread is on screen).   *)
(***************************************************************************)
EXTENDS QueryCache

CONSTANTS
    Threads,        \* conversations
    Questions,      \* turns, named by the question
    NoThread, NoQuestion,
    Faults          \* what may go wrong in this instance

FaultKinds ==
    {"agent",       \* run_agent or the database fails in a turn
     "stream",      \* the connection of a streamed turn is cut
     "fetch",       \* messages cannot be fetched
     "age"}         \* not a failure: messages outlive staleTime (30 s)

ASSUME TurnAssumption ==
    NoThread \notin Threads /\ NoQuestion \notin Questions /\ Faults \subseteq FaultKinds

VARIABLES
    live,       \* conversations that have a row
    log,        \* the messages rows of each conversation
    turn,       \* turn[q]: where the streamed turn stands, and in which thread
    active,     \* activeId, or NoThread, also when the page is not on screen
    msgs,       \* msgs[c]: the cache entry of ['messages', c]
    sending,    \* the turn whose isPending the page observes
    unheard     \* history: threads with a change since their messages were last
                \* read, of which no refetch was due to tell the page

server == <<live, log>>
vars == <<live, log, turn, active, msgs, sending, unheard>>

\* "draft" is the page's own copy of a question, with no id of the server.
Roles == {"draft", "user", "assistant"}
Messages == Questions \X Roles
NoTurn == [at |-> "none", thread |-> NoThread, cut |-> FALSE]

Init ==
    /\ live = Threads
    /\ log = [c \in Threads |-> {}]
    /\ turn = [q \in Questions |-> NoTurn]
    /\ active = NoThread
    /\ msgs = [c \in Threads |-> Unloaded]
    /\ sending = NoQuestion
    /\ unheard = {}
-----------------------------------------------------------------------------
(* The server. *)

To(q, place) == turn' = [turn EXCEPT ![q].at = place]
\* No frame will tell the page of what a turn does whose stream was cut.
Noted(q) == unheard' = IF turn[q].cut THEN unheard \cup {turn[q].thread} ELSE unheard
Add(q, role) == log' = [log EXCEPT ![turn[q].thread] = @ \cup {<<q, role>>}]

\* The first commit of stream_conversation_turn, before the agent runs.
QuestionSaved(q) ==
    /\ turn[q].at = "sent"
    /\ turn[q].thread \in live
    /\ Add(q, "user")
    /\ To(q, "asked")
    /\ Noted(q)
    /\ UNCHANGED <<live, active, msgs, sending>>

\* 404 before any frame.
TurnRefused(q) ==
    /\ turn[q].at = "sent"
    /\ turn[q].thread \notin live
    /\ To(q, "failed")
    /\ UNCHANGED <<server, active, msgs, sending, unheard>>

\* Mutant of ReplySaved: the reply is inserted wherever its thread went.
ReplySavedAnyway(q) ==
    /\ turn[q].at = "asked"
    /\ Add(q, "assistant")
    /\ To(q, "replied")
    /\ Noted(q)
    /\ UNCHANGED <<live, active, msgs, sending>>

\* The second commit: NO_CONTEXT_MESSAGE, the heuristic answer, the streamed
\* one, or what there was of it when the model stopped (an error frame goes
\* before).  The foreign key of the reply needs the conversation.
ReplySaved(q) ==
    /\ turn[q].at = "asked"
    /\ turn[q].thread \in live
    /\ Add(q, "assistant")
    /\ To(q, "replied")
    /\ Noted(q)
    /\ UNCHANGED <<live, active, msgs, sending>>

\* The stream ends with no done frame: the conversation is gone, the agent or
\* the database raised, or the server noticed that the browser left.
TurnFails(q) ==
    /\ turn[q].at = "asked"
    /\ turn[q].thread \notin live \/ "agent" \in Faults \/ turn[q].cut
    /\ To(q, "failed")
    /\ UNCHANGED <<server, active, msgs, sending, unheard>>

\* delete_conversation, or its document's; the messages cascade.
ThreadRemoved(c) ==
    /\ c \in live
    /\ live' = live \ {c}
    /\ log' = [log EXCEPT ![c] = {}]
    /\ UNCHANGED <<turn, active, msgs, sending, unheard>>

\* What the server reads now holds every change so far.
MessagesServed(c) ==
    /\ msgs[c].fetch = "asked"
    /\ c \in live
    /\ msgs' = [msgs EXCEPT ![c] = Serve(@, log[c])]
    /\ unheard' = unheard \ {c}
    /\ UNCHANGED <<server, turn, active, sending>>
-----------------------------------------------------------------------------
(* The thread on screen. *)

\* A query mounts, or the window gets the focus: what was never loaded, or was
\* invalidated, is fetched, and what has become older than staleTime is too.
Mount(e) ==
    {x \in {e, Ask(e)} : /\ MustAsk(e) => x = Ask(e)
                         /\ "age" \notin Faults /\ ~MustAsk(e) => x = e}

\* useMessages of the thread that is, or becomes, active.
Watch(m, a) ==
    IF a = NoThread THEN {m} ELSE {[m EXCEPT ![a] = x] : x \in Mount(m[a])}

\* The user, or an effect of the page, turns to another thread or to none.
Switch(a) ==
    /\ a # active
    /\ active' = a
    /\ msgs' \in Watch(msgs, a)
    /\ UNCHANGED <<server, turn, sending, unheard>>

Refocus ==
    /\ msgs' \in Watch(msgs, active)
    /\ UNCHANGED <<server, turn, active, sending, unheard>>

\* A turn goes on without the page; a new visit observes none.
Leave ==
    /\ active' = NoThread /\ sending' = NoQuestion
    /\ UNCHANGED <<server, turn, msgs, unheard>>

\* onSuccess of deleteConversation: the thread on screen is refetched and left,
\* whichever was deleted, for one of the list as it was.
DeleteSucceeds(a) ==
    /\ active # NoThread
    /\ live # Threads
    /\ active' = a
    /\ msgs' \in Watch([msgs EXCEPT ![active] = Invalidate(@, TRUE)], a)
    /\ UNCHANGED <<server, turn, sending, unheard>>

MessagesArrive(c) ==
    /\ msgs[c].fetch = "served"
    /\ msgs' = [msgs EXCEPT ![c] = Arrive(@)]
    /\ UNCHANGED <<server, turn, active, sending, unheard>>

\* 404 of a thread that is gone, or a failure.
MessagesFail(c) ==
    /\ Fetching(msgs[c])
    /\ c \notin live \/ "fetch" \in Faults
    /\ msgs' = [msgs EXCEPT ![c] = Fail(@)]
    /\ UNCHANGED <<server, turn, active, sending, unheard>>
-----------------------------------------------------------------------------
(* A turn. *)

Known(c) == IF Loaded(msgs[c]) THEN msgs[c].data ELSE {}

\* onSubmit and the start of sendMessage: the question is shown at once.
Submit(q) ==
    /\ active # NoThread /\ sending = NoQuestion
    /\ turn[q].at = "none"
    /\ turn' = [turn EXCEPT ![q] = [at |-> "sent", thread |-> active, cut |-> FALSE]]
    /\ msgs' = [msgs EXCEPT ![active] = Write(@, Known(active) \cup {<<q, "draft">>})]
    /\ sending' = q
    /\ UNCHANGED <<server, active, unheard>>

NoLongerSending(q) == sending' = IF sending = q THEN NoQuestion ELSE sending

\* Mutant of TurnDone: the refetch is of the thread on screen.
TurnDoneOnScreen(q) ==
    /\ turn[q].at = "replied" /\ ~turn[q].cut
    /\ To(q, "over")
    /\ msgs' = IF active = NoThread THEN msgs
               ELSE [msgs EXCEPT ![active] = Invalidate(@, TRUE)]
    /\ NoLongerSending(q)
    /\ UNCHANGED <<server, active, unheard>>

\* Mutant of TurnDone: the stored messages are put beside what is there.
TurnDoneInPlace(q) ==
    /\ turn[q].at = "replied" /\ ~turn[q].cut
    /\ To(q, "over")
    /\ LET c == turn[q].thread
       IN msgs' = [msgs EXCEPT ![c] = Write(@, Known(c) \cup {<<q, "user">>, <<q, "assistant">>})]
    /\ NoLongerSending(q)
    /\ UNCHANGED <<server, active, unheard>>

\* Mutant of TurnDone: a fetch under way is joined and not replaced.
TurnDoneJoins(q) ==
    /\ turn[q].at = "replied" /\ ~turn[q].cut
    /\ To(q, "over")
    /\ LET c == turn[q].thread
       IN msgs' = [msgs EXCEPT ![c] = IF active = c THEN Ask(@) ELSE Invalidate(@, FALSE)]
    /\ NoLongerSending(q)
    /\ UNCHANGED <<server, active, unheard>>

\* An invalidation comes too late for a fetch that has read its rows, is not
\* replaced, and will clear the mark.
Overtaken(c) == msgs[c].fetch = "served" /\ ~(active = c /\ Loaded(msgs[c]))

\* The done frame and the end of the stream: the thread of the turn is refetched,
\* and the list of conversations (TurnEnds of ChatThreads).
TurnDone(q) ==
    /\ turn[q].at = "replied" /\ ~turn[q].cut
    /\ To(q, "over")
    /\ LET c == turn[q].thread
       IN /\ msgs' = [msgs EXCEPT ![c] = Invalidate(@, active = c)]
          /\ unheard' = unheard \cup (IF Overtaken(c) THEN {c} ELSE {})
    /\ NoLongerSending(q)
    /\ UNCHANGED <<server, active>>

\* Mutant of TurnErrors: a stream that breaks leaves the page sending.
TurnErrorsUnnoticed(q) ==
    /\ turn[q].at = "failed" /\ ~turn[q].cut
    /\ To(q, "over")
    /\ unheard' = unheard \cup {turn[q].thread}
    /\ UNCHANGED <<server, active, msgs, sending>>

\* A refusal, or a stream that breaks: a toast or nothing.  No list is refetched
\* and the page's copy of the question stays.
TurnErrors(q) ==
    /\ turn[q].at = "failed" /\ ~turn[q].cut
    /\ To(q, "over")
    /\ unheard' = unheard \cup {turn[q].thread}
    /\ NoLongerSending(q)
    /\ UNCHANGED <<server, active, msgs>>

\* Mutant of StreamCut: a stream that is cut is not noticed.
StreamCutUnnoticed(q) ==
    /\ "stream" \in Faults
    /\ turn[q].at \in {"sent", "asked", "replied"} /\ ~turn[q].cut
    /\ turn' = [turn EXCEPT ![q].cut = TRUE]
    /\ unheard' = unheard \cup {turn[q].thread}
    /\ UNCHANGED <<server, active, msgs, sending>>

\* The same, while the server goes on or has just finished.
StreamCut(q) ==
    /\ "stream" \in Faults
    /\ turn[q].at \in {"sent", "asked", "replied"} /\ ~turn[q].cut
    /\ turn' = [turn EXCEPT ![q].cut = TRUE]
    /\ unheard' = unheard \cup {turn[q].thread}
    /\ NoLongerSending(q)
    /\ UNCHANGED <<server, active, msgs>>
-----------------------------------------------------------------------------
ServerTurn(q) == QuestionSaved(q) \/ TurnRefused(q) \/ ReplySaved(q) \/ TurnFails(q)

Next ==
    \/ \E q \in Questions :
          \/ ServerTurn(q)
          \/ Submit(q) \/ TurnDone(q) \/ TurnErrors(q) \/ StreamCut(q)
    \/ \E c \in Threads :
          ThreadRemoved(c) \/ MessagesServed(c) \/ MessagesArrive(c) \/ MessagesFail(c)
    \/ \E a \in Threads \cup {NoThread} : Switch(a) \/ DeleteSucceeds(a)
    \/ Refocus \/ Leave

Spec == Init /\ [][Next]_vars

\* The server ends every turn, and what it sends arrives; nobody need click.
FairSpec ==
    /\ Spec
    /\ \A q \in Questions :
          WF_vars(ServerTurn(q)) /\ WF_vars(TurnDone(q)) /\ WF_vars(TurnErrors(q))
    /\ \A c \in Threads : SF_vars(MessagesServed(c)) /\ SF_vars(MessagesArrive(c))
-----------------------------------------------------------------------------
\* Ranges of the variables, and the form waits for a turn that has not ended.
TypeOK ==
    /\ sending # NoQuestion => turn[sending].at \notin {"none", "over"} /\ ~turn[sending].cut
    /\ \A q \in Questions : turn[q].at # "none" <=> turn[q].thread \in Threads
    /\ live \subseteq Threads
    /\ log \in [Threads -> SUBSET Messages]
    /\ turn \in [Questions -> [at : {"none", "sent", "asked", "replied", "failed", "over"},
                               thread : Threads \cup {NoThread}, cut : BOOLEAN]]
    /\ active \in Threads \cup {NoThread}
    /\ msgs \in [Threads -> Entries(SUBSET Messages)]
    /\ sending \in Questions \cup {NoQuestion}
    /\ unheard \subseteq Threads

\* Every stored message stands in a conversation that exists, the one its
\* question was asked in, and every reply beside its question: a deletion that
\* overtakes the answer (services/conversations.py 197) leaves nothing behind.
RepliesHaveQuestions ==
    \A c \in Threads, q \in Questions :
        /\ <<q, "assistant">> \in log[c] => <<q, "user">> \in log[c]
        /\ \A r \in Roles : <<q, r>> \in log[c] => c \in live /\ turn[q].thread = c

InTurn(c) == \E q \in Questions : turn[q].thread = c /\ turn[q].at # "over" /\ ~turn[q].cut
Quiet(e) == Loaded(e) /\ ~e.stale /\ ~Fetching(e)

\* A thread that is fresh and in no turn shows what the server has of it: the
\* page's copy of the question has given way to the stored one, and the reply is
\* there, however sends, switches, visits, fetches and deletions overlap.
QuietThreadIsTrue ==
    \A c \in live \ unheard : Quiet(msgs[c]) /\ ~InTurn(c) => msgs[c].data = log[c]

\* A question is never on screen twice, as the page's copy and as the server's.
NoQuestionTwice ==
    \A c \in Threads, q \in Questions :
        ~({<<q, "draft">>, <<q, "user">>} \subseteq Known(c))

\* The form does not stay disabled: every send ends.
SendingEnds == \A q \in Questions : sending = q ~> sending # q

\* An answer that was streamed to its end replaces the stream in the thread, if
\* the user stays there and neither the refetch nor another turn there fails.
AnswerIsShown ==
    \A q \in Questions, c \in Threads :
        turn[q] = [at |-> "replied", thread |-> c, cut |-> FALSE] /\ active = c
        ~> \/ <<q, "assistant">> \in Known(c)
           \/ active # c \/ c \notin live \/ c \in unheard
           \/ msgs[c].stale /\ ~Fetching(msgs[c])
=============================================================================
