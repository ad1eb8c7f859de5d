--------------------------- MODULE CanvasAssistant ---------------------------
(***************************************************************************)
(* The assistant beside the canvas: canvas-assistant-panel.tsx and, under  *)
(* it, SendCanvasAssistantMessage and PlanCanvasAgent of the server.  The  *)
(* panel shows a message at once and asks; the server reads the session,   *)
(* asks a model, and saves the session whole; the answer replaces the      *)
(* panel's.  Meanwhile the user may ask again, delete, or close the panel. *)
(***************************************************************************)
EXTENDS Integers, Sequences, FiniteSets, SequencesExt

CONSTANTS
    MaxTalks,     \* bound: things done at the panel, and requests that fail
    MaxSends      \* bound: questions in flight

VARIABLES
    talk,         \* the sessions of the panel, latest first
    active,       \* the one that is shown
    kept,         \* the server's, last saved first
    sends,        \* questions in flight
    fetching,     \* the list of sessions in flight
    removals,     \* deletions in flight
    running,      \* isRunning
    panel,        \* open, closing or closed
    view, checked, asking,  \* the history, what is ticked, the dialog that deletes
    draft, mode,  \* whether something is written; plan or chat
    previewing,   \* a plan is shown on the canvas
    born, talks   \* number of sessions ever made; of things done

composer == <<draft, mode>>
chosen == <<view, checked, asking>>
assistantVars == <<talk, active, kept, sends, fetching, removals, running, panel, chosen, composer, previewing, born, talks>>

Say == talks < MaxTalks /\ talks' = talks + 1
Open == panel = "open"
CreateSession(id) == [id |-> id, messages |-> <<>>]
User(turn) == [role |-> "user", turn |-> turn, state |-> "said", ops |-> FALSE]
Assistant(turn, state, ops) == [role |-> "assistant", turn |-> turn, state |-> state, ops |-> ops]
Ids(sessions) == {s.id : s \in ToSet(sessions)}

\* What these elements leave of a sequence, in their order.
Only(s, these) ==
    LET upTo[k \in 0 .. Len(s)] ==
            IF k = 0 THEN <<>> ELSE IF s[k] \in these THEN Append(upTo[k - 1], s[k]) ELSE upTo[k - 1]
    IN  upTo[Len(s)]
Without(sessions, ids) == Only(sessions, {s \in ToSet(sessions) : s.id \notin ids})
HistorySessions == Only(talk, {s \in ToSet(talk) : s.messages # <<>>})

\* The session that is shown: the first one when the active one is gone.
ActiveSession ==
    LET found == Only(talk, {s \in ToSet(talk) : s.id = active})
    IN  IF found = <<>> THEN Head(talk) ELSE Head(found)

------------------------------------------------------------------------------
(* The list *)

SessionsServed ==
    /\ fetching.at = "asked"
    /\ fetching' = [at |-> "served", items |-> Only(kept, {row \in ToSet(kept) : ~row.deleted})]
    /\ UNCHANGED <<talk, active, kept, sends, removals, running, panel, chosen, composer, previewing, born, talks>>

\* What the server has takes the place of everything that is shown.
SessionsFetched ==
    /\ fetching.at = "served"
    /\ fetching' = [at |-> "none", items |-> <<>>]
    /\ \/ /\ panel # "closed"
          /\ LET next == IF fetching.items = <<>> THEN <<CreateSession(born + 1)>>
                         ELSE [i \in DOMAIN fetching.items |->
                                  [id |-> fetching.items[i].id, messages |-> fetching.items[i].messages]]
             IN  talk' = next /\ active' = IF active \in Ids(next) THEN active ELSE Head(next).id
          /\ born' = born + 1 /\ UNCHANGED talks
       \/ panel = "closed" /\ UNCHANGED <<talk, active, born, talks>>
       \/ Say /\ UNCHANGED <<talk, active, born>>
    /\ UNCHANGED <<kept, sends, removals, running, panel, chosen, composer, previewing>>

------------------------------------------------------------------------------
(* Questions *)

UpdateSession(id, messages) ==
    [i \in DOMAIN talk |-> IF talk[i].id = id THEN [talk[i] EXCEPT !.messages = messages] ELSE talk[i]]

\* Mutant: what is still being thought about is sent along.
SanitizeNothing(messages) == messages

\* sanitizeAgentMessages
SanitizeAgentMessages(messages) == Only(messages, {m \in ToSet(messages) : m.state # "loading"})

\* sendMessage: two messages are shown, and one is asked.
SendMessage(history) ==
    /\ Cardinality(sends) < MaxSends
    /\ LET s == ActiveSession
           turn == talks'
       IN  /\ talk' = UpdateSession(s.id, s.messages \o <<User(turn), Assistant(turn, "loading", FALSE)>>)
           /\ sends' = sends \cup {[turn |-> turn, session |-> s.id, mode |-> mode, at |-> "asked", row |-> 0,
                                    here |-> TRUE, history |-> SanitizeAgentMessages(history)]}
    /\ draft' = FALSE /\ running' = TRUE
    /\ UNCHANGED <<active, kept, fetching, removals, panel, chosen, mode, previewing, born>>

Submit ==
    /\ view = "chat" /\ draft /\ ~running
    /\ SendMessage(ActiveSession.messages)

\* An answer is asked for again, with what had been said before its question; nothing
\* keeps it from being asked while another one is on its way.
RetryMessage ==
    /\ view = "chat"
    /\ LET messages == ActiveSession.messages
       IN  \E i \in DOMAIN messages :
              /\ messages[i].role = "assistant" /\ messages[i].state # "loading"
              /\ LET users == {j \in 1 .. i - 1 : messages[j].role = "user"}
                 IN  users # {} /\ SendMessage(SubSeq(messages, 1, (CHOOSE j \in users : \A k \in users : k <= j) - 1))

\* canvasAssistantSessionForInput: the session, or a new one when it is not there.
SessionRead(s) ==
    /\ s \in sends /\ s.at = "asked"
    /\ LET there == \E i \in DOMAIN kept : kept[i].id = s.session /\ ~kept[i].deleted
       IN  /\ sends' = (sends \ {s}) \cup {[s EXCEPT !.at = "read", !.row = IF there THEN s.session ELSE born + 1]}
           /\ born' = IF there THEN born ELSE born + 1
    /\ UNCHANGED <<talk, active, kept, fetching, removals, running, panel, chosen, composer, previewing, talks>>

\* The model has answered: the session is saved whole, as one that is not deleted.
SaveCanvasAssistantSession(s) ==
    /\ s \in sends /\ s.at = "read"
    /\ sends' = (sends \ {s}) \cup {[s EXCEPT !.at = "saved"]}
    /\ LET messages == s.history \o <<User(s.turn), Assistant(s.turn, "said", s.mode = "plan")>>
       IN  kept' = <<[id |-> s.row, messages |-> messages, deleted |-> FALSE]>> \o Without(kept, {s.row})
    /\ UNCHANGED <<talk, active, fetching, removals, running, panel, chosen, composer, previewing, born, talks>>

\* The answer takes the place of the session it was asked from, unless the panel has
\* been closed since.
SendAnswered(s) ==
    /\ s \in sends /\ s.at = "saved"
    /\ sends' = sends \ {s}
    /\ IF s.here
       THEN /\ LET messages == s.history \o <<User(s.turn), Assistant(s.turn, "said", s.mode = "plan")>>
               IN  talk' = <<[id |-> s.row, messages |-> messages]>> \o Without(talk, {s.row, s.session})
            /\ active' = s.row /\ running' = FALSE
       ELSE UNCHANGED <<talk, active, running>>
    /\ UNCHANGED <<kept, fetching, removals, panel, chosen, composer, previewing, born, talks>>

\* Mutant: the failure is written into the session that is shown.
FailedWhere(s) == ActiveSession.id

\* updateMessage: the failure is written into the message that waits, where it was asked.
MessageOf(s) == s.session
UpdateMessage(s) ==
    [i \in DOMAIN talk |->
        IF talk[i].id # MessageOf(s) THEN talk[i]
        ELSE [talk[i] EXCEPT !.messages = [k \in DOMAIN @ |->
                 IF @[k].role = "assistant" /\ @[k].turn = s.turn THEN [@[k] EXCEPT !.state = "failed"] ELSE @[k]]]]

\* The model or the network fails, before or after the server has saved.
SendFailed(s) ==
    /\ Say
    /\ s \in sends
    /\ sends' = sends \ {s}
    /\ IF s.here THEN talk' = UpdateMessage(s) /\ running' = FALSE ELSE UNCHANGED <<talk, running>>
    /\ UNCHANGED <<active, kept, fetching, removals, panel, chosen, composer, previewing, born>>

------------------------------------------------------------------------------
(* Sessions *)

StartChatSession ==
    /\ view' = "chat"
    /\ IF ActiveSession.messages = <<>> THEN active' = ActiveSession.id /\ UNCHANGED <<talk, born>>
       ELSE /\ talk' = <<CreateSession(born + 1)>> \o talk
            /\ active' = born + 1 /\ born' = born + 1
    /\ UNCHANGED <<kept, sends, fetching, removals, running, panel, checked, asking, composer, previewing>>

\* AssistantHistory: open, tick, or ask to delete a session.
AssistantHistory ==
    /\ view = "history"
    /\ \/ \E id \in Ids(HistorySessions) : active' = id /\ view' = "chat" /\ UNCHANGED <<checked, asking>>
       \/ \E id \in Ids(HistorySessions) :
             /\ checked' = IF id \in checked THEN checked \ {id} ELSE checked \cup {id}
             /\ UNCHANGED <<active, view, asking>>
       \/ \E id \in Ids(HistorySessions) : asking' = {id} /\ UNCHANGED <<active, view, checked>>
       \/ checked # {} /\ asking' = checked /\ UNCHANGED <<active, view, checked>>
       \/ HistorySessions # <<>> /\ asking' = Ids(HistorySessions) /\ UNCHANGED <<active, view, checked>>
    /\ UNCHANGED <<talk, kept, sends, fetching, removals, running, panel, composer, previewing, born>>

SwitchView ==
    /\ view' = IF view = "chat" THEN "history" ELSE "chat"
    /\ UNCHANGED <<talk, active, kept, sends, fetching, removals, running, panel, checked, asking, composer, previewing, born>>

\* removeSessions: they leave the panel at once, whatever is asked from them.
RemoveSessions(ids) ==
    LET next == Without(talk, ids)
    IN  /\ talk' = IF next = <<>> THEN <<CreateSession(born + 1)>> ELSE next
        /\ active' = IF next = <<>> THEN born + 1 ELSE IF active \in ids THEN Head(next).id ELSE active
        /\ checked' = checked \ ids
        /\ removals' = removals \cup {ids}
        /\ born' = born + 1

\* clearSessions: all of those that have messages, and whatever else there is.
ClearSessions ==
    /\ talk' = <<CreateSession(born + 1)>>
    /\ active' = born + 1 /\ checked' = {}
    /\ removals' = removals \cup ({Ids(HistorySessions)} \ {{}})
    /\ born' = born + 1

ConfirmDelete ==
    /\ asking # {}
    /\ asking' = {}
    /\ \/ IF Cardinality(asking) = Len(HistorySessions) THEN ClearSessions ELSE RemoveSessions(asking)
       \/ UNCHANGED <<talk, active, checked, removals, born>>
    /\ UNCHANGED <<kept, sends, fetching, running, panel, view, composer, previewing, talks>>

\* BatchDeleteCanvasAssistantSessions, or a request that fails.
SessionsRemoved(ids) ==
    /\ ids \in removals
    /\ removals' = removals \ {ids}
    /\ \/ kept' = [i \in DOMAIN kept |-> IF kept[i].id \in ids THEN [kept[i] EXCEPT !.deleted = TRUE] ELSE kept[i]]
          /\ UNCHANGED talks
       \/ Say /\ UNCHANGED kept
    /\ UNCHANGED <<talk, active, sends, fetching, running, panel, chosen, composer, previewing, born>>

------------------------------------------------------------------------------
(* The panel *)

AssistantComposer ==
    /\ view = "chat"
    /\ \/ draft' = TRUE /\ UNCHANGED mode
       \/ mode' = (IF mode = "plan" THEN "chat" ELSE "plan") /\ UNCHANGED draft
    /\ UNCHANGED <<talk, active, kept, sends, fetching, removals, running, panel, chosen, previewing, born>>

\* AssistantMessages: a plan is shown on the canvas.
PreviewOps ==
    /\ view = "chat" /\ \E m \in ToSet(ActiveSession.messages) : m.ops
    /\ previewing' = TRUE
    /\ UNCHANGED <<talk, active, kept, sends, fetching, removals, running, panel, chosen, composer, born>>
EndPreview ==
    /\ previewing /\ previewing' = FALSE
    /\ UNCHANGED <<talk, active, kept, sends, fetching, removals, running, panel, chosen, composer, born>>

Collapse ==
    /\ panel' = "closing"
    /\ UNCHANGED <<talk, active, kept, sends, fetching, removals, running, chosen, composer, previewing, born>>

\* Once it has slid away the panel is gone: its answers find nobody.
Collapsed ==
    /\ panel = "closing" /\ panel' = "closed"
    /\ sends' = {[s EXCEPT !.here = FALSE] : s \in sends}
    /\ running' = FALSE /\ view' = "chat" /\ checked' = {} /\ asking' = {}
    /\ draft' = FALSE /\ mode' = "plan"
    /\ UNCHANGED <<talk, active, kept, fetching, removals, previewing, born, talks>>

\* It opens with the sessions the canvas remembers, and asks for those of the server.
Expand ==
    /\ panel = "closed" /\ fetching.at = "none"
    /\ panel' = "open" /\ fetching' = [at |-> "asked", items |-> <<>>]
    /\ UNCHANGED <<talk, active, kept, sends, removals, running, chosen, composer, previewing, born>>

AssistantMessages == RetryMessage \/ PreviewOps
AssistantPanel ==
    \/ Collapse \/ SwitchView \/ StartChatSession
    \/ AssistantMessages \/ AssistantHistory \/ EndPreview
    \/ AssistantComposer \/ Submit

AssistantReplies ==
    \/ SessionsServed \/ SessionsFetched \/ Collapsed
    \/ \E s \in sends : SessionRead(s) \/ SaveCanvasAssistantSession(s) \/ SendAnswered(s) \/ SendFailed(s)
    \/ \E ids \in removals : SessionsRemoved(ids)

AssistantInit ==
    /\ talk = <<CreateSession(1)>> /\ active = 1 /\ born = 1
    /\ kept = <<>> /\ sends = {} /\ removals = {}
    /\ fetching = [at |-> "asked", items |-> <<>>]
    /\ running = FALSE /\ panel = "open" /\ view = "chat" /\ checked = {} /\ asking = {}
    /\ draft = FALSE /\ mode \in {"plan", "chat"} /\ previewing = FALSE /\ talks = 0

AssistantNext ==
    \/ Say /\ Open /\ asking = {} /\ AssistantPanel
    \/ Open /\ ConfirmDelete
    \/ Say /\ Expand
    \/ AssistantReplies

\* The server and the model answer every question, and the panel takes the answer.
AssistantFairness ==
    \A turn \in 1 .. MaxTalks :
        WF_assistantVars(\E s \in sends : s.turn = turn /\ (SessionRead(s) \/ SaveCanvasAssistantSession(s) \/ SendAnswered(s)))

AssistantSpec == AssistantInit /\ [][AssistantNext]_assistantVars /\ AssistantFairness
=============================================================================
