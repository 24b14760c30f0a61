---------------------------- MODULE ChatSession ----------------------------
(***************************************************************************)
(* One stored chat, the tabs of its owner that show it, and the tasks that *)
(* write its answers: Chat.svelte on one side; on the other the chat's row *)
(* (models/chats.py), process_chat (main.py) and the response handler      *)
(* (utils/middleware.py), with ENABLE_REALTIME_CHAT_SAVE off, its default. *)
(*                                                                         *)
(* The row is written twice over: the server puts each answer into it when *)
(* it ends, and every save of a tab replaces the whole history by the      *)
(* tab's.  Events reach a tab in order over its socket; requests are       *)
(* answered in any order.                                                  *)
(*                                                                         *)
(* Prompts follow one another (Rounds, a set of responses each, one for    *)
(* each model); the branch displayed is the last.  Of a response only how  *)
(* much of it there is is kept.  The server is one event loop: reading or  *)
(* writing the row is one step.                                            *)
(***************************************************************************)
EXTENDS Integers, Sequences, SequencesExt

CONSTANTS Tabs,
          Rounds,     \* the responses to each prompt, a sequence of disjoint sets
          MaxSaves,   \* bound: saves a tab makes of its own (rating, editing, moving about)
          MaxOpens    \* bound: times a tab opens the chat, and connections lost

Responses == UNION {Rounds[i] : i \in 1 .. Len(Rounds)}

ASSUME RoundsAssumption ==
    /\ Rounds \in Seq(SUBSET Responses)
    /\ \A i, j \in DOMAIN Rounds : i # j => Rounds[i] \cap Rounds[j] = {}
    /\ MaxSaves \in Nat /\ MaxOpens \in Nat

Contents  == {"absent", "stub", "empty", "part", "full"}

VARIABLES row,       \* the stored history: how much of each response it has (stub: no links, no parent)
          task,      \* none, asked, running, writing; halted, stopped (to be cancelled before, while writing); cancelled, ended
          asker,     \* the tab that asked for a response
          phase,     \* of a tab: closed, asking (for the chat), tags (holds its answer), tasks, open
          view,      \* history.messages in a tab; while it loads, the answer it holds
          done,      \* responses a tab shows as done
          taskIds,   \* tasks behind the stop button of a tab
          events,    \* to a tab, in order
          linked,    \* the tab's socket is connected
          finishing, \* /chat/completed calls under way, by the response
          saves,     \* saves under way, the oldest first
          round, saved, opened,  \* counters: prompts made, saves of a tab's own, openings and losses
          excused    \* history: a save was overtaken, outlived its tab, or came from a tab that missed an end

server == <<row, task, asker>>
shown  == <<phase, view, done, taskIds>>
vars   == <<server, shown, events, linked, finishing, saves, round, saved, opened, excused>>

\* A save under way; the responses to ask for once it is answered; whether it ends chatCompletedHandler
Save == [tab : Tabs, copy : [Responses -> Contents], start : SUBSET Responses, completed : BOOLEAN]

\* An event about a response
Notice == [what : {"part", "done", "cancel"}, id : Responses]

TypeOK ==
    /\ row \in [Responses -> Contents]
    /\ task \in [Responses -> {"none", "asked", "running", "writing", "halted", "stopped", "cancelled", "ended"}]
    /\ asker \in [Responses -> Tabs]
    /\ phase \in [Tabs -> {"closed", "asking", "tags", "tasks", "open"}]
    /\ view \in [Tabs -> [Responses -> Contents]]
    /\ done \in [Tabs -> SUBSET Responses]
    /\ taskIds \in [Tabs -> SUBSET Responses]
    /\ events \in [Tabs -> Seq(Notice)]
    /\ linked \in [Tabs -> BOOLEAN]
    /\ finishing \in [Tabs -> SUBSET Responses]
    /\ saves \in Seq(Save)
    /\ round \in 0 .. Len(Rounds) /\ saved \in 0 .. MaxSaves /\ opened \in 0 .. MaxOpens
    /\ excused \in BOOLEAN

Blank == [m \in Responses |-> "absent"]

Init ==
    /\ row = Blank /\ task = [m \in Responses |-> "none"]
    /\ asker \in {[m \in Responses |-> t] : t \in Tabs}
    /\ phase = [t \in Tabs |-> "closed"] /\ view = [t \in Tabs |-> Blank]
    /\ done = [t \in Tabs |-> {}] /\ taskIds = [t \in Tabs |-> {}]
    /\ events = [t \in Tabs |-> <<>>] /\ linked = [t \in Tabs |-> TRUE]
    /\ finishing = [t \in Tabs |-> {}] /\ saves = <<>>
    /\ round = 0 /\ saved = 0 /\ opened = 0 /\ excused = FALSE

-----------------------------------------------------------------------------
(* What a tab shows *)

Present(copy) == {m \in Responses : copy[m] # "absent"}

\* The round displayed in t: the last one its history has
Displayed(t) ==
    LET rounds == {i \in 1 .. Len(Rounds) : Rounds[i] \cap Present(view[t]) # {}}
    IN  IF rounds = {} THEN {}
        ELSE Rounds[CHOOSE i \in rounds : \A j \in rounds : j =< i] \cap Present(view[t])

Showing(t) == phase[t] \in {"tasks", "open"}

Prompted == UNION {Rounds[i] : i \in 1 .. round}

\* t knows nothing of m, which another tab asked for, or it has not got the end of m and
\* will not be told
Behind(t, m) ==
    \/ m \in Prompted /\ view[t][m] = "absent"
    \/ /\ task[m] = "ended" /\ view[t][m] # "full"
       /\ \A i \in DOMAIN events[t] : events[t][i] # [what |-> "done", id |-> m]

\* A save of t's history. It is excused when t is behind, or cannot hear of an end.
Saving(t, copy, start, completed) ==
    /\ saves' = Append(saves, [tab |-> t, copy |-> copy, start |-> start, completed |-> completed])
    /\ excused' = (excused \/ ~linked[t] \/ \E m \in Responses : Behind(t, m))

\* The row lacks an end it once had, or may soon
Needed(t) == (\E i \in DOMAIN saves : saves[i].tab = t) \/ (\E m \in Responses : task[m] = "ended" /\ row[m] # "full")

-----------------------------------------------------------------------------
(* Tabs *)

\* navigateHandler and loadChat: chatId is set at once, the history when the answers are there
Open(t) ==
    /\ phase[t] = "closed" /\ opened < MaxOpens /\ opened' = opened + 1
    /\ phase' = [phase EXCEPT ![t] = "asking"]
    /\ UNCHANGED <<server, view, done, taskIds, events, linked, finishing, saves, round, saved, excused>>

\* getChatById is answered; the tags are asked for next
ChatAnswered(t) ==
    /\ phase[t] = "asking" /\ phase' = [phase EXCEPT ![t] = "tags"]
    /\ view' = [view EXCEPT ![t] = row]
    /\ UNCHANGED <<server, done, taskIds, events, linked, finishing, saves, round, saved, opened, excused>>

\* Mutant: what the tasks are is kept, not their ids
TasksAnsweredStates(t) ==
    /\ phase[t] = "tasks" /\ phase' = [phase EXCEPT ![t] = "open"]
    /\ taskIds' = [taskIds EXCEPT ![t] = {task[m] : m \in Responses}]
    /\ UNCHANGED <<server, view, done, events, linked, finishing, saves, round, saved, opened, excused>>

\* Mutant: the answers are asked for before the chat is saved
SubmitPromptAtOnce(t) ==
    /\ phase[t] = "open" /\ round < Len(Rounds)
    /\ Displayed(t) \subseteq done[t]
    /\ round' = round + 1
    /\ view' = [view EXCEPT ![t] = [m \in Responses |-> IF m \in Rounds[round + 1] THEN "empty" ELSE view[t][m]]]
    /\ Saving(t, view'[t], {}, FALSE)
    /\ task' = [m \in Responses |-> IF m \in Rounds[round + 1] THEN "asked" ELSE task[m]]
    /\ asker' = [m \in Responses |-> IF m \in Rounds[round + 1] THEN t ELSE asker[m]]
    /\ UNCHANGED <<row, phase, done, taskIds, events, linked, finishing, saved, opened>>

\* Mutant: chatCompletedHandler does not save
ChatCompletedUnsaved(t, m) ==
    /\ m \in finishing[t] /\ finishing' = [finishing EXCEPT ![t] = @ \ {m}]
    /\ taskIds' = [taskIds EXCEPT ![t] = {}]
    /\ UNCHANGED <<server, phase, view, done, events, linked, saves, round, saved, opened, excused>>

\* The tags are there: the answer becomes the history, every response is marked done, one
\* that is still being written included; then the tasks are asked for
HistorySet(t) ==
    /\ phase[t] = "tags" /\ phase' = [phase EXCEPT ![t] = "tasks"]
    /\ done' = [done EXCEPT ![t] = Present(view[t])]
    /\ UNCHANGED <<server, view, taskIds, events, linked, finishing, saves, round, saved, opened, excused>>

TasksAnswered(t) ==
    /\ phase[t] = "tasks" /\ phase' = [phase EXCEPT ![t] = "open"]
    /\ taskIds' = [taskIds EXCEPT ![t] = {m \in Responses : task[m] \in {"running", "writing", "halted", "stopped"}}]
    /\ UNCHANGED <<server, view, done, events, linked, finishing, saves, round, saved, opened, excused>>

\* The page is closed or reloaded: saves under way still arrive, what was to follow them does
\* not. Excused when the row waits for a save of the tab, or will be overwritten by one.
Close(t) ==
    /\ phase[t] # "closed" /\ phase' = [phase EXCEPT ![t] = "closed"]
    /\ view' = [view EXCEPT ![t] = Blank] /\ done' = [done EXCEPT ![t] = {}]
    /\ taskIds' = [taskIds EXCEPT ![t] = {}] /\ finishing' = [finishing EXCEPT ![t] = {}]
    /\ saves' = [i \in DOMAIN saves |->
                   IF saves[i].tab = t THEN [saves[i] EXCEPT !.start = {}, !.completed = FALSE] ELSE saves[i]]
    /\ events' = [events EXCEPT ![t] = <<>>]
    /\ excused' = (excused \/ Needed(t))
    /\ UNCHANGED <<server, linked, round, saved, opened>>

\* The socket goes down: what is under way to the tab is lost and nothing replays it
Disconnect(t) ==
    /\ linked[t] /\ opened < MaxOpens /\ opened' = opened + 1
    /\ linked' = [linked EXCEPT ![t] = FALSE] /\ events' = [events EXCEPT ![t] = <<>>]
    /\ excused' = (excused \/ Needed(t))
    /\ UNCHANGED <<server, shown, finishing, saves, round, saved>>

Reconnect(t) ==
    /\ ~linked[t] /\ linked' = [linked EXCEPT ![t] = TRUE]
    /\ UNCHANGED <<server, shown, events, finishing, saves, round, saved, opened, excused>>

\* submitPrompt and sendMessage: refused while the displayed response is not done; the empty
\* responses are saved with the chat before anything is asked
SubmitPrompt(t) ==
    /\ phase[t] = "open" /\ round < Len(Rounds)
    /\ Displayed(t) \subseteq done[t]
    /\ round' = round + 1
    /\ view' = [view EXCEPT ![t] = [m \in Responses |-> IF m \in Rounds[round + 1] THEN "empty" ELSE view[t][m]]]
    /\ Saving(t, view'[t], Rounds[round + 1], FALSE)
    /\ UNCHANGED <<server, phase, done, taskIds, events, linked, finishing, saved, opened>>

\* saveChatHandler and updateChat after a rating, an edit or a change of branch
SaveChat(t) ==
    /\ phase[t] = "open" /\ saved < MaxSaves /\ saved' = saved + 1
    /\ Saving(t, view[t], {}, FALSE)
    /\ UNCHANGED <<server, shown, events, linked, finishing, round, opened>>

\* stopResponse: nothing without task ids; the siblings of what is displayed are marked done.
\* The stopTask calls are taken as answered at once.
StopResponse(t) ==
    /\ phase[t] = "open" /\ taskIds[t] # {}
    /\ task' = [m \in Responses |-> IF m \notin taskIds[t] THEN task[m]
                                    ELSE IF task[m] = "running" THEN "halted"
                                    ELSE IF task[m] = "writing" THEN "stopped" ELSE task[m]]
    /\ taskIds' = [taskIds EXCEPT ![t] = {}]
    /\ done' = [done EXCEPT ![t] = @ \cup Displayed(t)]
    /\ UNCHANGED <<row, asker, phase, view, events, linked, finishing, saves, round, saved, opened, excused>>

\* chatEventHandler: an event for a message the history does not have is dropped
Event(t) ==
    /\ events[t] # <<>>
    /\ events' = [events EXCEPT ![t] = Tail(@)]
    /\ LET e == Head(events[t]) IN
       IF ~Showing(t) \/ e.id \notin Present(view[t])
       THEN UNCHANGED <<shown, finishing>>
       ELSE \/ /\ e.what = "part"
               /\ view' = [view EXCEPT ![t][e.id] = "part"]
               /\ UNCHANGED <<phase, done, taskIds, finishing>>
            \/ /\ e.what = "done"
               /\ view' = [view EXCEPT ![t][e.id] = "full"] /\ done' = [done EXCEPT ![t] = @ \cup {e.id}]
               /\ finishing' = [finishing EXCEPT ![t] = @ \cup {e.id}]
               /\ UNCHANGED <<phase, taskIds>>
            \/ /\ e.what = "cancel"
               /\ taskIds' = [taskIds EXCEPT ![t] = {}] /\ done' = [done EXCEPT ![t] = @ \cup Displayed(t)]
               /\ UNCHANGED <<phase, view, finishing>>
    /\ UNCHANGED <<server, linked, saves, round, saved, opened, excused>>

\* chatCompletedHandler: /chat/completed is answered, the chat is saved
ChatCompleted(t, m) ==
    /\ m \in finishing[t] /\ finishing' = [finishing EXCEPT ![t] = @ \ {m}]
    /\ Saving(t, view[t], {}, TRUE)
    /\ UNCHANGED <<server, shown, events, linked, round, saved, opened>>

-----------------------------------------------------------------------------
(* The server *)

Send(what, m) == events' = [t \in Tabs |-> IF linked[t] /\ phase[t] # "closed" THEN Append(events[t], [what |-> what, id |-> m]) ELSE events[t]]

\* update_chat_by_id serves a save, not always the oldest: its history replaces the stored
\* one. Its tab goes on: asks for the answers, or forgets its tasks (chatCompletedHandler).
Serve(i) ==
    LET s == saves[i] IN
    /\ saves' = RemoveAt(saves, i)
    /\ row' = s.copy
    /\ task' = [m \in Responses |-> IF m \in s.start THEN "asked" ELSE task[m]]
    /\ asker' = [m \in Responses |-> IF m \in s.start THEN s.tab ELSE asker[m]]
    /\ taskIds' = IF s.completed THEN [taskIds EXCEPT ![s.tab] = {}] ELSE taskIds
    /\ excused' = (excused \/ i > 1)
    /\ UNCHANGED <<phase, view, done, events, linked, finishing, round, saved, opened>>

\* create_task; the tab that asked gets the task's id, if it is still there
Begin(m) ==
    /\ task[m] = "asked" /\ task' = [task EXCEPT ![m] = "running"]
    /\ taskIds' = IF phase[asker[m]] = "open" THEN [taskIds EXCEPT ![asker[m]] = @ \cup {m}] ELSE taskIds
    /\ UNCHANGED <<row, asker, phase, view, done, events, linked, finishing, saves, round, saved, opened, excused>>

\* upsert_message_to_chat_by_id_and_message_id: a message that a save took out comes back as a stub
Upsert(m, content) == [row EXCEPT ![m] = IF @ \in {"absent", "stub"} THEN "stub" ELSE content]

\* process_chat has the model's response: the model's name is put into the row
Respond(m) ==
    /\ task[m] = "running" /\ task' = [task EXCEPT ![m] = "writing"]
    /\ row' = Upsert(m, row[m])
    /\ UNCHANGED <<asker, shown, events, linked, finishing, saves, round, saved, opened, excused>>

\* A piece of it, when the last one has arrived
Stream(m) ==
    /\ task[m] = "writing"
    /\ \A t \in Tabs : \A i \in DOMAIN events[t] : events[t][i].id # m
    /\ Send("part", m)
    /\ UNCHANGED <<server, shown, linked, finishing, saves, round, saved, opened, excused>>

\* The answer is complete: it is put into the row, then announced
Finish(m) ==
    /\ task[m] = "writing" /\ task' = [task EXCEPT ![m] = "ended"]
    /\ row' = Upsert(m, "full")
    /\ Send("done", m)
    /\ UNCHANGED <<asker, shown, linked, finishing, saves, round, saved, opened, excused>>

\* The task is cancelled: that is announced, then what there is is put into the row
Cancel(m) ==
    /\ task[m] \in {"halted", "stopped"} /\ task' = [task EXCEPT ![m] = "cancelled"]
    /\ row' = IF task[m] = "stopped" THEN Upsert(m, "part") ELSE row
    /\ Send("cancel", m)
    /\ UNCHANGED <<asker, shown, linked, finishing, saves, round, saved, opened, excused>>

-----------------------------------------------------------------------------
Next ==
    \/ \E t \in Tabs : \/ Open(t) \/ ChatAnswered(t) \/ HistorySet(t) \/ TasksAnswered(t) \/ Close(t)
                       \/ Disconnect(t) \/ Reconnect(t) \/ SubmitPrompt(t) \/ SaveChat(t) \/ StopResponse(t)
                       \/ Event(t) \/ \E m \in Responses : ChatCompleted(t, m)
    \/ \E i \in DOMAIN saves : Serve(i)
    \/ \E m \in Responses : Begin(m) \/ Respond(m) \/ Stream(m) \/ Finish(m) \/ Cancel(m)

Spec == Init /\ [][Next]_vars

-----------------------------------------------------------------------------
(* Properties *)

AtRest == saves = <<>> /\ \A t \in Tabs : finishing[t] = {} /\ events[t] = <<>>

\* When everything has arrived, every answer that ended is whole in the stored chat, though
\* saves of half an answer raced its end: the save of chatCompletedHandler mends that. The
\* exceptions are the ones `excused` notes: a tab saved without knowing of an answer, saves
\* overtook each other, or the tab went before the mending save.
AnswerKept == AtRest /\ ~excused => \A m \in Responses : task[m] = "ended" => row[m] = "full"

\* No answer is stored outside the tree: a response is in the row, under its prompt, before its
\* task can write it. A stub means that a save that did not know of it was served in between.
NoStubs == ~excused => \A m \in Responses : row[m] # "stub"

\* CHANGELOG.md:1188: "You can now return to an active (ongoing) chat and stop generation at
\* any time." In a tab that shows a response being written, the stop button acts through taskIds. No run lists this formula: TLC
\* refutes it, since the end or the cancellation of one of two answers empties the list.
StopCanReach ==
    \A t \in Tabs : phase[t] = "open" /\ (\E m \in Present(view[t]) : task[m] = "writing") => taskIds[t] # {}
=============================================================================
