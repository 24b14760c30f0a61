--------------------------- MODULE ChatNavigation ---------------------------
(***************************************************************************)
(* One browser tab that moves between chats: the Chat component of the     *)
(* route /c/[id] (Chat.svelte).  What it shows is in its `history`; which  *)
(* chat that is, in the store `chatId`.  The two are set at different      *)
(* times: a handler that waits for a request goes on with whatever both    *)
(* are by then, and no handler is told that the user has moved on.         *)
(*                                                                         *)
(* Of a history only the chat it belongs to is kept, of a stored chat the  *)
(* history in it.  A request is served and answered in one step, requests  *)
(* in any order.  The store and the URL change together.  Left out: the    *)
(* route / (a new component, whose predecessor's handlers go on), the      *)
(* links to the chat the route has already, temporary chats.               *)
(***************************************************************************)
EXTENDS Integers, FiniteSets

CONSTANTS Chats,     \* ids of stored chats, and of chats still to be made
          Stored,    \* those stored at the start
          None,      \* '' for an id; the empty history
          Slots,     \* requests that may be under way at once
          MaxMoves   \* bound: clicks on another chat or on New Chat

ASSUME ChatsAssumption == Stored \subseteq Chats /\ None \notin Chats
ASSUME MovesAssumption == MaxMoves \in Nat

VARIABLES chatIdProp, \* of the route
          chatId,     \* the store
          history,    \* whose history is shown
          chat,       \* the last chat an answer brought: the history in it
          loading,    \* the spinner: nothing can be typed or clicked in the chat
          calls,      \* requests under way, by slot
          stored, row,\* chats there are, the history in each
          running,    \* answers being written: the chat of the prompt, the chat_id asked with
          left,       \* the chat that could not be loaded: the tab is sent to /
          moves,
          hasty       \* history: the user moved on during a request where that does harm

vars == <<chatIdProp, chatId, history, chat, loading, calls, stored, row, running, left, moves, hasty>>
user == <<moves, hasty>>
disk == <<stored, row>>

Owners == Chats \cup {None}

\* Requests: of loadChat (chat, tags, tasks), saveChatHandler (save), updateChat (update),
\* initChatHandler (create), chatCompletedHandler (completed), chat:tags (refresh). `id` is the
\* chat it is about, `content` the history it sends, `asks` the chat to ask an answer for after it.
Kinds == {"free", "chat", "tags", "tasks", "save", "update", "create", "completed", "refresh"}
Call(kind, id, content, asks) == [kind |-> kind, id |-> id, content |-> content, asks |-> asks]
Free == Call("free", None, None, None)

TypeOK ==
    /\ chatIdProp \in Owners /\ chatId \in Owners /\ history \in Owners /\ chat \in Owners
    /\ loading \in BOOLEAN /\ hasty \in BOOLEAN /\ left \in Owners /\ moves \in 0 .. MaxMoves
    /\ calls \in [Slots -> [kind : Kinds, id : Owners, content : Owners, asks : Owners]]
    /\ stored \subseteq Chats /\ row \in [Chats -> Owners]
    /\ running \subseteq [prompt : Chats, chatId : Owners]

\* The page of a stored chat is opened
Init ==
    /\ chatIdProp \in Stored /\ chatId = chatIdProp /\ history = None /\ chat = None
    /\ loading = TRUE
    /\ \E s \in Slots : calls = [x \in Slots |-> IF x = s THEN Call("chat", chatId, None, None) ELSE Free]
    /\ stored = Stored /\ row = [c \in Chats |-> IF c \in Stored THEN c ELSE None]
    /\ running = {} /\ left = None /\ moves = 0 /\ hasty = FALSE

Begin(s, call)  == calls[s] = Free /\ calls' = [calls EXCEPT ![s] = call]
Follow(s, call) == calls' = [calls EXCEPT ![s] = call]
End(s)          == Follow(s, Free)
Asking(s)       == calls[s].asks # None
Pending(kinds)  == {s \in Slots : calls[s].kind \in kinds}

Loads == {"chat", "tags", "tasks"}

-----------------------------------------------------------------------------
(* The user *)

\* Mutant: the store is left to the answer
MoveLater(c, s) ==
    /\ c \in stored /\ c # chatIdProp /\ moves < MaxMoves /\ moves' = moves + 1
    /\ chatIdProp' = c /\ loading' = TRUE
    /\ Begin(s, Call("chat", c, None, None))
    /\ hasty' = (hasty \/ Pending(Loads \cup {"create", "save", "refresh"}) # {})
    /\ UNCHANGED <<chatId, history, chat, disk, running, left>>

\* navigateHandler and loadChat, when the route has another chat
Move(c, s) ==
    /\ c \in stored /\ c # chatIdProp /\ moves < MaxMoves /\ moves' = moves + 1
    /\ chatIdProp' = c /\ chatId' = c /\ loading' = TRUE
    /\ Begin(s, Call("chat", c, None, None))
    /\ hasty' = (hasty \/ Pending(Loads \cup {"create", "save", "refresh"}) # {})
    /\ UNCHANGED <<history, chat, disk, running, left>>

\* initNewChat, from the bar above the chat
InitNewChat ==
    /\ ~loading /\ moves < MaxMoves /\ moves' = moves + 1
    /\ chatId' = None /\ history' = None
    /\ hasty' = (hasty \/ \E s \in Slots : Asking(s))
    /\ UNCHANGED <<chatIdProp, chat, loading, calls, disk, running, left>>

\* submitPrompt and sendMessage below the messages that are there: the chat is saved first
SubmitPrompt(s) ==
    /\ ~loading /\ history # None /\ chatId # None
    /\ Begin(s, Call("save", chatId, history, history))
    /\ UNCHANGED <<chatIdProp, chatId, history, chat, loading, disk, running, left, user>>

\* In an empty history: the chat is created first
SubmitFirst(c, s) ==
    /\ ~loading /\ history = None
    /\ c \in Chats \ stored /\ \A x \in Slots : calls[x].id # c
    /\ history' = c
    /\ Begin(s, Call("create", c, c, c))
    /\ UNCHANGED <<chatIdProp, chatId, chat, loading, disk, running, left, user>>

\* showMessage (saveChatHandler) and the updateChat of Messages.svelte
SaveChat(kind, s) ==
    /\ ~loading /\ history # None /\ chatId # None
    /\ Begin(s, Call(kind, chatId, history, None))
    /\ UNCHANGED <<chatIdProp, chatId, history, chat, loading, disk, running, left, user>>

-----------------------------------------------------------------------------
(* Answers *)

ChatAnswered(s) ==
    /\ calls[s].kind = "chat"
    /\ chat' = row[calls[s].id]
    /\ Follow(s, Call("tags", calls[s].id, None, None))
    /\ UNCHANGED <<chatIdProp, chatId, history, loading, disk, running, left, user>>

\* The chat cannot be had: goto('/'), wherever the user is by now
LoadFails(s) ==
    /\ calls[s].kind = "chat"
    /\ left' = calls[s].id
    /\ UNCHANGED <<chatIdProp, chatId, history, chat, loading, calls, disk, running, user>>

\* Mutant: the chat is taken for its history
TagsAnsweredWhole(s) ==
    /\ calls[s].kind = "tags"
    /\ history' = Call("chat", calls[s].id, chat, None)
    /\ Follow(s, Call("tasks", calls[s].id, None, None))
    /\ UNCHANGED <<chatIdProp, chatId, chat, loading, disk, running, left, user>>

\* The history of `chat`, whatever answer brought that last
TagsAnswered(s) ==
    /\ calls[s].kind = "tags"
    /\ history' = chat
    /\ Follow(s, Call("tasks", calls[s].id, None, None))
    /\ UNCHANGED <<chatIdProp, chatId, chat, loading, disk, running, left, user>>

\* The settings and the tasks are there: the spinner goes, whoever else is loading
TasksAnswered(s) ==
    /\ calls[s].kind = "tasks"
    /\ loading' = FALSE
    /\ End(s)
    /\ UNCHANGED <<chatIdProp, chatId, history, chat, disk, running, left, user>>

\* updateChatById is answered; sendMessageSocket asks with the store's id
Saved(s) ==
    /\ calls[s].kind \in {"save", "update"}
    /\ row' = [row EXCEPT ![calls[s].id] = calls[s].content]
    /\ chat' = IF calls[s].kind = "save" THEN calls[s].content ELSE chat
    /\ running' = IF Asking(s) THEN running \cup {[prompt |-> calls[s].asks, chatId |-> chatId]} ELSE running
    /\ End(s)
    /\ UNCHANGED <<chatIdProp, chatId, history, loading, stored, left, user>>

\* Mutant: the store is not set
CreatedQuietly(s) ==
    /\ calls[s].kind = "create"
    /\ stored' = stored \cup {calls[s].id} /\ row' = [row EXCEPT ![calls[s].id] = calls[s].content]
    /\ chat' = calls[s].content
    /\ Follow(s, Call("save", calls[s].id, history, calls[s].asks))
    /\ UNCHANGED <<chatIdProp, chatId, history, loading, running, left, user>>

\* initChatHandler: the store and the URL are the new chat's, wherever the user is by now;
\* sendMessage goes on and saves the history there is by now
Created(s) ==
    /\ calls[s].kind = "create"
    /\ stored' = stored \cup {calls[s].id} /\ row' = [row EXCEPT ![calls[s].id] = calls[s].content]
    /\ chatId' = calls[s].id /\ chat' = calls[s].content
    /\ Follow(s, Call("save", calls[s].id, history, calls[s].asks))
    /\ UNCHANGED <<chatIdProp, history, loading, running, left, user>>

\* A request fails: what was to follow it does not
CallFails(s) ==
    /\ calls[s].kind \in {"save", "update", "create", "refresh"}
    /\ End(s)
    /\ UNCHANGED <<chatIdProp, chatId, history, chat, loading, disk, running, left, user>>

\* The end of an answer arrives: an event for another chat than the store's, or for a message
\* that is not in the history, is dropped
Ended(a, s) ==
    /\ a \in running /\ running' = running \ {a}
    /\ IF a.chatId = chatId /\ a.prompt = history
       THEN Begin(s, Call("completed", chatId, None, None))
       ELSE UNCHANGED calls
    /\ UNCHANGED <<chatIdProp, chatId, history, chat, loading, disk, left, user>>

\* Mutant: the chat is saved wherever the user is
CompletedAnyway(s, ok) ==
    /\ calls[s].kind = "completed"
    /\ IF ok => history = calls[s].id
       THEN Follow(s, Call("save", calls[s].id, history, None))
       ELSE End(s)
    /\ hasty' = (hasty \/ (~ok /\ chatId = calls[s].id /\ history # chatId))
    /\ UNCHANGED <<chatIdProp, chatId, history, chat, loading, disk, running, left, moves>>

\* /chat/completed is answered with its messages, or fails. One of them that is not in the
\* history is a TypeError; otherwise the chat is saved if the store still has it.
Completed(s, ok) ==
    /\ calls[s].kind = "completed"
    /\ IF chatId = calls[s].id /\ (ok => history = chatId)
       THEN Follow(s, Call("save", calls[s].id, history, None))
       ELSE End(s)
    /\ hasty' = (hasty \/ (~ok /\ chatId = calls[s].id /\ history # chatId))
    /\ UNCHANGED <<chatIdProp, chatId, history, chat, loading, disk, running, left, moves>>

\* The event chat:tags: the chat is asked for again, the answer replaces `chat`
Tagged(s) ==
    /\ chatId # None /\ history = chatId /\ chatId \in stored
    /\ Begin(s, Call("refresh", chatId, None, None))
    /\ UNCHANGED <<chatIdProp, chatId, history, chat, loading, disk, running, left, user>>

Refreshed(s) ==
    /\ calls[s].kind = "refresh"
    /\ chat' = row[calls[s].id]
    /\ End(s)
    /\ UNCHANGED <<chatIdProp, chatId, history, loading, disk, running, left, user>>

-----------------------------------------------------------------------------
Users(s) ==
    \/ \E c \in Chats : Move(c, s) \/ SubmitFirst(c, s)
    \/ SubmitPrompt(s) \/ \E kind \in {"save", "update"} : SaveChat(kind, s)
Answers(s) ==
    \/ ChatAnswered(s) \/ LoadFails(s) \/ TagsAnswered(s) \/ TasksAnswered(s)
    \/ Saved(s) \/ Created(s) \/ CallFails(s) \/ Refreshed(s)
    \/ \E ok \in BOOLEAN : Completed(s, ok)
Events(s) == Tagged(s) \/ \E a \in running : Ended(a, s)

Next == left = None /\ (InitNewChat \/ \E s \in Slots : Users(s) \/ Answers(s) \/ Events(s))

Spec == Init /\ [][Next]_vars

-----------------------------------------------------------------------------
(* Properties. `hasty` names when moving on does harm: to another chat during a load, a save,
   a creation or a refresh; to a new chat between a prompt and its request; or away and back
   while a /chat/completed call is under way that fails. *)

\* No handler that goes on late writes one chat's history into another's row.
RowsKeepOwn == ~hasty => \A c \in stored : row[c] = c

\* An answer is written into the chat its prompt was submitted in.
AnswersGoHome == ~hasty => \A a \in running : a.chatId = a.prompt

\* What is shown, and what saves and prompts go to, are the same chat once the spinner is gone
\* (or nothing, for one that is not created); the tab is sent away only from the chat that failed.
ViewAgrees ==
    ~hasty => /\ ~loading => history = chatId \/ (history \notin stored /\ chatId = None)
              /\ left # None => left = chatId
=============================================================================
