---------------------------- MODULE MessageTree ----------------------------
(***************************************************************************)
(* The message tree of an open chat in one browser tab: the variable       *)
(* `history` of Chat.svelte, `{messages, currentId}`, which every handler  *)
(* of the chat view, every socket event and every late answer of a request *)
(* edits in place.  Each message names its parent and its children; the    *)
(* displayed branch is the path from currentId to a root.                  *)
(*                                                                         *)
(* The handlers run on one thread and give way only at an await of a       *)
(* request: `await tick()` is a microtask, no event or answer comes in     *)
(* between.  An action is therefore the code between two such awaits.      *)
(* What a handler keeps over an await is in `pending`: a copy of a message *)
(* or the object itself, which it writes back when its answer comes.       *)
(*                                                                         *)
(* Message ids are drawn in the order of creation.  0 stands for `null`.   *)
(* The order of childrenIds is left out: where the code takes the last or  *)
(* the n-th child, any child may be taken.  Contents, files, scrolling and *)
(* the saving of the chat are left out, and so are the writes that put the *)
(* same object back (mergeResponses, the events of the title and the tags).*)
(***************************************************************************)
EXTENDS Integers, FiniteSets

CONSTANTS MaxId,       \* bound: messages ever made in the chat
          MaxModels,   \* models a prompt may be sent to at once
          MaxAsked,    \* bound: requests and tasks under way at once
          MaxHeld      \* bound: copies held at once for a rating or an image

ASSUME BoundsAssumption == MaxId \in Nat /\ MaxModels \in Nat /\ MaxAsked \in Nat /\ MaxHeld \in Nat

VARIABLES made,         \* ids handed out so far
          messages,     \* the keys of history.messages
          parentId, childrenIds, role,
          status,       \* `done` and `error`: open, done or failed (done, an error, no content)
          currentId,
          creating,     \* responses that wait for the chat to be created
          pending,      \* messages held over an await
          running       \* responses whose task runs on the server, stopped or not

links == <<messages, parentId, childrenIds, role>>
tree  == <<made, links>>
vars  == <<tree, status, currentId, creating, pending, running>>

Ids == 1 .. MaxId
Statuses == {"open", "done", "failed"}

\* A response kept over an await, with the status it will be written back with. `live`: it is
\* the object in history, whose links are not repeated here; otherwise a copy, or an object
\* that is no longer in history, with the links of its day.
Held == [id : Ids, request : BOOLEAN, live : BOOLEAN,
         parentId : 0 .. MaxId, childrenIds : SUBSET Ids, status : Statuses]

CopyOf(m, request, par, kids) ==
    [id |-> m, request |-> request, live |-> FALSE, parentId |-> par, childrenIds |-> kids,
     status |-> IF request THEN "failed" ELSE "done"]
Object(m) ==
    [id |-> m, request |-> TRUE, live |-> TRUE, parentId |-> 0, childrenIds |-> {}, status |-> "done"]

\* When the objects of `gone` leave history those who hold them keep them as they were
Kept(h, gone) ==
    IF h.live /\ h.id \in gone
    THEN [h EXCEPT !.live = FALSE, !.parentId = parentId[h.id], !.childrenIds = childrenIds[h.id]] ELSE h
Detached(held, gone) == {Kept(h, gone) : h \in held}

Requests == {h \in pending : h.request}
Holds    == pending \ Requests
MayAsk(n) == Cardinality(Requests) + Cardinality(creating) + Cardinality(running) + n =< MaxAsked

TypeOK ==
    /\ made \in 0 .. MaxId
    /\ messages \subseteq 1 .. made
    /\ parentId \in [Ids -> 0 .. MaxId]
    /\ childrenIds \in [Ids -> SUBSET Ids]
    /\ role \in [Ids -> {"user", "assistant"}]
    /\ status \in [Ids -> Statuses]
    /\ currentId \in 0 .. made
    /\ creating \subseteq 1 .. made
    /\ pending \subseteq Held /\ \A h \in pending : h.id =< made
    /\ running \subseteq 1 .. made

Init ==
    /\ made = 0 /\ messages = {} /\ currentId = 0
    /\ parentId = [m \in Ids |-> 0] /\ childrenIds = [m \in Ids |-> {}]
    /\ role = [m \in Ids |-> "user"] /\ status = [m \in Ids |-> "open"]
    /\ creating = {} /\ pending = {} /\ running = {}

-----------------------------------------------------------------------------
(* Reading the tree *)

Roots(msgs, par) == {m \in msgs : par[m] = 0}

\* m and what its childrenIds lead to, named in history or not
Below(m, msgs, kids) ==
    LET below[x \in Ids] == {x} \cup IF x \in msgs THEN UNION {below[k] : k \in kids[x]} ELSE {}
    IN  below[m]

\* Where the loop "take the last child while there is one" may end, and whether
\* it may meet a child that is not in history, a TypeError.
Landings(m, msgs, kids) == {x \in Below(m, msgs, kids) \cap msgs : kids[x] = {}}
Breaks(m, msgs, kids)   == \E x \in Below(m, msgs, kids) \cap msgs : ~(kids[x] \subseteq msgs)

\* The new currentId when the code drills down from m; cur is left when it breaks.
Drill(m, msgs, kids, cur) ==
    Landings(m, msgs, kids) \cup IF Breaks(m, msgs, kids) THEN {cur} ELSE {}

Siblings(m) == IF parentId[m] = 0 THEN Roots(messages, parentId)
               ELSE IF parentId[m] \in messages THEN childrenIds[parentId[m]] ELSE {}

\* The path from currentId to its root
Branch ==
    LET up[m \in 0 .. MaxId] == IF m \in messages THEN {m} \cup up[parentId[m]] ELSE {}
    IN  up[currentId]

\* What is on the screen: the branch, and beside a response those of the other models
Shown == {m \in messages :
    m \in Branch \/ (role[m] = "assistant" /\ \E b \in Branch : role[b] = "assistant" /\ m \in Siblings(b))}

\* Responses on the screen that are done, where most buttons are
ShownDone == {m \in Shown : role[m] = "assistant" /\ status[m] # "open"}

-----------------------------------------------------------------------------
(* Making messages *)

\* c with `new` appended to the children of p, if p is in history
Appended(c, p, new) == IF p \in messages THEN [c EXCEPT ![p] = @ \cup new] ELSE c

\* The loop of sendMessage: one response below `user` for each of the n models that are found;
\* user, par and kids already include the user's message. Unless the chat is still to be
\* created the copy of the history is taken at once and the requests go out with it.
SendMessage(user, last, par, kids, n, newChat) ==
    LET responses == (last + 1) .. (last + n)
    IN  /\ last + n =< MaxId /\ MayAsk(n)
        /\ made' = last + n
        /\ messages' = messages \cup {user} \cup responses
        /\ parentId' = [m \in Ids |-> IF m \in responses THEN user ELSE par[m]]
        /\ childrenIds' = [kids EXCEPT ![user] = @ \cup responses]
        /\ role' = [m \in Ids |-> IF m \in responses THEN "assistant" ELSE IF m > made THEN "user" ELSE role[m]]
        /\ currentId' = IF n > 0 THEN last + n ELSE IF user > made THEN user ELSE currentId
        /\ creating' = IF newChat THEN creating \cup responses ELSE creating
        /\ pending' = IF newChat THEN pending ELSE pending \cup {CopyOf(r, TRUE, user, {}) : r \in responses}
        /\ UNCHANGED <<status, running>>

\* A user message below p (0: a new root), then sendMessage
Prompt(p, n, newChat) ==
    LET user == made + 1
    IN  /\ user =< MaxId
        /\ SendMessage(user, user, [parentId EXCEPT ![user] = p], Appended(childrenIds, p, {user}), n, newChat)

\* submitPrompt: refused while the displayed message is not done, or failed without an answer
SubmitPrompt(n) ==
    /\ currentId # 0 => currentId \in messages /\ status[currentId] = "done"
    /\ Prompt(currentId, n, currentId = 0)

\* submitMessage: a follow-up suggested below a response is clicked
SubmitMessage(p, n) == p \in ShownDone /\ Prompt(p, n, FALSE)

\* editMessage, "Send": a second version of the user's message m beside it. Where m has a
\* parent that is not in history the append is a TypeError.
EditPrompt(m, n) ==
    /\ m \in Shown /\ role[m] = "user"
    /\ parentId[m] # 0 => parentId[m] \in messages
    /\ Prompt(parentId[m], n, FALSE)

\* regenerateResponse: more responses below the user message of m
RegenerateResponse(m, n) ==
    /\ m \in ShownDone /\ parentId[m] \in messages
    /\ SendMessage(parentId[m], made, parentId, childrenIds, n, FALSE)

\* A finished message x below p and its child y, or x alone (y = 0): createMessagePair,
\* addMessages and the "Save As Copy" of editMessage, which sends nothing
Insert(p, x, xRole, y, yRole) ==
    LET new == {x, y} \ {0}
    IN  /\ new \subseteq Ids
        /\ made' = made + Cardinality(new)
        /\ messages' = messages \cup new
        /\ parentId' = [m \in Ids |-> IF m = x THEN p ELSE IF m = y THEN x ELSE parentId[m]]
        /\ childrenIds' = [Appended(childrenIds, p, {x}) EXCEPT ![x] = {y} \ {0}]
        /\ role' = [m \in Ids |-> IF m = x THEN xRole ELSE IF m = y THEN yRole ELSE role[m]]
        /\ status' = [m \in Ids |-> IF m \in new /\ role'[m] = "assistant" THEN "done" ELSE status[m]]
        /\ currentId' = IF y = 0 THEN x ELSE y
        /\ UNCHANGED <<creating, pending, running>>

\* createMessagePair takes the displayed message whatever it is, done or not; a new root
\* when it is not in history
CreateMessagePair ==
    Insert(IF currentId \in messages THEN currentId ELSE 0, made + 1, "user", made + 2, "assistant")

AddMessages(m) == m \in ShownDone /\ Insert(m, made + 1, "user", made + 2, "assistant")

SaveAsCopy(m) ==
    /\ m \in ShownDone
    /\ Insert(parentId[m], made + 1, "assistant", 0, "user")

\* continueResponse: the same object is asked for more; nothing is sent if its model is gone
ContinueResponse(found) ==
    /\ currentId \in ShownDone /\ MayAsk(1)
    /\ status' = [status EXCEPT ![currentId] = "open"]
    /\ pending' = IF found THEN pending \cup {Object(currentId)} ELSE pending
    /\ UNCHANGED <<tree, currentId, creating, running>>

-----------------------------------------------------------------------------
(* Moving about and deleting *)

\* Chat.showMessage from the overview (any message), the arrows and the index field beside
\* siblings, a click on another model's response: drill down from m
ShowMessage(m) ==
    /\ m \in messages
    /\ currentId' \in Drill(m, messages, childrenIds, currentId)
    /\ UNCHANGED <<tree, status, creating, pending, running>>

\* The buttons: a response must be done and have siblings; a user message must not be the
\* first one on the screen, or have siblings
MayDelete(m) ==
    /\ m \in Shown
    /\ role[m] = "assistant" => m \in ShownDone /\ Cardinality(Siblings(m)) > 1
    /\ role[m] = "user" => parentId[m] \in messages \/ Cardinality(Siblings(m)) > 1

\* Mutants: the grandchildren go under the displayed message; only the parent's list is mended
DeleteMessageUnderShown(m) ==
    LET p    == parentId[m]
        gone == {m} \cup childrenIds[m]
        grandchildren == UNION {childrenIds[k] : k \in childrenIds[m] \cap messages}
    IN  /\ MayDelete(m)
        /\ messages' = messages \ gone
        /\ childrenIds' = [x \in Ids |-> IF x \in gone THEN {}
                                         ELSE IF x = p /\ p \in messages THEN (childrenIds[p] \ {m}) \cup grandchildren
                                         ELSE childrenIds[x]]
        /\ parentId' = [x \in Ids |-> IF x \in gone THEN 0
                                      ELSE IF x \in grandchildren \cap messages THEN currentId ELSE parentId[x]]
        /\ role' = [x \in Ids |-> IF x \in gone THEN "user" ELSE role[x]]
        /\ status' = [x \in Ids |-> IF x \in gone THEN "open" ELSE status[x]]
        /\ pending' = Detached(pending, gone)
        /\ currentId' \in
             IF p = 0
             THEN IF Roots(messages', parentId') = {} THEN {0}
                  ELSE UNION {Drill(r, messages', childrenIds', currentId) : r \in Roots(messages', parentId')}
             ELSE IF p \in messages' THEN Drill(p, messages', childrenIds', currentId) ELSE {currentId}
        /\ UNCHANGED <<made, creating, running>>

DeleteMessageOneWay(m) ==
    LET p    == parentId[m]
        gone == {m} \cup childrenIds[m]
        grandchildren == UNION {childrenIds[k] : k \in childrenIds[m] \cap messages}
    IN  /\ MayDelete(m)
        /\ messages' = messages \ gone
        /\ childrenIds' = [x \in Ids |-> IF x \in gone THEN {}
                                         ELSE IF x = p /\ p \in messages THEN (childrenIds[p] \ {m}) \cup grandchildren
                                         ELSE childrenIds[x]]
        /\ parentId' = [x \in Ids |-> IF x \in gone THEN 0 ELSE parentId[x]]
        /\ role' = [x \in Ids |-> IF x \in gone THEN "user" ELSE role[x]]
        /\ status' = [x \in Ids |-> IF x \in gone THEN "open" ELSE status[x]]
        /\ pending' = Detached(pending, gone)
        /\ currentId' \in
             IF p = 0
             THEN IF Roots(messages', parentId') = {} THEN {0}
                  ELSE UNION {Drill(r, messages', childrenIds', currentId) : r \in Roots(messages', parentId')}
             ELSE IF p \in messages' THEN Drill(p, messages', childrenIds', currentId) ELSE {currentId}
        /\ UNCHANGED <<made, creating, running>>

\* deleteMessage takes m and its children out and gives its grandchildren to its parent,
\* then shows the parent, or a root when there is none. (What is not in history has the
\* values of an id not yet made.)
DeleteMessage(m) ==
    LET p    == parentId[m]
        gone == {m} \cup childrenIds[m]
        grandchildren == UNION {childrenIds[k] : k \in childrenIds[m] \cap messages}
    IN  /\ MayDelete(m)
        /\ messages' = messages \ gone
        /\ childrenIds' = [x \in Ids |-> IF x \in gone THEN {}
                                         ELSE IF x = p /\ p \in messages THEN (childrenIds[p] \ {m}) \cup grandchildren
                                         ELSE childrenIds[x]]
        /\ parentId' = [x \in Ids |-> IF x \in gone THEN 0
                                      ELSE IF x \in grandchildren \cap messages THEN p ELSE parentId[x]]
        /\ role' = [x \in Ids |-> IF x \in gone THEN "user" ELSE role[x]]
        /\ status' = [x \in Ids |-> IF x \in gone THEN "open" ELSE status[x]]
        /\ pending' = Detached(pending, gone)
        /\ currentId' \in
             IF p = 0
             THEN IF Roots(messages', parentId') = {} THEN {0}
                  ELSE UNION {Drill(r, messages', childrenIds', currentId) : r \in Roots(messages', parentId')}
             ELSE IF p \in messages' THEN Drill(p, messages', childrenIds', currentId) ELSE {currentId}
        /\ UNCHANGED <<made, creating, running>>

-----------------------------------------------------------------------------
(* Answers of requests *)

\* createNewChat answered: now the history is copied and the requests go out; a response
\* deleted meanwhile has none. It failed: nothing is ever sent.
ChatCreated ==
    /\ creating # {}
    /\ pending' = pending \cup {CopyOf(r, TRUE, parentId[r], childrenIds[r]) : r \in creating \cap messages}
    /\ creating' = {}
    /\ UNCHANGED <<tree, status, currentId, running>>

ChatNotCreated == creating # {} /\ creating' = {} /\ UNCHANGED <<tree, status, currentId, pending, running>>

\* Mutant: the next message is noted
RequestAnsweredNext(h) ==
    /\ h \in Requests
    /\ pending' = pending \ {h}
    /\ running' = running \cup {h.id + 1}
    /\ UNCHANGED <<tree, status, currentId, creating>>

\* The server took the request: its task runs
RequestAnswered(h) ==
    /\ h \in Requests
    /\ pending' = pending \ {h}
    /\ running' = running \cup {h.id}
    /\ UNCHANGED <<tree, status, currentId, creating>>

\* history.messages[id] = the held message, deleted meanwhile or not
WriteBack(h, held) ==
    /\ messages' = messages \cup {h.id}
    /\ role' = [role EXCEPT ![h.id] = "assistant"]
    /\ status' = [status EXCEPT ![h.id] = h.status]
    /\ IF h.live THEN pending' = held /\ UNCHANGED <<parentId, childrenIds>>
       ELSE /\ parentId' = [parentId EXCEPT ![h.id] = h.parentId]
            /\ childrenIds' = [childrenIds EXCEPT ![h.id] = h.childrenIds]
            /\ pending' = Detached(held, {h.id})
    /\ UNCHANGED <<made, creating, running>>

\* The request failed (shown) or the answer names an error: the message is written back with
\* its error. A continued response still has its content.
RequestFails(h, shown) ==
    /\ h \in Requests
    /\ WriteBack(h, pending \ {h})
    /\ currentId' = IF shown THEN h.id ELSE currentId

\* feedbackHandler and generateImage copy a response and wait for the server
HoldCopy(m) ==
    /\ m \in ShownDone /\ Cardinality(Holds) < MaxHeld
    /\ pending' = pending \cup {CopyOf(m, FALSE, parentId[m], childrenIds[m])}
    /\ UNCHANGED <<tree, status, currentId, creating, running>>

\* The rating is saved once for the feedback and once more for its tags (again)
SaveMessage(h, again) ==
    /\ h \in Holds
    /\ WriteBack(h, IF again THEN pending ELSE pending \ {h})
    /\ UNCHANGED currentId

\* The request behind a held message failed: it is forgotten
Forget(h) ==
    /\ h \in Holds
    /\ pending' = pending \ {h}
    /\ UNCHANGED <<tree, status, currentId, creating, running>>

-----------------------------------------------------------------------------
(* Tasks: events from the server, and the stop button *)

\* Mutant: only the displayed message is marked
DisplayedDone ==
    IF currentId \in messages /\ parentId[currentId] \in messages /\ status[currentId] = "open"
    THEN status' = [status EXCEPT ![currentId] = "done"] ELSE status' = status

\* "Set all response messages to done": the siblings of the displayed message, all of
\* them unless one is missing; nothing at a root, where the code meets a TypeError
SiblingsDone ==
    IF currentId \in messages /\ parentId[currentId] \in messages
    THEN LET kids == childrenIds[parentId[currentId]]
         IN  \E marked \in SUBSET (kids \cap messages) :
                /\ kids \subseteq messages => marked = kids
                /\ status' = [m \in Ids |-> IF m \in marked /\ status[m] = "open" THEN "done" ELSE status[m]]
    ELSE status' = status

\* chat:completion with done, or with an error (failed); a message that is no longer in
\* history is ignored
CompletionDone(m, failed) ==
    /\ m \in running
    /\ running' = running \ {m}
    /\ status' = IF m \in messages THEN [status EXCEPT ![m] = IF failed THEN "failed" ELSE "done"] ELSE status
    /\ UNCHANGED <<tree, currentId, creating, pending>>

\* The task was stopped, or died of an error, and says so with chat:tasks:cancel
TasksCancel(m) ==
    /\ m \in running
    /\ running' = running \ {m}
    /\ IF m \in messages THEN SiblingsDone ELSE UNCHANGED status
    /\ UNCHANGED <<tree, currentId, creating, pending>>

\* stopResponse, when the server has answered: the siblings of what is displayed by then
\* are marked. Which tasks it stops is the subject of another module.
StopResponse ==
    /\ SiblingsDone
    /\ UNCHANGED <<tree, currentId, creating, pending, running>>

-----------------------------------------------------------------------------
Sending(n) ==
    \/ SubmitPrompt(n)
    \/ \E m \in messages : SubmitMessage(m, n) \/ EditPrompt(m, n) \/ RegenerateResponse(m, n)
Arranging ==
    \/ CreateMessagePair \/ \E found \in BOOLEAN : ContinueResponse(found)
    \/ \E m \in messages : AddMessages(m) \/ SaveAsCopy(m) \/ ShowMessage(m) \/ DeleteMessage(m) \/ HoldCopy(m)
Answering ==
    \/ ChatCreated \/ ChatNotCreated
    \/ \E h \in pending : RequestAnswered(h) \/ Forget(h)
LateWrite == \E h \in pending, b \in BOOLEAN : RequestFails(h, b) \/ SaveMessage(h, b)
Events ==
    \/ \E m \in Ids, failed \in BOOLEAN : CompletionDone(m, failed)
    \/ \E m \in Ids : TasksCancel(m)
    \/ StopResponse

Next == (\E n \in 0 .. MaxModels : Sending(n)) \/ Arranging \/ Answering \/ LateWrite \/ Events

Spec == Init /\ [][Next]_vars

-----------------------------------------------------------------------------
(* Properties *)

\* Parents are older than their children, in the tree and in every copy a request holds: the
\* loops that climb to the root or drill down to a leaf (showMessage, gotoMessage,
\* createMessagesList) end, whatever was deleted, moved or written back late.
LoopsEnd ==
    /\ \A m \in Ids : parentId[m] < m /\ \A k \in childrenIds[m] : m < k
    /\ \A h \in pending : h.parentId < h.id /\ \A k \in h.childrenIds : h.id < k

\* The two directions of the links agree, nothing points out of the history, and what is
\* displayed is the end of a branch (nothing, in an empty chat)
Tree ==
    /\ \A m \in messages : /\ childrenIds[m] = {k \in messages : parentId[k] = m}
                            /\ parentId[m] \in messages \cup {0}
    /\ IF messages = {} THEN currentId = 0
       ELSE currentId \in messages /\ childrenIds[currentId] = {}

\* A held message that no longer fits: it was deleted, the copy's links are not those of the
\* message any more, or a failing request that displays it finds replies below it
Outdated(h) ==
    \/ h.id \notin messages
    \/ ~h.live /\ (parentId[h.id] # h.parentId \/ childrenIds[h.id] # h.childrenIds)
    \/ h.request /\ childrenIds[h.id] # {}

OutdatedWrite == \E h \in pending, b \in BOOLEAN : Outdated(h) /\ (RequestFails(h, b) \/ SaveMessage(h, b))

\* Every operation keeps the tree a tree: sending, editing, regenerating, deleting, moving
\* about, and every answer and event. The one exception is a message written back over an
\* await when it no longer fits: its replies are cut off, or it is back though deleted.
TreeStep == Tree /\ ~OutdatedWrite => Tree'
TreeKept == [][TreeStep]_vars

\* Responses that something will still finish
Awaited == creating \cup {h.id : h \in Requests} \cup running

\* Open responses nothing will finish any more: no prompt can follow them
Stuck == {m \in messages : role[m] = "assistant" /\ status[m] = "open" /\ m \notin Awaited}

\* m has the parent of the displayed message, and no child of that parent is missing
Beside(m) ==
    /\ currentId \in messages /\ parentId[currentId] \in messages
    /\ m \in childrenIds[parentId[currentId]] /\ childrenIds[parentId[currentId]] \subseteq messages

\* A response gets stuck only when its chat could not be created, when it is continued by a
\* model that is gone, or when its cancellation arrives while another branch is displayed. No
\* other order of answers, events, late writes, deletions and stops does it.
StuckStep ==
    \A m \in Stuck' \ Stuck :
        \/ ChatNotCreated \/ ContinueResponse(FALSE)
        \/ TasksCancel(m) /\ ~Beside(m)
StuckOnlySo == [][StuckStep]_vars
=============================================================================
