-------------------------------- MODULE Ydoc --------------------------------
(***************************************************************************)
(* Collaborative editing of one note: the ydoc handlers and `disconnect'   *)
(* of socket/main.py over the YdocManager of socket/utils.py, with the     *)
(* debounced save of every update.                                         *)
(*                                                                         *)
(* A handler is a sequence of steps.  With Redis, each access is a round   *)
(* trip during which other handlers run, here or on another instance.      *)
(* Without it, everything lives in one process and a handler keeps the     *)
(* event loop until it truly waits: `cpu' names the handler that has it.   *)
(***************************************************************************)
EXTENDS Naturals

CONSTANTS
  Sid,        \* socket sessions
  None,
  Modes,      \* the deployments checked: subset of {TRUE, FALSE}, TRUE with Redis
  MaxUpdate,  \* bound on the updates clients send
  MaxShared,  \* the same bound when there is Redis
  Overlap     \* with Redis: whether sessions come back and their handlers overlap

ASSUME ConstantsAssumption ==
  /\ Modes \subseteq BOOLEAN
  /\ MaxUpdate \in Nat /\ MaxShared \in 0..MaxUpdate
  /\ None \notin Sid
  /\ Overlap \in BOOLEAN

VARIABLES
  redis,      \* the deployment, chosen initially
  session,    \* session[s]: open while s is in SESSION_POOL
  inside,     \* inside[s]: client s asked to join and has not asked to leave
  users,      \* the document's users as YdocManager keeps them
  updates,    \* the document's updates as YdocManager keeps them
  room,       \* the Socket.IO room of the document
  client,     \* client[s]: updates that client s has, since it last joined
  author,     \* author[u]: who sent update u; numbered by arrival
  saves,      \* updates whose debounced_save sleeps
  stops,      \* saves with a stop command under way (Redis only)
  note,       \* the update whose data the note row holds, 0 before any
  pc,         \* pc[h]: next step of handler h
  cpu         \* the handler that has the event loop, or None

docVars    == <<users, updates, room>>
clientVars == <<session, inside, client, author>>
saveVars   == <<saves, stops, note>>
vars == <<redis, docVars, clientVars, saveVars, pc, cpu>>

Update  == 1..MaxUpdate
Handler == ({"join", "leave", "drop"} \X Sid) \cup ({"update"} \X Update)

ASSUME NoneAssumption == None \notin Handler

Label == {"idle", "enter", "read", "room", "exists", "scan", "remove", "count",
          "clear", "clearUsers", "end", "stop", "append", "broadcast", "save", "done"}

TypeOK ==
  /\ redis \in Modes
  /\ session \in [Sid -> {"open", "closed"}] /\ inside \in [Sid -> BOOLEAN]
  /\ users \subseteq Sid /\ room \subseteq Sid
  /\ updates \subseteq Update /\ saves \subseteq Update /\ stops \subseteq Update
  /\ client \in [Sid -> SUBSET Update]
  /\ author \in [Update -> Sid \cup {None}]
  /\ note \in 0..MaxUpdate
  /\ pc \in [Handler -> Label] /\ cpu \in Handler \cup {None}

Init ==
  /\ redis \in Modes
  /\ session = [s \in Sid |-> "open"] /\ inside = [s \in Sid |-> FALSE]
  /\ users = {} /\ updates = {} /\ room = {}
  /\ client = [s \in Sid |-> {}] /\ author = [u \in Update |-> None]
  /\ saves = {} /\ stops = {} /\ note = 0
  /\ pc = [h \in Handler |-> "idle"] /\ cpu = None

\* Handler h is at label l and may run.
At(h, l) == pc[h] = l /\ cpu \in {None, h}

\* It goes on at l.  Without Redis it keeps the event loop unless it waits.
Goto(h, l, waits) ==
  /\ pc'  = [pc EXCEPT ![h] = l]
  /\ cpu' = IF redis \/ waits \/ l \in {"idle", "done"} THEN None ELSE h
  /\ UNCHANGED redis

\* Bound: without Overlap a session waits for its own handlers to end and joins
\* once, and updates are handled one after the other.
Single == redis /\ ~Overlap
MayBegin(s) ==
  Single => \A k \in {"join", "leave", "drop"} : pc[<<k, s>>] \in {"idle", "done"}

-----------------------------------------------------------------------------
(* ydoc:document:join *)

\* SESSION_POOL knows the user, who may read the note: add_user.
JoinAdd(s) ==
  /\ session[s] = "open" /\ ~inside[s]
  /\ At(<<"join", s>>, "idle") /\ MayBegin(s)
  /\ inside' = [inside EXCEPT ![s] = TRUE]
  /\ client' = [client EXCEPT ![s] = {}]
  /\ users'  = users \cup {s}
  /\ Goto(<<"join", s>>, "enter", FALSE)
  /\ UNCHANGED <<session, author, updates, room, saveVars>>

\* A session that is gone enters no room.
JoinEnter(s) ==
  /\ At(<<"join", s>>, "enter")
  /\ room' = IF session[s] = "open" THEN room \cup {s} ELSE room
  /\ Goto(<<"join", s>>, "read", FALSE)
  /\ UNCHANGED <<users, updates, clientVars, saveVars>>

JoinReadAlone(s) ==   \* mutant of JoinRead: leaves it to the others in the room
  /\ At(<<"join", s>>, "read")
  /\ client' = [client EXCEPT ![s] = IF room \subseteq {s} THEN @ \cup updates ELSE @]
  /\ Goto(<<"join", s>>, IF Single THEN "done" ELSE "idle", TRUE)
  /\ UNCHANGED <<session, inside, author, docVars, saveVars>>

\* get_updates, and the state goes to the client.
JoinRead(s) ==
  /\ At(<<"join", s>>, "read")
  /\ client' = [client EXCEPT ![s] = @ \cup updates]
  /\ Goto(<<"join", s>>, IF Single THEN "done" ELSE "idle", TRUE)
  /\ UNCHANGED <<session, inside, author, docVars, saveVars>>

\* ydoc:document:state, for a session in the room of a document that exists.
SendState(s) ==
  /\ s \in room /\ session[s] = "open" /\ updates # {} /\ cpu = None
  /\ client' = [client EXCEPT ![s] = @ \cup updates]
  /\ UNCHANGED <<redis, session, inside, author, docVars, saveVars, pc, cpu>>

-----------------------------------------------------------------------------
(* ydoc:document:update *)

UpdateArrives(s, u) ==
  /\ inside[s] /\ session[s] = "open"
  /\ redis => u <= MaxShared
  /\ Single => \A v \in 1..(u - 1) : pc[<<"update", v>>] = "done"
  /\ At(<<"update", u>>, "idle") /\ \A v \in 1..(u - 1) : author[v] # None
  /\ author' = [author EXCEPT ![u] = s]
  /\ client' = [client EXCEPT ![s] = @ \cup {u}]
  /\ Goto(<<"update", u>>, "stop", FALSE)
  /\ UNCHANGED <<session, inside, docVars, saveVars>>

UpdateStopEnds(u, v) ==   \* mutant of UpdateStopOne: CancelledError ends the handler
  /\ ~redis /\ v \in saves
  /\ At(<<"update", u>>, "stop")
  /\ saves' = saves \ {v}
  /\ Goto(<<"update", u>>, "done", TRUE)
  /\ UNCHANGED <<stops, note, docVars, clientVars>>

\* stop_item_tasks without Redis cancels a sleeping save and waits for it.
UpdateStopOne(u, v) ==
  /\ ~redis /\ v \in saves
  /\ At(<<"update", u>>, "stop")
  /\ saves' = saves \ {v}
  /\ Goto(<<"update", u>>, "stop", TRUE)
  /\ UNCHANGED <<stops, note, docVars, clientVars>>

\* With Redis it publishes stop commands, which arrive when they arrive.
\* Without, it walks the very list that other handlers and finished saves
\* change, and ends at a save that has just finished: it may leave some alone.
UpdateStopped(u) ==
  /\ At(<<"update", u>>, "stop")
  /\ stops' = IF redis THEN stops \cup saves ELSE stops
  /\ Goto(<<"update", u>>, "append", FALSE)
  /\ UNCHANGED <<saves, note, docVars, clientVars>>

UpdateAppend(u) ==
  /\ At(<<"update", u>>, "append")
  /\ updates' = updates \cup {u}
  /\ Goto(<<"update", u>>, "broadcast", FALSE)
  /\ UNCHANGED <<users, room, clientVars, saveVars>>

UpdateBroadcast(u) ==
  LET others == room \ {author[u]} IN
  /\ At(<<"update", u>>, "broadcast")
  /\ client' = [s \in Sid |-> IF s \in others THEN client[s] \cup {u} ELSE client[s]]
  /\ Goto(<<"update", u>>, "save", others # {})
  /\ UNCHANGED <<session, inside, author, docVars, saveVars>>

\* create_task(debounced_save): it sleeps for half a second.
UpdateSave(u) ==
  /\ At(<<"update", u>>, "save")
  /\ saves' = saves \cup {u}
  /\ Goto(<<"update", u>>, "done", FALSE)
  /\ UNCHANGED <<docVars, clientVars, stops, note>>

StopArrives(u) ==
  /\ u \in stops
  /\ stops' = stops \ {u}
  /\ saves' = saves \ {u}
  /\ UNCHANGED <<redis, docVars, clientVars, note, pc, cpu>>

SaveFiresNext(u) ==   \* mutant of SaveFires: numbers saves from one after the update
  /\ u \in saves /\ cpu = None
  /\ saves' = saves \ {u}
  /\ note'  = IF session[author[u]] = "open" THEN u + 1 ELSE note
  /\ UNCHANGED <<redis, docVars, clientVars, stops, pc, cpu>>

\* debounced_save wakes and asks SESSION_POOL for its user only now: without
\* one, document_save_handler raises and the note stays as it is.
SaveFires(u) ==
  /\ u \in saves /\ cpu = None
  /\ saves' = saves \ {u}
  /\ note'  = IF session[author[u]] = "open" THEN u ELSE note
  /\ UNCHANGED <<redis, docVars, clientVars, stops, pc, cpu>>

-----------------------------------------------------------------------------
(* ydoc:document:leave, and disconnect, which end alike *)

LeaveRemove(s) ==
  /\ inside[s] /\ session[s] = "open"
  /\ At(<<"leave", s>>, "idle") /\ MayBegin(s)
  /\ inside' = [inside EXCEPT ![s] = FALSE]
  /\ users'  = users \ {s}
  /\ Goto(<<"leave", s>>, "room", FALSE)
  /\ UNCHANGED <<session, client, author, updates, room, saveVars>>

\* leave_room, and the others are told.
LeaveRoom(s) ==
  /\ At(<<"leave", s>>, "room")
  /\ room' = room \ {s}
  /\ Goto(<<"leave", s>>, "exists", room \ {s} # {})
  /\ UNCHANGED <<users, updates, clientVars, saveVars>>

LeaveClears(s) ==   \* mutant of LeaveExists: forgets to count the users
  /\ At(<<"leave", s>>, "exists")
  /\ Goto(<<"leave", s>>, IF updates # {} THEN "clear" ELSE "idle", FALSE)
  /\ UNCHANGED <<docVars, clientVars, saveVars>>

LeaveExists(s) ==
  /\ At(<<"leave", s>>, "exists")
  /\ Goto(<<"leave", s>>, IF updates # {} THEN "count" ELSE "idle", FALSE)
  /\ UNCHANGED <<docVars, clientVars, saveVars>>

\* disconnect: out of SESSION_POOL, then remove_user_from_all_documents.
DropSession(s) ==
  /\ session[s] = "open"
  /\ At(<<"drop", s>>, "idle") /\ MayBegin(s)
  /\ session' = [session EXCEPT ![s] = "closed"]
  /\ inside'  = [inside EXCEPT ![s] = FALSE]
  /\ Goto(<<"drop", s>>, "scan", FALSE)
  /\ UNCHANGED <<client, author, docVars, saveVars>>

\* It looks for the keys of documents that have users.
DropScan(s) ==
  /\ At(<<"drop", s>>, "scan")
  /\ Goto(<<"drop", s>>, IF users # {} THEN "remove" ELSE "end", FALSE)
  /\ UNCHANGED <<docVars, clientVars, saveVars>>

\* With Redis the users are counted even when s was not one of them.
DropRemove(s) ==
  /\ At(<<"drop", s>>, "remove")
  /\ users' = users \ {s}
  /\ Goto(<<"drop", s>>, IF redis \/ s \in users THEN "count" ELSE "end", FALSE)
  /\ UNCHANGED <<updates, room, clientVars, saveVars>>

Out(h) == IF h[1] = "leave" THEN "idle" ELSE "end"

Count(h) ==
  /\ At(h, "count")
  /\ Goto(h, IF users = {} THEN "clear" ELSE Out(h), FALSE)
  /\ UNCHANGED <<docVars, clientVars, saveVars>>

\* clear_document: two deletions.
Clear(h) ==
  /\ At(h, "clear")
  /\ updates' = {}
  /\ Goto(h, "clearUsers", FALSE)
  /\ UNCHANGED <<users, room, clientVars, saveVars>>

ClearUsers(h) ==
  /\ At(h, "clearUsers")
  /\ users' = {}
  /\ Goto(h, Out(h), FALSE)
  /\ UNCHANGED <<updates, room, clientVars, saveVars>>

\* After the handler, Socket.IO takes the session out of its rooms.
DropEnd(s) ==
  /\ At(<<"drop", s>>, "end")
  /\ room' = room \ {s}
  /\ Goto(<<"drop", s>>, "done", FALSE)
  /\ UNCHANGED <<users, updates, clientVars, saveVars>>

-----------------------------------------------------------------------------
UpdateStep(u) ==
  \/ \E v \in Update : UpdateStopOne(u, v)
  \/ UpdateStopped(u)
  \/ UpdateAppend(u)
  \/ UpdateBroadcast(u)
  \/ UpdateSave(u)
  \/ StopArrives(u)
  \/ SaveFires(u)

SessionStep(s) ==
  \/ JoinEnter(s)
  \/ JoinRead(s)
  \/ LeaveRoom(s)
  \/ LeaveExists(s)
  \/ DropScan(s)
  \/ DropRemove(s)
  \/ DropEnd(s)
  \/ \E k \in {"leave", "drop"} : Count(<<k, s>>) \/ Clear(<<k, s>>) \/ ClearUsers(<<k, s>>)

ClientStep(s) ==
  \/ JoinAdd(s)
  \/ LeaveRemove(s)
  \/ DropSession(s)
  \/ SendState(s)
  \/ \E u \in Update : UpdateArrives(s, u)

Next ==
  \/ \E u \in Update : UpdateStep(u)
  \/ \E s \in Sid : SessionStep(s) \/ ClientStep(s)

Spec == Init /\ [][Next]_vars

\* The event loop takes ready handlers in turn, timers fire and commands arrive.
\* Clients owe nothing.
FairSpec ==
  /\ Spec
  /\ \A u \in Update : SF_vars(UpdateStep(u))
  /\ WF_vars(\E s \in Sid : SessionStep(s))

-----------------------------------------------------------------------------
(* Properties *)

Idle(h) == pc[h] = "idle" \/ pc[h] = "done"

Editing(s) == inside[s] /\ s \in room /\ Idle(<<"join", s>>)

\* A client that edits has every kept update of the others past the broadcast:
\* the join handler enters the room before it reads the updates, the update
\* handler appends before it broadcasts, so one or the other delivers.
JoinersMissNothing ==
  \A s \in Sid : Editing(s) => \A u \in updates :
    author[u] # s /\ pc[<<"update", u>>] \in {"save", "done"} => u \in client[s]

ClearedOnlyWhenEmpty == updates \ updates' # {} => \A s \in Sid : ~Editing(s)

\* Updates are thrown away only when nobody edits the document, as
\* yjs_document_leave announces: "as no users are left".  Redis defeats it: a
\* user may join between the count and the deletions, so that no run lists this.
ClearedWhenEmpty == [][ClearedOnlyWhenEmpty]_vars

\* Without Redis the count and the deletions are one piece, and it holds.
LocallyClearedWhenEmpty == [][~redis => ClearedOnlyWhenEmpty]_vars

\* A document nobody edits, with no handler at work, keeps no updates ("properly
\* cleaned up after all users had left").  An update that was still being
\* handled when the last user left defeats it, so that no run lists this.
CleanedAfterLast ==
  room = {} /\ (\A h \in Handler : Idle(h)) => updates = {}

\* Every cancellation of a save is made by a handler that starts one itself: an
\* edited note is written in the end, unless an author leaves in the meantime.
EditedNoteIsSaved ==
  \A u \in Update : pc[<<"update", u>>] = "done" ~>
    (note # 0 \/ \E v \in Update : author[v] # None /\ session[author[v]] = "closed")
=============================================================================
