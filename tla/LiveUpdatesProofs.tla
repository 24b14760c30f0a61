-------------------------- MODULE LiveUpdatesProofs --------------------------
(***************************************************************************)
(* What reaches a tab of what others change, proved for any number of      *)
(* sessions, messages and events: the updates of a note (Ydoc) and the     *)
(* list of a channel or a thread (ChannelFeed).                            *)
(***************************************************************************)
EXTENDS Ydoc, ChannelFeed, WellFoundedInduction, TLAPS

-----------------------------------------------------------------------------
(* Collaborative editing *)

\* Labels that a handler reaches without waiting.
Nonstop == {"enter", "read", "room", "scan", "remove", "count", "clear",
            "clearUsers", "end", "append", "broadcast"}

\* Without Redis, a handler at one of these still has the event loop.
LoopHeld == ~redis => \A h \in Handler : pc[h] \in Nonstop => cpu = h

\* A session that disconnects is out of the document and stays out.
ClosedForGood ==
  \A s \in Sid :
    /\ pc[<<"drop", s>>] # "idle" => session[s] = "closed"
    /\ session[s] = "closed" => ~inside[s]

\* Without Redis, nobody inside is missing from the users, and a handler that
\* counted none still finds none.
UsersKnown ==
  ~redis =>
    /\ \A s \in Sid : inside[s] => s \in users
    /\ \A h \in Handler : pc[h] \in {"clear", "clearUsers"} => users = {}

YdocInv ==
  /\ TypeOK
  /\ LoopHeld
  /\ ClosedForGood
  /\ UsersKnown
  /\ JoinersMissNothing

-----------------------------------------------------------------------------
LEMMA HandlersOf ==
  /\ \A s \in Sid : {<<"join", s>>, <<"leave", s>>, <<"drop", s>>} \subseteq Handler
  /\ \A u \in Update : <<"update", u>> \in Handler
BY DEF Handler

\* What Goto does to the two variables of the scheduler.
LEMMA GotoSteps ==
  ASSUME TypeOK, NEW h \in Handler, NEW l \in Label, NEW waits \in BOOLEAN, Goto(h, l, waits)
  PROVE  /\ redis' = redis
         /\ pc' \in [Handler -> Label] /\ cpu' \in Handler \cup {None}
         /\ pc'[h] = l /\ \A k \in Handler : k # h => pc'[k] = pc[k]
         /\ ~redis /\ ~waits /\ l \notin {"idle", "done"} => cpu' = h
BY DEF TypeOK, Goto

\* Every step is the move of one handler that may run, or leaves them alone.
Moves ==
  \E h \in Handler, l \in Label, waits \in BOOLEAN :
    /\ cpu \in {None, h} /\ Goto(h, l, waits)
    /\ l \in Nonstop => ~waits

LEMMA UpdateMoves ==
  ASSUME TypeOK, NEW u \in Update, UpdateStep(u)
  PROVE  Moves \/ UNCHANGED <<redis, pc, cpu>>
<1> USE HandlersOf DEF Moves, At
<1>1. ASSUME NEW v \in Update, UpdateStopOne(u, v) PROVE Moves
  BY <1>1 DEF UpdateStopOne, Label, Nonstop
<1>2. CASE UpdateStopped(u)
  BY <1>2 DEF UpdateStopped, Label
<1>3. CASE UpdateAppend(u)
  BY <1>3 DEF UpdateAppend, Label
<1>4. CASE UpdateBroadcast(u)
  <2>1. (room \ {author[u]} # {}) \in BOOLEAN
    OBVIOUS
  <2> QED
    BY <1>4, <2>1 DEF UpdateBroadcast, Label, Nonstop
<1>5. CASE UpdateSave(u)
  BY <1>5 DEF UpdateSave, Label
<1>6. CASE StopArrives(u) \/ SaveFires(u)
  BY <1>6 DEF StopArrives, SaveFires
<1> QED
  BY <1>1, <1>2, <1>3, <1>4, <1>5, <1>6 DEF UpdateStep

LEMMA SessionMoves ==
  ASSUME TypeOK, NEW s \in Sid, SessionStep(s)
  PROVE  Moves
<1> USE HandlersOf DEF Moves, At, Label
<1>1. CASE JoinEnter(s)
  BY <1>1 DEF JoinEnter
<1>2. CASE JoinRead(s)
  BY <1>2 DEF JoinRead, Nonstop
<1>3. CASE LeaveRoom(s)
  <2>1. (room \ {s} # {}) \in BOOLEAN
    OBVIOUS
  <2> QED
    BY <1>3, <2>1 DEF LeaveRoom, Nonstop
<1>4. CASE LeaveExists(s)
  BY <1>4 DEF LeaveExists
<1>5. CASE DropScan(s)
  BY <1>5 DEF DropScan
<1>6. CASE DropRemove(s)
  BY <1>6 DEF DropRemove
<1>7. CASE DropEnd(s)
  BY <1>7 DEF DropEnd
<1>8. ASSUME NEW k \in {"leave", "drop"},
             Count(<<k, s>>) \/ Clear(<<k, s>>) \/ ClearUsers(<<k, s>>)
      PROVE  Moves
  BY <1>8 DEF Count, Clear, ClearUsers, Out
<1> QED
  BY <1>1, <1>2, <1>3, <1>4, <1>5, <1>6, <1>7, <1>8 DEF SessionStep

LEMMA ClientMoves ==
  ASSUME TypeOK, NEW s \in Sid, ClientStep(s)
  PROVE  Moves \/ UNCHANGED <<redis, pc, cpu>>
<1> USE HandlersOf DEF Moves, At, Label
<1>1. CASE JoinAdd(s)
  BY <1>1 DEF JoinAdd
<1>2. CASE LeaveRemove(s)
  BY <1>2 DEF LeaveRemove
<1>3. CASE DropSession(s)
  BY <1>3 DEF DropSession
<1>4. CASE SendState(s)
  BY <1>4 DEF SendState
<1>5. ASSUME NEW u \in Update, UpdateArrives(s, u) PROVE Moves
  BY <1>5 DEF UpdateArrives
<1> QED
  BY <1>1, <1>2, <1>3, <1>4, <1>5 DEF ClientStep

\* The handler that moves is the only one at a nonstop label.
LEMMA LoopStep ==
  ASSUME TypeOK, LoopHeld, Next
  PROVE  LoopHeld' /\ redis' = redis /\ pc' \in [Handler -> Label] /\ cpu' \in Handler \cup {None}
<1>1. CASE UNCHANGED <<redis, pc, cpu>>
  BY <1>1 DEF LoopHeld, TypeOK
<1>2. CASE Moves
  <2>1. PICK h \in Handler, l \in Label, waits \in BOOLEAN :
          /\ cpu \in {None, h} /\ Goto(h, l, waits)
          /\ l \in Nonstop => ~waits
    BY <1>2 DEF Moves
  <2>2. /\ redis' = redis
        /\ pc' \in [Handler -> Label] /\ cpu' \in Handler \cup {None}
        /\ pc'[h] = l /\ \A k \in Handler : k # h => pc'[k] = pc[k]
        /\ ~redis /\ ~waits /\ l \notin {"idle", "done"} => cpu' = h
    BY <2>1, GotoSteps
  <2>3. LoopHeld'
    BY <2>1, <2>2, NoneAssumption DEF LoopHeld, Nonstop
  <2> QED
    BY <2>2, <2>3
<1> QED
  BY <1>1, <1>2, UpdateMoves, SessionMoves, ClientMoves DEF Next

-----------------------------------------------------------------------------
LEMMA YdocInit == Init => YdocInv
<1> SUFFICES ASSUME Init PROVE YdocInv
  OBVIOUS
<1>1. TypeOK
  BY ConstantsAssumption DEF ConstantsAssumption, Init, TypeOK, Label
<1>2. LoopHeld /\ UsersKnown
  BY DEF Init, LoopHeld, UsersKnown, Nonstop
<1>3. ClosedForGood /\ JoinersMissNothing
  BY HandlersOf DEF Init, ClosedForGood, JoinersMissNothing, Editing
<1> QED
  BY <1>1, <1>2, <1>3 DEF YdocInv

LEMMA UpdateTyped ==
  ASSUME TypeOK, NEW u \in Update, UpdateStep(u)
  PROVE  /\ session' \in [Sid -> {"open", "closed"}] /\ inside' \in [Sid -> BOOLEAN]
         /\ users' \subseteq Sid /\ room' \subseteq Sid
         /\ updates' \subseteq Update /\ saves' \subseteq Update /\ stops' \subseteq Update
         /\ client' \in [Sid -> SUBSET Update]
         /\ author' \in [Update -> Sid \cup {None}]
         /\ note' \in 0..MaxUpdate
<1> USE DEF TypeOK, docVars, clientVars, saveVars
<1>1. ASSUME NEW v \in Update, UpdateStopOne(u, v)
      PROVE  saves' \subseteq saves /\ UNCHANGED <<docVars, clientVars, stops, note>>
  BY <1>1 DEF UpdateStopOne
<1>2. CASE UpdateStopped(u)
  BY <1>2 DEF UpdateStopped
<1>3. CASE UpdateAppend(u)
  BY <1>3 DEF UpdateAppend
<1>4. CASE UpdateBroadcast(u)
  BY <1>4 DEF UpdateBroadcast
<1>5. CASE UpdateSave(u)
  BY <1>5 DEF UpdateSave
<1>6. CASE StopArrives(u)
  BY <1>6 DEF StopArrives
<1>7. CASE SaveFires(u)
  BY <1>7, ConstantsAssumption DEF ConstantsAssumption, SaveFires, Update
<1> QED
  BY <1>1, <1>2, <1>3, <1>4, <1>5, <1>6, <1>7 DEF UpdateStep

LEMMA SessionTyped ==
  ASSUME TypeOK, NEW s \in Sid, SessionStep(s)
  PROVE  /\ UNCHANGED <<session, inside, author, saveVars>>
         /\ users' \subseteq users /\ updates' \subseteq updates
         /\ room' \subseteq Sid /\ client' \in [Sid -> SUBSET Update]
BY DEF TypeOK, docVars, clientVars, saveVars, SessionStep, JoinEnter, JoinRead, LeaveRoom, LeaveExists,
       DropScan, DropRemove, DropEnd, Count, Clear, ClearUsers

LEMMA ClientTyped ==
  ASSUME TypeOK, NEW s \in Sid, ClientStep(s)
  PROVE  /\ UNCHANGED <<updates, room, saveVars>> /\ users' \subseteq Sid
         /\ session' \in [Sid -> {"open", "closed"}] /\ inside' \in [Sid -> BOOLEAN]
         /\ client' \in [Sid -> SUBSET Update]
         /\ author' \in [Update -> Sid \cup {None}]
<1> USE DEF TypeOK, docVars, saveVars
<1>1. CASE JoinAdd(s)
  BY <1>1 DEF JoinAdd
<1>2. CASE LeaveRemove(s)
  BY <1>2 DEF LeaveRemove
<1>3. CASE DropSession(s)
  BY <1>3 DEF DropSession
<1>4. CASE SendState(s)
  BY <1>4 DEF SendState
<1>5. ASSUME NEW u \in Update, UpdateArrives(s, u)
      PROVE  /\ UNCHANGED <<updates, room, saveVars, users, session, inside>>
             /\ client' \in [Sid -> SUBSET Update]
             /\ author' \in [Update -> Sid \cup {None}]
  BY <1>5 DEF UpdateArrives
<1> QED
  BY <1>1, <1>2, <1>3, <1>4, <1>5 DEF ClientStep

LEMMA TypeStep ==
  ASSUME TypeOK, LoopHeld, Next
  PROVE  TypeOK'
<1>1. redis' \in Modes /\ pc' \in [Handler -> Label] /\ cpu' \in Handler \cup {None}
  BY LoopStep DEF TypeOK
<1>2. ASSUME NEW u \in Update, UpdateStep(u) PROVE TypeOK'
  BY <1>1, <1>2, UpdateTyped DEF TypeOK
<1>3. ASSUME NEW s \in Sid, SessionStep(s) PROVE TypeOK'
  BY <1>1, <1>3, SessionTyped DEF TypeOK, saveVars
<1>4. ASSUME NEW s \in Sid, ClientStep(s) PROVE TypeOK'
  BY <1>1, <1>4, ClientTyped DEF TypeOK, saveVars
<1> QED
  BY <1>2, <1>3, <1>4 DEF Next

-----------------------------------------------------------------------------
\* Only the session's own drop handler closes it, and before anything else.
LEMMA ClosedStep ==
  ASSUME TypeOK, ClosedForGood, Next
  PROVE  ClosedForGood'
<1> USE HandlersOf DEF ClosedForGood, TypeOK, At, Goto
<1>1. ASSUME NEW u \in Update, UpdateStep(u) PROVE ClosedForGood'
  BY <1>1 DEF UpdateStep, UpdateStopOne, UpdateStopped, UpdateAppend, UpdateBroadcast, UpdateSave,
              StopArrives, SaveFires, clientVars
<1>2. ASSUME NEW s \in Sid, SessionStep(s) PROVE ClosedForGood'
  <2>1. CASE JoinEnter(s) \/ JoinRead(s) \/ LeaveRoom(s) \/ LeaveExists(s)
    BY <2>1 DEF JoinEnter, JoinRead, LeaveRoom, LeaveExists, clientVars
  <2>2. CASE DropScan(s) \/ DropRemove(s) \/ DropEnd(s)
    BY <2>2 DEF DropScan, DropRemove, DropEnd, clientVars
  <2>3. ASSUME NEW k \in {"leave", "drop"}, Count(<<k, s>>) \/ Clear(<<k, s>>) \/ ClearUsers(<<k, s>>)
        PROVE  ClosedForGood'
    BY <2>3 DEF Count, Clear, ClearUsers, clientVars
  <2> QED
    BY <1>2, <2>1, <2>2, <2>3 DEF SessionStep
<1>3. ASSUME NEW s \in Sid, ClientStep(s) PROVE ClosedForGood'
  <2>1. CASE JoinAdd(s)
    BY <2>1 DEF JoinAdd
  <2>2. CASE LeaveRemove(s)
    BY <2>2 DEF LeaveRemove
  <2>3. CASE DropSession(s)
    BY <2>3 DEF DropSession
  <2>4. CASE SendState(s)
    BY <2>4 DEF SendState
  <2>5. ASSUME NEW u \in Update, UpdateArrives(s, u) PROVE ClosedForGood'
    BY <2>5 DEF UpdateArrives
  <2> QED
    BY <1>3, <2>1, <2>2, <2>3, <2>4, <2>5 DEF ClientStep
<1> QED
  BY <1>1, <1>2, <1>3 DEF Next

\* The users change where somebody enters or is gone; at a clearing they are
\* empty, and nobody else runs.
LEMMA UsersStep ==
  ASSUME TypeOK, LoopHeld, ClosedForGood, UsersKnown, Next
  PROVE  UsersKnown'
<1> SUFFICES ASSUME ~redis, ~redis' PROVE UsersKnown'
  BY LoopStep DEF UsersKnown
<1> USE HandlersOf, NoneAssumption DEF UsersKnown, LoopHeld, TypeOK, At, Goto, Nonstop
<1>1. ASSUME NEW u \in Update, UpdateStep(u) PROVE UsersKnown'
  BY <1>1 DEF UpdateStep, UpdateStopOne, UpdateStopped, UpdateAppend, UpdateBroadcast, UpdateSave,
              StopArrives, SaveFires, clientVars, docVars
<1>2. ASSUME NEW s \in Sid, SessionStep(s) PROVE UsersKnown'
  <2>1. CASE JoinEnter(s) \/ JoinRead(s) \/ LeaveRoom(s) \/ LeaveExists(s)
    BY <2>1 DEF JoinEnter, JoinRead, LeaveRoom, LeaveExists, clientVars, docVars
  <2>2. CASE DropScan(s) \/ DropEnd(s)
    BY <2>2 DEF DropScan, DropEnd, clientVars, docVars
  <2>3. CASE DropRemove(s)
    BY <2>3 DEF DropRemove, clientVars, ClosedForGood
  <2>4. ASSUME NEW k \in {"leave", "drop"}, Count(<<k, s>>) \/ Clear(<<k, s>>) \/ ClearUsers(<<k, s>>)
        PROVE  UsersKnown'
    BY <2>4 DEF Count, Clear, ClearUsers, clientVars, docVars, Out
  <2> QED
    BY <1>2, <2>1, <2>2, <2>3, <2>4 DEF SessionStep
<1>3. ASSUME NEW s \in Sid, ClientStep(s) PROVE UsersKnown'
  <2>1. CASE JoinAdd(s)
    BY <2>1 DEF JoinAdd
  <2>2. CASE LeaveRemove(s)
    BY <2>2 DEF LeaveRemove
  <2>3. CASE DropSession(s)
    BY <2>3 DEF DropSession, docVars
  <2>4. CASE SendState(s)
    BY <2>4 DEF SendState, docVars
  <2>5. ASSUME NEW u \in Update, UpdateArrives(s, u) PROVE UsersKnown'
    BY <2>5 DEF UpdateArrives, docVars
  <2> QED
    BY <1>3, <2>1, <2>2, <2>3, <2>4, <2>5 DEF ClientStep
<1> QED
  BY <1>1, <1>2, <1>3 DEF Next

\* A step that makes nobody an editor, sends no update past the broadcast and
\* keeps what clients have.
LEMMA NothingNew ==
  ASSUME JoinersMissNothing,
         \A s \in Sid : Editing(s)' => Editing(s),
         updates' \subseteq updates, UNCHANGED <<client, author>>,
         \A u \in Update : pc'[<<"update", u>>] \in {"save", "done"} => pc[<<"update", u>>] \in {"save", "done"},
         updates \subseteq Update
  PROVE  JoinersMissNothing'
BY DEF JoinersMissNothing

\* One enters the room and reads the updates later; an update is appended and
\* sent to the room later.
LEMMA JoinersStep ==
  ASSUME TypeOK, JoinersMissNothing, Next
  PROVE  JoinersMissNothing'
<1> USE HandlersOf DEF JoinersMissNothing, Editing, Idle, TypeOK, At, Goto
<1>1. ASSUME NEW u \in Update, UpdateStep(u) PROVE JoinersMissNothing'
  <2>1. ASSUME NEW v \in Update, UpdateStopOne(u, v) PROVE JoinersMissNothing'
    BY <2>1 DEF UpdateStopOne, docVars, clientVars
  <2>2. CASE UpdateStopped(u)
    BY <2>2 DEF UpdateStopped, docVars, clientVars
  <2>3. CASE UpdateAppend(u)
    BY <2>3 DEF UpdateAppend, clientVars
  <2>4. CASE UpdateBroadcast(u)
    BY <2>4 DEF UpdateBroadcast, docVars
  <2>5. CASE UpdateSave(u)
    BY <2>5 DEF UpdateSave, docVars, clientVars
  <2>6. CASE StopArrives(u) \/ SaveFires(u)
    BY <2>6 DEF StopArrives, SaveFires, docVars, clientVars
  <2> QED
    BY <1>1, <2>1, <2>2, <2>3, <2>4, <2>5, <2>6 DEF UpdateStep
<1>2. ASSUME NEW s \in Sid, SessionStep(s) PROVE JoinersMissNothing'
  <2>1. CASE JoinEnter(s)
    BY <2>1 DEF JoinEnter, clientVars
  <2>2. CASE JoinRead(s)
    BY <2>2 DEF JoinRead, docVars
  <2>3. CASE LeaveRoom(s)
    BY <2>3, NothingNew DEF LeaveRoom, clientVars
  <2>4. CASE LeaveExists(s) \/ DropScan(s)
    <3>1. /\ \A t \in Sid : Editing(t)' => Editing(t)
          /\ UNCHANGED <<docVars, clientVars>>
          /\ \A u \in Update : pc'[<<"update", u>>] = pc[<<"update", u>>]
      BY <2>4 DEF LeaveExists, DropScan, docVars, clientVars
    <3> QED
      BY <3>1, NothingNew DEF docVars, clientVars
  <2>5. CASE DropRemove(s)
    BY <2>5, NothingNew DEF DropRemove, clientVars
  <2>6. CASE DropEnd(s)
    BY <2>6, NothingNew DEF DropEnd, clientVars
  <2>7. ASSUME NEW k \in {"leave", "drop"}, Count(<<k, s>>) \/ Clear(<<k, s>>) \/ ClearUsers(<<k, s>>)
        PROVE  JoinersMissNothing'
    <3>1. /\ UNCHANGED <<room, clientVars>> /\ updates' \subseteq updates
          /\ \E l \in Label : Goto(<<k, s>>, l, FALSE)
      BY <2>7 DEF Count, Clear, ClearUsers, Out, Label, docVars
    <3>2. /\ \A t \in Sid : pc'[<<"join", t>>] = pc[<<"join", t>>]
          /\ \A u \in Update : pc'[<<"update", u>>] = pc[<<"update", u>>]
      BY <3>1
    <3>3. \A t \in Sid : Editing(t)' => Editing(t)
      BY <3>1, <3>2 DEF clientVars
    <3> QED
      BY <3>1, <3>2, <3>3, NothingNew DEF clientVars
  <2> QED
    BY <1>2, <2>1, <2>2, <2>3, <2>4, <2>5, <2>6, <2>7 DEF SessionStep
<1>3. ASSUME NEW s \in Sid, ClientStep(s) PROVE JoinersMissNothing'
  <2>1. CASE JoinAdd(s)
    BY <2>1 DEF JoinAdd
  <2>2. CASE LeaveRemove(s)
    BY <2>2, NothingNew DEF LeaveRemove
  <2>3. CASE DropSession(s)
    BY <2>3, NothingNew DEF DropSession, docVars
  <2>4. CASE SendState(s)
    BY <2>4 DEF SendState, docVars
  <2>5. ASSUME NEW u \in Update, UpdateArrives(s, u) PROVE JoinersMissNothing'
    BY <2>5 DEF UpdateArrives, docVars
  <2> QED
    BY <1>3, <2>1, <2>2, <2>3, <2>4, <2>5 DEF ClientStep
<1> QED
  BY <1>1, <1>2, <1>3 DEF Next

-----------------------------------------------------------------------------
LEMMA YdocStep == YdocInv /\ [Next]_vars => YdocInv'
<1>1. YdocInv /\ Next => YdocInv'
  BY TypeStep, LoopStep, ClosedStep, UsersStep, JoinersStep DEF YdocInv
<1>2. YdocInv /\ UNCHANGED vars => YdocInv'
  BY DEF YdocInv, vars, docVars, clientVars, saveVars, TypeOK, LoopHeld, ClosedForGood, UsersKnown,
         JoinersMissNothing, Editing, Idle
<1> QED
  BY <1>1, <1>2

LEMMA YdocInvariance == Spec => []YdocInv
BY YdocInit, YdocStep, PTL DEF Spec

\* Every variable keeps its type.
THEOREM YdocTypeCorrect == Spec => []TypeOK
<1>1. YdocInv => TypeOK
  BY DEF YdocInv
<1> QED
  BY YdocInvariance, <1>1, PTL

\* A client that edits has every kept update of the others past the broadcast,
\* whatever joins, leaves and disconnects overlap, with Redis and without.
THEOREM NobodyMissesUpdates == Spec => []JoinersMissNothing
<1>1. YdocInv => JoinersMissNothing
  BY DEF YdocInv
<1> QED
  BY YdocInvariance, <1>1, PTL

\* Without Redis no update is thrown away while somebody edits the document.
THEOREM ClearingIsSafe == Spec => LocallyClearedWhenEmpty
<1>1. ASSUME YdocInv, [Next]_vars, ~redis
      PROVE  ClearedOnlyWhenEmpty
  <2>1. CASE UNCHANGED updates
    BY <2>1 DEF ClearedOnlyWhenEmpty
  <2>2. ASSUME NEW s \in Sid, NEW k \in {"leave", "drop"}, Clear(<<k, s>>)
        PROVE  ClearedOnlyWhenEmpty
    <3>1. <<k, s>> \in Handler /\ pc[<<k, s>>] = "clear"
      BY <2>2, HandlersOf DEF Clear, At
    <3>2. \A t \in Sid : ~Editing(t)
      BY <1>1, <3>1 DEF YdocInv, UsersKnown, Editing
    <3> QED
      BY <3>2 DEF ClearedOnlyWhenEmpty
  <2>3. CASE UNCHANGED vars
    BY <2>3, <2>1 DEF vars, docVars
  <2>4. ASSUME NEW u \in Update, UpdateStep(u)
        PROVE  ClearedOnlyWhenEmpty
    BY <2>4 DEF UpdateStep, UpdateStopOne, UpdateStopped, UpdateAppend, UpdateBroadcast, UpdateSave,
                StopArrives, SaveFires, docVars, ClearedOnlyWhenEmpty
  <2>5. ASSUME NEW s \in Sid, SessionStep(s)
        PROVE  UNCHANGED updates \/ \E k \in {"leave", "drop"} : Clear(<<k, s>>)
    BY <2>5 DEF SessionStep, JoinEnter, JoinRead, LeaveRoom, LeaveExists, DropScan, DropRemove, DropEnd,
                Count, ClearUsers, docVars
  <2>6. ASSUME NEW s \in Sid, ClientStep(s)
        PROVE  UNCHANGED updates
    BY <2>6 DEF ClientStep, JoinAdd, LeaveRemove, DropSession, SendState, UpdateArrives, docVars
  <2> QED
    BY <1>1, <2>1, <2>2, <2>3, <2>4, <2>5, <2>6 DEF Next
<1>2. YdocInv /\ [Next]_vars => [~redis => ClearedOnlyWhenEmpty]_vars
  BY <1>1
<1> QED
  BY YdocInvariance, <1>2, PTL DEF Spec, LocallyClearedWhenEmpty

-----------------------------------------------------------------------------
(* The list of a channel or a thread *)

\* Induction over the numbers, for a set of them, from the minimal element of
\* what it leaves out.
LEMMA NatSetInduction ==
  ASSUME NEW G, 0 \in G, \A n \in Nat : n \in G => n + 1 \in G
  PROVE  Nat \subseteq G
<1> DEFINE T == Nat \ G
<1> SUFFICES ASSUME T # {} PROVE FALSE
  OBVIOUS
<1>1. IsWellFoundedOn(OpToRel(<, Nat), Nat)
  BY NatLessThanWellFounded, Zenon
<1>2. PICK x \in T : \A y \in T : ~(<<y, x>> \in OpToRel(<, Nat))
  <2>1. T \subseteq Nat
    OBVIOUS
  <2> HIDE DEF T
  <2> QED
    BY <1>1, <2>1, WFMin, Zenon
<1>3. x \in Nat /\ \A y \in T : ~(y < x)
  BY <1>2 DEF OpToRel
<1>4. x # 0
  BY <1>2
<1>5. x - 1 \in Nat /\ x - 1 < x /\ x = (x - 1) + 1
  BY <1>3, <1>4
<1>6. x - 1 \in G
  BY <1>3, <1>5
<1> QED
  BY <1>2, <1>5, <1>6

-----------------------------------------------------------------------------
(* What is left of a sequence *)

\* g is the function of which Among takes the last value.
Kept(seq, S, N, g) ==
  g = [n \in 0 .. N |->
        IF n = 0 THEN <<>> ELSE IF seq[n] \in S THEN Append(g[n - 1], seq[n]) ELSE g[n - 1]]

LEMMA KeptExists ==
  ASSUME NEW seq, NEW S
  PROVE  \A N \in Nat : \E g : Kept(seq, S, N, g)
<1> DEFINE G == {N \in Nat : \E g : Kept(seq, S, N, g)}
<1>1. 0 \in G
  <2> DEFINE g == [n \in 0 .. 0 |-> <<>>]
  <2>1. Kept(seq, S, 0, g)
    BY DEF Kept
  <2> QED
    BY <2>1
<1>2. ASSUME NEW N \in Nat, N \in G PROVE N + 1 \in G
  <2>1. PICK g : Kept(seq, S, N, g)
    BY <1>2
  <2> DEFINE h == [n \in 0 .. N + 1 |->
                    IF n <= N THEN g[n] ELSE IF seq[n] \in S THEN Append(g[N], seq[n]) ELSE g[N]]
  <2>2. \A n \in 0 .. N + 1 :
          h[n] = IF n = 0 THEN <<>> ELSE IF seq[n] \in S THEN Append(h[n - 1], seq[n]) ELSE h[n - 1]
    <3>1. \A n \in 0 .. N : h[n] = g[n]
      OBVIOUS
    <3>2. \A n \in 0 .. N :
            g[n] = IF n = 0 THEN <<>> ELSE IF seq[n] \in S THEN Append(g[n - 1], seq[n]) ELSE g[n - 1]
      BY <2>1 DEF Kept
    <3>3. h[N + 1] = IF seq[N + 1] \in S THEN Append(h[N], seq[N + 1]) ELSE h[N]
      BY <3>1
    <3> HIDE DEF h
    <3>4. \A n \in 0 .. N + 1 : n = N + 1 \/ (n \in 0 .. N /\ (n = 0 \/ n - 1 \in 0 .. N))
      OBVIOUS
    <3> QED
      BY <3>1, <3>2, <3>3, <3>4
  <2>3. h = [n \in 0 .. N + 1 |->
              IF n = 0 THEN <<>> ELSE IF seq[n] \in S THEN Append(h[n - 1], seq[n]) ELSE h[n - 1]]
    <3>1. h = [n \in 0 .. N + 1 |-> h[n]]
      OBVIOUS
    <3> HIDE DEF h
    <3> QED
      BY <2>2, <3>1
  <2> HIDE DEF h
  <2>4. Kept(seq, S, N + 1, h)
    BY <2>3 DEF Kept
  <2> QED
    BY <2>4
<1> HIDE DEF G
<1>3. Nat \subseteq G
  BY <1>1, <1>2, NatSetInduction
<1> QED
  BY <1>3 DEF G

\* After n elements.
KeptSoFar(T, seq, S, n, k) ==
  /\ k \in Seq(T)
  /\ \A i \in DOMAIN k : k[i] \in S /\ \E p \in 1 .. n : k[i] = seq[p]
  /\ \A p \in 1 .. n : seq[p] \in S => \E i \in DOMAIN k : k[i] = seq[p]
  /\ \A i, j \in DOMAIN k : i < j => \E p, q \in 1 .. n : p < q /\ k[i] = seq[p] /\ k[j] = seq[q]

LEMMA KeptStep ==
  ASSUME NEW T, NEW seq \in Seq(T), NEW S, NEW n \in Nat, n + 1 <= Len(seq), NEW k,
         KeptSoFar(T, seq, S, n, k), seq[n + 1] \in S
  PROVE  KeptSoFar(T, seq, S, n + 1, Append(k, seq[n + 1]))
<1> DEFINE l == Append(k, seq[n + 1])
<1>1. k \in Seq(T) /\ seq[n + 1] \in T
  BY DEF KeptSoFar
<1>2. /\ l \in Seq(T) /\ Len(l) = Len(k) + 1 /\ DOMAIN l = 1 .. Len(k) + 1 /\ DOMAIN k = 1 .. Len(k)
      /\ l[Len(k) + 1] = seq[n + 1] /\ \A i \in DOMAIN k : l[i] = k[i]
  BY <1>1
<1> HIDE DEF l
<1>3. \A i \in DOMAIN l : i \in DOMAIN k \/ i = Len(k) + 1
  BY <1>2, <1>1
<1>4. 1 .. n \subseteq 1 .. n + 1 /\ n + 1 \in 1 .. n + 1 /\ \A p \in 1 .. n + 1 : p \in 1 .. n \/ p = n + 1
  OBVIOUS
<1>5. \A i \in DOMAIN l : l[i] \in S /\ \E p \in 1 .. n + 1 : l[i] = seq[p]
  BY <1>2, <1>3, <1>4 DEF KeptSoFar
<1>6. \A p \in 1 .. n + 1 : seq[p] \in S => \E i \in DOMAIN l : l[i] = seq[p]
  <2>1. Len(k) + 1 \in DOMAIN l /\ DOMAIN k \subseteq DOMAIN l
    BY <1>1, <1>2
  <2> QED
    BY <1>2, <1>4, <2>1 DEF KeptSoFar
<1>7. ASSUME NEW i \in DOMAIN l, NEW j \in DOMAIN l, i < j
      PROVE  \E p, q \in 1 .. n + 1 : p < q /\ l[i] = seq[p] /\ l[j] = seq[q]
  <2>1. i \in DOMAIN k
    BY <1>1, <1>2, <1>7
  <2>2. CASE j \in DOMAIN k
    BY <1>2, <1>4, <1>7, <2>1, <2>2 DEF KeptSoFar
  <2>3. CASE j = Len(k) + 1
    <3>1. PICK p \in 1 .. n : k[i] = seq[p]
      BY <2>1 DEF KeptSoFar
    <3> QED
      BY <1>2, <1>4, <2>1, <2>3, <3>1
  <2> QED
    BY <1>3, <2>2, <2>3
<1> QED
  BY <1>2, <1>5, <1>6, <1>7 DEF KeptSoFar, l

LEMMA KeptSkips ==
  ASSUME NEW T, NEW seq, NEW S, NEW n \in Nat, NEW k, KeptSoFar(T, seq, S, n, k), seq[n + 1] \notin S
  PROVE  KeptSoFar(T, seq, S, n + 1, k)
<1>1. 1 .. n \subseteq 1 .. n + 1 /\ \A p \in 1 .. n + 1 : p \in 1 .. n \/ p = n + 1
  OBVIOUS
<1>2. \A i \in DOMAIN k : k[i] \in S /\ \E p \in 1 .. n + 1 : k[i] = seq[p]
  BY <1>1 DEF KeptSoFar
<1>3. \A p \in 1 .. n + 1 : seq[p] \in S => \E i \in DOMAIN k : k[i] = seq[p]
  BY <1>1 DEF KeptSoFar
<1>4. \A i, j \in DOMAIN k : i < j => \E p, q \in 1 .. n + 1 : p < q /\ k[i] = seq[p] /\ k[j] = seq[q]
  BY <1>1 DEF KeptSoFar
<1> QED
  BY <1>2, <1>3, <1>4 DEF KeptSoFar

\* Among keeps the elements in S and no others, in their order.
LEMMA AmongKeeps ==
  ASSUME NEW T, NEW seq \in Seq(T), NEW S
  PROVE  KeptSoFar(T, seq, S, Len(seq), Among(seq, S))
<1> DEFINE g == CHOOSE g : Kept(seq, S, Len(seq), g)
           G == {n \in Nat : n <= Len(seq) => KeptSoFar(T, seq, S, n, g[n])}
<1>1. Len(seq) \in Nat
  OBVIOUS
<1>2. Kept(seq, S, Len(seq), g)
  BY <1>1, KeptExists
<1>3. Among(seq, S) = g[Len(seq)]
  BY DEF Among, Kept
<1> HIDE DEF g
<1>4. /\ g[0] = <<>>
      /\ \A n \in Nat : n + 1 <= Len(seq) => g[n + 1] = IF seq[n + 1] \in S THEN Append(g[n], seq[n + 1]) ELSE g[n]
  <2>1. \A n \in 0 .. Len(seq) :
          g[n] = IF n = 0 THEN <<>> ELSE IF seq[n] \in S THEN Append(g[n - 1], seq[n]) ELSE g[n - 1]
    BY <1>2 DEF Kept
  <2>2. 0 \in 0 .. Len(seq)
    BY <1>1
  <2>3. ASSUME NEW n \in Nat, n + 1 <= Len(seq)
        PROVE  n + 1 \in 0 .. Len(seq) /\ n + 1 # 0 /\ (n + 1) - 1 = n
    BY <1>1, <2>3
  <2> QED
    BY <2>1, <2>2, <2>3
<1>5. 0 \in G
  <2>1. g[0] = <<>>
    BY <1>4
  <2>2. KeptSoFar(T, seq, S, 0, <<>>)
    BY DEF KeptSoFar
  <2> QED
    BY <2>1, <2>2
<1>6. ASSUME NEW n \in Nat, n \in G PROVE n + 1 \in G
  <2> SUFFICES ASSUME n + 1 <= Len(seq) PROVE KeptSoFar(T, seq, S, n + 1, g[n + 1])
    OBVIOUS
  <2>1. KeptSoFar(T, seq, S, n, g[n])
    BY <1>1, <1>6
  <2>2. CASE seq[n + 1] \in S
    BY <1>4, <2>1, <2>2, KeptStep
  <2>3. CASE seq[n + 1] \notin S
    <3>1. g[n + 1] = g[n]
      BY <1>4, <2>3
    <3> QED
      BY <2>1, <2>3, <3>1, KeptSkips
  <2> QED
    BY <2>2, <2>3
<1> HIDE DEF G
<1>7. Nat \subseteq G
  BY <1>5, <1>6, NatSetInduction
<1> QED
  BY <1>1, <1>3, <1>7 DEF G

-----------------------------------------------------------------------------
(* The inductive invariant *)

Rows(f)  == Range(stored[f])
All(f)   == Rows(f) \cup IF f \in Threads THEN {Parent} ELSE {}
Ended(f) == stored[f] \o IF f \in Threads THEN <<Parent>> ELSE <<>>
IdsOf(l) == {l[i].id : i \in DOMAIN l}

\* The messages that the events still to come will put into f, or take out of it.
Sent(what, f) == {events[i].entry.id : i \in {n \in DOMAIN events : events[n].what = what /\ events[n].feed = f}}

\* What will be in the list once these are in.
Expected == (IdsOf(list) \cup Sent("message", feed)) \ Sent("delete", feed)

Falls(seq) == \A i, j \in DOMAIN seq : i < j => seq[i] > seq[j]

StoredWell ==
  /\ \A f \in Feeds : Falls(stored[f]) /\ Rows(f) \subseteq 1 .. made
  /\ \A f, g \in Feeds : f # g => Rows(f) \cap Rows(g) = {}

\* A message is newer than whatever was spoken of before; it is deleted once, and then gone.
EventsWell ==
  /\ \A i \in DOMAIN events : events[i].entry.id \in 1 .. made
  /\ \A i, j \in DOMAIN events :
       /\ i < j /\ events[j].what = "message" => events[j].entry.id > events[i].entry.id
       /\ i # j /\ events[i].what = "delete" /\ events[j].what = "delete" => events[i].entry.id # events[j].entry.id
  /\ \A i \in DOMAIN events : events[i].what = "delete" => \A f \in Feeds : events[i].entry.id \notin Rows(f)

\* An event after the n-th changes m.
Updated(n, m) == \E j \in DOMAIN events : j > n /\ events[j].what = "update" /\ events[j].entry.id = m

\* The last event about a message that is not its deletion has its version.
LastWins ==
  \A i \in DOMAIN events :
    events[i].what # "delete" /\ ~Updated(i, events[i].entry.id)
      => events[i].entry.version = version[events[i].entry.id]

\* Before a list is there it is empty, and who shows no feed waits for nothing.
Unloaded ==
  /\ ~loaded => list = <<>> /\ ~top
  /\ \A s \in Slots : calls[s].kind \in Reading => calls[s].feed \in Feeds
  /\ feed = Nowhere => ~loaded /\ Awaited = {}

\* An answer awaited is about the feed shown, and no event can get in its way; what it
\* says is still so, and it goes where the list ends.
CallFits(c) ==
  /\ c.kind \in {"channel", "list", "more"}
  /\ c.kind # "more" => ~loaded
  /\ c.kind # "channel" => c.feed = feed /\ ~Queued(feed) /\ (c.served => c.page = Page(feed, c.skip))
  /\ c.kind = "list" => c.skip = 0
  /\ c.kind = "more" => loaded /\ loadingMore /\ c.skip = Len(list) /\ Parent \notin IdsOf(list)

\* Without a race there is one at most.
CallsFit == ~raced => \A s \in Awaited : Awaited = {s} /\ CallFits(calls[s])

\* The list falls, new messages go on top of it, and what will be in it is the newest part
\* of the feed.
InPlace ==
  /\ \A i, j \in DOMAIN list : i < j => list[i].id > list[j].id
  /\ \A x \in Sent("message", feed), y \in IdsOf(list) : x > y
  /\ Expected \subseteq All(feed)
  /\ \A x \in All(feed), y \in Expected : x > y => x \in Expected
  /\ top => All(feed) \subseteq Expected

ListFits == ~raced /\ loaded => InPlace

Pending(m) == \E s \in Slots : calls[s].kind = "edit" /\ calls[s].skip = m

\* What is not being changed is shown as it is stored.
VersionsFit ==
  ~raced /\ loaded =>
    \A i \in DOMAIN list :
      list[i].id \in All(feed) /\ ~Updated(0, list[i].id) /\ ~Pending(list[i].id) => list[i] = Entry(list[i].id)

FeedInv ==
  /\ FeedTypeOK
  /\ StoredWell
  /\ EventsWell
  /\ LastWins
  /\ Unloaded
  /\ CallsFit
  /\ ListFits
  /\ VersionsFit

-----------------------------------------------------------------------------
(* Types *)

EventType == [what : {"message", "update", "delete"}, feed : Feeds, entry : [id : Ids, version : 0 .. MaxEdits]]
CallType  == [kind : Reading \cup {"free", "channel", "edit"}, feed : Feeds \cup {Nowhere}, skip : Nat,
              served : BOOLEAN, page : Seq(Entries), version : 0 .. MaxEdits]

LEMMA EntryType ==
  ASSUME FeedTypeOK
  PROVE  /\ Entry(Parent) \in Entries
         /\ \A m \in Ids : Entry(m) \in Entries /\ Entry(m) \in [id : Ids, version : 0 .. MaxEdits]
         /\ \A m \in Ids \cup {Parent} : Entry(m) \in Entries /\ Entry(m).id = m
<1>1. 0 \in 0 .. MaxEdits /\ Parent \in 0 .. MaxMessages /\ Ids \subseteq 0 .. MaxMessages
  BY BoundsAssumption DEF BoundsAssumption, Parent, Ids
<1>2. \A m \in Ids : version[m] \in 0 .. MaxEdits
  BY DEF FeedTypeOK
<1>3. Parent \notin Ids
  BY DEF Parent, Ids
<1> QED
  BY <1>1, <1>2, <1>3 DEF Entry, Entries

LEMMA CallIsTyped ==
  ASSUME NEW kind \in Reading \cup {"free", "channel", "edit"}, NEW f \in Feeds \cup {Nowhere}, NEW skip \in Nat
  PROVE  Call(kind, f, skip) \in CallType
<1>1. <<>> \in Seq(Entries) /\ 0 \in 0 .. MaxEdits
  BY BoundsAssumption DEF BoundsAssumption
<1> QED
  BY <1>1 DEF Call, CallType

LEMMA FreeIsTyped == Free \in CallType
BY CallIsTyped DEF Free

\* The ids of a page; a page is their entries.
PageIds(f, skip) ==
  SubSeq(stored[f], skip + 1, IF skip + PageSize < Len(stored[f]) THEN skip + PageSize ELSE Len(stored[f]))
Closed(f, ids) == ids \o IF f \in Threads /\ Len(ids) < PageSize THEN <<Parent>> ELSE <<>>

LEMMA PageIdsType ==
  ASSUME FeedTypeOK, NEW f \in Feeds, NEW skip \in Nat
  PROVE  Closed(f, PageIds(f, skip)) \in Seq(Ids \cup {Parent})
<1>1. stored[f] \in Seq(Ids)
  BY DEF FeedTypeOK
<1>2. PageIds(f, skip) \in Seq(Ids)
  <2>1. Len(stored[f]) \in Nat /\ skip + PageSize \in Nat /\ skip + 1 \in Nat \ {0}
    BY <1>1, BoundsAssumption DEF BoundsAssumption
  <2>2. \A i \in 1 .. Len(stored[f]) : stored[f][i] \in Ids
    BY <1>1
  <2> DEFINE last == IF skip + PageSize < Len(stored[f]) THEN skip + PageSize ELSE Len(stored[f])
  <2>3. last \in Nat /\ last <= Len(stored[f])
    BY <2>1
  <2> HIDE DEF last
  <2>4. SubSeq(stored[f], skip + 1, last) \in Seq(Ids)
    BY <1>1, <2>1, <2>2, <2>3
  <2> QED
    BY <2>4 DEF PageIds, last
<1>3. PageIds(f, skip) \in Seq(Ids \cup {Parent}) /\ <<Parent>> \in Seq(Ids \cup {Parent}) /\ <<>> \in Seq(Ids \cup {Parent})
  <2> HIDE DEF PageIds
  <2>1. Len(PageIds(f, skip)) \in Nat /\ DOMAIN PageIds(f, skip) = 1 .. Len(PageIds(f, skip))
        /\ \A i \in 1 .. Len(PageIds(f, skip)) : PageIds(f, skip)[i] \in Ids \cup {Parent}
    BY <1>2
  <2>2. PageIds(f, skip) = [i \in 1 .. Len(PageIds(f, skip)) |-> PageIds(f, skip)[i]]
    BY <1>2
  <2> QED
    BY <2>1, <2>2
<1> HIDE DEF PageIds
<1>4. PageIds(f, skip) \o <<Parent>> \in Seq(Ids \cup {Parent}) /\ PageIds(f, skip) \o <<>> \in Seq(Ids \cup {Parent})
  BY <1>3
<1> QED
  BY <1>4, Zenon DEF Closed

LEMMA PageIsEntries ==
  ASSUME NEW f, NEW skip
  PROVE  Page(f, skip) = [i \in DOMAIN Closed(f, PageIds(f, skip)) |-> Entry(Closed(f, PageIds(f, skip))[i])]
BY DEF Page, PageIds, Closed

LEMMA PageType ==
  ASSUME FeedTypeOK, NEW f \in Feeds, NEW skip \in Nat
  PROVE  /\ Page(f, skip) \in Seq(Entries)
         /\ Len(Page(f, skip)) = Len(Closed(f, PageIds(f, skip)))
         /\ \A i \in DOMAIN Page(f, skip) : Page(f, skip)[i] = Entry(Closed(f, PageIds(f, skip))[i])
<1> DEFINE ids == Closed(f, PageIds(f, skip))
<1>1. ids \in Seq(Ids \cup {Parent})
  BY PageIdsType
<1>2. Page(f, skip) = [i \in DOMAIN ids |-> Entry(ids[i])]
  BY PageIsEntries
<1> HIDE DEF ids
<1>3. Len(ids) \in Nat /\ DOMAIN ids = 1 .. Len(ids) /\ \A i \in 1 .. Len(ids) : ids[i] \in Ids \cup {Parent}
  BY <1>1
<1>4. \A i \in 1 .. Len(ids) : Entry(ids[i]) \in Entries
  BY <1>3, EntryType
<1>5. Page(f, skip) = [i \in 1 .. Len(ids) |-> Entry(ids[i])]
  BY <1>2, <1>3
<1>6. Page(f, skip) \in Seq(Entries) /\ Len(Page(f, skip)) = Len(ids) /\ DOMAIN Page(f, skip) = 1 .. Len(ids)
  BY <1>3, <1>4, <1>5
<1> QED
  BY <1>5, <1>6 DEF ids

LEMMA FeedTypeInit == FeedInit => FeedTypeOK
<1> SUFFICES ASSUME FeedInit PROVE FeedTypeOK
  OBVIOUS
<1>1. 0 \in 0 .. MaxEdits /\ 0 \in 0 .. MaxMoves /\ made \in 0 .. MaxMessages /\ Existing \in Nat /\ 1 .. Existing \subseteq Ids
  BY BoundsAssumption DEF FeedInit, BoundsAssumption, Ids
<1>2. [i \in 1 .. Existing |-> i] \in Seq(Ids)
  BY <1>1
<1>3. Reverse([i \in 1 .. Existing |-> i]) \in Seq(Ids) /\ <<>> \in Seq(Ids)
  BY <1>1, <1>2 DEF Reverse
<1>4. stored \in [Feeds -> Seq(Ids)]
  BY <1>3 DEF FeedInit
<1>5. calls \in [Slots -> CallType] /\ \A s \in Slots : calls[s].kind = "free"
  BY FreeIsTyped DEF FeedInit, Free, Call
<1>6. list \in Seq(Entries) /\ events \in Seq(EventType)
  BY DEF FeedInit
<1> QED
  BY <1>1, <1>4, <1>5, <1>6 DEF FeedInit, FeedTypeOK, CallType, EventType

LEMMA ListTypes ==
  ASSUME FeedTypeOK, NEW S
  PROVE  Among(list, S) \in Seq(Entries) /\ \A f \in Feeds : Among(stored[f], S) \in Seq(Ids)
BY AmongKeeps DEF FeedTypeOK, KeptSoFar

LEMMA ReplaceType ==
  ASSUME NEW S, NEW seq \in Seq(S), NEW p, NEW e, p \in DOMAIN seq => e \in S
  PROVE  [seq EXCEPT ![p] = e] \in Seq(S)
<1>1. CASE p \in DOMAIN seq
  BY <1>1
<1>2. CASE p \notin DOMAIN seq
  <2>1. [seq EXCEPT ![p] = e] = seq
    BY <1>2
  <2> QED
    BY <2>1
<1> QED
  BY <1>1, <1>2

LEMMA PostedType ==
  ASSUME FeedTypeOK, made < MaxMessages, NEW f \in Feeds
  PROVE  made + 1 \in Ids /\ <<made + 1>> \o stored[f] \in Seq(Ids)
<1>1. made + 1 \in Ids
  BY BoundsAssumption DEF FeedTypeOK, BoundsAssumption, Ids
<1>2. <<made + 1>> \in Seq(Ids) /\ stored[f] \in Seq(Ids)
  BY <1>1 DEF FeedTypeOK
<1> QED
  BY <1>1, <1>2

LEMMA EmitType ==
  ASSUME FeedTypeOK, NEW what \in {"message", "update", "delete"}, NEW f \in Feeds,
         NEW e \in [id : Ids, version : 0 .. MaxEdits], Emit(what, f, e)
  PROVE  events' \in Seq(EventType) /\ raced' \in BOOLEAN
<1>1. [what |-> what, feed |-> f, entry |-> e] \in EventType
  BY DEF EventType
<1>2. events \in Seq(EventType)
  BY DEF FeedTypeOK, EventType
<1>3. raced' \in BOOLEAN
  BY DEF Emit, FeedTypeOK, BeingRead
<1> QED
  BY <1>1, <1>2, <1>3 DEF Emit

LEMMA EventTypes ==
  ASSUME FeedTypeOK, events # <<>>
  PROVE  /\ Head(events) \in EventType /\ Tail(events) \in Seq(EventType) /\ Head(events).entry \in Entries
         /\ Len(events) \in Nat \ {0} /\ Len(Tail(events)) = Len(events) - 1
         /\ DOMAIN events = 1 .. Len(events) /\ DOMAIN Tail(events) = 1 .. Len(events) - 1
         /\ Head(events) = events[1] /\ \A i \in 1 .. Len(events) - 1 : Tail(events)[i] = events[i + 1]
<1>1. events \in Seq(EventType)
  BY DEF FeedTypeOK, EventType
<1>2. Head(events) \in EventType /\ Tail(events) \in Seq(EventType)
  BY <1>1
<1>3. Ids \subseteq 0 .. MaxMessages
  BY DEF Ids
<1>4. Head(events).entry \in Entries
  BY <1>2, <1>3 DEF EventType, Entries
<1> QED
  BY <1>1, <1>2, <1>4

\* Calls that keep the type.
CallsTyped(c) == c \in [Slots -> CallType] /\ \A s \in Slots : c[s].kind = "edit" => c[s].skip \in Ids

LEMMA SetCallType ==
  ASSUME FeedTypeOK, NEW s \in Slots, NEW c \in CallType, c.kind = "edit" => c.skip \in Ids
  PROVE  CallsTyped([calls EXCEPT ![s] = c])
BY DEF FeedTypeOK, CallType, CallsTyped

LEMMA FeedTypeStep ==
  ASSUME FeedTypeOK, Unloaded, FeedNext
  PROVE  FeedTypeOK'
<1>0. CallsTyped(calls) /\ events \in Seq(EventType)
  BY DEF FeedTypeOK, CallsTyped, CallType, EventType
<1>00. ASSUME stored' \in [Feeds -> Seq(Ids)], version' \in [Ids -> 0 .. MaxEdits],
              feed' \in Feeds \cup {Nowhere}, loaded' \in BOOLEAN, top' \in BOOLEAN, loadingMore' \in BOOLEAN,
              list' \in Seq(Entries), CallsTyped(calls'), events' \in Seq(EventType),
              made' \in 0 .. MaxMessages, edits' \in 0 .. MaxEdits, moves' \in 0 .. MaxMoves, raced' \in BOOLEAN
       PROVE  FeedTypeOK'
  BY <1>00 DEF FeedTypeOK, CallsTyped, CallType, EventType
<1>01. \A s \in Slots : End(s) => CallsTyped(calls')
  BY FreeIsTyped, SetCallType DEF End, Free, Call
<1> USE DEF server, view
<1>1. ASSUME NEW s \in Slots, NEW f \in Feeds, Open(f, s) PROVE FeedTypeOK'
  <2>1. Call(IF f \in Channels THEN "channel" ELSE "list", f, 0) \in CallType
    BY CallIsTyped DEF Reading
  <2>2. \A x \in Slots : [calls[x] EXCEPT !.kind = "stray"] \in CallType
    BY <1>0 DEF CallsTyped, CallType, Reading
  <2>3. calls' \in [Slots -> CallType]
    BY <1>0, <1>1, <2>1, <2>2 DEF Open, CallsTyped
  <2>4. \A x \in Slots : calls'[x].kind = "edit" => x # s /\ calls'[x] = calls[x]
    <3>1. calls'[s].kind # "edit"
      BY <1>1 DEF Open, Call
    <3>2. ASSUME NEW x \in Slots, x # s, calls[x].kind = "more" PROVE calls'[x].kind = "stray"
      <4>1. calls'[x] = [calls[x] EXCEPT !.kind = "stray"] /\ calls[x] \in CallType
        BY <1>0, <1>1, <3>2 DEF Open, CallsTyped
      <4> QED
        BY <4>1 DEF CallType
    <3>3. ASSUME NEW x \in Slots, x # s, calls[x].kind # "more" PROVE calls'[x] = calls[x]
      BY <1>1, <3>3 DEF Open
    <3> QED
      BY <3>1, <3>2, <3>3
  <2>5. CallsTyped(calls')
    BY <1>0, <2>3, <2>4 DEF CallsTyped
  <2>6. moves' \in 0 .. MaxMoves
    BY <1>1, BoundsAssumption DEF Open, FeedTypeOK, BoundsAssumption
  <2>7. raced' \in BOOLEAN /\ list' \in Seq(Entries)
    BY <1>1 DEF Open, Shows
  <2> QED
    BY <1>0, <1>00, <1>1, <2>5, <2>6, <2>7 DEF Open, Shows, FeedTypeOK
<1>2. CASE Leave
  <2>1. CallsTyped(calls')
    BY <1>0, <1>2, FreeIsTyped DEF Leave, CallsTyped, Free, Call
  <2>2. list' \in Seq(Entries)
    BY <1>2 DEF Leave, Shows
  <2> QED
    BY <1>0, <1>00, <1>2, <2>1, <2>2 DEF Leave, Shows, FeedTypeOK
<1>3. ASSUME NEW s \in Slots, ChannelAnswered(s) PROVE FeedTypeOK'
  <2>1. Call("list", feed, 0) \in CallType /\ Call("list", feed, 0).kind = "list"
    BY CallIsTyped DEF Reading, FeedTypeOK, Call
  <2>2. CallsTyped(calls')
    BY <1>3, <2>1, SetCallType DEF ChannelAnswered
  <2>3. raced' \in BOOLEAN
    BY <1>3 DEF ChannelAnswered, Queued, FeedTypeOK
  <2> QED
    BY <1>0, <1>00, <1>3, <2>2, <2>3 DEF ChannelAnswered, FeedTypeOK
<1>4. ASSUME NEW s \in Slots, ListAnswered(s) PROVE FeedTypeOK'
  <2>1. CallsTyped(calls')
    BY <1>4, <1>01 DEF ListAnswered
  <2>2. calls[s].page \in Seq(Entries)
    BY <1>0 DEF CallsTyped, CallType
  <2>3. top' \in BOOLEAN
    BY <1>4 DEF ListAnswered, FeedTypeOK
  <2> QED
    BY <1>0, <1>00, <1>4, <2>1, <2>2, <2>3 DEF ListAnswered, FeedTypeOK
<1>5. ASSUME NEW s \in Slots, LoadMore(s) PROVE FeedTypeOK'
  <2>1. Len(list) \in Nat /\ feed \in Feeds \cup {Nowhere}
    BY DEF FeedTypeOK
  <2>2. Call("more", feed, Len(list)) \in CallType /\ Call("more", feed, Len(list)).kind = "more"
    BY <2>1, CallIsTyped DEF Reading, Call
  <2>3. CallsTyped(calls')
    BY <1>5, <2>2, SetCallType DEF LoadMore, Begin
  <2>4. raced' \in BOOLEAN
    BY <1>5 DEF LoadMore, Queued, FeedTypeOK
  <2> QED
    BY <1>0, <1>00, <1>5, <2>3, <2>4 DEF LoadMore, FeedTypeOK
<1>6. ASSUME NEW s \in Slots, MoreAnswered(s) PROVE FeedTypeOK'
  <2>1. CallsTyped(calls')
    BY <1>6, <1>01 DEF MoreAnswered
  <2>2. calls[s].page \in Seq(Entries) /\ list \in Seq(Entries)
    BY <1>0 DEF CallsTyped, CallType, FeedTypeOK
  <2>3. list \o calls[s].page \in Seq(Entries)
    BY <2>2
  <2>4. list' \in Seq(Entries)
    BY <1>6, <2>2, <2>3 DEF MoreAnswered
  <2>5. top' \in BOOLEAN /\ loadingMore' \in BOOLEAN
    BY <1>6 DEF MoreAnswered, FeedTypeOK
  <2> QED
    BY <1>0, <1>00, <1>6, <2>1, <2>4, <2>5 DEF MoreAnswered, FeedTypeOK
<1>7. ASSUME NEW s \in Slots, ReadFails(s) PROVE FeedTypeOK'
  BY <1>0, <1>00, <1>01, <1>7 DEF ReadFails, FeedTypeOK
<1>8. ASSUME NEW s \in Slots, NEW m \in Ids, OnEdit(m, s) PROVE FeedTypeOK'
  <2>1. edits + 1 \in 0 .. MaxEdits /\ m \in Nat /\ list \in Seq(Entries) /\ feed \in Feeds \cup {Nowhere}
    BY <1>8, BoundsAssumption DEF OnEdit, FeedTypeOK, BoundsAssumption, Ids
  <2>2. Call("edit", feed, m) \in CallType /\ Call("edit", feed, m).skip = m
    BY <2>1, CallIsTyped DEF Call
  <2>3. [Call("edit", feed, m) EXCEPT !.version = edits + 1] \in CallType
        /\ [Call("edit", feed, m) EXCEPT !.version = edits + 1].skip \in Ids
    BY <2>1, <2>2 DEF CallType
  <2>4. CallsTyped(calls')
    BY <1>8, <2>3, SetCallType DEF OnEdit, Begin
  <2>5. list' \in Seq(Entries)
    <3> DEFINE p == Position(m)
               e == [list[p] EXCEPT !.version = edits + 1]
    <3>1. list' = [list EXCEPT ![p] = e]
      BY <1>8 DEF OnEdit
    <3>2. p \in DOMAIN list => e \in Entries
      <4> HIDE DEF p
      <4>1. p \in DOMAIN list => list[p] \in Entries
        BY <2>1
      <4> QED
        BY <2>1, <4>1 DEF Entries
    <3> HIDE DEF p, e
    <3> QED
      BY <2>1, <3>1, <3>2, ReplaceType
  <2> QED
    BY <1>0, <1>00, <1>8, <2>1, <2>4, <2>5 DEF OnEdit, FeedTypeOK
<1>9. CASE Event
  <2>1. events' \in Seq(EventType) /\ Head(events).entry \in Entries /\ list \in Seq(Entries)
    BY <1>9, EventTypes DEF Event, FeedTypeOK
  <2>2. <<Head(events).entry>> \o list \in Seq(Entries)
    BY <2>1
  <2>3. Among(list, {x \in Entries : x.id # Head(events).entry.id}) \in Seq(Entries)
    BY ListTypes
  <2>4. [list EXCEPT ![Position(Head(events).entry.id)] = Head(events).entry] \in Seq(Entries)
    <3> DEFINE p == Position(Head(events).entry.id)
    <3> HIDE DEF p
    <3>1. [list EXCEPT ![p] = Head(events).entry] \in Seq(Entries)
      BY <2>1, ReplaceType
    <3> QED
      BY <3>1 DEF p
  <2>5. list' \in Seq(Entries)
    BY <1>9, <2>1, <2>2, <2>3, <2>4 DEF Event
  <2> QED
    BY <1>0, <1>00, <1>9, <2>1, <2>5 DEF Event, FeedTypeOK
<1>10. ASSUME NEW f \in Feeds, Post(f) PROVE FeedTypeOK'
  <2>1. made + 1 \in Ids /\ <<made + 1>> \o stored[f] \in Seq(Ids)
    BY <1>10, PostedType DEF Post
  <2>2. Entry(made + 1) \in [id : Ids, version : 0 .. MaxEdits]
    BY <2>1, EntryType
  <2>3. events' \in Seq(EventType) /\ raced' \in BOOLEAN
    BY <1>10, <2>2, EmitType DEF Post
  <2>4. stored' \in [Feeds -> Seq(Ids)] /\ made' \in 0 .. MaxMessages
    BY <1>10, <2>1 DEF Post, FeedTypeOK, Ids
  <2> QED
    BY <1>0, <1>00, <1>10, <2>3, <2>4 DEF Post, FeedTypeOK
<1>11. ASSUME NEW m \in Ids, Edit(m) PROVE FeedTypeOK'
  <2>1. edits + 1 \in 0 .. MaxEdits
    BY <1>11, BoundsAssumption DEF Edit, FeedTypeOK, BoundsAssumption
  <2>2. events' \in Seq(EventType) /\ raced' \in BOOLEAN
    BY <1>11, <2>1, EmitType DEF Edit, FeedOf
  <2> QED
    BY <1>0, <1>00, <1>11, <2>1, <2>2 DEF Edit, FeedTypeOK
<1>12. ASSUME NEW m \in Ids, Delete(m) PROVE FeedTypeOK'
  <2>1. Entry(m) \in [id : Ids, version : 0 .. MaxEdits]
    BY EntryType
  <2>2. events' \in Seq(EventType) /\ raced' \in BOOLEAN
    BY <1>12, <2>1, EmitType DEF Delete, FeedOf
  <2>3. stored' \in [Feeds -> Seq(Ids)]
    <3>1. PICK f \in Feeds : stored' = [stored EXCEPT ![f] = Among(stored[f], Ids \ {m})]
      BY <1>12 DEF Delete, FeedOf
    <3> QED
      BY <3>1, ListTypes DEF FeedTypeOK
  <2> QED
    BY <1>0, <1>00, <1>12, <2>2, <2>3 DEF Delete, FeedTypeOK
<1>13. ASSUME NEW s \in Slots, EditServed(s) PROVE FeedTypeOK'
  <2>1. CallsTyped(calls')
    BY <1>13, <1>01 DEF EditServed
  <2>2. calls[s].skip \in Ids /\ calls[s].version \in 0 .. MaxEdits
    BY <1>0, <1>13 DEF EditServed, CallsTyped, CallType
  <2>3. events' \in Seq(EventType) /\ raced' \in BOOLEAN /\ version' \in [Ids -> 0 .. MaxEdits]
    <3>1. CASE FeedOf(calls[s].skip) = {}
      BY <1>0, <1>13, <3>1 DEF EditServed, FeedTypeOK
    <3>2. CASE FeedOf(calls[s].skip) # {}
      <4>1. PICK f \in Feeds : Emit("update", f, [id |-> calls[s].skip, version |-> calls[s].version])
        BY <1>13, <3>2 DEF EditServed, FeedOf
      <4>2. events' \in Seq(EventType) /\ raced' \in BOOLEAN
        BY <2>2, <4>1, EmitType
      <4> QED
        BY <1>13, <2>2, <3>2, <4>2 DEF EditServed, FeedTypeOK
    <3> QED
      BY <3>1, <3>2
  <2> QED
    BY <1>0, <1>00, <1>13, <2>1, <2>3 DEF EditServed, FeedTypeOK
<1>14. ASSUME NEW s \in Slots, EditRefused(s) PROVE FeedTypeOK'
  BY <1>0, <1>00, <1>01, <1>14 DEF EditRefused, FeedTypeOK
<1>15. ASSUME NEW s \in Slots, ReadServed(s) PROVE FeedTypeOK'
  <2>1. calls[s] \in CallType /\ calls[s].feed \in Feeds /\ calls[s].skip \in Nat
    BY <1>0, <1>15 DEF ReadServed, Unloaded, CallsTyped, CallType
  <2>2. Page(calls[s].feed, calls[s].skip) \in Seq(Entries)
    BY <2>1, PageType
  <2> DEFINE c == [calls[s] EXCEPT !.served = TRUE, !.page = Page(calls[s].feed, calls[s].skip)]
  <2>3. c \in CallType /\ c.kind = calls[s].kind /\ c.kind # "edit"
    BY <1>15, <2>1, <2>2 DEF CallType, ReadServed, Reading
  <2>4. calls' = [calls EXCEPT ![s] = c]
    BY <1>0, <1>15 DEF ReadServed, CallsTyped, CallType
  <2> HIDE DEF c
  <2>5. CallsTyped(calls')
    BY <2>3, <2>4, SetCallType
  <2> QED
    BY <1>0, <1>00, <1>15, <2>5 DEF ReadServed, FeedTypeOK
<1> QED
  BY <1>1, <1>2, <1>3, <1>4, <1>5, <1>6, <1>7, <1>8, <1>9, <1>10, <1>11, <1>12, <1>13, <1>14, <1>15
     DEF FeedNext, Viewing, Serving

-----------------------------------------------------------------------------
(* What the server's steps do to the rows and to the queue *)

LEMMA FeedOfRows ==
  ASSUME FeedTypeOK, NEW m
  PROVE  FeedOf(m) = {f \in Feeds : m \in Rows(f)}
<1>1. ASSUME NEW f \in Feeds PROVE Contains(stored[f], m) <=> m \in Rows(f)
  <2>1. DOMAIN stored[f] = 1 .. Len(stored[f])
    BY DEF FeedTypeOK
  <2> QED
    BY <2>1 DEF Contains, Rows, Range
<1> QED
  BY <1>1 DEF FeedOf

LEMMA PostedRows ==
  ASSUME FeedTypeOK, NEW f \in Feeds, Post(f)
  PROVE  /\ Falls(stored[f]) /\ Rows(f) \subseteq 1 .. made => Falls(stored'[f])
         /\ Rows(f)' = Rows(f) \cup {made + 1}
         /\ \A g \in Feeds \ {f} : stored'[g] = stored[g] /\ Rows(g)' = Rows(g)
<1> DEFINE l == <<made + 1>> \o stored[f]
<1>1. stored[f] \in Seq(Ids) /\ made + 1 \in Ids /\ made \in Nat
  BY PostedType DEF Post, FeedTypeOK
<1>2. /\ Len(stored[f]) \in Nat /\ DOMAIN stored[f] = 1 .. Len(stored[f])
      /\ DOMAIN l = 1 .. Len(stored[f]) + 1 /\ l[1] = made + 1
      /\ \A i \in 1 .. Len(stored[f]) : l[i + 1] = stored[f][i]
  BY <1>1
<1>3. stored' = [stored EXCEPT ![f] = l]
  BY DEF Post
<1> HIDE DEF l
<1>4. stored'[f] = l /\ \A g \in Feeds \ {f} : stored'[g] = stored[g]
  BY <1>3 DEF FeedTypeOK
<1>5. \A i \in DOMAIN l : i = 1 \/ (i - 1 \in DOMAIN stored[f] /\ l[i] = stored[f][i - 1])
  <2>1. ASSUME NEW i \in DOMAIN l, i # 1 PROVE i - 1 \in 1 .. Len(stored[f]) /\ i = (i - 1) + 1
    BY <1>2, <2>1
  <2> QED
    BY <1>2, <2>1
<1>6. Range(l) = Range(stored[f]) \cup {made + 1}
  <2>1. \A i \in DOMAIN stored[f] : i + 1 \in DOMAIN l
    BY <1>2
  <2>2. 1 \in DOMAIN l
    BY <1>2
  <2>3. ASSUME NEW x \in Range(l) PROVE x \in Range(stored[f]) \cup {made + 1}
    <3>1. PICK i \in DOMAIN l : x = l[i]
      BY DEF Range
    <3> QED
      BY <1>2, <1>5, <3>1 DEF Range
  <2>4. ASSUME NEW x \in Range(stored[f]) PROVE x \in Range(l)
    <3>1. PICK i \in DOMAIN stored[f] : x = stored[f][i]
      BY DEF Range
    <3>2. i + 1 \in DOMAIN l /\ l[i + 1] = x
      BY <1>2, <3>1
    <3> QED
      BY <3>2 DEF Range
  <2>5. made + 1 \in Range(l)
    BY <1>2, <2>2 DEF Range
  <2> QED
    BY <2>3, <2>4, <2>5
<1>7. ASSUME Falls(stored[f]), Rows(f) \subseteq 1 .. made, NEW i \in DOMAIN l, NEW j \in DOMAIN l, i < j
      PROVE  l[i] > l[j]
  <2>1. j - 1 \in DOMAIN stored[f] /\ l[j] = stored[f][j - 1] /\ i \in Nat /\ j \in Nat
    BY <1>2, <1>5, <1>7
  <2>2. CASE i = 1
    <3>1. l[j] \in 1 .. made
      BY <1>7, <2>1 DEF Rows, Range
    <3> QED
      BY <1>1, <1>2, <2>2, <3>1
  <2>3. CASE i # 1
    <3>1. i - 1 \in DOMAIN stored[f] /\ l[i] = stored[f][i - 1] /\ i - 1 < j - 1
      BY <1>5, <1>7, <2>1, <2>3
    <3> QED
      BY <1>7, <2>1, <3>1 DEF Falls
  <2> QED
    BY <2>2, <2>3
<1> QED
  BY <1>4, <1>6, <1>7 DEF Falls, Rows

LEMMA DeletedRows ==
  ASSUME FeedTypeOK, NEW m \in Ids, Delete(m)
  PROVE  \E f \in Feeds :
           /\ m \in Rows(f) /\ Emit("delete", f, Entry(m))
           /\ Falls(stored[f]) => Falls(stored'[f])
           /\ Rows(f)' = Rows(f) \ {m}
           /\ \A g \in Feeds \ {f} : stored'[g] = stored[g] /\ Rows(g)' = Rows(g)
<1>1. PICK f \in FeedOf(m) : stored' = [stored EXCEPT ![f] = Among(stored[f], Ids \ {m})] /\ Emit("delete", f, Entry(m))
  BY DEF Delete
<1> DEFINE k == Among(stored[f], Ids \ {m})
<1>2. f \in Feeds /\ m \in Rows(f)
  BY FeedOfRows
<1>3. stored'[f] = k /\ \A g \in Feeds \ {f} : stored'[g] = stored[g]
  BY <1>1, <1>2 DEF FeedTypeOK
<1>4. stored[f] \in Seq(Ids)
  BY <1>2 DEF FeedTypeOK
<1>5. KeptSoFar(Ids, stored[f], Ids \ {m}, Len(stored[f]), k)
  BY <1>4, AmongKeeps
<1> HIDE DEF k
<1>6. DOMAIN stored[f] = 1 .. Len(stored[f]) /\ \A p \in DOMAIN stored[f] : stored[f][p] \in Ids
  BY <1>4
<1>7. Range(k) = Range(stored[f]) \ {m}
  <2>1. ASSUME NEW x \in Range(k) PROVE x \in Range(stored[f]) \ {m}
    <3>1. PICK i \in DOMAIN k : x = k[i]
      BY DEF Range
    <3>2. k[i] \in Ids \ {m} /\ \E p \in 1 .. Len(stored[f]) : k[i] = stored[f][p]
      BY <1>5, <3>1 DEF KeptSoFar
    <3> QED
      BY <1>6, <3>1, <3>2 DEF Range
  <2>2. ASSUME NEW x \in Range(stored[f]) \ {m} PROVE x \in Range(k)
    <3>1. PICK p \in DOMAIN stored[f] : x = stored[f][p]
      BY DEF Range
    <3> QED
      BY <1>5, <1>6, <2>2, <3>1 DEF Range, KeptSoFar
  <2> QED
    BY <2>1, <2>2
<1>8. Falls(stored[f]) => Falls(k)
  <2>1. ASSUME Falls(stored[f]), NEW i \in DOMAIN k, NEW j \in DOMAIN k, i < j PROVE k[i] > k[j]
    <3>0. \A a, b \in DOMAIN k : a < b => \E p, q \in 1 .. Len(stored[f]) : p < q /\ k[a] = stored[f][p] /\ k[b] = stored[f][q]
      BY <1>5 DEF KeptSoFar
    <3>1. PICK p \in DOMAIN stored[f], q \in DOMAIN stored[f] : p < q /\ k[i] = stored[f][p] /\ k[j] = stored[f][q]
      BY <1>6, <2>1, <3>0
    <3> QED
      BY <2>1, <3>1 DEF Falls
  <2> QED
    BY <2>1 DEF Falls
<1> QED
  BY <1>1, <1>2, <1>3, <1>7, <1>8 DEF Rows

LEMMA StoredStep ==
  ASSUME FeedTypeOK, StoredWell, FeedNext
  PROVE  StoredWell'
<1> USE DEF server, view
<1>0. ASSUME UNCHANGED <<stored, made>> PROVE StoredWell'
  BY <1>0 DEF StoredWell, Rows
<1>1. ASSUME NEW f \in Feeds, Post(f) PROVE StoredWell'
  <2>1. made' = made + 1 /\ made \in Nat
    BY <1>1 DEF Post, FeedTypeOK
  <2>2. /\ Falls(stored'[f]) /\ Rows(f)' = Rows(f) \cup {made + 1}
        /\ \A g \in Feeds \ {f} : stored'[g] = stored[g] /\ Rows(g)' = Rows(g)
    BY <1>1, PostedRows DEF StoredWell
  <2>3. \A g \in Feeds : Falls(stored'[g])
    BY <2>2 DEF StoredWell
  <2>4. \A g \in Feeds : Rows(g)' \subseteq 1 .. made'
    <3>1. 1 .. made \subseteq 1 .. made' /\ made + 1 \in 1 .. made'
      BY <2>1
    <3> QED
      BY <2>2, <3>1 DEF StoredWell
  <2>5. \A g \in Feeds : made + 1 \notin Rows(g)
    <3>1. made + 1 \notin 1 .. made
      BY <2>1
    <3> QED
      BY <3>1 DEF StoredWell
  <2>6. \A g, h \in Feeds : g # h => Rows(g)' \cap Rows(h)' = {}
    BY <2>2, <2>5 DEF StoredWell
  <2> QED
    BY <2>3, <2>4, <2>6 DEF StoredWell
<1>2. ASSUME NEW m \in Ids, Delete(m) PROVE StoredWell'
  <2>1. PICK f \in Feeds :
          /\ m \in Rows(f) /\ Emit("delete", f, Entry(m))
          /\ Falls(stored[f]) => Falls(stored'[f])
          /\ Rows(f)' = Rows(f) \ {m}
          /\ \A g \in Feeds \ {f} : stored'[g] = stored[g] /\ Rows(g)' = Rows(g)
    BY <1>2, DeletedRows
  <2>2. made' = made
    BY <1>2 DEF Delete
  <2>3. \A g \in Feeds : Rows(g)' \subseteq Rows(g)
    BY <2>1
  <2>4. \A g \in Feeds : Falls(stored'[g])
    BY <2>1 DEF StoredWell
  <2> QED
    BY <2>2, <2>3, <2>4 DEF StoredWell
<1>3. \A s \in Slots : Viewing(s) => UNCHANGED <<stored, made>>
  BY DEF Viewing, Open, ChannelAnswered, ListAnswered, LoadMore, MoreAnswered, ReadFails, OnEdit
<1>4. Leave \/ Event => UNCHANGED <<stored, made>>
  BY DEF Leave, Event
<1>5. \A s \in Slots : EditServed(s) \/ EditRefused(s) \/ ReadServed(s) => UNCHANGED <<stored, made>>
  BY DEF EditServed, EditRefused, ReadServed
<1>6. \A m \in Ids : Edit(m) => UNCHANGED <<stored, made>>
  BY DEF Edit
<1> QED
  BY <1>0, <1>1, <1>2, <1>3, <1>4, <1>5, <1>6 DEF FeedNext, Serving

\* A new event is the last of the queue.
LEMMA Emitted ==
  ASSUME FeedTypeOK, NEW what, NEW f, NEW e, Emit(what, f, e)
  PROVE  /\ Len(events) \in Nat /\ DOMAIN events = 1 .. Len(events)
         /\ DOMAIN events' = 1 .. Len(events) + 1
         /\ events'[Len(events) + 1] = [what |-> what, feed |-> f, entry |-> e]
         /\ \A i \in 1 .. Len(events) : events'[i] = events[i]
         /\ \A i \in DOMAIN events' : i \in DOMAIN events \/ i = Len(events) + 1
         /\ DOMAIN events \subseteq DOMAIN events' /\ Len(events) + 1 \in DOMAIN events'
<1>1. events \in Seq(EventType)
  BY DEF FeedTypeOK, EventType
<1> DEFINE new == [what |-> what, feed |-> f, entry |-> e]
<1>2. events' = Append(events, new)
  BY DEF Emit
<1> HIDE DEF new
<1>3. /\ Len(events) \in Nat /\ DOMAIN events = 1 .. Len(events)
      /\ DOMAIN events' = 1 .. Len(events) + 1
      /\ events'[Len(events) + 1] = new
      /\ \A i \in 1 .. Len(events) : events'[i] = events[i]
  BY <1>1, <1>2
<1> QED
  BY <1>3 DEF new

-----------------------------------------------------------------------------
(* Positions *)

LEMMA LeastOf ==
  ASSUME NEW I, I \subseteq Nat, I # {}
  PROVE  \E x \in I : \A y \in I : x <= y
<1>1. IsWellFoundedOn(OpToRel(<, Nat), Nat)
  BY NatLessThanWellFounded, Zenon
<1>2. PICK x \in I : \A y \in I : ~(<<y, x>> \in OpToRel(<, Nat))
  BY <1>1, WFMin, Zenon
<1>3. x \in Nat /\ \A y \in I : y \in Nat /\ ~(y < x)
  BY <1>2 DEF OpToRel
<1>4. \A y \in I : x <= y
  BY <1>3
<1> QED
  BY <1>4

\* The first place of m in the list, or 0.
LEMMA PositionIs ==
  ASSUME FeedTypeOK, NEW m
  PROVE  IF m \in IdsOf(list) THEN Position(m) \in DOMAIN list /\ list[Position(m)].id = m ELSE Position(m) = 0
<1> DEFINE I == {i \in 1 .. Len(list) : list[i].id = m}
<1>1. Position(m) = IF I # {} THEN CHOOSE x \in I : \A y \in I : x =< y ELSE 0
  BY DEF Position, SelectInSeq, Min
<1>2. DOMAIN list = 1 .. Len(list)
  BY DEF FeedTypeOK
<1>3. m \in IdsOf(list) <=> I # {}
  BY <1>2 DEF IdsOf
<1>4. ASSUME I # {} PROVE Position(m) \in I
  <2>1. \E x \in I : \A y \in I : x <= y
    <3>1. I \subseteq Nat
      OBVIOUS
    <3> HIDE DEF I
    <3> QED
      BY <1>4, <3>1, LeastOf
  <2> HIDE DEF I
  <2> QED
    BY <1>1, <1>4, <2>1
<1>5. ASSUME I = {} PROVE Position(m) = 0
  BY <1>1, <1>5
<1> QED
  BY <1>2, <1>3, <1>4, <1>5

LEMMA SamePlaces ==
  ASSUME NEW a \in Seq(Nat), NEW b \in Seq(Nat), Falls(a), Falls(b), Range(a) \subseteq Range(b),
         \A x \in Range(b), y \in Range(a) : x > y => x \in Range(a)
  PROVE  Len(a) <= Len(b) /\ \A i \in 1 .. Len(a) : a[i] = b[i]
<1> DEFINE G == {n \in Nat : \A i \in 1 .. n : i <= Len(a) => i <= Len(b) /\ a[i] = b[i]}
<1>1. /\ Len(a) \in Nat /\ DOMAIN a = 1 .. Len(a) /\ \A i \in 1 .. Len(a) : a[i] \in Nat
      /\ Len(b) \in Nat /\ DOMAIN b = 1 .. Len(b) /\ \A i \in 1 .. Len(b) : b[i] \in Nat
  OBVIOUS
<1>2. 0 \in G
  OBVIOUS
<1>3. ASSUME NEW n \in Nat, n \in G PROVE n + 1 \in G
  <2> DEFINE k == n + 1
  <2>1. ASSUME k <= Len(a) PROVE k <= Len(b) /\ a[k] = b[k]
    <3>1. k \in DOMAIN a /\ 1 .. n \subseteq DOMAIN a /\ a[k] \in Nat
      BY <1>1, <2>1
    <3>2. \A i \in 1 .. n : i \in DOMAIN b /\ a[i] = b[i] /\ i < k
      BY <1>1, <1>3, <2>1
    <3>3. a[k] \in Range(b)
      BY <3>1 DEF Range
    <3>4. PICK j \in DOMAIN b : b[j] = a[k]
      BY <3>3 DEF Range
    <3>5. j \notin 1 .. n
      <4>1. ASSUME j \in 1 .. n PROVE FALSE
        <5>1. a[j] > a[k]
          BY <3>1, <3>2, <4>1 DEF Falls
        <5> QED
          BY <1>1, <3>1, <3>2, <3>4, <4>1, <5>1
      <4> QED
        BY <4>1
    <3>6. k <= j /\ k \in DOMAIN b
      BY <1>1, <3>4, <3>5
    <3>7. j = k
      <4>1. ASSUME k < j PROVE FALSE
        <5>1. b[k] > b[j]
          BY <3>4, <3>6, <4>1 DEF Falls
        <5>2. b[k] \in Range(a)
          <6>1. b[k] \in Range(b) /\ a[k] \in Range(a)
            BY <3>1, <3>6 DEF Range
          <6> QED
            BY <3>4, <5>1, <6>1
        <5>3. PICK i \in DOMAIN a : a[i] = b[k]
          BY <5>2 DEF Range
        <5>4. a[i] > a[k]
          BY <3>4, <5>1, <5>3
        <5>5. i \in 1 .. n
          <6>1. i # k
            BY <3>1, <5>4
          <6>2. ~(k < i)
            <7>1. ASSUME k < i PROVE FALSE
              <8>1. a[k] > a[i]
                BY <3>1, <7>1 DEF Falls
              <8> QED
                BY <1>1, <3>1, <5>4, <8>1
            <7> QED
              BY <7>1
          <6> QED
            BY <1>1, <6>1, <6>2
        <5>6. b[i] > b[k]
          BY <3>2, <3>6, <5>5 DEF Falls
        <5>7. b[i] = b[k] /\ b[k] \in Nat
          BY <1>1, <3>2, <3>6, <5>3, <5>5
        <5> QED
          BY <5>6, <5>7
      <4> QED
        BY <1>1, <3>4, <3>6, <4>1
    <3> QED
      BY <1>1, <3>4, <3>6, <3>7
  <2>2. \A i \in 1 .. n + 1 : i \in 1 .. n \/ i = n + 1
    OBVIOUS
  <2> QED
    BY <1>3, <2>1, <2>2
<1> HIDE DEF G
<1>4. Nat \subseteq G
  BY <1>2, <1>3, NatSetInduction
<1>5. Len(a) \in G
  BY <1>1, <1>4
<1>6. \A i \in 1 .. Len(a) : i <= Len(b) /\ a[i] = b[i]
  BY <1>1, <1>5 DEF G
<1>7. Len(a) <= Len(b)
  BY <1>1, <1>6
<1> QED
  BY <1>6, <1>7

-----------------------------------------------------------------------------
(* The queue *)

\* Steps by which the server does nothing.
Quiet == UNCHANGED <<stored, version, made, events>>

LEMMA QuietSteps ==
  /\ \A s \in Slots : Viewing(s) \/ EditRefused(s) \/ ReadServed(s) => Quiet
  /\ Leave => Quiet
<1> USE DEF server, Quiet
<1>1. \A s \in Slots : EditRefused(s) \/ ReadServed(s) => Quiet
  BY DEF EditRefused, ReadServed
<1>2. \A s \in Slots : Viewing(s) => Quiet
  BY DEF Viewing, Open, ChannelAnswered, ListAnswered, LoadMore, MoreAnswered, ReadFails, OnEdit
<1>3. Leave => Quiet
  BY DEF Leave
<1> QED
  BY <1>1, <1>2, <1>3

\* What a served edit does: nothing, or the edit of a stored message.
LEMMA ServedEdits ==
  ASSUME FeedTypeOK, NEW s \in Slots, EditServed(s)
  PROVE  /\ UNCHANGED <<stored, made>>
         /\ calls[s].kind = "edit" /\ calls' = [calls EXCEPT ![s] = Free]
         /\ \/ Quiet /\ raced' = raced /\ \A f \in Feeds : calls[s].skip \notin Rows(f)
            \/ \E f \in Feeds : /\ calls[s].skip \in Rows(f)
                                /\ version' = [version EXCEPT ![calls[s].skip] = calls[s].version]
                                /\ Emit("update", f, [id |-> calls[s].skip, version |-> calls[s].version])
<1>1. UNCHANGED <<stored, made>> /\ calls[s].kind = "edit" /\ calls' = [calls EXCEPT ![s] = Free]
  BY DEF EditServed, End
<1>2. CASE FeedOf(calls[s].skip) = {}
  <2>1. Quiet /\ raced' = raced
    BY <1>1, <1>2 DEF EditServed, Quiet
  <2> QED
    BY <1>1, <1>2, <2>1, FeedOfRows
<1>3. CASE FeedOf(calls[s].skip) # {}
  <2>1. \E f \in FeedOf(calls[s].skip) : Emit("update", f, [id |-> calls[s].skip, version |-> calls[s].version])
    BY <1>3 DEF EditServed
  <2>2. version' = [version EXCEPT ![calls[s].skip] = calls[s].version]
    BY <1>3 DEF EditServed
  <2> QED
    BY <1>1, <2>1, <2>2, FeedOfRows
<1> QED
  BY <1>2, <1>3

LEMMA EditsStored ==
  ASSUME FeedTypeOK, NEW m \in Ids, Edit(m)
  PROVE  /\ UNCHANGED <<stored, made, calls>>
         /\ \E f \in Feeds : /\ m \in Rows(f)
                             /\ version' = [version EXCEPT ![m] = edits + 1]
                             /\ Emit("update", f, [id |-> m, version |-> edits + 1])
<1>1. UNCHANGED <<stored, made, calls>>
  BY DEF Edit
<1>2. PICK f \in FeedOf(m) : Emit("update", f, [id |-> m, version |-> edits + 1])
  BY DEF Edit
<1> QED
  BY <1>1, <1>2, FeedOfRows DEF Edit

\* EventsWell survives a new event.
LEMMA EmittedWell ==
  ASSUME FeedTypeOK, EventsWell, NEW what, NEW f, NEW e, Emit(what, f, e),
         e.id \in 1 .. made', made' \in {made, made + 1},
         what = "message" => e.id > made,
         \A i \in DOMAIN events : events[i].what = "delete" => \A g \in Feeds : events[i].entry.id \notin Rows(g)',
         what = "delete" => /\ \A g \in Feeds : e.id \notin Rows(g)'
                            /\ \A i \in DOMAIN events : events[i].what = "delete" => events[i].entry.id # e.id
  PROVE  EventsWell'
<1> DEFINE N == Len(events)
           new == [what |-> what, feed |-> f, entry |-> e]
<1>1. /\ N \in Nat /\ DOMAIN events = 1 .. N /\ DOMAIN events' = 1 .. N + 1
      /\ events'[N + 1] = new
      /\ \A i \in 1 .. N : events'[i] = events[i]
      /\ \A i \in DOMAIN events' : i \in DOMAIN events \/ i = N + 1
  BY Emitted
<1>2. new.what = what /\ new.feed = f /\ new.entry = e
  OBVIOUS
<1> HIDE DEF new, N
<1>3. made \in Nat /\ 1 .. made \subseteq 1 .. made'
  BY DEF FeedTypeOK
<1>4. \A i \in DOMAIN events' : events'[i].entry.id \in 1 .. made'
  BY <1>1, <1>2, <1>3 DEF EventsWell
<1>5. ASSUME NEW i \in DOMAIN events', NEW j \in DOMAIN events', i < j, events'[j].what = "message"
      PROVE  events'[j].entry.id > events'[i].entry.id
  <2>1. i \in DOMAIN events
    BY <1>1, <1>5
  <2>2. CASE j \in DOMAIN events
    BY <1>1, <1>5, <2>1, <2>2 DEF EventsWell
  <2>3. CASE j = N + 1
    <3>1. events[i].entry.id \in 1 .. made
      BY <2>1 DEF EventsWell
    <3>2. e.id > made /\ e.id \in Nat
      BY <1>1, <1>2, <1>3, <1>5, <2>3
    <3> QED
      BY <1>1, <1>2, <1>3, <2>1, <2>3, <3>1, <3>2
  <2> QED
    BY <1>1, <2>2, <2>3
<1>6. ASSUME NEW i \in DOMAIN events', NEW j \in DOMAIN events', i # j, events'[i].what = "delete", events'[j].what = "delete"
      PROVE  events'[i].entry.id # events'[j].entry.id
  BY <1>1, <1>2, <1>6 DEF EventsWell
<1>7. ASSUME NEW i \in DOMAIN events', events'[i].what = "delete", NEW g \in Feeds
      PROVE  events'[i].entry.id \notin Rows(g)'
  BY <1>1, <1>2, <1>7
<1> QED
  BY <1>4, <1>5, <1>6, <1>7 DEF EventsWell

\* After the first event the rest of the queue is as it was.
LEMMA Received ==
  ASSUME FeedTypeOK, Event
  PROVE  /\ UNCHANGED <<stored, version, made, feed, loaded, top, loadingMore, calls, raced>>
         /\ 1 \in DOMAIN events /\ Head(events) = events[1]
         /\ \A i \in DOMAIN events' : i \in Nat /\ i + 1 \in DOMAIN events /\ events'[i] = events[i + 1]
         /\ \A i \in DOMAIN events : i \in Nat /\ (i = 1 \/ (i - 1 \in DOMAIN events' /\ i > 1 /\ events'[i - 1] = events[i]))
<1>1. events # <<>> /\ events' = Tail(events) /\ UNCHANGED <<stored, version, made, feed, loaded, top, loadingMore, calls, raced>>
  BY DEF Event, server
<1>2. /\ Len(events) \in Nat \ {0} /\ DOMAIN events = 1 .. Len(events) /\ DOMAIN events' = 1 .. Len(events) - 1
      /\ Head(events) = events[1] /\ \A i \in 1 .. Len(events) - 1 : events'[i] = events[i + 1]
  BY <1>1, EventTypes
<1>3. \A i \in 1 .. Len(events) - 1 : i \in Nat /\ i + 1 \in 1 .. Len(events)
  BY <1>2
<1>4. \A i \in 1 .. Len(events) : i \in Nat /\ (i = 1 \/ (i - 1 \in 1 .. Len(events) - 1 /\ i > 1 /\ (i - 1) + 1 = i))
  BY <1>2
<1>5. 1 \in 1 .. Len(events)
  BY <1>2
<1>6. \A i \in DOMAIN events : i \in Nat /\ (i = 1 \/ (i - 1 \in DOMAIN events' /\ i > 1 /\ events'[i - 1] = events[i]))
  BY <1>2, <1>4
<1> QED
  BY <1>1, <1>2, <1>3, <1>5, <1>6

LEMMA EventsStep ==
  ASSUME FeedTypeOK, StoredWell, EventsWell, FeedNext
  PROVE  EventsWell'
<1>1. ASSUME Quiet PROVE EventsWell'
  BY <1>1 DEF Quiet, EventsWell, Rows
<1>2. CASE Event
  <2>1. /\ UNCHANGED <<stored, made>>
        /\ \A i \in DOMAIN events' : i \in Nat /\ i + 1 \in DOMAIN events /\ events'[i] = events[i + 1]
    BY <1>2, Received
  <2>2. ASSUME NEW i \in DOMAIN events', NEW j \in DOMAIN events', i < j, events'[j].what = "message"
        PROVE  events'[j].entry.id > events'[i].entry.id
    <3>1. i + 1 < j + 1
      BY <2>1, <2>2
    <3> QED
      BY <2>1, <2>2, <3>1 DEF EventsWell
  <2>3. ASSUME NEW i \in DOMAIN events', NEW j \in DOMAIN events', i # j, events'[i].what = "delete", events'[j].what = "delete"
        PROVE  events'[i].entry.id # events'[j].entry.id
    <3>1. i + 1 # j + 1
      BY <2>1, <2>3
    <3> QED
      BY <2>1, <2>3, <3>1 DEF EventsWell
  <2>4. \A i \in DOMAIN events' : /\ events'[i].entry.id \in 1 .. made'
                                  /\ events'[i].what = "delete" => \A f \in Feeds : events'[i].entry.id \notin Rows(f)'
    BY <2>1 DEF EventsWell, Rows
  <2> QED
    BY <2>2, <2>3, <2>4 DEF EventsWell
<1>3. ASSUME NEW f \in Feeds, Post(f) PROVE EventsWell'
  <2>1. made' = made + 1 /\ made \in Nat /\ Emit("message", f, Entry(made + 1))
    BY <1>3 DEF Post, FeedTypeOK
  <2>2. Entry(made + 1).id = made + 1
    BY DEF Entry
  <2>3. \A g \in Feeds : Rows(g)' \subseteq Rows(g) \cup {made + 1}
    BY <1>3, PostedRows
  <2>4. \A i \in DOMAIN events : events[i].entry.id # made + 1
    BY <2>1 DEF EventsWell
  <2>5. \A i \in DOMAIN events : events[i].what = "delete" => \A g \in Feeds : events[i].entry.id \notin Rows(g)'
    BY <2>3, <2>4 DEF EventsWell
  <2>6. made + 1 \in 1 .. made' /\ made + 1 > made
    BY <2>1
  <2> HIDE DEF EventsWell
  <2> QED
    BY <2>1, <2>2, <2>5, <2>6, EmittedWell
<1>4. ASSUME NEW m \in Ids, Delete(m) PROVE EventsWell'
  <2>1. PICK f \in Feeds :
          /\ m \in Rows(f) /\ Emit("delete", f, Entry(m))
          /\ Falls(stored[f]) => Falls(stored'[f])
          /\ Rows(f)' = Rows(f) \ {m}
          /\ \A g \in Feeds \ {f} : stored'[g] = stored[g] /\ Rows(g)' = Rows(g)
    BY <1>4, DeletedRows
  <2>2. made' = made /\ m \in 1 .. made /\ Entry(m).id = m
    BY <1>4, <2>1 DEF Delete, StoredWell, Entry
  <2>3. \A g \in Feeds : Rows(g)' \subseteq Rows(g) /\ m \notin Rows(g)'
    BY <2>1 DEF StoredWell
  <2>4. \A i \in DOMAIN events : events[i].what = "delete" =>
          /\ \A g \in Feeds : events[i].entry.id \notin Rows(g)'
          /\ events[i].entry.id # m
    BY <2>1, <2>3 DEF EventsWell
  <2> QED
    BY <2>1, <2>2, <2>3, <2>4, EmittedWell
<1>5. ASSUME NEW f \in Feeds, NEW m \in Rows(f), NEW v, UNCHANGED <<stored, made>>, Emit("update", f, [id |-> m, version |-> v])
      PROVE  EventsWell'
  <2>1. m \in 1 .. made' /\ [id |-> m, version |-> v].id = m
    BY <1>5 DEF StoredWell
  <2>2. \A i \in DOMAIN events : events[i].what = "delete" => \A g \in Feeds : events[i].entry.id \notin Rows(g)'
    BY <1>5 DEF EventsWell, Rows
  <2> QED
    BY <1>5, <2>1, <2>2, EmittedWell
<1>6. ASSUME NEW m \in Ids, Edit(m) PROVE EventsWell'
  BY <1>5, <1>6, EditsStored
<1>7. ASSUME NEW s \in Slots, EditServed(s) PROVE EventsWell'
  BY <1>1, <1>5, <1>7, ServedEdits
<1> QED
  BY <1>1, <1>2, <1>3, <1>4, <1>6, <1>7, QuietSteps DEF FeedNext, Serving

\* LastWins survives a new event that has the version it leaves.
LEMMA EmittedLast ==
  ASSUME FeedTypeOK, LastWins, NEW what, NEW f, NEW e, Emit(what, f, e),
         what # "delete" => e.version = version'[e.id],
         \A m \in Ids : version'[m] = version[m] \/ (what = "update" /\ m = e.id)
  PROVE  LastWins'
<1> DEFINE N == Len(events)
           new == [what |-> what, feed |-> f, entry |-> e]
<1>1. /\ N \in Nat /\ DOMAIN events = 1 .. N /\ DOMAIN events' = 1 .. N + 1
      /\ events'[N + 1] = new
      /\ \A i \in 1 .. N : events'[i] = events[i]
      /\ \A i \in DOMAIN events' : i \in DOMAIN events \/ i = N + 1
  BY Emitted
<1>2. new.what = what /\ new.entry = e
  OBVIOUS
<1> HIDE DEF new, N
<1>3. \A i \in DOMAIN events : events[i].entry.id \in Ids
  <2>1. events \in Seq(EventType)
    BY DEF FeedTypeOK, EventType
  <2>2. \A i \in DOMAIN events : events[i] \in EventType
    BY <2>1
  <2> QED
    BY <2>2 DEF EventType
<1>4. ASSUME NEW i \in DOMAIN events', events'[i].what # "delete", ~Updated(i, events[i].entry.id)'
      PROVE  events'[i].entry.version = version'[events'[i].entry.id]
  <2>1. CASE i = N + 1
    BY <1>1, <1>2, <1>4, <2>1
  <2>2. CASE i \in DOMAIN events
    <3>1. events'[i] = events[i] /\ events[i].entry.id \in Ids
      BY <1>1, <1>3, <2>2
    <3>2. ~Updated(i, events[i].entry.id)
      <4>1. DOMAIN events \subseteq DOMAIN events'
        BY <1>1
      <4> QED
        BY <1>1, <1>4, <3>1, <4>1 DEF Updated
    <3>3. events[i].entry.version = version[events[i].entry.id]
      BY <1>4, <2>2, <3>1, <3>2 DEF LastWins
    <3>4. ~(what = "update" /\ events[i].entry.id = e.id)
      <4>1. N + 1 \in DOMAIN events' /\ N + 1 > i
        BY <1>1, <2>2
      <4> QED
        BY <1>1, <1>2, <1>4, <3>1, <4>1 DEF Updated
    <3> QED
      BY <3>1, <3>3, <3>4
  <2> QED
    BY <1>1, <2>1, <2>2
<1> QED
  BY <1>4 DEF LastWins

LEMMA LastStep ==
  ASSUME FeedTypeOK, StoredWell, LastWins, FeedNext
  PROVE  LastWins'
<1>1. ASSUME Quiet PROVE LastWins'
  BY <1>1 DEF Quiet, LastWins, Updated
<1>2. CASE Event
  <2>1. /\ UNCHANGED version
        /\ \A i \in DOMAIN events' : i \in Nat /\ i + 1 \in DOMAIN events /\ events'[i] = events[i + 1]
        /\ \A i \in DOMAIN events : i \in Nat /\ (i = 1 \/ (i - 1 \in DOMAIN events' /\ i > 1 /\ events'[i - 1] = events[i]))
    BY <1>2, Received
  <2>2. ASSUME NEW i \in DOMAIN events', events'[i].what # "delete", ~Updated(i, events[i].entry.id)'
        PROVE  events'[i].entry.version = version'[events'[i].entry.id]
    <3>1. ASSUME NEW j \in DOMAIN events, j > i + 1, events[j].what = "update", events[j].entry.id = events'[i].entry.id
          PROVE  FALSE
      <4>1. i \in Nat /\ j \in Nat
        BY <2>1
      <4>2. j - 1 \in DOMAIN events' /\ events'[j - 1] = events[j] /\ j - 1 > i
        BY <2>1, <3>1, <4>1
      <4> QED
        BY <2>2, <3>1, <4>2 DEF Updated
    <3>2. ~Updated(i + 1, events[i + 1].entry.id)
      BY <2>1, <3>1 DEF Updated
    <3> QED
      BY <2>1, <2>2, <3>2 DEF LastWins
  <2> QED
    BY <2>2 DEF LastWins
<1>3. ASSUME NEW f \in Feeds, Post(f) PROVE LastWins'
  <2>1. made + 1 \in Ids /\ Parent \notin Ids
    BY <1>3, PostedType DEF Post, Ids, Parent
  <2>2. version' = version /\ Emit("message", f, Entry(made + 1))
    BY <1>3 DEF Post
  <2>3. Entry(made + 1).id = made + 1 /\ Entry(made + 1).version = version'[made + 1]
    BY <2>1, <2>2 DEF Entry
  <2> QED
    BY <2>2, <2>3, EmittedLast
<1>4. ASSUME NEW m \in Ids, Delete(m) PROVE LastWins'
  <2>1. version' = version /\ \E f \in Feeds : Emit("delete", f, Entry(m))
    BY <1>4, DeletedRows DEF Delete
  <2> QED
    BY <2>1, EmittedLast
<1>5. ASSUME NEW f \in Feeds, NEW m \in Ids, NEW v, version' = [version EXCEPT ![m] = v], Emit("update", f, [id |-> m, version |-> v])
      PROVE  LastWins'
  <2>1. version'[m] = v /\ \A n \in Ids : n # m => version'[n] = version[n]
    BY <1>5 DEF FeedTypeOK
  <2> QED
    BY <1>5, <2>1, EmittedLast
<1>6. ASSUME NEW m \in Ids, Edit(m) PROVE LastWins'
  BY <1>5, <1>6, EditsStored
<1>7. ASSUME NEW s \in Slots, EditServed(s) PROVE LastWins'
  <2>1. calls[s].skip \in Ids
    BY <1>7 DEF EditServed, FeedTypeOK
  <2>2. ASSUME NEW f \in Feeds, version' = [version EXCEPT ![calls[s].skip] = calls[s].version],
               Emit("update", f, [id |-> calls[s].skip, version |-> calls[s].version])
        PROVE  LastWins'
    BY <1>5, <2>1, <2>2
  <2> QED
    BY <1>1, <1>7, <2>2, ServedEdits
<1> QED
  BY <1>1, <1>2, <1>3, <1>4, <1>6, <1>7, QuietSteps DEF FeedNext, Serving

-----------------------------------------------------------------------------
(* Requests *)

\* Handlers that neither begin nor end one of the view, nor change what is shown.
LEMMA ServerLeavesView ==
  /\ \A f \in Feeds : Post(f) => UNCHANGED <<view, calls>>
  /\ \A m \in Ids : Edit(m) \/ Delete(m) => UNCHANGED <<view, calls>>
  /\ \A s \in Slots : EditServed(s) \/ EditRefused(s) =>
       calls[s].kind = "edit" /\ calls' = [calls EXCEPT ![s] = Free] /\ UNCHANGED view
BY DEF Post, Edit, Delete, EditServed, EditRefused, End

LEMMA UnloadedStep ==
  ASSUME FeedTypeOK, Unloaded, FeedNext
  PROVE  Unloaded'
<1> USE DEF view, Reading, Awaited
<1>0. Nowhere \notin Feeds /\ \A s \in Slots : calls[s] \in CallType
  BY FeedsAssumption DEF FeedsAssumption, Feeds, FeedTypeOK, CallType
<1>01. ASSUME NEW s \in Slots, End(s)
       PROVE  /\ \A x \in Slots : calls'[x].kind \in {"list", "more", "stray", "channel"} => x # s /\ calls'[x] = calls[x]
  BY <1>01 DEF End, Free, Call, FeedTypeOK
<1>1. ASSUME NEW s \in Slots, NEW f \in Feeds, Open(f, s) PROVE Unloaded'
  <2>1. feed' = f /\ ~loaded' /\ list' = <<>> /\ ~top'
    BY <1>1 DEF Open, Shows
  <2>2. calls'[s].feed = f
    BY <1>1 DEF Open, Call
  <2>3. ASSUME NEW x \in Slots, x # s
        PROVE  calls'[x].feed = calls[x].feed /\ (calls'[x].kind \in Reading => calls[x].kind \in Reading)
    <3>1. calls'[x] = IF calls[x].kind = "more" THEN [calls[x] EXCEPT !.kind = "stray"] ELSE calls[x]
      BY <1>1, <2>3 DEF Open
    <3> QED
      BY <1>0, <3>1 DEF CallType
  <2>4. \A x \in Slots : calls'[x].kind \in Reading => calls'[x].feed \in Feeds
    BY <2>2, <2>3 DEF Unloaded
  <2> QED
    BY <1>0, <2>1, <2>4 DEF Unloaded
<1>2. CASE Leave
  <2>1. feed' = Nowhere /\ ~loaded' /\ list' = <<>> /\ ~top'
    BY <1>2 DEF Leave, Shows
  <2>2. \A x \in Slots : calls'[x].kind \notin Reading \cup {"channel"}
    BY <1>2 DEF Leave, Free, Call
  <2> QED
    BY <2>1, <2>2 DEF Unloaded
<1>3. ASSUME NEW s \in Slots, ChannelAnswered(s) PROVE Unloaded'
  <2>1. UNCHANGED view /\ feed \in Feeds /\ calls' = [calls EXCEPT ![s] = Call("list", feed, 0)]
    BY <1>3 DEF ChannelAnswered, Unloaded, FeedTypeOK
  <2>2. \A x \in Slots : calls'[x].kind \in Reading => calls'[x].feed \in Feeds
    BY <2>1 DEF Unloaded, FeedTypeOK, Call
  <2> QED
    BY <1>0, <2>1, <2>2 DEF Unloaded
<1>4. ASSUME NEW s \in Slots, ListAnswered(s) PROVE Unloaded'
  BY <1>4, <1>01 DEF ListAnswered, Unloaded
<1>5. ASSUME NEW s \in Slots, LoadMore(s) PROVE Unloaded'
  <2>1. feed \in Feeds /\ feed # Nowhere /\ UNCHANGED <<feed, loaded, list, top>> /\ calls' = [calls EXCEPT ![s] = Call("more", feed, Len(list))]
    BY <1>0, <1>5 DEF LoadMore, Begin, Unloaded, FeedTypeOK
  <2>2. \A x \in Slots : calls'[x].kind \in Reading => calls'[x].feed \in Feeds
    BY <2>1 DEF Unloaded, FeedTypeOK, Call
  <2> QED
    BY <2>1, <2>2 DEF Unloaded
<1>6. ASSUME NEW s \in Slots, MoreAnswered(s) PROVE Unloaded'
  BY <1>6, <1>01 DEF MoreAnswered, Unloaded
<1>7. ASSUME NEW s \in Slots, ReadFails(s) PROVE Unloaded'
  BY <1>7, <1>01 DEF ReadFails, Unloaded
<1>8. ASSUME NEW s \in Slots, NEW m \in Ids, OnEdit(m, s) PROVE Unloaded'
  <2>1. m \in IdsOf(list)
    BY <1>8, PositionIs DEF OnEdit
  <2>2. loaded /\ UNCHANGED <<feed, loaded, top>> /\ feed # Nowhere
    BY <1>8, <2>1 DEF OnEdit, Unloaded, IdsOf
  <2>3. \A x \in Slots : calls'[x].kind \in Reading => calls'[x] = calls[x]
    BY <1>8 DEF OnEdit, Begin, Call, FeedTypeOK
  <2> QED
    BY <2>2, <2>3 DEF Unloaded
<1>9. CASE Event
  <2>1. UNCHANGED <<feed, loaded, top, calls>> /\ (~loaded => list' = list)
    BY <1>9 DEF Event
  <2> QED
    BY <2>1 DEF Unloaded
<1>10. ASSUME NEW s \in Slots, ReadServed(s) PROVE Unloaded'
  <2>1. UNCHANGED view /\ \A x \in Slots : calls'[x].kind = calls[x].kind /\ calls'[x].feed = calls[x].feed
    BY <1>0, <1>10 DEF ReadServed, FeedTypeOK, CallType
  <2> QED
    BY <2>1 DEF Unloaded
<1>11. ASSUME NEW s \in Slots, EditServed(s) \/ EditRefused(s) PROVE Unloaded'
  <2>1. UNCHANGED view /\ End(s)
    BY <1>11 DEF EditServed, EditRefused
  <2> QED
    BY <1>01, <2>1 DEF Unloaded
<1>12. ASSUME UNCHANGED <<view, calls>> PROVE Unloaded'
  BY <1>12 DEF Unloaded
<1> QED
  BY <1>1, <1>2, <1>3, <1>4, <1>5, <1>6, <1>7, <1>8, <1>9, <1>10, <1>11, <1>12, ServerLeavesView
     DEF FeedNext, Viewing, Serving

-----------------------------------------------------------------------------
(* What events do *)

\* Where everything is kept, everything stays in its place.
LEMMA AmongAll ==
  ASSUME NEW T, NEW seq \in Seq(T), NEW S, \A i \in DOMAIN seq : seq[i] \in S
  PROVE  Among(seq, S) = seq
<1> DEFINE g == CHOOSE g : Kept(seq, S, Len(seq), g)
           G == {n \in Nat : n <= Len(seq) =>
                   g[n] \in Seq(T) /\ Len(g[n]) = n /\ \A i \in 1 .. n : g[n][i] = seq[i]}
<1>1. Len(seq) \in Nat /\ DOMAIN seq = 1 .. Len(seq) /\ \A i \in 1 .. Len(seq) : seq[i] \in T
  OBVIOUS
<1>2. Kept(seq, S, Len(seq), g)
  BY <1>1, KeptExists
<1>3. Among(seq, S) = g[Len(seq)]
  BY DEF Among, Kept
<1> HIDE DEF g
<1>4. /\ g[0] = <<>>
      /\ \A n \in Nat : n + 1 <= Len(seq) => g[n + 1] = Append(g[n], seq[n + 1])
  <2>1. \A n \in 0 .. Len(seq) :
          g[n] = IF n = 0 THEN <<>> ELSE IF seq[n] \in S THEN Append(g[n - 1], seq[n]) ELSE g[n - 1]
    BY <1>2 DEF Kept
  <2>2. 0 \in 0 .. Len(seq)
    BY <1>1
  <2>3. ASSUME NEW n \in Nat, n + 1 <= Len(seq)
        PROVE  n + 1 \in 0 .. Len(seq) /\ n + 1 # 0 /\ (n + 1) - 1 = n /\ seq[n + 1] \in S
    BY <1>1, <2>3
  <2> QED
    BY <2>1, <2>2, <2>3
<1>5. 0 \in G
  <2>1. g[0] = <<>>
    BY <1>4
  <2>2. <<>> \in Seq(T) /\ Len(<<>>) = 0 /\ 1 .. 0 = {}
    OBVIOUS
  <2> QED
    BY <2>1, <2>2
<1>6. ASSUME NEW n \in Nat, n \in G PROVE n + 1 \in G
  <2> SUFFICES ASSUME n + 1 <= Len(seq)
               PROVE  g[n + 1] \in Seq(T) /\ Len(g[n + 1]) = n + 1 /\ \A i \in 1 .. n + 1 : g[n + 1][i] = seq[i]
    OBVIOUS
  <2>1. g[n] \in Seq(T) /\ Len(g[n]) = n /\ \A i \in 1 .. n : g[n][i] = seq[i]
    BY <1>1, <1>6
  <2>2. g[n + 1] = Append(g[n], seq[n + 1]) /\ seq[n + 1] \in T
    BY <1>1, <1>4
  <2>3. g[n + 1] \in Seq(T) /\ Len(g[n + 1]) = n + 1 /\ g[n + 1][n + 1] = seq[n + 1]
        /\ \A i \in 1 .. n : g[n + 1][i] = g[n][i]
    BY <2>1, <2>2
  <2>4. \A i \in 1 .. n + 1 : i \in 1 .. n \/ i = n + 1
    OBVIOUS
  <2> QED
    BY <2>1, <2>3, <2>4
<1> HIDE DEF G
<1>7. Nat \subseteq G
  BY <1>5, <1>6, NatSetInduction
<1>8. g[Len(seq)] \in Seq(T) /\ Len(g[Len(seq)]) = Len(seq) /\ \A i \in 1 .. Len(seq) : g[Len(seq)][i] = seq[i]
  BY <1>1, <1>7 DEF G
<1> QED
  BY <1>1, <1>3, <1>8

LEMMA PageIdsAre ==
  ASSUME FeedTypeOK, NEW f \in Feeds, NEW skip \in Nat
  PROVE  /\ PageIds(f, skip) \in Seq(Ids) /\ Len(stored[f]) \in Nat
         /\ Len(PageIds(f, skip)) = IF skip + PageSize < Len(stored[f]) THEN PageSize
                                    ELSE IF skip < Len(stored[f]) THEN Len(stored[f]) - skip ELSE 0
         /\ \A i \in 1 .. Len(PageIds(f, skip)) : skip + i \in 1 .. Len(stored[f]) /\ PageIds(f, skip)[i] = stored[f][skip + i]
<1> DEFINE last == IF skip + PageSize < Len(stored[f]) THEN skip + PageSize ELSE Len(stored[f])
<1>1. stored[f] \in Seq(Ids) /\ Len(stored[f]) \in Nat /\ PageSize \in Nat \ {0}
  BY BoundsAssumption DEF FeedTypeOK, BoundsAssumption
<1>2. last \in Nat /\ last <= Len(stored[f])
  BY <1>1
<1>3. PageIds(f, skip) = SubSeq(stored[f], skip + 1, last)
  BY DEF PageIds
<1>4. last = (IF skip + PageSize < Len(stored[f]) THEN skip + PageSize ELSE Len(stored[f]))
  OBVIOUS
<1> HIDE DEF last
<1>5. /\ PageIds(f, skip) \in Seq(Ids)
      /\ Len(PageIds(f, skip)) = IF skip + 1 <= last THEN last - skip ELSE 0
      /\ \A i \in 1 .. Len(PageIds(f, skip)) : PageIds(f, skip)[i] = stored[f][skip + i]
  <2>1. skip + 1 \in Nat \ {0} /\ \A i \in 1 .. Len(stored[f]) : stored[f][i] \in Ids
    BY <1>1
  <2>2. SubSeq(stored[f], skip + 1, last) \in Seq(Ids)
    BY <1>1, <1>2, <2>1
  <2>3. Len(SubSeq(stored[f], skip + 1, last)) = IF skip + 1 <= last THEN last - skip ELSE 0
    BY <1>1, <1>2, <2>1
  <2>4. \A i \in 1 .. Len(SubSeq(stored[f], skip + 1, last)) : SubSeq(stored[f], skip + 1, last)[i] = stored[f][skip + i]
    BY <1>1, <1>2, <2>1, <2>3
  <2> QED
    BY <1>3, <2>2, <2>3, <2>4
<1>6. \A i \in 1 .. Len(PageIds(f, skip)) : skip + i \in 1 .. Len(stored[f])
  BY <1>1, <1>2, <1>5
<1> QED
  BY <1>1, <1>4, <1>5, <1>6

\* A page goes on where the feed's end, with its parent message, does.
LEMMA ClosedAre ==
  ASSUME FeedTypeOK, NEW f \in Feeds, NEW skip \in Nat
  PROVE  LET ids == PageIds(f, skip)
             page == Closed(f, ids)
         IN  /\ Len(page) = Len(ids) + (IF f \in Threads /\ Len(ids) < PageSize THEN 1 ELSE 0)
             /\ DOMAIN page = 1 .. Len(page) /\ Len(page) \in Nat /\ Len(ids) \in Nat
             /\ \A i \in 1 .. Len(page) : IF i <= Len(ids) THEN page[i] = ids[i] ELSE f \in Threads /\ i = Len(ids) + 1 /\ page[i] = Parent
<1> DEFINE ids == PageIds(f, skip)
           page == Closed(f, ids)
<1>1. ids \in Seq(Ids)
  BY PageIdsAre
<1> HIDE DEF ids
<1>2. CASE f \in Threads /\ Len(ids) < PageSize
  <2>1. page = ids \o <<Parent>>
    BY <1>2 DEF Closed
  <2> HIDE DEF page
  <2>2. Len(page) = Len(ids) + 1 /\ DOMAIN page = 1 .. Len(ids) + 1 /\ Len(ids) \in Nat
    BY <1>1, <2>1
  <2>3. page[Len(ids) + 1] = Parent /\ \A i \in 1 .. Len(ids) : page[i] = ids[i]
    BY <1>1, <2>1
  <2>4. \A i \in 1 .. Len(page) : IF i <= Len(ids) THEN i \in 1 .. Len(ids) ELSE i = Len(ids) + 1
    BY <2>2
  <2> QED
    BY <1>2, <2>2, <2>3, <2>4 DEF page, ids
<1>3. CASE ~(f \in Threads /\ Len(ids) < PageSize)
  <2>1. page = ids
    BY <1>1, <1>3 DEF Closed
  <2> HIDE DEF page
  <2> QED
    BY <1>1, <1>3, <2>1 DEF page, ids
<1> QED
  BY <1>2, <1>3

LEMMA PageKept ==
  ASSUME FeedTypeOK, NEW f \in Feeds, NEW skip \in Nat,
         stored'[f] = stored[f], \A m \in Rows(f) : version'[m] = version[m]
  PROVE  Page(f, skip)' = Page(f, skip)
<1> DEFINE ids == Closed(f, PageIds(f, skip))
<1>1. \A i \in DOMAIN ids : ids[i] \in Rows(f) \/ ids[i] = Parent
  <2>1. \A i \in 1 .. Len(PageIds(f, skip)) : PageIds(f, skip)[i] \in Rows(f)
    <3>1. DOMAIN stored[f] = 1 .. Len(stored[f])
      BY DEF FeedTypeOK
    <3> QED
      BY <3>1, PageIdsAre DEF Rows, Range
  <2>2. /\ DOMAIN ids = 1 .. Len(ids) /\ Len(ids) \in Nat /\ Len(PageIds(f, skip)) \in Nat
        /\ \A i \in 1 .. Len(ids) : IF i <= Len(PageIds(f, skip)) THEN ids[i] = PageIds(f, skip)[i] ELSE ids[i] = Parent
    BY ClosedAre
  <2> HIDE DEF ids
  <2>3. \A i \in 1 .. Len(ids) : i <= Len(PageIds(f, skip)) => i \in 1 .. Len(PageIds(f, skip))
    BY <2>2
  <2> QED
    BY <2>1, <2>2, <2>3
<1>2. PageIds(f, skip)' = PageIds(f, skip)
  BY DEF PageIds
<1>3. ids' = ids
  BY <1>2 DEF Closed
<1>4. \A m \in Rows(f) \cup {Parent} : Entry(m)' = Entry(m)
  BY DEF Entry
<1>5. Page(f, skip)' = [i \in DOMAIN ids' |-> Entry(ids[i])']
  BY DEF Page, PageIds, Closed, Entry
<1> QED
  BY <1>1, <1>3, <1>4, <1>5, PageIsEntries

LEMMA SentEmitted ==
  ASSUME FeedTypeOK, NEW what, NEW f, NEW e, Emit(what, f, e), UNCHANGED feed
  PROVE  /\ \A w \in {"message", "delete"} :
              Sent(w, feed)' = Sent(w, feed) \cup IF w = what /\ feed = f THEN {e.id} ELSE {}
         /\ Queued(feed)' <=> Queued(feed) \/ feed = f
         /\ \A m : Updated(0, m)' <=> Updated(0, m) \/ (what = "update" /\ m = e.id)
<1> DEFINE N == Len(events)
           new == [what |-> what, feed |-> f, entry |-> e]
<1>1. /\ N \in Nat /\ DOMAIN events = 1 .. N /\ DOMAIN events' = 1 .. N + 1
      /\ events'[N + 1] = new
      /\ \A i \in 1 .. N : events'[i] = events[i]
      /\ \A i \in DOMAIN events' : i \in DOMAIN events \/ i = N + 1
      /\ DOMAIN events \subseteq DOMAIN events' /\ N + 1 \in DOMAIN events'
  BY Emitted
<1>2. new.what = what /\ new.feed = f /\ new.entry = e
  OBVIOUS
<1> HIDE DEF new, N
<1>3. ASSUME NEW w \in {"message", "delete"}
      PROVE  Sent(w, feed)' = Sent(w, feed) \cup IF w = what /\ feed = f THEN {e.id} ELSE {}
  <2>1. Sent(w, feed)' = {events'[i].entry.id : i \in {n \in DOMAIN events' : events'[n].what = w /\ events'[n].feed = feed}}
    BY DEF Sent
  <2>2. ASSUME NEW x \in Sent(w, feed)' PROVE x \in Sent(w, feed) \cup IF w = what /\ feed = f THEN {e.id} ELSE {}
    <3>1. PICK i \in DOMAIN events' : events'[i].what = w /\ events'[i].feed = feed /\ x = events'[i].entry.id
      BY <2>1, <2>2
    <3>2. CASE i = N + 1
      BY <1>1, <1>2, <3>1, <3>2
    <3>3. CASE i \in DOMAIN events
      BY <1>1, <3>1, <3>3 DEF Sent
    <3> QED
      BY <1>1, <3>2, <3>3
  <2>3. ASSUME NEW x \in Sent(w, feed) PROVE x \in Sent(w, feed)'
    <3>1. PICK i \in DOMAIN events : events[i].what = w /\ events[i].feed = feed /\ x = events[i].entry.id
      BY DEF Sent
    <3>2. i \in DOMAIN events' /\ events'[i] = events[i]
      BY <1>1
    <3> QED
      BY <2>1, <3>1, <3>2
  <2>4. w = what /\ feed = f => e.id \in Sent(w, feed)'
    BY <1>1, <1>2, <2>1
  <2> QED
    BY <2>2, <2>3, <2>4
<1>4. Queued(feed)' <=> Queued(feed) \/ feed = f
  <2>1. Queued(feed)' <=> \E i \in DOMAIN events' : events'[i].feed = feed
    BY DEF Queued
  <2> QED
    BY <1>1, <1>2, <2>1 DEF Queued
<1>5. ASSUME NEW m PROVE Updated(0, m)' <=> Updated(0, m) \/ (what = "update" /\ m = e.id)
  <2>1. Updated(0, m)' <=> \E j \in DOMAIN events' : j > 0 /\ events'[j].what = "update" /\ events'[j].entry.id = m
    BY DEF Updated
  <2>2. N + 1 > 0
    BY <1>1
  <2> QED
    BY <1>1, <1>2, <2>1, <2>2 DEF Updated
<1> QED
  BY <1>3, <1>4, <1>5

LEMMA SentReceived ==
  ASSUME FeedTypeOK, Event
  PROVE  LET e == Head(events) IN
         /\ \A w : Sent(w, feed) = Sent(w, feed)' \cup IF w = e.what /\ feed = e.feed THEN {e.entry.id} ELSE {}
         /\ Queued(feed) <=> Queued(feed)' \/ feed = e.feed
         /\ \A m : Updated(0, m) <=> Updated(0, m)' \/ (e.what = "update" /\ m = e.entry.id)
         /\ \A m : Updated(0, m)' <=> Updated(1, m)
<1> DEFINE e == Head(events)
<1>1. /\ UNCHANGED feed /\ 1 \in DOMAIN events /\ e = events[1]
      /\ \A i \in DOMAIN events' : i \in Nat /\ i + 1 \in DOMAIN events /\ events'[i] = events[i + 1]
      /\ \A i \in DOMAIN events : i \in Nat /\ (i = 1 \/ (i - 1 \in DOMAIN events' /\ i > 1 /\ events'[i - 1] = events[i]))
  BY Received
<1> HIDE DEF e
<1>2. ASSUME NEW w
      PROVE  Sent(w, feed) = Sent(w, feed)' \cup IF w = e.what /\ feed = e.feed THEN {e.entry.id} ELSE {}
  <2>1. Sent(w, feed)' = {events'[i].entry.id : i \in {n \in DOMAIN events' : events'[n].what = w /\ events'[n].feed = feed}}
    BY <1>1 DEF Sent
  <2>2. ASSUME NEW x \in Sent(w, feed) PROVE x \in Sent(w, feed)' \cup IF w = e.what /\ feed = e.feed THEN {e.entry.id} ELSE {}
    <3>1. PICK i \in DOMAIN events : events[i].what = w /\ events[i].feed = feed /\ x = events[i].entry.id
      BY DEF Sent
    <3>2. CASE i = 1
      BY <1>1, <3>1, <3>2
    <3>3. CASE i - 1 \in DOMAIN events' /\ events'[i - 1] = events[i]
      BY <2>1, <3>1, <3>3
    <3> QED
      BY <1>1, <3>2, <3>3
  <2>3. ASSUME NEW x \in Sent(w, feed)' PROVE x \in Sent(w, feed)
    <3>1. PICK i \in DOMAIN events' : events'[i].what = w /\ events'[i].feed = feed /\ x = events'[i].entry.id
      BY <2>1, <2>3
    <3>2. i + 1 \in DOMAIN events /\ events'[i] = events[i + 1]
      BY <1>1
    <3> QED
      BY <3>1, <3>2 DEF Sent
  <2>4. w = e.what /\ feed = e.feed => e.entry.id \in Sent(w, feed)
    BY <1>1 DEF Sent
  <2> QED
    BY <2>2, <2>3, <2>4
<1>3. Queued(feed) <=> Queued(feed)' \/ feed = e.feed
  <2>1. Queued(feed)' <=> \E i \in DOMAIN events' : events'[i].feed = feed
    BY <1>1 DEF Queued
  <2> QED
    BY <1>1, <2>1 DEF Queued
<1>4. ASSUME NEW m PROVE Updated(0, m)' <=> Updated(1, m)
  <2>1. Updated(0, m)' <=> \E j \in DOMAIN events' : j > 0 /\ events'[j].what = "update" /\ events'[j].entry.id = m
    BY DEF Updated
  <2>2. ASSUME NEW j \in DOMAIN events', j > 0 PROVE j + 1 > 1
    BY <1>1, <2>2
  <2>3. ASSUME NEW j \in DOMAIN events, j > 1 PROVE j - 1 \in DOMAIN events' /\ events'[j - 1] = events[j] /\ j - 1 > 0
    BY <1>1, <2>3
  <2> QED
    BY <1>1, <2>1, <2>2, <2>3 DEF Updated
<1>5. ASSUME NEW m PROVE Updated(0, m) <=> Updated(1, m) \/ (e.what = "update" /\ m = e.entry.id)
  <2>1. \A i \in DOMAIN events : i > 0 /\ (i > 1 \/ i = 1)
    BY <1>1
  <2> QED
    BY <1>1, <2>1 DEF Updated
<1> QED
  BY <1>2, <1>3, <1>4, <1>5 DEF e

\* Which ids a received event leaves in the list.
LEMMA EventOnList ==
  ASSUME FeedTypeOK, Event, loaded
  PROVE  LET e == Head(events) IN
         \/ /\ e.what = "message" /\ e.feed = feed
            /\ list' = <<e.entry>> \o list
         \/ /\ e.what = "delete"
            /\ list' = Among(list, {x \in Entries : x.id # e.entry.id})
         \/ /\ e.what # "delete" /\ ~(e.what = "message" /\ e.feed = feed)
            /\ Len(list') = Len(list) /\ DOMAIN list' = DOMAIN list
            /\ \A i \in DOMAIN list : list'[i].id = list[i].id
            /\ \A i \in DOMAIN list : list'[i] = list[i] \/ (e.what = "update" /\ list'[i] = e.entry)
            /\ e.what = "update" /\ e.entry.id \in IdsOf(list) => list'[Position(e.entry.id)] = e.entry
<1> DEFINE e == Head(events)
<1>1. list \in Seq(Entries) /\ e \in EventType /\ e.entry \in Entries
  BY EventTypes DEF FeedTypeOK, Event
<1>2. list' = IF e.what = "message" THEN IF e.feed = feed THEN <<e.entry>> \o list ELSE list
              ELSE IF e.what = "delete" THEN Among(list, {x \in Entries : x.id # e.entry.id})
              ELSE IF Position(e.entry.id) = 0 THEN list
              ELSE [list EXCEPT ![Position(e.entry.id)] = e.entry]
  BY DEF Event
<1> HIDE DEF e
<1>3. CASE e.what = "message" /\ e.feed # feed
  BY <1>2, <1>3 DEF e
<1>4. CASE e.what = "update"
  <2> DEFINE p == Position(e.entry.id)
  <2>1. IF e.entry.id \in IdsOf(list) THEN p \in DOMAIN list /\ list[p].id = e.entry.id ELSE p = 0
    BY PositionIs
  <2>2. 0 \notin DOMAIN list
    BY <1>1
  <2>3. list' = IF p = 0 THEN list ELSE [list EXCEPT ![p] = e.entry]
    BY <1>2, <1>4
  <2>4. e.entry.id \in IdsOf(list) => list'[p] = e.entry
    <3> HIDE DEF p
    <3> QED
      BY <1>1, <2>1, <2>2, <2>3
  <2>5. Len(list') = Len(list) /\ DOMAIN list' = DOMAIN list /\ \A i \in DOMAIN list : list'[i] = list[i] \/ (list'[i] = e.entry /\ i = p)
    <3> HIDE DEF p
    <3> QED
      BY <1>1, <2>1, <2>2, <2>3
  <2>6. \A i \in DOMAIN list : list'[i].id = list[i].id
    <3> HIDE DEF p
    <3> QED
      BY <2>1, <2>2, <2>5
  <2> QED
    BY <1>4, <2>4, <2>5, <2>6 DEF e
<1> QED
  BY <1>1, <1>2, <1>3, <1>4 DEF EventType, e

LEMMA AwaitedTypes ==
  ASSUME FeedTypeOK, NEW s \in Slots
  PROVE  /\ calls[s] \in CallType
         /\ s \in Awaited <=> calls[s].kind \in {"list", "more", "stray", "channel"}
BY DEF FeedTypeOK, CallType, Awaited, Reading

\* Where no event for the feed shown is to come, all that will be in the list is in it.
LEMMA NothingToCome ==
  ASSUME ~Queued(feed)
  PROVE  Sent("message", feed) = {} /\ Sent("delete", feed) = {} /\ Expected = IdsOf(list)
<1>1. \A w : Sent(w, feed) = {}
  BY DEF Queued, Sent
<1> QED
  BY <1>1 DEF Expected

LEMMA EventElsewhere ==
  ASSUME FeedTypeOK, EventsWell, Unloaded, ListFits, Event, loaded, ~raced, ~Queued(feed)
  PROVE  Len(list') = Len(list) /\ DOMAIN list' = DOMAIN list /\ \A i \in DOMAIN list : list'[i].id = list[i].id
<1> DEFINE e == Head(events)
<1>1. feed \in Feeds
  BY DEF Unloaded, FeedTypeOK
<1>2. IdsOf(list) \subseteq All(feed)
  BY NothingToCome DEF ListFits, InPlace
<1>3. e.feed # feed
  BY SentReceived
<1>4. CASE e.what = "delete" /\ list' = Among(list, {x \in Entries : x.id # e.entry.id})
  <2>1. e.entry.id \notin Rows(feed) /\ e.entry.id # Parent
    <3>1. 1 \in DOMAIN events /\ e = events[1]
      BY Received
    <3>2. e.entry.id \in 1 .. made /\ e.entry.id \notin Rows(feed)
      BY <1>1, <1>4, <3>1 DEF EventsWell
    <3> QED
      BY <3>2 DEF Parent
  <2>2. \A i \in DOMAIN list : list[i] \in {x \in Entries : x.id # e.entry.id}
    <3>1. \A i \in DOMAIN list : list[i] \in Entries /\ list[i].id \in IdsOf(list)
      BY DEF FeedTypeOK, IdsOf
    <3> QED
      BY <1>2, <2>1, <3>1 DEF All
  <2>3. list' = list
    <3>1. list \in Seq(Entries)
      BY DEF FeedTypeOK
    <3> HIDE DEF e
    <3> QED
      BY <1>4, <2>2, <3>1, AmongAll
  <2> QED
    BY <2>3
<1> QED
  BY <1>3, <1>4, EventOnList

LEMMA IdsKept ==
  ASSUME FeedTypeOK, Len(list') = Len(list), DOMAIN list' = DOMAIN list, \A i \in DOMAIN list : list'[i].id = list[i].id
  PROVE  IdsOf(list)' = IdsOf(list)
<1>1. IdsOf(list)' = {list'[i].id : i \in DOMAIN list'}
  BY DEF IdsOf
<1> QED
  BY <1>1 DEF IdsOf

LEMMA EditsIds ==
  ASSUME FeedTypeOK, NEW s \in Slots, NEW m \in Ids, OnEdit(m, s)
  PROVE  /\ Len(list') = Len(list) /\ DOMAIN list' = DOMAIN list /\ \A i \in DOMAIN list : list'[i].id = list[i].id
         /\ \A i \in DOMAIN list : list'[i] = list[i] \/ list[i].id = m
<1> DEFINE p == Position(m)
<1>1. m \in IdsOf(list) /\ p \in DOMAIN list /\ list[p].id = m
  BY PositionIs DEF OnEdit
<1>2. list' = [list EXCEPT ![p] = [list[p] EXCEPT !.version = edits + 1]] /\ list \in Seq(Entries)
  BY DEF OnEdit, FeedTypeOK
<1> HIDE DEF p
<1>3. list[p] \in Entries
  BY <1>1, <1>2
<1>4. [list[p] EXCEPT !.version = edits + 1].id = m
  BY <1>1, <1>3 DEF Entries
<1> QED
  BY <1>1, <1>2, <1>4

\* CallFits lasts while nothing it speaks of changes.
LEMMA FitsKept ==
  ASSUME FeedTypeOK, NEW c \in CallType, CallFits(c), feed \in Feeds,
         UNCHANGED <<feed, loaded, loadingMore>>, Len(list') = Len(list), IdsOf(list)' = IdsOf(list),
         c.kind # "channel" => /\ Queued(feed)' => Queued(feed)
                               /\ stored'[feed] = stored[feed]
                               /\ \A m \in Rows(feed) : version'[m] = version[m]
  PROVE  CallFits(c)'
<1>1. c.skip \in Nat /\ c' = c
  BY DEF CallType
<1>2. c.kind # "channel" => Page(feed, c.skip)' = Page(feed, c.skip)
  BY <1>1, PageKept
<1>3. CallFits(c)' <=>
        /\ c.kind \in {"channel", "list", "more"}
        /\ c.kind # "more" => ~loaded'
        /\ c.kind # "channel" => c.feed = feed' /\ ~Queued(feed)' /\ (c.served => c.page = Page(feed, c.skip)')
        /\ c.kind = "list" => c.skip = 0
        /\ c.kind = "more" => loaded' /\ loadingMore' /\ c.skip = Len(list') /\ Parent \notin IdsOf(list)'
  BY DEF CallFits
<1> QED
  BY <1>2, <1>3 DEF CallFits

\* An event sent without a race is not about a feed that is being read.
LEMMA SentElsewhere ==
  ASSUME FeedTypeOK, CallsFit, Unloaded, NEW what, NEW f, NEW e, Emit(what, f, e), ~raced', NEW s \in Awaited, UNCHANGED feed
  PROVE  ~raced /\ (calls[s].kind # "channel" => f # feed /\ (Queued(feed)' => Queued(feed)))
<1>1. ~raced /\ ~BeingRead(f)
  BY DEF Emit
<1>2. s \in Slots /\ calls[s].kind # "channel" => calls[s].kind \in Reading /\ calls[s].feed = feed
  BY <1>1 DEF CallsFit, CallFits, Awaited, Reading
<1>3. calls[s].kind # "channel" => f # feed
  BY <1>1, <1>2 DEF BeingRead, Awaited
<1> QED
  BY <1>1, <1>3, SentEmitted

LEMMA OtherRows ==
  ASSUME StoredWell, NEW f \in Feeds, NEW m \in Rows(f), feed \in Feeds, f # feed
  PROVE  m \notin Rows(feed)
BY DEF StoredWell

LEMMA CallsStep ==
  ASSUME FeedTypeOK, StoredWell, EventsWell, Unloaded, CallsFit, ListFits, FeedNext
  PROVE  CallsFit'
<1>0. \A s \in Slots : calls[s] \in CallType /\ (s \in Awaited <=> calls[s].kind \in {"list", "more", "stray", "channel"})
  BY AwaitedTypes
<1>01. Awaited' = {s \in Slots : calls'[s].kind \in {"list", "more", "stray", "channel"}}
  BY DEF Awaited, Reading
<1>02. ASSUME NEW s \in Awaited PROVE feed \in Feeds
  BY <1>02 DEF Unloaded, FeedTypeOK
<1>03. ASSUME NEW s \in Slots, End(s), s \in Awaited, ~raced' => ~raced PROVE CallsFit'
  <2>1. ~raced => Awaited' = {}
    <3>1. calls'[s].kind = "free" /\ \A x \in Slots : x # s => calls'[x] = calls[x]
      BY <1>03 DEF End, Free, Call, FeedTypeOK
    <3>2. ~raced => Awaited = {s}
      BY <1>03 DEF CallsFit
    <3> QED
      BY <1>0, <1>01, <3>1, <3>2
  <2> QED
    BY <1>03, <2>1 DEF CallsFit
<1>04. ASSUME \A s \in Awaited' : s \in Awaited /\ calls'[s] = calls[s], Awaited' = Awaited,
              UNCHANGED <<feed, loaded, loadingMore>>,
              ~raced' => ~raced,
              ~raced' /\ Awaited # {} => Len(list') = Len(list) /\ IdsOf(list)' = IdsOf(list),
              \A s \in Awaited : ~raced' /\ calls[s].kind # "channel" =>
                /\ Queued(feed)' => Queued(feed)
                /\ stored'[feed] = stored[feed]
                /\ \A m \in Rows(feed) : version'[m] = version[m]
       PROVE  CallsFit'
  <2>1. ASSUME ~raced', NEW s \in Awaited' PROVE Awaited' = {s} /\ CallFits(calls[s])'
    <3>1. s \in Awaited /\ calls'[s] = calls[s] /\ Awaited = {s} /\ CallFits(calls[s]) /\ feed \in Feeds /\ calls[s] \in CallType
      BY <1>0, <1>02, <1>04, <2>1 DEF CallsFit, Awaited
    <3>2. \A c \in CallType :
            CallFits(c) /\ (c.kind # "channel" => /\ Queued(feed)' => Queued(feed)
                                                  /\ stored'[feed] = stored[feed]
                                                  /\ \A m \in Rows(feed) : version'[m] = version[m])
              => CallFits(c)'
      BY <1>04, <2>1, <3>1, FitsKept
    <3> QED
      BY <1>04, <2>1, <3>1, <3>2 DEF CallFits
  <2> QED
    BY <2>1 DEF CallsFit
<1>1. ASSUME NEW s \in Slots, NEW f \in Feeds, Open(f, s) PROVE CallsFit'
  <2>1. ASSUME ~raced' PROVE \A x \in Awaited' : Awaited' = {x} /\ CallFits(calls[x])'
    <3>1. Awaited = {} /\ ~(f \in Threads /\ Queued(f))
      BY <1>1, <2>1 DEF Open
    <3>2. \A x \in Slots : x # s => calls'[x] = calls[x]
      BY <1>0, <1>1, <3>1 DEF Open
    <3>3. calls'[s] = Call(IF f \in Channels THEN "channel" ELSE "list", f, 0) /\ feed' = f /\ ~loaded' /\ events' = events
      BY <1>1 DEF Open, Shows
    <3>4. Awaited' = {s}
      BY <1>0, <1>01, <3>1, <3>2, <3>3 DEF Call
    <3>5. f \notin Channels => ~Queued(f)
      BY <3>1 DEF Feeds
    <3>6. Queued(feed)' => Queued(f)
      BY <3>3 DEF Queued
    <3>7. CallFits(calls[s])'
      BY <3>3, <3>5, <3>6 DEF CallFits, Call
    <3> QED
      BY <3>4, <3>7
  <2> QED
    BY <2>1 DEF CallsFit
<1>2. CASE Leave
  <2>1. \A x \in Slots : calls'[x].kind \notin {"list", "more", "stray", "channel"}
    BY <1>0, <1>2 DEF Leave, Free, Call
  <2> QED
    BY <1>01, <2>1 DEF CallsFit
<1>3. ASSUME NEW s \in Slots, ChannelAnswered(s) PROVE CallsFit'
  <2>1. ASSUME ~raced' PROVE \A x \in Awaited' : Awaited' = {x} /\ CallFits(calls[x])'
    <3>1. ~raced /\ ~Queued(feed) /\ s \in Awaited
      BY <1>0, <1>3, <2>1 DEF ChannelAnswered
    <3>2. Awaited = {s} /\ ~loaded
      BY <1>3, <3>1 DEF CallsFit, CallFits, ChannelAnswered
    <3>3. calls' = [calls EXCEPT ![s] = Call("list", feed, 0)] /\ UNCHANGED view /\ events' = events
      BY <1>3 DEF ChannelAnswered
    <3>4. calls'[s] = Call("list", feed, 0) /\ \A x \in Slots : x # s => calls'[x] = calls[x]
      BY <3>3 DEF FeedTypeOK
    <3>5. Awaited' = {s}
      BY <1>0, <1>01, <3>2, <3>4 DEF Call
    <3>6. feed' = feed /\ loaded' = loaded /\ (Queued(feed)' => Queued(feed))
      BY <3>3 DEF Queued, view
    <3>7. CallFits(calls[s])'
      BY <3>1, <3>2, <3>4, <3>6 DEF CallFits, Call
    <3> QED
      BY <3>5, <3>7
  <2> QED
    BY <2>1 DEF CallsFit
<1>4. ASSUME NEW s \in Slots, ListAnswered(s) \/ MoreAnswered(s) \/ ReadFails(s) PROVE CallsFit'
  <2>1. End(s) /\ raced' = raced /\ s \in Awaited
    BY <1>0, <1>4 DEF ListAnswered, MoreAnswered, ReadFails, Reading
  <2> QED
    BY <1>03, <2>1
<1>5. ASSUME NEW s \in Slots, LoadMore(s) PROVE CallsFit'
  <2>1. ASSUME ~raced' PROVE \A x \in Awaited' : Awaited' = {x} /\ CallFits(calls[x])'
    <3>1. /\ ~raced /\ ~Queued(feed) /\ loaded /\ ~loadingMore /\ loadingMore'
          /\ UNCHANGED <<feed, loaded, list, events>>
          /\ \A i \in DOMAIN list : list[i].id # Parent
      BY <1>5, <2>1 DEF LoadMore
    <3>2. Awaited = {}
      BY <3>1 DEF CallsFit, CallFits
    <3>3. calls'[s] = Call("more", feed, Len(list)) /\ \A x \in Slots : x # s => calls'[x] = calls[x]
      BY <1>5 DEF LoadMore, Begin, FeedTypeOK
    <3>4. Awaited' = {s}
      BY <1>0, <1>01, <3>2, <3>3 DEF Call
    <3>5. Queued(feed)' => Queued(feed)
      BY <3>1 DEF Queued
    <3>6. Parent \notin IdsOf(list)'
      BY <3>1 DEF IdsOf
    <3>7. CallFits(calls[s])'
      BY <3>1, <3>3, <3>5, <3>6 DEF CallFits, Call
    <3> QED
      BY <3>4, <3>7
  <2> QED
    BY <2>1 DEF CallsFit
<1>6. ASSUME NEW s \in Slots, NEW m \in Ids, OnEdit(m, s) PROVE CallsFit'
  <2>1. Len(list') = Len(list) /\ IdsOf(list)' = IdsOf(list)
    BY <1>6, EditsIds, IdsKept
  <2>2. UNCHANGED <<feed, loaded, loadingMore, raced, events, stored, version>>
    BY <1>6 DEF OnEdit
  <2>3. calls[s].kind = "free" /\ calls'[s].kind = "edit" /\ \A x \in Slots : x # s => calls'[x] = calls[x]
    BY <1>6 DEF OnEdit, Begin, Free, Call, FeedTypeOK
  <2>4. Awaited' = Awaited /\ \A x \in Awaited' : x \in Awaited /\ calls'[x] = calls[x]
    BY <1>0, <1>01, <2>3 DEF Awaited
  <2>5. Queued(feed)' => Queued(feed)
    BY <2>2 DEF Queued
  <2> QED
    BY <1>04, <2>1, <2>2, <2>4, <2>5
<1>7. CASE Event
  <2>1. UNCHANGED <<stored, version, feed, loaded, loadingMore, calls, raced>>
    BY <1>7, Received
  <2>2. Awaited' = Awaited
    BY <2>1 DEF Awaited
  <2>3. ASSUME ~raced, Awaited # {} PROVE Len(list') = Len(list) /\ IdsOf(list)' = IdsOf(list)
    <3>1. CASE ~loaded
      <4>1. list' = list
        BY <1>7, <3>1 DEF Event
      <4> QED
        BY <4>1 DEF IdsOf
    <3>2. CASE loaded
      <4>1. ~Queued(feed)
        BY <2>3, <3>2 DEF CallsFit, CallFits
      <4> QED
        BY <1>7, <2>3, <3>2, <4>1, EventElsewhere, IdsKept
    <3> QED
      BY <3>1, <3>2
  <2>4. Queued(feed)' => Queued(feed)
    BY <1>7, SentReceived
  <2> QED
    BY <1>04, <2>1, <2>2, <2>3, <2>4
<1>8. ASSUME NEW s \in Slots, ReadServed(s) PROVE CallsFit'
  <2> DEFINE c == [calls[s] EXCEPT !.served = TRUE, !.page = Page(calls[s].feed, calls[s].skip)]
  <2>1. ASSUME ~raced' PROVE \A x \in Awaited' : Awaited' = {x} /\ CallFits(calls[x])'
    <3>1. ~raced /\ s \in Awaited /\ calls[s].kind # "channel" /\ UNCHANGED <<stored, version, view, events>>
      BY <1>0, <1>8, <2>1 DEF ReadServed, Reading, server
    <3>2. Awaited = {s} /\ CallFits(calls[s]) /\ feed \in Feeds
      BY <1>02, <3>1 DEF CallsFit
    <3>3. calls' = [calls EXCEPT ![s] = c]
      BY <1>8 DEF ReadServed
    <3>4. c.kind = calls[s].kind /\ c.feed = calls[s].feed /\ c.skip = calls[s].skip /\ c.page = Page(calls[s].feed, calls[s].skip)
      BY <1>0 DEF CallType
    <3> HIDE DEF c
    <3>5. calls'[s] = c /\ \A x \in Slots : x # s => calls'[x] = calls[x]
      BY <3>3 DEF FeedTypeOK
    <3>6. Awaited' = {s}
      BY <1>0, <1>01, <3>1, <3>2, <3>4, <3>5
    <3>7. feed' = feed /\ loaded' = loaded /\ loadingMore' = loadingMore /\ list' = list /\ (Queued(feed)' => Queued(feed)) /\ IdsOf(list)' = IdsOf(list)
      BY <3>1 DEF Queued, IdsOf, view
    <3>8. calls[s].skip \in Nat
      BY <1>0 DEF CallType
    <3>9. Page(feed, calls[s].skip)' = Page(feed', calls'[s].skip)
      BY <3>1 DEF Page, Entry
    <3>10. CallFits(calls[s])'
      BY <3>2, <3>4, <3>5, <3>7, <3>9 DEF CallFits
    <3> QED
      BY <3>6, <3>10
  <2> QED
    BY <2>1 DEF CallsFit
<1>9. ASSUME NEW what, NEW f \in Feeds, NEW e, Emit(what, f, e), UNCHANGED <<view, calls>>,
             f # feed /\ feed \in Feeds => stored'[feed] = stored[feed] /\ \A m \in Rows(feed) : version'[m] = version[m]
      PROVE  CallsFit'
  <2>1. UNCHANGED <<feed, loaded, loadingMore, list, calls>>
    BY <1>9 DEF view
  <2>2. Awaited' = Awaited /\ IdsOf(list)' = IdsOf(list)
    BY <2>1 DEF Awaited, IdsOf
  <2>3. ~raced' => ~raced
    BY <1>9 DEF Emit
  <2>4. \A s \in Awaited : ~raced' /\ calls[s].kind # "channel" => f # feed /\ feed \in Feeds /\ (Queued(feed)' => Queued(feed))
    BY <1>02, <1>9, <2>1, SentElsewhere
  <2> QED
    BY <1>04, <1>9, <2>1, <2>2, <2>3, <2>4
<1>10. ASSUME NEW f \in Feeds, Post(f) PROVE CallsFit'
  <2>1. Emit("message", f, Entry(made + 1)) /\ UNCHANGED <<view, calls, version>>
    BY <1>10 DEF Post
  <2>2. f # feed => stored'[feed] = stored[feed]
    BY <1>10 DEF Post, FeedTypeOK
  <2> QED
    BY <1>9, <2>1, <2>2
<1>11. ASSUME NEW m \in Ids, Edit(m) PROVE CallsFit'
  <2>1. UNCHANGED <<view, calls>> /\ UNCHANGED stored
    BY <1>11, ServerLeavesView, EditsStored
  <2>2. PICK f \in Feeds : /\ m \in Rows(f)
                          /\ version' = [version EXCEPT ![m] = edits + 1]
                          /\ Emit("update", f, [id |-> m, version |-> edits + 1])
    BY <1>11, EditsStored
  <2>3. f # feed /\ feed \in Feeds => \A x \in Rows(feed) : version'[x] = version[x]
    <3>1. f # feed /\ feed \in Feeds => m \notin Rows(feed)
      BY <2>2, OtherRows
    <3> QED
      BY <2>2, <3>1 DEF FeedTypeOK
  <2> QED
    BY <1>9, <2>1, <2>2, <2>3
<1>12. ASSUME NEW m \in Ids, Delete(m) PROVE CallsFit'
  <2>1. UNCHANGED <<view, calls>> /\ UNCHANGED version
    BY <1>12, ServerLeavesView DEF Delete
  <2>2. PICK f \in Feeds : /\ Emit("delete", f, Entry(m))
                          /\ \A g \in Feeds \ {f} : stored'[g] = stored[g]
    BY <1>12, DeletedRows
  <2> QED
    BY <1>9, <2>1, <2>2
<1>13. ASSUME NEW s \in Slots, EditServed(s) PROVE CallsFit'
  <2> DEFINE m == calls[s].skip
  <2>1. /\ UNCHANGED stored /\ UNCHANGED view
        /\ calls[s].kind = "edit" /\ calls' = [calls EXCEPT ![s] = Free]
    BY <1>13, ServedEdits, ServerLeavesView
  <2>2. calls'[s].kind = "free" /\ \A x \in Slots : x # s => calls'[x] = calls[x]
    BY <2>1 DEF Free, Call, FeedTypeOK
  <2>3. Awaited' = Awaited /\ \A x \in Awaited' : x \in Awaited /\ calls'[x] = calls[x]
    BY <1>0, <1>01, <2>1, <2>2 DEF Awaited
  <2>4. UNCHANGED <<feed, loaded, loadingMore, list>> /\ IdsOf(list)' = IdsOf(list)
    BY <2>1 DEF view, IdsOf
  <2>5. CASE Quiet /\ raced' = raced
    <3>1. Queued(feed)' => Queued(feed)
      BY <2>4, <2>5 DEF Queued, Quiet
    <3> QED
      BY <1>04, <2>3, <2>4, <2>5, <3>1 DEF Quiet
  <2>6. ASSUME NEW f \in Feeds, m \in Rows(f), version' = [version EXCEPT ![m] = calls[s].version],
               Emit("update", f, [id |-> m, version |-> calls[s].version])
        PROVE  CallsFit'
    <3>1. f # feed /\ feed \in Feeds => \A x \in Rows(feed) : version'[x] = version[x]
      <4>1. f # feed /\ feed \in Feeds => m \notin Rows(feed)
        BY <2>6, OtherRows
      <4> QED
        BY <2>6, <4>1 DEF FeedTypeOK
    <3>2. \A x \in Awaited : ~raced' /\ calls[x].kind # "channel" => f # feed /\ feed \in Feeds /\ (Queued(feed)' => Queued(feed))
      BY <1>02, <2>4, <2>6, SentElsewhere
    <3>3. ~raced' => ~raced
      BY <2>6 DEF Emit
    <3> QED
      BY <1>04, <2>1, <2>3, <2>4, <3>1, <3>2, <3>3
  <2> QED
    BY <1>13, <2>5, <2>6, ServedEdits
<1>14. ASSUME NEW s \in Slots, EditRefused(s) PROVE CallsFit'
  BY <1>14 DEF EditRefused, CallsFit
<1> QED
  BY <1>1, <1>2, <1>3, <1>4, <1>5, <1>6, <1>7, <1>8, <1>10, <1>11, <1>12, <1>13, <1>14 DEF FeedNext, Viewing, Serving

-----------------------------------------------------------------------------
(* The list and its places *)

LEMMA EndedIs ==
  ASSUME FeedTypeOK, StoredWell, NEW f \in Feeds
  PROVE  /\ Ended(f) \in Seq(Nat) /\ Falls(Ended(f)) /\ Range(Ended(f)) = All(f)
         /\ Len(stored[f]) \in Nat /\ Len(Ended(f)) = Len(stored[f]) + (IF f \in Threads THEN 1 ELSE 0)
         /\ DOMAIN Ended(f) = 1 .. Len(Ended(f)) /\ Len(Ended(f)) \in Nat
         /\ \A i \in 1 .. Len(stored[f]) : Ended(f)[i] = stored[f][i]
         /\ f \in Threads => Ended(f)[Len(stored[f]) + 1] = Parent
<1>1. stored[f] \in Seq(Ids) /\ Falls(stored[f]) /\ Ids \subseteq Nat
  BY DEF FeedTypeOK, StoredWell, Ids
<1>2. /\ stored[f] \in Seq(Nat) /\ Len(stored[f]) \in Nat /\ DOMAIN stored[f] = 1 .. Len(stored[f])
      /\ \A i \in 1 .. Len(stored[f]) : stored[f][i] \in Ids
  <2>1. /\ Len(stored[f]) \in Nat /\ DOMAIN stored[f] = 1 .. Len(stored[f])
        /\ \A i \in 1 .. Len(stored[f]) : stored[f][i] \in Ids
        /\ stored[f] = [i \in 1 .. Len(stored[f]) |-> stored[f][i]]
    BY <1>1
  <2>2. \A i \in 1 .. Len(stored[f]) : stored[f][i] \in Nat
    BY <1>1, <2>1
  <2>3. stored[f] \in Seq(Nat)
    BY <2>1, <2>2
  <2> QED
    BY <2>1, <2>3
<1>3. CASE f \notin Threads
  <2>1. Ended(f) = stored[f]
    BY <1>2, <1>3 DEF Ended
  <2>2. All(f) = Range(stored[f])
    BY <1>3 DEF All, Rows
  <2> QED
    BY <1>1, <1>2, <1>3, <2>1, <2>2
<1>4. CASE f \in Threads
  <2>1. Ended(f) = stored[f] \o <<Parent>> /\ <<Parent>> \in Seq(Nat) /\ All(f) = Range(stored[f]) \cup {Parent}
    BY <1>4 DEF Ended, All, Rows, Parent
  <2>2. /\ Ended(f) \in Seq(Nat) /\ Len(Ended(f)) = Len(stored[f]) + 1 /\ DOMAIN Ended(f) = 1 .. Len(stored[f]) + 1
        /\ \A i \in 1 .. Len(stored[f]) : Ended(f)[i] = stored[f][i]
        /\ Ended(f)[Len(stored[f]) + 1] = Parent
    BY <1>2, <2>1
  <2>3. \A i \in DOMAIN Ended(f) : i \in Nat /\ (i \in 1 .. Len(stored[f]) \/ i = Len(stored[f]) + 1)
    BY <1>2, <2>2
  <2>4. Falls(Ended(f))
    <3>1. ASSUME NEW i \in DOMAIN Ended(f), NEW j \in DOMAIN Ended(f), i < j PROVE Ended(f)[i] > Ended(f)[j]
      <4>1. i \in 1 .. Len(stored[f])
        BY <1>2, <2>2, <3>1
      <4>2. CASE j \in 1 .. Len(stored[f])
        BY <1>1, <1>2, <2>2, <3>1, <4>1, <4>2 DEF Falls
      <4>3. CASE j = Len(stored[f]) + 1
        BY <1>2, <2>2, <4>1, <4>3 DEF Parent, Ids
      <4> QED
        BY <2>3, <4>2, <4>3
    <3> QED
      BY <3>1 DEF Falls
  <2>5. Range(Ended(f)) = Range(stored[f]) \cup {Parent}
    <3>1. 1 .. Len(stored[f]) \subseteq DOMAIN Ended(f) /\ Len(stored[f]) + 1 \in DOMAIN Ended(f)
      BY <1>2, <2>2
    <3>2. Range(Ended(f)) \subseteq Range(stored[f]) \cup {Parent}
      BY <1>2, <2>2, <2>3 DEF Range
    <3>3. Range(stored[f]) \subseteq Range(Ended(f))
      BY <1>2, <2>2, <3>1 DEF Range
    <3>4. Parent \in Range(Ended(f))
      BY <2>2, <3>1 DEF Range
    <3> QED
      BY <3>2, <3>3, <3>4
  <2> QED
    BY <1>2, <1>4, <2>1, <2>2, <2>4, <2>5
<1> QED
  BY <1>3, <1>4

\* A page goes on where the feed was left, and one that is not full ends it.
LEMMA PageFollows ==
  ASSUME FeedTypeOK, StoredWell, NEW f \in Feeds, NEW skip \in Nat, skip <= Len(stored[f])
  PROVE  LET page == Page(f, skip)
         IN  /\ page \in Seq(Entries) /\ Len(page) \in Nat /\ DOMAIN page = 1 .. Len(page)
             /\ skip + Len(page) <= Len(Ended(f))
             /\ \A i \in 1 .. Len(page) : page[i] = Entry(Ended(f)[skip + i]) /\ page[i].id = Ended(f)[skip + i]
             /\ Len(page) < PageSize => skip + Len(page) = Len(Ended(f))
<1> DEFINE ids == PageIds(f, skip)
           closed == Closed(f, ids)
           page == Page(f, skip)
<1>0. PageSize \in Nat \ {0}
  BY BoundsAssumption DEF BoundsAssumption
<1>1. /\ Len(stored[f]) \in Nat
      /\ Len(ids) = IF skip + PageSize < Len(stored[f]) THEN PageSize
                    ELSE IF skip < Len(stored[f]) THEN Len(stored[f]) - skip ELSE 0
      /\ \A i \in 1 .. Len(ids) : skip + i \in 1 .. Len(stored[f]) /\ ids[i] = stored[f][skip + i]
  BY PageIdsAre
<1>2. /\ Len(closed) = Len(ids) + (IF f \in Threads /\ Len(ids) < PageSize THEN 1 ELSE 0)
      /\ DOMAIN closed = 1 .. Len(closed) /\ Len(closed) \in Nat /\ Len(ids) \in Nat
      /\ \A i \in 1 .. Len(closed) : IF i <= Len(ids) THEN closed[i] = ids[i] ELSE f \in Threads /\ i = Len(ids) + 1 /\ closed[i] = Parent
  BY ClosedAre
<1>3. page \in Seq(Entries) /\ Len(page) = Len(closed) /\ \A i \in DOMAIN page : page[i] = Entry(closed[i])
  BY PageType
<1>4. /\ Len(Ended(f)) = Len(stored[f]) + (IF f \in Threads THEN 1 ELSE 0)
      /\ \A i \in 1 .. Len(stored[f]) : Ended(f)[i] = stored[f][i]
      /\ f \in Threads => Ended(f)[Len(stored[f]) + 1] = Parent
  BY EndedIs
<1>5. closed \in Seq(Ids \cup {Parent})
  BY PageIdsType
<1> HIDE DEF ids, closed, page
<1>6. DOMAIN page = 1 .. Len(closed) /\ \A i \in 1 .. Len(closed) : closed[i] \in Ids \cup {Parent}
  BY <1>2, <1>3, <1>5
<1>7. \A i \in 1 .. Len(closed) : closed[i] = Ended(f)[skip + i]
  <2>1. ASSUME NEW i \in 1 .. Len(closed) PROVE closed[i] = Ended(f)[skip + i]
    <3>1. CASE i <= Len(ids)
      <4>1. i \in 1 .. Len(ids)
        BY <1>2, <3>1
      <4>2. skip + i \in 1 .. Len(stored[f]) /\ ids[i] = stored[f][skip + i] /\ closed[i] = ids[i]
        BY <1>1, <1>2, <3>1, <4>1
      <4> QED
        BY <1>4, <4>2
    <3>2. CASE ~(i <= Len(ids))
      <4>1. f \in Threads /\ i = Len(ids) + 1 /\ closed[i] = Parent
        BY <1>2, <3>2
      <4>2. Len(closed) >= i
        BY <1>2
      <4>3. Len(ids) < PageSize
        BY <1>0, <1>2, <3>2, <4>2
      <4>4. skip + Len(ids) = Len(stored[f])
        BY <1>0, <1>1, <4>3
      <4>5. skip + i = Len(stored[f]) + 1
        BY <1>1, <1>2, <4>1, <4>4
      <4> QED
        BY <1>4, <4>1, <4>5
    <3> QED
      BY <3>1, <3>2
  <2> QED
    BY <2>1
<1>8. skip + Len(page) <= Len(Ended(f)) /\ (Len(page) < PageSize => skip + Len(page) = Len(Ended(f)))
  <2> DEFINE n == Len(stored[f])
             k == Len(ids)
  <2>1. n \in Nat /\ k \in Nat /\ skip <= n
        /\ k = IF skip + PageSize < n THEN PageSize ELSE IF skip < n THEN n - skip ELSE 0
    BY <1>1, <1>2
  <2>2. CASE f \in Threads
    <3>1. Len(page) = k + (IF k < PageSize THEN 1 ELSE 0) /\ Len(Ended(f)) = n + 1
      BY <1>2, <1>3, <1>4, <2>2
    <3> HIDE DEF n, k
    <3> QED
      BY <1>0, <2>1, <3>1
  <2>3. CASE f \notin Threads
    <3>1. Len(page) = k /\ Len(Ended(f)) = n
      BY <1>2, <1>3, <1>4, <2>1, <2>3
    <3> HIDE DEF n, k
    <3> QED
      BY <1>0, <2>1, <3>1
  <2> QED
    BY <2>2, <2>3
<1>9. \A i \in 1 .. Len(page) : page[i] = Entry(closed[i]) /\ page[i].id = closed[i]
  BY <1>3, <1>6, EntryType
<1> QED
  BY <1>2, <1>3, <1>6, <1>7, <1>8, <1>9 DEF page

\* What stands where the feed has it is the newest part of the feed.
LEMMA PrefixFits ==
  ASSUME FeedTypeOK, StoredWell, NEW f \in Feeds, NEW l \in Seq(Entries), Len(l) <= Len(Ended(f)),
         \A i \in 1 .. Len(l) : l[i].id = Ended(f)[i]
  PROVE  /\ \A i, j \in DOMAIN l : i < j => l[i].id > l[j].id
         /\ IdsOf(l) \subseteq All(f)
         /\ \A x \in All(f), y \in IdsOf(l) : x > y => x \in IdsOf(l)
         /\ Len(l) = Len(Ended(f)) => All(f) \subseteq IdsOf(l)
<1>1. Ended(f) \in Seq(Nat) /\ Falls(Ended(f)) /\ Range(Ended(f)) = All(f) /\ DOMAIN Ended(f) = 1 .. Len(Ended(f)) /\ Len(Ended(f)) \in Nat
  BY EndedIs
<1>2. Len(l) \in Nat /\ DOMAIN l = 1 .. Len(l) /\ 1 .. Len(l) \subseteq DOMAIN Ended(f)
  BY <1>1
<1>3. \A i, j \in DOMAIN l : i < j => l[i].id > l[j].id
  BY <1>1, <1>2 DEF Falls
<1>4. IdsOf(l) \subseteq All(f)
  BY <1>1, <1>2 DEF IdsOf, Range
<1>5. ASSUME NEW x \in All(f), NEW y \in IdsOf(l), x > y PROVE x \in IdsOf(l)
  <2>1. PICK j \in DOMAIN Ended(f) : x = Ended(f)[j]
    BY <1>1 DEF Range
  <2>2. PICK i \in DOMAIN l : y = l[i].id
    BY DEF IdsOf
  <2>3. i \in DOMAIN Ended(f) /\ y = Ended(f)[i] /\ x \in Nat /\ y \in Nat
    BY <1>1, <1>2, <2>1, <2>2
  <2>4. ~(i < j)
    <3>1. ASSUME i < j PROVE FALSE
      <4>1. y > x
        BY <1>1, <2>1, <2>3, <3>1 DEF Falls
      <4> QED
        BY <1>5, <2>3, <4>1
    <3> QED
      BY <3>1
  <2>5. j \in DOMAIN l
    BY <1>1, <1>2, <2>1, <2>2, <2>3, <2>4
  <2> QED
    BY <1>2, <2>1, <2>5 DEF IdsOf
<1>6. Len(l) = Len(Ended(f)) => All(f) \subseteq IdsOf(l)
  <2>1. ASSUME Len(l) = Len(Ended(f)), NEW x \in All(f) PROVE x \in IdsOf(l)
    <3>1. PICK j \in DOMAIN Ended(f) : x = Ended(f)[j]
      BY <1>1 DEF Range
    <3> QED
      BY <1>1, <1>2, <2>1, <3>1 DEF IdsOf
  <2> QED
    BY <2>1
<1> QED
  BY <1>3, <1>4, <1>5, <1>6

\* Where no event is to come, the list stands where the feed has it.
LEMMA Places ==
  ASSUME FeedTypeOK, StoredWell, Unloaded, ListFits, ~raced, loaded, ~Queued(feed)
  PROVE  /\ feed \in Feeds /\ Len(list) \in Nat /\ DOMAIN list = 1 .. Len(list)
         /\ Len(list) <= Len(Ended(feed))
         /\ \A i \in 1 .. Len(list) : list[i].id = Ended(feed)[i]
         /\ top => Len(list) = Len(Ended(feed))
<1> DEFINE a == [i \in 1 .. Len(list) |-> list[i].id]
           b == Ended(feed)
<1>1. feed \in Feeds /\ Len(list) \in Nat /\ DOMAIN list = 1 .. Len(list) /\ \A i \in 1 .. Len(list) : list[i].id \in Nat
  <2>1. feed \in Feeds
    BY DEF Unloaded, FeedTypeOK
  <2>2. list \in Seq(Entries)
    BY DEF FeedTypeOK
  <2>3. \A e \in Entries : e.id \in Nat
    BY DEF Entries
  <2> QED
    BY <2>1, <2>2, <2>3
<1>2. a \in Seq(Nat) /\ Len(a) = Len(list) /\ DOMAIN a = DOMAIN list /\ Range(a) = IdsOf(list)
  <2>1. a \in Seq(Nat) /\ Len(a) = Len(list) /\ DOMAIN a = DOMAIN list
    BY <1>1
  <2>2. Range(a) = {a[i] : i \in DOMAIN a} /\ \A i \in DOMAIN list : a[i] = list[i].id
    BY <1>1 DEF Range
  <2> HIDE DEF a
  <2>3. Range(a) = IdsOf(list)
    BY <2>1, <2>2 DEF IdsOf
  <2> QED
    BY <2>1, <2>3
<1>3. b \in Seq(Nat) /\ Falls(b) /\ Range(b) = All(feed) /\ Len(b) \in Nat
  BY <1>1, EndedIs
<1>4. InPlace /\ Expected = IdsOf(list)
  BY NothingToCome DEF ListFits
<1>5. Falls(a)
  BY <1>1, <1>4 DEF Falls, InPlace
<1>6. Range(a) \subseteq Range(b) /\ \A x \in Range(b), y \in Range(a) : x > y => x \in Range(a)
  BY <1>2, <1>3, <1>4 DEF InPlace
<1>7. top => Range(b) = Range(a)
  <2>1. top => All(feed) = Expected
    BY <1>4 DEF InPlace
  <2> HIDE DEF a, b
  <2>2. Range(b) = All(feed) /\ Range(a) = Expected
    BY <1>2, <1>3, <1>4
  <2> QED
    BY <2>1, <2>2
<1>8. \A i \in 1 .. Len(list) : a[i] = list[i].id
  OBVIOUS
<1> HIDE DEF a, b
<1>9. Len(a) <= Len(b) /\ \A i \in 1 .. Len(a) : a[i] = b[i]
  BY <1>2, <1>3, <1>5, <1>6, SamePlaces
<1>10. top => Len(b) <= Len(a)
  <2>1. ASSUME top PROVE Len(b) <= Len(a)
    <3>1. Range(b) \subseteq Range(a) /\ \A x \in Range(a), y \in Range(b) : x > y => x \in Range(b)
      BY <1>7, <2>1
    <3> QED
      BY <1>2, <1>3, <1>5, <3>1, SamePlaces
  <2> QED
    BY <2>1
<1> QED
  BY <1>1, <1>2, <1>3, <1>8, <1>9, <1>10 DEF b

-----------------------------------------------------------------------------
(* The list fits *)

LEMMA InPlaceNext ==
  InPlace' <=>
    /\ \A i, j \in DOMAIN list' : i < j => list'[i].id > list'[j].id
    /\ \A x \in Sent("message", feed)', y \in IdsOf(list)' : x > y
    /\ Expected' \subseteq All(feed)'
    /\ \A x \in All(feed)', y \in Expected' : x > y => x \in Expected'
    /\ top' => All(feed)' \subseteq Expected'
BY DEF InPlace

LEMMA ExpectedNext ==
  /\ Expected' = (IdsOf(list)' \cup Sent("message", feed)') \ Sent("delete", feed)'
  /\ IdsOf(list)' = {list'[i].id : i \in DOMAIN list'}
BY DEF Expected, IdsOf

\* Ids that are spoken of have been given out.
LEMMA SpokenOf ==
  ASSUME FeedTypeOK, StoredWell, EventsWell, feed \in Feeds
  PROVE  /\ made \in Nat /\ All(feed) \subseteq 0 .. made
         /\ \A w : Sent(w, feed) \subseteq 1 .. made
<1>1. made \in Nat /\ Rows(feed) \subseteq 1 .. made
  BY DEF FeedTypeOK, StoredWell
<1>2. All(feed) \subseteq 0 .. made
  <2>1. 1 .. made \subseteq 0 .. made /\ 0 \in 0 .. made
    BY <1>1
  <2> QED
    BY <1>1, <2>1 DEF All, Parent
<1>3. \A w : Sent(w, feed) \subseteq 1 .. made
  BY DEF Sent, EventsWell
<1> QED
  BY <1>1, <1>2, <1>3

LEMMA PlaceKept ==
  ASSUME InPlace, UNCHANGED <<feed, top>>, DOMAIN list' = DOMAIN list, \A i \in DOMAIN list : list'[i].id = list[i].id,
         \A w \in {"message", "delete"} : Sent(w, feed)' = Sent(w, feed), All(feed)' = All(feed)
  PROVE  InPlace'
<1>1. IdsOf(list)' = IdsOf(list)
  BY ExpectedNext DEF IdsOf
<1>2. Expected' = Expected
  BY <1>1, ExpectedNext DEF Expected
<1> QED
  BY <1>1, <1>2, InPlaceNext DEF InPlace

LEMMA PostInPlace ==
  ASSUME FeedTypeOK, StoredWell, EventsWell, InPlace, feed \in Feeds, NEW f \in Feeds, Post(f)
  PROVE  InPlace'
<1>1. Emit("message", f, Entry(made + 1)) /\ UNCHANGED <<feed, top, list>>
  BY DEF Post, view
<1>2. Entry(made + 1).id = made + 1
  BY PostedType, EntryType DEF Post
<1>3. /\ Sent("message", feed)' = Sent("message", feed) \cup IF f = feed THEN {made + 1} ELSE {}
      /\ Sent("delete", feed)' = Sent("delete", feed)
  <2>1. \A w \in {"message", "delete"} :
          Sent(w, feed)' = Sent(w, feed) \cup IF w = "message" /\ feed = f THEN {Entry(made + 1).id} ELSE {}
    BY <1>1, SentEmitted
  <2> QED
    BY <1>2, <2>1
<1>4. All(feed)' = All(feed) \cup IF f = feed THEN {made + 1} ELSE {}
  BY <1>1, PostedRows DEF All
<1>5. CASE f # feed
  BY <1>1, <1>3, <1>4, <1>5, PlaceKept
<1>6. CASE f = feed
  <2> DEFINE n == made + 1
             M == Sent("message", feed)
             D == Sent("delete", feed)
  <2>1. made \in Nat /\ All(feed) \subseteq 0 .. made /\ M \subseteq 1 .. made /\ D \subseteq 1 .. made
    BY SpokenOf
  <2>2. Expected' = Expected \cup {n} /\ IdsOf(list)' = IdsOf(list)
    <3>1. IdsOf(list)' = IdsOf(list)
      BY <1>1, ExpectedNext DEF IdsOf
    <3>2. n \notin D
      BY <2>1
    <3> QED
      BY <1>3, <1>6, <3>1, <3>2, ExpectedNext DEF Expected
  <2>3. \A y \in All(feed) \cup D : y \in 0 .. made
    BY <2>1
  <2>4. \A y \in IdsOf(list) : y \in 0 .. made
    <3>1. IdsOf(list) \subseteq Expected \cup D
      BY DEF Expected
    <3> QED
      BY <2>3, <3>1 DEF InPlace
  <2> HIDE DEF n, M, D
  <2>5. n \in Nat /\ \A y \in 0 .. made : n > y /\ ~(y > n)
    BY <2>1 DEF n
  <2>6. \A x \in M \cup {n}, y \in IdsOf(list) : x > y
    BY <2>4, <2>5 DEF InPlace, M
  <2>7. \A x \in All(feed) \cup {n}, y \in Expected \cup {n} : x > y => x \in Expected \cup {n}
    BY <2>3, <2>5 DEF InPlace
  <2>8. /\ \A i, j \in DOMAIN list : i < j => list[i].id > list[j].id
        /\ Expected \subseteq All(feed) /\ (top => All(feed) \subseteq Expected)
    BY DEF InPlace
  <2>9. All(feed)' = All(feed) \cup {n} /\ Sent("message", feed)' = M \cup {n}
    BY <1>3, <1>4, <1>6 DEF n, M
  <2> QED
    BY <1>1, <2>2, <2>6, <2>7, <2>8, <2>9, InPlaceNext
<1> QED
  BY <1>5, <1>6

LEMMA DeleteInPlace ==
  ASSUME FeedTypeOK, StoredWell, InPlace, feed \in Feeds, NEW m \in Ids, Delete(m)
  PROVE  InPlace'
<1>1. UNCHANGED <<feed, top, list>>
  BY DEF Delete, view
<1>2. PICK f \in Feeds :
        /\ m \in Rows(f) /\ Emit("delete", f, Entry(m))
        /\ Rows(f)' = Rows(f) \ {m}
        /\ \A g \in Feeds \ {f} : stored'[g] = stored[g] /\ Rows(g)' = Rows(g)
  BY DeletedRows
<1>3. Entry(m).id = m /\ m # Parent
  BY EntryType DEF Ids, Parent
<1>4. /\ Sent("message", feed)' = Sent("message", feed)
      /\ Sent("delete", feed)' = Sent("delete", feed) \cup IF f = feed THEN {m} ELSE {}
  <2>1. \A w \in {"message", "delete"} :
          Sent(w, feed)' = Sent(w, feed) \cup IF w = "delete" /\ feed = f THEN {Entry(m).id} ELSE {}
    BY <1>1, <1>2, SentEmitted
  <2> QED
    BY <1>3, <2>1
<1>5. All(feed)' = All(feed) \ IF f = feed THEN {m} ELSE {}
  BY <1>1, <1>2, <1>3 DEF All
<1>6. IdsOf(list)' = IdsOf(list)
  BY <1>1, ExpectedNext DEF IdsOf
<1>7. Expected' = Expected \ IF f = feed THEN {m} ELSE {}
  BY <1>4, <1>6, ExpectedNext DEF Expected
<1> DEFINE Gone == IF f = feed THEN {m} ELSE {}
<1> HIDE DEF Gone
<1>8. All(feed)' = All(feed) \ Gone /\ Expected' = Expected \ Gone
  BY <1>5, <1>7 DEF Gone
<1>9. Expected' \subseteq All(feed)' /\ (top => All(feed)' \subseteq Expected')
  BY <1>8 DEF InPlace
<1>10. \A x \in All(feed)', y \in Expected' : x > y => x \in Expected'
  BY <1>8 DEF InPlace
<1> QED
  BY <1>1, <1>4, <1>6, <1>9, <1>10, InPlaceNext DEF InPlace

LEMMA DroppedIds ==
  ASSUME FeedTypeOK, NEW x, NEW T, T = {e \in Entries : e.id # x}, list' = Among(list, T)
  PROVE  /\ IdsOf(list)' = IdsOf(list) \ {x}
         /\ \A i, j \in DOMAIN list' : i < j => \E p, q \in DOMAIN list : p < q /\ list'[i] = list[p] /\ list'[j] = list[q]
         /\ \A i \in DOMAIN list' : list'[i] \in {list[p] : p \in DOMAIN list}
<1>1. KeptSoFar(Entries, list, T, Len(list), list')
  BY AmongKeeps DEF FeedTypeOK
<1>2. DOMAIN list = 1 .. Len(list) /\ \A p \in DOMAIN list : list[p] \in Entries
  BY DEF FeedTypeOK
<1>3. /\ \A i \in DOMAIN list' : list'[i] \in T /\ \E p \in DOMAIN list : list'[i] = list[p]
      /\ \A p \in DOMAIN list : list[p] \in T => \E i \in DOMAIN list' : list'[i] = list[p]
      /\ \A i, j \in DOMAIN list' : i < j => \E p, q \in DOMAIN list : p < q /\ list'[i] = list[p] /\ list'[j] = list[q]
  <2> DEFINE l == list'
  <2>1. KeptSoFar(Entries, list, T, Len(list), l)
    BY <1>1
  <2> HIDE DEF l
  <2>2. \A i \in DOMAIN l : l[i] \in T /\ \E p \in DOMAIN list : l[i] = list[p]
    BY <1>2, <2>1 DEF KeptSoFar
  <2>3. \A p \in DOMAIN list : list[p] \in T => \E i \in DOMAIN l : l[i] = list[p]
    BY <1>2, <2>1 DEF KeptSoFar
  <2>4. \A i, j \in DOMAIN l : i < j => \E p, q \in DOMAIN list : p < q /\ l[i] = list[p] /\ l[j] = list[q]
    <3>1. \A i, j \in DOMAIN l : i < j => \E p, q \in 1 .. Len(list) : p < q /\ l[i] = list[p] /\ l[j] = list[q]
      BY <2>1 DEF KeptSoFar
    <3> QED
      BY <1>2, <3>1
  <2> QED
    BY <2>2, <2>3, <2>4 DEF l
<1>4. ASSUME NEW y \in IdsOf(list)' PROVE y \in IdsOf(list) \ {x}
  <2>1. PICK i \in DOMAIN list' : y = list'[i].id
    BY <1>4, ExpectedNext
  <2>2. PICK p \in DOMAIN list : list'[i] = list[p]
    BY <1>3
  <2>3. list'[i].id # x
    BY <1>3
  <2> QED
    BY <2>1, <2>2, <2>3 DEF IdsOf
<1>5. ASSUME NEW y \in IdsOf(list) \ {x} PROVE y \in IdsOf(list)'
  <2>1. PICK p \in DOMAIN list : y = list[p].id
    BY DEF IdsOf
  <2>2. list[p] \in T
    BY <1>2, <1>5, <2>1
  <2>3. PICK i \in DOMAIN list' : list'[i] = list[p]
    BY <1>3, <2>2
  <2> QED
    BY <2>1, <2>3, ExpectedNext
<1> QED
  BY <1>3, <1>4, <1>5

LEMMA EventInPlace ==
  ASSUME FeedTypeOK, StoredWell, EventsWell, InPlace, feed \in Feeds, loaded, Event
  PROVE  InPlace'
<1> DEFINE e == Head(events)
           n == e.entry.id
<1>1. /\ UNCHANGED <<stored, feed, top>> /\ 1 \in DOMAIN events /\ e = events[1]
      /\ \A i \in DOMAIN events' : i \in Nat /\ i + 1 \in DOMAIN events /\ events'[i] = events[i + 1]
  BY Received
<1>2. \A w : Sent(w, feed) = Sent(w, feed)' \cup IF w = e.what /\ feed = e.feed THEN {n} ELSE {}
  BY SentReceived
<1>3. All(feed)' = All(feed)
  BY <1>1 DEF All, Rows
<1>4. list \in Seq(Entries) /\ e.entry \in Entries
  BY EventTypes DEF FeedTypeOK, Event
<1>5. \A x \in Sent("message", feed)' : x > n
  <2>1. ASSUME NEW x \in Sent("message", feed)' PROVE x > n
    <3>1. Sent("message", feed)' = {events'[i].entry.id : i \in {k \in DOMAIN events' : events'[k].what = "message" /\ events'[k].feed = feed}}
      BY <1>1 DEF Sent
    <3>2. PICK i \in DOMAIN events' : events'[i].what = "message" /\ x = events'[i].entry.id
      BY <3>1
    <3>3. i + 1 \in DOMAIN events /\ 1 < i + 1
      <4>1. i # 0
        BY DEF FeedTypeOK, Event
      <4> QED
        BY <1>1, <4>1
    <3> QED
      BY <1>1, <3>2, <3>3 DEF EventsWell
  <2> QED
    BY <2>1
<1>6. n \in 1 .. made /\ made \in Nat
  BY <1>1 DEF EventsWell, FeedTypeOK
<1>7. n \notin Sent("message", feed)'
  <2>1. ~(n > n)
    BY <1>6
  <2> QED
    BY <1>5, <2>1
<1> HIDE DEF e
<1>8. CASE e.what = "message" /\ e.feed = feed /\ list' = <<e.entry>> \o list
  <2>1. /\ DOMAIN list = 1 .. Len(list) /\ Len(list) \in Nat
        /\ DOMAIN list' = 1 .. Len(list) + 1 /\ list'[1] = e.entry
        /\ \A i \in 1 .. Len(list) : list'[i + 1] = list[i]
    BY <1>4, <1>8
  <2>2. \A i \in DOMAIN list' : i \in Nat /\ (i = 1 \/ (i - 1 \in DOMAIN list /\ list'[i] = list[i - 1]))
    <3>1. ASSUME NEW i \in DOMAIN list', i # 1 PROVE i - 1 \in 1 .. Len(list) /\ i = (i - 1) + 1
      BY <2>1, <3>1
    <3> QED
      BY <2>1, <3>1
  <2>3. IdsOf(list)' = IdsOf(list) \cup {n}
    <3>1. \A i \in DOMAIN list : i + 1 \in DOMAIN list' /\ list'[i + 1] = list[i]
      BY <2>1
    <3>2. 1 \in DOMAIN list'
      BY <2>1
    <3>3. IdsOf(list)' \subseteq IdsOf(list) \cup {n}
      BY <2>1, <2>2, ExpectedNext DEF IdsOf
    <3>4. IdsOf(list) \subseteq IdsOf(list)'
      BY <3>1, ExpectedNext DEF IdsOf
    <3>5. n \in IdsOf(list)'
      BY <2>1, <3>2, ExpectedNext
    <3> QED
      BY <3>3, <3>4, <3>5
  <2>4. Sent("message", feed) = Sent("message", feed)' \cup {n} /\ Sent("delete", feed) = Sent("delete", feed)'
    BY <1>2, <1>8
  <2>5. Expected' = Expected
    BY <2>3, <2>4, ExpectedNext DEF Expected
  <2>6. \A y \in IdsOf(list) : n > y
    BY <2>4 DEF InPlace
  <2>7. ASSUME NEW i \in DOMAIN list', NEW j \in DOMAIN list', i < j PROVE list'[i].id > list'[j].id
    <3>1. j - 1 \in DOMAIN list /\ list'[j] = list[j - 1] /\ j \in Nat /\ i \in Nat
      BY <2>1, <2>2, <2>7
    <3>2. CASE i = 1
      <4>1. list[j - 1].id \in IdsOf(list)
        BY <3>1 DEF IdsOf
      <4> QED
        BY <2>1, <2>6, <3>1, <3>2, <4>1
    <3>3. CASE i # 1
      <4>1. i - 1 \in DOMAIN list /\ list'[i] = list[i - 1] /\ i - 1 < j - 1
        BY <2>2, <2>7, <3>1, <3>3
      <4> QED
        BY <3>1, <4>1 DEF InPlace
    <3> QED
      BY <3>2, <3>3
  <2>8. \A x \in Sent("message", feed)', y \in IdsOf(list)' : x > y
    <3>1. Sent("message", feed)' \subseteq Sent("message", feed)
      BY <2>4
    <3> QED
      BY <1>5, <2>3, <3>1 DEF InPlace
  <2> QED
    BY <1>1, <1>3, <2>5, <2>7, <2>8, InPlaceNext DEF InPlace
<1>9. CASE e.what = "delete" /\ list' = Among(list, {x \in Entries : x.id # e.entry.id})
  <2>1. /\ IdsOf(list)' = IdsOf(list) \ {n}
        /\ \A i, j \in DOMAIN list' : i < j => \E p, q \in DOMAIN list : p < q /\ list'[i] = list[p] /\ list'[j] = list[q]
    BY <1>9, DroppedIds
  <2>2. Sent("message", feed)' = Sent("message", feed)
    BY <1>2, <1>9
  <2>3. Expected' = Expected
    <3>1. CASE e.feed = feed
      <4>1. Sent("delete", feed) = Sent("delete", feed)' \cup {n}
        BY <1>2, <1>9, <3>1
      <4> QED
        BY <1>7, <2>1, <2>2, <4>1, ExpectedNext DEF Expected
    <3>2. CASE e.feed # feed
      <4>1. Sent("delete", feed) = Sent("delete", feed)'
        BY <1>2, <3>2
      <4>2. n \notin All(feed)
        <5>1. n \notin Rows(feed)
          BY <1>1, <1>9 DEF EventsWell
        <5> QED
          BY <1>6, <5>1 DEF All, Parent
      <4>3. n \notin Expected
        BY <4>2 DEF InPlace
      <4>4. Expected' = Expected \ {n}
        BY <1>7, <2>1, <2>2, <4>1, ExpectedNext DEF Expected
      <4> QED
        BY <4>3, <4>4
    <3> QED
      BY <3>1, <3>2
  <2>4. ASSUME NEW i \in DOMAIN list', NEW j \in DOMAIN list', i < j PROVE list'[i].id > list'[j].id
    <3>1. PICK p \in DOMAIN list, q \in DOMAIN list : p < q /\ list'[i] = list[p] /\ list'[j] = list[q]
      BY <2>1, <2>4
    <3> QED
      BY <3>1 DEF InPlace
  <2>5. \A x \in Sent("message", feed)', y \in IdsOf(list)' : x > y
    BY <2>1, <2>2 DEF InPlace
  <2> QED
    BY <1>1, <1>3, <2>3, <2>4, <2>5, InPlaceNext DEF InPlace
<1>10. CASE /\ e.what # "delete" /\ ~(e.what = "message" /\ e.feed = feed)
            /\ DOMAIN list' = DOMAIN list /\ \A i \in DOMAIN list : list'[i].id = list[i].id
  <2>1. \A w \in {"message", "delete"} : Sent(w, feed)' = Sent(w, feed)
    BY <1>2, <1>10
  <2> QED
    BY <1>1, <1>3, <1>10, <2>1, PlaceKept
<1> QED
  BY <1>8, <1>9, <1>10, EventOnList DEF e

\* The next page goes on where the list ends.
LEMMA Appended ==
  ASSUME FeedTypeOK, StoredWell, Unloaded, ListFits, ~raced, loaded, ~Queued(feed), Parent \notin IdsOf(list),
         NEW page, page = Page(feed, Len(list)), list' = list \o page, top' = (top \/ Len(page) < PageSize)
  PROVE  /\ Len(list') <= Len(Ended(feed)) /\ list' \in Seq(Entries) /\ Len(list') \in Nat /\ DOMAIN list' = 1 .. Len(list')
         /\ \A i \in 1 .. Len(list') : list'[i].id = Ended(feed)[i]
         /\ \A i \in 1 .. Len(list') : (i \in DOMAIN list /\ list'[i] = list[i]) \/ list'[i] = Entry(list'[i].id)
         /\ top' => Len(list') = Len(Ended(feed))
<1> DEFINE k == Len(list)
<1>1. /\ feed \in Feeds /\ k \in Nat /\ DOMAIN list = 1 .. k
      /\ k <= Len(Ended(feed))
      /\ \A i \in 1 .. k : list[i].id = Ended(feed)[i]
      /\ top => k = Len(Ended(feed))
  BY Places
<1>2. /\ Len(stored[feed]) \in Nat /\ Len(Ended(feed)) = Len(stored[feed]) + (IF feed \in Threads THEN 1 ELSE 0)
      /\ feed \in Threads => Ended(feed)[Len(stored[feed]) + 1] = Parent
      /\ Len(Ended(feed)) \in Nat
  BY <1>1, EndedIs
<1>3. k <= Len(stored[feed])
  <2>1. ASSUME ~(k <= Len(stored[feed])) PROVE FALSE
    <3>1. feed \in Threads /\ k = Len(stored[feed]) + 1
      <4>1. feed \in Threads
        <5>1. ASSUME feed \notin Threads PROVE FALSE
          <6>1. Len(Ended(feed)) = Len(stored[feed])
            BY <1>2, <5>1
          <6>2. k <= Len(Ended(feed))
            BY <1>1
          <6> HIDE DEF k
          <6> QED
            BY <2>1, <6>1, <6>2
        <5> QED
          BY <5>1
      <4>2. Len(Ended(feed)) = Len(stored[feed]) + 1
        BY <1>2, <4>1
      <4>3. k \in Nat /\ Len(stored[feed]) \in Nat /\ k <= Len(Ended(feed))
        BY <1>1, <1>2
      <4> HIDE DEF k
      <4> QED
        BY <2>1, <4>1, <4>2, <4>3
    <3>2. k \in DOMAIN list /\ list[k].id = Parent
      <4>1. k \in Nat \ {0} /\ k <= Len(list)
        BY <1>1, <1>2, <3>1
      <4>2. k \in DOMAIN list /\ list[k].id = Ended(feed)[k]
        BY <1>1, <4>1
      <4> HIDE DEF k
      <4> QED
        BY <1>2, <3>1, <4>2
    <3> QED
      BY <3>2 DEF IdsOf
  <2> QED
    BY <2>1
<1>4. /\ page \in Seq(Entries) /\ Len(page) \in Nat /\ DOMAIN page = 1 .. Len(page)
      /\ k + Len(page) <= Len(Ended(feed))
      /\ \A i \in 1 .. Len(page) : page[i] = Entry(Ended(feed)[k + i]) /\ page[i].id = Ended(feed)[k + i]
      /\ Len(page) < PageSize => k + Len(page) = Len(Ended(feed))
  BY <1>1, <1>3, PageFollows
<1>5. list \in Seq(Entries)
  BY DEF FeedTypeOK
<1>6. /\ list' \in Seq(Entries) /\ Len(list') = k + Len(page) /\ DOMAIN list' = 1 .. k + Len(page)
      /\ \A i \in 1 .. k : list'[i] = list[i]
      /\ \A i \in 1 .. Len(page) : list'[k + i] = page[i]
  BY <1>4, <1>5
<1> HIDE DEF k
<1>7. \A i \in 1 .. k + Len(page) : i \in 1 .. k \/ (i - k \in 1 .. Len(page) /\ i = k + (i - k))
  BY <1>1, <1>4
<1>8. \A i \in 1 .. Len(list') : \/ i \in DOMAIN list /\ list'[i] = list[i] /\ list'[i].id = Ended(feed)[i]
                                 \/ list'[i] = Entry(Ended(feed)[i]) /\ list'[i].id = Ended(feed)[i]
  <2>1. ASSUME NEW i \in 1 .. Len(list')
        PROVE  \/ i \in DOMAIN list /\ list'[i] = list[i] /\ list'[i].id = Ended(feed)[i]
               \/ list'[i] = Entry(Ended(feed)[i]) /\ list'[i].id = Ended(feed)[i]
    <3>1. CASE i \in 1 .. k
      BY <1>1, <1>6, <3>1
    <3>2. CASE i - k \in 1 .. Len(page) /\ i = k + (i - k)
      <4>1. PICK p \in 1 .. Len(page) : p = i - k /\ i = k + p
        BY <3>2
      <4>2. list'[i] = page[p]
        BY <1>6, <4>1
      <4>3. page[p] = Entry(Ended(feed)[i]) /\ page[p].id = Ended(feed)[i]
        BY <1>4, <4>1
      <4> QED
        BY <4>2, <4>3
    <3> QED
      BY <1>6, <1>7, <2>1, <3>1, <3>2
  <2> QED
    BY <2>1
<1>9. top' => Len(list') = Len(Ended(feed))
  <2>1. k + Len(page) <= k => k + Len(page) = k
    BY <1>1, <1>4
  <2> QED
    BY <1>1, <1>4, <1>6, <2>1
<1>10. Len(list') \in Nat /\ DOMAIN list' = 1 .. Len(list')
  BY <1>1, <1>4, <1>6
<1> QED
  BY <1>4, <1>6, <1>8, <1>9, <1>10

LEMMA ListStep ==
  ASSUME FeedTypeOK, StoredWell, EventsWell, Unloaded, CallsFit, ListFits, FeedNext
  PROVE  ListFits'
<1>0. \A s \in Slots : calls[s] \in CallType /\ (s \in Awaited <=> calls[s].kind \in {"list", "more", "stray", "channel"})
  BY AwaitedTypes
<1>01. loaded => feed \in Feeds
  BY DEF Unloaded, FeedTypeOK
<1>02. ASSUME ~raced' => ~raced, ~raced' => (loaded' => loaded), loaded /\ feed \in Feeds /\ InPlace => InPlace' PROVE ListFits'
  BY <1>01, <1>02 DEF ListFits
<1>03. ASSUME ~raced' => ~raced, UNCHANGED <<feed, loaded, top, stored>>,
              DOMAIN list' = DOMAIN list, \A i \in DOMAIN list : list'[i].id = list[i].id,
              \A w \in {"message", "delete"} : Sent(w, feed)' = Sent(w, feed)
       PROVE  ListFits'
  <2>1. All(feed)' = All(feed)
    BY <1>03 DEF All, Rows
  <2> QED
    BY <1>02, <1>03, <2>1, PlaceKept
<1>04. ASSUME UNCHANGED <<feed, events>> PROVE \A w : Sent(w, feed)' = Sent(w, feed)
  BY <1>04 DEF Sent
<1>1. ASSUME NEW s \in Slots, NEW f \in Feeds, Open(f, s) PROVE ListFits'
  BY <1>1 DEF Open, Shows, ListFits
<1>2. CASE Leave
  BY <1>2 DEF Leave, Shows, ListFits
<1>3. ASSUME NEW s \in Slots, ChannelAnswered(s) \/ LoadMore(s) \/ ReadFails(s) \/ ReadServed(s) PROVE ListFits'
  <2>1. UNCHANGED <<feed, loaded, list, top, stored, events>> /\ (~raced' => ~raced)
    <3>1. CASE ChannelAnswered(s)
      BY <3>1 DEF ChannelAnswered, view, server
    <3>2. CASE LoadMore(s)
      BY <3>2 DEF LoadMore, server
    <3>3. CASE ReadFails(s) \/ ReadServed(s)
      BY <3>3 DEF ReadFails, ReadServed, view, server
    <3> QED
      BY <1>3, <3>1, <3>2, <3>3
  <2> QED
    BY <1>03, <1>04, <2>1
<1>4. ASSUME NEW s \in Slots, ListAnswered(s) PROVE ListFits'
  <2>1. /\ UNCHANGED <<stored, events, feed, raced>>
        /\ list' = calls[s].page /\ top' = (top \/ Len(list') < PageSize) /\ calls[s].kind = "list" /\ calls[s].served
    BY <1>4 DEF ListAnswered, server
  <2>2. ASSUME ~raced' PROVE InPlace'
    <3>1. s \in Awaited /\ ~raced
      BY <1>0, <2>1, <2>2
    <3>2. ~loaded /\ ~Queued(feed) /\ calls[s].page = Page(feed, 0) /\ feed \in Feeds /\ ~top
      BY <2>1, <3>1 DEF CallsFit, CallFits, Unloaded, FeedTypeOK
    <3>3. /\ list' \in Seq(Entries) /\ Len(list') \in Nat /\ DOMAIN list' = 1 .. Len(list')
          /\ Len(list') <= Len(Ended(feed))
          /\ \A i \in 1 .. Len(list') : list'[i].id = Ended(feed)[i]
          /\ Len(list') < PageSize => Len(list') = Len(Ended(feed))
      <4>1. 0 <= Len(stored[feed]) /\ 0 \in Nat /\ Len(Ended(feed)) \in Nat
        BY <3>2, EndedIs
      <4>2. /\ list' \in Seq(Entries) /\ Len(list') \in Nat /\ DOMAIN list' = 1 .. Len(list')
            /\ 0 + Len(list') <= Len(Ended(feed))
            /\ \A i \in 1 .. Len(list') : list'[i].id = Ended(feed)[0 + i]
            /\ Len(list') < PageSize => 0 + Len(list') = Len(Ended(feed))
        BY <2>1, <3>2, <4>1, PageFollows
      <4> QED
        BY <4>1, <4>2
    <3> DEFINE l == list'
    <3>4. /\ \A i, j \in DOMAIN l : i < j => l[i].id > l[j].id
          /\ IdsOf(l) \subseteq All(feed)
          /\ \A x \in All(feed), y \in IdsOf(l) : x > y => x \in IdsOf(l)
          /\ Len(l) = Len(Ended(feed)) => All(feed) \subseteq IdsOf(l)
      BY <3>2, <3>3, PrefixFits
    <3>5. Sent("message", feed)' = {} /\ Sent("delete", feed)' = {}
      BY <1>04, <2>1, <3>2, NothingToCome
    <3>6. Expected' = IdsOf(l) /\ IdsOf(list)' = IdsOf(l)
      BY <3>5, ExpectedNext DEF IdsOf
    <3>7. All(feed)' = All(feed)
      BY <2>1 DEF All, Rows
    <3>8. top' => All(feed) \subseteq IdsOf(l)
      BY <2>1, <3>2, <3>3, <3>4
    <3> QED
      BY <3>4, <3>5, <3>6, <3>7, <3>8, InPlaceNext
  <2> QED
    BY <2>2 DEF ListFits
<1>5. ASSUME NEW s \in Slots, MoreAnswered(s) PROVE ListFits'
  <2>1. /\ UNCHANGED <<stored, events, feed, raced, loaded>> /\ calls[s].kind \in {"more", "stray"} /\ calls[s].served
        /\ loaded => list' = list \o calls[s].page /\ top' = (top \/ Len(calls[s].page) < PageSize)
    BY <1>5 DEF MoreAnswered, server
  <2>2. ASSUME ~raced', loaded' PROVE InPlace'
    <3>1. s \in Awaited /\ ~raced
      BY <1>0, <2>1, <2>2
    <3>2. loaded /\ ~Queued(feed) /\ calls[s].page = Page(feed, Len(list)) /\ feed \in Feeds /\ Parent \notin IdsOf(list)
      BY <1>01, <2>1, <2>2, <3>1 DEF CallsFit, CallFits
    <3>3. /\ Len(list') <= Len(Ended(feed)) /\ list' \in Seq(Entries) /\ Len(list') \in Nat /\ DOMAIN list' = 1 .. Len(list')
          /\ \A i \in 1 .. Len(list') : list'[i].id = Ended(feed)[i]
          /\ top' => Len(list') = Len(Ended(feed))
      BY <2>1, <3>1, <3>2, Appended
    <3> DEFINE l == list'
    <3>4. /\ \A i, j \in DOMAIN l : i < j => l[i].id > l[j].id
          /\ IdsOf(l) \subseteq All(feed)
          /\ \A x \in All(feed), y \in IdsOf(l) : x > y => x \in IdsOf(l)
          /\ Len(l) = Len(Ended(feed)) => All(feed) \subseteq IdsOf(l)
      BY <3>2, <3>3, PrefixFits
    <3>5. Sent("message", feed)' = {} /\ Sent("delete", feed)' = {}
      BY <1>04, <2>1, <3>2, NothingToCome
    <3>6. Expected' = IdsOf(l) /\ IdsOf(list)' = IdsOf(l)
      BY <3>5, ExpectedNext DEF IdsOf
    <3>7. All(feed)' = All(feed)
      BY <2>1 DEF All, Rows
    <3>8. top' => All(feed) \subseteq IdsOf(l)
      BY <3>3, <3>4
    <3> QED
      BY <3>4, <3>5, <3>6, <3>7, <3>8, InPlaceNext
  <2> QED
    BY <2>2 DEF ListFits
<1>6. ASSUME NEW s \in Slots, NEW m \in Ids, OnEdit(m, s) PROVE ListFits'
  <2>1. UNCHANGED <<feed, loaded, top, stored, events, raced>>
    BY <1>6 DEF OnEdit
  <2>2. DOMAIN list' = DOMAIN list /\ \A i \in DOMAIN list : list'[i].id = list[i].id
    BY <1>6, EditsIds
  <2> QED
    BY <1>03, <1>04, <2>1, <2>2
<1>7. CASE Event
  <2>1. UNCHANGED <<loaded, raced>>
    BY <1>7, Received
  <2> QED
    BY <1>02, <1>7, <2>1, EventInPlace
<1>8. ASSUME NEW f \in Feeds, Post(f) PROVE ListFits'
  <2>1. UNCHANGED loaded /\ (~raced' => ~raced)
    BY <1>8 DEF Post, Emit, view
  <2> QED
    BY <1>02, <1>8, <2>1, PostInPlace
<1>9. ASSUME NEW m \in Ids, Delete(m) PROVE ListFits'
  <2>1. UNCHANGED loaded /\ (~raced' => ~raced)
    BY <1>9 DEF Delete, Emit, view
  <2> QED
    BY <1>02, <1>9, <2>1, DeleteInPlace
<1>10. ASSUME UNCHANGED <<stored, view>>, NEW f, NEW e, Emit("update", f, e) PROVE ListFits'
  <2>1. UNCHANGED <<feed, loaded, top, list, stored>> /\ (~raced' => ~raced)
    BY <1>10 DEF Emit, view
  <2>2. \A w \in {"message", "delete"} : Sent(w, feed)' = Sent(w, feed)
    <3>1. \A w \in {"message", "delete"} : Sent(w, feed)' = Sent(w, feed) \cup IF w = "update" /\ feed = f THEN {e.id} ELSE {}
      BY <1>10, <2>1, SentEmitted
    <3> QED
      BY <3>1
  <2> QED
    BY <1>03, <2>1, <2>2
<1>11. ASSUME NEW m \in Ids, Edit(m) PROVE ListFits'
  BY <1>10, <1>11, EditsStored, ServerLeavesView
<1>12. ASSUME NEW s \in Slots, EditServed(s) PROVE ListFits'
  <2>1. UNCHANGED <<stored, view>>
    BY <1>12, ServedEdits, ServerLeavesView
  <2>2. CASE Quiet /\ raced' = raced
    BY <1>03, <1>04, <2>1, <2>2 DEF Quiet, view
  <2> QED
    BY <1>10, <1>12, <2>1, <2>2, ServedEdits
<1>13. ASSUME NEW s \in Slots, EditRefused(s) PROVE ListFits'
  BY <1>13 DEF EditRefused, ListFits
<1> QED
  BY <1>1, <1>2, <1>3, <1>4, <1>5, <1>6, <1>7, <1>8, <1>9, <1>11, <1>12, <1>13 DEF FeedNext, Viewing, Serving

-----------------------------------------------------------------------------
(* The versions fit *)

LEMMA VersionsNext ==
  ASSUME ~raced' /\ loaded' =>
           \A i \in DOMAIN list' : \A x :
             x = list'[i].id /\ x \in All(feed)' /\ ~Updated(0, x)' /\ ~Pending(x)' => list'[i] = Entry(x)'
  PROVE  VersionsFit'
<1> SUFFICES ASSUME ~raced', loaded', NEW i \in DOMAIN list',
                    list'[i].id \in All(feed)', ~Updated(0, list[i].id)', ~Pending(list[i].id)'
             PROVE  list'[i] = Entry(list[i].id)'
  BY DEF VersionsFit
<1>1. PICK x : x = list'[i].id
  OBVIOUS
<1>2. ~Updated(0, x)' /\ ~Pending(x)'
  BY <1>1 DEF Updated, Pending
<1>3. Entry(x)' = Entry(list[i].id)'
  BY <1>1 DEF Entry
<1> QED
  BY <1>1, <1>2, <1>3

\* Whose entries were in the list they stay right unless something new is said of them.
LEMMA VersionsKept ==
  ASSUME VersionsFit, ~raced' => ~raced, loaded' = loaded,
         ~raced' /\ loaded => \A i \in DOMAIN list' : \E p \in DOMAIN list : list'[i] = list[p],
         ~raced' /\ loaded => \A x \in IdsOf(list) :
           x \in All(feed)' /\ ~Updated(0, x)' /\ ~Pending(x)' =>
             x \in All(feed) /\ ~Updated(0, x) /\ ~Pending(x) /\ Entry(x)' = Entry(x)
  PROVE  VersionsFit'
<1>1. ASSUME ~raced', loaded', NEW i \in DOMAIN list', NEW x,
             x = list'[i].id, x \in All(feed)', ~Updated(0, x)', ~Pending(x)'
      PROVE  list'[i] = Entry(x)'
  <2>1. PICK p \in DOMAIN list : list'[i] = list[p]
    BY <1>1
  <2>2. x = list[p].id /\ x \in IdsOf(list)
    BY <1>1, <2>1 DEF IdsOf
  <2>3. x \in All(feed) /\ ~Updated(0, x) /\ ~Pending(x) /\ Entry(x)' = Entry(x)
    BY <1>1, <2>2
  <2> QED
    BY <1>1, <2>1, <2>2, <2>3 DEF VersionsFit
<1> QED
  BY <1>1, VersionsNext

LEMMA SameEntry ==
  ASSUME NEW x, x # Parent => version'[x] = version[x]
  PROVE  Entry(x)' = Entry(x)
BY DEF Entry

\* A call that is no edit does not matter here.
LEMMA SamePending ==
  ASSUME FeedTypeOK, NEW s \in Slots, calls[s].kind # "edit", calls'[s].kind # "edit",
         \A y \in Slots : y # s => calls'[y] = calls[y]
  PROVE  \A x : Pending(x)' <=> Pending(x)
<1>1. \A x : Pending(x)' <=> \E y \in Slots : calls'[y].kind = "edit" /\ calls'[y].skip = x
  BY DEF Pending
<1> QED
  BY <1>1 DEF Pending

LEMMA ListedGiven ==
  ASSUME FeedTypeOK, StoredWell, EventsWell, ListFits, ~raced, loaded, feed \in Feeds
  PROVE  made \in Nat /\ IdsOf(list) \subseteq 0 .. made
<1>1. made \in Nat /\ All(feed) \subseteq 0 .. made /\ Sent("delete", feed) \subseteq 1 .. made
  BY SpokenOf
<1>2. IdsOf(list) \subseteq Expected \cup Sent("delete", feed)
  BY DEF Expected
<1>3. 1 .. made \subseteq 0 .. made
  BY <1>1
<1> QED
  BY <1>1, <1>2, <1>3 DEF ListFits, InPlace

LEMMA EventVersions ==
  ASSUME FeedTypeOK, EventsWell, LastWins, InPlace, loaded, ~raced, VersionsFit, Event
  PROVE  VersionsFit'
<1> DEFINE e == Head(events)
           n == e.entry.id
<1>1. UNCHANGED <<stored, version, feed, loaded, calls, raced>> /\ 1 \in DOMAIN events /\ e = events[1]
  BY Received
<1>2. /\ \A x : Updated(0, x) <=> Updated(0, x)' \/ (e.what = "update" /\ x = n)
      /\ \A x : Updated(0, x)' <=> Updated(1, x)
  BY SentReceived
<1>3. list \in Seq(Entries) /\ e.entry \in [id : Ids, version : 0 .. MaxEdits]
  BY EventTypes DEF FeedTypeOK, Event, EventType
<1>4. /\ \A x : Pending(x)' <=> Pending(x)
      /\ \A x : Entry(x)' = Entry(x)
      /\ All(feed)' = All(feed)
  BY <1>1 DEF Pending, Entry, All, Rows
<1>5. n # Parent
  BY <1>3 DEF Ids, Parent
<1>6. ASSUME NEW x, x = n, e.what # "delete", ~Updated(0, x)' PROVE e.entry = Entry(x)
  <2>1. ~Updated(1, events[1].entry.id)
    BY <1>1, <1>2, <1>6
  <2>2. e.entry.version = version[n]
    BY <1>1, <1>6, <2>1 DEF LastWins
  <2>3. e.entry = [id |-> n, version |-> version[n]]
    BY <1>3, <2>2
  <2> QED
    BY <1>5, <1>6, <2>3 DEF Entry
<1>7. ASSUME NEW x, x \in All(feed)', ~Updated(0, x)', ~Pending(x)', ~(e.what = "update" /\ x = n)
      PROVE  x \in All(feed) /\ ~Updated(0, x) /\ ~Pending(x) /\ Entry(x)' = Entry(x)
  BY <1>2, <1>4, <1>7
<1> HIDE DEF e
<1>8. CASE e.what = "message" /\ e.feed = feed /\ list' = <<e.entry>> \o list
  <2>1. ASSUME NEW i \in DOMAIN list', NEW x, x = list'[i].id, x \in All(feed)', ~Updated(0, x)', ~Pending(x)'
        PROVE  list'[i] = Entry(x)'
    <3>1. /\ DOMAIN list = 1 .. Len(list) /\ Len(list) \in Nat
          /\ DOMAIN list' = 1 .. Len(list) + 1 /\ list'[1] = e.entry
          /\ \A k \in 1 .. Len(list) : list'[k + 1] = list[k]
      <4>1. e.entry \in Entries
        BY EventTypes DEF Event, e
      <4> QED
        BY <1>3, <1>8, <4>1
    <3>2. CASE i = 1
      BY <1>4, <1>6, <1>8, <2>1, <3>1, <3>2
    <3>3. CASE i # 1
      <4>1. i - 1 \in 1 .. Len(list) /\ i = (i - 1) + 1
        BY <3>1, <3>3
      <4>2. i - 1 \in DOMAIN list /\ list'[i] = list[i - 1]
        BY <3>1, <4>1
      <4>3. list[i - 1] = Entry(x)
        BY <1>7, <1>8, <2>1, <4>2 DEF VersionsFit
      <4> QED
        BY <1>4, <4>2, <4>3
    <3> QED
      BY <3>2, <3>3
  <2> QED
    BY <2>1, VersionsNext
<1>9. CASE e.what = "delete" /\ list' = Among(list, {x \in Entries : x.id # e.entry.id})
  <2>1. \A i \in DOMAIN list' : \E p \in DOMAIN list : list'[i] = list[p]
    BY <1>9, DroppedIds
  <2> QED
    BY <1>1, <1>7, <1>9, <2>1, VersionsKept
<1>10. CASE /\ e.what # "delete" /\ ~(e.what = "message" /\ e.feed = feed)
            /\ DOMAIN list' = DOMAIN list /\ \A i \in DOMAIN list : list'[i].id = list[i].id
            /\ \A i \in DOMAIN list : list'[i] = list[i] \/ (e.what = "update" /\ list'[i] = e.entry)
            /\ e.what = "update" /\ n \in IdsOf(list) => list'[Position(n)] = e.entry
  <2>1. ASSUME NEW i \in DOMAIN list', NEW x, x = list'[i].id, x \in All(feed)', ~Updated(0, x)', ~Pending(x)'
        PROVE  list'[i] = Entry(x)'
    <3>1. i \in DOMAIN list /\ x = list[i].id
      BY <1>10, <2>1
    <3>2. CASE e.what = "update" /\ x = n
      <4>1. n \in IdsOf(list)
        BY <3>1, <3>2 DEF IdsOf
      <4>2. Position(n) \in DOMAIN list /\ list[Position(n)].id = n
        BY <4>1, PositionIs
      <4>3. i = Position(n)
        <5>1. PICK p \in DOMAIN list : p = Position(n)
          BY <4>2
        <5>2. p \in Nat /\ i \in Nat /\ list[p].id = n /\ list[i].id = n /\ n \in Nat
          BY <1>3, <3>1, <3>2, <4>2, <5>1 DEF Ids
        <5>3. ~(p < i) /\ ~(i < p)
          <6>1. ~(n > n)
            BY <5>2
          <6> QED
            BY <3>1, <5>2, <6>1 DEF InPlace
        <5> QED
          BY <5>1, <5>2, <5>3
      <4>4. list'[i] = e.entry
        BY <1>10, <3>2, <4>1, <4>3
      <4> QED
        BY <1>4, <1>6, <2>1, <3>2, <4>4
    <3>3. CASE ~(e.what = "update" /\ x = n)
      <4>1. list'[i] = list[i]
        BY <1>10, <2>1, <3>1, <3>3
      <4>2. list[i] = Entry(x)
        BY <1>7, <2>1, <3>1, <3>3 DEF VersionsFit
      <4> QED
        BY <1>4, <4>1, <4>2
    <3> QED
      BY <3>2, <3>3
  <2> QED
    BY <2>1, VersionsNext
<1> QED
  BY <1>8, <1>9, <1>10, EventOnList DEF e

LEMMA VersionsStep ==
  ASSUME FeedTypeOK, StoredWell, EventsWell, LastWins, Unloaded, CallsFit, ListFits, VersionsFit, FeedNext
  PROVE  VersionsFit'
<1>0. /\ \A s \in Slots : calls[s] \in CallType /\ (s \in Awaited <=> calls[s].kind \in {"list", "more", "stray", "channel"})
      /\ list \in Seq(Entries) /\ version \in [Ids -> 0 .. MaxEdits] /\ Parent \notin Ids
  BY AwaitedTypes DEF FeedTypeOK, Ids, Parent
<1>01. loaded => feed \in Feeds
  BY DEF Unloaded, FeedTypeOK
<1>02. \A m \in Ids : m \in All(feed) <=> m \in Rows(feed)
  BY <1>0 DEF All
<1>03. ASSUME Quiet, UNCHANGED <<feed, loaded, list>>, ~raced' => ~raced,
              \A x : Pending(x)' <=> Pending(x)
       PROVE  VersionsFit'
  <2>1. /\ All(feed)' = All(feed) /\ \A x : Updated(0, x)' <=> Updated(0, x)
        /\ \A x : Entry(x)' = Entry(x)
    BY <1>03 DEF Quiet, All, Rows, Updated, Entry
  <2> QED
    BY <1>03, <2>1, VersionsKept
<1>04. ASSUME NEW s \in Slots, calls[s].kind # "edit",
              End(s) \/ \E c : calls' = [calls EXCEPT ![s] = c] /\ c.kind # "edit"
       PROVE  \A x : Pending(x)' <=> Pending(x)
  <2>1. calls'[s].kind # "edit" /\ \A y \in Slots : y # s => calls'[y] = calls[y]
    BY <1>04 DEF End, Free, Call, FeedTypeOK
  <2> QED
    BY <1>04, <2>1, SamePending
<1>1. ASSUME NEW s \in Slots, NEW f \in Feeds, Open(f, s) PROVE VersionsFit'
  BY <1>1 DEF Open, Shows, VersionsFit
<1>2. CASE Leave
  BY <1>2 DEF Leave, Shows, VersionsFit
<1>3. ASSUME NEW s \in Slots, ChannelAnswered(s) PROVE VersionsFit'
  <2>1. Quiet /\ UNCHANGED <<feed, loaded, list>> /\ (~raced' => ~raced)
    BY <1>3 DEF ChannelAnswered, view, server, Quiet
  <2>2. calls[s].kind # "edit" /\ calls' = [calls EXCEPT ![s] = Call("list", feed, 0)] /\ Call("list", feed, 0).kind # "edit"
    BY <1>3 DEF ChannelAnswered, Call
  <2> QED
    BY <1>03, <1>04, <2>1, <2>2
<1>4. ASSUME NEW s \in Slots, LoadMore(s) PROVE VersionsFit'
  <2>1. Quiet /\ UNCHANGED <<feed, loaded, list>> /\ (~raced' => ~raced)
    BY <1>4 DEF LoadMore, server, Quiet
  <2>2. calls[s].kind # "edit" /\ calls' = [calls EXCEPT ![s] = Call("more", feed, Len(list))] /\ Call("more", feed, Len(list)).kind # "edit"
    BY <1>4 DEF LoadMore, Begin, Call, Free
  <2> QED
    BY <1>03, <1>04, <2>1, <2>2
<1>5. ASSUME NEW s \in Slots, ReadFails(s) PROVE VersionsFit'
  <2>1. Quiet /\ UNCHANGED <<feed, loaded, list>> /\ (~raced' => ~raced) /\ End(s) /\ calls[s].kind # "edit"
    BY <1>5 DEF ReadFails, server, view, Quiet, Reading
  <2> QED
    BY <1>03, <1>04, <2>1
<1>6. ASSUME NEW s \in Slots, ReadServed(s) PROVE VersionsFit'
  <2> DEFINE c == [calls[s] EXCEPT !.served = TRUE, !.page = Page(calls[s].feed, calls[s].skip)]
  <2>1. Quiet /\ UNCHANGED <<feed, loaded, list>> /\ (~raced' => ~raced) /\ calls[s].kind # "edit"
    BY <1>6 DEF ReadServed, server, view, Quiet, Reading
  <2>2. calls' = [calls EXCEPT ![s] = c] /\ c.kind # "edit"
    <3>1. calls' = [calls EXCEPT ![s] = c]
      BY <1>6 DEF ReadServed
    <3>2. c.kind = calls[s].kind
      BY <1>0 DEF CallType
    <3> QED
      BY <2>1, <3>1, <3>2
  <2> HIDE DEF c
  <2> QED
    BY <1>03, <1>04, <2>1, <2>2
<1>7. ASSUME NEW s \in Slots, ListAnswered(s) PROVE VersionsFit'
  <2>1. /\ UNCHANGED <<version, feed, raced>>
        /\ list' = calls[s].page /\ calls[s].kind = "list" /\ calls[s].served
    BY <1>7 DEF ListAnswered, server
  <2>2. ASSUME ~raced', NEW i \in DOMAIN list', NEW x, x = list'[i].id PROVE list'[i] = Entry(x)'
    <3>1. s \in Awaited /\ ~raced
      BY <1>0, <2>1, <2>2
    <3>2. calls[s].page = Page(feed, 0) /\ feed \in Feeds
      BY <2>1, <3>1 DEF CallsFit, CallFits, Unloaded, FeedTypeOK
    <3>3. list'[i] = Entry(Ended(feed)[0 + i]) /\ list'[i].id = Ended(feed)[0 + i]
      <4>1. 0 <= Len(stored[feed]) /\ 0 \in Nat
        BY <3>2, EndedIs
      <4> QED
        BY <2>1, <2>2, <3>2, <4>1, PageFollows
    <3>4. Entry(x)' = Entry(x)
      BY <2>1, SameEntry
    <3> QED
      BY <2>2, <3>3, <3>4
  <2> QED
    BY <2>2, VersionsNext
<1>8. ASSUME NEW s \in Slots, MoreAnswered(s) PROVE VersionsFit'
  <2>1. /\ Quiet /\ UNCHANGED <<feed, raced, loaded>> /\ calls[s].kind \in {"more", "stray"} /\ calls[s].served /\ End(s)
        /\ loaded => list' = list \o calls[s].page /\ top' = (top \/ Len(calls[s].page) < PageSize)
    BY <1>8 DEF MoreAnswered, server, Quiet
  <2>2. \A x : Pending(x)' <=> Pending(x)
    BY <1>04, <2>1
  <2>3. /\ All(feed)' = All(feed) /\ \A x : Updated(0, x)' <=> Updated(0, x)
        /\ \A x : Entry(x)' = Entry(x)
    BY <2>1 DEF Quiet, All, Rows, Updated, Entry
  <2>4. ASSUME ~raced', loaded', NEW i \in DOMAIN list', NEW x, x = list'[i].id, x \in All(feed)', ~Updated(0, x)', ~Pending(x)'
        PROVE  list'[i] = Entry(x)'
    <3>1. s \in Awaited /\ ~raced
      BY <1>0, <2>1, <2>4
    <3>2. loaded /\ ~Queued(feed) /\ calls[s].page = Page(feed, Len(list)) /\ feed \in Feeds /\ Parent \notin IdsOf(list)
      BY <1>01, <2>1, <2>4, <3>1 DEF CallsFit, CallFits
    <3>3. (i \in DOMAIN list /\ list'[i] = list[i]) \/ list'[i] = Entry(list'[i].id)
      BY <2>1, <2>4, <3>1, <3>2, Appended
    <3>4. CASE i \in DOMAIN list /\ list'[i] = list[i]
      BY <2>2, <2>3, <2>4, <3>1, <3>2, <3>4 DEF VersionsFit
    <3>5. CASE list'[i] = Entry(list'[i].id)
      BY <2>3, <2>4, <3>5
    <3> QED
      BY <3>3, <3>4, <3>5
  <2> QED
    BY <2>4, VersionsNext
<1>9. ASSUME NEW s \in Slots, NEW m \in Ids, OnEdit(m, s) PROVE VersionsFit'
  <2>1. UNCHANGED <<feed, loaded, stored, version, events, raced>>
    BY <1>9 DEF OnEdit
  <2>2. /\ DOMAIN list' = DOMAIN list /\ \A i \in DOMAIN list : list'[i].id = list[i].id
        /\ \A i \in DOMAIN list : list'[i] = list[i] \/ list[i].id = m
    BY <1>9, EditsIds
  <2>3. /\ calls[s].kind # "edit" /\ calls'[s].kind = "edit" /\ calls'[s].skip = m
        /\ \A y \in Slots : y # s => calls'[y] = calls[y]
    BY <1>9 DEF OnEdit, Begin, Free, Call, FeedTypeOK
  <2>4. \A x : ~Pending(x)' => ~Pending(x) /\ x # m
    <3>1. \A x : Pending(x)' <=> \E y \in Slots : calls'[y].kind = "edit" /\ calls'[y].skip = x
      BY DEF Pending
    <3> QED
      BY <2>3, <3>1 DEF Pending
  <2>5. /\ All(feed)' = All(feed) /\ \A x : Updated(0, x)' <=> Updated(0, x)
        /\ \A x : Entry(x)' = Entry(x)
    BY <2>1 DEF All, Rows, Updated, Entry
  <2>6. ASSUME ~raced', loaded', NEW i \in DOMAIN list', NEW x, x = list'[i].id, x \in All(feed)', ~Updated(0, x)', ~Pending(x)'
        PROVE  list'[i] = Entry(x)'
    <3>1. i \in DOMAIN list /\ list'[i] = list[i] /\ x = list[i].id
      BY <2>2, <2>4, <2>6
    <3> QED
      BY <2>1, <2>4, <2>5, <2>6, <3>1 DEF VersionsFit
  <2> QED
    BY <2>6, VersionsNext
<1>10. CASE Event
  <2>1. CASE ~raced /\ loaded
    <3>1. InPlace
      BY <2>1 DEF ListFits
    <3> QED
      BY <1>10, <2>1, <3>1, EventVersions
  <2>2. CASE ~(~raced /\ loaded)
    <3>1. raced' = raced /\ loaded' = loaded
      BY <1>10, Received
    <3> QED
      BY <2>2, <3>1 DEF VersionsFit
  <2> QED
    BY <2>1, <2>2
\* What an event that is sent changes: at most one message, and not unannounced.
<1>11. ASSUME NEW what, NEW f, NEW e, Emit(what, f, e), UNCHANGED view,
              ~raced' /\ loaded => \A x \in IdsOf(list) : x \in All(feed)' => x \in All(feed),
              \A x : ~Pending(x)' => ~Pending(x) \/ (what = "update" /\ x = e.id),
              \A x : x \in Ids => version'[x] = version[x] \/ (what = "update" /\ x = e.id)
       PROVE  VersionsFit'
  <2>1. UNCHANGED <<feed, loaded, list>> /\ (~raced' => ~raced)
    BY <1>11 DEF view, Emit
  <2>2. \A x : Updated(0, x)' <=> Updated(0, x) \/ (what = "update" /\ x = e.id)
    BY <1>11, <2>1, SentEmitted
  <2>3. ASSUME ~raced', loaded, NEW x \in IdsOf(list), x \in All(feed)', ~Updated(0, x)', ~Pending(x)'
        PROVE  x \in All(feed) /\ ~Updated(0, x) /\ ~Pending(x) /\ Entry(x)' = Entry(x)
    <3>1. ~(what = "update" /\ x = e.id) /\ ~Updated(0, x)
      BY <2>2, <2>3
    <3>2. x \in Ids \cup {Parent}
      <4>1. \A i \in DOMAIN list : list[i].id \in 0 .. MaxMessages
        <5>1. \A e1 \in Entries : e1.id \in 0 .. MaxMessages
          BY DEF Entries
        <5> QED
          BY <1>0, <5>1
      <4>2. 0 .. MaxMessages \subseteq Ids \cup {Parent}
        BY DEF Ids, Parent
      <4> QED
        BY <4>1, <4>2 DEF IdsOf
    <3>3. Entry(x)' = Entry(x)
      BY <1>11, <3>1, <3>2, SameEntry
    <3> QED
      BY <1>11, <2>3, <3>1, <3>3
  <2> QED
    BY <2>1, <2>3, VersionsKept
<1>12. ASSUME NEW f \in Feeds, Post(f) PROVE VersionsFit'
  <2>1. Emit("message", f, Entry(made + 1)) /\ UNCHANGED view /\ UNCHANGED calls /\ UNCHANGED version
    BY <1>12 DEF Post
  <2>2. ASSUME ~raced', loaded, NEW x \in IdsOf(list), x \in All(feed)' PROVE x \in All(feed)
    <3>1. ~raced /\ feed \in Feeds /\ feed' = feed
      BY <1>01, <2>1, <2>2 DEF Emit, view
    <3>2. All(feed)' \subseteq All(feed) \cup {made + 1}
      BY <1>12, <3>1, PostedRows DEF All
    <3>3. made \in Nat /\ x \in 0 .. made
      BY <2>2, <3>1, ListedGiven
    <3>4. x # made + 1
      BY <3>3
    <3> QED
      BY <2>2, <3>2, <3>4
  <2>3. \A x : Pending(x)' <=> Pending(x)
    BY <2>1 DEF Pending
  <2> QED
    BY <1>11, <2>1, <2>2, <2>3
<1>13. ASSUME NEW m \in Ids, Delete(m) PROVE VersionsFit'
  <2>1. UNCHANGED view /\ UNCHANGED calls /\ UNCHANGED version
    BY <1>13 DEF Delete
  <2>2. PICK f \in Feeds :
          /\ Emit("delete", f, Entry(m))
          /\ Rows(f)' = Rows(f) \ {m}
          /\ \A g \in Feeds \ {f} : Rows(g)' = Rows(g)
    BY <1>13, DeletedRows
  <2>3. feed \in Feeds => All(feed)' \subseteq All(feed)
    <3>1. feed' = feed
      BY <2>1 DEF view
    <3> QED
      BY <2>2, <3>1 DEF All
  <2>4. \A x : Pending(x)' <=> Pending(x)
    BY <2>1 DEF Pending
  <2> QED
    BY <1>01, <1>11, <2>1, <2>2, <2>3, <2>4
<1>14. ASSUME NEW m \in Ids, Edit(m) PROVE VersionsFit'
  <2>1. UNCHANGED view /\ UNCHANGED calls /\ UNCHANGED stored
    BY <1>14, EditsStored, ServerLeavesView
  <2> DEFINE e == [id |-> m, version |-> edits + 1]
  <2>2. PICK f \in Feeds : version' = [version EXCEPT ![m] = edits + 1] /\ Emit("update", f, e)
    BY <1>14, EditsStored
  <2>3. e.id = m
    OBVIOUS
  <2> HIDE DEF e
  <2>4. All(feed)' = All(feed)
    BY <2>1 DEF All, Rows, view
  <2>5. \A x : Pending(x)' <=> Pending(x)
    BY <2>1 DEF Pending
  <2>6. \A x : x \in Ids => version'[x] = version[x] \/ x = e.id
    BY <1>0, <2>2, <2>3
  <2> QED
    BY <1>11, <2>1, <2>2, <2>4, <2>5, <2>6
<1>15. ASSUME NEW s \in Slots, EditServed(s) PROVE VersionsFit'
  <2> DEFINE m == calls[s].skip
             e == [id |-> m, version |-> calls[s].version]
  <2>1. UNCHANGED <<stored, view>> /\ calls[s].kind = "edit" /\ calls' = [calls EXCEPT ![s] = Free] /\ m \in Ids
    BY <1>15, ServedEdits, ServerLeavesView DEF FeedTypeOK
  <2>2. \A x : x # m => (Pending(x)' <=> Pending(x))
    <3>1. calls'[s].kind # "edit" /\ \A y \in Slots : y # s => calls'[y] = calls[y]
      BY <2>1 DEF Free, Call, FeedTypeOK
    <3>2. \A x : Pending(x)' <=> \E y \in Slots : calls'[y].kind = "edit" /\ calls'[y].skip = x
      BY DEF Pending
    <3> QED
      BY <3>1, <3>2 DEF Pending
  <2>3. All(feed)' = All(feed) /\ UNCHANGED <<feed, loaded, list>>
    BY <2>1 DEF All, Rows, view
  <2>4. CASE Quiet /\ raced' = raced /\ \A f \in Feeds : m \notin Rows(f)
    <3>1. /\ \A x : Updated(0, x)' <=> Updated(0, x)
          /\ \A x : Entry(x)' = Entry(x)
      BY <2>4 DEF Quiet, Updated, Entry
    <3>2. loaded => m \notin All(feed)
      BY <1>01, <1>02, <2>1, <2>4
    <3> HIDE DEF m
    <3> QED
      BY <2>2, <2>3, <2>4, <3>1, <3>2, VersionsKept
  <2>5. ASSUME NEW f \in Feeds, version' = [version EXCEPT ![m] = calls[s].version], Emit("update", f, e)
        PROVE  VersionsFit'
    <3>1. e.id = m
      OBVIOUS
    <3> HIDE DEF e
    <3>2. \A x : x \in Ids => version'[x] = version[x] \/ x = e.id
      BY <1>0, <2>5, <3>1
    <3> HIDE DEF m
    <3> QED
      BY <1>11, <2>1, <2>2, <2>3, <2>5, <3>1, <3>2
  <2> QED
    BY <1>15, <2>4, <2>5, ServedEdits
<1>16. ASSUME NEW s \in Slots, EditRefused(s) PROVE VersionsFit'
  BY <1>16 DEF EditRefused, VersionsFit
<1> QED
  BY <1>1, <1>2, <1>3, <1>4, <1>5, <1>6, <1>7, <1>8, <1>9, <1>10, <1>12, <1>13, <1>14, <1>15, <1>16 DEF FeedNext, Viewing, Serving

-----------------------------------------------------------------------------
(* Theorems *)

LEMMA FeedInvInit == FeedInit => FeedInv
<1> SUFFICES ASSUME FeedInit PROVE FeedInv
  OBVIOUS
<1> DEFINE l == Reverse([i \in 1 .. Existing |-> i])
<1>1. Existing \in Nat /\ made = Existing
  BY BoundsAssumption DEF BoundsAssumption, FeedInit
<1>2. l = [i \in 1 .. Existing |-> Existing - i + 1]
  <2>1. Len([i \in 1 .. Existing |-> i]) = Existing
    BY <1>1
  <2>2. \A i \in 1 .. Existing : Existing - i + 1 \in 1 .. Existing
    BY <1>1
  <2> QED
    BY <1>1, <2>1, <2>2 DEF Reverse
<1> HIDE DEF l
<1>3. Falls(l) /\ Range(l) \subseteq 1 .. made
  BY <1>1, <1>2 DEF Falls, Range
<1>4. StoredWell
  <2>1. PICK f \in Feeds : stored = [x \in Feeds |-> IF x = f THEN l ELSE <<>>]
    BY DEF FeedInit, l
  <2>2. Falls(<<>>) /\ Range(<<>>) = {}
    BY DEF Falls, Range
  <2>3. \A x \in Feeds : (x = f /\ stored[x] = l) \/ (x # f /\ stored[x] = <<>>)
    BY <2>1
  <2>4. \A x \in Feeds : Falls(stored[x]) /\ Rows(x) \subseteq 1 .. made /\ (x # f => Rows(x) = {})
    BY <1>3, <2>2, <2>3 DEF Rows
  <2> QED
    BY <2>4 DEF StoredWell
<1>5. events = <<>> /\ ~loaded /\ list = <<>> /\ ~top /\ \A s \in Slots : calls[s].kind = "free"
  BY DEF FeedInit, Free, Call
<1>6. Awaited = {}
  BY <1>5 DEF Awaited, Reading
<1>7. EventsWell /\ LastWins
  BY <1>5 DEF EventsWell, LastWins
<1>8. Unloaded /\ CallsFit /\ ListFits /\ VersionsFit
  BY <1>5, <1>6 DEF Unloaded, CallsFit, ListFits, VersionsFit, Reading
<1> QED
  BY <1>4, <1>7, <1>8, FeedTypeInit DEF FeedInv

LEMMA FeedInvStep == FeedInv /\ [FeedNext]_feedVars => FeedInv'
<1> SUFFICES ASSUME FeedInv, [FeedNext]_feedVars PROVE FeedInv'
  OBVIOUS
<1>1. CASE FeedNext
  BY <1>1, FeedTypeStep, StoredStep, EventsStep, LastStep, UnloadedStep, CallsStep, ListStep, VersionsStep DEF FeedInv
<1>2. CASE UNCHANGED feedVars
  <2> USE <1>2 DEF feedVars, server, view
  <2>1. FeedTypeOK'
    BY DEF FeedInv, FeedTypeOK
  <2>2. StoredWell' /\ EventsWell' /\ LastWins'
    BY DEF FeedInv, StoredWell, EventsWell, LastWins, Rows, Updated
  <2>3. Unloaded' /\ CallsFit'
    <3>1. Awaited' = Awaited /\ Queued(feed)' = Queued(feed) /\ IdsOf(list)' = IdsOf(list)
      BY DEF Awaited, Queued, IdsOf
    <3>2. Unloaded'
      BY <3>1 DEF FeedInv, Unloaded
    <3>3. ASSUME NEW s \in Slots, CallFits(calls[s]) PROVE CallFits(calls[s])'
      <4>1. Page(feed, calls[s].skip)' = Page(feed, calls[s].skip)
        BY DEF Page, Entry
      <4> QED
        BY <3>1, <3>3, <4>1 DEF CallFits
    <3>4. CallsFit'
      BY <3>1, <3>3 DEF FeedInv, CallsFit, Awaited
    <3> QED
      BY <3>2, <3>4
  <2>4. ListFits'
    BY DEF FeedInv, ListFits, InPlace, Expected, IdsOf, Sent, All, Rows
  <2>5. VersionsFit'
    BY DEF FeedInv, VersionsFit, All, Rows, Updated, Pending, Entry
  <2> QED
    BY <2>1, <2>2, <2>3, <2>4, <2>5 DEF FeedInv
<1> QED
  BY <1>1, <1>2

LEMMA FeedInvHolds == FeedSpec => []FeedInv
BY FeedInvInit, FeedInvStep, PTL DEF FeedSpec

THEOREM FeedTypeCorrect == FeedSpec => []FeedTypeOK
<1>1. FeedInv => FeedTypeOK
  BY DEF FeedInv
<1> QED
  BY <1>1, FeedInvHolds, PTL

THEOREM NothingEverTwice == FeedSpec => []NothingTwice
<1>1. FeedInv => NothingTwice
  <2> SUFFICES ASSUME FeedInv, ~raced, NEW i \in DOMAIN list, NEW j \in DOMAIN list, list[i].id = list[j].id PROVE i = j
    BY DEF NothingTwice
  <2>1. list \in Seq(Entries)
    BY DEF FeedInv, FeedTypeOK
  <2>2. loaded /\ InPlace
    <3>1. list # <<>>
      BY <2>1
    <3> QED
      BY <3>1 DEF FeedInv, Unloaded, ListFits
  <2>3. i \in Nat /\ j \in Nat /\ list[i].id \in Nat
    <3>1. \A e \in Entries : e.id \in Nat
      BY DEF Entries
    <3> QED
      BY <2>1, <3>1
  <2>4. ~(i < j) /\ ~(j < i)
    <3>1. ~(list[i].id > list[i].id)
      BY <2>3
    <3>2. (i < j => list[i].id > list[j].id) /\ (j < i => list[j].id > list[i].id)
      BY <2>2 DEF InPlace
    <3> QED
      BY <3>1, <3>2
  <2> QED
    BY <2>3, <2>4
<1> QED
  BY <1>1, FeedInvHolds, PTL

THEOREM ListIsAlwaysFeed == FeedSpec => []ListIsFeed
<1>1. FeedInv => ListIsFeed
  <2> SUFFICES ASSUME FeedInv, ~raced, loaded, events = <<>>, \A s \in Slots : calls[s] = Free
               PROVE  IsPrefix(list, Whole) /\ (top => list = Whole)
    BY DEF ListIsFeed
  <2>1. ~Queued(feed) /\ \A m : ~Updated(0, m) /\ ~Pending(m)
    BY DEF Queued, Updated, Pending, Free, Call
  <2>2. /\ feed \in Feeds /\ Len(list) \in Nat /\ DOMAIN list = 1 .. Len(list)
        /\ Len(list) <= Len(Ended(feed))
        /\ \A i \in 1 .. Len(list) : list[i].id = Ended(feed)[i]
        /\ top => Len(list) = Len(Ended(feed))
    BY <2>1, Places DEF FeedInv
  <2>3. /\ Ended(feed) \in Seq(Nat) /\ Range(Ended(feed)) = All(feed)
        /\ DOMAIN Ended(feed) = 1 .. Len(Ended(feed)) /\ Len(Ended(feed)) \in Nat
    BY <2>2, EndedIs DEF FeedInv
  <2>4. ASSUME NEW i \in 1 .. Len(list) PROVE i \in DOMAIN Ended(feed) /\ list[i] = Entry(Ended(feed)[i])
    <3>1. i \in DOMAIN Ended(feed) /\ list[i].id \in All(feed)
      <4>0. Len(list) \in Nat /\ Len(Ended(feed)) \in Nat /\ Len(list) <= Len(Ended(feed))
        BY <2>2, <2>3
      <4>1. i \in 1 .. Len(Ended(feed))
        BY <4>0
      <4>2. i \in DOMAIN Ended(feed) /\ list[i].id = Ended(feed)[i]
        BY <2>2, <2>3, <4>1
      <4>3. Ended(feed)[i] \in Range(Ended(feed))
        BY <4>2 DEF Range
      <4> QED
        BY <2>3, <4>2, <4>3
    <3> QED
      BY <2>1, <2>2, <3>1 DEF FeedInv, VersionsFit
  <2>5. Whole = [i \in DOMAIN Ended(feed) |-> Entry(Ended(feed)[i])]
    BY DEF Whole, Ended
  <2>6. Len(Whole) = Len(Ended(feed)) /\ \A i \in 1 .. Len(list) : list[i] = Whole[i]
    BY <2>3, <2>4, <2>5
  <2>7. SubSeq(list, 1, Len(list)) = SubSeq(Whole, 1, Len(list))
    BY <2>2, <2>6
  <2>8. top => list = Whole
    <3>1. list = [i \in 1 .. Len(list) |-> list[i]]
      BY DEF FeedInv, FeedTypeOK
    <3> QED
      BY <2>2, <2>3, <2>4, <2>5, <3>1
  <2> QED
    BY <2>2, <2>6, <2>7, <2>8 DEF IsPrefix
<1> QED
  BY <1>1, FeedInvHolds, PTL
=============================================================================
