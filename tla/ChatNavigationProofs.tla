------------------------ MODULE ChatNavigationProofs ------------------------
(***************************************************************************)
(* The safety properties of ChatNavigation for any chats, any number of    *)
(* requests under way and any number of moves.                             *)
(*                                                                         *)
(* None of them is inductive: that a late answer goes home depends on what *)
(* every request under way was begun for.  CallsFit says so slot by slot:  *)
(* as long as nothing hasty was done, a request that will act on the store *)
(* or on the history is about the chat that both are of.                   *)
(***************************************************************************)
EXTENDS ChatNavigation, TLAPS

\* What requests are about, hasty or not: rows that are there, or to be made.
IdsFit ==
    /\ chatId \in stored \cup {None}
    /\ \A s \in Slots :
          /\ calls[s].kind \in Loads \cup {"refresh"} => calls[s].id \in stored
          /\ calls[s].kind = "create" => calls[s].id \in Chats

\* One load and one creation at most are under way.
Alone(kinds) == \A s, t \in Slots : calls[s].kind \in kinds /\ calls[t].kind \in kinds => s = t

\* A load is one of the chat wanted, and has brought what it should have by now.
LoadFits(s) ==
    /\ calls[s].kind \in Loads => loading /\ calls[s].id = chatId
    /\ calls[s].kind = "tags" => chat = chatId
    /\ calls[s].kind = "tasks" => history = chatId

\* A save saves a chat into its own row; one after a prompt, and one during a
\* load, is a save of the chat wanted.
SaveFits(s) ==
    /\ calls[s].kind \in {"save", "update"} => calls[s].content = calls[s].id
    /\ calls[s].kind = "save" /\ Asking(s) => calls[s].asks = chatId
    /\ calls[s].kind = "update" => ~Asking(s)
    /\ calls[s].kind \in {"save", "refresh"} /\ loading => calls[s].id = chatId

\* A chat being created is the one shown, below an empty store.
CreateFits(s) ==
    calls[s].kind = "create" =>
        /\ calls[s].id = history /\ calls[s].content = history /\ calls[s].asks = history
        /\ chatId = None /\ ~loading

CallsFit == \A s \in Slots : LoadFits(s) /\ SaveFits(s) /\ CreateFits(s)

Fits ==
    /\ Alone(Loads) /\ Alone({"create"})
    /\ CallsFit
    /\ \A c \in stored : row[c] = c
    /\ \A a \in running : a.chatId = a.prompt
    /\ ~loading => history = chatId \/ (history \notin stored /\ chatId = None)
    /\ left # None => left = chatId

Inv == TypeOK /\ IdsFit /\ (~hasty => Fits)

-----------------------------------------------------------------------------
LEMMA InitInv == Init => Inv
<1> SUFFICES ASSUME Init PROVE Inv
  OBVIOUS
<1> USE ChatsAssumption, MovesAssumption DEF Init, Call, Free, Owners, Kinds, Loads
<1>1. PICK s \in Slots :
        calls = [x \in Slots |-> IF x = s THEN Call("chat", chatId, None, None) ELSE Free]
  OBVIOUS
<1>2. TypeOK
  <2>1. calls \in [Slots -> [kind : Kinds, id : Owners, content : Owners, asks : Owners]]
    BY <1>1
  <2>2. row \in [Chats -> Owners] /\ stored \subseteq Chats /\ running \subseteq [prompt : Chats, chatId : Owners]
    OBVIOUS
  <2>3. chatIdProp \in Owners /\ chatId \in Owners /\ history \in Owners /\ chat \in Owners /\ left \in Owners
    OBVIOUS
  <2>4. moves \in 0 .. MaxMoves
    OBVIOUS
  <2>5. loading = TRUE /\ hasty = FALSE
    BY Zenon
  <2> HIDE DEF Init, Call, Free, Owners, Kinds
  <2> QED
    BY <2>1, <2>2, <2>3, <2>4, <2>5 DEF TypeOK
<1>3. IdsFit
  BY <1>1 DEF IdsFit
<1>4. Fits
  BY <1>1 DEF Fits, Alone, CallsFit, LoadFits, SaveFits, CreateFits, Asking
<1> QED
  BY <1>2, <1>3, <1>4 DEF Inv

-----------------------------------------------------------------------------
LEMMA TypeStep == Inv /\ [Next]_vars => TypeOK' /\ IdsFit'
<1> SUFFICES ASSUME Inv, [Next]_vars PROVE TypeOK' /\ IdsFit'
  OBVIOUS
<1> USE ChatsAssumption, MovesAssumption
    DEF Inv, TypeOK, IdsFit, user, disk, Begin, Follow, End, Asking, Call, Free, Owners, Kinds, Loads
<1>1. ASSUME NEW c \in Chats, NEW s \in Slots, Move(c, s) PROVE TypeOK' /\ IdsFit'
  BY <1>1 DEF Move
<1>2. CASE InitNewChat
  BY <1>2 DEF InitNewChat
<1>3. ASSUME NEW s \in Slots, SubmitPrompt(s) PROVE TypeOK' /\ IdsFit'
  BY <1>3 DEF SubmitPrompt
<1>4. ASSUME NEW c \in Chats, NEW s \in Slots, SubmitFirst(c, s) PROVE TypeOK' /\ IdsFit'
  BY <1>4 DEF SubmitFirst
<1>5. ASSUME NEW s \in Slots, NEW kind \in {"save", "update"}, SaveChat(kind, s) PROVE TypeOK' /\ IdsFit'
  BY <1>5 DEF SaveChat
<1>6. ASSUME NEW s \in Slots, ChatAnswered(s) PROVE TypeOK' /\ IdsFit'
  BY <1>6 DEF ChatAnswered
<1>7. ASSUME NEW s \in Slots, LoadFails(s) PROVE TypeOK' /\ IdsFit'
  BY <1>7 DEF LoadFails
<1>8. ASSUME NEW s \in Slots, TagsAnswered(s) PROVE TypeOK' /\ IdsFit'
  BY <1>8 DEF TagsAnswered
<1>9. ASSUME NEW s \in Slots, TasksAnswered(s) PROVE TypeOK' /\ IdsFit'
  BY <1>9 DEF TasksAnswered
<1>10. ASSUME NEW s \in Slots, Saved(s) PROVE TypeOK' /\ IdsFit'
  <2>1. running' \subseteq [prompt : Chats, chatId : Owners]
    BY <1>10 DEF Saved
  <2>2. row' \in [Chats -> Owners] /\ chat' \in Owners /\ calls' = [calls EXCEPT ![s] = Free]
    BY <1>10 DEF Saved
  <2>3. UNCHANGED <<chatIdProp, chatId, history, loading, stored, left, moves, hasty>>
    BY <1>10 DEF Saved
  <2> QED
    BY <2>1, <2>2, <2>3
<1>11. ASSUME NEW s \in Slots, Created(s) PROVE TypeOK' /\ IdsFit'
  BY <1>11 DEF Created
<1>12. ASSUME NEW s \in Slots, CallFails(s) PROVE TypeOK' /\ IdsFit'
  BY <1>12 DEF CallFails
<1>13. ASSUME NEW s \in Slots, Refreshed(s) PROVE TypeOK' /\ IdsFit'
  BY <1>13 DEF Refreshed
<1>14. ASSUME NEW s \in Slots, NEW ok \in BOOLEAN, Completed(s, ok) PROVE TypeOK' /\ IdsFit'
  <2>1. calls' \in {[calls EXCEPT ![s] = Call("save", calls[s].id, history, None)], [calls EXCEPT ![s] = Free]}
    BY <1>14 DEF Completed
  <2>2. hasty' \in BOOLEAN
    BY <1>14 DEF Completed
  <2>3. UNCHANGED <<chatIdProp, chatId, history, chat, loading, disk, running, left, moves>>
    BY <1>14 DEF Completed
  <2>4. CASE calls' = [calls EXCEPT ![s] = Free]
    BY <2>2, <2>3, <2>4
  <2>5. CASE calls' = [calls EXCEPT ![s] = Call("save", calls[s].id, history, None)]
    BY <2>2, <2>3, <2>5
  <2> HIDE DEF Inv, TypeOK, IdsFit, Call, Free
  <2> QED
    BY <2>1, <2>4, <2>5
<1>15. ASSUME NEW s \in Slots, Tagged(s) PROVE TypeOK' /\ IdsFit'
  BY <1>15 DEF Tagged
<1>16. ASSUME NEW s \in Slots, NEW a \in running, Ended(a, s) PROVE TypeOK' /\ IdsFit'
  BY <1>16 DEF Ended
<1>17. CASE UNCHANGED vars
  BY <1>17 DEF vars
<1> QED
  BY <1>1, <1>2, <1>3, <1>4, <1>5, <1>6, <1>7, <1>8, <1>9, <1>10, <1>11, <1>12, <1>13,
     <1>14, <1>15, <1>16, <1>17 DEF Next, Users, Answers, Events

LEMMA FitsStep == Inv /\ left = None /\ [Next]_vars /\ ~hasty' => Fits'
<1> SUFFICES ASSUME Inv, left = None, [Next]_vars, ~hasty' PROVE Fits'
  OBVIOUS
<1> USE ChatsAssumption, MovesAssumption
    DEF Inv, TypeOK, IdsFit, Fits, Alone, CallsFit, LoadFits, SaveFits, CreateFits,
        user, disk, Begin, Follow, End, Asking, Pending, Call, Free, Owners, Kinds, Loads
<1>1. ASSUME NEW c \in Chats, NEW s \in Slots, Move(c, s) PROVE Fits'
  <2>1. ~hasty /\ Pending(Loads \cup {"create", "save", "refresh"}) = {}
    BY <1>1 DEF Move
  <2>2. \A x \in Slots : calls[x].kind \notin Loads \cup {"create", "save", "refresh"}
    BY <2>1
  <2>3. Fits
    BY <2>1
  <2>4. /\ c \in stored /\ chatId' = c /\ loading' = TRUE /\ calls' = [calls EXCEPT ![s] = Call("chat", c, None, None)]
        /\ UNCHANGED <<history, chat, stored, row, running, left>>
    BY <1>1 DEF Move
  <2> QED
    BY <2>2, <2>3, <2>4
<1>2. CASE InitNewChat
  <2>1. ~hasty /\ \A x \in Slots : ~Asking(x)
    BY <1>2 DEF InitNewChat
  <2>2. Fits
    BY <2>1
  <2>3. ~loading /\ chatId' = None /\ history' = None /\ UNCHANGED <<chat, loading, calls, stored, row, running, left>>
    BY <1>2 DEF InitNewChat
  <2>4. \A x \in Slots : calls[x].kind \notin Loads \cup {"create"}
    BY <2>1, <2>2, <2>3
  <2> QED
    BY <2>1, <2>2, <2>3, <2>4
<1>3. ASSUME NEW s \in Slots, SubmitPrompt(s) PROVE Fits'
  BY <1>3 DEF SubmitPrompt
<1>4. ASSUME NEW c \in Chats, NEW s \in Slots, SubmitFirst(c, s) PROVE Fits'
  BY <1>4 DEF SubmitFirst
<1>5. ASSUME NEW s \in Slots, NEW kind \in {"save", "update"}, SaveChat(kind, s) PROVE Fits'
  BY <1>5 DEF SaveChat
<1>6. ASSUME NEW s \in Slots, ChatAnswered(s) PROVE Fits'
  BY <1>6 DEF ChatAnswered
<1>7. ASSUME NEW s \in Slots, LoadFails(s) PROVE Fits'
  BY <1>7 DEF LoadFails
<1>8. ASSUME NEW s \in Slots, TagsAnswered(s) PROVE Fits'
  BY <1>8 DEF TagsAnswered
<1>9. ASSUME NEW s \in Slots, TasksAnswered(s) PROVE Fits'
  BY <1>9 DEF TasksAnswered
<1>10. ASSUME NEW s \in Slots, Saved(s) PROVE Fits'
  <2>1. ~hasty /\ UNCHANGED <<chatId, history, loading, stored, left>>
    BY <1>10 DEF Saved
  <2>2. Fits
    BY <2>1
  <2>3. row' = [row EXCEPT ![calls[s].id] = calls[s].id] /\ calls' = [calls EXCEPT ![s] = Free]
    BY <1>10, <2>2 DEF Saved
  <2>4. \A a \in running' : a.chatId = a.prompt
    <3>1. CASE Asking(s)
      <4>1. running' = running \cup {[prompt |-> calls[s].asks, chatId |-> chatId]}
        BY <1>10, <3>1 DEF Saved
      <4>2. calls[s].asks = chatId
        BY <1>10, <2>2, <3>1 DEF Saved
      <4>3. \A a \in running : a.chatId = a.prompt
        BY <2>2
      <4> QED
        BY <4>1, <4>2, <4>3
    <3>2. CASE ~Asking(s)
      BY <1>10, <2>2, <3>2 DEF Saved
    <3> QED
      BY <3>1, <3>2
  <2>5. \A x \in Slots : calls'[x].kind \in {"tags", "chat", "tasks"} => chat' = chat \/ chat' = chatId
    BY <1>10, <2>2, <2>3 DEF Saved
  <2>6. \A x \in Slots : calls'[x] \in {calls[x], Free}
    BY <2>3
  <2>7. \A x \in Slots : calls'[x] = Free => calls'[x].kind = "free" /\ calls'[x].asks = None
    BY <2>3
  <2>8. Alone(Loads)' /\ Alone({"create"})'
    BY <2>2, <2>6, <2>7
  <2>9. CallsFit'
    BY <2>1, <2>2, <2>5, <2>6, <2>7
  <2>10. \A c \in stored' : row'[c] = c
    BY <2>1, <2>2, <2>3
  <2> QED
    BY <2>1, <2>2, <2>4, <2>8, <2>9, <2>10
<1>11. ASSUME NEW s \in Slots, Created(s) PROVE Fits'
  <2>1. ~hasty
    BY <1>11 DEF Created
  <2>2. Fits
    BY <2>1
  <2> DEFINE c == calls[s].id
  <2>3. c \in Chats /\ history = c /\ calls[s].content = c /\ calls[s].asks = c /\ chatId = None /\ ~loading
    BY <1>11, <2>2 DEF Created
  <2>4. /\ stored' = stored \cup {c} /\ row' = [row EXCEPT ![c] = c] /\ chatId' = c
        /\ calls' = [calls EXCEPT ![s] = Call("save", c, c, c)]
        /\ UNCHANGED <<history, loading, running, left>>
    BY <1>11, <2>3 DEF Created
  <2>5. \A x \in Slots \ {s} : calls'[x] = calls[x] /\ calls[x].kind \notin Loads \cup {"create"}
    BY <1>11, <2>2, <2>3, <2>4 DEF Created
  <2>6. calls'[s] = Call("save", c, c, c)
    BY <2>4
  <2> HIDE DEF c
  <2> QED
    BY <2>2, <2>3, <2>4, <2>5, <2>6
<1>12. ASSUME NEW s \in Slots, CallFails(s) PROVE Fits'
  BY <1>12 DEF CallFails
<1>13. ASSUME NEW s \in Slots, Refreshed(s) PROVE Fits'
  BY <1>13 DEF Refreshed
<1>14. ASSUME NEW s \in Slots, NEW ok \in BOOLEAN, Completed(s, ok) PROVE Fits'
  <2>1. ~hasty /\ ~(~ok /\ chatId = calls[s].id /\ history # chatId)
    BY <1>14 DEF Completed
  <2>2. Fits
    BY <2>1
  <2>3. UNCHANGED <<chatId, history, chat, loading, stored, row, running, left>>
    BY <1>14 DEF Completed
  <2>4. CASE calls' = [calls EXCEPT ![s] = Free]
    BY <2>2, <2>3, <2>4
  <2>5. CASE /\ chatId = calls[s].id /\ history = chatId
             /\ calls' = [calls EXCEPT ![s] = Call("save", calls[s].id, history, None)]
    BY <2>2, <2>3, <2>5
  <2>6. calls[s].kind = "completed" /\ (ok => history = chatId \/ calls' = [calls EXCEPT ![s] = Free])
    BY <1>14 DEF Completed
  <2> HIDE DEF Inv, TypeOK, IdsFit, Fits, Call, Free
  <2> QED
    BY <1>14, <2>1, <2>4, <2>5, <2>6 DEF Completed
<1>15. ASSUME NEW s \in Slots, Tagged(s) PROVE Fits'
  BY <1>15 DEF Tagged
<1>16. ASSUME NEW s \in Slots, NEW a \in running, Ended(a, s) PROVE Fits'
  BY <1>16 DEF Ended
<1>17. CASE UNCHANGED vars
  BY <1>17 DEF vars
<1> HIDE DEF Inv, TypeOK, IdsFit, Fits, Call, Free
<1>18. ASSUME NEW s \in Slots, Users(s) PROVE Fits'
  BY <1>1, <1>3, <1>4, <1>5, <1>18 DEF Users
<1>19. ASSUME NEW s \in Slots, Answers(s) PROVE Fits'
  BY <1>6, <1>7, <1>8, <1>9, <1>10, <1>11, <1>12, <1>13, <1>14, <1>19 DEF Answers
<1>20. ASSUME NEW s \in Slots, Events(s) PROVE Fits'
  BY <1>15, <1>16, <1>20 DEF Events
<1> QED
  BY <1>2, <1>17, <1>18, <1>19, <1>20 DEF Next

LEMMA StepInv == Inv /\ [Next]_vars => Inv'
<1> SUFFICES ASSUME Inv, [Next]_vars PROVE Inv'
  OBVIOUS
<1>1. CASE Next
  BY <1>1, TypeStep, FitsStep DEF Next, Inv
<1>2. CASE UNCHANGED vars
  BY <1>2, TypeStep DEF vars, Inv, Fits, Alone, CallsFit, LoadFits, SaveFits, CreateFits, Asking
<1> QED
  BY <1>1, <1>2

LEMMA Invariance == Spec => []Inv
  BY InitInv, StepInv, PTL DEF Spec

-----------------------------------------------------------------------------
\* Every variable keeps its type, whatever the user does in whatever haste.
THEOREM NavigationTypeCorrect == Spec => []TypeOK
<1>1. Inv => TypeOK
  BY DEF Inv
<1> QED
  BY Invariance, <1>1, PTL

\* Without haste no late handler of Chat.svelte writes one chat's history into
\* another's row.
THEOREM RowsAlwaysKeepOwn == Spec => []RowsKeepOwn
<1>1. Inv => RowsKeepOwn
  BY DEF Inv, Fits, RowsKeepOwn
<1> QED
  BY Invariance, <1>1, PTL

\* Without haste sendMessageSocket asks for every answer in the chat of its
\* prompt.
THEOREM AnswersAlwaysGoHome == Spec => []AnswersGoHome
<1>1. Inv => AnswersGoHome
  BY DEF Inv, Fits, AnswersGoHome
<1> QED
  BY Invariance, <1>1, PTL

\* Without haste the history shown and the store agree once nothing loads.
THEOREM ViewAlwaysAgrees == Spec => []ViewAgrees
<1>1. Inv => ViewAgrees
  BY DEF Inv, Fits, ViewAgrees
<1> QED
  BY Invariance, <1>1, PTL

=============================================================================
