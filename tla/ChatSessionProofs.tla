------------------------- MODULE ChatSessionProofs -------------------------
(***************************************************************************)
(* ChatSession for any number of tabs, prompts and answers: every ended    *)
(* answer is whole in the stored chat once all has arrived, and none is    *)
(* ever stored outside the tree, but for what `excused` names.             *)
(*                                                                         *)
(* Neither is inductive.  NoStubs needs that the saves under way know one  *)
(* of more prompts than the one before (Known).  AnswerKept needs to say   *)
(* who will mend the row (Mends): as long as a save that lacks an ended    *)
(* answer is under way, a later save has it, or its tab is about to make   *)
(* such a save.                                                            *)
(***************************************************************************)
EXTENDS ChatSession, SequenceTheorems, TLAPS

\* An event of this kind about m is on its way to t.
Coming(t, what, m) == \E i \in DOMAIN events[t] : events[t][i] = [what |-> what, id |-> m]

\* t will save the end of m: it will be told of it, or it was and calls /chat/completed.
Mends(t, m) ==
    /\ Showing(t) /\ m \in Present(view[t])
    /\ \/ Coming(t, "done", m)
       \/ m \in finishing[t] /\ view[t][m] = "full" /\ ~Coming(t, "part", m)

\* The last event about an ended answer is its end.
Told(t) ==
    \A i \in DOMAIN events[t] : \A m \in Responses :
        events[t][i] = [what |-> "part", id |-> m] /\ task[m] = "ended" =>
          \E j \in DOMAIN events[t] : i < j /\ events[t][j] = [what |-> "done", id |-> m]

\* What holds of a tab whatever was saved.
TabsWell ==
    \A t \in Tabs : /\ events[t] # <<>> => linked[t] /\ phase[t] # "closed"
                    /\ finishing[t] # {} => Showing(t)
                    /\ Told(t)

\* A save knows of every prompt the saves before it and the row know of.
Known ==
    /\ \A m \in Responses : row[m] # "stub" /\ (task[m] # "none" => row[m] # "absent")
    /\ \A t \in Tabs : \A m \in Responses : view[t][m] # "stub"
    /\ Present(row) \subseteq Prompted /\ \A t \in Tabs : Present(view[t]) \subseteq Prompted
    /\ \A i \in DOMAIN saves :
         /\ \A m \in Responses : saves[i].copy[m] # "stub"
         /\ saves[i].start \subseteq Present(saves[i].copy)
         /\ Present(row) \subseteq Present(saves[i].copy) /\ Present(saves[i].copy) \subseteq Prompted
         /\ \A j \in DOMAIN saves : i < j => Present(saves[i].copy) \subseteq Present(saves[j].copy)

\* The tab of a save under way is still there and shows what it saved.
SaversThere ==
    \A i \in DOMAIN saves : LET t == saves[i].tab IN
        linked[t] /\ Showing(t) /\ Present(saves[i].copy) \subseteq Present(view[t])

\* The row, and every save under way, is mended where it lacks an ended answer.
RowMended ==
    \A m \in Responses : task[m] = "ended" /\ row[m] # "full" =>
        (\E i \in DOMAIN saves : saves[i].copy[m] = "full") \/ \E t \in Tabs : Mends(t, m)
SavesMended ==
    \A i \in DOMAIN saves : \A t \in Tabs : \A m \in Responses :
        saves[i].tab = t /\ task[m] = "ended" /\ saves[i].copy[m] # "full" =>
          (\E j \in DOMAIN saves : i < j /\ saves[j].copy[m] = "full") \/ Mends(t, m)

IInv == TypeOK /\ TabsWell /\ (~excused => Known /\ SaversThere /\ RowMended /\ SavesMended)

-----------------------------------------------------------------------------
(* Sequences *)

LEMMA RemovedTyped ==
  ASSUME NEW S, NEW s \in Seq(S), NEW i \in DOMAIN s
  PROVE  RemoveAt(s, i) \in Seq(S)
<1>1. SubSeq(s, 1, i - 1) \in Seq(S) /\ SubSeq(s, i + 1, Len(s)) \in Seq(S)
  BY SubSeqProperties
<1>2. QED
  BY <1>1, ConcatProperties DEF RemoveAt

LEMMA FirstRemoved ==
  ASSUME NEW S, NEW s \in Seq(S), 1 \in DOMAIN s
  PROVE  /\ RemoveAt(s, 1) \in Seq(S)
         /\ Len(RemoveAt(s, 1)) = Len(s) - 1
         /\ \A k \in DOMAIN RemoveAt(s, 1) : k + 1 \in DOMAIN s /\ RemoveAt(s, 1)[k] = s[k + 1]
         /\ \A k \in DOMAIN s : k # 1 => k - 1 \in DOMAIN RemoveAt(s, 1) /\ RemoveAt(s, 1)[k - 1] = s[k]
<1> DEFINE front == SubSeq(s, 1, 0)
           rest  == SubSeq(s, 2, Len(s))
<1>1. RemoveAt(s, 1) = front \o rest
  BY DEF RemoveAt
<1>2. front = <<>>
  BY SubSeqEmpty
<1>3. rest \in Seq(S) /\ Len(rest) = Len(s) - 1 /\ \A k \in 1 .. Len(rest) : rest[k] = s[k + 1]
  <2>1. Len(s) \in Nat /\ Len(s) >= 1 /\ \A k \in 2 .. Len(s) : s[k] \in S
    OBVIOUS
  <2>2. /\ rest \in Seq(S) /\ Len(rest) = IF 2 <= Len(s) THEN Len(s) - 2 + 1 ELSE 0
        /\ \A k \in 1 .. Len(s) - 2 + 1 : rest[k] = s[2 + k - 1]
    BY <2>1, SubSeqProperties
  <2> HIDE DEF rest
  <2>3. Len(rest) = Len(s) - 1
    <3> DEFINE n == Len(s)
    <3>1. n \in Nat /\ n >= 1 /\ Len(rest) = IF 2 <= n THEN n - 2 + 1 ELSE 0
      BY <2>1, <2>2
    <3> HIDE DEF n
    <3>2. CASE n = 1
      BY <3>1, <3>2 DEF n
    <3>3. CASE n >= 2
      BY <3>1, <3>3 DEF n
    <3>4. QED
      BY <3>1, <3>2, <3>3
  <2>4. ASSUME NEW k \in 1 .. Len(rest) PROVE rest[k] = s[k + 1]
    <3>1. k \in 1 .. Len(s) - 2 + 1 /\ 2 + k - 1 = k + 1
      BY <2>1, <2>3
    <3>2. QED
      BY <2>2, <3>1
  <2>5. QED
    BY <2>2, <2>3, <2>4
<1> HIDE DEF front, rest
<1>4. /\ RemoveAt(s, 1) \in Seq(S) /\ Len(RemoveAt(s, 1)) = Len(s) - 1
      /\ \A k \in 1 .. Len(RemoveAt(s, 1)) : RemoveAt(s, 1)[k] = rest[k]
  <2>1. front \o rest = rest
    BY <1>2, <1>3, ConcatEmptySeq, Zenon
  <2>2. QED
    BY <1>1, <1>3, <2>1
<1>5. DOMAIN s = 1 .. Len(s) /\ DOMAIN RemoveAt(s, 1) = 1 .. (Len(s) - 1) /\ Len(s) \in Nat
  BY <1>4
<1>6. QED
  BY <1>3, <1>4, <1>5

LEMMA Appended ==
  ASSUME NEW S, NEW s \in Seq(S), NEW x \in S
  PROVE  /\ Append(s, x) \in Seq(S)
         /\ DOMAIN Append(s, x) = DOMAIN s \cup {Len(s) + 1}
         /\ \A k \in DOMAIN s : Append(s, x)[k] = s[k] /\ k < Len(s) + 1 /\ k \in Nat
         /\ Append(s, x)[Len(s) + 1] = x
<1>1. DOMAIN s = 1 .. Len(s) /\ Len(s) \in Nat
  OBVIOUS
<1>2. /\ Append(s, x) \in Seq(S) /\ Len(Append(s, x)) = Len(s) + 1
      /\ \A k \in 1 .. Len(s) : Append(s, x)[k] = s[k]
      /\ Append(s, x)[Len(s) + 1] = x
  BY AppendProperties
<1>3. DOMAIN Append(s, x) = 1 .. (Len(s) + 1)
  BY <1>2
<1>4. QED
  BY <1>1, <1>2, <1>3

LEMMA Headless ==
  ASSUME NEW S, NEW s \in Seq(S), s # <<>>
  PROVE  /\ Tail(s) \in Seq(S) /\ Head(s) \in S /\ 1 \in DOMAIN s /\ Head(s) = s[1]
         /\ \A k \in DOMAIN Tail(s) : k + 1 \in DOMAIN s /\ Tail(s)[k] = s[k + 1] /\ k \in Nat
         /\ \A k \in DOMAIN s : k # 1 => k - 1 \in DOMAIN Tail(s) /\ Tail(s)[k - 1] = s[k]
         /\ DOMAIN s \subseteq Nat
<1>1. /\ Head(s) \in S /\ Tail(s) \in Seq(S) /\ Len(Tail(s)) = Len(s) - 1
      /\ \A k \in 1 .. Len(Tail(s)) : Tail(s)[k] = s[k + 1]
  BY HeadTailProperties
<1>2. Len(s) \in Nat /\ Len(s) # 0 /\ DOMAIN s = 1 .. Len(s) /\ DOMAIN Tail(s) = 1 .. (Len(s) - 1)
  BY <1>1, EmptySeq
<1>3. Head(s) = s[1]
  OBVIOUS
<1>4. QED
  BY <1>1, <1>2, <1>3

-----------------------------------------------------------------------------
(* Types *)

\* A stored history, and a save of t that has one.
LEMMA SavingTyped ==
  ASSUME TypeOK, NEW t \in Tabs, NEW copy \in [Responses -> Contents],
         NEW start \in SUBSET Responses, NEW completed \in BOOLEAN, Saving(t, copy, start, completed)
  PROVE  saves' \in Seq(Save) /\ excused' \in BOOLEAN
<1>1. [tab |-> t, copy |-> copy, start |-> start, completed |-> completed] \in Save
  BY DEF Save
<1>2. saves' \in Seq(Save)
  BY <1>1, Appended DEF Saving, TypeOK
<1>3. QED
  BY <1>2 DEF Saving, TypeOK

LEMMA SendTyped ==
  ASSUME TypeOK, NEW m \in Responses, NEW what \in {"part", "done", "cancel"}, Send(what, m)
  PROVE  events' \in [Tabs -> Seq(Notice)]
<1>1. [what |-> what, id |-> m] \in Notice
  BY DEF Notice
<1>2. \A t \in Tabs : events[t] \in Seq(Notice)
  BY DEF TypeOK
<1>3. \A t \in Tabs : Append(events[t], [what |-> what, id |-> m]) \in Seq(Notice)
  BY <1>1, <1>2, Appended
<1>4. QED
  BY <1>2, <1>3 DEF Send

LEMMA RoundsTyped ==
  /\ Len(Rounds) \in Nat /\ DOMAIN Rounds = 1 .. Len(Rounds)
  /\ \A i \in 1 .. Len(Rounds) : Rounds[i] \subseteq Responses
BY RoundsAssumption

LEMMA DisplayedTyped ==
  ASSUME NEW t \in Tabs
  PROVE  Displayed(t) \subseteq Responses
BY DEF Displayed, Present

LEMMA InitTyped ==
  ASSUME Init
  PROVE  TypeOK
<1>1. Blank \in [Responses -> Contents]
  BY DEF Blank, Contents
<1>2. <<>> \in Seq(Notice) /\ <<>> \in Seq(Save)
  BY EmptySeq
<1>3. row \in [Responses -> Contents] /\ view \in [Tabs -> [Responses -> Contents]]
  BY <1>1 DEF Init
<1>4. events \in [Tabs -> Seq(Notice)] /\ saves \in Seq(Save)
  BY <1>2 DEF Init
<1>5. asker \in [Responses -> Tabs]
  BY DEF Init
<1>6. round \in 0 .. Len(Rounds) /\ saved \in 0 .. MaxSaves /\ opened \in 0 .. MaxOpens
  BY RoundsTyped, RoundsAssumption DEF Init
<1>7. /\ task \in [Responses -> {"none", "asked", "running", "writing", "halted", "stopped", "cancelled", "ended"}]
      /\ phase \in [Tabs -> {"closed", "asking", "tags", "tasks", "open"}]
      /\ done \in [Tabs -> SUBSET Responses] /\ taskIds \in [Tabs -> SUBSET Responses]
      /\ finishing \in [Tabs -> SUBSET Responses]
      /\ linked \in [Tabs -> BOOLEAN] /\ excused \in BOOLEAN
  BY DEF Init
<1>8. QED
  BY <1>3, <1>4, <1>5, <1>6, <1>7 DEF TypeOK

LEMMA UsersTyped ==
  ASSUME TypeOK, NEW t \in Tabs,
         Open(t) \/ ChatAnswered(t) \/ HistorySet(t) \/ TasksAnswered(t) \/ Close(t) \/ Disconnect(t) \/ Reconnect(t)
         \/ SubmitPrompt(t) \/ SaveChat(t) \/ StopResponse(t) \/ \E m \in Responses : ChatCompleted(t, m)
  PROVE  TypeOK'
<1>a. Blank \in [Responses -> Contents] /\ <<>> \in Seq(Notice)
  BY EmptySeq DEF Blank, Contents
<1>1. CASE Open(t)
  BY <1>1, RoundsAssumption DEF Open, TypeOK, server
<1>2. CASE ChatAnswered(t)
  BY <1>2 DEF ChatAnswered, TypeOK, server
<1>3. CASE HistorySet(t)
  BY <1>3 DEF HistorySet, TypeOK, server, Present
<1>4. CASE TasksAnswered(t)
  BY <1>4 DEF TasksAnswered, TypeOK, server
<1>5. CASE Close(t)
  <2>1. /\ view' \in [Tabs -> [Responses -> Contents]] /\ events' \in [Tabs -> Seq(Notice)]
        /\ phase' \in [Tabs -> {"closed", "asking", "tags", "tasks", "open"}]
        /\ done' \in [Tabs -> SUBSET Responses] /\ taskIds' \in [Tabs -> SUBSET Responses]
        /\ finishing' \in [Tabs -> SUBSET Responses]
    BY <1>a, <1>5 DEF Close, TypeOK
  <2>2. saves' \in Seq(Save)
    <3>1. DOMAIN saves = 1 .. Len(saves) /\ Len(saves) \in Nat /\ \A i \in DOMAIN saves : saves[i] \in Save
      BY DEF TypeOK
    <3>2. ASSUME NEW o \in Save PROVE [o EXCEPT !.start = {}, !.completed = FALSE] \in Save
      BY DEF Save
    <3>3. /\ saves' = [i \in 1 .. Len(saves) |-> saves'[i]]
          /\ \A i \in 1 .. Len(saves) : saves'[i] \in Save
      BY <1>5, <3>1, <3>2 DEF Close
    <3>4. QED
      BY <3>1, <3>3
  <2>3. excused' \in BOOLEAN
    BY <1>5 DEF Close, TypeOK
  <2>4. QED
    BY <1>5, <2>1, <2>2, <2>3 DEF Close, TypeOK, server
<1>6. CASE Disconnect(t)
  BY <1>a, <1>6, RoundsAssumption DEF Disconnect, TypeOK, server, shown
<1>7. CASE Reconnect(t)
  BY <1>7 DEF Reconnect, TypeOK, server, shown
<1>8. CASE SubmitPrompt(t)
  <2>1. round + 1 \in 1 .. Len(Rounds) /\ Rounds[round + 1] \in SUBSET Responses
    BY <1>8, RoundsTyped DEF SubmitPrompt, TypeOK
  <2>2. view' \in [Tabs -> [Responses -> Contents]] /\ view'[t] \in [Responses -> Contents]
    BY <1>8 DEF SubmitPrompt, TypeOK, Contents
  <2>3. saves' \in Seq(Save) /\ excused' \in BOOLEAN
    BY <1>8, <2>1, <2>2, SavingTyped DEF SubmitPrompt
  <2>4. QED
    BY <1>8, <2>1, <2>2, <2>3 DEF SubmitPrompt, TypeOK, server
<1>9. CASE SaveChat(t)
  <2>1. saves' \in Seq(Save) /\ excused' \in BOOLEAN
    BY <1>9, SavingTyped DEF SaveChat, TypeOK
  <2>2. QED
    BY <1>9, <2>1, RoundsAssumption DEF SaveChat, TypeOK, server, shown
<1>10. CASE StopResponse(t)
  BY <1>10, DisplayedTyped DEF StopResponse, TypeOK
<1>11. ASSUME NEW m \in Responses, ChatCompleted(t, m) PROVE TypeOK'
  <2>1. saves' \in Seq(Save) /\ excused' \in BOOLEAN
    BY <1>11, SavingTyped DEF ChatCompleted, TypeOK
  <2>2. QED
    BY <1>11, <2>1 DEF ChatCompleted, TypeOK, server, shown
<1>12. QED
  BY <1>1, <1>2, <1>3, <1>4, <1>5, <1>6, <1>7, <1>8, <1>9, <1>10, <1>11

LEMMA EventTyped ==
  ASSUME TypeOK, NEW t \in Tabs, Event(t)
  PROVE  TypeOK'
<1> DEFINE e == Head(events[t])
<1>1. e \in Notice /\ Tail(events[t]) \in Seq(Notice)
  BY Headless DEF Event, TypeOK
<1>2. e.id \in Responses
  BY <1>1 DEF Notice
<1>3. events' \in [Tabs -> Seq(Notice)]
  BY <1>1 DEF Event, TypeOK
<1>4. /\ view' \in [Tabs -> [Responses -> Contents]] /\ done' \in [Tabs -> SUBSET Responses]
      /\ taskIds' \in [Tabs -> SUBSET Responses] /\ finishing' \in [Tabs -> SUBSET Responses]
      /\ phase' = phase
  <2> HIDE DEF e
  <2>1. \/ UNCHANGED <<shown, finishing>>
        \/ view' = [view EXCEPT ![t][e.id] = "part"] /\ UNCHANGED <<phase, done, taskIds, finishing>>
        \/ /\ view' = [view EXCEPT ![t][e.id] = "full"] /\ done' = [done EXCEPT ![t] = @ \cup {e.id}]
           /\ finishing' = [finishing EXCEPT ![t] = @ \cup {e.id}] /\ UNCHANGED <<phase, taskIds>>
        \/ /\ taskIds' = [taskIds EXCEPT ![t] = {}] /\ done' = [done EXCEPT ![t] = @ \cup Displayed(t)]
           /\ UNCHANGED <<phase, view, finishing>>
    BY DEF Event, e
  <2>2. \A c \in Contents : [view EXCEPT ![t][e.id] = c] \in [Tabs -> [Responses -> Contents]]
    BY <1>2 DEF TypeOK
  <2>3. "part" \in Contents /\ "full" \in Contents
    BY DEF Contents
  <2>4. [done EXCEPT ![t] = @ \cup Displayed(t)] \in [Tabs -> SUBSET Responses]
    BY DisplayedTyped DEF TypeOK
  <2>5. CASE UNCHANGED <<shown, finishing>>
    BY <2>5 DEF TypeOK, shown
  <2>6. CASE view' = [view EXCEPT ![t][e.id] = "part"] /\ UNCHANGED <<phase, done, taskIds, finishing>>
    BY <2>2, <2>3, <2>6 DEF TypeOK
  <2>7. CASE /\ view' = [view EXCEPT ![t][e.id] = "full"] /\ done' = [done EXCEPT ![t] = @ \cup {e.id}]
             /\ finishing' = [finishing EXCEPT ![t] = @ \cup {e.id}] /\ UNCHANGED <<phase, taskIds>>
    <3>1. done' \in [Tabs -> SUBSET Responses] /\ finishing' \in [Tabs -> SUBSET Responses]
      BY <1>2, <2>7 DEF TypeOK
    <3>2. QED
      BY <2>2, <2>3, <2>7, <3>1 DEF TypeOK
  <2>8. CASE /\ taskIds' = [taskIds EXCEPT ![t] = {}] /\ done' = [done EXCEPT ![t] = @ \cup Displayed(t)]
             /\ UNCHANGED <<phase, view, finishing>>
    BY <2>4, <2>8 DEF TypeOK
  <2>9. QED
    BY <2>1, <2>5, <2>6, <2>7, <2>8
<1>5. QED
  BY <1>3, <1>4 DEF Event, TypeOK, server

LEMMA ServerTyped ==
  ASSUME TypeOK, (\E i \in DOMAIN saves : Serve(i))
                 \/ \E m \in Responses : Begin(m) \/ Respond(m) \/ Stream(m) \/ Finish(m) \/ Cancel(m)
  PROVE  TypeOK'
<1>1. ASSUME NEW i \in DOMAIN saves, Serve(i) PROVE TypeOK'
  <2>1. saves[i] \in Save /\ saves' \in Seq(Save)
    BY <1>1, RemovedTyped DEF Serve, TypeOK
  <2>2. /\ saves[i].copy \in [Responses -> Contents] /\ saves[i].tab \in Tabs
        /\ excused' \in BOOLEAN
    BY <1>1, <2>1 DEF Save, Serve, TypeOK
  <2>3. QED
    BY <1>1, <2>1, <2>2 DEF Serve, TypeOK
<1>2. ASSUME NEW m \in Responses, Begin(m) PROVE TypeOK'
  BY <1>2 DEF Begin, TypeOK
<1>3. \A m \in Responses : \A c \in Contents : Upsert(m, c) \in [Responses -> Contents]
  BY DEF Upsert, TypeOK, Contents
<1>4. ASSUME NEW m \in Responses, Respond(m) PROVE TypeOK'
  BY <1>3, <1>4 DEF Respond, TypeOK, shown
<1>5. ASSUME NEW m \in Responses, Stream(m) PROVE TypeOK'
  BY <1>5, SendTyped DEF Stream, TypeOK, server, shown
<1>6. ASSUME NEW m \in Responses, Finish(m) PROVE TypeOK'
  <2>1. row' \in [Responses -> Contents] /\ events' \in [Tabs -> Seq(Notice)]
    BY <1>3, <1>6, SendTyped DEF Finish, Contents
  <2>2. QED
    BY <1>6, <2>1 DEF Finish, TypeOK, shown
<1>7. ASSUME NEW m \in Responses, Cancel(m) PROVE TypeOK'
  <2>1. row' \in [Responses -> Contents] /\ events' \in [Tabs -> Seq(Notice)]
    BY <1>3, <1>7, SendTyped DEF Cancel, Contents, TypeOK
  <2>2. QED
    BY <1>7, <2>1 DEF Cancel, TypeOK, shown
<1>8. QED
  BY <1>1, <1>2, <1>4, <1>5, <1>6, <1>7

-----------------------------------------------------------------------------
(* Tabs and their events *)

\* What an event does, in one place.
LEMMA EventCases ==
  ASSUME TypeOK, NEW t \in Tabs, Event(t)
  PROVE  LET e == Head(events[t]) IN
         /\ e \in Notice /\ e = events[t][1] /\ phase' = phase
         /\ \/ (~Showing(t) \/ e.id \notin Present(view[t])) /\ UNCHANGED <<shown, finishing>>
            \/ /\ Showing(t) /\ e.id \in Present(view[t]) /\ e.what = "part"
               /\ view' = [view EXCEPT ![t][e.id] = "part"] /\ finishing' = finishing
            \/ /\ Showing(t) /\ e.id \in Present(view[t]) /\ e.what = "done"
               /\ view' = [view EXCEPT ![t][e.id] = "full"]
               /\ finishing' = [finishing EXCEPT ![t] = @ \cup {e.id}]
            \/ /\ Showing(t) /\ e.id \in Present(view[t]) /\ e.what = "cancel"
               /\ view' = view /\ finishing' = finishing
<1> DEFINE e == Head(events[t])
<1>1. e \in Notice /\ e = events[t][1]
  BY Headless DEF Event, TypeOK
<1>2. QED
  BY <1>1 DEF Event, shown

\* Events that stay, or that one is added to, still tell the end last.
LEMMA ToldKept ==
  ASSUME NEW t \in Tabs, Told(t), events'[t] = events[t],
         \A m \in Responses : task'[m] = "ended" => task[m] = "ended"
  PROVE  Told(t)'
BY DEF Told

LEMMA SendTold ==
  ASSUME TypeOK, TabsWell, NEW m \in Responses, NEW what \in {"part", "done", "cancel"}, Send(what, m),
         what = "part" => task[m] # "ended",
         \A n \in Responses : task'[n] = "ended" => task[n] = "ended" \/ (n = m /\ what = "done"),
         NEW t \in Tabs
  PROVE  Told(t)'
<1> DEFINE x == [what |-> what, id |-> m]
<1>1. x \in Notice /\ events[t] \in Seq(Notice) /\ Told(t)
  BY DEF Notice, TypeOK, TabsWell
<1>2. CASE linked[t] /\ phase[t] # "closed"
  <2> DEFINE s == events[t]
             n == Len(s) + 1
  <2>1. events'[t] = Append(s, x)
    BY <1>2 DEF Send
  <2>2. /\ DOMAIN events'[t] = DOMAIN s \cup {n} /\ events'[t][n] = x
        /\ \A k \in DOMAIN s : events'[t][k] = s[k] /\ k < n
    BY <1>1, <2>1, Appended
  <2> HIDE DEF s, n, x
  <2>3. ASSUME NEW i \in DOMAIN events'[t], NEW a \in Responses,
               events'[t][i] = [what |-> "part", id |-> a], task'[a] = "ended"
        PROVE  \E j \in DOMAIN events'[t] : i < j /\ events'[t][j] = [what |-> "done", id |-> a]
    <3>1. CASE i \in DOMAIN s
      <4>1. CASE task[a] = "ended"
        <5>1. PICK j \in DOMAIN s : i < j /\ s[j] = [what |-> "done", id |-> a]
          BY <1>1, <2>2, <2>3, <3>1, <4>1 DEF Told, s
        <5>2. QED
          BY <2>2, <5>1
      <4>2. CASE a = m /\ what = "done"
        BY <2>2, <3>1, <4>2 DEF x
      <4>3. QED
        BY <2>3, <4>1, <4>2
    <3>2. CASE i = n
      <4>1. a = m /\ what = "part"
        BY <2>2, <2>3, <3>2 DEF x
      <4>2. QED
        BY <2>3, <4>1
    <3>3. QED
      BY <2>2, <2>3, <3>1, <3>2
  <2>4. QED
    BY <2>3 DEF Told
<1>3. CASE ~(linked[t] /\ phase[t] # "closed")
  <2>1. events[t] = <<>> /\ events'[t] = <<>>
    BY <1>3 DEF TabsWell, Send
  <2>2. QED
    BY <2>1 DEF Told
<1>4. QED
  BY <1>2, <1>3

LEMMA EventTold ==
  ASSUME TypeOK, TabsWell, NEW t \in Tabs, Event(t), NEW u \in Tabs
  PROVE  Told(u)'
<1>1. Told(u) /\ task' = task /\ events[t] \in Seq(Notice) /\ events[t] # <<>>
  BY DEF TabsWell, Event, server, TypeOK
<1>2. CASE u # t
  <2>1. events'[u] = events[u]
    BY <1>2 DEF Event, TypeOK
  <2>2. QED
    BY <1>1, <2>1, ToldKept
<1>3. CASE u = t
  <2> DEFINE s == events[t]
             r == Tail(s)
  <2>1. events'[t] = r
    BY DEF Event, TypeOK
  <2>2. /\ \A k \in DOMAIN r : k + 1 \in DOMAIN s /\ r[k] = s[k + 1] /\ k \in Nat
        /\ \A k \in DOMAIN s : k # 1 => k - 1 \in DOMAIN r /\ r[k - 1] = s[k]
        /\ DOMAIN s \subseteq Nat /\ 1 \in DOMAIN s
    BY <1>1, Headless
  <2>3. \A i \in DOMAIN s : \A m \in Responses :
          s[i] = [what |-> "part", id |-> m] /\ task[m] = "ended" =>
            \E j \in DOMAIN s : i < j /\ s[j] = [what |-> "done", id |-> m]
    BY <1>1, <1>3 DEF Told
  <2> HIDE DEF s, r
  <2>4. ASSUME NEW i \in DOMAIN r, NEW m \in Responses, r[i] = [what |-> "part", id |-> m], task[m] = "ended"
        PROVE  \E j \in DOMAIN r : i < j /\ r[j] = [what |-> "done", id |-> m]
    <3>1. PICK j \in DOMAIN s : i + 1 < j /\ s[j] = [what |-> "done", id |-> m]
      BY <2>2, <2>3, <2>4
    <3>2. i \in Nat /\ j \in Nat /\ j # 1 /\ i < j - 1
      BY <2>2, <3>1
    <3>3. QED
      BY <2>2, <3>1, <3>2
  <2>5. QED
    BY <1>1, <1>3, <2>1, <2>4 DEF Told
<1>4. QED
  BY <1>2, <1>3

LEMMA UsersTabs ==
  ASSUME TypeOK, TabsWell, NEW t \in Tabs,
         Open(t) \/ ChatAnswered(t) \/ HistorySet(t) \/ TasksAnswered(t) \/ Close(t) \/ Disconnect(t) \/ Reconnect(t)
         \/ SubmitPrompt(t) \/ SaveChat(t) \/ StopResponse(t) \/ \E m \in Responses : ChatCompleted(t, m)
  PROVE  TabsWell'
<1>a. \A m \in Responses : task'[m] = "ended" => task[m] = "ended"
  <2>1. CASE StopResponse(t)
    BY <2>1 DEF TypeOK, StopResponse
  <2>2. CASE ~StopResponse(t)
    <3>1. task' = task
      BY <2>2 DEF Open, ChatAnswered, HistorySet, TasksAnswered, Close, Disconnect, Reconnect, SubmitPrompt, SaveChat,
                  ChatCompleted, server
    <3>2. QED
      BY <3>1
  <2>3. QED
    BY <2>1, <2>2
<1>b. ASSUME NEW u \in Tabs, events'[u] = events[u] PROVE Told(u)'
  BY <1>a, <1>b, ToldKept DEF TabsWell
<1>c. ASSUME NEW u \in Tabs, events'[u] = <<>> PROVE Told(u)'
  BY <1>c DEF Told
<1>1. CASE Open(t)
  BY <1>1, <1>b DEF Open, TabsWell, TypeOK, Showing
<1>2. CASE ChatAnswered(t) \/ HistorySet(t) \/ TasksAnswered(t)
  BY <1>2, <1>b DEF ChatAnswered, HistorySet, TasksAnswered, TabsWell, TypeOK, Showing
<1>3. CASE Close(t)
  BY <1>3, <1>b, <1>c DEF Close, TabsWell, TypeOK, Showing
<1>4. CASE Disconnect(t)
  BY <1>4, <1>b, <1>c DEF Disconnect, TabsWell, TypeOK, Showing, shown
<1>5. CASE Reconnect(t)
  BY <1>5, <1>b DEF Reconnect, TabsWell, TypeOK, Showing, shown
<1>6. CASE SubmitPrompt(t) \/ SaveChat(t) \/ StopResponse(t)
  BY <1>6, <1>b DEF SubmitPrompt, SaveChat, StopResponse, TabsWell, TypeOK, Showing, shown
<1>7. ASSUME NEW m \in Responses, ChatCompleted(t, m) PROVE TabsWell'
  BY <1>7, <1>b DEF ChatCompleted, TabsWell, TypeOK, Showing, shown
<1>8. QED
  BY <1>1, <1>2, <1>3, <1>4, <1>5, <1>6, <1>7

LEMMA EventTabs ==
  ASSUME TypeOK, TabsWell, NEW t \in Tabs, Event(t)
  PROVE  TabsWell'
<1>1. \A u \in Tabs : Told(u)'
  BY EventTold
<1>2. phase' = phase /\ linked' = linked /\ \A u \in Tabs : events'[u] # <<>> => events[u] # <<>>
  BY EventCases DEF Event, TypeOK
<1>3. \A u \in Tabs : finishing'[u] # {} => finishing[u] # {} \/ Showing(u)
  BY EventCases DEF TypeOK
<1>4. QED
  BY <1>1, <1>2, <1>3 DEF TabsWell, Showing

LEMMA ServerTabs ==
  ASSUME TypeOK, TabsWell,
         (\E i \in DOMAIN saves : Serve(i))
         \/ \E m \in Responses : Begin(m) \/ Respond(m) \/ Stream(m) \/ Finish(m) \/ Cancel(m)
  PROVE  TabsWell'
<1>1. phase' = phase /\ linked' = linked /\ finishing' = finishing
  BY DEF Serve, Begin, Respond, Stream, Finish, Cancel, shown
<1>2. /\ \A u \in Tabs : Told(u)'
      /\ \A u \in Tabs : events'[u] # <<>> => events[u] # <<>> \/ (linked[u] /\ phase[u] # "closed")
  <2>1. CASE (\E i \in DOMAIN saves : Serve(i)) \/ \E m \in Responses : Begin(m) \/ Respond(m)
    <3>1. events' = events /\ \A m \in Responses : task'[m] = "ended" => task[m] = "ended"
      BY <2>1 DEF Serve, Begin, Respond, TypeOK
    <3>2. QED
      BY <3>1, ToldKept DEF TabsWell
  <2>2. ASSUME NEW m \in Responses, Stream(m) \/ Finish(m) \/ Cancel(m)
        PROVE  /\ \A u \in Tabs : Told(u)'
               /\ \A u \in Tabs : events'[u] # <<>> => events[u] # <<>> \/ (linked[u] /\ phase[u] # "closed")
    <3>1. ASSUME NEW what \in {"part", "done", "cancel"}, Send(what, m), NEW u \in Tabs, events'[u] # <<>>
          PROVE  events[u] # <<>> \/ (linked[u] /\ phase[u] # "closed")
      BY <3>1 DEF Send
    <3>2. CASE Stream(m)
      <4>1. Send("part", m) /\ task' = task /\ task[m] # "ended"
        BY <3>2 DEF Stream, server
      <4>2. \A u \in Tabs : Told(u)'
        BY <4>1, SendTold
      <4>3. QED
        BY <3>1, <4>1, <4>2
    <3>3. CASE Finish(m)
      <4>1. Send("done", m) /\ \A n \in Responses : task'[n] = "ended" => task[n] = "ended" \/ n = m
        BY <3>3 DEF Finish, TypeOK
      <4>2. \A u \in Tabs : Told(u)'
        BY <4>1, SendTold
      <4>3. QED
        BY <3>1, <4>1, <4>2
    <3>4. CASE Cancel(m)
      <4>1. Send("cancel", m) /\ \A n \in Responses : task'[n] = "ended" => task[n] = "ended"
        BY <3>4 DEF Cancel, TypeOK
      <4>2. \A u \in Tabs : Told(u)'
        BY <4>1, SendTold
      <4>3. QED
        BY <3>1, <4>1, <4>2
    <3>5. QED
      BY <2>2, <3>2, <3>3, <3>4
  <2>3. QED
    BY <2>1, <2>2
<1>3. QED
  BY <1>1, <1>2 DEF TabsWell, Showing

-----------------------------------------------------------------------------
(* What the saves know *)

\* A tab that is not behind knows of every prompt.
LEMMA NotBehind ==
  ASSUME TypeOK, NEW t \in Tabs, \A m \in Responses : ~Behind(t, m), Known
  PROVE  /\ Prompted \subseteq Present(view[t])
         /\ Present(row) \subseteq Present(view[t])
         /\ \A i \in DOMAIN saves : Present(saves[i].copy) \subseteq Present(view[t])
<1>1. Prompted \subseteq Responses
  BY RoundsTyped DEF Prompted, TypeOK
<1>2. Prompted \subseteq Present(view[t])
  BY <1>1 DEF Behind, Present
<1>3. QED
  BY <1>2 DEF Known

\* A tab that is not behind saves what it shows, and perhaps a new prompt.
LEMMA SavingKnown ==
  ASSUME TypeOK, Known, NEW t \in Tabs, NEW copy \in [Responses -> Contents],
         NEW start \in SUBSET Responses, NEW completed \in BOOLEAN,
         Saving(t, copy, start, completed), ~excused', UNCHANGED server,
         \A m \in Responses : copy[m] # "stub",
         Present(view[t]) \subseteq Present(copy), start \subseteq Present(copy),
         Present(copy) \subseteq Prompted', Prompted \subseteq Prompted',
         \A u \in Tabs : \A m \in Responses : view'[u][m] # "stub",
         \A u \in Tabs : Present(view'[u]) \subseteq Prompted'
  PROVE  Known'
<1> DEFINE x == [tab |-> t, copy |-> copy, start |-> start, completed |-> completed]
           n == Len(saves) + 1
<1>1. /\ Present(row) \subseteq Present(copy)
      /\ \A i \in DOMAIN saves : Present(saves[i].copy) \subseteq Present(copy)
  BY NotBehind DEF Saving
<1>2. x \in Save /\ saves \in Seq(Save) /\ saves' = Append(saves, x)
  BY DEF Save, TypeOK, Saving
<1>3. /\ DOMAIN saves' = DOMAIN saves \cup {n} /\ saves'[n] = x
      /\ \A k \in DOMAIN saves : saves'[k] = saves[k] /\ k < n /\ k \in Nat
  BY <1>2, Appended
<1>4. n \in Nat
  BY <1>2
<1>5. x.copy = copy /\ x.start = start
  OBVIOUS
<1> HIDE DEF x, n
<1>6. ASSUME NEW i \in DOMAIN saves'
      PROVE  /\ \A m \in Responses : saves'[i].copy[m] # "stub"
             /\ saves'[i].start \subseteq Present(saves'[i].copy)
             /\ Present(row) \subseteq Present(saves'[i].copy) /\ Present(saves'[i].copy) \subseteq Prompted'
             /\ \A j \in DOMAIN saves' : i < j => Present(saves'[i].copy) \subseteq Present(saves'[j].copy)
  <2>1. CASE i \in DOMAIN saves
    <3>1. \A j \in DOMAIN saves : i < j => Present(saves[i].copy) \subseteq Present(saves[j].copy)
      BY <2>1 DEF Known
    <3>2. QED
      BY <1>1, <1>3, <1>5, <2>1, <3>1 DEF Known
  <2>2. CASE i = n
    <3>1. \A j \in DOMAIN saves' : ~(i < j)
      BY <1>3, <1>4, <2>2
    <3>2. QED
      BY <1>1, <1>3, <1>5, <2>2, <3>1
  <2>3. QED
    BY <1>3, <2>1, <2>2
<1>7. row' = row /\ task' = task
  BY DEF server
<1>8. Present(row)' = Present(row) /\ \A i \in DOMAIN saves' : Present(saves[i].copy)' = Present(saves'[i].copy)
  BY <1>7 DEF Present
<1>9. \A u \in Tabs : Present(view[u])' = Present(view'[u])
  BY DEF Present
<1>10. QED
  BY <1>6, <1>7, <1>8, <1>9 DEF Known

\* Where neither the row nor the saves nor the prompts change, only the views matter.
LEMMA ViewsKnown ==
  ASSUME Known, row' = row, round' = round, DOMAIN saves' = DOMAIN saves,
         \A i \in DOMAIN saves : saves'[i].copy = saves[i].copy /\ saves'[i].start \subseteq saves[i].start,
         \A m \in Responses : task'[m] # "none" => task[m] # "none",
         \A t \in Tabs : \A m \in Responses : view'[t][m] # "stub",
         \A t \in Tabs : Present(view'[t]) \subseteq Prompted
  PROVE  Known'
<1>1. Present(row)' = Present(row) /\ Prompted' = Prompted
  BY DEF Present, Prompted
<1>2. \A i \in DOMAIN saves : Present(saves[i].copy)' = Present(saves[i].copy)
  BY DEF Present
<1>3. \A t \in Tabs : Present(view[t])' = Present(view'[t])
  BY DEF Present
<1>4. QED
  BY <1>1, <1>2, <1>3 DEF Known

LEMMA PromptKnown ==
  ASSUME TypeOK, Known, ~excused', NEW t \in Tabs, SubmitPrompt(t)
  PROVE  Known'
<1> DEFINE new == Rounds[round + 1]
<1>1. round + 1 \in 1 .. Len(Rounds) /\ new \subseteq Responses /\ round \in Nat /\ round' = round + 1
  BY RoundsTyped DEF SubmitPrompt, TypeOK
<1>2. Prompted' = Prompted \cup new
  <2>1. 1 .. round' = (1 .. round) \cup {round + 1}
    BY <1>1
  <2>2. QED
    BY <2>1 DEF Prompted
<1>3. /\ view'[t] = [m \in Responses |-> IF m \in new THEN "empty" ELSE view[t][m]]
      /\ \A u \in Tabs \ {t} : view'[u] = view[u]
      /\ Saving(t, view'[t], new, FALSE) /\ UNCHANGED server
  BY DEF SubmitPrompt, TypeOK
<1> HIDE DEF new
<1>4. view'[t] \in [Responses -> Contents]
  BY <1>3 DEF TypeOK, Contents
<1>5. Present(view'[t]) = Present(view[t]) \cup new
  BY <1>1, <1>3 DEF Present
<1>6. \A u \in Tabs : \A m \in Responses : view'[u][m] # "stub"
  BY <1>3 DEF Known
<1>7. \A u \in Tabs : Present(view'[u]) \subseteq Prompted'
  BY <1>2, <1>3, <1>5 DEF Known
<1>8. QED
  BY <1>1, <1>2, <1>3, <1>4, <1>5, <1>6, <1>7, SavingKnown

LEMMA UsersKnown ==
  ASSUME TypeOK, Known, ~excused', NEW t \in Tabs,
         Open(t) \/ ChatAnswered(t) \/ HistorySet(t) \/ TasksAnswered(t) \/ Close(t) \/ Disconnect(t) \/ Reconnect(t)
         \/ SubmitPrompt(t) \/ SaveChat(t) \/ StopResponse(t) \/ \E m \in Responses : ChatCompleted(t, m)
  PROVE  Known'
<1>a. /\ \A u \in Tabs : \A m \in Responses : view[u][m] # "stub"
      /\ \A u \in Tabs : Present(view[u]) \subseteq Prompted
  BY DEF Known
<1>1. CASE Open(t) \/ HistorySet(t) \/ TasksAnswered(t) \/ Disconnect(t) \/ Reconnect(t)
  <2>1. UNCHANGED <<server, view, saves, round>>
    BY <1>1 DEF Open, HistorySet, TasksAnswered, Disconnect, Reconnect, shown
  <2>2. QED
    BY <1>a, <2>1, ViewsKnown DEF server
<1>2. CASE ChatAnswered(t)
  <2>1. UNCHANGED <<server, saves, round>> /\ view' = [view EXCEPT ![t] = row]
    BY <1>2 DEF ChatAnswered
  <2>2. \A u \in Tabs : view'[u] = view[u] \/ view'[u] = row
    BY <2>1 DEF TypeOK
  <2>3. (\A m \in Responses : row[m] # "stub") /\ Present(row) \subseteq Prompted
    BY DEF Known
  <2>4. QED
    BY <1>a, <2>1, <2>2, <2>3, ViewsKnown DEF server
<1>3. CASE Close(t)
  <2>1. UNCHANGED <<server, round>> /\ view' = [view EXCEPT ![t] = Blank]
    BY <1>3 DEF Close
  <2>2. \A u \in Tabs : view'[u] = view[u] \/ view'[u] = Blank
    BY <2>1 DEF TypeOK
  <2>3. (\A m \in Responses : Blank[m] # "stub") /\ Present(Blank) = {}
    BY DEF Blank, Present
  <2>4. /\ DOMAIN saves' = DOMAIN saves
        /\ \A i \in DOMAIN saves : saves'[i].copy = saves[i].copy /\ saves'[i].start \subseteq saves[i].start
    <3>1. \A i \in DOMAIN saves : saves[i] \in Save
      BY DEF TypeOK
    <3>2. \A i \in DOMAIN saves :
            saves'[i] = IF saves[i].tab = t THEN [saves[i] EXCEPT !.start = {}, !.completed = FALSE] ELSE saves[i]
      BY <1>3 DEF Close
    <3>3. DOMAIN saves' = DOMAIN saves
      BY <1>3 DEF Close
    <3>4. QED
      BY <3>1, <3>2, <3>3 DEF Save
  <2>5. QED
    BY <1>a, <2>1, <2>2, <2>3, <2>4, ViewsKnown DEF server
<1>4. CASE StopResponse(t)
  <2>1. UNCHANGED <<row, view, saves, round>> /\ \A m \in Responses : task'[m] # "none" => task[m] # "none"
    BY <1>4 DEF StopResponse, TypeOK
  <2>2. QED
    BY <1>a, <2>1, ViewsKnown
<1>5. CASE SaveChat(t) \/ \E m \in Responses : ChatCompleted(t, m)
  <2>1. PICK completed \in BOOLEAN : Saving(t, view[t], {}, completed)
    BY <1>5 DEF SaveChat, ChatCompleted
  <2>2. UNCHANGED <<server, view, round>>
    BY <1>5 DEF SaveChat, ChatCompleted, shown
  <2>3. Prompted' = Prompted /\ view[t] \in [Responses -> Contents]
    BY <2>2 DEF Prompted, TypeOK
  <2>4. QED
    BY <1>a, <2>1, <2>2, <2>3, SavingKnown
<1>6. QED
  BY <1>1, <1>2, <1>3, <1>4, <1>5, PromptKnown

\* An event changes what is known of a response, never whether it is there.
LEMMA EventViews ==
  ASSUME TypeOK, NEW t \in Tabs, Event(t)
  PROVE  /\ \A u \in Tabs : Present(view'[u]) = Present(view[u])
         /\ \A u \in Tabs : \A m \in Responses : view'[u][m] # view[u][m] => view'[u][m] \in {"part", "full"}
         /\ \A u \in Tabs \ {t} : view'[u] = view[u] /\ events'[u] = events[u] /\ finishing'[u] = finishing[u]
<1> DEFINE e == Head(events[t])
<1>1. \/ view' = view
      \/ \E c \in {"part", "full"} : e.id \in Present(view[t]) /\ view' = [view EXCEPT ![t][e.id] = c]
  BY EventCases DEF shown
<1>2. \A u \in Tabs \ {t} : events'[u] = events[u] /\ finishing'[u] = finishing[u]
  BY EventCases DEF Event, TypeOK
<1> HIDE DEF e
<1>3. ASSUME NEW c \in {"part", "full"}, e.id \in Present(view[t]), view' = [view EXCEPT ![t][e.id] = c]
      PROVE  /\ \A u \in Tabs : Present(view'[u]) = Present(view[u])
             /\ \A u \in Tabs : \A m \in Responses : view'[u][m] # view[u][m] => view'[u][m] \in {"part", "full"}
             /\ \A u \in Tabs \ {t} : view'[u] = view[u]
  <2>1. \A m \in Responses : view'[t][m] = IF m = e.id THEN c ELSE view[t][m]
    BY <1>3 DEF TypeOK
  <2>2. \A u \in Tabs \ {t} : view'[u] = view[u]
    BY <1>3 DEF TypeOK
  <2>3. Present(view'[t]) = Present(view[t])
    BY <1>3, <2>1 DEF Present
  <2>4. QED
    BY <2>1, <2>2, <2>3
<1>4. QED
  BY <1>1, <1>2, <1>3

LEMMA EventKnown ==
  ASSUME TypeOK, Known, NEW t \in Tabs, Event(t)
  PROVE  Known'
<1>1. UNCHANGED <<server, saves, round>>
  BY DEF Event
<1>2. \A u \in Tabs : \A m \in Responses : view'[u][m] # "stub"
  BY EventViews DEF Known
<1>3. \A u \in Tabs : Present(view'[u]) \subseteq Prompted
  BY EventViews DEF Known
<1>4. QED
  BY <1>1, <1>2, <1>3, ViewsKnown DEF server

\* The first save is served: what follows it knows at least as much.
LEMMA ServeKnown ==
  ASSUME TypeOK, Known, ~excused', NEW i \in DOMAIN saves, Serve(i)
  PROVE  Known'
<1>1. i = 1 /\ saves \in Seq(Save) /\ saves' = RemoveAt(saves, 1) /\ row' = saves[1].copy
  <2>1. saves \in Seq(Save)
    BY DEF TypeOK
  <2>2. ~(i > 1)
    BY DEF Serve
  <2>3. i = 1
    BY <2>1, <2>2
  <2>4. QED
    BY <2>1, <2>3 DEF Serve
<1>2. \A k \in DOMAIN saves' : k + 1 \in DOMAIN saves /\ saves'[k] = saves[k + 1] /\ k \in Nat /\ k >= 1
  BY <1>1, FirstRemoved
<1>3. /\ view' = view /\ round' = round /\ Prompted' = Prompted
      /\ \A m \in Responses : task'[m] # "none" => task[m] # "none" \/ m \in saves[1].start
  BY <1>1 DEF Serve, Prompted, TypeOK
<1>4. saves[1] \in Save
  BY <1>1
<1>5. ASSUME NEW m \in Responses PROVE row'[m] # "stub" /\ (task'[m] # "none" => row'[m] # "absent")
  BY <1>1, <1>3 DEF Known, Present
<1>6. Present(row') \subseteq Prompted
  BY <1>1 DEF Known
<1>7. ASSUME NEW k \in DOMAIN saves'
      PROVE  /\ \A m \in Responses : saves'[k].copy[m] # "stub"
             /\ saves'[k].start \subseteq Present(saves'[k].copy)
             /\ Present(row') \subseteq Present(saves'[k].copy) /\ Present(saves'[k].copy) \subseteq Prompted
             /\ \A j \in DOMAIN saves' : k < j => Present(saves'[k].copy) \subseteq Present(saves'[j].copy)
  <2>1. k + 1 \in DOMAIN saves /\ saves'[k] = saves[k + 1] /\ 1 < k + 1
    BY <1>2
  <2>2. Present(saves[1].copy) \subseteq Present(saves[k + 1].copy)
    BY <1>1, <2>1 DEF Known
  <2>3. ASSUME NEW j \in DOMAIN saves', k < j PROVE Present(saves'[k].copy) \subseteq Present(saves'[j].copy)
    <3>1. j + 1 \in DOMAIN saves /\ saves'[j] = saves[j + 1] /\ k + 1 < j + 1
      BY <1>2, <2>3
    <3>2. QED
      BY <2>1, <3>1 DEF Known
  <2>4. QED
    BY <1>1, <2>1, <2>2, <2>3 DEF Known
<1>8. /\ \A u \in Tabs : \A m \in Responses : view[u][m] # "stub"
      /\ \A u \in Tabs : Present(view[u]) \subseteq Prompted
  BY DEF Known
<1>9. /\ Present(row)' = Present(row') /\ \A u \in Tabs : Present(view[u])' = Present(view[u])
      /\ \A k \in DOMAIN saves' : Present(saves[k].copy)' = Present(saves'[k].copy)
  BY <1>3 DEF Present
<1>10. /\ \A m \in Responses : row'[m] # "stub" /\ (task'[m] # "none" => row'[m] # "absent")
       /\ \A t \in Tabs : \A m \in Responses : view'[t][m] # "stub"
       /\ Present(row)' \subseteq Prompted' /\ \A t \in Tabs : Present(view[t])' \subseteq Prompted'
  BY <1>3, <1>5, <1>6, <1>8, <1>9
<1>11. ASSUME NEW k \in DOMAIN saves'
       PROVE  /\ \A m \in Responses : saves'[k].copy[m] # "stub"
              /\ saves'[k].start \subseteq Present(saves[k].copy)'
              /\ Present(row)' \subseteq Present(saves[k].copy)' /\ Present(saves[k].copy)' \subseteq Prompted'
              /\ \A j \in DOMAIN saves' : k < j => Present(saves[k].copy)' \subseteq Present(saves[j].copy)'
  BY <1>3, <1>7, <1>9
<1>12. QED
  BY <1>10, <1>11 DEF Known

LEMMA ServerKnown ==
  ASSUME TypeOK, Known, ~excused',
         (\E i \in DOMAIN saves : Serve(i))
         \/ \E m \in Responses : Begin(m) \/ Respond(m) \/ Stream(m) \/ Finish(m) \/ Cancel(m)
  PROVE  Known'
<1>a. /\ \A u \in Tabs : \A m \in Responses : view[u][m] # "stub"
      /\ \A u \in Tabs : Present(view[u]) \subseteq Prompted
  BY DEF Known
<1>1. ASSUME NEW m \in Responses, Begin(m) \/ Stream(m) PROVE Known'
  <2>1. /\ UNCHANGED <<row, view, saves, round>>
        /\ \A n \in Responses : task'[n] # "none" => task[n] # "none"
    BY <1>1 DEF Begin, Stream, TypeOK, server, shown
  <2>2. QED
    BY <1>a, <2>1, ViewsKnown
<1>2. ASSUME NEW m \in Responses, Respond(m) \/ Finish(m) \/ Cancel(m) PROVE Known'
  <2>1. task[m] # "none" /\ row[m] \notin {"absent", "stub"}
    BY <1>2 DEF Respond, Finish, Cancel, Known
  <2>2. /\ UNCHANGED <<view, saves, round>>
        /\ \A n \in Responses : task'[n] # "none" => task[n] # "none"
    BY <1>2, <2>1 DEF Respond, Finish, Cancel, TypeOK, shown
  <2>3. \A n \in Responses : row'[n] = row[n] \/ row'[n] \in {"part", "full"}
    BY <1>2, <2>1 DEF Respond, Finish, Cancel, Upsert, TypeOK
  <2>4. Present(row') = Present(row)
    <3>1. \A n \in Responses : row'[n] # "absent" <=> row[n] # "absent"
      BY <1>2, <2>1 DEF Respond, Finish, Cancel, Upsert, TypeOK
    <3>2. QED
      BY <3>1 DEF Present
  <2>5. /\ Present(row)' = Present(row) /\ Prompted' = Prompted
        /\ \A i \in DOMAIN saves : Present(saves[i].copy)' = Present(saves[i].copy)
        /\ \A u \in Tabs : Present(view[u])' = Present(view[u])
    BY <2>2, <2>4 DEF Present, Prompted
  <2>6. \A n \in Responses : row'[n] # "stub" /\ (task'[n] # "none" => row'[n] # "absent")
    BY <2>2, <2>3 DEF Known
  <2>7. QED
    BY <2>2, <2>5, <2>6 DEF Known
<1>3. QED
  BY <1>1, <1>2, ServeKnown

-----------------------------------------------------------------------------
(* The tabs of the saves *)

LEMMA SaversTabs ==
  ASSUME TypeOK
  PROVE  \A i \in DOMAIN saves : saves[i].tab \in Tabs /\ saves[i].copy \in [Responses -> Contents]
<1>1. ASSUME NEW i \in DOMAIN saves PROVE saves[i] \in Save
  BY DEF TypeOK
<1>2. QED
  BY <1>1 DEF Save

LEMMA SaversKept ==
  ASSUME SaversThere, DOMAIN saves' = DOMAIN saves,
         \A i \in DOMAIN saves : saves'[i].copy = saves[i].copy /\ saves'[i].tab = saves[i].tab,
         \A i \in DOMAIN saves : LET u == saves[i].tab IN
            linked'[u] /\ phase'[u] \in {"tasks", "open"} /\ Present(view[u]) \subseteq Present(view'[u])
  PROVE  SaversThere'
BY DEF SaversThere, Showing, Present

LEMMA SavingSavers ==
  ASSUME TypeOK, SaversThere, NEW t \in Tabs, NEW start \in SUBSET Responses, NEW completed \in BOOLEAN,
         view'[t] \in [Responses -> Contents],
         Saving(t, view'[t], start, completed), ~excused', Showing(t), phase' = phase, linked' = linked,
         \A u \in Tabs : Present(view[u]) \subseteq Present(view'[u])
  PROVE  SaversThere'
<1> DEFINE x == [tab |-> t, copy |-> view'[t], start |-> start, completed |-> completed]
           n == Len(saves) + 1
<1>1. x \in Save /\ saves \in Seq(Save) /\ saves' = Append(saves, x)
  BY DEF Save, TypeOK, Saving
<1>2. /\ DOMAIN saves' = DOMAIN saves \cup {n} /\ saves'[n] = x
      /\ \A k \in DOMAIN saves : saves'[k] = saves[k]
  BY <1>1, Appended
<1>3. linked[t] /\ x.tab = t /\ x.copy = view'[t]
  BY DEF Saving
<1>4. \A k \in DOMAIN saves : saves[k].tab \in Tabs
  BY SaversTabs
<1> HIDE DEF x, n
<1>5. ASSUME NEW i \in DOMAIN saves'
      PROVE  LET u == saves'[i].tab IN
             linked[u] /\ phase[u] \in {"tasks", "open"} /\ Present(saves'[i].copy) \subseteq Present(view'[u])
  <2>1. CASE i = n
    BY <1>2, <1>3, <2>1 DEF Showing
  <2>2. CASE i \in DOMAIN saves
    BY <1>2, <1>4, <2>2 DEF SaversThere, Showing
  <2>3. QED
    BY <1>2, <2>1, <2>2
<1>6. QED
  BY <1>5 DEF SaversThere, Showing, Present

\* Who closes, or loses the connection, without excuse has no save under way, and the row has
\* every answer that ended.
LEMMA NoneNeeded ==
  ASSUME TypeOK, NEW t \in Tabs, Close(t) \/ Disconnect(t), ~excused'
  PROVE  /\ \A i \in DOMAIN saves : saves[i].tab # t
         /\ \A m \in Responses : task[m] = "ended" => row[m] = "full"
BY DEF Close, Disconnect, Needed

LEMMA UsersSavers ==
  ASSUME TypeOK, TabsWell, SaversThere, ~excused', NEW t \in Tabs,
         Open(t) \/ ChatAnswered(t) \/ HistorySet(t) \/ TasksAnswered(t) \/ Close(t) \/ Disconnect(t) \/ Reconnect(t)
         \/ SubmitPrompt(t) \/ SaveChat(t) \/ StopResponse(t) \/ \E m \in Responses : ChatCompleted(t, m)
  PROVE  SaversThere'
<1>a. \A i \in DOMAIN saves : saves[i].tab \in Tabs
  BY SaversTabs
<1>1. CASE Open(t) \/ ChatAnswered(t)
  <2>1. \A i \in DOMAIN saves : saves[i].tab # t
    BY <1>1 DEF Open, ChatAnswered, SaversThere, Showing
  <2>2. /\ saves' = saves /\ linked' = linked
        /\ \A u \in Tabs \ {t} : phase'[u] = phase[u] /\ view'[u] = view[u]
    BY <1>1 DEF Open, ChatAnswered, TypeOK
  <2>3. QED
    BY <1>a, <2>1, <2>2, SaversKept DEF SaversThere, Showing
<1>2. CASE HistorySet(t) \/ TasksAnswered(t) \/ Reconnect(t) \/ StopResponse(t)
  <2>1. /\ saves' = saves /\ view' = view /\ \A u \in Tabs : linked[u] => linked'[u]
        /\ \A u \in Tabs : phase[u] \in {"tasks", "open"} => phase'[u] \in {"tasks", "open"}
    BY <1>2 DEF HistorySet, TasksAnswered, Reconnect, StopResponse, TypeOK, shown
  <2>2. QED
    BY <1>a, <2>1, SaversKept DEF SaversThere, Showing
<1>3. CASE Close(t)
  <2>1. \A i \in DOMAIN saves : saves[i].tab # t
    BY <1>3, NoneNeeded
  <2>2. /\ saves' = [i \in DOMAIN saves |-> saves[i]] /\ linked' = linked
        /\ \A u \in Tabs \ {t} : phase'[u] = phase[u] /\ view'[u] = view[u]
    BY <1>3, <2>1 DEF Close, TypeOK
  <2>3. QED
    BY <1>a, <2>1, <2>2, SaversKept DEF SaversThere, Showing
<1>4. CASE Disconnect(t)
  <2>1. \A i \in DOMAIN saves : saves[i].tab # t
    BY <1>4, NoneNeeded
  <2>2. saves' = saves /\ phase' = phase /\ view' = view /\ \A u \in Tabs \ {t} : linked'[u] = linked[u]
    BY <1>4 DEF Disconnect, TypeOK, shown
  <2>3. QED
    BY <1>a, <2>1, <2>2, SaversKept DEF SaversThere, Showing
<1>5. CASE SubmitPrompt(t)
  <2> DEFINE new == Rounds[round + 1]
  <2>1. new \subseteq Responses
    BY <1>5, RoundsTyped DEF SubmitPrompt, TypeOK
  <2>2. /\ view'[t] = [m \in Responses |-> IF m \in new THEN "empty" ELSE view[t][m]]
        /\ \A u \in Tabs \ {t} : view'[u] = view[u]
        /\ Saving(t, view'[t], new, FALSE) /\ phase' = phase /\ linked' = linked /\ Showing(t)
    BY <1>5 DEF SubmitPrompt, TypeOK, Showing
  <2> HIDE DEF new
  <2>3. view'[t] \in [Responses -> Contents] /\ Present(view[t]) \subseteq Present(view'[t])
    BY <2>2 DEF TypeOK, Contents, Present
  <2>4. QED
    BY <2>1, <2>2, <2>3, SavingSavers
<1>6. CASE SaveChat(t) \/ \E m \in Responses : ChatCompleted(t, m)
  <2>1. PICK completed \in BOOLEAN : Saving(t, view[t], {}, completed)
    BY <1>6 DEF SaveChat, ChatCompleted
  <2>2. view' = view /\ phase' = phase /\ linked' = linked /\ Showing(t)
    BY <1>6 DEF SaveChat, ChatCompleted, shown, Showing, TabsWell
  <2>3. QED
    BY <2>1, <2>2, SavingSavers DEF TypeOK
<1>7. QED
  BY <1>1, <1>2, <1>3, <1>4, <1>5, <1>6

LEMMA OthersSavers ==
  ASSUME TypeOK, SaversThere, ~excused',
         (\E t \in Tabs : Event(t)) \/ (\E i \in DOMAIN saves : Serve(i))
         \/ \E m \in Responses : Begin(m) \/ Respond(m) \/ Stream(m) \/ Finish(m) \/ Cancel(m)
  PROVE  SaversThere'
<1>a. \A i \in DOMAIN saves : saves[i].tab \in Tabs
  BY SaversTabs
<1>1. ASSUME NEW t \in Tabs, Event(t) PROVE SaversThere'
  <2>1. saves' = saves /\ linked' = linked /\ phase' = phase
    BY <1>1, EventCases DEF Event
  <2>2. QED
    BY <1>a, <1>1, <2>1, EventViews, SaversKept DEF SaversThere, Showing
<1>2. ASSUME NEW i \in DOMAIN saves, Serve(i) PROVE SaversThere'
  <2>1. saves \in Seq(Save) /\ saves' = RemoveAt(saves, 1) /\ 1 \in DOMAIN saves
    <3>1. saves \in Seq(Save) /\ ~(i > 1)
      BY <1>2 DEF Serve, TypeOK
    <3>2. i = 1
      BY <3>1
    <3>3. QED
      BY <1>2, <3>1, <3>2 DEF Serve
  <2>2. \A k \in DOMAIN saves' : k + 1 \in DOMAIN saves /\ saves'[k] = saves[k + 1]
    BY <2>1, FirstRemoved
  <2>3. linked' = linked /\ phase' = phase /\ view' = view
    BY <1>2 DEF Serve
  <2>4. ASSUME NEW k \in DOMAIN saves'
        PROVE  LET u == saves'[k].tab IN
               linked[u] /\ phase[u] \in {"tasks", "open"} /\ Present(saves'[k].copy) \subseteq Present(view[u])
    BY <2>2 DEF SaversThere, Showing
  <2>5. QED
    BY <2>3, <2>4 DEF SaversThere, Showing, Present
<1>3. ASSUME NEW m \in Responses, Begin(m) \/ Respond(m) \/ Stream(m) \/ Finish(m) \/ Cancel(m) PROVE SaversThere'
  <2>1. saves' = saves /\ linked' = linked /\ phase' = phase /\ view' = view
    BY <1>3 DEF Begin, Respond, Stream, Finish, Cancel, shown
  <2>2. QED
    BY <2>1, SaversKept DEF SaversThere, Showing
<1>4. QED
  BY <1>1, <1>2, <1>3

-----------------------------------------------------------------------------
(* Who mends the row *)

LEMMA MendsSame ==
  ASSUME NEW t \in Tabs, NEW m \in Responses, Mends(t, m), phase'[t] \in {"tasks", "open"},
         view'[t] = view[t], events'[t] = events[t], finishing'[t] = finishing[t]
  PROVE  Mends(t, m)'
BY DEF Mends, Coming, Showing, Present

\* What is sent comes, and takes no mending away unless it is a piece of the answer itself.
LEMMA SendMends ==
  ASSUME TypeOK, NEW n \in Responses, NEW what \in {"part", "done", "cancel"}, Send(what, n),
         phase' = phase, view' = view, finishing' = finishing, NEW t \in Tabs
  PROVE  /\ linked[t] /\ phase[t] # "closed" => Coming(t, what, n)'
         /\ \A m \in Responses : Mends(t, m) /\ (what = "part" => m # n) => Mends(t, m)'
<1> DEFINE x == [what |-> what, id |-> n]
           k == Len(events[t]) + 1
<1>1. events[t] \in Seq(Notice) /\ x \in Notice
  BY DEF TypeOK, Notice
<1>2. CASE linked[t] /\ phase[t] # "closed"
  <2>1. events'[t] = Append(events[t], x)
    BY <1>2 DEF Send
  <2>2. /\ DOMAIN events'[t] = DOMAIN events[t] \cup {k} /\ events'[t][k] = x
        /\ \A i \in DOMAIN events[t] : events'[t][i] = events[t][i]
    BY <1>1, <2>1, Appended
  <2> HIDE DEF k
  <2>3. Coming(t, what, n)'
    BY <2>2 DEF Coming
  <2>4. ASSUME NEW m \in Responses, Mends(t, m), what = "part" => m # n PROVE Mends(t, m)'
    <3>1. Coming(t, "done", m) => Coming(t, "done", m)'
      BY <2>2 DEF Coming
    <3>2. x # [what |-> "part", id |-> m]
      BY <2>4
    <3>3. ~Coming(t, "part", m) => ~Coming(t, "part", m)'
      <4> HIDE DEF x
      <4>1. QED
        BY <2>2, <3>2 DEF Coming
    <3>4. QED
      BY <2>4, <3>1, <3>3 DEF Mends, Showing, Present
  <2>5. QED
    BY <2>3, <2>4
<1>3. CASE ~(linked[t] /\ phase[t] # "closed")
  <2>1. events'[t] = events[t]
    BY <1>3 DEF Send
  <2>2. ASSUME NEW m \in Responses, Mends(t, m) PROVE Mends(t, m)'
    <3>1. phase'[t] \in {"tasks", "open"}
      BY <2>2 DEF Mends, Showing
    <3>2. QED
      BY <2>1, <2>2, <3>1, MendsSame
  <2>3. QED
    BY <1>3, <2>2
<1>4. QED
  BY <1>2, <1>3

\* A step that neither saves nor serves a save, ends no answer, and leaves the tabs of the saves
\* to mend them.
LEMMA MendedKept ==
  ASSUME TypeOK, RowMended, SavesMended, DOMAIN saves' = DOMAIN saves,
         \A i \in DOMAIN saves : saves'[i].copy = saves[i].copy /\ saves'[i].tab = saves[i].tab,
         \A m \in Responses : task'[m] = "ended" => task[m] = "ended",
         \A m \in Responses : task'[m] = "ended" => row'[m] = row[m],
         \A t \in Tabs : \A m \in Responses : task'[m] = "ended" /\ Mends(t, m) =>
            Mends(t, m)' \/ (row[m] = "full" /\ \A i \in DOMAIN saves : saves[i].tab # t)
  PROVE  RowMended' /\ SavesMended'
<1>1. ASSUME NEW m \in Responses, task'[m] = "ended", row'[m] # "full"
      PROVE  (\E i \in DOMAIN saves' : saves'[i].copy[m] = "full") \/ \E t \in Tabs : Mends(t, m)'
  <2>1. task[m] = "ended" /\ row[m] # "full"
    BY <1>1
  <2>2. CASE \E i \in DOMAIN saves : saves[i].copy[m] = "full"
    BY <2>2
  <2>3. CASE \E t \in Tabs : Mends(t, m)
    BY <1>1, <2>1, <2>3
  <2>4. QED
    BY <2>1, <2>2, <2>3 DEF RowMended
<1>2. ASSUME NEW i \in DOMAIN saves', NEW t \in Tabs, NEW m \in Responses,
             saves'[i].tab = t, task'[m] = "ended", saves'[i].copy[m] # "full"
      PROVE  (\E j \in DOMAIN saves' : i < j /\ saves'[j].copy[m] = "full") \/ Mends(t, m)'
  <2>1. task[m] = "ended" /\ saves[i].copy[m] # "full" /\ i \in DOMAIN saves /\ saves[i].tab = t
    BY <1>2
  <2>2. CASE \E j \in DOMAIN saves : i < j /\ saves[j].copy[m] = "full"
    BY <2>2
  <2>3. CASE Mends(t, m)
    BY <1>2, <2>1, <2>3
  <2>4. QED
    BY <2>1, <2>2, <2>3 DEF SavesMended
<1>3. RowMended'
  BY <1>1 DEF RowMended
<1>4. SavesMended'
  BY <1>2 DEF SavesMended
<1>5. QED
  BY <1>3, <1>4

\* A save of a tab that is not behind has every answer that ended, or its tab mends it.
LEMMA SavingMended ==
  ASSUME TypeOK, Known, RowMended, SavesMended,
         NEW t \in Tabs, NEW start \in SUBSET Responses, NEW completed \in BOOLEAN,
         view'[t] \in [Responses -> Contents],
         Saving(t, view'[t], start, completed), ~excused', Showing(t),
         UNCHANGED <<row, task, phase, events>>,
         \A m \in Responses : task[m] = "ended" => view'[t][m] = view[t][m],
         \A u \in Tabs : \A m \in Responses : task[m] = "ended" /\ Mends(u, m) =>
            Mends(u, m)' \/ view'[t][m] = "full"
  PROVE  RowMended' /\ SavesMended'
<1> DEFINE x == [tab |-> t, copy |-> view'[t], start |-> start, completed |-> completed]
           n == Len(saves) + 1
<1>1. x \in Save /\ saves \in Seq(Save) /\ saves' = Append(saves, x)
  BY DEF Save, TypeOK, Saving
<1>2. /\ DOMAIN saves' = DOMAIN saves \cup {n} /\ saves'[n] = x
      /\ \A k \in DOMAIN saves : saves'[k] = saves[k] /\ k < n
  BY <1>1, Appended
<1>3. x.tab = t /\ x.copy = view'[t]
  OBVIOUS
<1> HIDE DEF x, n
<1>4. ASSUME NEW m \in Responses, task[m] = "ended" PROVE x.copy[m] = "full" \/ Mends(t, m)'
  <2>1. ~Behind(t, m)
    BY DEF Saving
  <2>2. m \in Prompted
    BY <1>4 DEF Known, Present
  <2>3. view[t][m] # "absent" /\ (view[t][m] = "full" \/ Coming(t, "done", m))
    BY <1>4, <2>1, <2>2 DEF Behind, Coming
  <2>4. view'[t][m] = view[t][m]
    BY <1>4
  <2>5. Coming(t, "done", m) => Coming(t, "done", m)'
    BY DEF Coming
  <2>6. QED
    BY <1>3, <2>3, <2>4, <2>5 DEF Mends, Showing, Present
<1>5. ASSUME NEW m \in Responses, task[m] = "ended", row[m] # "full"
      PROVE  (\E i \in DOMAIN saves' : saves'[i].copy[m] = "full") \/ \E u \in Tabs : Mends(u, m)'
  BY <1>2, <1>4, <1>5
<1>6. ASSUME NEW i \in DOMAIN saves', NEW u \in Tabs, NEW m \in Responses,
             saves'[i].tab = u, task[m] = "ended", saves'[i].copy[m] # "full"
      PROVE  (\E j \in DOMAIN saves' : i < j /\ saves'[j].copy[m] = "full") \/ Mends(u, m)'
  <2>1. CASE i = n
    <3>1. saves'[i] = x /\ u = t
      BY <1>2, <1>3, <1>6, <2>1
    <3>2. QED
      BY <1>4, <1>6, <3>1
  <2>2. CASE i \in DOMAIN saves
    <3>1. saves'[i] = saves[i] /\ i < n
      BY <1>2, <2>2
    <3>2. CASE \E j \in DOMAIN saves : i < j /\ saves[j].copy[m] = "full"
      BY <1>2, <3>2
    <3>3. CASE Mends(u, m)
      <4>1. Mends(u, m)' \/ x.copy[m] = "full"
        BY <1>3, <1>6, <3>3
      <4>2. CASE x.copy[m] = "full"
        BY <1>2, <3>1, <4>2
      <4>3. QED
        BY <4>1, <4>2
    <3>4. QED
      BY <1>6, <2>2, <3>1, <3>2, <3>3 DEF SavesMended
  <2>3. QED
    BY <1>2, <2>1, <2>2
<1>7. RowMended'
  BY <1>5 DEF RowMended
<1>8. SavesMended'
  BY <1>6 DEF SavesMended
<1>9. QED
  BY <1>7, <1>8

LEMMA UsersMended ==
  ASSUME TypeOK, TabsWell, Known, RowMended, SavesMended, ~excused', NEW t \in Tabs,
         Open(t) \/ ChatAnswered(t) \/ HistorySet(t) \/ TasksAnswered(t) \/ Close(t) \/ Disconnect(t) \/ Reconnect(t)
         \/ SubmitPrompt(t) \/ SaveChat(t) \/ StopResponse(t) \/ \E m \in Responses : ChatCompleted(t, m)
  PROVE  RowMended' /\ SavesMended'
<1>1. CASE Open(t) \/ ChatAnswered(t) \/ HistorySet(t)
  <2>1. /\ ~Showing(t)
        /\ UNCHANGED <<row, task, saves, events, finishing>>
        /\ \A u \in Tabs \ {t} : phase'[u] = phase[u] /\ view'[u] = view[u]
    BY <1>1 DEF Open, ChatAnswered, HistorySet, TypeOK, server, Showing
  <2>2. ASSUME NEW u \in Tabs, NEW m \in Responses, Mends(u, m) PROVE Mends(u, m)'
    <3>1. u # t /\ phase'[u] \in {"tasks", "open"}
      BY <2>1, <2>2 DEF Mends, Showing
    <3>2. QED
      BY <2>1, <2>2, <3>1, MendsSame
  <2>3. QED
    BY <2>1, <2>2, MendedKept
<1>2. CASE TasksAnswered(t) \/ Reconnect(t) \/ StopResponse(t)
  <2>1. /\ UNCHANGED <<row, saves, events, finishing, view>>
        /\ \A m \in Responses : task'[m] = "ended" => task[m] = "ended"
        /\ \A u \in Tabs : phase[u] \in {"tasks", "open"} => phase'[u] \in {"tasks", "open"}
    <3>1. CASE TasksAnswered(t)
      BY <3>1 DEF TasksAnswered, TypeOK, server
    <3>2. CASE Reconnect(t)
      BY <3>2 DEF Reconnect, server, shown
    <3>3. CASE StopResponse(t)
      BY <3>3 DEF StopResponse, TypeOK
    <3>4. QED
      BY <1>2, <3>1, <3>2, <3>3
  <2>2. ASSUME NEW u \in Tabs, NEW m \in Responses, Mends(u, m) PROVE Mends(u, m)'
    <3>1. phase'[u] \in {"tasks", "open"}
      BY <2>1, <2>2 DEF Mends, Showing
    <3>2. QED
      BY <2>1, <2>2, <3>1, MendsSame
  <2>3. QED
    BY <2>1, <2>2, MendedKept
<1>3. CASE Close(t) \/ Disconnect(t)
  <2>1. /\ \A i \in DOMAIN saves : saves[i].tab # t
        /\ \A m \in Responses : task[m] = "ended" => row[m] = "full"
    BY <1>3, NoneNeeded
  <2>a. /\ UNCHANGED <<row, task>> /\ DOMAIN saves' = DOMAIN saves
        /\ \A i \in DOMAIN saves : saves'[i] = saves[i]
    BY <1>3, <2>1 DEF Close, Disconnect, server
  <2>2. \A u \in Tabs \ {t} : /\ phase'[u] = phase[u] /\ view'[u] = view[u]
                              /\ events'[u] = events[u] /\ finishing'[u] = finishing[u]
    BY <1>3 DEF Close, Disconnect, TypeOK, shown
  <2>3. ASSUME NEW u \in Tabs \ {t}, NEW m \in Responses, Mends(u, m) PROVE Mends(u, m)'
    <3>1. phase'[u] \in {"tasks", "open"}
      BY <2>2, <2>3 DEF Mends, Showing
    <3>2. QED
      BY <2>2, <2>3, <3>1, MendsSame
  <2>4. ASSUME NEW u \in Tabs, NEW m \in Responses, task'[m] = "ended", Mends(u, m)
        PROVE  Mends(u, m)' \/ (row[m] = "full" /\ \A i \in DOMAIN saves : saves[i].tab # u)
    BY <2>1, <2>a, <2>3, <2>4
  <2>5. QED
    BY <2>a, <2>4, MendedKept
<1>4. CASE SubmitPrompt(t)
  <2> DEFINE new == Rounds[round + 1]
  <2>1. new \subseteq Responses
    BY <1>4, RoundsTyped DEF SubmitPrompt, TypeOK
  <2>2. /\ view'[t] = [m \in Responses |-> IF m \in new THEN "empty" ELSE view[t][m]]
        /\ \A u \in Tabs \ {t} : view'[u] = view[u]
        /\ Saving(t, view'[t], new, FALSE) /\ Showing(t)
        /\ UNCHANGED <<row, task, phase, events, finishing>>
    BY <1>4 DEF SubmitPrompt, TypeOK, Showing, server
  <2>3. \A m \in Responses : task[m] = "ended" => m \notin new
    <3>1. ASSUME NEW m \in Responses, task[m] = "ended" PROVE m \in Prompted
      BY <3>1 DEF Known, Present
    <3>2. \A i \in 1 .. round : i \in DOMAIN Rounds /\ i # round + 1 /\ round + 1 \in DOMAIN Rounds
      BY <1>4, RoundsAssumption DEF SubmitPrompt, TypeOK
    <3>3. \A i \in 1 .. round : Rounds[i] \cap new = {}
      BY <3>2, RoundsAssumption
    <3>4. QED
      BY <3>1, <3>3 DEF Prompted
  <2> HIDE DEF new
  <2>4. view'[t] \in [Responses -> Contents] /\ Present(view[t]) \subseteq Present(view'[t])
    BY <2>2 DEF TypeOK, Contents, Present
  <2>5. \A m \in Responses : task[m] = "ended" => view'[t][m] = view[t][m]
    BY <2>2, <2>3
  <2>6. ASSUME NEW u \in Tabs, NEW m \in Responses, task[m] = "ended", Mends(u, m) PROVE Mends(u, m)'
    <3>1. view'[u][m] = view[u][m]
      BY <2>2, <2>5, <2>6
    <3>2. QED
      BY <2>2, <2>6, <3>1 DEF Mends, Coming, Showing, Present
  <2>7. QED
    BY <2>1, <2>2, <2>4, <2>5, <2>6, SavingMended
<1>5. CASE SaveChat(t)
  <2>1. /\ Saving(t, view[t], {}, FALSE) /\ Showing(t)
        /\ UNCHANGED <<row, task, phase, view, events, finishing>>
    BY <1>5 DEF SaveChat, server, shown, Showing
  <2>2. ASSUME NEW u \in Tabs, NEW m \in Responses, Mends(u, m) PROVE Mends(u, m)'
    BY <2>1, <2>2 DEF Mends, Coming, Showing, Present
  <2>3. view'[t] \in [Responses -> Contents] /\ view'[t] = view[t]
    BY <2>1 DEF TypeOK
  <2>4. QED
    BY <2>1, <2>2, <2>3, SavingMended
<1>6. ASSUME NEW n \in Responses, ChatCompleted(t, n) PROVE RowMended' /\ SavesMended'
  <2>1. /\ Saving(t, view[t], {}, TRUE) /\ n \in finishing[t]
        /\ finishing' = [finishing EXCEPT ![t] = @ \ {n}]
        /\ UNCHANGED <<row, task, phase, view, events>>
    BY <1>6 DEF ChatCompleted, server, shown
  <2>2. Showing(t)
    BY <2>1 DEF TabsWell
  <2>3. ASSUME NEW u \in Tabs, NEW m \in Responses, Mends(u, m) PROVE Mends(u, m)' \/ view'[t][m] = "full"
    <3>1. CASE u = t /\ m = n
      BY <2>1, <2>3, <3>1 DEF Mends, Coming, Showing, Present
    <3>2. CASE ~(u = t /\ m = n)
      <4>1. m \in finishing[u] => m \in finishing'[u]
        BY <2>1, <3>2 DEF TypeOK
      <4>2. QED
        BY <2>1, <2>3, <4>1 DEF Mends, Coming, Showing, Present
    <3>3. QED
      BY <3>1, <3>2
  <2>4. view'[t] \in [Responses -> Contents] /\ view'[t] = view[t]
    BY <2>1 DEF TypeOK
  <2>5. QED
    BY <2>1, <2>2, <2>3, <2>4, SavingMended
<1>7. QED
  BY <1>1, <1>2, <1>3, <1>4, <1>5, <1>6

\* An event that takes a mending away gives another: the end of the answer starts /chat/completed,
\* and a piece that follows it in the queue is itself followed by an end.
LEMMA EventMends ==
  ASSUME TypeOK, TabsWell, NEW t \in Tabs, Event(t), NEW m \in Responses, task[m] = "ended", Mends(t, m)
  PROVE  Mends(t, m)'
<1> DEFINE s == events[t]
           r == Tail(s)
           e == Head(events[t])
           v == view[t]
           f == finishing[t]
<1>1. s \in Seq(Notice) /\ s # <<>> /\ events'[t] = r
  BY DEF Event, TypeOK
<1>2. /\ \A k \in DOMAIN r : k + 1 \in DOMAIN s /\ r[k] = s[k + 1] /\ k \in Nat
      /\ \A k \in DOMAIN s : k # 1 => k - 1 \in DOMAIN r /\ r[k - 1] = s[k]
      /\ DOMAIN s \subseteq Nat /\ 1 \in DOMAIN s /\ s[1] = e
  BY <1>1, Headless
<1>3. phase' = phase /\ Showing(t)' /\ Present(view'[t]) = Present(v) /\ m \in Present(v) /\ Showing(t)
  BY EventCases, EventViews DEF Mends, Showing
<1>4. /\ e \in Notice
      /\ \/ e.id \notin Present(v) /\ view'[t] = v /\ finishing'[t] = f
         \/ e.id \in Present(v) /\ e.what = "part" /\ view'[t] = [v EXCEPT ![e.id] = "part"] /\ finishing'[t] = f
         \/ /\ e.id \in Present(v) /\ e.what = "done" /\ view'[t] = [v EXCEPT ![e.id] = "full"]
            /\ finishing'[t] = f \cup {e.id}
         \/ e.what = "cancel" /\ view'[t] = v /\ finishing'[t] = f
  <2>1. /\ view \in [Tabs -> [Responses -> Contents]] /\ finishing \in [Tabs -> SUBSET Responses]
        /\ e \in Notice
    BY EventCases DEF TypeOK
  <2>2. \/ e.id \notin Present(v) /\ view' = view /\ finishing' = finishing
        \/ e.id \in Present(v) /\ e.what = "part" /\ view' = [view EXCEPT ![t][e.id] = "part"] /\ finishing' = finishing
        \/ /\ e.id \in Present(v) /\ e.what = "done" /\ view' = [view EXCEPT ![t][e.id] = "full"]
           /\ finishing' = [finishing EXCEPT ![t] = @ \cup {e.id}]
        \/ e.what = "cancel" /\ view' = view /\ finishing' = finishing
    BY <1>3, EventCases DEF shown
  <2> HIDE DEF e
  <2>3. QED
    BY <2>1, <2>2
<1>5. v \in [Responses -> Contents] /\ e.id \in Responses /\ e = [what |-> e.what, id |-> e.id]
  BY <1>4 DEF TypeOK, Notice
<1>6. \/ \E i \in DOMAIN s : s[i] = [what |-> "done", id |-> m]
      \/ m \in f /\ v[m] = "full" /\ \A i \in DOMAIN s : s[i] # [what |-> "part", id |-> m]
  BY DEF Mends, Coming
<1>7. \A i \in DOMAIN s : s[i] = [what |-> "part", id |-> m] =>
         \E j \in DOMAIN s : i < j /\ s[j] = [what |-> "done", id |-> m]
  BY DEF TabsWell, Told
<1> HIDE DEF s, r, e, v, f
<1>8. \/ \E k \in DOMAIN r : r[k] = [what |-> "done", id |-> m]
      \/ m \in finishing'[t] /\ view'[t][m] = "full" /\ \A k \in DOMAIN r : r[k] # [what |-> "part", id |-> m]
  <2>1. ASSUME NEW k \in DOMAIN r, r[k] = [what |-> "part", id |-> m]
        PROVE  \E j \in DOMAIN r : r[j] = [what |-> "done", id |-> m]
    <3>1. k + 1 \in DOMAIN s /\ s[k + 1] = [what |-> "part", id |-> m] /\ k \in Nat
      BY <1>2, <2>1
    <3>2. PICK j \in DOMAIN s : k + 1 < j /\ s[j] = [what |-> "done", id |-> m]
      BY <1>7, <3>1
    <3>3. j # 1
      BY <1>2, <3>1, <3>2
    <3>4. QED
      BY <1>2, <3>2, <3>3
  <2>2. CASE \E i \in DOMAIN s : i # 1 /\ s[i] = [what |-> "done", id |-> m]
    BY <1>2, <2>2
  <2>3. CASE e = [what |-> "done", id |-> m]
    <3>1. e.what = "done" /\ e.id = m
      BY <2>3
    <3>2. m \in finishing'[t] /\ view'[t] = [v EXCEPT ![m] = "full"]
      BY <1>3, <1>4, <3>1
    <3>3. view'[t][m] = "full"
      BY <1>5, <3>2
    <3>4. QED
      BY <2>1, <3>2, <3>3
  <2>4. CASE m \in f /\ v[m] = "full" /\ \A i \in DOMAIN s : s[i] # [what |-> "part", id |-> m]
    <3>1. ~(e.what = "part" /\ e.id = m)
      BY <1>2, <1>5, <2>4
    <3>2. m \in finishing'[t] /\ view'[t][m] = "full"
      BY <1>4, <1>5, <2>4, <3>1
    <3>3. QED
      BY <2>1, <3>2
  <2>5. QED
    BY <1>2, <1>6, <2>2, <2>3, <2>4
<1>9. QED
  BY <1>1, <1>3, <1>8 DEF Mends, Coming, Present

LEMMA EventMended ==
  ASSUME TypeOK, TabsWell, RowMended, SavesMended, NEW t \in Tabs, Event(t)
  PROVE  RowMended' /\ SavesMended'
<1>1. UNCHANGED <<row, task, saves>> /\ phase' = phase
  BY EventCases DEF Event, server
<1>2. ASSUME NEW u \in Tabs, NEW m \in Responses, task'[m] = "ended", Mends(u, m) PROVE Mends(u, m)'
  <2>1. CASE u = t
    BY <1>1, <1>2, <2>1, EventMends
  <2>2. CASE u # t
    <3>1. phase'[u] \in {"tasks", "open"}
      BY <1>1, <1>2 DEF Mends, Showing
    <3>2. view'[u] = view[u] /\ events'[u] = events[u] /\ finishing'[u] = finishing[u]
      BY <2>2, EventViews
    <3>3. QED
      BY <1>2, <3>1, <3>2, MendsSame
  <2>3. QED
    BY <2>1, <2>2
<1>3. QED
  BY <1>1, <1>2, MendedKept

\* The oldest save under way becomes the row: who mends it mends the row.
LEMMA ServeMended ==
  ASSUME TypeOK, RowMended, SavesMended, ~excused', NEW i \in DOMAIN saves, Serve(i)
  PROVE  RowMended' /\ SavesMended'
<1>1. saves \in Seq(Save) /\ saves' = RemoveAt(saves, 1) /\ 1 \in DOMAIN saves /\ row' = saves[1].copy
  <2>1. saves \in Seq(Save) /\ ~(i > 1)
    BY DEF Serve, TypeOK
  <2>2. i = 1
    BY <2>1
  <2>3. QED
    BY <2>1, <2>2 DEF Serve
<1>2. /\ saves' \in Seq(Save)
      /\ \A k \in DOMAIN saves' : k + 1 \in DOMAIN saves /\ saves'[k] = saves[k + 1] /\ k \in Nat /\ k > 0
      /\ \A k \in DOMAIN saves : k # 1 => k - 1 \in DOMAIN saves' /\ saves'[k - 1] = saves[k]
      /\ DOMAIN saves \subseteq Nat
  <2>1. saves' \in Seq(Save)
    BY <1>1, FirstRemoved
  <2>2. DOMAIN saves' = 1 .. Len(saves') /\ DOMAIN saves = 1 .. Len(saves) /\ Len(saves) \in Nat /\ Len(saves') \in Nat
    BY <1>1, <2>1
  <2>3. QED
    BY <1>1, <2>1, <2>2, FirstRemoved
<1>3. \A m \in Responses : task'[m] = "ended" => task[m] = "ended"
  BY DEF Serve, TypeOK
<1>4. ASSUME NEW u \in Tabs, NEW m \in Responses, Mends(u, m) PROVE Mends(u, m)'
  <2>1. UNCHANGED <<phase, view, events, finishing>>
    BY DEF Serve
  <2>2. phase'[u] \in {"tasks", "open"}
    BY <1>4, <2>1 DEF Mends, Showing
  <2>3. QED
    BY <1>4, <2>1, <2>2, MendsSame
<1>5. ASSUME NEW k \in DOMAIN saves, NEW u \in Tabs, NEW m \in Responses,
             saves[k].tab = u, task'[m] = "ended", saves[k].copy[m] # "full"
      PROVE  (\E j \in DOMAIN saves' : k < j + 1 /\ saves'[j].copy[m] = "full") \/ Mends(u, m)'
  <2>1. CASE \E j \in DOMAIN saves : k < j /\ saves[j].copy[m] = "full"
    <3>1. PICK j \in DOMAIN saves : k < j /\ saves[j].copy[m] = "full"
      BY <2>1
    <3>2. j # 1 /\ k \in Nat /\ j \in Nat
      <4>1. k \in 1 .. Len(saves) /\ j \in 1 .. Len(saves) /\ Len(saves) \in Nat
        BY <1>1, <3>1
      <4>2. QED
        BY <3>1, <4>1
    <3>3. j - 1 \in DOMAIN saves' /\ saves'[j - 1] = saves[j] /\ k < (j - 1) + 1
      BY <1>2, <3>1, <3>2
    <3>4. QED
      BY <3>1, <3>3
  <2>2. CASE Mends(u, m)
    BY <1>4, <2>2
  <2>3. QED
    BY <1>3, <1>5, <2>1, <2>2 DEF SavesMended
<1>6. ASSUME NEW m \in Responses, task'[m] = "ended", row'[m] # "full"
      PROVE  (\E j \in DOMAIN saves' : saves'[j].copy[m] = "full") \/ \E u \in Tabs : Mends(u, m)'
  <2>1. saves[1].tab \in Tabs /\ saves[1].copy[m] # "full"
    BY <1>1, <1>6, SaversTabs
  <2>2. QED
    BY <1>1, <1>5, <1>6, <2>1
<1>7. ASSUME NEW k \in DOMAIN saves', NEW u \in Tabs, NEW m \in Responses,
             saves'[k].tab = u, task'[m] = "ended", saves'[k].copy[m] # "full"
      PROVE  (\E j \in DOMAIN saves' : k < j /\ saves'[j].copy[m] = "full") \/ Mends(u, m)'
  <2>1. k + 1 \in DOMAIN saves /\ saves'[k] = saves[k + 1] /\ k \in Nat
    BY <1>2
  <2>2. (\E j \in DOMAIN saves' : k + 1 < j + 1 /\ saves'[j].copy[m] = "full") \/ Mends(u, m)'
    BY <1>5, <1>7, <2>1
  <2>3. \A j \in DOMAIN saves' : k + 1 < j + 1 => k < j
    BY <1>2, <2>1
  <2>4. QED
    BY <2>2, <2>3
<1>8. RowMended'
  BY <1>6 DEF RowMended
<1>9. SavesMended'
  BY <1>7 DEF SavesMended
<1>10. QED
  BY <1>8, <1>9

\* The end of an answer goes into the row, and is sent to the tabs whose saves lack it.
LEMMA FinishMended ==
  ASSUME TypeOK, Known, SaversThere, RowMended, SavesMended, NEW n \in Responses, Finish(n)
  PROVE  RowMended' /\ SavesMended'
<1>1. /\ UNCHANGED <<phase, view, finishing, saves, linked>> /\ Send("done", n)
      /\ task[n] = "writing" /\ row'[n] = "full" /\ \A m \in Responses \ {n} : row'[m] = row[m] /\ task'[m] = task[m]
  BY DEF Finish, Upsert, Known, TypeOK, shown
<1>2. ASSUME NEW u \in Tabs, NEW m \in Responses, Mends(u, m) PROVE Mends(u, m)'
  BY <1>1, <1>2, SendMends
<1>3. ASSUME NEW m \in Responses, task'[m] = "ended", row'[m] # "full"
      PROVE  (\E j \in DOMAIN saves' : saves'[j].copy[m] = "full") \/ \E u \in Tabs : Mends(u, m)'
  <2>1. m # n /\ task[m] = "ended" /\ row[m] # "full"
    BY <1>1, <1>3
  <2>2. QED
    BY <1>1, <1>2, <2>1 DEF RowMended
<1>4. ASSUME NEW k \in DOMAIN saves', NEW u \in Tabs, NEW m \in Responses,
             saves'[k].tab = u, task'[m] = "ended", saves'[k].copy[m] # "full"
      PROVE  (\E j \in DOMAIN saves' : k < j /\ saves'[j].copy[m] = "full") \/ Mends(u, m)'
  <2>1. CASE m = n
    <3>1. linked[u] /\ Showing(u) /\ Present(saves[k].copy) \subseteq Present(view[u]) /\ phase[u] # "closed"
      BY <1>1, <1>4 DEF SaversThere, Showing
    <3>2. n \in Present(saves[k].copy)
      BY <1>1, <1>4 DEF Known, Present
    <3>3. Coming(u, "done", n)'
      BY <1>1, <3>1, SendMends
    <3>4. QED
      BY <1>1, <2>1, <3>1, <3>2, <3>3 DEF Mends, Showing, Present
  <2>2. CASE m # n
    BY <1>1, <1>2, <1>4, <2>2 DEF SavesMended
  <2>3. QED
    BY <2>1, <2>2
<1>5. RowMended'
  BY <1>3 DEF RowMended
<1>6. SavesMended'
  BY <1>4 DEF SavesMended
<1>7. QED
  BY <1>5, <1>6

LEMMA ServerMended ==
  ASSUME TypeOK, Known, SaversThere, RowMended, SavesMended, ~excused',
         (\E i \in DOMAIN saves : Serve(i))
         \/ \E m \in Responses : Begin(m) \/ Respond(m) \/ Stream(m) \/ Finish(m) \/ Cancel(m)
  PROVE  RowMended' /\ SavesMended'
<1>1. ASSUME NEW n \in Responses, Begin(n) \/ Respond(n) PROVE RowMended' /\ SavesMended'
  <2>1. /\ UNCHANGED <<phase, view, events, finishing, saves>>
        /\ \A m \in Responses : task'[m] = "ended" => task[m] = "ended" /\ row'[m] = row[m]
    BY <1>1 DEF Begin, Respond, Upsert, TypeOK, shown
  <2>2. ASSUME NEW u \in Tabs, NEW m \in Responses, Mends(u, m) PROVE Mends(u, m)'
    <3>1. phase'[u] \in {"tasks", "open"}
      BY <2>1, <2>2 DEF Mends, Showing
    <3>2. QED
      BY <2>1, <2>2, <3>1, MendsSame
  <2>3. QED
    BY <2>1, <2>2, MendedKept
<1>2. ASSUME NEW n \in Responses, NEW what \in {"part", "cancel"}, Send(what, n), Stream(n) \/ Cancel(n),
             what = "part" => task[n] = "writing" /\ UNCHANGED <<row, task>>
      PROVE  RowMended' /\ SavesMended'
  <2>1. /\ UNCHANGED <<phase, view, finishing, saves>>
        /\ \A m \in Responses : task'[m] = "ended" => task[m] = "ended" /\ row'[m] = row[m]
    BY <1>2 DEF Stream, Cancel, Upsert, TypeOK, shown, server
  <2>2. ASSUME NEW u \in Tabs, NEW m \in Responses, task'[m] = "ended", Mends(u, m) PROVE Mends(u, m)'
    <3>1. what = "part" => m # n
      BY <1>2, <2>2
    <3>2. QED
      BY <1>2, <2>1, <2>2, <3>1, SendMends
  <2>3. QED
    BY <2>1, <2>2, MendedKept
<1>3. ASSUME NEW n \in Responses, Stream(n) PROVE RowMended' /\ SavesMended'
  <2>1. Send("part", n) /\ task[n] = "writing" /\ UNCHANGED <<row, task>>
    BY <1>3 DEF Stream, server
  <2>2. QED
    BY <1>2, <1>3, <2>1
<1>4. ASSUME NEW n \in Responses, Cancel(n) PROVE RowMended' /\ SavesMended'
  <2>1. Send("cancel", n)
    BY <1>4 DEF Cancel
  <2>2. QED
    BY <1>2, <1>4, <2>1
<1>5. QED
  BY <1>1, <1>3, <1>4, ServeMended, FinishMended

-----------------------------------------------------------------------------
(* The invariant *)

LEMMA Initially ==
  ASSUME Init
  PROVE  IInv
<1>1. TypeOK
  BY InitTyped
<1>2. /\ \A t \in Tabs : events[t] = <<>> /\ finishing[t] = {} /\ \A m \in Responses : view[t][m] = "absent"
      /\ saves = <<>> /\ \A m \in Responses : row[m] = "absent" /\ task[m] = "none"
  BY DEF Init, Blank
<1>3. TabsWell
  BY <1>2 DEF TabsWell, Told
<1>4. Known
  BY <1>2 DEF Known, Present
<1>5. SaversThere /\ RowMended /\ SavesMended
  BY <1>2 DEF SaversThere, RowMended, SavesMended
<1>6. QED
  BY <1>1, <1>3, <1>4, <1>5 DEF IInv

LEMMA Inductive ==
  ASSUME IInv, [Next]_vars
  PROVE  IInv'
<1>1. TypeOK /\ TabsWell
  BY DEF IInv
<1>2. ASSUME NEW t \in Tabs,
             Open(t) \/ ChatAnswered(t) \/ HistorySet(t) \/ TasksAnswered(t) \/ Close(t) \/ Disconnect(t) \/ Reconnect(t)
             \/ SubmitPrompt(t) \/ SaveChat(t) \/ StopResponse(t) \/ \E m \in Responses : ChatCompleted(t, m)
      PROVE  IInv'
  <2>1. ~excused' => ~excused
    BY <1>2 DEF Open, ChatAnswered, HistorySet, TasksAnswered, Close, Disconnect, Reconnect, SubmitPrompt, SaveChat,
                StopResponse, ChatCompleted, Saving
  <2>2. TypeOK' /\ TabsWell'
    BY <1>1, <1>2, UsersTyped, UsersTabs
  <2>3. ASSUME ~excused' PROVE Known' /\ SaversThere' /\ RowMended' /\ SavesMended'
    <3>1. Known /\ SaversThere /\ RowMended /\ SavesMended
      BY <2>1, <2>3 DEF IInv
    <3>2. QED
      BY <1>1, <1>2, <2>3, <3>1, UsersKnown, UsersSavers, UsersMended
  <2>4. QED
    BY <2>2, <2>3 DEF IInv
<1>3. ASSUME NEW t \in Tabs, Event(t) PROVE IInv'
  <2>1. excused' = excused
    BY <1>3 DEF Event
  <2>2. TypeOK' /\ TabsWell'
    BY <1>1, <1>3, EventTyped, EventTabs
  <2>3. ASSUME ~excused' PROVE Known' /\ SaversThere' /\ RowMended' /\ SavesMended'
    <3>1. Known /\ SaversThere /\ RowMended /\ SavesMended
      BY <2>1, <2>3 DEF IInv
    <3>2. QED
      BY <1>1, <1>3, <2>3, <3>1, EventKnown, OthersSavers, EventMended
  <2>4. QED
    BY <2>2, <2>3 DEF IInv
<1>4. ASSUME (\E i \in DOMAIN saves : Serve(i))
             \/ \E m \in Responses : Begin(m) \/ Respond(m) \/ Stream(m) \/ Finish(m) \/ Cancel(m)
      PROVE  IInv'
  <2>1. ~excused' => ~excused
    BY <1>4 DEF Serve, Begin, Respond, Stream, Finish, Cancel
  <2>2. TypeOK' /\ TabsWell'
    BY <1>1, <1>4, ServerTyped, ServerTabs
  <2>3. ASSUME ~excused' PROVE Known' /\ SaversThere' /\ RowMended' /\ SavesMended'
    <3>1. Known /\ SaversThere /\ RowMended /\ SavesMended
      BY <2>1, <2>3 DEF IInv
    <3>2. QED
      BY <1>1, <1>4, <2>3, <3>1, ServerKnown, OthersSavers, ServerMended
  <2>4. QED
    BY <2>2, <2>3 DEF IInv
<1>5. CASE UNCHANGED vars
  <2>1. UNCHANGED <<row, task, asker, phase, view, done, taskIds, events, linked, finishing, saves, round, saved,
                    opened, excused>>
    BY <1>5 DEF vars, server, shown
  <2>2. TypeOK'
    BY <1>1, <2>1 DEF TypeOK
  <2>3. TabsWell'
    BY <1>1, <2>1 DEF TabsWell, Told, Showing
  <2>4. Known => Known'
    BY <2>1 DEF Known, Present, Prompted
  <2>5. SaversThere => SaversThere'
    BY <2>1 DEF SaversThere, Showing, Present
  <2>6. \A t \in Tabs : \A m \in Responses : Mends(t, m) => Mends(t, m)'
    BY <2>1, MendsSame DEF Mends, Showing
  <2>7. RowMended /\ SavesMended => RowMended' /\ SavesMended'
    BY <1>1, <2>1, <2>6, MendedKept
  <2>8. QED
    BY <2>1, <2>2, <2>3, <2>4, <2>5, <2>7 DEF IInv
<1>6. QED
  BY <1>2, <1>3, <1>4, <1>5 DEF Next

THEOREM SessionInvariant == Spec => []IInv
<1>1. Init => IInv
  BY Initially
<1>2. IInv /\ [Next]_vars => IInv'
  BY Inductive
<1>3. QED
  BY <1>1, <1>2, PTL DEF Spec

\* Every variable keeps its type: an answer in the row, a tab or a save has one of the five
\* contents, and the counters stay within their bounds.
THEOREM SessionTypeCorrect == Spec => []TypeOK
<1>1. IInv => TypeOK
  BY DEF IInv
<1>2. QED
  BY <1>1, SessionInvariant, PTL

\* No answer is stored outside the tree, whatever the tabs and the number of prompts, unless a
\* save was overtaken or made by a tab that did not know of a prompt or had missed an end.
THEOREM NoStubsEver == Spec => []NoStubs
<1>1. IInv => NoStubs
  BY DEF IInv, Known, NoStubs
<1>2. QED
  BY <1>1, SessionInvariant, PTL

\* Once every save and event has arrived, every answer that ended is whole in the stored chat,
\* with the same exceptions: the save that follows /chat/completed mends what saves of half an
\* answer undid.
THEOREM AnswersAlwaysKept == Spec => []AnswerKept
<1>1. IInv => AnswerKept
  <2> SUFFICES ASSUME IInv, AtRest, ~excused, NEW m \in Responses, task[m] = "ended", row[m] # "full"
               PROVE  FALSE
    BY DEF AnswerKept
  <2>1. \E t \in Tabs : Mends(t, m)
    BY DEF IInv, RowMended, AtRest
  <2>2. QED
    BY <2>1 DEF Mends, Coming, AtRest
<1>2. QED
  BY <1>1, SessionInvariant, PTL
=============================================================================
