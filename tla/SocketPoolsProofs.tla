------------------------- MODULE SocketPoolsProofs -------------------------
(***************************************************************************)
(* Proofs about the pools: TypeOK, PoolExact and QuitsComplete hold for    *)
(* any number of instances, sessions and users, with instances killed at   *)
(* any time.                                                               *)
(*                                                                         *)
(* PoolExact speaks of users nobody handles, so it is not inductive: a     *)
(* handler that has read the list and not yet written it must be known to  *)
(* hold the right one.  Phase says, for each line of the two handlers, how *)
(* the list differs from the user's sessions there.                        *)
(*                                                                         *)
(* At the end, the lock whose holder is the cleaner of the pools: its      *)
(* safety for any number of processes and any expiry time above            *)
(* Period + MaxLag.                                                        *)
(***************************************************************************)
EXTENDS SocketPools, CleanupLock, TLAPS

\* What is true of u while i is in the middle of a handler for it.
Phase(i, u) ==
  LET s == op[i].sid IN
  /\ op[i].at \in Joining =>
       /\ s \in sessions
       /\ (pool[u] \cup {s}) \ lost = Present(u) \ lost
  /\ op[i].at \in {"join", "joinGet"} => op[i].read = {}
  /\ op[i].at = "joinGet" => u \in listed
  /\ op[i].at \in {"joinPut", "quitPut"} => op[i].read = pool[u]
  /\ op[i].at \in Quitting => s \notin sessions /\ u \in listed
  /\ op[i].at \in {"quit", "quitPut"} => (pool[u] \ {s}) \ lost = Present(u) \ lost
  /\ op[i].at \in {"quitCount", "quitDelete"} => pool[u] \ lost = Present(u) \ lost
  /\ op[i].at = "quitDelete" => pool[u] = {}

Exact(u) ==
  /\ pool[u] \ lost = Present(u) \ lost
  /\ u \in listed /\ pool[u] = {} => \E s \in lost : Owner[s] = u

UserInv(u) ==
  /\ \A i, j \in Instance : u \in Handled(i) /\ u \in Handled(j) => i = j
  /\ Settled(u) => Exact(u)
  /\ \A i \in Instance : u \in Handled(i) => Phase(i, u)

\* A connected socket is in SESSION_POOL, and its instance lives.
LinkInv ==
  \A s \in Sid : link[s] = "up" => s \in sessions /\ s \notin lost

\* A handler for a session runs where the session is served.
OpInv ==
  \A i \in Instance : op[i].at \in Joining \cup Quitting \cup Using =>
    op[i].sid \in Sid /\ Home[op[i].sid] = i /\ link[op[i].sid] # "new"

ListInv == \A u \in User : u \notin listed => pool[u] = {}

IInv ==
  /\ TypeOK
  /\ LinkInv
  /\ OpInv
  /\ ListInv
  /\ \A u \in User \ raced : UserInv(u)
  /\ QuitsComplete

-----------------------------------------------------------------------------
(* Types *)

\* What an instance's handler record may be.
OpType == [at : Label, sid : Sid \cup {None}, read : SUBSET Sid, usage : Usage]

LEMMA AgingTyped ==
  ASSUME NEW e \in Usage, NEW s \in Sid
  PROVE  Old(e, s) \in Usage
BY DEF Old, Usage

\* Time passes in the entry and in every copy of it.
LEMMA AgeTyped ==
  ASSUME TypeOK, NEW s \in Sid, Age(s)
  PROVE  TypeOK' /\ \A i \in Instance : op'[i] = [op[i] EXCEPT !.usage = Old(@, s)]
<1>1. \A i \in Instance : op[i] \in OpType
  BY DEF TypeOK, OpType
<1>2. \A i \in Instance : op'[i] = [op[i] EXCEPT !.usage = Old(@, s)]
  BY DEF Age
<1>3. \A i \in Instance : op'[i] \in OpType
  <2>1. TAKE i \in Instance
  <2>2. op[i].usage \in Usage
    BY <1>1 DEF OpType
  <2>3. Old(op[i].usage, s) \in Usage
    BY <2>2, AgingTyped
  <2>4. op'[i] = [op[i] EXCEPT !.usage = Old(op[i].usage, s)]
    BY <1>1, <1>2 DEF OpType
  <2>5. QED
    BY <1>1, <2>3, <2>4 DEF OpType
<1>4. op' \in [Instance -> OpType]
  BY <1>3 DEF Age
<1>5. usage' \in Usage
  BY AgingTyped DEF Age, TypeOK
<1>6. QED
  BY <1>2, <1>4, <1>5 DEF Age, TypeOK, OpType, userVars, history

LEMMA BeginTyped ==
  ASSUME TypeOK, ConstantsAssumption, NEW s \in Sid, NEW l \in Label, Begin(s, l)
  PROVE  op' \in [Instance -> OpType]
<1>1. Home[s] \in Instance /\ op \in [Instance -> OpType]
  BY DEF ConstantsAssumption, TypeOK, OpType
<1>2. op' = [op EXCEPT ![Home[s]] = [op[Home[s]] EXCEPT !.at = l, !.sid = s]]
  BY <1>1 DEF Begin
<1>3. op[Home[s]] \in OpType
  BY <1>1
<1>4. \A o \in OpType : [o EXCEPT !.at = l, !.sid = s] \in OpType
  BY DEF OpType
<1>5. QED
  BY <1>1, <1>2, <1>3, <1>4

LEMMA GotoTyped ==
  ASSUME TypeOK, NEW i \in Instance, NEW l \in Label, Goto(i, l)
  PROVE  op' \in [Instance -> OpType]
BY DEF Goto, TypeOK, OpType

LEMMA EndTyped ==
  ASSUME TypeOK, NEW i \in Instance, End(i)
  PROVE  op' \in [Instance -> OpType]
<1>1. Idle \in OpType
  BY DEF Idle, OpType, Label, Usage, Absent
<1>2. QED
  BY <1>1 DEF End, TypeOK, OpType

LEMMA InitTyped ==
  ASSUME ConstantsAssumption, Init
  PROVE  TypeOK
BY DEF Init, TypeOK, Idle, Absent, Usage, Label

LEMMA StepTyped ==
  ASSUME TypeOK, ConstantsAssumption, NEW i \in Instance, Step(i), op[i].sid \in Sid
  PROVE  TypeOK'
<1> DEFINE v == Owner[op[i].sid]
<1>1. v \in User /\ op[i] \in OpType
  BY DEF ConstantsAssumption, TypeOK, OpType
<1>2. \A l \in Label : Goto(i, l) => op' \in [Instance -> OpType]
  BY GotoTyped
<1>3. End(i) => op' \in [Instance -> OpType]
  BY EndTyped
<1>4. Joining \subseteq Label /\ Quitting \subseteq Label /\ Using \subseteq Label
  BY DEF Label
<1>5. CASE JoinCheck(i)
  BY <1>2, <1>5 DEF JoinCheck, TypeOK, OpType, Label, Joining, userVars, history
<1>6. CASE JoinGet(i)
  <2>1. op' \in [Instance -> OpType] /\ failed' \subseteq Sid
    <3>1. CASE v \in listed
      <4>1. pool[v] \in SUBSET Sid
        BY <1>1 DEF TypeOK
      <4>2. op' = [op EXCEPT ![i] = [op[i] EXCEPT !.at = "joinPut", !.read = pool[v]]]
        BY <1>6, <3>1 DEF JoinGet, TypeOK
      <4>3. [op[i] EXCEPT !.at = "joinPut", !.read = pool[v]] \in OpType
        BY <1>1, <4>1 DEF OpType, Label, Joining
      <4>4. QED
        BY <1>6, <3>1, <4>2, <4>3 DEF JoinGet, TypeOK, OpType
    <3>2. CASE v \notin listed
      BY <1>3, <1>6, <3>2 DEF JoinGet, Fail, TypeOK
    <3>3. QED
      BY <3>1, <3>2
  <2>2. QED
    BY <1>6, <2>1 DEF JoinGet, TypeOK, OpType, userVars
<1>7. CASE JoinPut(i)
  <2>1. pool' \in [User -> SUBSET Sid] /\ listed' \subseteq User
    BY <1>1, <1>7 DEF JoinPut, TypeOK, OpType
  <2>2. QED
    BY <1>3, <1>7, <2>1 DEF JoinPut, TypeOK, OpType, history
<1>8. CASE QuitGet(i)
  <2>1. op' \in [Instance -> OpType] /\ failed' \subseteq Sid
    <3>1. CASE v \in listed
      <4>1. pool[v] \in SUBSET Sid
        BY <1>1 DEF TypeOK
      <4>2. op' = [op EXCEPT ![i] = [op[i] EXCEPT !.at = "quitPut", !.read = pool[v]]]
        BY <1>8, <3>1 DEF QuitGet, TypeOK
      <4>3. [op[i] EXCEPT !.at = "quitPut", !.read = pool[v]] \in OpType
        BY <1>1, <4>1 DEF OpType, Label, Quitting
      <4>4. QED
        BY <1>8, <3>1, <4>2, <4>3 DEF QuitGet, TypeOK, OpType
    <3>2. CASE v \notin listed
      BY <1>3, <1>8, <3>2 DEF QuitGet, Fail, TypeOK
    <3>3. QED
      BY <3>1, <3>2
  <2>2. QED
    BY <1>8, <2>1 DEF QuitGet, TypeOK, OpType, userVars
<1>9. CASE QuitPut(i)
  <2>1. pool' \in [User -> SUBSET Sid] /\ listed' \subseteq User
    BY <1>1, <1>9 DEF QuitPut, TypeOK, OpType
  <2>2. op' \in [Instance -> OpType]
    BY <1>2, <1>9 DEF QuitPut, Label, Quitting
  <2>3. QED
    BY <1>9, <2>1, <2>2 DEF QuitPut, TypeOK, OpType, history
<1>10. CASE QuitCount(i)
  <2>1. op' \in [Instance -> OpType] /\ failed' \subseteq Sid
    BY <1>2, <1>3, <1>10 DEF QuitCount, Fail, TypeOK, Label, Quitting
  <2>2. QED
    BY <1>10, <2>1 DEF QuitCount, TypeOK, OpType, userVars
<1>11. CASE QuitDelete(i)
  <2>1. pool' \in [User -> SUBSET Sid] /\ listed' \subseteq User
    BY <1>1, <1>11 DEF QuitDelete, TypeOK
  <2>2. op' \in [Instance -> OpType] /\ failed' \subseteq Sid
    BY <1>3, <1>11 DEF QuitDelete, Fail, TypeOK
  <2>3. QED
    BY <1>11, <2>1, <2>2 DEF QuitDelete, TypeOK, OpType
<1>12. CASE UseCheck(i)
  <2>1. op' \in [Instance -> OpType]
    BY <1>2, <1>12 DEF UseCheck, Label, Using
  <2>2. QED
    BY <1>12, <2>1 DEF UseCheck, TypeOK, OpType, userVars, history
<1>13. CASE UseGet(i)
  <2>1. op' \in [Instance -> OpType]
    <3>1. CASE usage.key
      <4>1. op' = [op EXCEPT ![i] = [op[i] EXCEPT !.at = "usePut", !.usage = usage]]
        BY <1>13, <3>1 DEF UseGet, TypeOK
      <4>2. [op[i] EXCEPT !.at = "usePut", !.usage = usage] \in OpType
        BY <1>1 DEF OpType, Label, Using, TypeOK
      <4>3. QED
        BY <4>1, <4>2 DEF TypeOK, OpType
    <3>2. CASE ~usage.key
      BY <1>3, <1>13, <3>2 DEF UseGet
    <3>3. QED
      BY <3>1, <3>2
  <2>2. QED
    BY <1>13, <2>1 DEF UseGet, TypeOK, OpType, userVars, history
<1>14. CASE UsePut(i)
  <2>1. With(op[i].usage, op[i].sid) \in Usage
    BY <1>1 DEF With, Usage, OpType
  <2>2. QED
    BY <1>3, <1>14, <2>1 DEF UsePut, TypeOK, OpType, userVars, history, With
<1>15. QED
  BY <1>5, <1>6, <1>7, <1>8, <1>9, <1>10, <1>11, <1>12, <1>13, <1>14 DEF Step

LEMMA KillTyped ==
  ASSUME TypeOK, NEW i \in Instance, Crash(i)
  PROVE  TypeOK'
<1>1. op' \in [Instance -> OpType]
  BY EndTyped DEF Crash
<1>2. QED
  BY <1>1 DEF Crash, TypeOK, OpType, userVars

LEMMA CleanTyped ==
  ASSUME TypeOK, ConstantsAssumption, CleanGet \/ CleanPut
  PROVE  TypeOK'
<1>1. Cleaner \in Instance /\ op[Cleaner] \in OpType
  BY DEF ConstantsAssumption, TypeOK, OpType
<1>2. CASE CleanGet
  <2> DEFINE copy == [usage EXCEPT !.sids = usage.fresh]
  <2>1. copy \in Usage
    BY DEF TypeOK, Usage
  <2>2. op' = [op EXCEPT ![Cleaner] = [op[Cleaner] EXCEPT !.at = "clean", !.usage = copy]]
    BY <1>2 DEF CleanGet
  <2>3. [op[Cleaner] EXCEPT !.at = "clean", !.usage = copy] \in OpType
    BY <1>1, <2>1 DEF OpType, Label
  <2>4. op' \in [Instance -> OpType]
    BY <2>2, <2>3 DEF TypeOK, OpType
  <2>5. QED
    BY <1>2, <2>4 DEF CleanGet, TypeOK, OpType, userVars, history
<1>3. CASE CleanPut
  <2>1. op' \in [Instance -> OpType]
    BY <1>1, <1>3, EndTyped DEF CleanPut
  <2>2. Absent \in Usage
    BY DEF Absent, Usage
  <2>3. usage' \in Usage
    BY <1>1, <1>3, <2>2 DEF CleanPut, OpType
  <2>4. QED
    BY <1>3, <2>1, <2>3 DEF CleanPut, TypeOK, OpType, userVars, history
<1>4. QED
  BY <1>2, <1>3

LEMMA StartTyped ==
  ASSUME TypeOK, ConstantsAssumption, NEW s \in Sid, Join(s) \/ Quit(s) \/ Use(s)
  PROVE  TypeOK'
<1>1. Owner[s] \in User
  BY DEF ConstantsAssumption
<1>2. \A l \in Label : Begin(s, l) => op' \in [Instance -> OpType]
  BY BeginTyped
<1>3. CASE Join(s)
  <2>1. op' \in [Instance -> OpType]
    BY <1>2, <1>3 DEF Join, Label, Joining
  <2>2. QED
    BY <1>1, <1>3, <2>1 DEF Join, Race, TypeOK, OpType
<1>4. CASE Quit(s)
  <2>1. op' \in [Instance -> OpType]
    BY <1>2, <1>4 DEF Quit, Label, Quitting
  <2>2. QED
    BY <1>1, <1>4, <2>1 DEF Quit, Race, TypeOK, OpType
<1>5. CASE Use(s)
  <2>1. op' \in [Instance -> OpType]
    BY <1>2, <1>5 DEF Use, Label, Using
  <2>2. QED
    BY <1>5, <2>1 DEF Use, TypeOK, OpType, userVars, history
<1>6. QED
  BY <1>3, <1>4, <1>5

LEMMA StutterKeeps ==
  ASSUME IInv, UNCHANGED vars
  PROVE  IInv'
BY DEF IInv, vars, userVars, history, TypeOK, LinkInv, OpInv, ListInv, UserInv, Phase, Exact,
       Present, Settled, Handled, QuitsComplete

LEMMA TypeStep ==
  ASSUME TypeOK, OpInv, ConstantsAssumption, Next
  PROVE  TypeOK'
<1>1. ASSUME NEW i \in Instance, Step(i) PROVE TypeOK'
  <2>1. op[i].sid \in Sid
    BY <1>1 DEF Step, OpInv, JoinCheck, JoinGet, JoinPut, QuitGet, QuitPut, QuitCount, QuitDelete,
                UseCheck, UseGet, UsePut, At, Joining, Quitting, Using
  <2>2. QED
    BY <1>1, <2>1, StepTyped
<1>2. ASSUME NEW s \in Sid, Age(s) PROVE TypeOK'
  BY <1>2, AgeTyped
<1>3. ASSUME NEW s \in Sid, Join(s) \/ Quit(s) \/ Use(s) PROVE TypeOK'
  BY <1>3, StartTyped
<1>4. ASSUME NEW i \in Instance, Crash(i) PROVE TypeOK'
  BY <1>4, KillTyped
<1>5. QED
  BY <1>1, <1>2, <1>3, <1>4, CleanTyped DEF Next

-----------------------------------------------------------------------------
(* Sessions, handlers and keys *)

\* No step but a join brings a session up, and none but a disconnect or a kill
\* takes it away.
LEMMA LinkStep ==
  ASSUME TypeOK, LinkInv, OpInv, ConstantsAssumption, Next
  PROVE  LinkInv'
<1>1. ASSUME NEW i \in Instance, Step(i) \/ CleanGet \/ CleanPut PROVE LinkInv'
  BY <1>1 DEF LinkInv, Step, JoinCheck, JoinGet, JoinPut, QuitGet, QuitPut, QuitCount, QuitDelete,
                UseCheck, UseGet, UsePut, CleanGet, CleanPut, userVars, history
<1>2. ASSUME NEW s \in Sid, Join(s) PROVE LinkInv'
  BY <1>2 DEF LinkInv, Join, TypeOK
<1>3. ASSUME NEW s \in Sid, Quit(s) PROVE LinkInv'
  BY <1>3 DEF LinkInv, Quit, TypeOK
<1>4. ASSUME NEW s \in Sid, Use(s) \/ Age(s) PROVE LinkInv'
  BY <1>4 DEF LinkInv, Use, Age, userVars, history
<1>5. ASSUME NEW i \in Instance, Crash(i) PROVE LinkInv'
  BY <1>5 DEF LinkInv, Crash, userVars, TypeOK
<1>6. QED
  BY <1>1, <1>2, <1>3, <1>4, <1>5 DEF Next, ConstantsAssumption

\* A step of one instance leaves the handlers of the others alone.
LEMMA StepLocal ==
  ASSUME TypeOK, NEW i \in Instance, Step(i)
  PROVE  /\ \A j \in Instance \ {i} : op'[j] = op[j]
         /\ link' = link /\ sessions' = sessions /\ lost' = lost /\ raced' = raced
         /\ op'[i] = Idle \/ /\ op[i].at \in Joining => op'[i].at \in Joining
                             /\ op[i].at \in Quitting => op'[i].at \in Quitting
                             /\ op[i].at \in Using => op'[i].at \in Using
                             /\ op'[i].sid = op[i].sid
         /\ op[i].at \in Joining \cup Quitting \cup Using
BY DEF TypeOK, Step, JoinCheck, JoinGet, JoinPut, QuitGet, QuitPut, QuitCount, QuitDelete,
       UseCheck, UseGet, UsePut, userVars, history, At, Goto, End, Fail, Joining, Quitting, Using

LEMMA StartLocal ==
  ASSUME TypeOK, ConstantsAssumption, NEW s \in Sid, NEW l \in Label, Begin(s, l)
  PROVE  /\ Home[s] \in Instance
         /\ \A j \in Instance \ {Home[s]} : op'[j] = op[j]
         /\ op[Home[s]] = Idle
         /\ op'[Home[s]].at = l /\ op'[Home[s]].sid = s /\ op'[Home[s]].read = {}
BY DEF TypeOK, ConstantsAssumption, Begin, Idle

\* A killed instance only forgets its own handler; the cleaner's handler is no
\* session's.
LEMMA KillLocal ==
  ASSUME TypeOK, NEW i \in Instance, Crash(i)
  PROVE  /\ op'[i] = Idle /\ \A j \in Instance \ {i} : op'[j] = op[j]
         /\ sessions' = sessions /\ listed' = listed /\ pool' = pool /\ raced' = raced
         /\ lost \subseteq lost' /\ \A s \in lost' \ lost : Home[s] = i
         /\ \A s \in Sid : Home[s] = i /\ link[s] # "new" => s \in lost'
BY DEF TypeOK, Crash, End, userVars

LEMMA QuietLocal ==
  ASSUME TypeOK, ConstantsAssumption, CleanGet \/ CleanPut \/ \E s \in Sid : Age(s)
  PROVE  /\ \A i \in Instance : \/ op'[i].at = op[i].at /\ op'[i].sid = op[i].sid /\ op'[i].read = op[i].read
                                \/ /\ op[i].at \notin Joining \cup Quitting \cup Using
                                   /\ op'[i].at \notin Joining \cup Quitting \cup Using
         /\ link' = link /\ sessions' = sessions /\ listed' = listed /\ pool' = pool
         /\ lost' = lost /\ raced' = raced /\ failed' = failed
<1>1. CASE CleanGet \/ CleanPut
  BY <1>1 DEF TypeOK, ConstantsAssumption, CleanGet, CleanPut, At, End, Idle, Joining, Quitting, Using, userVars, history
<1>2. ASSUME NEW s \in Sid, Age(s)
      PROVE  /\ \A i \in Instance : op'[i].at = op[i].at /\ op'[i].sid = op[i].sid /\ op'[i].read = op[i].read
             /\ UNCHANGED <<link, userVars, history>>
  <2>1. \A i \in Instance : op'[i] = [op[i] EXCEPT !.usage = Old(op[i].usage, s)]
    BY <1>2 DEF Age, TypeOK
  <2>2. \A i \in Instance : op[i] \in OpType
    BY DEF TypeOK, OpType
  <2>3. QED
    BY <1>2, <2>1, <2>2 DEF Age, OpType
<1>3. QED
  BY <1>1, <1>2 DEF userVars, history

LEMMA OpStep ==
  ASSUME TypeOK, LinkInv, OpInv, ConstantsAssumption, Next
  PROVE  OpInv'
<1>1. \A l \in {"join", "quit", "useCheck"} : l \in Label
  BY DEF Label, Joining, Quitting, Using
<1>2. ASSUME NEW i \in Instance, Step(i) PROVE OpInv'
  BY <1>2, StepLocal DEF OpInv, Idle, Joining, Quitting, Using
<1>3. ASSUME NEW s \in Sid, Join(s) PROVE OpInv'
  BY <1>1, <1>3, StartLocal DEF OpInv, Join, TypeOK
<1>4. ASSUME NEW s \in Sid, Quit(s) PROVE OpInv'
  BY <1>1, <1>4, StartLocal DEF OpInv, Quit, TypeOK
<1>5. ASSUME NEW s \in Sid, Use(s) PROVE OpInv'
  BY <1>1, <1>5, StartLocal DEF OpInv, Use
<1>6. ASSUME NEW i \in Instance, Crash(i) PROVE OpInv'
  <2>1. \A s \in Sid : link[s] # "new" => link'[s] # "new"
    BY <1>6 DEF Crash, TypeOK
  <2>2. QED
    BY <1>6, <2>1, KillLocal DEF OpInv, Idle, Joining, Quitting, Using
<1>7. ASSUME CleanGet \/ CleanPut \/ \E s \in Sid : Age(s) PROVE OpInv'
  BY <1>7, QuietLocal DEF OpInv
<1>8. QED
  BY <1>2, <1>3, <1>4, <1>5, <1>6, <1>7 DEF Next

\* A user without a key has no list.
LEMMA ListStep ==
  ASSUME TypeOK, ListInv, OpInv, ConstantsAssumption, Next
  PROVE  ListInv'
<1>1. ASSUME NEW i \in Instance, Step(i) PROVE ListInv'
  BY <1>1 DEF TypeOK, ListInv, Step, JoinCheck, JoinGet, JoinPut, QuitGet, QuitPut, QuitCount, QuitDelete,
              UseCheck, UseGet, UsePut, userVars
<1>2. ASSUME NEW s \in Sid, Join(s) \/ Quit(s) \/ Use(s) PROVE ListInv'
  BY <1>2 DEF ListInv, Join, Quit, Use, userVars
<1>3. ASSUME NEW i \in Instance, Crash(i) PROVE ListInv'
  BY <1>3, KillLocal DEF ListInv
<1>4. ASSUME CleanGet \/ CleanPut \/ \E s \in Sid : Age(s) PROVE ListInv'
  BY <1>4, QuietLocal DEF ListInv
<1>5. QED
  BY <1>1, <1>2, <1>3, <1>4 DEF Next

-----------------------------------------------------------------------------
(* One user's list *)

\* What happens on one instance for somebody else does not concern u.
LEMMA OtherUser ==
  ASSUME NEW u \in User, UserInv(u), NEW k \in Instance,
         \A j \in Instance \ {k} : op'[j] = op[j],
         u \notin Handled(k), u \notin Handled(k)',
         pool'[u] = pool[u], u \in listed' <=> u \in listed,
         Present(u)' = Present(u), lost' = lost
  PROVE  UserInv(u)'
<1>1. \A j \in Instance : u \in Handled(j)' <=> u \in Handled(j)
  BY DEF Handled
<1>2. \A j \in Instance : u \in Handled(j) => op'[j] = op[j] /\ Owner[op[j].sid] = u
  BY DEF Handled
<1>3. \A s : Owner[s] = u => (s \in sessions' <=> s \in sessions)
  BY DEF Present
<1>4. Settled(u)' => Exact(u)'
  BY <1>1 DEF UserInv, Settled, Exact
<1>5. ASSUME NEW j \in Instance, u \in Handled(j)' PROVE Phase(j, u)'
  <2>1. Phase(j, u) /\ op'[j] = op[j] /\ Owner[op[j].sid] = u
    BY <1>1, <1>2, <1>5 DEF UserInv
  <2>2. QED
    BY <1>3, <2>1 DEF Phase
<1>6. QED
  BY <1>1, <1>4, <1>5 DEF UserInv

\* Where u is handled by one instance alone, that one decides.
LEMMA OneUser ==
  ASSUME NEW u \in User, NEW k \in Instance,
         \A j \in Instance \ {k} : u \notin Handled(j) /\ op'[j] = op[j],
         u \notin Handled(k)' => Exact(u)',
         u \in Handled(k)' => Phase(k, u)'
  PROVE  UserInv(u)'
<1>1. \A j \in Instance \ {k} : u \notin Handled(j)'
  BY DEF Handled
<1>2. QED
  BY <1>1 DEF UserInv, Settled

\* A handler's next line, while it has the user to itself.
LEMMA StepUser ==
  ASSUME TypeOK, OpInv, ListInv, ConstantsAssumption,
         NEW u \in User, UserInv(u), NEW i \in Instance, Step(i)
  PROVE  UserInv(u)' /\ (u \in Handled(i) => failed' = failed)
<1>1. /\ \A j \in Instance \ {i} : op'[j] = op[j]
      /\ link' = link /\ sessions' = sessions /\ lost' = lost /\ Present(u)' = Present(u)
  BY StepLocal DEF Present
<1>2. CASE u \notin Handled(i)
  <2>1. u \notin Handled(i)'
    <3>1. CASE op[i].at \in Using
      BY <3>1, StepLocal DEF Handled, Idle, Joining, Quitting, Using
    <3>2. CASE op[i].at \in Joining \cup Quitting
      <4>1. Owner[op[i].sid] # u
        BY <1>2, <3>2 DEF Handled
      <4>2. op'[i] = Idle \/ op'[i].sid = op[i].sid
        BY StepLocal
      <4>3. QED
        BY <4>1, <4>2 DEF Handled, Idle, Joining, Quitting
    <3>3. QED
      BY <3>1, <3>2, StepLocal
  <2>2. pool'[u] = pool[u] /\ (u \in listed' <=> u \in listed)
    BY <1>2 DEF Handled, TypeOK, Step, JoinCheck, JoinGet, JoinPut, QuitGet, QuitPut, QuitCount, QuitDelete,
                UseCheck, UseGet, UsePut, userVars, At, Joining, Quitting, Using
  <2>3. QED
    BY <1>1, <1>2, <2>1, <2>2, OtherUser
<1>3. CASE u \in Handled(i)
  <2> DEFINE s == op[i].sid
  <2>1. /\ s \in Sid /\ Owner[s] = u /\ op[i].at \in Joining \cup Quitting
        /\ Phase(i, u)
        /\ \A j \in Instance \ {i} : u \notin Handled(j)
    BY <1>3 DEF Handled, OpInv, UserInv
  <2>2. op[i] \in OpType /\ i \in DOMAIN op
    BY DEF TypeOK, OpType
  <2>3. u \notin Handled(i)' <=> op'[i].at \notin Joining \cup Quitting
    BY <2>1, StepLocal DEF Handled, Idle, Joining, Quitting
  <2>4. CASE JoinCheck(i)
    <3>1. /\ op[i].at = "join" /\ op'[i].sid = s /\ op'[i].read = {}
          /\ op'[i].at = IF u \in listed THEN "joinGet" ELSE "joinPut"
      BY <2>1, <2>2, <2>4 DEF JoinCheck, At, Goto, Phase, OpType
    <3>2. u \notin listed => pool[u] = {}
      BY DEF ListInv
    <3>3. Phase(i, u)'
      BY <1>1, <2>1, <2>4, <3>1, <3>2 DEF JoinCheck, Phase, userVars, Joining, Quitting
    <3>4. QED
      BY <1>1, <2>1, <2>3, <2>4, <3>1, <3>3, OneUser DEF JoinCheck, Joining, history
  <2>5. CASE JoinGet(i)
    <3>1. /\ op[i].at = "joinGet" /\ u \in listed /\ failed' = failed
          /\ op'[i].sid = s /\ op'[i].read = pool[u] /\ op'[i].at = "joinPut"
      <4>1. op[i].at = "joinGet" /\ u \in listed
        BY <2>1, <2>5 DEF JoinGet, At, Phase, Quitting
      <4>2. op' = [op EXCEPT ![i] = [op[i] EXCEPT !.at = "joinPut", !.read = pool[u]]] /\ failed' = failed
        BY <2>1, <2>5, <4>1 DEF JoinGet
      <4>3. op'[i] = [op[i] EXCEPT !.at = "joinPut", !.read = pool[u]]
        BY <2>2, <4>2
      <4>4. QED
        BY <2>2, <4>1, <4>2, <4>3 DEF OpType
    <3>2. Phase(i, u)'
      BY <1>1, <2>1, <2>5, <3>1 DEF JoinGet, Phase, userVars, Joining, Quitting
    <3>3. QED
      BY <1>1, <2>1, <2>3, <3>1, <3>2, OneUser DEF Joining
  <2>6. CASE JoinPut(i)
    <3>1. /\ op[i].at = "joinPut" /\ op[i].read = pool[u] /\ op'[i] = Idle
          /\ (pool[u] \cup {s}) \ lost = Present(u) \ lost
      BY <2>1, <2>2, <2>6 DEF JoinPut, At, Phase, End, Joining
    <3>2. pool'[u] = pool[u] \cup {s}
      BY <2>1, <2>6, <3>1 DEF JoinPut, TypeOK
    <3>3. Exact(u)'
      BY <1>1, <3>1, <3>2 DEF Exact
    <3>4. QED
      BY <1>1, <2>1, <2>3, <2>6, <3>1, <3>3, OneUser DEF JoinPut, Idle, Joining, Quitting, history
  <2>7. CASE QuitGet(i)
    <3>1. /\ op[i].at = "quit" /\ u \in listed /\ failed' = failed
          /\ op'[i].sid = s /\ op'[i].read = pool[u] /\ op'[i].at = "quitPut"
      <4>1. op[i].at = "quit" /\ u \in listed
        BY <2>1, <2>7 DEF QuitGet, At, Phase, Quitting
      <4>2. op' = [op EXCEPT ![i] = [op[i] EXCEPT !.at = "quitPut", !.read = pool[u]]] /\ failed' = failed
        BY <2>1, <2>7, <4>1 DEF QuitGet
      <4>3. op'[i] = [op[i] EXCEPT !.at = "quitPut", !.read = pool[u]]
        BY <2>2, <4>2
      <4>4. QED
        BY <2>2, <4>1, <4>2, <4>3 DEF OpType
    <3>2. Phase(i, u)'
      BY <1>1, <2>1, <2>7, <3>1 DEF QuitGet, Phase, userVars, Joining, Quitting
    <3>3. QED
      BY <1>1, <2>1, <2>3, <3>1, <3>2, OneUser DEF Quitting
  <2>8. CASE QuitPut(i)
    <3>1. /\ op[i].at = "quitPut" /\ op[i].read = pool[u] /\ u \in listed /\ s \notin sessions
          /\ (pool[u] \ {s}) \ lost = Present(u) \ lost
          /\ op'[i].sid = s /\ op'[i].at = "quitCount"
      BY <2>1, <2>2, <2>8 DEF QuitPut, At, Phase, Goto, OpType, Quitting
    <3>2. pool'[u] = pool[u] \ {s} /\ u \in listed'
      BY <2>1, <2>8, <3>1 DEF QuitPut, TypeOK
    <3>3. Phase(i, u)'
      BY <1>1, <3>1, <3>2 DEF Phase, Joining, Quitting
    <3>4. QED
      BY <1>1, <2>1, <2>3, <2>8, <3>1, <3>3, OneUser DEF QuitPut, Quitting, history
  <2>9. CASE QuitCount(i)
    <3>1. /\ op[i].at = "quitCount" /\ u \in listed /\ failed' = failed /\ s \notin sessions
          /\ pool[u] \ lost = Present(u) \ lost
      BY <2>1, <2>2, <2>9 DEF QuitCount, At, Phase, Quitting
    <3>2. CASE pool[u] = {}
      <4>1. op'[i].sid = s /\ op'[i].at = "quitDelete"
        BY <2>1, <2>2, <2>9, <3>1, <3>2 DEF QuitCount, Goto, OpType
      <4>2. Phase(i, u)'
        BY <1>1, <2>9, <3>1, <3>2, <4>1 DEF QuitCount, Phase, userVars, Joining, Quitting
      <4>3. QED
        BY <1>1, <2>1, <2>3, <3>1, <4>1, <4>2, OneUser DEF Quitting
    <3>3. CASE pool[u] # {}
      <4>1. op'[i] = Idle
        BY <2>1, <2>2, <2>9, <3>1, <3>3 DEF QuitCount, End
      <4>2. Exact(u)'
        BY <1>1, <2>9, <3>1, <3>3 DEF QuitCount, Exact, userVars
      <4>3. QED
        BY <1>1, <2>1, <2>3, <3>1, <4>1, <4>2, OneUser DEF Idle, Joining, Quitting
    <3>4. QED
      BY <3>2, <3>3
  <2>10. CASE QuitDelete(i)
    <3>1. /\ u \in listed /\ failed' = failed /\ pool[u] = {} /\ op'[i] = Idle
          /\ pool[u] \ lost = Present(u) \ lost
      BY <2>1, <2>2, <2>10 DEF QuitDelete, At, Phase, End, Quitting
    <3>2. pool'[u] = {} /\ u \notin listed'
      BY <2>1, <2>10 DEF QuitDelete, TypeOK
    <3>3. Exact(u)'
      BY <1>1, <3>1, <3>2 DEF Exact
    <3>4. QED
      BY <1>1, <2>1, <2>3, <3>1, <3>3, OneUser DEF Idle, Joining, Quitting
  <2>11. QED
    BY <2>1, <2>4, <2>5, <2>6, <2>7, <2>8, <2>9, <2>10
       DEF Step, UseCheck, UseGet, UsePut, At, Joining, Quitting
<1>4. QED
  BY <1>2, <1>3

\* A handler starts: for its own user only if no other handler runs, or the user
\* is raced from here on.
LEMMA StartUser ==
  ASSUME TypeOK, LinkInv, ListInv, ConstantsAssumption, NEW u \in User, UserInv(u),
         NEW s \in Sid, Join(s) \/ Quit(s) \/ Use(s), u \notin raced'
  PROVE  UserInv(u)'
<1> DEFINE k == Home[s]
<1>1. \A l \in {"join", "quit", "useCheck"} : l \in Label
  BY DEF Label, Joining, Quitting, Using
<1>2. PICK l \in {"join", "quit", "useCheck"} : Begin(s, l) /\ (l = "useCheck" <=> Use(s))
  BY DEF Join, Quit, Use, Begin
<1>3. /\ k \in Instance /\ op[k] = Idle
      /\ \A j \in Instance \ {k} : op'[j] = op[j]
      /\ op'[k].at = l /\ op'[k].sid = s /\ op'[k].read = {}
  BY <1>1, <1>2, StartLocal
<1>4. u \notin Handled(k)
  BY <1>3 DEF Handled, Idle, Joining, Quitting
<1>5. pool' = pool /\ listed' = listed /\ lost' = lost
  BY DEF Join, Quit, Use, userVars, history
<1>6. CASE u # Owner[s] \/ Use(s)
  <2>1. u \notin Handled(k)'
    BY <1>2, <1>3, <1>6 DEF Handled, Joining, Quitting
  <2>2. Present(u)' = Present(u)
    BY <1>6 DEF Join, Quit, Use, userVars, Present
  <2>3. QED
    BY <1>3, <1>4, <1>5, <2>1, <2>2, OtherUser
<1>7. CASE u = Owner[s] /\ (Join(s) \/ Quit(s))
  <2>1. Settled(u)
    BY <1>7 DEF Join, Quit, Race, Settled
  <2>2. Exact(u) /\ \A j \in Instance : u \notin Handled(j)
    BY <2>1 DEF UserInv, Settled
  <2>3. CASE Join(s)
    <3>1. op'[k].at = "join"
      BY <1>3, <2>3 DEF Join, Begin, TypeOK
    <3>2. sessions' = sessions \cup {s} /\ Present(u)' = Present(u) \cup {s}
      BY <1>7, <2>3 DEF Join, Present
    <3>3. Phase(k, u)'
      BY <1>3, <1>5, <2>2, <3>1, <3>2 DEF Phase, Exact, Joining, Quitting
    <3>4. QED
      BY <1>3, <1>7, <2>2, <3>1, <3>3, OneUser DEF Handled, Joining
  <2>4. CASE Quit(s)
    <3>1. op'[k].at = "quit"
      BY <1>3, <2>4 DEF Quit, Begin, TypeOK
    <3>2. s \in sessions /\ s \notin lost /\ s \in Present(u)
      BY <1>7, <2>4 DEF Quit, LinkInv, Present
    <3>3. sessions' = sessions \ {s} /\ Present(u)' = Present(u) \ {s}
      BY <1>7, <2>4 DEF Quit, Present
    <3>4. s \in pool[u] /\ u \in listed
      BY <2>2, <3>2 DEF Exact, ListInv
    <3>5. Phase(k, u)'
      BY <1>3, <1>5, <2>2, <3>1, <3>3, <3>4 DEF Phase, Exact, Joining, Quitting
    <3>6. QED
      BY <1>3, <1>7, <2>2, <3>1, <3>5, OneUser DEF Handled, Quitting
  <2>5. QED
    BY <1>7, <2>3, <2>4
<1>8. QED
  BY <1>6, <1>7

\* The handler of a killed instance stops between two of its lines: what it left
\* undone concerns only its own session, which is lost.
LEMMA KillUser ==
  ASSUME TypeOK, OpInv, ConstantsAssumption, NEW u \in User, UserInv(u),
         NEW k \in Instance, Crash(k)
  PROVE  UserInv(u)'
<1>1. /\ op'[k] = Idle /\ \A j \in Instance \ {k} : op'[j] = op[j]
      /\ sessions' = sessions /\ listed' = listed /\ pool' = pool
      /\ lost \subseteq lost' /\ \A s \in Sid : Home[s] = k /\ link[s] # "new" => s \in lost'
  BY KillLocal
<1>2. Present(u)' = Present(u)
  BY <1>1 DEF Present
<1>3. u \notin Handled(k)'
  BY <1>1 DEF Handled, Idle, Joining, Quitting
<1>4. CASE u \in Handled(k)
  <2> DEFINE s == op[k].sid
  <2>1. s \in Sid /\ Owner[s] = u /\ op[k].at \in Joining \cup Quitting /\ s \in lost'
    BY <1>1, <1>4 DEF Handled, OpInv
  <2>2. Phase(k, u) /\ \A j \in Instance \ {k} : u \notin Handled(j)
    BY <1>4 DEF UserInv
  <2>3. (pool[u] \cup {s}) \ lost = (Present(u) \cup {s}) \ lost
    BY <2>1, <2>2 DEF Phase, Present, Joining, Quitting
  <2>4. pool[u] \ lost' = Present(u) \ lost'
    BY <1>1, <2>1, <2>3
  <2>5. Exact(u)'
    BY <1>1, <1>2, <2>1, <2>4 DEF Exact
  <2>6. QED
    BY <1>1, <1>3, <2>2, <2>5, OneUser
<1>5. CASE u \notin Handled(k)
  <2>1. \A j \in Instance : u \in Handled(j)' <=> u \in Handled(j)
    BY <1>1, <1>3, <1>5 DEF Handled
  <2>2. Settled(u)' => Exact(u)'
    BY <1>1, <1>2, <2>1 DEF UserInv, Settled, Exact
  <2>3. ASSUME NEW j \in Instance, u \in Handled(j)' PROVE Phase(j, u)'
    <3>1. Phase(j, u) /\ op'[j] = op[j]
      BY <1>1, <1>3, <2>1, <2>3 DEF UserInv
    <3>2. QED
      BY <1>1, <1>2, <3>1 DEF Phase
  <2>4. QED
    BY <2>1, <2>2, <2>3 DEF UserInv
<1>6. QED
  BY <1>4, <1>5

\* Use and its cleanup do not touch the users.
LEMMA QuietUser ==
  ASSUME TypeOK, ConstantsAssumption, NEW u \in User, UserInv(u),
         CleanGet \/ CleanPut \/ \E s \in Sid : Age(s)
  PROVE  UserInv(u)'
<1>1. \A i \in Instance : u \in Handled(i)' <=> u \in Handled(i)
  BY QuietLocal DEF Handled
<1>2. Present(u)' = Present(u)
  BY QuietLocal DEF Present
<1>3. Settled(u)' => Exact(u)'
  BY <1>1, <1>2, QuietLocal DEF UserInv, Settled, Exact
<1>4. ASSUME NEW i \in Instance, u \in Handled(i)' PROVE Phase(i, u)'
  <2>1. Phase(i, u)
    BY <1>1, <1>4 DEF UserInv
  <2>2. op'[i].at = op[i].at /\ op'[i].sid = op[i].sid /\ op'[i].read = op[i].read
    BY <1>1, <1>4, QuietLocal DEF Handled
  <2>3. QED
    BY <1>2, <2>1, <2>2, QuietLocal DEF Phase
<1>5. QED
  BY <1>1, <1>3, <1>4 DEF UserInv

\* A step that fails a join or a disconnect is a handler's, and its user raced.
LEMMA FailStep ==
  ASSUME IInv, ConstantsAssumption, Next
  PROVE  QuitsComplete'
<1>1. raced \subseteq raced'
  BY StepLocal, KillLocal, QuietLocal DEF Next, Join, Quit, Use, Race, IInv, userVars, history
<1>2. ASSUME NEW i \in Instance, Step(i), Owner[op[i].sid] \notin raced
      PROVE  failed' = failed
  <2>1. op[i].sid \in Sid /\ op[i].at \in Joining \cup Quitting \cup Using
    BY <1>2, StepLocal DEF IInv, OpInv
  <2>2. CASE op[i].at \in Joining \cup Quitting
    <3>1. Owner[op[i].sid] \in Handled(i) /\ Owner[op[i].sid] \in User
      BY <2>1, <2>2 DEF Handled, ConstantsAssumption
    <3>2. QED
      BY <1>2, <3>1, StepUser DEF IInv
  <2>3. CASE op[i].at \in Using
    BY <1>2, <2>3 DEF Step, JoinCheck, JoinGet, JoinPut, QuitGet, QuitPut, QuitCount, QuitDelete,
       UseCheck, UseGet, UsePut, At, Using, history
  <2>4. QED
    BY <2>1, <2>2, <2>3
<1>3. ASSUME NEW i \in Instance, Step(i) PROVE failed' \subseteq failed \cup {op[i].sid}
  BY <1>3 DEF Step, JoinCheck, JoinGet, JoinPut, QuitGet, QuitPut, QuitCount, QuitDelete,
     UseCheck, UseGet, UsePut, Fail, history
<1>4. ASSUME ~\E i \in Instance : Step(i) PROVE failed' = failed
  BY <1>4, QuietLocal DEF Next, Join, Quit, Use, Crash, IInv, history
<1>5. QED
  BY <1>1, <1>2, <1>3, <1>4 DEF IInv, QuitsComplete

LEMMA Initially ==
  ASSUME ConstantsAssumption, Init
  PROVE  IInv
<1>1. TypeOK
  BY InitTyped
<1>2. LinkInv /\ OpInv /\ ListInv /\ QuitsComplete
  BY DEF Init, LinkInv, OpInv, ListInv, QuitsComplete, Idle, Joining, Quitting, Using
<1>3. \A u \in User : UserInv(u)
  BY DEF Init, UserInv, Exact, Present, Settled, Handled, Idle, Joining, Quitting
<1>4. QED
  BY <1>1, <1>2, <1>3 DEF IInv

LEMMA Inductive ==
  ASSUME ConstantsAssumption, IInv, [Next]_vars
  PROVE  IInv'
<1>1. CASE UNCHANGED vars
  BY <1>1, StutterKeeps
<1>2. CASE Next
  <2>1. TypeOK' /\ LinkInv' /\ OpInv' /\ ListInv' /\ QuitsComplete'
    BY <1>2, TypeStep, LinkStep, OpStep, ListStep, FailStep DEF IInv
  <2>2. raced \subseteq raced'
    BY <1>2, StepLocal, KillLocal, QuietLocal DEF Next, Join, Quit, Use, Race, IInv, userVars, history
  <2>3. ASSUME NEW u \in User, u \notin raced' PROVE UserInv(u)'
    <3>1. UserInv(u)
      BY <2>2, <2>3 DEF IInv
    <3>2. QED
      BY <1>2, <2>3, <3>1, StepUser, StartUser, KillUser, QuietUser DEF Next, IInv
  <2>4. QED
    BY <2>1, <2>3 DEF IInv
<1>3. QED
  BY <1>1, <1>2

-----------------------------------------------------------------------------
(* Theorems *)

\* The inductive invariant holds in every reachable state of socket/main.py's
\* pools.
THEOREM PoolsInvariant == Spec => []IInv
<1>1. Init => IInv
  BY Initially, ConstantsAssumption
<1>2. IInv /\ [Next]_vars => IInv'
  BY Inductive, ConstantsAssumption
<1>3. QED
  BY <1>1, <1>2, PTL DEF Spec

\* The pools, the handlers' copies and the records of USAGE_POOL keep their
\* types: no session has a fresh stamp in an entry it is not in.
THEOREM PoolsTypeCorrect == Spec => []TypeOK
<1>1. IInv => TypeOK
  BY DEF IInv
<1>2. QED
  BY <1>1, PoolsInvariant, PTL

\* For any number of instances: USER_POOL lists exactly the sessions of a user
\* whose connect and disconnect handlers never overlapped.
THEOREM PoolAlwaysExact == Spec => []PoolExact
<1>1. IInv => PoolExact
  BY DEF IInv, PoolExact, UserInv, Exact
<1>2. QED
  BY <1>1, PoolsInvariant, PTL

\* For any number of instances: only a user whose handlers overlapped can have a
\* connect or a disconnect fail with KeyError.
THEOREM QuitsAlwaysComplete == Spec => []QuitsComplete
<1>1. IInv => QuitsComplete
  BY DEF IInv
<1>2. QED
  BY <1>1, PoolsInvariant, PTL

-----------------------------------------------------------------------------
(* The cleanup lock *)

\* The key has a holder exactly while it has time left.
KeyExpires == holder # NoHolder <=> ttl > 0

\* What makes mutual exclusion inductive: until Redis loses the key, a process
\* that entered the loop holds it, and its timer is what the key has aged.
EngagedHoldsKey ==
  ~keyLost =>
    \A i \in Process : Engaged(i) =>
      /\ holder = i
      /\ ttl + timer[i] = Timeout
      /\ timer[i] <= Period + MaxLag

\* Twice the time that the key, if nobody else set it, can still have when a
\* process makes its attempt: each retry delay takes half of Timeout away.
Allowance(a) == IF a = 0 THEN 2 * Timeout ELSE IF a = 1 THEN Timeout ELSE 0

Outlasts ==
  \A i \in Process :
    /\ pc[i] = "trying" /\ ~contended[i] /\ holder # NoHolder => 2 * ttl <= Allowance(attempt[i])
    /\ pc[i] = "waiting" =>
         /\ attempt[i] < MaxRetries
         /\ ~contended[i] /\ holder # NoHolder =>
              2 * (ttl + timer[i]) <= Allowance(attempt[i])

LockInv ==
  /\ LockTypeOK
  /\ KeyExpires
  /\ EngagedHoldsKey
  /\ HolderIsEngaged
  /\ Outlasts

-----------------------------------------------------------------------------
LEMMA LockInitially == LockInit => LockInv
<1> SUFFICES ASSUME LockInit PROVE LockInv
  OBVIOUS
<1> USE LockAssumption DEF LockAssumption, LockInit
<1>1. LockTypeOK
  <2>1. holder \in Process \cup {NoHolder, Orphan} /\ ttl \in 0..Timeout
    OBVIOUS
  <2>2. pc \in [Process -> PC]
    BY DEF PC
  <2>3. attempt \in [Process -> 0..MaxRetries] /\ timer \in [Process -> 0..Timeout]
    BY DEF MaxRetries
  <2>4. contended \in [Process -> BOOLEAN] /\ keyLost \in BOOLEAN
    OBVIOUS
  <2> QED
    BY <2>1, <2>2, <2>3, <2>4 DEF LockTypeOK
<1>2. KeyExpires /\ HolderIsEngaged
  BY DEF KeyExpires, HolderIsEngaged
<1>3. EngagedHoldsKey /\ Outlasts
  BY DEF EngagedHoldsKey, Outlasts, Engaged, Cleaning
<1> QED
  BY <1>1, <1>2, <1>3 DEF LockInv

LEMMA SetKeyTyped ==
  ASSUME LockTypeOK, NEW i \in Process, SetKey(i)
  PROVE  /\ holder' \in Process \cup {NoHolder, Orphan}
         /\ ttl' \in 0..Timeout
         /\ timer' \in [Process -> 0..Timeout]
         /\ contended' \in [Process -> BOOLEAN]
<1>1. holder' \in Process \cup {NoHolder, Orphan} /\ ttl' \in 0..Timeout
  BY LockAssumption DEF LockAssumption, SetKey
<1>2. timer' \in [Process -> 0..Timeout]
  BY LockAssumption DEF LockAssumption, SetKey, LockTypeOK
<1>3. contended' \in [Process -> BOOLEAN]
  BY DEF SetKey, LockTypeOK
<1> QED
  BY <1>1, <1>2, <1>3

LEMMA LockInductive == LockInv /\ [LockNext]_lockVars => LockInv'
<1> SUFFICES ASSUME LockInv, [LockNext]_lockVars PROVE LockInv'
  OBVIOUS
<1> USE LockAssumption
    DEF LockAssumption, LockInv, LockTypeOK, KeyExpires, EngagedHoldsKey,
        HolderIsEngaged, Outlasts, Engaged,
        Cleaning, PC, MaxRetries, Allowance, procVars
<1>1. ASSUME NEW i \in Process, Start(i) PROVE LockInv'
  BY <1>1 DEF Start
<1>2. ASSUME NEW i \in Process, Acquire(i) PROVE LockInv'
  <2>0. LockTypeOK'
    BY <1>2, SetKeyTyped DEF Acquire
  <2>1. KeyExpires' /\ HolderIsEngaged'
    BY <1>2 DEF Acquire, SetKey
  <2>2. EngagedHoldsKey'
    BY <1>2 DEF Acquire, SetKey
  <2>3. Outlasts'
    BY <1>2 DEF Acquire, SetKey
  <2> QED
    BY <2>0, <2>1, <2>2, <2>3
<1>3. ASSUME NEW i \in Process, AcquireFails(i) PROVE LockInv'
  BY <1>3 DEF AcquireFails
<1>4. ASSUME NEW i \in Process, Retry(i) PROVE LockInv'
  BY <1>4 DEF Retry
<1>5. ASSUME NEW i \in Process, Sleep(i) PROVE LockInv'
  BY <1>5 DEF Sleep
<1>6. ASSUME NEW i \in Process, Renew(i) PROVE LockInv'
  <2>0. LockTypeOK'
    BY <1>6, SetKeyTyped DEF Renew
  <2>1. KeyExpires' /\ HolderIsEngaged'
    BY <1>6 DEF Renew, SetKey
  <2>2. EngagedHoldsKey'
    BY <1>6 DEF Renew, SetKey
  <2>3. Outlasts'
    BY <1>6 DEF Renew, SetKey
  <2> QED
    BY <2>0, <2>1, <2>2, <2>3
<1>7. ASSUME NEW i \in Process, RenewFails(i) PROVE LockInv'
  BY <1>7 DEF RenewFails
<1>8. ASSUME NEW i \in Process, Interrupt(i) PROVE LockInv'
  BY <1>8 DEF Interrupt
<1>9. ASSUME NEW i \in Process, ReleaseGet(i) PROVE LockInv'
  BY <1>9 DEF ReleaseGet
<1>10. ASSUME NEW i \in Process, ReleaseDelete(i) PROVE LockInv'
  BY <1>10 DEF ReleaseDelete
<1>11. ASSUME NEW i \in Process, Kill(i) PROVE LockInv'
  BY <1>11 DEF Kill
<1>12. CASE LoseKey
  BY <1>12 DEF LoseKey
<1>13. CASE Tick
  BY <1>13 DEF Tick
<1>14. CASE UNCHANGED lockVars
  BY <1>14 DEF lockVars
<1> QED
  BY <1>1, <1>2, <1>3, <1>4, <1>5, <1>6, <1>7, <1>8, <1>9, <1>10, <1>11, <1>12, <1>13,
     <1>14 DEF LockNext, ProcessStep

LEMMA LockInvariance == LockSpec => []LockInv
  BY LockInitially, LockInductive, PTL DEF LockSpec

\* Every variable keeps its type.
THEOREM LockTypeCorrect == LockSpec => []LockTypeOK
  BY LockInvariance, PTL DEF LockInv

\* Two processes never clean at once while Redis keeps its keys, and the key
\* is never forgotten by the process it names.
THEOREM LockIsAlwaysSound == LockSpec => []LockIsSound
<1>1. LockInv => OneCleaner
  BY DEF LockInv, EngagedHoldsKey, OneCleaner, Engaged
<1>2. LockInv => LockIsSound
  BY <1>1 DEF LockInv, LockIsSound
<1> QED
  BY LockInvariance, <1>2, PTL

\* release_lock deletes no other process's key while Redis keeps its keys.
THEOREM ReleaseIsSafe == LockSpec => ReleasesOwnKey
<1>1. LockInv /\ [LockNext]_lockVars =>
        [\A i \in Process :
           pc[i] = "deleting" /\ pc'[i] = "stopped" => holder = i \/ keyLost]_lockVars
  BY DEF LockInv, EngagedHoldsKey, Engaged
<1> QED
  BY LockInvariance, <1>1, PTL DEF LockSpec, ReleasesOwnKey

\* An orphaned key outlasts no process's attempts.
THEOREM GivingUpIsJustified == LockSpec => GivesUpOnlyToAnother
<1>1. ASSUME LockInv, [LockNext]_lockVars, NEW i \in Process,
             pc[i] = "trying", pc'[i] = "stopped"
      PROVE  contended[i]
  <2> USE LockAssumption DEF LockAssumption, LockInv, LockTypeOK, PC, procVars
  <2>1. AcquireFails(i)
    <3>1. pc' # pc /\ pc[i] \notin {"waiting", "sweeping", "sleeping", "leaving", "deleting"}
      BY <1>1
    <3>2. ASSUME NEW j \in Process, ProcessStep(j) PROVE AcquireFails(i)
      <4>1. j = i
        BY <1>1, <3>2 DEF ProcessStep, Start, Acquire, AcquireFails, Retry, Sleep, Renew, RenewFails,
                          Interrupt, ReleaseGet, ReleaseDelete, Kill
      <4> QED
        BY <1>1, <3>2, <4>1 DEF ProcessStep, Start, Acquire, Retry, Sleep, Renew, RenewFails,
                          Interrupt, ReleaseGet, ReleaseDelete, Kill, Cleaning
    <3> QED
      BY <1>1, <3>1, <3>2 DEF LockNext, LoseKey, Tick, lockVars
  <2>2. holder # NoHolder /\ attempt[i] = MaxRetries
    BY <1>1, <2>1 DEF AcquireFails, MaxRetries
  <2>3. ttl \in Nat /\ ttl > 0
    BY <1>1, <2>2 DEF KeyExpires
  <2> QED
    BY <1>1, <2>2, <2>3 DEF Outlasts, Allowance, MaxRetries
<1>2. LockInv /\ [LockNext]_lockVars =>
        [\A i \in Process :
           pc[i] = "trying" /\ pc'[i] = "stopped" => contended[i]]_lockVars
  BY <1>1
<1> QED
  BY LockInvariance, <1>2, PTL DEF LockSpec, GivesUpOnlyToAnother

=============================================================================
