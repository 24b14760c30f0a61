----------------------------- MODULE SocketPools -----------------------------
(***************************************************************************)
(* The pools of socket/main.py that several server instances share: one    *)
(* RedisDict each for sessions (SESSION_POOL), the sessions of every user  *)
(* (USER_POOL) and the users of every model (USAGE_POOL).                  *)
(*                                                                         *)
(* A RedisDict operation is a blocking call.  A handler holds the event    *)
(* loop of its instance from its first operation to its last, so handlers  *)
(* of one instance never interleave; those of two instances do, between    *)
(* any two operations, and none of their read-modify-writes is protected.  *)
(* Keys do not influence each other: there is one model.                   *)
(***************************************************************************)
EXTENDS Naturals

CONSTANTS
  Instance,   \* server processes
  Sid,        \* socket sessions; an identifier is never used again
  User,
  Home,       \* Home[s]: the instance that serves s
  Owner,      \* Owner[s]: the user whose token s shows
  Cleaner,    \* the instance that holds the cleanup lock
  Pinger,     \* sessions that use the model
  None,
  Crashes     \* whether instances are killed

ASSUME ConstantsAssumption ==
  /\ Home \in [Sid -> Instance] /\ Owner \in [Sid -> User]
  /\ Cleaner \in Instance /\ Pinger \subseteq Sid
  /\ None \notin Sid
  /\ Crashes \in BOOLEAN

VARIABLES
  link,       \* link[s]: the socket itself
  sessions,   \* keys of SESSION_POOL
  listed,     \* keys of USER_POOL
  pool,       \* pool[u]: USER_POOL[u] as a set, {} when u has no key
  usage,      \* USAGE_POOL[the model]
  op,         \* op[i]: the handler that instance i runs
  lost,       \* sessions whose instance was killed
  raced,      \* users of whom two handlers ran at once
  failed      \* sessions whose join or disconnect raised KeyError

userVars == <<sessions, listed, pool>>
history  == <<lost, raced, failed>>
vars == <<link, userVars, usage, op, history>>

\* What a model's key holds: its sessions, and which of them have a time stamp
\* younger than TIMEOUT_DURATION.  All stamps of a session age together.
Usage  == {e \in [key : BOOLEAN, sids : SUBSET Sid, fresh : SUBSET Sid] : e.fresh \subseteq e.sids}
Absent == [key |-> FALSE, sids |-> {}, fresh |-> {}]

Joining  == {"join", "joinGet", "joinPut"}
Quitting == {"quit", "quitPut", "quitCount", "quitDelete"}
Using    == {"useCheck", "useGet", "usePut"}
Label    == {"idle", "clean"} \cup Joining \cup Quitting \cup Using

Idle == [at |-> "idle", sid |-> None, read |-> {}, usage |-> Absent]

TypeOK ==
  /\ link \in [Sid -> {"new", "up", "down"}]
  /\ sessions \subseteq Sid
  /\ listed \subseteq User /\ pool \in [User -> SUBSET Sid]
  /\ usage \in Usage
  /\ op \in [Instance -> [at : Label, sid : Sid \cup {None}, read : SUBSET Sid, usage : Usage]]
  /\ lost \subseteq Sid /\ raced \subseteq User /\ failed \subseteq Sid

Init ==
  /\ link = [s \in Sid |-> "new"]
  /\ sessions = {}
  /\ listed = {} /\ pool = [u \in User |-> {}]
  /\ usage = Absent
  /\ op = [i \in Instance |-> Idle]
  /\ lost = {} /\ raced = {} /\ failed = {}

\* The user whose list the handler of i handles.
Handled(i) == IF op[i].at \in Joining \cup Quitting THEN {Owner[op[i].sid]} ELSE {}

Begin(s, l) ==
  /\ op[Home[s]] = Idle
  /\ op' = [op EXCEPT ![Home[s]] = [@ EXCEPT !.at = l, !.sid = s]]

Race(s) == raced' = IF \E i \in Instance : Owner[s] \in Handled(i) THEN raced \cup {Owner[s]} ELSE raced

At(i, l)   == op[i].at = l
Goto(i, l) == op' = [op EXCEPT ![i].at = l]
End(i)     == op' = [op EXCEPT ![i] = Idle]

\* A join or a disconnect raises KeyError: it ends here.
Fail(i) == End(i) /\ failed' = failed \cup {op[i].sid}

-----------------------------------------------------------------------------
(* connect with a valid token, and user-join, which does the same again *)

\* SESSION_POOL[sid] = user; then user.id in USER_POOL.
Join(s) ==
  /\ link[s] \in {"new", "up"} /\ s \notin lost
  /\ Begin(s, "join") /\ Race(s)
  /\ link'     = [link EXCEPT ![s] = "up"]
  /\ sessions' = sessions \cup {s}
  /\ UNCHANGED <<listed, pool, usage, lost, failed>>

JoinCheck(i) ==
  /\ At(i, "join")
  /\ Goto(i, IF Owner[op[i].sid] \in listed THEN "joinGet" ELSE "joinPut")
  /\ UNCHANGED <<link, userVars, usage, history>>

JoinGet(i) ==
  LET u == Owner[op[i].sid] IN
  /\ At(i, "joinGet")
  /\ IF u \in listed
       THEN op' = [op EXCEPT ![i].at = "joinPut", ![i].read = pool[u]] /\ UNCHANGED failed
       ELSE Fail(i)
  /\ UNCHANGED <<link, userVars, usage, lost, raced>>

JoinPut(i) ==
  LET u == Owner[op[i].sid] IN
  /\ At(i, "joinPut")
  /\ listed' = listed \cup {u}
  /\ pool'   = [pool EXCEPT ![u] = op[i].read \cup {op[i].sid}]
  /\ End(i)
  /\ UNCHANGED <<link, sessions, usage, history>>

-----------------------------------------------------------------------------
(* disconnect; remove_user_from_all_documents, at its end, is in module Ydoc *)

\* user = SESSION_POOL[sid]; del SESSION_POOL[sid].
Quit(s) ==
  /\ link[s] = "up"
  /\ link' = [link EXCEPT ![s] = "down"]
  /\ sessions' = sessions \ {s}
  /\ Begin(s, "quit") /\ Race(s)
  /\ UNCHANGED <<listed, pool, usage, lost, failed>>

QuitGet(i) ==
  LET u == Owner[op[i].sid] IN
  /\ At(i, "quit")
  /\ IF u \in listed
       THEN op' = [op EXCEPT ![i].at = "quitPut", ![i].read = pool[u]] /\ UNCHANGED failed
       ELSE Fail(i)
  /\ UNCHANGED <<link, userVars, usage, lost, raced>>

QuitPut(i) ==
  LET u == Owner[op[i].sid] IN
  /\ At(i, "quitPut")
  /\ listed' = listed \cup {u}
  /\ pool'   = [pool EXCEPT ![u] = op[i].read \ {op[i].sid}]
  /\ Goto(i, "quitCount")
  /\ UNCHANGED <<link, sessions, usage, history>>

QuitCountNever(i) ==   \* mutant of QuitCount: no key is ever deleted
  /\ At(i, "quitCount")
  /\ IF Owner[op[i].sid] \in listed THEN End(i) /\ UNCHANGED failed ELSE Fail(i)
  /\ UNCHANGED <<link, userVars, usage, lost, raced>>

QuitCountOne(i) ==   \* mutant of QuitCount: off by one
  LET u == Owner[op[i].sid] IN
  /\ At(i, "quitCount")
  /\ IF u \notin listed THEN Fail(i)
     ELSE /\ IF \A s, t \in pool[u] : s = t THEN Goto(i, "quitDelete") ELSE End(i)
          /\ UNCHANGED failed
  /\ UNCHANGED <<link, userVars, usage, lost, raced>>

\* len(USER_POOL[user_id]) == 0
QuitCount(i) ==
  LET u == Owner[op[i].sid] IN
  /\ At(i, "quitCount")
  /\ IF u \notin listed THEN Fail(i)
     ELSE /\ IF pool[u] = {} THEN Goto(i, "quitDelete") ELSE End(i)
          /\ UNCHANGED failed
  /\ UNCHANGED <<link, userVars, usage, lost, raced>>

QuitDelete(i) ==
  LET u == Owner[op[i].sid] IN
  /\ At(i, "quitDelete")
  /\ listed' = listed \ {u} /\ pool' = [pool EXCEPT ![u] = {}]
  /\ IF u \in listed THEN End(i) /\ UNCHANGED failed ELSE Fail(i)
  /\ UNCHANGED <<link, sessions, usage, lost, raced>>

-----------------------------------------------------------------------------
(* usage, and one round of periodic_usage_pool_cleanup *)

Use(s) ==
  /\ s \in Pinger /\ link[s] = "up" /\ s \in sessions
  /\ Begin(s, "useCheck")
  /\ UNCHANGED <<link, userVars, usage, history>>

UseCheck(i) ==
  /\ At(i, "useCheck")
  /\ Goto(i, IF usage.key THEN "useGet" ELSE "usePut")
  /\ UNCHANGED <<link, userVars, usage, history>>

\* Without the key it raises KeyError, and this use goes unrecorded.
UseGet(i) ==
  /\ At(i, "useGet")
  /\ IF usage.key THEN op' = [op EXCEPT ![i].at = "usePut", ![i].usage = usage] ELSE End(i)
  /\ UNCHANGED <<link, userVars, usage, history>>

WithStamp(e, s) == [key |-> TRUE, sids |-> e.sids, fresh |-> e.fresh \cup {s}]   \* mutant of With

With(e, s) == [key |-> TRUE, sids |-> e.sids \cup {s}, fresh |-> e.fresh \cup {s}]

UsePut(i) ==
  /\ At(i, "usePut")
  /\ usage' = With(op[i].usage, op[i].sid)
  /\ End(i)
  /\ UNCHANGED <<link, userVars, history>>

\* items(), and the expired sessions are dropped from the copy.
CleanGet ==
  /\ op[Cleaner] = Idle /\ usage.key
  /\ op' = [op EXCEPT ![Cleaner].at = "clean", ![Cleaner].usage = [usage EXCEPT !.sids = usage.fresh]]
  /\ UNCHANGED <<link, userVars, usage, history>>

CleanPutEmpty ==   \* mutant of CleanPut: an empty entry stays
  /\ At(Cleaner, "clean")
  /\ usage' = op[Cleaner].usage
  /\ End(Cleaner)
  /\ UNCHANGED <<link, userVars, history>>

\* The copy replaces the entry, or the entry goes.
CleanPut ==
  LET copy == op[Cleaner].usage IN
  /\ At(Cleaner, "clean")
  /\ usage' = IF copy.sids = {} THEN Absent ELSE copy
  /\ End(Cleaner)
  /\ UNCHANGED <<link, userVars, history>>

\* TIMEOUT_DURATION has passed since s last said that it uses the model.
Old(e, s) == [e EXCEPT !.fresh = @ \ {s}]

Age(s) ==
  /\ s \in usage.fresh
  /\ usage' = Old(usage, s)
  /\ op'    = [i \in Instance |-> [op[i] EXCEPT !.usage = Old(@, s)]]
  /\ UNCHANGED <<link, userVars, history>>

-----------------------------------------------------------------------------
\* Instance i is killed: its sockets break, no handler of theirs ever runs, and
\* what the pools say of them stays.  Clients come back under new identifiers.
Crash(i) ==
  LET mine == {s \in Sid : Home[s] = i /\ link[s] # "new"} IN
  /\ Crashes
  /\ link' = [s \in Sid |-> IF s \in mine THEN "down" ELSE link[s]]
  /\ lost' = lost \cup mine
  /\ End(i)
  /\ UNCHANGED <<userVars, usage, raced, failed>>

Step(i) ==
  \/ JoinCheck(i)
  \/ JoinGet(i)
  \/ JoinPut(i)
  \/ QuitGet(i)
  \/ QuitPut(i)
  \/ QuitCount(i)
  \/ QuitDelete(i)
  \/ UseCheck(i)
  \/ UseGet(i)
  \/ UsePut(i)

Next ==
  \/ \E s \in Sid : Join(s) \/ Quit(s) \/ Use(s) \/ Age(s)
  \/ \E i \in Instance : Step(i) \/ Crash(i)
  \/ CleanGet
  \/ CleanPut

Spec == Init /\ [][Next]_vars

\* A handler goes on, time passes, and the cleaning comes round every few
\* seconds, between whatever else its instance does; not every round of it is
\* cut short by a kill.
FairSpec ==
  /\ Spec
  /\ \A i \in Instance : WF_vars(Step(i))
  /\ \A s \in Sid : WF_vars(Age(s))
  /\ SF_vars(CleanGet) /\ SF_vars(CleanPut)

-----------------------------------------------------------------------------
(* Properties *)

Present(u) == {s \in sessions : Owner[s] = u}
Settled(u) == \A i \in Instance : u \notin Handled(i)

\* Unless two handlers of one user overlapped, USER_POOL lists exactly the
\* user's sessions, those of killed instances aside, and nobody without one.
PoolExact ==
  \A u \in User : u \notin raced /\ Settled(u) =>
    /\ pool[u] \ lost = Present(u) \ lost
    /\ u \in listed /\ pool[u] = {} => \E s \in lost : Owner[s] = u

\* Then none of them raises KeyError either: a disconnect that does would never
\* reach remove_user_from_all_documents.
QuitsComplete ==
  \A s \in failed : Owner[s] \in raced

\* get_models_in_use: a model that stays in the pool is used again and again.
UnusedIsDelisted == []<>(~usage.key \/ \E i \in Instance : op[i].at \in Using)
=============================================================================
