---------------------------- MODULE CleanupLock -----------------------------
(***************************************************************************)
(* The Redis lock that lets one server process at a time clean the usage   *)
(* pool: RedisLock in socket/utils.py and the loop of                      *)
(* periodic_usage_pool_cleanup in socket/main.py that takes it, renews it  *)
(* and gives it up.  Time is discrete; a tick is any fixed duration.       *)
(*                                                                         *)
(* Lag is everything a process may be late by between two renewals: the    *)
(* sweep itself, a busy event loop, a slow answer of Redis.  The lock is   *)
(* sound only when Period + MaxLag stays below the expiry time.            *)
(* Names carry the prefix Lock where SocketPools, whose cleaner this is,   *)
(* has its own.                                                            *)
(***************************************************************************)
EXTENDS Integers

CONSTANTS
  Process,    \* server processes
  NoHolder,   \* what the key names when there is none
  Orphan,     \* the lock_id of a process that was killed
  Timeout,    \* WEBSOCKET_REDIS_LOCK_TIMEOUT, the expiry time of the key
  Period,     \* TIMEOUT_DURATION, the sleep between two sweeps
  MaxLag      \* bound on what a process adds to Period between two renewals

ASSUME LockAssumption ==
  /\ NoHolder \notin Process /\ Orphan \notin Process /\ NoHolder # Orphan
  /\ Timeout \in Nat /\ Period \in Nat /\ MaxLag \in Nat
  /\ Period + MaxLag < Timeout

VARIABLES
  holder,     \* the lock_id stored under lock_name
  ttl,        \* ticks until Redis expires the key
  pc,         \* pc[i]: where i stands in periodic_usage_pool_cleanup
  attempt,    \* attempt[i]: the loop variable of the retry loop
  timer,      \* timer[i]: ticks since i last slept to retry, or renewed
  contended,  \* contended[i]: since i started, another process set the key
  keyLost     \* Redis dropped the key early: a restart without persistence

procVars == <<pc, attempt, timer>>
lockVars == <<holder, ttl, procVars, contended, keyLost>>

MaxRetries == 2

PC == {"trying", "waiting", "sweeping", "sleeping", "leaving", "deleting", "stopped", "down"}

\* Processes in the while loop, and those that may hold the key.
Cleaning(i) == pc[i] \in {"sweeping", "sleeping"}
Engaged(i)  == Cleaning(i) \/ pc[i] \in {"leaving", "deleting"}

LockTypeOK ==
  /\ holder    \in Process \cup {NoHolder, Orphan}
  /\ ttl       \in 0..Timeout
  /\ pc        \in [Process -> PC]
  /\ attempt   \in [Process -> 0..MaxRetries]
  /\ timer     \in [Process -> 0..Timeout]
  /\ contended \in [Process -> BOOLEAN]
  /\ keyLost   \in BOOLEAN

LockInit ==
  /\ holder    = NoHolder
  /\ ttl       = 0
  /\ pc        = [i \in Process |-> "down"]
  /\ attempt   = [i \in Process |-> 0]
  /\ timer     = [i \in Process |-> 0]
  /\ contended = [i \in Process |-> FALSE]
  /\ keyLost   = FALSE

\* i writes its lock_id with a fresh expiry time.
SetKey(i) ==
  /\ holder'    = i
  /\ ttl'       = Timeout
  /\ timer'     = [timer EXCEPT ![i] = 0]
  /\ contended' = [j \in Process |-> IF j = i THEN contended[j] ELSE TRUE]

-----------------------------------------------------------------------------
\* lifespan starts the coroutine, with a lock_id of its own.
Start(i) ==
  /\ pc[i] = "down"
  /\ pc'        = [pc EXCEPT ![i] = "trying"]
  /\ attempt'   = [attempt EXCEPT ![i] = 0]
  /\ timer'     = [timer EXCEPT ![i] = 0]
  /\ contended' = [contended EXCEPT ![i] = FALSE]
  /\ UNCHANGED <<holder, ttl, keyLost>>

\* Mutant of Acquire: SET without NX.
AcquireAnyway(i) ==
  /\ pc[i] = "trying"
  /\ pc' = [pc EXCEPT ![i] = "sweeping"]
  /\ SetKey(i)
  /\ UNCHANGED <<attempt, keyLost>>

\* aquire_lock succeeds (SET NX EX), and the loop renews at once: nothing is
\* awaited in between.
Acquire(i) ==
  /\ pc[i] = "trying"
  /\ holder = NoHolder
  /\ pc' = [pc EXCEPT ![i] = "sweeping"]
  /\ SetKey(i)
  /\ UNCHANGED <<attempt, keyLost>>

\* Mutant of AcquireFails: range(max_retries) for range(max_retries + 1).
AcquireFailsEarly(i) ==
  /\ pc[i] = "trying"
  /\ holder # NoHolder
  /\ IF attempt[i] + 1 < MaxRetries
     THEN /\ pc'    = [pc EXCEPT ![i] = "waiting"]
          /\ timer' = [timer EXCEPT ![i] = 0]
     ELSE /\ pc'    = [pc EXCEPT ![i] = "stopped"]
          /\ UNCHANGED timer
  /\ UNCHANGED <<holder, ttl, attempt, contended, keyLost>>

\* aquire_lock fails: sleep and try again, or give up for good.
AcquireFails(i) ==
  /\ pc[i] = "trying"
  /\ holder # NoHolder
  /\ IF attempt[i] < MaxRetries
     THEN /\ pc'    = [pc EXCEPT ![i] = "waiting"]
          /\ timer' = [timer EXCEPT ![i] = 0]
     ELSE /\ pc'    = [pc EXCEPT ![i] = "stopped"]
          /\ UNCHANGED timer
  /\ UNCHANGED <<holder, ttl, attempt, contended, keyLost>>

\* retry_delay lies between half the expiry time and all of it; waking late is
\* always possible.
Retry(i) ==
  /\ pc[i] = "waiting"
  /\ 2 * timer[i] >= Timeout
  /\ pc'      = [pc EXCEPT ![i] = "trying"]
  /\ attempt' = [attempt EXCEPT ![i] = @ + 1]
  /\ UNCHANGED <<holder, ttl, timer, contended, keyLost>>

\* The sweep over USAGE_POOL is over: asyncio.sleep.
Sleep(i) ==
  /\ pc[i] = "sweeping"
  /\ pc' = [pc EXCEPT ![i] = "sleeping"]
  /\ UNCHANGED <<holder, ttl, attempt, timer, contended, keyLost>>

\* Mutant of Renew: SET XX that keeps the expiry time of the key.
RenewKeepsTTL(i) ==
  /\ pc[i] = "sleeping"
  /\ timer[i] >= Period
  /\ holder # NoHolder
  /\ pc'        = [pc EXCEPT ![i] = "sweeping"]
  /\ holder'    = i
  /\ timer'     = [timer EXCEPT ![i] = 0]
  /\ contended' = [j \in Process |-> IF j = i THEN contended[j] ELSE TRUE]
  /\ UNCHANGED <<ttl, attempt, keyLost>>

\* renew_lock: SET XX EX, whoever's lock_id the key holds.
Renew(i) ==
  /\ pc[i] = "sleeping"
  /\ timer[i] >= Period
  /\ holder # NoHolder
  /\ pc' = [pc EXCEPT ![i] = "sweeping"]
  /\ SetKey(i)
  /\ UNCHANGED <<attempt, keyLost>>

\* renew_lock finds no key: the loop raises.
RenewFails(i) ==
  /\ pc[i] = "sleeping"
  /\ timer[i] >= Period
  /\ holder = NoHolder
  /\ pc' = [pc EXCEPT ![i] = "leaving"]
  /\ UNCHANGED <<holder, ttl, attempt, timer, contended, keyLost>>

\* A Redis call of the sweep raises, or shutdown cancels the coroutine.
Interrupt(i) ==
  /\ Cleaning(i)
  /\ pc' = [pc EXCEPT ![i] = "leaving"]
  /\ UNCHANGED <<holder, ttl, attempt, timer, contended, keyLost>>

\* release_lock, first call: is the key ours?
ReleaseGet(i) ==
  /\ pc[i] = "leaving"
  /\ pc' = [pc EXCEPT ![i] = IF holder = i THEN "deleting" ELSE "stopped"]
  /\ UNCHANGED <<holder, ttl, attempt, timer, contended, keyLost>>

\* release_lock, second call: DEL, whoever's lock_id the key holds by now.
ReleaseDelete(i) ==
  /\ pc[i] = "deleting"
  /\ holder' = NoHolder
  /\ ttl'    = 0
  /\ pc'     = [pc EXCEPT ![i] = "stopped"]
  /\ UNCHANGED <<attempt, timer, contended, keyLost>>

-----------------------------------------------------------------------------
\* The process is killed, or ends: the next one has another lock_id.
Kill(i) ==
  /\ pc[i] # "down"
  /\ pc'     = [pc EXCEPT ![i] = "down"]
  /\ holder' = IF holder = i THEN Orphan ELSE holder
  /\ UNCHANGED <<ttl, attempt, timer, contended, keyLost>>

\* Redis loses the key before its time.
LoseKey ==
  /\ holder # NoHolder
  /\ holder'  = NoHolder
  /\ ttl'     = 0
  /\ keyLost' = TRUE
  /\ UNCHANGED <<procVars, contended>>

\* Mutant of Tick: the expiry time runs past zero.
TickPastZero ==
  /\ \A i \in Process : Engaged(i) => timer[i] < Period + MaxLag
  /\ ttl'    = ttl - 1
  /\ holder' = IF ttl <= 1 THEN NoHolder ELSE holder
  /\ timer'  = [i \in Process |-> IF timer[i] < Timeout THEN timer[i] + 1 ELSE timer[i]]
  /\ UNCHANGED <<pc, attempt, contended, keyLost>>

\* A tick.  It comes only when no process would exceed its lag; a sleeper's
\* timer stops mattering at the expiry time, which caps it.
Tick ==
  /\ \A i \in Process : Engaged(i) => timer[i] < Period + MaxLag
  /\ ttl'    = IF ttl = 0 THEN 0 ELSE ttl - 1
  /\ holder' = IF ttl <= 1 THEN NoHolder ELSE holder
  /\ timer'  = [i \in Process |-> IF timer[i] < Timeout THEN timer[i] + 1 ELSE timer[i]]
  /\ UNCHANGED <<pc, attempt, contended, keyLost>>

ProcessStep(i) ==
  \/ Start(i)
  \/ Acquire(i)
  \/ AcquireFails(i)
  \/ Retry(i)
  \/ Sleep(i)
  \/ Renew(i)
  \/ RenewFails(i)
  \/ Interrupt(i)
  \/ ReleaseGet(i)
  \/ ReleaseDelete(i)
  \/ Kill(i)

LockNext == (\E i \in Process : ProcessStep(i)) \/ LoseKey \/ Tick

LockSpec == LockInit /\ [][LockNext]_lockVars

-----------------------------------------------------------------------------
\* As long as Redis kept the key for its time, at most one process is in the
\* loop that rewrites USAGE_POOL (main.py 170-195), although renew_lock writes
\* a key it has not checked.
OneCleaner ==
  ~keyLost => \A i, j \in Process : Cleaning(i) /\ Cleaning(j) => i = j

\* Nor does release_lock, which deletes in a later call than it compares,
\* delete the key of another process.
ReleasesOwnKey ==
  [][\A i \in Process :
       pc[i] = "deleting" /\ pc'[i] = "stopped" => holder = i \/ keyLost]_lockVars

\* The key names a process that will renew or release it, or one that was
\* killed: a process that stopped leaves no key behind to lock others out.
HolderIsEngaged == holder \in Process => Engaged(holder)

\* Together: while Redis keeps its keys one process cleans, and the key always
\* names one that is still there to give it back.
LockIsSound == OneCleaner /\ HolderIsEngaged

\* A process gives up for good only if some other process had the lock since
\* it started: after a crash the orphaned key alone never keeps the cleanup
\* from starting, since two retry delays outlast it.
GivesUpOnlyToAnother ==
  [][\A i \in Process :
       pc[i] = "trying" /\ pc'[i] = "stopped" => contended[i]]_lockVars

=============================================================================
