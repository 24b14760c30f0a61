----------------------------- MODULE AppConfig ------------------------------
(***************************************************************************)
(* The settings of backend/open_webui/config.py: PersistentConfig and      *)
(* AppConfig in several server processes, the config table they share and, *)
(* when there is one, the Redis through which they tell each other.        *)
(*                                                                         *)
(* A process keeps the stored configuration twice: CONFIG_DATA, read once  *)
(* when it starts and written whole by every save, and the value of each   *)
(* setting, which alone is refreshed from Redis.  A save is two round      *)
(* trips to the database (query, commit) and one to Redis, and other       *)
(* processes run in between; in its own process, a thread of the pool      *)
(* saves (an upload does) while the event loop reads settings.             *)
(*                                                                         *)
(* ENABLE_PERSISTENT_CONFIG on and RESET_CONFIG_ON_START off, as by        *)
(* default.  One save at a time in a process.                              *)
(***************************************************************************)
EXTENDS Naturals, Sequences

CONSTANTS
  Process, Key, Value,
  Default,        \* the values the environment gives
  Absent, Whole,  \* not there; an import is about the whole configuration
  Deployments,    \* those checked: subset of {TRUE, FALSE}, TRUE with Redis
  MaxSets, MaxImports, MaxStarts, MaxFailures  \* bounds

ASSUME ConfigAssumption ==
  /\ Default \in [Key -> Value] /\ Absent \notin Value
  /\ Whole \notin Key /\ Absent \notin Key /\ Whole # Absent
  /\ Deployments \subseteq BOOLEAN
  /\ MaxSets \in Nat /\ MaxImports \in Nat /\ MaxStarts \in Nat /\ MaxFailures \in Nat

VARIABLES
  redis,      \* the deployment
  rows,       \* the config table in the order of the ids: a configuration each
  published,  \* what Redis has for a setting
  up,         \* running processes
  data,       \* CONFIG_DATA of a process
  value,      \* PersistentConfig.value in a process
  saving,     \* the save a process is in
  counts,     \* sets, imports, starts and failures so far
  adrift,     \* history: settings whose stored value is not, or may not be, the one in use
  doubled     \* history: two processes were to insert the first row

memory  == <<up, data, value>>
history == <<adrift, doubled>>
vars    == <<redis, rows, published, memory, saving, counts, history>>

Configs == [Key -> Value \cup {Absent}]
Empty   == [k \in Key |-> Absent]

\* row: of `first()', 0 when there was none; clean: see adrift
Save == [step : {"none", "commit", "publish"}, key : Key \cup {Whole, Absent}, row : Nat, copy : Configs, clean : BOOLEAN]
Idle == [step |-> "none", key |-> Absent, row |-> 0, copy |-> Empty, clean |-> TRUE]

TypeOK ==
  /\ redis \in Deployments /\ rows \in Seq(Configs) /\ published \in Configs
  /\ up \subseteq Process /\ data \in [Process -> Configs] /\ value \in [Process -> [Key -> Value]]
  /\ saving \in [Process -> Save]
  /\ counts \in [sets : 0 .. MaxSets, imports : 0 .. MaxImports, starts : 0 .. MaxStarts, failures : 0 .. MaxFailures]
  /\ adrift \subseteq Key /\ doubled \in BOOLEAN

Init ==
  /\ redis \in Deployments /\ rows = <<>> /\ published = Empty
  /\ up = {} /\ data = [p \in Process |-> Empty] /\ value = [p \in Process |-> Default]
  /\ saving = [p \in Process |-> Idle]
  /\ counts = [sets |-> 0, imports |-> 0, starts |-> 0, failures |-> 0]
  /\ adrift = {} /\ doubled = FALSE

\* get_config reads the row with the greatest id
Stored == IF rows = <<>> THEN Empty ELSE rows[Len(rows)]

\* What a configuration sets, over what is there otherwise
Over(config, otherwise) == [k \in Key |-> IF config[k] = Absent THEN otherwise[k] ELSE config[k]]

-----------------------------------------------------------------------------
(* Processes come and go *)

\* The module is imported: CONFIG_DATA, then every PersistentConfig. Without Redis there is
\* one process.
Start(p) ==
  /\ p \notin up /\ (redis \/ up = {})
  /\ counts.starts < MaxStarts /\ counts' = [counts EXCEPT !.starts = @ + 1]
  /\ up' = up \cup {p}
  /\ data' = [data EXCEPT ![p] = Stored]
  /\ value' = [value EXCEPT ![p] = Over(Stored, Default)]
  /\ UNCHANGED <<redis, rows, published, saving, history>>

\* Killed between the commit and Redis, a save is stored and not published.
Kill(p) ==
  /\ p \in up /\ up' = up \ {p}
  /\ data' = [data EXCEPT ![p] = Empty] /\ value' = [value EXCEPT ![p] = Default]
  /\ saving' = [saving EXCEPT ![p] = Idle]
  /\ adrift' = IF saving[p].step = "publish" THEN adrift \cup {saving[p].key} ELSE adrift
  /\ UNCHANGED <<redis, rows, published, counts, doubled>>

-----------------------------------------------------------------------------
(* Reading *)

\* Mutant: that Redis has nothing is a value too
GetAny(p, k) ==
  /\ p \in up /\ redis
  /\ published[k] # value[p][k]
  /\ value' = [value EXCEPT ![p][k] = published[k]]
  /\ saving' = IF saving[p].key = k THEN [saving EXCEPT ![p].clean = FALSE] ELSE saving
  /\ UNCHANGED <<redis, rows, published, up, data, counts, history>>

\* AppConfig.__getattr__, when it changes something: the value is refreshed, CONFIG_DATA is
\* not. A read in the middle of a save of the setting takes its new value back.
Get(p, k) ==
  /\ p \in up /\ redis
  /\ published[k] \notin {Absent, value[p][k]}
  /\ value' = [value EXCEPT ![p][k] = published[k]]
  /\ saving' = IF saving[p].key = k THEN [saving EXCEPT ![p].clean = FALSE] ELSE saving
  /\ UNCHANGED <<redis, rows, published, up, data, counts, history>>

-----------------------------------------------------------------------------
(* Saving *)

About(p, k) == saving[p].key \in {k, Whole}

\* save_to_db up to the commit: `first()' names no order. Others that are saving the same
\* setting are, like this one, no longer clean.
Query(p, key, copy) ==
  LET others == {q \in Process \ {p} : saving[q].key = key} IN
  \E r \in IF rows = <<>> THEN {0} ELSE DOMAIN rows :
    /\ saving' = [q \in Process |->
                    IF q = p THEN [step |-> "commit", key |-> key, row |-> r, copy |-> copy, clean |-> others = {}]
                    ELSE IF q \in others THEN [saving[q] EXCEPT !.clean = FALSE] ELSE saving[q]]
    /\ doubled' = (doubled \/ (r = 0 /\ \E q \in Process \ {p} : saving[q].step = "commit" /\ saving[q].row = 0))

\* AppConfig.__setattr__ and PersistentConfig.save: the value and CONFIG_DATA change at once
Set(p, k, v) ==
  /\ p \in up /\ saving[p] = Idle
  /\ counts.sets < MaxSets /\ counts' = [counts EXCEPT !.sets = @ + 1]
  /\ value' = [value EXCEPT ![p][k] = v]
  /\ data' = [data EXCEPT ![p][k] = v]
  /\ Query(p, k, Empty)
  /\ UNCHANGED <<redis, rows, published, up, adrift>>

\* import_config and save_config: nothing changes before the commit
Import(p, config) ==
  /\ p \in up /\ saving[p] = Idle
  /\ counts.imports < MaxImports /\ counts' = [counts EXCEPT !.imports = @ + 1]
  /\ Query(p, Whole, config)
  /\ UNCHANGED <<redis, rows, published, memory, adrift>>

\* The row is inserted, or replaced
Write(r, config) == rows' = IF r = 0 THEN Append(rows, config) ELSE [rows EXCEPT ![r] = config]

\* Settings that this write changes though the save is not about them: CONFIG_DATA of the
\* process is older than theirs.
Reverted(p) == {k \in Key : k # saving[p].key /\ data[p][k] # Stored[k]}

\* Mutant: the commit is the end of it
CommitSetUnpublished(p) ==
  /\ saving[p].step = "commit" /\ saving[p].key # Whole
  /\ Write(saving[p].row, data[p])
  /\ saving' = [q \in Process |->
                  IF q = p THEN Idle
                  ELSE IF saving[q].step = "publish" /\ saving[q].key \in Reverted(p)
                       THEN [saving[q] EXCEPT !.clean = FALSE] ELSE saving[q]]
  /\ adrift' = (adrift \cup Reverted(p)) \ (IF saving[p].clean THEN {saving[p].key} ELSE {})
  /\ UNCHANGED <<redis, published, memory, counts, doubled>>

\* A set is stored; without Redis, that is its end.
CommitSet(p) ==
  /\ saving[p].step = "commit" /\ saving[p].key # Whole
  /\ Write(saving[p].row, data[p])
  /\ saving' = [q \in Process |->
                  IF q = p THEN IF redis THEN [saving[p] EXCEPT !.step = "publish"] ELSE Idle
                  ELSE IF saving[q].step = "publish" /\ saving[q].key \in Reverted(p)
                       THEN [saving[q] EXCEPT !.clean = FALSE] ELSE saving[q]]
  /\ adrift' = IF redis THEN adrift \cup Reverted(p) ELSE (adrift \cup Reverted(p)) \ {saving[p].key}
  /\ UNCHANGED <<redis, published, memory, counts, doubled>>

\* The value is read again to be published.
Publish(p) ==
  LET k == saving[p].key IN
  /\ saving[p].step = "publish"
  /\ published' = [published EXCEPT ![k] = value[p][k]]
  /\ saving' = [saving EXCEPT ![p] = Idle]
  /\ adrift' = IF saving[p].clean THEN adrift \ {k} ELSE adrift \cup {k}
  /\ UNCHANGED <<redis, rows, memory, counts, doubled>>

\* An import is stored and taken over, in this process: Redis goes on giving what it has, a
\* setting that the import lacks keeps its value, other processes know nothing of it.
CommitImport(p) ==
  LET config == saving[p].copy
      lasting == {k \in Key : published[k] = Absent /\ config[k] # Absent /\ up = {p}} IN
  /\ saving[p].step = "commit" /\ saving[p].key = Whole
  /\ Write(saving[p].row, config)
  /\ data' = [data EXCEPT ![p] = config]
  /\ value' = [value EXCEPT ![p] = Over(config, value[p])]
  /\ saving' = [q \in Process |->
                  IF q = p \/ saving[q] = Idle THEN Idle ELSE [saving[q] EXCEPT !.clean = FALSE]]
  /\ adrift' = Key \ lasting
  /\ UNCHANGED <<redis, published, up, counts, doubled>>

\* The database or Redis refuses: a set stays in memory, and goes with the next save of the
\* process; an import leaves nothing.
Fail(p) ==
  /\ saving[p].step # "none"
  /\ counts.failures < MaxFailures /\ counts' = [counts EXCEPT !.failures = @ + 1]
  /\ saving' = [saving EXCEPT ![p] = Idle]
  /\ adrift' = IF saving[p].key = Whole THEN adrift ELSE adrift \cup {saving[p].key}
  /\ UNCHANGED <<redis, rows, published, memory, doubled>>

-----------------------------------------------------------------------------
Step(p) ==
  \/ Start(p) \/ Kill(p)
  \/ \E k \in Key : Get(p, k) \/ \E v \in Value : Set(p, k, v)
  \/ \E config \in Configs : Import(p, config)
  \/ CommitSet(p) \/ Publish(p) \/ CommitImport(p) \/ Fail(p)

Next == \E p \in Process : Step(p)

Spec == Init /\ [][Next]_vars

-----------------------------------------------------------------------------
(* Properties *)

\* What a process uses when it reads the setting
Used(p, k) == IF published[k] = Absent THEN value[p][k] ELSE published[k]

\* The settings in use are the stored ones: after every process has stopped, and Redis with
\* them, the server starts with what the administrator last saw. A setting is adrift since a
\* process that had not heard of it saved another one, or two saved it at once, or a save of
\* it was cut short, failed or was read in the middle, or an import; the next save of the
\* setting that goes undisturbed brings it home. There is one row, unless two processes
\* found none at the same time.
SettingsSurvive ==
  ~doubled =>
    /\ Len(rows) =< 1
    /\ \A k \in Key \ adrift : (\A p \in Process : ~About(p, k)) =>
         /\ published[k] # Absent => published[k] = Over(Stored, Default)[k]
         /\ \A p \in up : Used(p, k) = Over(Stored, Default)[k]
=============================================================================
