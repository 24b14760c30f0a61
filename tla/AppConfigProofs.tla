-------------------------- MODULE AppConfigProofs ---------------------------
(* For any number of processes, settings and values: the settings in use are   *)
(* the stored ones, but for those that `adrift' names.                         *)
EXTENDS AppConfig, TLAPS

-----------------------------------------------------------------------------
(* The inductive invariant *)

\* A save names what it is about; only running processes save.
Savers ==
  \A p \in Process :
    /\ saving[p].step = "none" => saving[p] = Idle
    /\ saving[p].step # "none" => p \in up /\ saving[p].key # Absent
    /\ saving[p].step = "publish" => saving[p].key # Whole

\* Without Redis there is one process, nothing is published, and nothing disturbs a save.
Alone ==
  ~redis =>
    /\ published = Empty
    /\ \A p, q \in up : p = q
    /\ \A p \in Process : saving[p].clean /\ saving[p].step # "publish"

\* Two saves of one setting: neither is clean.
CleanIsSingle ==
  \A p, q \in Process :
    p # q /\ saving[p].key \in Key /\ saving[q].key = saving[p].key => ~saving[p].clean

\* A row, once it is there, is the one every save will replace.
OneRow ==
  ~doubled =>
    /\ Len(rows) =< 1
    /\ \A p \in Process : saving[p].step = "commit" => saving[p].row = Len(rows)
    /\ \A p, q \in Process :
         p # q /\ saving[p].step = "commit" /\ saving[q].step = "commit" => saving[p].row # 0

\* What a clean save of a setting will publish: the value that CONFIG_DATA has, and, once it
\* is committed, the row.
CleanAgrees ==
  \A p \in Process : saving[p].clean /\ saving[p].key \in Key =>
    LET k == saving[p].key IN
    /\ data[p][k] = value[p][k]
    /\ ~doubled /\ saving[p].step = "publish" => Stored[k] = data[p][k]

\* Redis agrees with the row or, when it has nothing, every process does that is not saving
\* the setting.
Home(k) ==
  IF published[k] = Absent
  THEN \A p \in up : saving[p].key # k => value[p][k] = Over(Stored, Default)[k]
  ELSE published[k] = Over(Stored, Default)[k]

Publishing(k) == \E p \in Process : saving[p].step = "publish" /\ saving[p].key = k

\* So it is for a setting that is not adrift, unless it is about to be published.
HomeAgrees ==
  ~doubled => \A k \in Key \ adrift : ~Publishing(k) => Home(k)

Inv == TypeOK /\ Savers /\ Alone /\ CleanIsSingle /\ OneRow /\ CleanAgrees /\ HomeAgrees

-----------------------------------------------------------------------------
(* Lemmas on configurations *)

\* What is stored is a configuration, and it gives each setting a value.
LEMMA StoredType ==
  ASSUME TypeOK
  PROVE  Stored \in Configs
<1>1. CASE rows = <<>>
  BY <1>1 DEF Stored, Empty, Configs
<1>2. CASE rows # <<>>
  BY <1>2 DEF Stored, TypeOK
<1> QED BY <1>1, <1>2

LEMMA OverType ==
  ASSUME NEW config \in Configs, NEW otherwise \in [Key -> Value]
  PROVE  Over(config, otherwise) \in [Key -> Value]
BY DEF Over, Configs

\* While there is one row at most, the row that a save writes is the one that is read.
LEMMA Written ==
  ASSUME TypeOK, OneRow, ~doubled, NEW p \in Process, saving[p].step = "commit",
         NEW config \in Configs, Write(saving[p].row, config)
  PROVE  /\ rows' = <<config>>
         /\ Stored' = config
<1>1. rows \in Seq(Configs) /\ Len(rows) \in Nat
  BY DEF TypeOK
<1>2. Len(rows) =< 1 /\ saving[p].row = Len(rows)
  BY DEF OneRow
<1>3. Len(rows) = 0 => rows' = <<config>>
  BY <1>1, <1>2 DEF Write
<1>4. ASSUME Len(rows) = 1 PROVE rows' = <<config>>
  <2>1. rows' = [rows EXCEPT ![1] = config]
    BY <1>1, <1>2, <1>4 DEF Write
  <2> QED BY <1>1, <1>4, <2>1
<1>5. rows' = <<config>>
  <2>1. \A n \in Nat : n =< 1 => n = 0 \/ n = 1
    OBVIOUS
  <2>2. Len(rows) = 0 \/ Len(rows) = 1
    BY <1>1, <1>2, <2>1
  <2> QED BY <2>2, <1>3, <1>4
<1> QED BY <1>5 DEF Stored

LEMMA IdleType == Idle \in Save /\ Empty \in Configs
BY DEF Idle, Save, Empty, Configs

LEMMA UncleanType ==
  ASSUME NEW save \in Save
  PROVE  /\ [save EXCEPT !.clean = FALSE] \in Save
         /\ \A f \in {"step", "key", "row", "copy"} : [save EXCEPT !.clean = FALSE][f] = save[f]
         /\ [save EXCEPT !.clean = FALSE].clean = FALSE
BY DEF Save

\* Whatever is saved but an import is a setting.
LEMMA SavedIsKey ==
  ASSUME TypeOK, Savers, NEW p \in Process, saving[p].step # "none"
  PROVE  saving[p].key # Whole => saving[p].key \in Key
BY DEF TypeOK, Savers, Save

\* A query begins one save and touches no other, but for its cleanness.
LEMMA Queried ==
  ASSUME TypeOK, NEW p \in Process, NEW key \in Key \cup {Whole}, NEW copy \in Configs, Query(p, key, copy)
  PROVE  /\ saving' \in [Process -> Save] /\ doubled' \in BOOLEAN
         /\ saving'[p].step = "commit" /\ saving'[p].key = key
         /\ saving'[p].clean => \A q \in Process \ {p} : saving[q].key # key
         /\ \A q \in Process \ {p} :
              /\ saving[q].key # key => saving'[q] = saving[q]
              /\ saving'[q].step = saving[q].step /\ saving'[q].key = saving[q].key
              /\ saving[q].key = key => ~saving'[q].clean
<1> DEFINE others == {q \in Process \ {p} : saving[q].key = key}
           New(r) == [step |-> "commit", key |-> key, row |-> r, copy |-> copy, clean |-> others = {}]
<1>1. PICK r \in (IF rows = <<>> THEN {0} ELSE DOMAIN rows) :
         saving' = [q \in Process |-> IF q = p THEN New(r)
                                      ELSE IF q \in others THEN [saving[q] EXCEPT !.clean = FALSE] ELSE saving[q]]
  BY DEF Query
<1>2. r \in Nat
  BY DEF TypeOK
<1>3. New(r) \in Save
  BY <1>2 DEF Save
<1>4. \A q \in Process : saving[q] \in Save
  BY DEF TypeOK
<1>5. saving' \in [Process -> Save]
  BY <1>1, <1>3, <1>4, UncleanType
<1>6. doubled' \in BOOLEAN
  BY DEF Query
<1>7. saving'[p].step = "commit" /\ saving'[p].key = key /\ saving'[p].clean = (others = {})
  BY <1>1
<1>8. ASSUME NEW q \in Process \ {p}
      PROVE  /\ saving[q].key # key => saving'[q] = saving[q]
             /\ saving'[q].step = saving[q].step /\ saving'[q].key = saving[q].key
             /\ saving[q].key = key => ~saving'[q].clean
  BY <1>1, <1>4, UncleanType
<1>9. saving'[p].clean => \A q \in Process \ {p} : saving[q].key # key
  BY <1>7
<1> HIDE DEF New, others
<1> QED BY <1>5, <1>6, <1>7, <1>8, <1>9

LEMMA RowsType ==
  ASSUME TypeOK, NEW r \in Nat, NEW config \in Configs, Write(r, config)
  PROVE  rows' \in Seq(Configs)
<1>1. rows \in Seq(Configs)
  BY DEF TypeOK
<1>2. CASE r = 0
  BY <1>1, <1>2 DEF Write
<1>3. CASE r # 0
  <2>1. rows' = [rows EXCEPT ![r] = config]
    BY <1>3 DEF Write
  <2>2. rows \in [1 .. Len(rows) -> Configs] /\ Len(rows) \in Nat
    BY <1>1
  <2>3. rows' \in [1 .. Len(rows) -> Configs]
    BY <2>1, <2>2
  <2> QED BY <2>2, <2>3
<1> QED BY <1>2, <1>3

\* The commit of a set ends or goes on with one save, and the saves of settings that it
\* reverts are not clean any more.
LEMMA Committed ==
  ASSUME TypeOK, NEW p \in Process, CommitSet(p)
  PROVE  /\ saving' \in [Process -> Save]
         /\ redis => /\ saving'[p].step = "publish" /\ saving'[p].key = saving[p].key
                     /\ saving'[p].clean = saving[p].clean
         /\ ~redis => saving'[p] = Idle
         /\ \A q \in Process \ {p} :
              /\ saving'[q].step = saving[q].step /\ saving'[q].key = saving[q].key
              /\ saving'[q].row = saving[q].row
              /\ saving[q].step # "publish" => saving'[q] = saving[q]
              /\ saving'[q].clean => saving[q].clean
              /\ saving'[q].clean /\ saving[q].step = "publish" => saving[q].key \notin Reverted(p)
<1>1. \A q \in Process : saving[q] \in Save
  BY DEF TypeOK
<1>2. saving' = [q \in Process |->
                   IF q = p THEN IF redis THEN [saving[p] EXCEPT !.step = "publish"] ELSE Idle
                   ELSE IF saving[q].step = "publish" /\ saving[q].key \in Reverted(p)
                        THEN [saving[q] EXCEPT !.clean = FALSE] ELSE saving[q]]
  BY DEF CommitSet
<1>3. [saving[p] EXCEPT !.step = "publish"] \in Save
  BY <1>1 DEF Save
<1>4. saving' \in [Process -> Save]
  BY <1>1, <1>2, <1>3, IdleType, UncleanType
<1>5. redis => /\ saving'[p].step = "publish" /\ saving'[p].key = saving[p].key
               /\ saving'[p].clean = saving[p].clean
  <2>1. saving[p] \in Save
    BY <1>1
  <2>2. redis => saving'[p] = [saving[p] EXCEPT !.step = "publish"]
    BY <1>2
  <2> QED BY <2>1, <2>2 DEF Save
<1>6. ~redis => saving'[p] = Idle
  BY <1>2
<1>7. ASSUME NEW q \in Process \ {p}
      PROVE  /\ saving'[q].step = saving[q].step /\ saving'[q].key = saving[q].key
             /\ saving'[q].row = saving[q].row
             /\ saving[q].step # "publish" => saving'[q] = saving[q]
             /\ saving'[q].clean => saving[q].clean
             /\ saving'[q].clean /\ saving[q].step = "publish" => saving[q].key \notin Reverted(p)
  BY <1>1, <1>2, UncleanType
<1> QED BY <1>4, <1>5, <1>6, <1>7

-----------------------------------------------------------------------------
(* One lemma for each action *)

\* A process that starts takes over what is stored.
LEMMA StartStep ==
  ASSUME Inv, NEW p \in Process, Start(p)
  PROVE  Inv'
<1> USE ConfigAssumption DEF memory, history
<1>0. TypeOK /\ Savers /\ Alone /\ CleanIsSingle /\ OneRow /\ CleanAgrees /\ HomeAgrees
  BY DEF Inv
<1>1. TypeOK'
  <2>1. Stored \in Configs /\ Over(Stored, Default) \in [Key -> Value]
    BY <1>0, StoredType, OverType
  <2>2. data' \in [Process -> Configs] /\ value' \in [Process -> [Key -> Value]]
    BY <1>0, <2>1 DEF Start, TypeOK
  <2>3. counts' \in [sets : 0 .. MaxSets, imports : 0 .. MaxImports, starts : 0 .. MaxStarts, failures : 0 .. MaxFailures]
    BY <1>0 DEF Start, TypeOK
  <2>4. up' \subseteq Process
    BY <1>0 DEF Start, TypeOK
  <2> QED BY <1>0, <2>2, <2>3, <2>4 DEF Start, TypeOK
<1>2. Savers'
  BY <1>0 DEF Start, Savers
<1>3. Alone'
  BY <1>0 DEF Start, Alone
<1>4. CleanIsSingle'
  BY <1>0 DEF Start, CleanIsSingle
<1>5. OneRow'
  BY <1>0 DEF Start, OneRow
<1>6. CleanAgrees'
  BY <1>0 DEF Start, CleanAgrees, Stored, Idle, Savers
<1>7. HomeAgrees'
  <2>1. SUFFICES ASSUME ~doubled', NEW j \in Key, j \notin adrift', ~Publishing(j)' PROVE Home(j)'
    BY DEF HomeAgrees
  <2>2. Over(Stored, Default)' = Over(Stored, Default)
    BY DEF Start, Over, Stored
  <2>3. ~doubled /\ j \notin adrift
    BY <1>0, <2>1 DEF Start
  <2>4. ~Publishing(j)
    BY <1>0, <2>1 DEF Start, Publishing
  <2>5. Home(j)
    BY <1>0, <2>3, <2>4 DEF HomeAgrees
  <2> QED BY <1>0, <2>2, <2>5 DEF Start, Home, TypeOK
<1> QED BY <1>1, <1>2, <1>3, <1>4, <1>5, <1>6, <1>7 DEF Inv

\* Who is killed while publishing leaves the setting adrift.
LEMMA KillStep ==
  ASSUME Inv, NEW p \in Process, Kill(p)
  PROVE  Inv'
<1> USE ConfigAssumption DEF memory, history
<1>0. TypeOK /\ Savers /\ Alone /\ CleanIsSingle /\ OneRow /\ CleanAgrees /\ HomeAgrees
  BY DEF Inv
<1>1. TypeOK'
  <2>1. data' \in [Process -> Configs] /\ value' \in [Process -> [Key -> Value]]
    BY <1>0, IdleType DEF Kill, TypeOK
  <2>2. saving' \in [Process -> Save]
    BY <1>0, IdleType DEF Kill, TypeOK
  <2>3. adrift' \subseteq Key
    BY <1>0, SavedIsKey DEF Kill, TypeOK, Savers
  <2>4. up' \subseteq Process
    BY <1>0 DEF Kill, TypeOK
  <2> QED BY <1>0, <2>1, <2>2, <2>3, <2>4 DEF Kill, TypeOK
<1>2. Savers'
  BY <1>0 DEF Kill, Savers, Idle, TypeOK
<1>3. Alone'
  BY <1>0 DEF Kill, Alone, Idle
<1>4. CleanIsSingle'
  BY <1>0 DEF Kill, CleanIsSingle, Idle
<1>5. OneRow'
  BY <1>0 DEF Kill, OneRow, Idle
<1>6. CleanAgrees'
  BY <1>0 DEF Kill, CleanAgrees, Stored, Idle, TypeOK
<1>7. HomeAgrees'
  <2>1. SUFFICES ASSUME ~doubled', NEW j \in Key, j \notin adrift', ~Publishing(j)' PROVE Home(j)'
    BY DEF HomeAgrees
  <2>2. Over(Stored, Default)' = Over(Stored, Default)
    BY DEF Kill, Over, Stored
  <2>3. ~doubled /\ j \notin adrift
    BY <1>0, <2>1 DEF Kill
  <2>4. ~Publishing(j)
    BY <1>0, <2>1 DEF Kill, Publishing
  <2>5. Home(j)
    BY <1>0, <2>3, <2>4 DEF HomeAgrees
  <2> QED BY <1>0, <2>2, <2>5 DEF Kill, Home
<1> QED BY <1>1, <1>2, <1>3, <1>4, <1>5, <1>6, <1>7 DEF Inv

\* Only what is published is read, and a save that is read into is no longer clean.
LEMMA GetStep ==
  ASSUME Inv, NEW p \in Process, NEW k \in Key, Get(p, k)
  PROVE  Inv'
<1> USE ConfigAssumption DEF memory, history
<1>0. TypeOK /\ Savers /\ Alone /\ CleanIsSingle /\ OneRow /\ CleanAgrees /\ HomeAgrees
  BY DEF Inv
<1>1. TypeOK'
  <2>1. published[k] \in Value
    BY <1>0 DEF Get, TypeOK, Configs
  <2>2. value' \in [Process -> [Key -> Value]]
    BY <1>0, <2>1 DEF Get, TypeOK
  <2>3. saving' \in [Process -> Save]
    BY <1>0, UncleanType DEF Get, TypeOK
  <2> QED BY <1>0, <2>2, <2>3 DEF Get, TypeOK
<1>2. Savers'
  <2>1. saving[p].key = k => saving[p].step # "none"
    BY <1>0 DEF Savers, Idle
  <2> QED BY <1>0, <2>1 DEF Get, Savers
<1>3. Alone'
  BY <1>0 DEF Get, Alone
<1>4. CleanIsSingle'
  BY <1>0 DEF Get, CleanIsSingle
<1>5. OneRow'
  BY <1>0 DEF Get, OneRow
<1>6. CleanAgrees'
  BY <1>0 DEF Get, CleanAgrees, Stored, TypeOK
<1>7. HomeAgrees'
  <2>1. SUFFICES ASSUME ~doubled', NEW j \in Key, j \notin adrift', ~Publishing(j)' PROVE Home(j)'
    BY DEF HomeAgrees
  <2>2. Over(Stored, Default)' = Over(Stored, Default)
    BY DEF Get, Over, Stored
  <2>3. ~doubled /\ j \notin adrift
    BY <1>0, <2>1 DEF Get
  <2>4. ~Publishing(j)
    BY <1>0, <2>1 DEF Get, Publishing
  <2>5. Home(j)
    BY <1>0, <2>3, <2>4 DEF HomeAgrees
  <2> QED BY <1>0, <2>2, <2>5 DEF Get, Home
<1> QED BY <1>1, <1>2, <1>3, <1>4, <1>5, <1>6, <1>7 DEF Inv

\* A set changes this process, and exempts it.
LEMMA SetStep ==
  ASSUME Inv, NEW p \in Process, NEW k \in Key, NEW v \in Value, Set(p, k, v)
  PROVE  Inv'
<1> USE ConfigAssumption DEF memory, history
<1>0. TypeOK /\ Savers /\ Alone /\ CleanIsSingle /\ OneRow /\ CleanAgrees /\ HomeAgrees
  BY DEF Inv
<1>a. Query(p, k, Empty)
  BY DEF Set
<1>b. /\ saving' \in [Process -> Save] /\ doubled' \in BOOLEAN
      /\ saving'[p].step = "commit" /\ saving'[p].key = k
      /\ saving'[p].clean => \A q \in Process \ {p} : saving[q].key # k
      /\ \A q \in Process \ {p} :
           /\ saving[q].key # k => saving'[q] = saving[q]
           /\ saving'[q].step = saving[q].step /\ saving'[q].key = saving[q].key
           /\ saving[q].key = k => ~saving'[q].clean
  <2>1. k \in Key \cup {Whole} /\ Empty \in Configs
    BY IdleType
  <2> QED BY <1>0, <1>a, <2>1, Queried
<1>1. TypeOK'
  <2>1. data' \in [Process -> Configs] /\ value' \in [Process -> [Key -> Value]]
    BY <1>0 DEF Set, TypeOK, Configs
  <2>2. counts' \in [sets : 0 .. MaxSets, imports : 0 .. MaxImports, starts : 0 .. MaxStarts, failures : 0 .. MaxFailures]
    BY <1>0 DEF Set, TypeOK
  <2> QED BY <1>0, <1>b, <2>1, <2>2 DEF Set, TypeOK
<1>2. Savers'
  <2>1. saving'[p].key # Absent /\ saving'[p].step = "commit" /\ p \in up
    BY <1>b DEF Set
  <2>2. ASSUME NEW q \in Process \ {p}
        PROVE  /\ saving[q].step = "none" => saving'[q] = saving[q]
    BY <1>0, <1>b DEF Savers, Idle
  <2> QED BY <1>0, <1>b, <2>1, <2>2 DEF Set, Savers
<1>3. Alone'
  BY <1>0 DEF Set, Alone, Idle, Query, TypeOK, Savers, Save
<1>4. CleanIsSingle'
  BY <1>0, <1>b DEF CleanIsSingle
<1>5. OneRow'
  BY <1>0 DEF Set, OneRow, Idle, Query, TypeOK, Save
<1>6. CleanAgrees'
  <2>1. SUFFICES ASSUME NEW q \in Process, saving'[q].clean, saving'[q].key \in Key
                 PROVE  LET j == saving'[q].key IN
                        /\ data'[q][j] = value'[q][j]
                        /\ ~doubled' /\ saving'[q].step = "publish" => Stored'[j] = data'[q][j]
    BY DEF CleanAgrees
  <2>2. CASE q = p
    <3>1. data'[p][k] = v /\ value'[p][k] = v
      BY <1>0 DEF Set, TypeOK, Configs
    <3> QED BY <1>b, <2>2, <3>1
  <2>3. CASE q # p
    <3>1. saving'[q] = saving[q] /\ saving[q].clean /\ saving[q].key \in Key
      BY <1>b, <2>1, <2>3
    <3>2. data'[q] = data[q] /\ value'[q] = value[q] /\ Stored' = Stored /\ (~doubled' => ~doubled)
      BY <1>0, <2>3 DEF Set, TypeOK, Stored, Query
    <3> QED BY <1>0, <3>1, <3>2 DEF CleanAgrees
  <2> QED BY <2>2, <2>3
<1>7. HomeAgrees'
  <2>1. SUFFICES ASSUME ~doubled', NEW j \in Key, j \notin adrift', ~Publishing(j)' PROVE Home(j)'
    BY DEF HomeAgrees
  <2>2. Over(Stored, Default)' = Over(Stored, Default)
    BY DEF Set, Over, Stored
  <2>3. ~doubled /\ j \notin adrift
    BY <1>0, <2>1 DEF Set, Query
  <2>4. ~Publishing(j)
    BY <1>0, <2>1 DEF Set, Publishing, Idle, Query
  <2>5. Home(j)
    BY <1>0, <2>3, <2>4 DEF HomeAgrees
  <2> QED BY <1>0, <2>2, <2>5 DEF Set, Home, Idle, TypeOK, Query
<1> QED BY <1>1, <1>2, <1>3, <1>4, <1>5, <1>6, <1>7 DEF Inv

\* An import changes nothing before its commit.
LEMMA ImportStep ==
  ASSUME Inv, NEW p \in Process, NEW config \in Configs, Import(p, config)
  PROVE  Inv'
<1> USE ConfigAssumption DEF memory, history
<1>0. TypeOK /\ Savers /\ Alone /\ CleanIsSingle /\ OneRow /\ CleanAgrees /\ HomeAgrees
  BY DEF Inv
<1>a. Query(p, Whole, config)
  BY DEF Import
<1>b. /\ saving' \in [Process -> Save] /\ doubled' \in BOOLEAN
      /\ saving'[p].step = "commit" /\ saving'[p].key = Whole
      /\ saving'[p].clean => \A q \in Process \ {p} : saving[q].key # Whole
      /\ \A q \in Process \ {p} :
           /\ saving[q].key # Whole => saving'[q] = saving[q]
           /\ saving'[q].step = saving[q].step /\ saving'[q].key = saving[q].key
           /\ saving[q].key = Whole => ~saving'[q].clean
  <2>1. Whole \in Key \cup {Whole} /\ config \in Configs
    BY IdleType
  <2> QED BY <1>0, <1>a, <2>1, Queried
<1>1. TypeOK'
  <2>1. counts' \in [sets : 0 .. MaxSets, imports : 0 .. MaxImports, starts : 0 .. MaxStarts, failures : 0 .. MaxFailures]
    BY <1>0 DEF Import, TypeOK
  <2> QED BY <1>0, <1>b, <2>1 DEF Import, TypeOK
<1>2. Savers'
  <2>1. saving'[p].key # Absent /\ saving'[p].step = "commit" /\ p \in up
    BY <1>b DEF Import
  <2>2. ASSUME NEW q \in Process \ {p}
        PROVE  /\ saving[q].step = "none" => saving'[q] = saving[q]
    BY <1>0, <1>b DEF Savers, Idle
  <2> QED BY <1>0, <1>b, <2>1, <2>2 DEF Import, Savers
<1>3. Alone'
  BY <1>0 DEF Import, Alone, Idle, Query, TypeOK, Savers, Save
<1>4. CleanIsSingle'
  BY <1>0 DEF Import, CleanIsSingle, Query
<1>5. OneRow'
  BY <1>0 DEF Import, OneRow, Idle, Query, TypeOK, Save
<1>6. CleanAgrees'
  BY <1>0 DEF Import, CleanAgrees, Stored, Query, TypeOK
<1>7. HomeAgrees'
  <2>1. SUFFICES ASSUME ~doubled', NEW j \in Key, j \notin adrift', ~Publishing(j)' PROVE Home(j)'
    BY DEF HomeAgrees
  <2>2. Over(Stored, Default)' = Over(Stored, Default)
    BY DEF Import, Over, Stored
  <2>3. ~doubled /\ j \notin adrift
    BY <1>0, <2>1 DEF Import, Query
  <2>4. ~Publishing(j)
    BY <1>0, <2>1 DEF Import, Publishing, Idle, Query
  <2>5. Home(j)
    BY <1>0, <2>3, <2>4 DEF HomeAgrees
  <2> QED BY <1>0, <2>2, <2>5 DEF Import, Home, Idle, TypeOK, Query
<1> QED BY <1>1, <1>2, <1>3, <1>4, <1>5, <1>6, <1>7 DEF Inv

\* What the commit reverts is adrift.
LEMMA CommitSetStep ==
  ASSUME Inv, NEW p \in Process, CommitSet(p)
  PROVE  Inv'
<1> USE ConfigAssumption DEF memory, history
<1>0. TypeOK /\ Savers /\ Alone /\ CleanIsSingle /\ OneRow /\ CleanAgrees /\ HomeAgrees
  BY DEF Inv
<1> DEFINE k == saving[p].key
<1>a. k \in Key /\ p \in up /\ data[p] \in Configs /\ saving[p].row \in Nat
  BY <1>0, SavedIsKey DEF CommitSet, Savers, TypeOK, Save
<1>b. /\ saving' \in [Process -> Save]
      /\ redis => /\ saving'[p].step = "publish" /\ saving'[p].key = k
                  /\ saving'[p].clean = saving[p].clean
      /\ ~redis => saving'[p] = Idle
      /\ \A q \in Process \ {p} :
           /\ saving'[q].step = saving[q].step /\ saving'[q].key = saving[q].key
           /\ saving'[q].row = saving[q].row
           /\ saving[q].step # "publish" => saving'[q] = saving[q]
           /\ saving'[q].clean => saving[q].clean
           /\ saving'[q].clean /\ saving[q].step = "publish" => saving[q].key \notin Reverted(p)
  BY <1>0, Committed
<1>c. ~doubled => /\ Len(rows') = 1 /\ Stored' = data[p]
                  /\ \A j \in Key : j \notin Reverted(p) /\ j # k => Stored'[j] = Stored[j]
  <2>1. ASSUME ~doubled PROVE rows' = <<data[p]>> /\ Stored' = data[p]
    BY <1>0, <1>a, <2>1, Written DEF CommitSet
  <2> QED BY <2>1 DEF Reverted
<1> HIDE DEF k
<1>1. TypeOK'
  <2>1. rows' \in Seq(Configs)
    BY <1>0, <1>a, RowsType DEF CommitSet
  <2>2. adrift' \subseteq Key
    BY <1>0 DEF CommitSet, Reverted, TypeOK
  <2> QED BY <1>0, <1>b, <2>1, <2>2 DEF CommitSet, TypeOK
<1>2. Savers'
  <2>1. up' = up
    BY DEF CommitSet
  <2>2. /\ saving'[p].step = "none" => saving'[p] = Idle
        /\ saving'[p].step # "none" => saving'[p].key # Absent /\ saving'[p].key # Whole
    BY <1>a, <1>b DEF Idle
  <2>3. ASSUME NEW q \in Process \ {p}
        PROVE  /\ saving'[q].step = "none" => saving'[q] = Idle
               /\ saving'[q].step # "none" => q \in up /\ saving'[q].key # Absent
               /\ saving'[q].step = "publish" => saving'[q].key # Whole
    BY <1>0, <1>b DEF Savers
  <2> QED BY <1>a, <2>1, <2>2, <2>3 DEF Savers
<1>3. Alone'
  BY <1>0, <1>b DEF CommitSet, Alone, Idle
<1>4. CleanIsSingle'
  BY <1>0, <1>b DEF CleanIsSingle, Idle, k
<1>5. OneRow'
  <2>1. SUFFICES ASSUME ~doubled
                 PROVE  \A q \in Process : saving'[q].step = "commit" => saving'[q].row = 1
    <3>1. doubled' = doubled
      BY DEF CommitSet
    <3>2. 1 # 0 /\ \A n : n = 1 => n =< 1
      OBVIOUS
    <3>3. ~doubled => Len(rows') = 1 /\ Len(rows') =< 1
      BY <1>c, <3>2
    <3> QED BY <3>1, <3>2, <3>3 DEF OneRow
  <2>2. saving'[p].step # "commit"
    BY <1>b DEF Idle
  <2>3. ASSUME NEW q \in Process \ {p}, saving'[q].step = "commit" PROVE saving'[q].row = 1
    <3>1. saving[q].step = "commit" /\ saving'[q].row = saving[q].row /\ saving[p].step = "commit"
      BY <1>b, <2>3 DEF CommitSet
    <3>2. saving[q].row = Len(rows) /\ saving[q].row # 0 /\ Len(rows) =< 1
      BY <1>0, <2>1, <3>1 DEF OneRow
    <3>3. Len(rows) \in Nat
      BY <1>0 DEF TypeOK
    <3>4. \A n \in Nat : n =< 1 /\ n # 0 => n = 1
      OBVIOUS
    <3> QED BY <3>1, <3>2, <3>3, <3>4
  <2> QED BY <2>2, <2>3
<1>6. CleanAgrees'
  <2>1. SUFFICES ASSUME NEW q \in Process, saving'[q].clean, saving'[q].key \in Key
                 PROVE  LET j == saving'[q].key IN
                        /\ data[q][j] = value[q][j]
                        /\ ~doubled /\ saving'[q].step = "publish" => Stored'[j] = data[q][j]
    BY DEF CleanAgrees, CommitSet
  <2>2. CASE q = p
    <3>1. redis /\ saving'[p].key = k /\ saving[p].clean
      BY <1>b, <2>1, <2>2 DEF Idle
    <3>2. data[p][k] = value[p][k]
      BY <1>0, <1>a, <3>1 DEF CleanAgrees, k
    <3> QED BY <1>c, <2>2, <3>1, <3>2
  <2>3. CASE q # p
    <3> DEFINE j == saving[q].key
    <3>1. saving'[q].key = j /\ j \in Key /\ saving[q].clean /\ saving'[q].step = saving[q].step
      BY <1>b, <2>1, <2>3
    <3>2. data[q][j] = value[q][j] /\ (~doubled /\ saving[q].step = "publish" => Stored[j] = data[q][j])
      BY <1>0, <3>1 DEF CleanAgrees
    <3>3. j # k
      BY <1>0, <1>a, <2>3, <3>1 DEF CleanIsSingle, k
    <3>4. saving[q].step = "publish" => j \notin Reverted(p)
      BY <1>b, <2>1, <2>3
    <3> QED BY <1>c, <3>1, <3>2, <3>3, <3>4
  <2> QED BY <2>2, <2>3
<1>7. HomeAgrees'
  <2>1. SUFFICES ASSUME ~doubled', NEW j \in Key, j \notin adrift', ~Publishing(j)' PROVE Home(j)'
    BY DEF HomeAgrees
  <2>2. ~doubled /\ published' = published /\ up' = up /\ value' = value
    BY <2>1 DEF CommitSet, memory
  <2>3. CASE j = k
    <3>1. ~redis
      BY <1>b, <2>1, <2>3 DEF Publishing
    <3>2. published[j] = Absent /\ \A q \in up : q = p
      BY <1>0, <1>a, <3>1 DEF Alone, Empty
    <3>3. value[p][k] = data[p][k] /\ value[p][k] \in Value
      BY <1>0, <1>a, <3>1 DEF Alone, CleanAgrees, TypeOK, k
    <3>4. Over(Stored, Default)'[j] = value[p][k]
      BY <1>c, <2>2, <2>3, <3>3 DEF Over
    <3> QED BY <2>2, <2>3, <3>2, <3>4 DEF Home
  <2>4. CASE j # k
    <3>1. j \notin adrift /\ j \notin Reverted(p)
      BY <2>1, <2>4 DEF CommitSet, k
    <3>2. ~Publishing(j)
      BY <1>b, <2>1, <2>4 DEF Publishing, CommitSet
    <3>3. Home(j)
      BY <1>0, <2>2, <3>1, <3>2 DEF HomeAgrees
    <3>4. Over(Stored, Default)'[j] = Over(Stored, Default)[j]
      BY <1>c, <2>2, <2>4, <3>1 DEF Over
    <3>5. \A q \in Process : saving'[q].key # j => saving[q].key # j
      BY <1>b, <2>4 DEF k
    <3> QED BY <1>0, <2>2, <3>3, <3>4, <3>5 DEF Home, TypeOK
  <2> QED BY <2>3, <2>4
<1> QED BY <1>1, <1>2, <1>3, <1>4, <1>5, <1>6, <1>7 DEF Inv

\* A clean save publishes what it stored.
LEMMA PublishStep ==
  ASSUME Inv, NEW p \in Process, Publish(p)
  PROVE  Inv'
<1> USE ConfigAssumption DEF memory, history
<1>0. TypeOK /\ Savers /\ Alone /\ CleanIsSingle /\ OneRow /\ CleanAgrees /\ HomeAgrees
  BY DEF Inv
<1>1. TypeOK'
  <2>1. published' \in Configs
    BY <1>0, SavedIsKey DEF Publish, TypeOK, Savers, Configs
  <2>2. saving' \in [Process -> Save]
    BY <1>0, IdleType DEF Publish, TypeOK
  <2>3. adrift' \subseteq Key
    BY <1>0, SavedIsKey DEF Publish, TypeOK, Savers
  <2> QED BY <1>0, <2>1, <2>2, <2>3 DEF Publish, TypeOK
<1>2. Savers'
  BY <1>0 DEF Publish, Savers, Idle, TypeOK
<1>3. Alone'
  BY <1>0 DEF Publish, Alone
<1>4. CleanIsSingle'
  BY <1>0 DEF Publish, CleanIsSingle, Idle
<1>5. OneRow'
  BY <1>0 DEF Publish, OneRow, Idle
<1>6. CleanAgrees'
  BY <1>0 DEF Publish, CleanAgrees, Stored, Idle
<1>7. HomeAgrees'
  <2>1. SUFFICES ASSUME ~doubled', NEW j \in Key, j \notin adrift', ~Publishing(j)' PROVE Home(j)'
    BY DEF HomeAgrees
  <2>2. Over(Stored, Default)' = Over(Stored, Default)
    BY DEF Publish, Over, Stored
  <2>3. ~doubled
    BY <2>1 DEF Publish
  <2>4. CASE j = saving[p].key
    <3>1. saving[p].clean /\ saving[p].step = "publish"
      BY <2>1, <2>4 DEF Publish
    <3>2. Stored[j] = value[p][j]
      BY <1>0, <2>3, <2>4, <3>1 DEF CleanAgrees
    <3>3. value[p][j] \in Value /\ published'[j] = value[p][j]
      BY <1>0, <2>4 DEF Publish, TypeOK, Configs
    <3>4. Over(Stored, Default)[j] = value[p][j]
      BY <3>2, <3>3 DEF Over
    <3> QED BY <2>2, <3>3, <3>4 DEF Home
  <2>5. CASE j # saving[p].key
    <3>1. j \notin adrift /\ ~Publishing(j)
      BY <1>0, <2>1, <2>5 DEF Publish, Publishing
    <3>2. Home(j)
      BY <1>0, <2>3, <3>1 DEF HomeAgrees
    <3>3. published'[j] = published[j] /\ up' = up /\ value' = value
      BY <1>0, <2>5 DEF Publish, Configs
    <3>4. \A q \in Process : saving'[q].key # j => saving[q].key # j
      BY <1>0, <2>5 DEF Publish
    <3> QED BY <1>0, <2>2, <3>2, <3>3, <3>4 DEF Home, TypeOK
  <2> QED BY <2>4, <2>5
<1> QED BY <1>1, <1>2, <1>3, <1>4, <1>5, <1>6, <1>7 DEF Inv

\* An import lasts where no one else could contradict it.
LEMMA CommitImportStep ==
  ASSUME Inv, NEW p \in Process, CommitImport(p)
  PROVE  Inv'
<1> USE ConfigAssumption DEF memory, history
<1>0. TypeOK /\ Savers /\ Alone /\ CleanIsSingle /\ OneRow /\ CleanAgrees /\ HomeAgrees
  BY DEF Inv
<1> DEFINE config == saving[p].copy
<1>a. config \in Configs /\ saving[p].row \in Nat /\ \A q \in Process : saving[q] \in Save
  BY <1>0 DEF TypeOK, Save
<1>b. /\ saving' \in [Process -> Save] /\ saving'[p] = Idle
      /\ \A q \in Process \ {p} :
           /\ saving'[q].step = saving[q].step /\ saving'[q].key = saving[q].key
           /\ saving'[q].row = saving[q].row
           /\ saving'[q].clean => saving[q] = Idle /\ saving'[q] = Idle
           /\ saving[q] = Idle => saving'[q] = Idle
  <2>1. saving' = [q \in Process |->
                     IF q = p \/ saving[q] = Idle THEN Idle ELSE [saving[q] EXCEPT !.clean = FALSE]]
    BY DEF CommitImport
  <2>2. saving' \in [Process -> Save] /\ saving'[p] = Idle
    BY <1>a, <2>1, IdleType, UncleanType
  <2>3. ASSUME NEW q \in Process \ {p}
        PROVE  /\ saving'[q].step = saving[q].step /\ saving'[q].key = saving[q].key
               /\ saving'[q].row = saving[q].row
               /\ saving'[q].clean => saving[q] = Idle /\ saving'[q] = Idle
               /\ saving[q] = Idle => saving'[q] = Idle
    BY <1>a, <2>1, UncleanType
  <2> QED BY <2>2, <2>3
<1>c. ~doubled => Len(rows') = 1 /\ Stored' = config
  <2>1. ASSUME ~doubled PROVE rows' = <<config>> /\ Stored' = config
    BY <1>0, <1>a, <2>1, Written DEF CommitImport
  <2> QED BY <2>1
<1>d. Over(config, value[p]) \in [Key -> Value]
  BY <1>0, <1>a, OverType DEF TypeOK
<1>1. TypeOK'
  <2>1. rows' \in Seq(Configs)
    BY <1>0, <1>a, RowsType DEF CommitImport
  <2>2. data' \in [Process -> Configs] /\ value' \in [Process -> [Key -> Value]] /\ adrift' \subseteq Key
    BY <1>0, <1>a, <1>d DEF CommitImport, TypeOK
  <2> QED BY <1>0, <1>b, <2>1, <2>2 DEF CommitImport, TypeOK
<1>2. Savers'
  <2>1. up' = up
    BY DEF CommitImport
  <2>2. ASSUME NEW q \in Process \ {p}
        PROVE  /\ saving'[q].step = "none" => saving'[q] = Idle
               /\ saving'[q].step # "none" => q \in up /\ saving'[q].key # Absent
               /\ saving'[q].step = "publish" => saving'[q].key # Whole
    BY <1>0, <1>b DEF Savers
  <2> QED BY <1>b, <2>1, <2>2 DEF Savers, Idle
<1>3. Alone'
  <2>1. ASSUME ~redis, NEW q \in Process \ {p} PROVE saving[q] = Idle
    BY <1>0, <2>1 DEF Alone, Savers, CommitImport
  <2> QED BY <1>0, <1>b, <2>1 DEF CommitImport, Alone, Idle
<1>4. CleanIsSingle'
  BY <1>0, <1>b DEF CleanIsSingle, Idle
<1>5. OneRow'
  <2>1. SUFFICES ASSUME ~doubled
                 PROVE  \A q \in Process : saving'[q].step = "commit" => saving'[q].row = 1
    <3>1. doubled' = doubled
      BY DEF CommitImport
    <3>2. 1 # 0 /\ \A n : n = 1 => n =< 1
      OBVIOUS
    <3>3. ~doubled => Len(rows') = 1 /\ Len(rows') =< 1
      BY <1>c, <3>2
    <3> QED BY <3>1, <3>2, <3>3 DEF OneRow
  <2>2. saving'[p].step # "commit"
    BY <1>b DEF Idle
  <2>3. ASSUME NEW q \in Process \ {p}, saving'[q].step = "commit" PROVE saving'[q].row = 1
    <3>1. saving[q].step = "commit" /\ saving'[q].row = saving[q].row /\ saving[p].step = "commit"
      BY <1>b, <2>3 DEF CommitImport
    <3>2. saving[q].row = Len(rows) /\ saving[q].row # 0 /\ Len(rows) =< 1
      BY <1>0, <2>1, <3>1 DEF OneRow
    <3>3. Len(rows) \in Nat
      BY <1>0 DEF TypeOK
    <3>4. \A n \in Nat : n =< 1 /\ n # 0 => n = 1
      OBVIOUS
    <3> QED BY <3>1, <3>2, <3>3, <3>4
  <2> QED BY <2>2, <2>3
<1>6. CleanAgrees'
  <2>1. \A q \in Process : saving'[q].clean => saving'[q].key \notin Key
    BY <1>b DEF Idle
  <2> QED BY <2>1 DEF CleanAgrees
<1>7. HomeAgrees'
  <2>1. SUFFICES ASSUME ~doubled', NEW j \in Key, j \notin adrift', ~Publishing(j)' PROVE Home(j)'
    BY DEF HomeAgrees
  <2>2. ~doubled /\ published' = published /\ up' = up
    BY <2>1 DEF CommitImport
  <2>3. published[j] = Absent /\ config[j] # Absent /\ up = {p}
    BY <2>1 DEF CommitImport
  <2>4. value'[p][j] = config[j]
    BY <1>0, <2>3 DEF CommitImport, TypeOK, Over
  <2>5. Over(Stored, Default)'[j] = config[j]
    BY <1>c, <2>2, <2>3 DEF Over
  <2> QED BY <2>2, <2>3, <2>4, <2>5 DEF Home
<1> QED BY <1>1, <1>2, <1>3, <1>4, <1>5, <1>6, <1>7 DEF Inv

\* A refused set leaves its setting adrift.
LEMMA FailStep ==
  ASSUME Inv, NEW p \in Process, Fail(p)
  PROVE  Inv'
<1> USE ConfigAssumption DEF memory, history
<1>0. TypeOK /\ Savers /\ Alone /\ CleanIsSingle /\ OneRow /\ CleanAgrees /\ HomeAgrees
  BY DEF Inv
<1>1. TypeOK'
  <2>1. saving' \in [Process -> Save]
    BY <1>0, IdleType DEF Fail, TypeOK
  <2>2. saving[p].key # Whole => saving[p].key \in Key
    BY <1>0, SavedIsKey DEF Fail
  <2>3. adrift' \subseteq Key
    <3>1. adrift \subseteq Key
      BY <1>0 DEF TypeOK
    <3>2. adrift' = adrift \/ (saving[p].key # Whole /\ adrift' = adrift \cup {saving[p].key})
      BY DEF Fail
    <3> QED BY <2>2, <3>1, <3>2
  <2>4. counts' \in [sets : 0 .. MaxSets, imports : 0 .. MaxImports, starts : 0 .. MaxStarts, failures : 0 .. MaxFailures]
    <3>1. counts \in [sets : 0 .. MaxSets, imports : 0 .. MaxImports, starts : 0 .. MaxStarts, failures : 0 .. MaxFailures]
      BY <1>0 DEF TypeOK
    <3>2. counts.failures < MaxFailures /\ counts' = [counts EXCEPT !.failures = @ + 1]
      BY DEF Fail
    <3> QED BY <3>1, <3>2
  <2> QED BY <1>0, <2>1, <2>3, <2>4 DEF Fail, TypeOK
<1>2. Savers'
  BY <1>0 DEF Fail, Savers, Idle, TypeOK
<1>3. Alone'
  BY <1>0 DEF Fail, Alone, Idle
<1>4. CleanIsSingle'
  BY <1>0 DEF Fail, CleanIsSingle, Idle
<1>5. OneRow'
  BY <1>0 DEF Fail, OneRow, Idle
<1>6. CleanAgrees'
  BY <1>0 DEF Fail, CleanAgrees, Stored, Idle
<1>7. HomeAgrees'
  <2>1. SUFFICES ASSUME ~doubled', NEW j \in Key, j \notin adrift', ~Publishing(j)' PROVE Home(j)'
    BY DEF HomeAgrees
  <2>2. Over(Stored, Default)' = Over(Stored, Default)
    BY DEF Fail, Over, Stored
  <2>3. ~doubled /\ j \notin adrift /\ saving[p].key # j
    BY <2>1 DEF Fail
  <2>4. ~Publishing(j)
    BY <1>0, <2>1, <2>3 DEF Fail, Publishing
  <2>5. Home(j)
    BY <1>0, <2>3, <2>4 DEF HomeAgrees
  <2>6. \A q \in Process : saving'[q].key # j => saving[q].key # j
    BY <1>0, <2>3 DEF Fail
  <2> QED BY <1>0, <2>2, <2>5, <2>6 DEF Fail, Home
<1> QED BY <1>1, <1>2, <1>3, <1>4, <1>5, <1>6, <1>7 DEF Inv

-----------------------------------------------------------------------------
(* The theorems *)

LEMMA InitInv == Init => Inv
<1> SUFFICES ASSUME Init PROVE Inv
  OBVIOUS
<1> USE ConfigAssumption
<1>1. TypeOK
  <2>1. counts \in [sets : 0 .. MaxSets, imports : 0 .. MaxImports, starts : 0 .. MaxStarts, failures : 0 .. MaxFailures]
    BY DEF Init
  <2>2. rows \in Seq(Configs) /\ published \in Configs
    BY IdleType DEF Init
  <2>3. /\ data \in [Process -> Configs] /\ value \in [Process -> [Key -> Value]]
        /\ saving \in [Process -> Save]
    BY IdleType DEF Init
  <2> QED BY <2>1, <2>2, <2>3 DEF Init, TypeOK
<1>2. Savers /\ CleanIsSingle /\ CleanAgrees
  BY DEF Init, Savers, CleanIsSingle, CleanAgrees, Idle
<1>3. Alone
  BY DEF Init, Alone, Idle
<1>4. OneRow
  BY DEF Init, OneRow, Idle
<1>5. HomeAgrees
  BY DEF Init, HomeAgrees, Home, Empty
<1> QED BY <1>1, <1>2, <1>3, <1>4, <1>5 DEF Inv

LEMMA NextInv == Inv /\ [Next]_vars => Inv'
<1> SUFFICES ASSUME Inv, [Next]_vars PROVE Inv'
  OBVIOUS
<1>1. ASSUME NEW p \in Process, Step(p) PROVE Inv'
  <2>1. CASE Start(p)
    BY <2>1, StartStep
  <2>2. CASE Kill(p)
    BY <2>2, KillStep
  <2>3. ASSUME NEW k \in Key, Get(p, k) PROVE Inv'
    BY <2>3, GetStep
  <2>4. ASSUME NEW k \in Key, NEW v \in Value, Set(p, k, v) PROVE Inv'
    BY <2>4, SetStep
  <2>5. ASSUME NEW config \in Configs, Import(p, config) PROVE Inv'
    BY <2>5, ImportStep
  <2>6. CASE CommitSet(p)
    BY <2>6, CommitSetStep
  <2>7. CASE Publish(p)
    BY <2>7, PublishStep
  <2>8. CASE CommitImport(p)
    BY <2>8, CommitImportStep
  <2>9. CASE Fail(p)
    BY <2>9, FailStep
  <2> QED BY <1>1, <2>1, <2>2, <2>3, <2>4, <2>5, <2>6, <2>7, <2>8, <2>9 DEF Step
<1>2. CASE UNCHANGED vars
  BY <1>2 DEF vars, memory, history, Inv, TypeOK, Savers, Alone, CleanIsSingle, OneRow, CleanAgrees,
              HomeAgrees, Home, Publishing, Stored, Over
<1> QED BY <1>1, <1>2 DEF Next

THEOREM ConfigInvariant == Spec => []Inv
BY InitInv, NextInv, PTL DEF Spec

\* The table, Redis, the memory of the processes and the saves keep their types: an update from
\* Redis never puts its lack of a value in place of one.
THEOREM ConfigTypeCorrect == Spec => []TypeOK
BY ConfigInvariant, PTL DEF Inv

\* For any number of processes, settings and values: what is in use of a setting is what is
\* stored, and what the next start will find, unless one of the named accidents set it adrift.
THEOREM SettingsAlwaysSurvive == Spec => []SettingsSurvive
<1>1. ASSUME Inv PROVE SettingsSurvive
  <2>0. TypeOK /\ Savers /\ OneRow /\ HomeAgrees
    BY <1>1 DEF Inv
  <2>1. SUFFICES ASSUME ~doubled, NEW k \in Key \ adrift, \A p \in Process : ~About(p, k)
                 PROVE  /\ published[k] # Absent => published[k] = Over(Stored, Default)[k]
                        /\ \A p \in up : Used(p, k) = Over(Stored, Default)[k]
    BY <2>0 DEF SettingsSurvive, OneRow
  <2>2. \A p \in Process : saving[p].key # k
    BY <2>1 DEF About
  <2>3. Home(k)
    BY <2>0, <2>1, <2>2 DEF HomeAgrees, Publishing
  <2> QED BY <2>0, <2>2, <2>3 DEF Home, Used, TypeOK
<1> QED BY <1>1, ConfigInvariant, PTL

=============================================================================
