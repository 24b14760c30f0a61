------------------------------- MODULE Folders -------------------------------
(***************************************************************************)
(* The chat folders of one user: the handlers of routers/folders.py over   *)
(* models/folders.py, and the folder that a chat row names.                *)
(*                                                                         *)
(* Every handler but one is a coroutine that never awaits, so it is one    *)
(* step.  create_folder is a plain function that runs on a thread: others  *)
(* run between its check and its insertion.  Clients act on the folder     *)
(* lists they last saw, so they may name folders that are gone.            *)
(* Names carry the prefix Folders where ChatLibrary has its own.           *)
(***************************************************************************)
EXTENDS Naturals, FiniteSets

CONSTANTS
  Folder,     \* folder identifiers: uuid4, never used twice
  Filed,      \* the chats of the user, which may be filed in folders
  Name,
  Similar,    \* <<n, m>>: the ILIKE pattern n matches the name m
  Root,       \* parent_id or folder_id None
  Gone,       \* the place of a chat that is not in the table
  Depth,      \* how many calls Python nests before RecursionError
  MaxPending  \* bound on the creations under way

ASSUME FoldersAssumption ==
  /\ Similar \subseteq Name \X Name /\ \A n \in Name : <<n, n>> \in Similar
  /\ IsFiniteSet(Folder) /\ Depth \in Nat /\ Depth > Cardinality(Folder)
  /\ Root \notin Folder /\ Gone \notin Folder \cup {Root}
  /\ MaxPending \in Nat

VARIABLES
  folders,    \* the folder rows
  known,      \* folders that are or were in the table
  parent,     \* parent[f]: the column parent_id
  name,       \* name[f]
  pending,    \* names whose creation is checked and not inserted
  place,      \* place[c]: the column folder_id of chat c
  deleted     \* folders whose deletion was answered with True

folderVars == <<folders, known, parent, name>>
foldersVars == <<folderVars, pending, place, deleted>>

FoldersTypeOK ==
  /\ folders \subseteq known /\ known \subseteq Folder
  /\ parent \in [Folder -> Folder \cup {Root}]
  /\ name \in [Folder -> Name]
  /\ pending \in [Name -> 0..MaxPending]
  /\ place \in [Filed -> Folder \cup {Root, Gone}]
  /\ deleted \subseteq known

FoldersInit ==
  /\ folders = {} /\ known = {}
  /\ parent = [f \in Folder |-> Root]
  /\ name \in [Folder -> Name]
  /\ pending = [n \in Name |-> 0]
  /\ place = [c \in Filed |-> Gone]
  /\ deleted = {}

Children(p) == {f \in folders : parent[f] = p}

\* get_folder_by_parent_id_and_user_id_and_name: the rows it may return first.
Like(p, n)  == {f \in Children(p) : <<n, name[f]>> \in Similar}
Named(p, n) == {f \in Children(p) : name[f] = n}

-----------------------------------------------------------------------------
(* create_folder *)

CreateCheck(n) ==
  /\ Like(Root, n) = {}
  /\ pending[n] < MaxPending
  /\ pending' = [pending EXCEPT ![n] = @ + 1]
  /\ UNCHANGED <<folderVars, place, deleted>>

\* name[f] stands for the name that comes with the request.
CreateInsert(f) ==
  /\ f \notin known /\ pending[name[f]] > 0
  /\ pending' = [pending EXCEPT ![name[f]] = @ - 1]
  /\ folders' = folders \cup {f}
  /\ known'   = known \cup {f}
  /\ UNCHANGED <<parent, name, place, deleted>>

-----------------------------------------------------------------------------
(* update_folder_name_by_id, and the second check in update_folder_by_id *)

RenameOnce(f, n) ==   \* mutant of Rename: looks for the new name among the roots
  /\ f \in folders
  /\ Like(Root, n)  # {} => f \in Like(Root, n)
  /\ name' = [name EXCEPT ![f] = n]
  /\ UNCHANGED <<folders, known, parent, pending, place, deleted>>

Rename(f, n) ==
  /\ f \in folders
  /\ Like(parent[f], n)  # {} => f \in Like(parent[f], n)
  /\ Named(parent[f], n) # {} => f \in Named(parent[f], n)
  /\ name' = [name EXCEPT ![f] = n]
  /\ UNCHANGED <<folders, known, parent, pending, place, deleted>>

\* update_folder_parent_id_by_id.  The sidebar refuses to drop a folder on itself.
Move(f, p) ==
  /\ f \in folders /\ p # f
  /\ Like(p, name[f]) = {}
  /\ parent' = [parent EXCEPT ![f] = p]
  /\ UNCHANGED <<folders, known, name, pending, place, deleted>>

\* get_folders: a folder whose parent is not in the table goes to the root.
Orphans == {f \in folders : parent[f] \notin folders \cup {Root}}

ListBlank ==   \* mutant of List: not None but another value that is no folder
  /\ parent' = [f \in Folder |-> IF f \in Orphans THEN Gone ELSE parent[f]]
  /\ UNCHANGED <<folders, known, name, pending, place, deleted>>

List ==
  /\ parent' = [f \in Folder |-> IF f \in Orphans THEN Root ELSE parent[f]]
  /\ UNCHANGED <<folders, known, name, pending, place, deleted>>

-----------------------------------------------------------------------------
(* delete_folder_by_id *)

DeletionOfChildren(rank) ==   \* mutant of Deletion: it does not descend
  [d \in 0..Depth |-> [f \in Folder |-> [raises |-> FALSE, gone |-> Children(f)]]]

\* A call of delete_children that may not call any more.
RecursionError == [f \in Folder |-> [raises |-> TRUE, gone |-> {}]]

\* delete_children over rows that come in the order `rank', where `result' is
\* what the nested calls come to: `gone' are the folders it has deleted when it
\* returns, or raises.
DeleteChildren(rank, result) ==
  [f \in Folder |->
    LET bad   == {k \in Children(f) : result[k].raises}
        done  == {k \in Children(f) : \A b \in bad : rank[k] < rank[b]}
        first == {b \in bad : \A c \in bad : rank[b] <= rank[c]}
    IN [raises |-> bad # {},
        gone   |-> (UNION {result[k].gone \cup {k} : k \in done})
                   \cup UNION {result[b].gone : b \in first}]]

\* The same with d calls left.
Deletion(rank) ==
  LET delete_children[d \in 0..Depth] ==
        IF d = 0 THEN RecursionError ELSE DeleteChildren(rank, delete_children[d - 1])
  IN delete_children

Rankings == {r \in [Folder -> 1..Cardinality(Folder)] :
               \A f, g \in Folder : f # g => r[f] # r[g]}

\* A RecursionError is caught and answered like success, with no identifier:
\* what was deleted stays deleted, and no chat is.
Delete(f) ==
  \E rank \in Rankings :
    LET run == Deletion(rank)[Depth][f] IN
    /\ f \in folders
    /\ folders' = folders \ (IF run.raises THEN run.gone ELSE run.gone \cup {f})
    /\ place'   = IF run.raises THEN place
                  ELSE [c \in Filed |-> IF place[c] \in run.gone \cup {f} THEN Gone ELSE place[c]]
    /\ deleted' = deleted \cup {f}
    /\ UNCHANGED <<known, parent, name, pending>>

-----------------------------------------------------------------------------
\* insert_new_chat, or update_chat_folder_id_by_id: the folder is not looked up.
PutChat(c, p) ==
  /\ place' = [place EXCEPT ![c] = p]
  /\ UNCHANGED <<folderVars, pending, deleted>>

FoldersNext ==
  \/ \E n \in Name : CreateCheck(n)
  \/ \E f \in Folder :
       \/ CreateInsert(f)
       \/ Delete(f)
       \/ \E n \in Name : Rename(f, n)
       \/ \E p \in known \cup {Root} : Move(f, p)
  \/ List
  \/ \E c \in Filed, p \in known \cup {Root} : PutChat(c, p)

FoldersSpec == FoldersInit /\ [][FoldersNext]_foldersVars

-----------------------------------------------------------------------------
(* Properties *)

\* The folders below f: the least set with the children of f and of its members.
Below(f) ==
  {g \in folders : \A S \in SUBSET folders :
     Children(f) \subseteq S /\ (\A k \in S : Children(k) \subseteq S) => g \in S}

\* A deletion takes a folder, everything below it and every chat in these, and
\* nothing else.  Of a folder that is below itself it takes no folder of the
\* cycle: it fails before it gets that far.
TakesSubtree(f) ==
  IF f \in Below(f)
  THEN \A g \in folders : g \in Below(f) /\ f \in Below(g) => g \in folders'
  ELSE /\ folders \ folders' = {f} \cup Below(f)
       /\ \A c \in Filed : place'[c] = IF place[c] \in {f} \cup Below(f) THEN Gone ELSE place[c]

\* Deletions leave no folder without its parent, not even those that fail half
\* way: rows are deleted from the leaves up.
LeavesNoOrphans == folders \ folders' # {} => Orphans' \subseteq Orphans

DeletionIsClean ==
  [][LeavesNoOrphans /\ \A f \in deleted' \ deleted : TakesSubtree(f)]_foldersVars

\* Two folders of one name and one parent.
Twins == {fg \in folders \X folders :
            fg[1] # fg[2] /\ parent[fg[1]] = parent[fg[2]] /\ name[fg[1]] = name[fg[2]]}

\* "Folder already exists": renaming and moving never make twins.  Creations
\* that overlap do, and so does get_folders when it brings orphans to the root.
TwinsByCreationOrRescue ==
  [][\A fg \in Twins' \ Twins : \E f \in {fg[1], fg[2]} : f \notin folders \/ f \in Orphans]_foldersVars

\* "Ensuring proper cascading deletion of nested folder structures": a folder
\* whose deletion was answered with True is gone.  No run lists this formula: TLC
\* refutes it on the constants of the run folders, with a folder that was moved
\* below itself.
DeletedIsGone == deleted \cap folders = {}
=============================================================================
