----------------------------- MODULE ChatLibrary -----------------------------
(***************************************************************************)
(* The chats of several users, one tag, and the shared copies of chats:    *)
(* routers/chats.py over models/chats.py and models/tags.py.               *)
(*                                                                         *)
(* A tag lives twice: as a name in the column meta of each chat, and as a  *)
(* row of the table tag per user, without which no page shows it.  Tags do *)
(* not influence each other, so one tag is modelled.  A share lives twice  *)
(* as well: as the column share_id of the chat, and as a copy, a chat row  *)
(* whose user is "shared-" and the chat's identifier.                      *)
(*                                                                         *)
(* All handlers but one are coroutines that never await, and one server    *)
(* process runs them: each is one step.  search_user_chats is a plain      *)
(* function on a thread: others run between its query and its deletion.    *)
(* Users name the chats their own pages show: their own, and the ones they *)
(* have a link to; to an administrator the chats of all users are shown.   *)
(***************************************************************************)
EXTENDS FiniteSets

CONSTANTS
  User,
  Admin,      \* the users with role "admin"
  Chat,       \* chat identifiers: uuid4, never used twice
  Nobody      \* the owner of an identifier not yet used

ASSUME ConstantsAssumption == Admin \subseteq User /\ Nobody \notin User

VARIABLES
  owner,      \* owner[c]: user_id, kept for chats that are gone
  live,       \* the chats in the table
  archived,   \* archived chats
  tagged,     \* chats whose meta names the tag
  rows,       \* users with a row of the tag
  shared,     \* chats with a share_id
  copies,     \* chats with a copy in the table
  copyTagged, \* chats whose copy names the tag
  swept,      \* history: chats that went with their folder
  searching   \* users whose search for the tag found no chat

shareVars == <<shared, copies, copyTagged>>
vars == <<owner, live, archived, tagged, rows, shareVars, swept, searching>>

Used  == {c \in Chat : owner[c] # Nobody}
Of(u) == {c \in live : owner[c] = u}

\* count_chats_by_tag_name_and_user_id counts these.
Counted(u) == {c \in Of(u) : c \in tagged /\ c \notin archived}

TypeOK ==
  /\ owner \in [Chat -> User \cup {Nobody}]
  /\ live \subseteq Used
  /\ archived \subseteq live /\ tagged \subseteq live /\ shared \subseteq live
  /\ copies \subseteq Used /\ copyTagged \subseteq copies
  /\ swept \subseteq Used \ live
  /\ rows \subseteq User /\ searching \subseteq User

Init ==
  /\ owner = [c \in Chat |-> Nobody]
  /\ live = {} /\ archived = {} /\ tagged = {} /\ rows = {}
  /\ shared = {} /\ copies = {} /\ copyTagged = {}
  /\ swept = {} /\ searching = {}

-----------------------------------------------------------------------------
(* Chats appear *)

\* insert_new_chat and import_chat: a new row, not archived and not shared.
Insert(u, c, t) ==
  /\ c \notin Used
  /\ owner' = [owner EXCEPT ![c] = u]
  /\ live' = live \cup {c}
  /\ tagged' = IF t THEN tagged \cup {c} ELSE tagged
  /\ UNCHANGED <<archived, shareVars, swept, searching>>

CreateNewChat(u, c) == Insert(u, c, FALSE) /\ UNCHANGED rows

\* Imports of a chat without the tag are as new chats.
ImportChat(u, c) == Insert(u, c, TRUE) /\ rows' = rows \cup {u}

CloneChat(c, new) ==
  /\ c \in live
  /\ Insert(owner[c], new, c \in tagged)
  /\ UNCHANGED rows

\* get_chat_by_share_id finds a copy as long as its chat has the share_id;
\* for an administrator get_chat_by_id finds every row, chat or copy.
CloneSharedChat(u, c, new) ==
  /\ \/ c \in copies /\ (u \in Admin \/ c \in shared)
        /\ Insert(u, new, c \in copyTagged)
     \/ u \in Admin /\ c \in live
        /\ Insert(u, new, c \in tagged)
  /\ UNCHANGED rows

-----------------------------------------------------------------------------
(* Tags *)

AddChatTag(c) ==
  /\ c \in live \ tagged
  /\ tagged' = tagged \cup {c}
  /\ rows' = rows \cup {owner[c]}
  /\ UNCHANGED <<owner, live, archived, shareVars, swept, searching>>

\* Mutant: deletes the row as the deletion of a chat does, when one counts.
RowsUnlessMany(u) ==
  IF \E d \in live : Counted(u)' \subseteq {d} THEN rows \ {u} ELSE rows

\* rows without the user's row, if no chat that counts is left.  Reads the
\* chats as the step leaves them (the step changes no owner).
RowsUnlessCounted(u) == IF Counted(u)' = {} THEN rows \ {u} ELSE rows

Untag(c) ==
  /\ tagged' = tagged \ {c}
  /\ UNCHANGED <<owner, live, archived, shareVars, swept, searching>>
  /\ rows' = RowsUnlessCounted(owner[c])

\* The row goes even if the chat did not have the tag.
DeleteChatTag(c) == c \in live /\ Untag(c)

\* Looks only at the tags the chat has.
DeleteAllTags(c) == c \in tagged /\ Untag(c)

\* update_chat_tags_by_id with the tags the model proposed: all tags are
\* removed first, and the proposed ones added with their rows.
GenerateTags(c) ==
  \/ DeleteAllTags(c)
  \/ /\ c \in live
     /\ tagged' = tagged \cup {c}
     /\ rows' = rows \cup {owner[c]}
     /\ UNCHANGED <<owner, live, archived, shareVars, swept, searching>>

\* get_user_chat_list_by_tag_name looks at archived chats as well.
ListByTag(u) ==
  /\ Of(u) \cap tagged = {}
  /\ rows' = rows \ {u}
  /\ UNCHANGED <<owner, live, archived, tagged, shareVars, swept, searching>>

\* search_user_chats leaves archived chats out.
SearchFindsNone(u) ==
  /\ Counted(u) = {} /\ u \notin searching
  /\ searching' = searching \cup {u}
  /\ UNCHANGED <<owner, live, archived, tagged, rows, shareVars, swept>>

SearchDeletesTag(u) ==
  /\ u \in searching
  /\ searching' = searching \ {u}
  /\ rows' = rows \ {u}
  /\ UNCHANGED <<owner, live, archived, tagged, shareVars, swept>>

-----------------------------------------------------------------------------
(* The archive *)

ArchiveChat(c) ==
  /\ c \in live \ archived
  /\ archived' = archived \cup {c}
  /\ UNCHANGED <<owner, live, tagged, shareVars, swept, searching>>
  /\ rows' = IF c \in tagged THEN RowsUnlessCounted(owner[c]) ELSE rows

UnarchiveChat(c) ==
  /\ c \in archived
  /\ archived' = archived \ {c}
  /\ rows' = IF c \in tagged THEN rows \cup {owner[c]} ELSE rows
  /\ UNCHANGED <<owner, live, tagged, shareVars, swept, searching>>

\* Neither touches the rows of tags.
ArchiveAll(u) ==
  /\ archived' = archived \cup Of(u)
  /\ UNCHANGED <<owner, live, tagged, rows, shareVars, swept, searching>>

UnarchiveAll(u) ==
  /\ archived' = archived \ Of(u)
  /\ UNCHANGED <<owner, live, tagged, rows, shareVars, swept, searching>>

-----------------------------------------------------------------------------
(* Shares *)

ShareChat(c) ==
  /\ c \in live
  /\ c \in shared => c \in copies
  /\ shared' = shared \cup {c}
  /\ copies' = copies \cup {c}
  /\ copyTagged' = IF c \in tagged THEN copyTagged \cup {c} ELSE copyTagged \ {c}
  /\ UNCHANGED <<owner, live, archived, tagged, rows, swept, searching>>

UnshareChat(c) ==
  /\ c \in shared
  /\ shared' = shared \ {c}
  /\ copies' = copies \ {c}
  /\ copyTagged' = copyTagged \ {c}
  /\ UNCHANGED <<owner, live, archived, tagged, rows, swept, searching>>

-----------------------------------------------------------------------------
(* Chats disappear *)

\* Mutant: deletes the chats and not what points to them.
DropChatsOnly(cs) == live' = live \ cs /\ UNCHANGED <<owner, archived, tagged, shared, searching>>

Drop(cs) ==
  /\ live' = live \ cs
  /\ archived' = archived \ cs
  /\ tagged' = tagged \ cs
  /\ shared' = shared \ cs
  /\ UNCHANGED <<owner, searching>>

DropCopies(cs) == copies' = copies \ cs /\ copyTagged' = copyTagged \ cs

\* The rows examined are those of the user who deletes, even if it is an
\* administrator and the chat another's; the row goes if one chat counts,
\* even if it is not the one deleted, which may be archived.
DeleteChat(u, c) ==
  /\ c \in live /\ (u = owner[c] \/ u \in Admin)
  /\ rows' = IF c \in tagged /\ (\E d \in live : Counted(u) = {d})
               THEN rows \ {u} ELSE rows
  /\ Drop({c}) /\ DropCopies({c})
  /\ UNCHANGED swept

\* Mutant: the chats are deleted before their copies are looked up.
DeleteAllChatsFirst(u) ==
  /\ Drop(Of(u))
  /\ UNCHANGED <<rows, copies, copyTagged, swept>>

DeleteAllChats(u) ==
  /\ Drop(Of(u)) /\ DropCopies(Of(u))
  /\ UNCHANGED <<rows, swept>>

\* delete_chats_by_user_id_and_folder_id; cs is what the folder holds.
DeleteFolder(u, cs) ==
  /\ cs \subseteq Of(u)
  /\ Drop(cs)
  /\ swept' = swept \cup cs
  /\ UNCHANGED <<rows, copies, copyTagged>>

-----------------------------------------------------------------------------

UserStep(u) ==
  \/ \E c \in Chat : CreateNewChat(u, c) \/ ImportChat(u, c)
  \/ \E c, new \in Chat : CloneSharedChat(u, c, new)
  \/ ListByTag(u) \/ SearchFindsNone(u) \/ SearchDeletesTag(u)
  \/ ArchiveAll(u) \/ UnarchiveAll(u)
  \/ \E c \in Chat : DeleteChat(u, c)
  \/ DeleteAllChats(u)
  \/ \E cs \in SUBSET Of(u) : DeleteFolder(u, cs)

ChatStep(c) ==
  \/ \E new \in Chat : CloneChat(c, new)
  \/ AddChatTag(c) \/ DeleteChatTag(c) \/ DeleteAllTags(c) \/ GenerateTags(c)
  \/ ArchiveChat(c) \/ UnarchiveChat(c)
  \/ ShareChat(c) \/ UnshareChat(c)

Next == (\E u \in User : UserStep(u)) \/ (\E c \in Chat : ChatStep(c))

Spec == Init /\ [][Next]_vars

-----------------------------------------------------------------------------
(* Properties *)

(* A chat has a share_id exactly when its copy exists: a link that is      *)
(* handed out leads to a copy, and a chat that is not shared has left no   *)
(* copy behind that the link still opens.                                  *)
SharesHaveCopies == \A c \in live : c \in shared <=> c \in copies

(* A copy outlives its chat only if the chat went with its folder: every   *)
(* other deletion takes the copies along.                                  *)
OrphansFromFolders == copies \subseteq live \cup swept

(* Both, for every sequence of the functions that share, unshare and delete. *)
SharesAndCopies == SharesHaveCopies /\ OrphansFromFolders

(* A user loses the row of the tag while a chat outside the archive names  *)
(* it only if an archived chat or a chat of another user is deleted, or a  *)
(* search acts on what it found before.  A loss of any other kind would be *)
(* a tag that vanishes from the user's pages with its chats still tagged.  *)
RowLost(u) == u \in rows /\ u \notin rows' /\ Counted(u)' # {}
Blame(u) ==
  \/ \E c \in live \ live' : c \in archived \/ owner[c] # u
  \/ u \in searching
LossesExplained == \A u \in User : RowLost(u) => Blame(u)
TagLostOnlyByDeletionOrSearch == [][LossesExplained]_vars

(* A chat that enters the library with a tag enters with its owner's row,  *)
(* so that the tag is shown.  The change log says that clones of chats and *)
(* of shared chats replicate their tags; no run lists this formula, which   *)
(* TLC refutes on the constants of the run chats: clones bring no row.     *)
NewcomersShowTheirTags ==
  [][ \A c \in live' \ live : c \in tagged' => owner'[c] \in rows' ]_vars

=============================================================================
