-------------------------- MODULE ChatLibraryProofs --------------------------
(***************************************************************************)
(* Proofs about ChatLibrary: the shares of chats and their copies agree,   *)
(* copies outlive their chats only by way of folders, and a user's row of  *)
(* a tag is lost under chats that need it in two ways only.                *)
(*                                                                         *)
(* Then about Folders, for any number of them: what the recursive deletion *)
(* of a folder takes, by induction over the calls it has left, and where   *)
(* two folders of one name and one parent come from.                       *)
(***************************************************************************)
EXTENDS ChatLibrary, Folders, FiniteSetTheorems, WellFoundedInduction, TLAPS

\* TypeOK says that an unused identifier is in no set, without which a chat
\* could be inserted as already shared.
IInv == TypeOK /\ SharesHaveCopies /\ OrphansFromFolders

LEMMA InitInv == Init => IInv
BY ConstantsAssumption DEF Init, IInv, TypeOK, SharesHaveCopies, OrphansFromFolders, Used

\* What Insert does, whatever the tag.
Appears(u, c) ==
  /\ c \notin Used
  /\ owner' = [owner EXCEPT ![c] = u]
  /\ live' = live \cup {c}
  /\ tagged' \subseteq tagged \cup {c}
  /\ UNCHANGED <<archived, shareVars, swept, searching>>

\* A row that is inserted has no trace in the other sets.
LEMMA InsertInv ==
  ASSUME IInv, NEW u \in User, NEW c \in Chat, Appears(u, c), rows' \subseteq User
  PROVE  IInv'
<1>1. TypeOK'
  BY ConstantsAssumption DEF IInv, TypeOK, Appears, Used, shareVars
<1>2. SharesHaveCopies' /\ OrphansFromFolders'
  BY ConstantsAssumption DEF IInv, TypeOK, SharesHaveCopies, OrphansFromFolders,
     Appears, Used, shareVars
<1>3. QED BY <1>1, <1>2 DEF IInv

\* Tags, rows and the archive are no part of the shares.
LEMMA KeepInv ==
  ASSUME IInv, UNCHANGED <<owner, live, shareVars, swept>>,
         archived' \subseteq live, tagged' \subseteq live,
         rows' \subseteq User, searching' \subseteq User
  PROVE  IInv'
BY DEF IInv, TypeOK, SharesHaveCopies, OrphansFromFolders, Used, shareVars

LEMMA UserStepInv ==
  ASSUME IInv, NEW u \in User, UserStep(u)
  PROVE  IInv'
<1> USE DEF IInv
<1>1. ASSUME NEW c \in Chat, CreateNewChat(u, c)
      PROVE  IInv'
  <2>1. Appears(u, c) /\ rows' \subseteq User
    BY <1>1 DEF CreateNewChat, Insert, Appears, TypeOK
  <2>2. QED BY <2>1, InsertInv
<1>2. ASSUME NEW c \in Chat, ImportChat(u, c)
      PROVE  IInv'
  <2>1. Appears(u, c) /\ rows' \subseteq User
    BY <1>2 DEF ImportChat, Insert, Appears, TypeOK
  <2>2. QED BY <2>1, InsertInv
<1>3. ASSUME NEW c \in Chat, NEW new \in Chat, CloneSharedChat(u, c, new)
      PROVE  IInv'
  <2>1. Appears(u, new)
    BY <1>3 DEF CloneSharedChat, Insert, Appears
  <2>2. rows' \subseteq User
    BY <1>3 DEF CloneSharedChat, TypeOK
  <2>3. QED BY <2>1, <2>2, InsertInv
<1>4. CASE ListByTag(u) \/ SearchFindsNone(u) \/ SearchDeletesTag(u)
           \/ ArchiveAll(u) \/ UnarchiveAll(u)
  <2>1. /\ UNCHANGED <<owner, live, shareVars, swept>>
        /\ archived' \subseteq live /\ tagged' \subseteq live
        /\ rows' \subseteq User /\ searching' \subseteq User
    BY <1>4 DEF ListByTag, SearchFindsNone, SearchDeletesTag, ArchiveAll,
       UnarchiveAll, TypeOK, Of
  <2>2. QED BY <2>1, KeepInv
<1>5. ASSUME NEW c \in Chat, DeleteChat(u, c)
      PROVE  IInv'
  <2>1. rows' \subseteq User
    BY <1>5 DEF DeleteChat, TypeOK
  <2>2. QED
    BY <1>5, <2>1 DEF DeleteChat, Drop, DropCopies, TypeOK, SharesHaveCopies,
       OrphansFromFolders, Used
<1>6. CASE DeleteAllChats(u)
  BY <1>6 DEF DeleteAllChats, Drop, DropCopies, TypeOK, SharesHaveCopies,
     OrphansFromFolders, Used
<1>7. ASSUME NEW cs \in SUBSET Of(u), DeleteFolder(u, cs)
      PROVE  IInv'
  <2>1. cs \subseteq live
    BY DEF Of
  <2>2. TypeOK'
    BY <1>7, <2>1 DEF DeleteFolder, Drop, TypeOK, Used
  <2>3. SharesHaveCopies' /\ OrphansFromFolders'
    BY <1>7, <2>1 DEF DeleteFolder, Drop, TypeOK, SharesHaveCopies,
       OrphansFromFolders
  <2>4. QED BY <2>2, <2>3
<1>8. QED
  BY <1>1, <1>2, <1>3, <1>4, <1>5, <1>6, <1>7 DEF UserStep

LEMMA ChatStepInv ==
  ASSUME IInv, NEW c \in Chat, ChatStep(c)
  PROVE  IInv'
<1>1. ASSUME NEW new \in Chat, CloneChat(c, new)
      PROVE  IInv'
  <2>1. owner[c] \in User
    BY <1>1 DEF CloneChat, IInv, TypeOK, Used
  <2>2. Appears(owner[c], new)
    BY <1>1 DEF CloneChat, Insert, Appears
  <2>3. rows' \subseteq User
    BY <1>1 DEF CloneChat, IInv, TypeOK
  <2>4. QED BY <2>1, <2>2, <2>3, InsertInv
<1>2. CASE \/ AddChatTag(c) \/ DeleteChatTag(c) \/ DeleteAllTags(c)
           \/ GenerateTags(c) \/ ArchiveChat(c) \/ UnarchiveChat(c)
  <2>1. c \in live /\ owner[c] \in User
    BY <1>2 DEF AddChatTag, DeleteChatTag, DeleteAllTags, GenerateTags,
       ArchiveChat, UnarchiveChat, IInv, TypeOK, Used
  <2>2. /\ UNCHANGED <<owner, live, shareVars, swept>>
        /\ archived' \subseteq live /\ tagged' \subseteq live
        /\ searching' \subseteq User
    BY <1>2, <2>1 DEF AddChatTag, DeleteChatTag, DeleteAllTags, GenerateTags,
       ArchiveChat, UnarchiveChat, Untag, IInv, TypeOK
  <2>3. rows' \subseteq User
    BY <1>2, <2>1 DEF AddChatTag, DeleteChatTag, DeleteAllTags, GenerateTags,
       ArchiveChat, UnarchiveChat, Untag, RowsUnlessCounted, IInv, TypeOK
  <2>4. QED BY <2>2, <2>3, KeepInv
<1>3. CASE ShareChat(c)
  BY <1>3 DEF ShareChat, IInv, TypeOK, SharesHaveCopies, OrphansFromFolders, Used
<1>4. CASE UnshareChat(c)
  BY <1>4 DEF UnshareChat, IInv, TypeOK, SharesHaveCopies, OrphansFromFolders, Used
<1>5. QED
  BY <1>1, <1>2, <1>3, <1>4 DEF ChatStep

LEMMA StepInv == IInv /\ [Next]_vars => IInv'
<1> SUFFICES ASSUME IInv, [Next]_vars PROVE IInv'
  OBVIOUS
<1>1. ASSUME NEW u \in User, UserStep(u) PROVE IInv'
  BY <1>1, UserStepInv
<1>2. ASSUME NEW c \in Chat, ChatStep(c) PROVE IInv'
  BY <1>2, ChatStepInv
<1>3. CASE UNCHANGED vars
  BY <1>3 DEF vars, shareVars, IInv, TypeOK, SharesHaveCopies, OrphansFromFolders, Used
<1>4. QED BY <1>1, <1>2, <1>3 DEF Next

THEOREM Invariant == Spec => []IInv
BY InitInv, StepInv, PTL DEF Spec

(* The types of all variables: every set holds chats that are live, or at  *)
(* least were.                                                             *)
THEOREM TypeCorrect == Spec => []TypeOK
<1>1. IInv => TypeOK BY DEF IInv
<1>2. QED BY <1>1, Invariant, PTL

(* Every share_id leads to a copy, every copy of a live chat has its       *)
(* share_id, and no deletion but that of a folder leaves a copy behind, for *)
(* any number of users and chats.                                          *)
THEOREM SharesAndCopiesAgree == Spec => []SharesAndCopies
<1>1. IInv => SharesAndCopies BY DEF IInv, SharesAndCopies
<1>2. QED BY <1>1, Invariant, PTL

-----------------------------------------------------------------------------
(* The rows of tags *)

LEMMA UserStepRows ==
  ASSUME TypeOK, NEW u \in User, UserStep(u), NEW v \in User, RowLost(v)
  PROVE  Blame(v)
<1>1. CASE ListByTag(u)
  BY <1>1 DEF ListByTag, RowLost, Counted, Of
<1>2. CASE SearchDeletesTag(u)
  BY <1>2 DEF SearchDeletesTag, RowLost, Blame
<1>3. ASSUME NEW c \in Chat, DeleteChat(u, c)
      PROVE  Blame(v)
  <2>1. v = u /\ c \in tagged /\ c \in live
    BY <1>3 DEF DeleteChat, RowLost
  <2>2. PICK d \in live : Counted(u) = {d}
    BY <1>3 DEF DeleteChat, RowLost
  <2>3. c \in live \ live'
    BY <1>3 DEF DeleteChat, Drop
  <2>4. CASE c \in Counted(u)
    <3>1. Counted(u)' \subseteq Counted(u) \ {c}
      BY <1>3 DEF DeleteChat, Drop, Counted, Of, TypeOK
    <3>2. QED BY <2>1, <2>2, <2>4, <3>1 DEF RowLost
  <2>5. CASE c \notin Counted(u)
    BY <2>1, <2>3, <2>5 DEF Blame, Counted, Of
  <2>6. QED BY <2>4, <2>5
<1>4. QED
  <2>1. rows \subseteq rows' \/ ListByTag(u) \/ SearchDeletesTag(u)
        \/ \E c \in Chat : DeleteChat(u, c)
    BY DEF UserStep, CreateNewChat, ImportChat, CloneSharedChat,
       SearchFindsNone, ArchiveAll, UnarchiveAll, DeleteAllChats, DeleteFolder
  <2>2. QED BY <1>1, <1>2, <1>3, <2>1 DEF RowLost

LEMMA ChatStepRows ==
  ASSUME TypeOK, NEW c \in Chat, ChatStep(c), NEW v \in User
  PROVE  ~RowLost(v)
<1>1. rows \subseteq rows' \/ (owner' = owner /\ rows' = RowsUnlessCounted(owner[c]))
  BY DEF ChatStep, CloneChat, AddChatTag, DeleteChatTag, DeleteAllTags,
     GenerateTags, Untag, ArchiveChat, UnarchiveChat, ShareChat, UnshareChat
<1>2. QED
  BY <1>1 DEF RowsUnlessCounted, RowLost

(* A row is lost under chats that need it only by the deletion of an       *)
(* archived chat or of another's, or by a search that acts late.           *)
THEOREM TagLossExplained == Spec => TagLostOnlyByDeletionOrSearch
<1>1. ASSUME TypeOK, [Next]_vars
      PROVE  [LossesExplained]_vars
  <2>1. ASSUME NEW u \in User, UserStep(u), NEW v \in User, RowLost(v)
        PROVE  Blame(v)
    BY <1>1, <2>1, UserStepRows
  <2>2. ASSUME NEW c \in Chat, ChatStep(c), NEW v \in User
        PROVE  ~RowLost(v)
    BY <1>1, <2>2, ChatStepRows
  <2>3. QED BY <1>1, <2>1, <2>2 DEF Next, LossesExplained
<1>2. QED
  BY <1>1, TypeCorrect, PTL DEF Spec, TagLostOnlyByDeletionOrSearch

-----------------------------------------------------------------------------
(* Folders *)

\* Induction over the numbers, for a set of them, from the minimal element of
\* what it leaves out.
LEMMA NatSetInduction ==
  ASSUME NEW G, 0 \in G, \A n \in Nat : n \in G => n + 1 \in G
  PROVE  Nat \subseteq G
<1> DEFINE T == Nat \ G
<1> SUFFICES ASSUME T # {} PROVE FALSE
  OBVIOUS
<1>1. IsWellFoundedOn(OpToRel(<, Nat), Nat)
  BY NatLessThanWellFounded, Zenon
<1>2. PICK x \in T : \A y \in T : ~(<<y, x>> \in OpToRel(<, Nat))
  <2>1. T \subseteq Nat
    OBVIOUS
  <2> HIDE DEF T
  <2> QED
    BY <1>1, <2>1, WFMin, Zenon
<1>3. x \in Nat /\ \A y \in T : ~(y < x)
  BY <1>2 DEF OpToRel
<1>4. x # 0
  BY <1>2
<1>5. x - 1 \in Nat /\ x - 1 < x /\ x = (x - 1) + 1
  BY <1>3, <1>4
<1>6. x - 1 \in G
  BY <1>3, <1>5
<1> QED
  BY <1>2, <1>5, <1>6

-----------------------------------------------------------------------------
(* The recursion of delete_children *)

Calls(rank, n, g) ==
  g = [d \in 0..n |-> IF d = 0 THEN RecursionError ELSE DeleteChildren(rank, g[d - 1])]

LEMMA CallsExist ==
  ASSUME NEW rank
  PROVE  \A n \in Nat : \E g : Calls(rank, n, g)
<1> DEFINE G == {n \in Nat : \E g : Calls(rank, n, g)}
<1>1. 0 \in G
  <2>1. Calls(rank, 0, [d \in 0..0 |-> RecursionError])
    BY DEF Calls
  <2> QED
    BY <2>1
<1>2. ASSUME NEW n \in Nat, n \in G PROVE n + 1 \in G
  <2>1. PICK g : Calls(rank, n, g)
    BY <1>2
  <2> DEFINE h == [d \in 0..n + 1 |-> IF d \in 0..n THEN g[d] ELSE DeleteChildren(rank, g[n])]
  <2>2. ASSUME NEW d \in 0..n + 1
        PROVE  h[d] = IF d = 0 THEN RecursionError ELSE DeleteChildren(rank, h[d - 1])
    <3>1. CASE d \in 0..n
      <4>1. h[d] = g[d] /\ (d # 0 => d - 1 \in 0..n /\ h[d - 1] = g[d - 1])
        BY <3>1
      <4>2. g[d] = IF d = 0 THEN RecursionError ELSE DeleteChildren(rank, g[d - 1])
        BY <2>1, <3>1 DEF Calls
      <4> QED
        BY <4>1, <4>2
    <3>2. CASE d = n + 1
      <4>1. d - 1 = n /\ d # 0 /\ d \notin 0..n /\ n \in 0..n /\ n \in 0..n + 1
        BY <3>2
      <4>2. h[d] = DeleteChildren(rank, g[n]) /\ h[d - 1] = g[n]
        BY <4>1
      <4> QED
        BY <4>1, <4>2
    <3> QED
      BY <3>1, <3>2
  <2>3. Calls(rank, n + 1, h)
    BY <2>2 DEF Calls
  <2> QED
    BY <2>3
<1> HIDE DEF G
<1>3. Nat \subseteq G
  BY <1>1, <1>2, NatSetInduction
<1> QED
  BY <1>3 DEF G

LEMMA DeletionUnfolds ==
  ASSUME NEW rank
  PROVE  /\ Deletion(rank)[0] = RecursionError
         /\ \A d \in 0..Depth : d # 0 => Deletion(rank)[d] = DeleteChildren(rank, Deletion(rank)[d - 1])
<1>1. \E g : Calls(rank, Depth, g)
  BY CallsExist, FoldersAssumption DEF FoldersAssumption
<1>2. Calls(rank, Depth, Deletion(rank))
  BY <1>1 DEF Deletion, Calls
<1> QED
  BY <1>2, FoldersAssumption DEF Calls, FoldersAssumption
-----------------------------------------------------------------------------
(* What is below a folder *)

LEMMA BelowContains ==
  ASSUME NEW f
  PROVE  /\ Below(f) \subseteq folders /\ Children(f) \subseteq Below(f)
         /\ \A k \in Below(f) : Children(k) \subseteq Below(f)
BY DEF Below, Children

LEMMA BelowLeast ==
  ASSUME NEW f, NEW S \in SUBSET folders,
         Children(f) \subseteq S, \A k \in S : Children(k) \subseteq S
  PROVE  Below(f) \subseteq S
BY DEF Below

LEMMA BelowDescends ==
  ASSUME NEW f, NEW k \in Below(f)
  PROVE  Below(k) \subseteq Below(f)
<1>1. Below(f) \in SUBSET folders /\ Children(k) \subseteq Below(f)
  BY BelowContains
<1> QED
  BY <1>1, BelowContains, BelowLeast

\* A folder is below itself exactly if one of its children is: they are on one cycle.
LEMMA CycleGoesDown ==
  ASSUME NEW f, f \in Below(f)
  PROVE  \E k \in Children(f) : k \in Below(k)
<1> DEFINE S == Children(f) \cup UNION {Below(k) : k \in Children(f)}
<1>1. S \in SUBSET folders /\ Children(f) \subseteq S
  BY BelowContains DEF Children
<1>2. ASSUME NEW k \in S PROVE Children(k) \subseteq S
  <2>1. CASE k \in Children(f)
    BY <2>1, BelowContains
  <2>2. ASSUME NEW c \in Children(f), k \in Below(c) PROVE Children(k) \subseteq S
    BY <2>2, BelowContains
  <2> QED
    BY <2>1, <2>2
<1>3. f \in S
  <2> HIDE DEF S
  <2> QED
    BY <1>1, <1>2, BelowLeast
<1>4. CASE f \in Children(f)
  BY <1>4
<1>5. ASSUME NEW k \in Children(f), f \in Below(k) PROVE k \in Below(k)
  BY <1>5, BelowContains
<1> QED
  BY <1>3, <1>4, <1>5

LEMMA CycleGoesUp ==
  ASSUME NEW f, NEW k \in Children(f), k \in Below(k)
  PROVE  f \in Below(f)
<1> DEFINE S == {x \in Below(k) : parent[x] \in Below(k) \cup {k}}
<1>1. S \in SUBSET folders /\ Children(k) \subseteq S
  BY BelowContains DEF Children
<1>2. \A x \in S : Children(x) \subseteq S
  BY BelowContains DEF Children
<1>3. k \in S
  <2> HIDE DEF S
  <2> QED
    BY <1>1, <1>2, BelowLeast
<1>4. parent[k] = f
  BY DEF Children
<1>5. k \in Below(f)
  BY BelowContains
<1> QED
  BY <1>3, <1>4, <1>5, BelowDescends

-----------------------------------------------------------------------------
(* What delete_children does *)

\* Whatever it comes to, it deletes from the leaves up, only what is below the
\* folder, nothing of a cycle; without an exception it deletes the children.
Sound(result) ==
  /\ result \in [Folder -> [raises : BOOLEAN, gone : SUBSET folders]]
  /\ \A f \in Folder :
       /\ result[f].gone \subseteq Below(f)
       /\ \A p \in result[f].gone : Children(p) \subseteq result[f].gone /\ p \notin Below(p)
       /\ ~result[f].raises => Children(f) \subseteq result[f].gone
       /\ f \in Below(f) => result[f].raises

\* It raises only on a cycle, or with more folders than calls.
Deep(result, d) ==
  \A f \in Folder : result[f].raises => f \in Below(f) \/ Cardinality(Below(f)) >= d

LEMMA RaisedSound == Sound(RecursionError)
BY DEF Sound, RecursionError

\* The children it has deleted did not raise; `first' is the one that did, if any.
LEMMA CallOutcome ==
  ASSUME NEW rank \in [Folder -> Nat], NEW result, NEW f \in Folder,
         result \in [Folder -> [raises : BOOLEAN, gone : SUBSET folders]], folders \subseteq Folder
  PROVE  \E done, first \in SUBSET Children(f) :
           /\ DeleteChildren(rank, result)[f] =
                [raises |-> \E k \in Children(f) : result[k].raises,
                 gone |-> (UNION {result[k].gone \cup {k} : k \in done}) \cup UNION {result[b].gone : b \in first}]
           /\ \A k \in done : ~result[k].raises
           /\ (\A k \in Children(f) : ~result[k].raises) => done = Children(f)
<1> DEFINE bad   == {k \in Children(f) : result[k].raises}
           done  == {k \in Children(f) : \A b \in bad : rank[k] < rank[b]}
           first == {b \in bad : \A c \in bad : rank[b] <= rank[c]}
<1>1. DeleteChildren(rank, result)[f] =
        [raises |-> bad # {},
         gone   |-> (UNION {result[k].gone \cup {k} : k \in done}) \cup UNION {result[b].gone : b \in first}]
  BY DEF DeleteChildren
<1>2. (bad # {}) = (\E k \in Children(f) : result[k].raises)
  OBVIOUS
<1>3. \A k \in done : ~result[k].raises
  <2>1. \A k \in Children(f) : rank[k] \in Nat
    BY DEF Children
  <2>2. \A k \in Children(f) : ~(rank[k] < rank[k])
    BY <2>1
  <2> QED
    BY <2>2
<1>4. (\A k \in Children(f) : ~result[k].raises) => done = Children(f)
  OBVIOUS
<1>5. done \in SUBSET Children(f) /\ first \in SUBSET Children(f)
  OBVIOUS
<1> HIDE DEF bad, done, first
<1>6. DeleteChildren(rank, result)[f] =
        [raises |-> \E k \in Children(f) : result[k].raises,
         gone   |-> (UNION {result[k].gone \cup {k} : k \in done}) \cup UNION {result[b].gone : b \in first}]
  BY <1>1, <1>2
<1> QED
  BY <1>3, <1>4, <1>5, <1>6

LEMMA SoundStep ==
  ASSUME NEW rank \in [Folder -> Nat], NEW result, Sound(result), folders \subseteq Folder
  PROVE  Sound(DeleteChildren(rank, result))
<1> DEFINE next == DeleteChildren(rank, result)
<1>1. result \in [Folder -> [raises : BOOLEAN, gone : SUBSET folders]]
  BY DEF Sound
<1>2. ASSUME NEW f \in Folder
      PROVE  /\ next[f] \in [raises : BOOLEAN, gone : SUBSET folders]
             /\ next[f].gone \subseteq Below(f)
             /\ \A p \in next[f].gone : Children(p) \subseteq next[f].gone /\ p \notin Below(p)
             /\ ~next[f].raises => Children(f) \subseteq next[f].gone
             /\ f \in Below(f) => next[f].raises
  <2>1. PICK done \in SUBSET Children(f), first \in SUBSET Children(f) :
          /\ next[f] =
               [raises |-> \E k \in Children(f) : result[k].raises,
                gone |-> (UNION {result[k].gone \cup {k} : k \in done}) \cup UNION {result[b].gone : b \in first}]
          /\ \A k \in done : ~result[k].raises
          /\ (\A k \in Children(f) : ~result[k].raises) => done = Children(f)
    BY <1>1, CallOutcome
  <2> DEFINE gone == (UNION {result[k].gone \cup {k} : k \in done}) \cup UNION {result[b].gone : b \in first}
  <2>2. next[f].gone = gone /\ next[f].raises = (\E k \in Children(f) : result[k].raises)
    BY <2>1
  <2>3. /\ \A k \in done : k \in gone /\ result[k].gone \subseteq gone
        /\ \A k \in first : result[k].gone \subseteq gone
        /\ \A p \in gone : p \in done \/ \E k \in done \cup first : p \in result[k].gone
    <3>1. ASSUME NEW k \in done PROVE k \in gone /\ result[k].gone \subseteq gone
      OBVIOUS
    <3>2. ASSUME NEW b \in first PROVE result[b].gone \subseteq gone
      OBVIOUS
    <3>3. ASSUME NEW p \in gone PROVE p \in done \/ \E k \in done \cup first : p \in result[k].gone
      OBVIOUS
    <3> HIDE DEF gone
    <3> QED
      BY <3>1, <3>2, <3>3
  <2> HIDE DEF gone
  <2>4. ASSUME NEW k \in Children(f)
        PROVE  /\ k \in Folder /\ k \in folders /\ k \in Below(f)
               /\ result[k].gone \subseteq folders /\ result[k].gone \subseteq Below(f)
               /\ \A p \in result[k].gone : Children(p) \subseteq result[k].gone /\ p \notin Below(p)
               /\ ~result[k].raises => Children(k) \subseteq result[k].gone
               /\ k \in Below(k) => result[k].raises
    <3>1. k \in Folder /\ k \in folders /\ k \in Below(f)
      BY BelowContains DEF Children
    <3> QED
      BY <3>1, BelowDescends DEF Sound
  <2>5. gone \subseteq folders /\ gone \subseteq Below(f)
    BY <2>3, <2>4
  <2>6. ASSUME NEW p \in gone PROVE Children(p) \subseteq gone /\ p \notin Below(p)
    <3>1. CASE p \in done
      BY <3>1, <2>1, <2>3, <2>4
    <3>2. ASSUME NEW k \in done \cup first, p \in result[k].gone
          PROVE  Children(p) \subseteq gone /\ p \notin Below(p)
      BY <3>2, <2>3, <2>4
    <3> QED
      BY <2>3, <3>1, <3>2
  <2>7. ~next[f].raises => Children(f) \subseteq gone
    BY <2>1, <2>2, <2>3
  <2>8. f \in Below(f) => next[f].raises
    BY <2>2, <2>4, CycleGoesDown
  <2>9. next[f] \in [raises : BOOLEAN, gone : SUBSET folders]
    BY <2>1, <2>5 DEF gone
  <2> QED
    BY <2>2, <2>5, <2>6, <2>7, <2>8, <2>9
<1>3. next = [f \in Folder |-> next[f]]
  BY DEF DeleteChildren
<1> HIDE DEF next
<1>4. Sound(next)
  BY <1>2, <1>3 DEF Sound
<1> QED
  BY <1>4 DEF next

\* A chain of nested calls that ends in an exception goes through different
\* folders, unless it meets a cycle.
LEMMA DeepStep ==
  ASSUME NEW rank \in [Folder -> Nat], NEW result, Sound(result), folders \subseteq Folder,
         NEW d \in Nat, Deep(result, d)
  PROVE  Deep(DeleteChildren(rank, result), d + 1)
<1> SUFFICES ASSUME NEW f \in Folder, DeleteChildren(rank, result)[f].raises, f \notin Below(f)
             PROVE  Cardinality(Below(f)) >= d + 1
  BY DEF Deep
<1>1. result \in [Folder -> [raises : BOOLEAN, gone : SUBSET folders]]
  BY DEF Sound
<1>2. PICK k \in Children(f) : result[k].raises
  <2>1. PICK done \in SUBSET Children(f), first \in SUBSET Children(f) :
          /\ DeleteChildren(rank, result)[f] =
               [raises |-> \E k \in Children(f) : result[k].raises,
                gone |-> (UNION {result[k].gone \cup {k} : k \in done}) \cup UNION {result[b].gone : b \in first}]
          /\ \A k \in done : ~result[k].raises
          /\ (\A k \in Children(f) : ~result[k].raises) => done = Children(f)
    BY <1>1, CallOutcome
  <2> QED
    BY <2>1
<1>3. k \in Folder /\ k \in Below(f) /\ k \notin Below(k)
  BY BelowContains, CycleGoesUp DEF Children
<1>4. Cardinality(Below(k)) >= d
  BY <1>2, <1>3 DEF Deep
<1>5. IsFiniteSet(Below(f)) /\ IsFiniteSet(Below(k))
  BY BelowContains, FS_Subset, FoldersAssumption DEF FoldersAssumption
<1>6. Below(k) \cup {k} \subseteq Below(f)
  BY <1>3, BelowDescends
<1>7. Cardinality(Below(k) \cup {k}) = Cardinality(Below(k)) + 1 /\ Cardinality(Below(k)) \in Nat
  BY <1>3, <1>5, FS_AddElement, FS_CardinalityType
<1>8. Cardinality(Below(k) \cup {k}) <= Cardinality(Below(f)) /\ Cardinality(Below(f)) \in Nat
  BY <1>5, <1>6, FS_Subset, FS_CardinalityType
<1> QED
  BY <1>4, <1>7, <1>8

LEMMA DeletionIsSound ==
  ASSUME NEW rank \in [Folder -> Nat], folders \subseteq Folder
  PROVE  Sound(Deletion(rank)[Depth]) /\ Deep(Deletion(rank)[Depth], Depth)
<1> DEFINE good(d) == Sound(Deletion(rank)[d]) /\ Deep(Deletion(rank)[d], d)
           G == {d \in Nat : d \in 0..Depth => good(d)}
<1>1. 0 \in G
  <2>1. Deletion(rank)[0] = RecursionError
    BY DeletionUnfolds
  <2>2. Deep(RecursionError, 0)
    <3>1. \A f : Cardinality(Below(f)) >= 0
      BY BelowContains, FS_Subset, FS_CardinalityType, FoldersAssumption DEF FoldersAssumption
    <3> QED
      BY <3>1 DEF Deep
  <2> QED
    BY <2>1, <2>2, RaisedSound
<1>2. ASSUME NEW d \in Nat, d \in G PROVE d + 1 \in G
  <2>1. CASE d + 1 \in 0..Depth
    <3>1. d \in 0..Depth /\ Depth \in Nat /\ d + 1 # 0 /\ (d + 1) - 1 = d
      BY <2>1, FoldersAssumption DEF FoldersAssumption
    <3>2. good(d)
      BY <1>2, <3>1
    <3>3. Deletion(rank)[d + 1] = DeleteChildren(rank, Deletion(rank)[d])
      BY <2>1, <3>1, DeletionUnfolds
    <3> QED
      BY <3>2, <3>3, SoundStep, DeepStep
  <2> QED
    BY <2>1
<1> HIDE DEF G
<1>3. Nat \subseteq G
  BY <1>1, <1>2, NatSetInduction
<1> QED
  BY <1>3, FoldersAssumption DEF FoldersAssumption, G
-----------------------------------------------------------------------------
(* The invariant *)

LEMMA RankingsCount == \A rank \in Rankings : rank \in [Folder -> Nat]
<1>1. Cardinality(Folder) \in Nat
  BY FS_CardinalityType, FoldersAssumption DEF FoldersAssumption
<1> QED
  BY <1>1 DEF Rankings

LEMMA FoldersInitially == FoldersInit => FoldersTypeOK
BY FoldersAssumption DEF FoldersAssumption, FoldersInit, FoldersTypeOK

LEMMA FoldersTypeStep ==
  ASSUME FoldersTypeOK, FoldersNext
  PROVE  FoldersTypeOK'
<1> USE DEF FoldersTypeOK, folderVars
<1>1. ASSUME NEW n \in Name, CreateCheck(n) PROVE FoldersTypeOK'
  <2>1. pending' \in [Name -> 0..MaxPending]
    BY <1>1, FoldersAssumption DEF FoldersAssumption, CreateCheck
  <2> QED
    BY <1>1, <2>1 DEF CreateCheck
<1>2. ASSUME NEW f \in Folder, CreateInsert(f) PROVE FoldersTypeOK'
  <2>1. pending' \in [Name -> 0..MaxPending]
    BY <1>2, FoldersAssumption DEF FoldersAssumption, CreateInsert
  <2> QED
    BY <1>2, <2>1 DEF CreateInsert
<1>3. ASSUME NEW f \in Folder, Delete(f) PROVE FoldersTypeOK'
  BY <1>3 DEF Delete
<1>4. ASSUME NEW f \in Folder, NEW n \in Name, Rename(f, n) PROVE FoldersTypeOK'
  BY <1>4 DEF Rename
<1>5. ASSUME NEW f \in Folder, NEW p \in known \cup {Root}, Move(f, p) PROVE FoldersTypeOK'
  BY <1>5 DEF Move
<1>6. CASE List
  BY <1>6 DEF List
<1>7. ASSUME NEW c \in Filed, NEW p \in known \cup {Root}, PutChat(c, p) PROVE FoldersTypeOK'
  BY <1>7 DEF PutChat
<1> QED
  BY <1>1, <1>2, <1>3, <1>4, <1>5, <1>6, <1>7 DEF FoldersNext

LEMMA FoldersInvariance == FoldersSpec => []FoldersTypeOK
<1>1. FoldersTypeOK /\ UNCHANGED foldersVars => FoldersTypeOK'
  BY DEF FoldersTypeOK, foldersVars, folderVars
<1> QED
  BY FoldersInitially, FoldersTypeStep, <1>1, PTL DEF FoldersSpec

\* Every column holds folders that are, or were, in the table.
THEOREM FoldersTypeCorrect == FoldersSpec => []FoldersTypeOK
BY FoldersInvariance

-----------------------------------------------------------------------------
(* Deletions *)

LEMMA DeleteClean ==
  ASSUME FoldersTypeOK, NEW f \in Folder, Delete(f)
  PROVE  LeavesNoOrphans /\ TakesSubtree(f) /\ deleted' \subseteq deleted \cup {f}
<1>1. PICK rank \in Rankings :
        LET run == Deletion(rank)[Depth][f] IN
        /\ f \in folders
        /\ folders' = folders \ (IF run.raises THEN run.gone ELSE run.gone \cup {f})
        /\ place'   = IF run.raises THEN place
                      ELSE [c \in Filed |-> IF place[c] \in run.gone \cup {f} THEN Gone ELSE place[c]]
        /\ deleted' = deleted \cup {f}
        /\ UNCHANGED <<known, parent, name, pending>>
  BY DEF Delete
<1> DEFINE raises == Deletion(rank)[Depth][f].raises
           gone   == Deletion(rank)[Depth][f].gone
           taken  == IF raises THEN gone ELSE gone \cup {f}
<1>2. /\ f \in folders /\ folders' = folders \ taken
      /\ ~raises => \A c \in Filed : place'[c] = IF place[c] \in gone \cup {f} THEN Gone ELSE place[c]
      /\ parent' = parent
      /\ deleted' = deleted \cup {f}
  BY <1>1
<1>3. Sound(Deletion(rank)[Depth]) /\ Deep(Deletion(rank)[Depth], Depth) /\ folders \subseteq Folder
  BY RankingsCount, DeletionIsSound DEF FoldersTypeOK
<1>4. /\ raises \in BOOLEAN /\ gone \subseteq Below(f) /\ gone \subseteq folders
      /\ \A p \in gone : Children(p) \subseteq gone /\ p \notin Below(p)
      /\ ~raises => Children(f) \subseteq gone
      /\ f \in Below(f) => raises
  BY <1>3 DEF Sound
<1>5. raises => f \in Below(f)
  <2>1. IsFiniteSet(Folder) /\ Depth \in Nat /\ Depth > Cardinality(Folder)
    BY FoldersAssumption DEF FoldersAssumption
  <2>2. Below(f) \subseteq Folder
    BY <1>3, BelowContains
  <2>3. Cardinality(Below(f)) <= Cardinality(Folder) /\ Cardinality(Below(f)) \in Nat
        /\ Cardinality(Folder) \in Nat
    BY <2>1, <2>2, FS_Subset, FS_CardinalityType
  <2>4. ~(Cardinality(Below(f)) >= Depth)
    BY <2>1, <2>3
  <2> QED
    BY <1>3, <2>4 DEF Deep
<1> HIDE DEF raises, gone
<1>6. LeavesNoOrphans
  <2>1. \A p \in taken : Children(p) \subseteq taken
    BY <1>4
  <2>2. ASSUME NEW g \in Orphans' PROVE g \in Orphans
    <3>1. g \in folders /\ g \notin taken /\ parent[g] \notin (folders \ taken) \cup {Root}
      BY <1>2 DEF Orphans
    <3>2. parent[g] \notin taken
      BY <2>1, <3>1 DEF Children
    <3> QED
      BY <3>1, <3>2 DEF Orphans
  <2> QED
    BY <2>2 DEF LeavesNoOrphans
<1>7. TakesSubtree(f)
  <2>1. CASE f \in Below(f)
    <3>1. \A g \in folders : g \in Below(f) /\ f \in Below(g) => g \in Below(g)
      BY BelowDescends
    <3> QED
      BY <1>2, <1>4, <2>1, <3>1 DEF TakesSubtree
  <2>2. CASE f \notin Below(f)
    <3>1. ~raises
      BY <1>5, <2>2
    <3>2. Below(f) \subseteq gone
      BY <1>4, <3>1, BelowLeast
    <3>3. gone = Below(f)
      BY <1>4, <3>2
    <3> QED
      BY <1>2, <1>4, <2>2, <3>1, <3>3 DEF TakesSubtree
  <2> QED
    BY <2>1, <2>2
<1> QED
  BY <1>2, <1>6, <1>7

\* For any number of folders, however they are nested: a deletion takes the
\* subtree with its chats, or of a cycle nothing, and makes no orphan.
THEOREM DeletionAlwaysClean == FoldersSpec => DeletionIsClean
<1>1. ASSUME FoldersTypeOK, [FoldersNext]_foldersVars
      PROVE  LeavesNoOrphans /\ \A f \in deleted' \ deleted : TakesSubtree(f)
  <2>1. CASE \E f \in Folder : Delete(f)
    BY <1>1, <2>1, DeleteClean
  <2>2. CASE ~ \E f \in Folder : Delete(f)
    <3>1. folders \subseteq folders' /\ deleted' = deleted
      BY <1>1, <2>2 DEF FoldersNext, CreateCheck, CreateInsert, Rename, Move, List, PutChat, foldersVars,
                        folderVars
    <3> QED
      BY <3>1 DEF LeavesNoOrphans
  <2> QED
    BY <2>1, <2>2
<1>2. FoldersTypeOK /\ [FoldersNext]_foldersVars =>
        [LeavesNoOrphans /\ \A f \in deleted' \ deleted : TakesSubtree(f)]_foldersVars
  BY <1>1
<1> QED
  BY FoldersInvariance, <1>2, PTL DEF FoldersSpec, DeletionIsClean

-----------------------------------------------------------------------------
(* Twins *)

LEMMA TwinsStep ==
  ASSUME FoldersTypeOK, [FoldersNext]_foldersVars, NEW fg \in Twins' \ Twins
  PROVE  \E f \in {fg[1], fg[2]} : f \notin folders \/ f \in Orphans
<1> DEFINE a == fg[1]
           b == fg[2]
<1> SUFFICES ASSUME a \in folders, b \in folders, a \notin Orphans, b \notin Orphans
             PROVE  FALSE
  OBVIOUS
<1>1. /\ a \in folders' /\ b \in folders' /\ a # b /\ parent'[a] = parent'[b] /\ name'[a] = name'[b]
      /\ ~(parent[a] = parent[b] /\ name[a] = name[b]) /\ a \in Folder /\ b \in Folder
  BY DEF Twins, FoldersTypeOK
<1> HIDE DEF a, b
<1>2. CASE UNCHANGED <<parent, name>>
  BY <1>1, <1>2
<1>3. ASSUME NEW f \in Folder, NEW n \in Name, Rename(f, n) PROVE FALSE
  <2>1. parent' = parent /\ parent[a] = parent[b] /\ name' = [name EXCEPT ![f] = n]
    BY <1>1, <1>3 DEF Rename
  <2>2. ASSUME NEW x \in {a, b}, NEW y \in {a, b}, x = f, y # f, name'[x] = name'[y] PROVE FALSE
    <3>1. name[y] = n
      BY <1>1, <2>1, <2>2 DEF FoldersTypeOK
    <3>2. y \in Named(parent[f], n)
      BY <2>1, <2>2, <3>1 DEF Named, Children
    <3>3. name[f] = n
      BY <1>3, <3>2 DEF Rename, Named
    <3> QED
      BY <1>1, <2>1, <2>2, <3>1, <3>3
  <2> QED
    BY <1>1, <2>1, <2>2 DEF FoldersTypeOK
<1>4. ASSUME NEW f \in Folder, NEW p \in known \cup {Root}, Move(f, p) PROVE FALSE
  <2>1. name' = name /\ name[a] = name[b] /\ parent' = [parent EXCEPT ![f] = p]
    BY <1>1, <1>4 DEF Move
  <2>2. ASSUME NEW x \in {a, b}, NEW y \in {a, b}, x = f, y # f, parent'[x] = parent'[y] PROVE FALSE
    <3>1. parent[y] = p /\ name[y] = name[f] /\ name[f] \in Name /\ y \in folders
      BY <1>1, <2>1, <2>2 DEF FoldersTypeOK
    <3>2. y \in Like(p, name[f])
      BY <3>1, FoldersAssumption DEF FoldersAssumption, Like, Children
    <3> QED
      BY <1>4, <3>2 DEF Move
  <2> QED
    BY <1>1, <2>1, <2>2 DEF FoldersTypeOK
<1>5. CASE List
  <2>1. parent'[a] = parent[a] /\ parent'[b] = parent[b]
    BY <1>1, <1>5 DEF List
  <2> QED
    BY <1>1, <1>5, <2>1 DEF List
<1> QED
  BY <1>2, <1>3, <1>4, <1>5 DEF FoldersNext, CreateCheck, CreateInsert, Delete, PutChat, foldersVars, folderVars

\* No rename and no move makes two folders of one name and one parent: only
\* creations and the repair of orphans do.
THEOREM TwinsExplained == FoldersSpec => TwinsByCreationOrRescue
<1>1. FoldersTypeOK /\ [FoldersNext]_foldersVars =>
        [\A fg \in Twins' \ Twins : \E f \in {fg[1], fg[2]} : f \notin folders \/ f \in Orphans]_foldersVars
  BY TwinsStep
<1> QED
  BY FoldersInvariance, <1>1, PTL DEF FoldersSpec, TwinsByCreationOrRescue

=============================================================================
