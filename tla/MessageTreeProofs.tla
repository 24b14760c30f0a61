------------------------- MODULE MessageTreeProofs -------------------------
(***************************************************************************)
(* MessageTree for any number of messages, models and requests: the loops  *)
(* over the tree end, every operation keeps it a tree, and responses get   *)
(* stuck only as StuckOnlySo says.                                         *)
(*                                                                         *)
(* LoopsEnd is inductive with the types: whatever is deleted, moved or     *)
(* written back late, a link goes from an older message to a newer one,    *)
(* also in the copies held.  That the tree is kept needs, beside LoopsEnd, *)
(* that what is not in the history looks like an id not yet made.          *)
(***************************************************************************)
EXTENDS MessageTree, WellFoundedInduction, FiniteSetTheorems, TLAPS

\* What a held message will be written back with.
HeldWell == \A h \in pending : h.status # "open"

Inv == TypeOK /\ LoopsEnd /\ HeldWell

LEMMA InitInv == Init => Inv
<1> SUFFICES ASSUME Init PROVE Inv
  OBVIOUS
<1> USE BoundsAssumption DEF Init, Ids
<1>1. TypeOK
  BY DEF TypeOK, Held, Statuses
<1>2. LoopsEnd /\ HeldWell
  BY DEF LoopsEnd, HeldWell
<1> QED
  BY <1>1, <1>2 DEF Inv

-----------------------------------------------------------------------------
(* The pieces the operations are made of *)

\* sendMessage below a message older than the responses.
LEMMA SendMessageInv ==
  ASSUME Inv, NEW user \in Ids, NEW last \in Nat, NEW n \in Nat, NEW newChat,
         NEW par \in [Ids -> 0 .. MaxId], NEW kids \in [Ids -> SUBSET Ids],
         (user \in messages /\ last = made) \/ (user = made + 1 /\ last = user),
         \A m \in Ids : par[m] < m /\ \A k \in kids[m] : m < k,
         SendMessage(user, last, par, kids, n, newChat)
  PROVE  Inv'
<1> USE BoundsAssumption DEF Ids
<1>1. /\ user =< last /\ made =< last /\ last + n =< MaxId /\ made' = last + n
      /\ made \in Nat /\ messages \subseteq 1 .. made
  BY DEF SendMessage, Inv, TypeOK
<1> DEFINE responses == (last + 1) .. (last + n)
<1>2. responses \subseteq Ids /\ \A r \in responses : user < r /\ r =< made'
  BY <1>1
<1>3. messages' \subseteq 1 .. made' /\ currentId' \in 0 .. made' /\ creating' \subseteq 1 .. made' /\ running' \subseteq 1 .. made'
  BY <1>1 DEF SendMessage, Inv, TypeOK
<1>4. parentId' = [m \in Ids |-> IF m \in responses THEN user ELSE par[m]]
  BY DEF SendMessage
<1>5. childrenIds' = [kids EXCEPT ![user] = @ \cup responses]
  BY DEF SendMessage
<1>6. parentId' \in [Ids -> 0 .. MaxId] /\ childrenIds' \in [Ids -> SUBSET Ids]
  <2>1. user \in 0 .. MaxId
    OBVIOUS
  <2>2. parentId' \in [Ids -> 0 .. MaxId]
    BY <1>4, <2>1
  <2> QED
    BY <1>2, <1>5, <2>2
<1>7. role' \in [Ids -> {"user", "assistant"}] /\ status' \in [Ids -> Statuses]
  BY DEF SendMessage, Inv, TypeOK
<1>8. pending' \subseteq pending \cup {CopyOf(r, TRUE, user, {}) : r \in responses}
  BY DEF SendMessage
<1>9. ASSUME NEW r \in responses
      PROVE  LET h == CopyOf(r, TRUE, user, {})
             IN  h \in Held /\ h.id =< made' /\ h.status # "open" /\ h.parentId < h.id /\ h.childrenIds = {}
  <2>1. r \in Ids /\ user < r /\ r =< made'
    BY <1>2
  <2>2. user \in 0 .. MaxId
    OBVIOUS
  <2> QED
    BY <2>1, <2>2 DEF CopyOf, Held, Statuses
<1>10. /\ pending' \subseteq Held
       /\ \A h \in pending' : /\ h.id =< made' /\ h.status # "open"
                              /\ h.parentId < h.id /\ \A k \in h.childrenIds : h.id < k
  <2>1. ASSUME NEW h \in pending
        PROVE  /\ h \in Held /\ h.id =< made' /\ h.status # "open"
               /\ h.parentId < h.id /\ \A k \in h.childrenIds : h.id < k
    <3>1. h \in Held /\ h.id =< made
      BY DEF Inv, TypeOK
    <3>2. h.status # "open" /\ h.parentId < h.id /\ \A k \in h.childrenIds : h.id < k
      BY DEF Inv, LoopsEnd, HeldWell
    <3>3. h.id \in Nat
      BY <3>1 DEF Held
    <3>4. h.id =< made'
      BY <1>1, <3>1, <3>3
    <3> QED
      BY <3>1, <3>2, <3>4
  <2>2. ASSUME NEW h \in pending'
        PROVE  /\ h \in Held /\ h.id =< made' /\ h.status # "open"
               /\ h.parentId < h.id /\ \A k \in h.childrenIds : h.id < k
    <3>1. CASE h \in pending
      BY <2>1, <3>1
    <3>2. CASE h \notin pending
      <4>1. PICK r \in responses : h = CopyOf(r, TRUE, user, {})
        BY <1>8, <3>2
      <4> QED
        BY <1>9, <4>1
    <3> QED
      BY <3>1, <3>2
  <2> QED
    BY <2>2
<1>11. \A m \in Ids : parentId'[m] < m /\ \A k \in childrenIds'[m] : m < k
  BY <1>2, <1>4, <1>5
<1>12. made' \in 0 .. MaxId
  BY <1>1
<1> QED
  BY <1>3, <1>6, <1>7, <1>10, <1>11, <1>12 DEF Inv, TypeOK, LoopsEnd, HeldWell

LEMMA PromptInv ==
  ASSUME Inv, NEW p \in {0} \cup messages, NEW n \in Nat, NEW newChat, Prompt(p, n, newChat)
  PROVE  Inv'
<1> DEFINE user == made + 1
           par == [parentId EXCEPT ![user] = p]
           kids == Appended(childrenIds, p, {user})
<1> USE BoundsAssumption DEF Ids
<1>1. user \in Ids /\ p < user /\ made \in Nat
  BY DEF Prompt, Inv, TypeOK
<1>2. par \in [Ids -> 0 .. MaxId] /\ \A m \in Ids : par[m] < m
  <2>1. p \in 0 .. MaxId /\ parentId \in [Ids -> 0 .. MaxId]
    BY DEF Inv, TypeOK
  <2>2. par = [m \in Ids |-> IF m = user THEN p ELSE parentId[m]]
    BY <2>1
  <2> HIDE DEF par
  <2>3. \A m \in Ids : par[m] = IF m = user THEN p ELSE parentId[m]
    BY <2>2
  <2>4. par \in [Ids -> 0 .. MaxId]
    BY <2>1, <2>2
  <2> QED
    BY <1>1, <2>3, <2>4 DEF Inv, LoopsEnd
<1>3. kids \in [Ids -> SUBSET Ids] /\ \A m \in Ids : \A k \in kids[m] : m < k
  BY <1>1 DEF Inv, TypeOK, LoopsEnd, Appended
<1>4. SendMessage(user, user, par, kids, n, newChat)
  BY DEF Prompt
<1> HIDE DEF user, par, kids
<1>5. user \in Nat /\ user = made + 1
  BY <1>1 DEF user
<1> QED
  BY <1>1, <1>2, <1>3, <1>4, <1>5, SendMessageInv

\* createMessagePair, addMessages, "Save As Copy".
LEMMA InsertInv ==
  ASSUME Inv, NEW p \in 0 .. made, NEW y \in {0, made + 2},
         NEW xRole \in {"user", "assistant"}, NEW yRole \in {"user", "assistant"},
         Insert(p, made + 1, xRole, y, yRole)
  PROVE  Inv'
<1> DEFINE x == made + 1
           new == {x, y} \ {0}
<1> USE BoundsAssumption DEF Ids
<1>a. made \in Nat /\ messages \subseteq 1 .. made /\ x # 0
  BY DEF Inv, TypeOK
<1>b. /\ new \subseteq Ids /\ made' = made + Cardinality(new)
      /\ messages' = messages \cup new /\ currentId' = (IF y = 0 THEN x ELSE y)
      /\ UNCHANGED <<creating, pending, running>>
  BY DEF Insert
<1>1. /\ new \subseteq Ids /\ made' = made + Cardinality(new) /\ made \in Nat /\ messages \subseteq 1 .. made
      /\ messages' = messages \cup new /\ currentId' = (IF y = 0 THEN x ELSE y)
      /\ UNCHANGED <<creating, pending, running>> /\ x \in Ids
  BY <1>a, <1>b
<1>2. made' = IF y = 0 THEN made + 1 ELSE made + 2
  <2>1. CASE y = 0
    <3>1. new = {x}
      BY <1>1, <2>1
    <3> QED
      BY <1>1, <2>1, <3>1, FS_Singleton
  <2>2. CASE y = made + 2
    <3>1. new = {x} \cup {y} /\ y \notin {x} /\ y # 0
      BY <1>1, <2>2
    <3>2. IsFiniteSet({x}) /\ Cardinality({x}) = 1
      BY FS_Singleton
    <3>3. Cardinality({x} \cup {y}) = 2
      BY <3>1, <3>2, FS_AddElement
    <3>4. Cardinality(new) = 2 /\ made' = made + Cardinality(new)
      BY <3>1, <3>3, <1>1
    <3> HIDE DEF new
    <3> QED
      BY <3>4, <1>1, <2>2
  <2> QED
    BY <2>1, <2>2
<1>3. made' \in 0 .. MaxId /\ \A m \in new : m \in 1 .. made'
  <2>1. CASE y = 0
    <3>1. x \in new /\ made' = x
      BY <1>1, <1>2, <2>1
    <3> QED
      BY <1>1, <2>1, <3>1
  <2>2. CASE y = made + 2
    <3>1. y \in new /\ y \in Ids /\ made' = y
      BY <1>1, <1>2, <2>2
    <3> QED
      BY <1>1, <2>2, <3>1
  <2> QED
    BY <2>1, <2>2
<1>4. parentId' = [m \in Ids |-> IF m = x THEN p ELSE IF m = y THEN x ELSE parentId[m]]
  BY DEF Insert
<1>5. parentId' \in [Ids -> 0 .. MaxId]
  BY <1>1, <1>4 DEF Inv, TypeOK
<1>6. \A m \in Ids : parentId'[m] < m
  BY <1>1, <1>4 DEF Inv, LoopsEnd, TypeOK
<1>7. childrenIds' = [Appended(childrenIds, p, {x}) EXCEPT ![x] = {y} \ {0}]
  BY DEF Insert
<1>8. childrenIds' \in [Ids -> SUBSET Ids] /\ \A m \in Ids : \A k \in childrenIds'[m] : m < k
  <2> DEFINE c == Appended(childrenIds, p, {x})
  <2>1. c \in [Ids -> SUBSET Ids] /\ \A m \in Ids : \A k \in c[m] : m < k
    BY <1>1 DEF Inv, TypeOK, LoopsEnd, Appended
  <2>2. {y} \ {0} \subseteq Ids /\ \A k \in {y} \ {0} : x < k
    BY <1>1
  <2> HIDE DEF c
  <2> QED
    BY <1>7, <2>1, <2>2 DEF c
<1>9. role' \in [Ids -> {"user", "assistant"}]
  BY DEF Insert, Inv, TypeOK
<1>10. status' \in [Ids -> Statuses]
  BY DEF Insert, Inv, TypeOK, Statuses
<1>11. /\ messages' \subseteq 1 .. made' /\ currentId' \in 0 .. made'
       /\ creating' \subseteq 1 .. made' /\ running' \subseteq 1 .. made' /\ \A h \in pending' : h.id =< made'
  <2>1. made =< made' /\ made' \in Nat
    BY <1>1, <1>2
  <2>2. messages' \subseteq 1 .. made' /\ currentId' \in 0 .. made'
    BY <1>1, <1>2, <1>3, <2>1
  <2>3. creating \subseteq 1 .. made /\ running \subseteq 1 .. made
    BY DEF Inv, TypeOK
  <2>4. \A h \in pending : h.id \in Nat /\ h.id =< made
    BY DEF Inv, TypeOK, Held
  <2>5. made \in Nat /\ pending' = pending /\ creating' = creating /\ running' = running
    BY <1>1 DEF Insert
  <2>6. 1 .. made \subseteq 1 .. made' /\ \A i \in Nat : i =< made => i =< made'
    BY <2>1, <2>5
  <2> QED
    BY <2>2, <2>3, <2>4, <2>5, <2>6
<1> QED
  BY <1>1, <1>3, <1>5, <1>6, <1>8, <1>9, <1>10, <1>11 DEF Inv, TypeOK, LoopsEnd, HeldWell

\* What those who hold messages keep when some of these leave the history.
LEMMA DetachedInv ==
  ASSUME Inv, NEW held \in SUBSET pending, NEW gone
  PROVE  \A h \in Detached(held, gone) :
            /\ h \in Held /\ h.id =< made /\ h.status # "open"
            /\ h.parentId < h.id /\ \A k \in h.childrenIds : h.id < k
<1> SUFFICES ASSUME NEW g \in held, NEW h, h = Kept(g, gone)
             PROVE  /\ h \in Held /\ h.id =< made /\ h.status # "open"
                    /\ h.parentId < h.id /\ \A k \in h.childrenIds : h.id < k
  BY DEF Detached
<1>1. g \in Held /\ g.id =< made /\ g.status # "open" /\ g.parentId < g.id /\ \A k \in g.childrenIds : g.id < k
  BY DEF Inv, TypeOK, LoopsEnd, HeldWell
<1>2. /\ parentId[g.id] \in 0 .. MaxId /\ childrenIds[g.id] \in SUBSET Ids
      /\ parentId[g.id] < g.id /\ \A k \in childrenIds[g.id] : g.id < k
  BY <1>1 DEF Inv, TypeOK, LoopsEnd, Held
<1>3. CASE g.live /\ g.id \in gone
  BY <1>1, <1>2, <1>3 DEF Held, Kept
<1>4. CASE ~(g.live /\ g.id \in gone)
  BY <1>1, <1>4 DEF Kept
<1> QED
  BY <1>3, <1>4

LEMMA WriteBackInv ==
  ASSUME Inv, NEW h \in pending, NEW held \in SUBSET pending, WriteBack(h, held),
         currentId' \in {currentId, h.id}
  PROVE  Inv'
<1> USE BoundsAssumption DEF Ids
<1>1. /\ h \in Held /\ h.id \in Ids /\ h.id =< made /\ h.status \in Statuses
      /\ h.parentId \in 0 .. MaxId /\ h.childrenIds \in SUBSET Ids
      /\ h.parentId < h.id /\ \A k \in h.childrenIds : h.id < k
  BY DEF Inv, TypeOK, LoopsEnd, HeldWell, Held
<1>2. /\ messages' \subseteq 1 .. made' /\ currentId' \in 0 .. made'
      /\ role' \in [Ids -> {"user", "assistant"}] /\ status' \in [Ids -> Statuses]
      /\ made' = made /\ made \in 0 .. MaxId /\ creating' \subseteq 1 .. made' /\ running' \subseteq 1 .. made'
  <2>1. /\ made' = made /\ made \in 0 .. MaxId /\ creating' = creating /\ running' = running
        /\ creating \subseteq 1 .. made /\ running \subseteq 1 .. made
    BY DEF WriteBack, Inv, TypeOK
  <2>2. messages' = messages \cup {h.id} /\ messages \subseteq 1 .. made /\ currentId \in 0 .. made
    BY DEF WriteBack, Inv, TypeOK
  <2>3. h.id \in 1 .. made
    BY <1>1, <2>1
  <2>a. messages' \subseteq 1 .. made'
    BY <2>1, <2>2, <2>3
  <2>b. currentId' \in 0 .. made'
    <3>1. CASE currentId' = h.id
      BY <2>1, <2>3, <3>1
    <3>2. CASE currentId' = currentId
      BY <2>1, <2>2, <3>2
    <3> QED
      BY <3>1, <3>2
  <2>4. messages' \subseteq 1 .. made' /\ currentId' \in 0 .. made'
    BY <2>a, <2>b
  <2>5. role' \in [Ids -> {"user", "assistant"}] /\ status' \in [Ids -> Statuses]
    BY <1>1 DEF WriteBack, Inv, TypeOK
  <2> QED
    BY <2>1, <2>4, <2>5
<1>3. \A g \in pending' : /\ g \in Held /\ g.id =< made /\ g.status # "open"
                          /\ g.parentId < g.id /\ \A k \in g.childrenIds : g.id < k
  <2>1. CASE h.live
    <3>1. pending' = held
      BY <2>1 DEF WriteBack
    <3> QED
      BY <3>1 DEF Inv, TypeOK, LoopsEnd, HeldWell
  <2>2. CASE ~h.live
    <3>1. pending' = Detached(held, {h.id})
      BY <2>2 DEF WriteBack
    <3> QED
      BY <3>1, DetachedInv
  <2> QED
    BY <2>1, <2>2
<1>4. /\ parentId' \in [Ids -> 0 .. MaxId] /\ childrenIds' \in [Ids -> SUBSET Ids]
      /\ \A m \in Ids : parentId'[m] < m /\ \A k \in childrenIds'[m] : m < k
  <2>1. /\ parentId \in [Ids -> 0 .. MaxId] /\ childrenIds \in [Ids -> SUBSET Ids]
        /\ \A m \in Ids : parentId[m] < m /\ \A k \in childrenIds[m] : m < k
    BY DEF Inv, TypeOK, LoopsEnd
  <2>2. CASE h.live
    BY <2>1, <2>2 DEF WriteBack
  <2>3. CASE ~h.live
    <3>1. /\ parentId' = [parentId EXCEPT ![h.id] = h.parentId]
          /\ childrenIds' = [childrenIds EXCEPT ![h.id] = h.childrenIds]
      BY <2>3 DEF WriteBack
    <3> QED
      BY <1>1, <2>1, <3>1
  <2> QED
    BY <2>2, <2>3
<1> QED
  BY <1>2, <1>3, <1>4 DEF Inv, TypeOK, LoopsEnd, HeldWell

\* Wherever the drill ends, it ends at a message of the history.
LEMMA DrillEnds ==
  ASSUME NEW m, NEW msgs, NEW kids, NEW cur
  PROVE  \A x \in Drill(m, msgs, kids, cur) : x = cur \/ (x \in msgs /\ kids[x] = {})
BY DEF Drill, Landings

LEMMA DeleteMessageInv ==
  ASSUME Inv, NEW m \in messages, DeleteMessage(m)
  PROVE  Inv'
<1> DEFINE p    == parentId[m]
           gone == {m} \cup childrenIds[m]
           grandchildren == UNION {childrenIds[k] : k \in childrenIds[m] \cap messages}
<1> USE BoundsAssumption DEF Ids
<1>1. /\ made \in 0 .. MaxId /\ messages \subseteq 1 .. made /\ m \in Ids
      /\ parentId \in [Ids -> 0 .. MaxId] /\ childrenIds \in [Ids -> SUBSET Ids]
      /\ \A x \in Ids : parentId[x] < x /\ \A k \in childrenIds[x] : x < k
  <2>1. made \in 0 .. MaxId /\ messages \subseteq 1 .. made
    BY DEF Inv, TypeOK
  <2>2. m \in Ids
    BY <2>1
  <2>3. parentId \in [Ids -> 0 .. MaxId] /\ childrenIds \in [Ids -> SUBSET Ids]
    BY DEF Inv, TypeOK
  <2>4. \A x \in Ids : parentId[x] < x /\ \A k \in childrenIds[x] : x < k
    BY DEF Inv, LoopsEnd
  <2> QED
    BY <2>1, <2>2, <2>3, <2>4
<1>2. p \in 0 .. MaxId /\ p < m /\ gone \subseteq Ids /\ grandchildren \subseteq Ids
  BY <1>1
<1>3. \A g \in grandchildren : p < g
  BY <1>1, <1>2
<1>4. messages' = messages \ gone /\ UNCHANGED <<made, creating, running>>
  BY DEF DeleteMessage
<1>5. childrenIds' = [x \in Ids |-> IF x \in gone THEN {}
                                    ELSE IF x = p /\ p \in messages THEN (childrenIds[p] \ {m}) \cup grandchildren
                                    ELSE childrenIds[x]]
  BY DEF DeleteMessage
<1>6. parentId' = [x \in Ids |-> IF x \in gone THEN 0
                                 ELSE IF x \in grandchildren \cap messages THEN p ELSE parentId[x]]
  BY DEF DeleteMessage
<1>7. currentId' \in {0, currentId} \cup messages'
  <2>1. currentId' \in
             IF p = 0
             THEN IF Roots(messages', parentId') = {} THEN {0}
                  ELSE UNION {Drill(r, messages', childrenIds', currentId) : r \in Roots(messages', parentId')}
             ELSE IF p \in messages' THEN Drill(p, messages', childrenIds', currentId) ELSE {currentId}
    BY DEF DeleteMessage
  <2>2. currentId' \in {0, currentId} \/ \E r : currentId' \in Drill(r, messages', childrenIds', currentId)
    <3> HIDE DEF p
    <3> QED
      BY <2>1
  <2> QED
    BY <2>2, DrillEnds
<1>8. role' \in [Ids -> {"user", "assistant"}] /\ status' \in [Ids -> Statuses]
  BY DEF DeleteMessage, Inv, TypeOK, Statuses
<1>9. \A h \in pending' : /\ h \in Held /\ h.id =< made /\ h.status # "open"
                          /\ h.parentId < h.id /\ \A k \in h.childrenIds : h.id < k
  <2>1. pending' = Detached(pending, gone)
    BY DEF DeleteMessage
  <2> QED
    BY <2>1, DetachedInv
<1> HIDE DEF p, gone, grandchildren
<1>10. childrenIds' \in [Ids -> SUBSET Ids] /\ \A x \in Ids : \A k \in childrenIds'[x] : x < k
  BY <1>1, <1>2, <1>3, <1>5
<1>11. parentId' \in [Ids -> 0 .. MaxId] /\ \A x \in Ids : parentId'[x] < x
  BY <1>1, <1>2, <1>3, <1>6
<1>12. /\ messages' \subseteq 1 .. made' /\ currentId' \in 0 .. made'
       /\ creating' \subseteq 1 .. made' /\ running' \subseteq 1 .. made'
  <2>1. /\ creating \subseteq 1 .. made /\ running \subseteq 1 .. made /\ currentId \in 0 .. made
    BY DEF Inv, TypeOK
  <2>2. messages' \subseteq 1 .. made
    BY <1>1, <1>4
  <2>3. currentId' \in 0 .. made
    BY <1>1, <1>7, <2>1, <2>2
  <2> QED
    BY <1>4, <2>1, <2>2, <2>3
<1> QED
  BY <1>1, <1>4, <1>8, <1>9, <1>10, <1>11, <1>12 DEF Inv, TypeOK, LoopsEnd, HeldWell

LEMMA SiblingsDoneTyped ==
  ASSUME TypeOK, SiblingsDone
  PROVE  status' \in [Ids -> Statuses]
BY DEF TypeOK, SiblingsDone, Statuses

\* What is kept by an operation that leaves the links and the ids alone.
LEMMA KeepInv ==
  ASSUME Inv, UNCHANGED tree, status' \in [Ids -> Statuses],
         currentId' \in {currentId} \cup messages,
         creating' \subseteq creating, running' \subseteq 1 .. made,
         \A h \in pending' : /\ h \in Held /\ h.id =< made /\ h.status # "open"
                             /\ h.parentId < h.id /\ \A k \in h.childrenIds : h.id < k
  PROVE  Inv'
<1>1. currentId \in 0 .. made /\ messages \subseteq 1 .. made /\ 1 .. made \subseteq 0 .. made
  BY DEF Inv, TypeOK
<1>2. currentId' \in 0 .. made
  BY <1>1
<1>3. TypeOK'
  BY <1>2 DEF Inv, TypeOK, tree, links
<1> QED
  BY <1>3 DEF Inv, LoopsEnd, HeldWell, tree, links

LEMMA AskingInv == Inv /\ (\E n \in 0 .. MaxModels : Sending(n)) => Inv'
<1> SUFFICES ASSUME Inv, NEW n \in 0 .. MaxModels, Sending(n) PROVE Inv'
  OBVIOUS
<1> USE BoundsAssumption DEF Ids
<1>0. n \in Nat
  OBVIOUS
<1>1. CASE SubmitPrompt(n)
  <2>1. currentId \in {0} \cup messages
    BY <1>1 DEF SubmitPrompt
  <2>2. Prompt(currentId, n, currentId = 0)
    BY <1>1 DEF SubmitPrompt
  <2> QED
    BY <1>0, <2>1, <2>2, PromptInv
<1>2. ASSUME NEW m \in messages, SubmitMessage(m, n) PROVE Inv'
  <2>1. Prompt(m, n, FALSE) /\ m \in {0} \cup messages
    BY <1>2 DEF SubmitMessage
  <2> QED
    BY <1>0, <2>1, PromptInv
<1>3. ASSUME NEW m \in messages, EditPrompt(m, n) PROVE Inv'
  <2>1. parentId[m] \in {0} \cup messages /\ Prompt(parentId[m], n, FALSE)
    BY <1>3 DEF EditPrompt
  <2> QED
    BY <1>0, <2>1, PromptInv
<1>4. ASSUME NEW m \in messages, RegenerateResponse(m, n) PROVE Inv'
  <2>1. parentId[m] \in messages /\ SendMessage(parentId[m], made, parentId, childrenIds, n, FALSE)
    BY <1>4 DEF RegenerateResponse
  <2>2. /\ made \in Nat /\ parentId[m] \in Ids
        /\ parentId \in [Ids -> 0 .. MaxId] /\ childrenIds \in [Ids -> SUBSET Ids]
        /\ \A x \in Ids : parentId[x] < x /\ \A k \in childrenIds[x] : x < k
    BY <2>1 DEF Inv, TypeOK, LoopsEnd
  <2> DEFINE u == parentId[m]
  <2>3. (u \in messages /\ made = made) \/ (u = made + 1 /\ made = u)
    BY <2>1
  <2>4. u \in Ids /\ SendMessage(u, made, parentId, childrenIds, n, FALSE)
    BY <2>1, <2>2
  <2> HIDE DEF u
  <2> HIDE DEF Ids
  <2> QED
    BY <1>0, <2>2, <2>3, <2>4, SendMessageInv
<1> QED
  BY <1>1, <1>2, <1>3, <1>4 DEF Sending

LEMMA ArrangingInv == Inv /\ Arranging => Inv'
<1> SUFFICES ASSUME Inv, Arranging PROVE Inv'
  OBVIOUS
<1> USE BoundsAssumption DEF Ids
<1>0. /\ made \in Nat /\ messages \subseteq 1 .. made /\ currentId \in 0 .. made
      /\ messages \subseteq Ids /\ parentId \in [Ids -> 0 .. MaxId] /\ status \in [Ids -> Statuses]
      /\ \A m \in Ids : parentId[m] < m
      /\ running \subseteq 1 .. made
      /\ \A h \in pending : /\ h \in Held /\ h.id =< made /\ h.status # "open"
                            /\ h.parentId < h.id /\ \A k \in h.childrenIds : h.id < k
  BY DEF Inv, TypeOK, LoopsEnd, HeldWell
<1>1. CASE CreateMessagePair
  <2>1. \E p \in 0 .. made : Insert(p, made + 1, "user", made + 2, "assistant")
    BY <1>0, <1>1 DEF CreateMessagePair
  <2> QED
    BY <2>1, InsertInv
<1>2. ASSUME NEW found \in BOOLEAN, ContinueResponse(found) PROVE Inv'
  <2>1. currentId \in messages
    BY <1>2 DEF ContinueResponse, ShownDone, Shown
  <2>2. /\ Object(currentId) \in Held /\ Object(currentId).id =< made /\ Object(currentId).status # "open"
        /\ Object(currentId).parentId < Object(currentId).id /\ Object(currentId).childrenIds = {}
    BY <1>0, <2>1 DEF Object, Held, Statuses
  <2>3. \A h \in pending' : h \in pending \/ h = Object(currentId)
    BY <1>2 DEF ContinueResponse
  <2>4. UNCHANGED <<tree, currentId, creating, running>> /\ status' \in [Ids -> Statuses]
    BY <1>0, <1>2 DEF ContinueResponse, Statuses
  <2> QED
    BY <1>0, <2>2, <2>3, <2>4, KeepInv
<1>3. ASSUME NEW m \in messages, AddMessages(m) PROVE Inv'
  BY <1>0, <1>3, InsertInv DEF AddMessages
<1>4. ASSUME NEW m \in messages, SaveAsCopy(m) PROVE Inv'
  <2>1. parentId[m] \in 0 .. made
    BY <1>0
  <2> QED
    BY <1>4, <2>1, InsertInv DEF SaveAsCopy
<1>5. ASSUME NEW m \in messages, ShowMessage(m) PROVE Inv'
  <2>1. UNCHANGED <<tree, status, creating, pending, running>> /\ currentId' \in {currentId} \cup messages
    BY <1>5, DrillEnds DEF ShowMessage
  <2> QED
    BY <1>0, <2>1, KeepInv
<1>6. ASSUME NEW m \in messages, DeleteMessage(m) PROVE Inv'
  BY <1>6, DeleteMessageInv
<1>7. ASSUME NEW m \in messages, HoldCopy(m) PROVE Inv'
  <2> DEFINE c == CopyOf(m, FALSE, parentId[m], childrenIds[m])
  <2>1. c \in Held /\ c.id =< made /\ c.status # "open" /\ c.parentId < c.id /\ \A k \in c.childrenIds : c.id < k
    BY <1>0 DEF CopyOf, Held, Statuses, Inv, TypeOK, LoopsEnd
  <2>2. UNCHANGED <<tree, status, currentId, creating, running>> /\ pending' = pending \cup {c}
    BY <1>7 DEF HoldCopy
  <2> HIDE DEF c
  <2> QED
    BY <1>0, <2>1, <2>2, KeepInv
<1> QED
  BY <1>1, <1>2, <1>3, <1>4, <1>5, <1>6, <1>7 DEF Arranging

LEMMA StepInv == Inv /\ [Next]_vars => Inv'
<1> SUFFICES ASSUME Inv, [Next]_vars PROVE Inv'
  OBVIOUS
<1> USE BoundsAssumption DEF Ids
<1>0. /\ made \in Nat /\ creating \subseteq 1 .. made /\ running \subseteq 1 .. made /\ status \in [Ids -> Statuses]
      /\ \A h \in pending : /\ h \in Held /\ h.id =< made /\ h.status # "open" /\ h.id \in 1 .. made
                            /\ h.parentId < h.id /\ \A k \in h.childrenIds : h.id < k
  BY DEF Inv, TypeOK, LoopsEnd, HeldWell, Held
<1>1. CASE ChatCreated
  <2>1. ASSUME NEW r \in creating \cap messages
        PROVE  LET h == CopyOf(r, TRUE, parentId[r], childrenIds[r])
               IN  /\ h \in Held /\ h.id =< made /\ h.status # "open"
                   /\ h.parentId < h.id /\ \A k \in h.childrenIds : h.id < k
    BY <1>0 DEF CopyOf, Held, Statuses, Inv, TypeOK, LoopsEnd
  <2>2. pending' = pending \cup {CopyOf(r, TRUE, parentId[r], childrenIds[r]) : r \in creating \cap messages}
    BY <1>1 DEF ChatCreated
  <2>3. UNCHANGED <<tree, status, currentId, running>> /\ creating' = {}
    BY <1>1 DEF ChatCreated
  <2>4. \A h \in pending' : /\ h \in Held /\ h.id =< made /\ h.status # "open"
                            /\ h.parentId < h.id /\ \A k \in h.childrenIds : h.id < k
    BY <1>0, <2>1, <2>2
  <2> QED
    BY <1>0, <2>3, <2>4, KeepInv
<1>2. CASE ChatNotCreated
  BY <1>0, <1>2, KeepInv DEF ChatNotCreated
<1>3. ASSUME NEW h \in pending, RequestAnswered(h) PROVE Inv'
  BY <1>0, <1>3, KeepInv DEF RequestAnswered
<1>4. ASSUME NEW h \in pending, Forget(h) PROVE Inv'
  BY <1>0, <1>4, KeepInv DEF Forget
<1>5. ASSUME NEW h \in pending, NEW b \in BOOLEAN, RequestFails(h, b) PROVE Inv'
  <2>1. WriteBack(h, pending \ {h}) /\ currentId' \in {currentId, h.id}
    BY <1>5 DEF RequestFails
  <2> QED
    BY <2>1, WriteBackInv
<1>6. ASSUME NEW h \in pending, NEW b \in BOOLEAN, SaveMessage(h, b) PROVE Inv'
  <2>1. (WriteBack(h, pending) \/ WriteBack(h, pending \ {h})) /\ currentId' = currentId
    BY <1>6 DEF SaveMessage
  <2> QED
    BY <2>1, WriteBackInv
<1>7. ASSUME NEW m \in Ids, NEW failed \in BOOLEAN, CompletionDone(m, failed) PROVE Inv'
  <2>1. status' \in [Ids -> Statuses]
    BY <1>0, <1>7 DEF CompletionDone, Statuses
  <2> QED
    BY <1>0, <1>7, <2>1, KeepInv DEF CompletionDone
<1>8. ASSUME NEW m \in Ids, TasksCancel(m) PROVE Inv'
  <2>1. status' \in [Ids -> Statuses]
    BY <1>0, <1>8, SiblingsDoneTyped DEF TasksCancel, Inv
  <2> QED
    BY <1>0, <1>8, <2>1, KeepInv DEF TasksCancel
<1>9. CASE StopResponse
  BY <1>0, <1>9, SiblingsDoneTyped, KeepInv DEF StopResponse, Inv
<1>10. CASE UNCHANGED vars
  BY <1>0, <1>10, KeepInv DEF vars
<1> QED
  BY <1>1, <1>2, <1>3, <1>4, <1>5, <1>6, <1>7, <1>8, <1>9, <1>10, AskingInv, ArrangingInv
     DEF Next, Answering, LateWrite, Events

LEMMA Invariance == Spec => []Inv
  BY InitInv, StepInv, PTL DEF Spec

-----------------------------------------------------------------------------
\* Every variable of the tree keeps its type, and no id is used that was not
\* handed out.
THEOREM TreeTypeCorrect == Spec => []TypeOK
<1>1. Inv => TypeOK
  BY DEF Inv
<1> QED
  BY Invariance, <1>1, PTL

\* A link always leads from an older message to a newer one, so that every loop
\* along the links ends.
THEOREM LoopsAlwaysEnd == Spec => []LoopsEnd
<1>1. Inv => LoopsEnd
  BY DEF Inv
<1> QED
  BY Invariance, <1>1, PTL

-----------------------------------------------------------------------------
(* The tree is kept *)

\* What is not in the history looks like an id not yet made.
Blank == \A m \in Ids \ messages : parentId[m] = 0 /\ childrenIds[m] = {}

\* Every set of numbers has a smallest one.
LEMMA Smallest ==
  ASSUME NEW S \in SUBSET Nat, S # {}
  PROVE  \E x \in S : \A y \in S : x =< y
<1> DEFINE R == OpToRel(<, Nat)
<1>1. \A x, y \in Nat : y < x => <<y, x>> \in R
  BY DEF OpToRel
<1>2. IsWellFoundedOn(R, Nat)
  BY NatLessThanWellFounded
<1> HIDE DEF R
<1>3. PICK x \in S : \A y \in S : ~ (<<y, x>> \in R)
  BY <1>2, WFMin
<1>4. \A y \in S : x \in Nat /\ y \in Nat /\ ~(y < x)
  BY <1>1, <1>3
<1> QED
  BY <1>4

\* A history with messages has a root: its oldest message.
LEMMA OldestIsRoot ==
  ASSUME NEW msgs \in SUBSET Ids, NEW par, msgs # {},
         \A m \in msgs : par[m] < m /\ par[m] \in msgs \cup {0}
  PROVE  Roots(msgs, par) # {}
<1>0. msgs \in SUBSET Nat
  BY BoundsAssumption DEF Ids
<1>1. PICK x \in msgs : \A y \in msgs : x =< y
  BY <1>0, Smallest
<1>2. x \in Nat /\ par[x] \in Nat /\ par[x] < x
  <2>1. par[x] \in msgs \cup {0} /\ par[x] < x
    OBVIOUS
  <2>2. \A y \in msgs : y \in Nat
    BY <1>0
  <2> QED
    BY <2>1, <2>2
<1>3. par[x] \notin msgs
  BY <1>1, <1>2
<1> QED
  BY <1>3 DEF Roots

\* Drilling down where no child is missing ends at a leaf.
LEMMA DrillLands ==
  ASSUME NEW m, NEW msgs, NEW kids, NEW cur, \A x \in msgs : kids[x] \subseteq msgs
  PROVE  \A x \in Drill(m, msgs, kids, cur) : x \in msgs /\ kids[x] = {}
BY DEF Drill, Landings, Breaks

\* sendMessage: msgs, par and kids are the tree with the user's message in it.
LEMMA SendMessageTree ==
  ASSUME Inv, Tree, NEW user \in Ids, NEW last \in Nat, NEW n \in Nat, NEW newChat,
         NEW par \in [Ids -> 0 .. MaxId], NEW kids \in [Ids -> SUBSET Ids],
         SendMessage(user, last, par, kids, n, newChat),
         messages \cup {user} \subseteq 1 .. last,
         \A m \in messages \cup {user} : /\ kids[m] = {k \in messages \cup {user} : par[k] = m}
                                         /\ par[m] \in messages \cup {user, 0},
         \A m \in Ids \ (messages \cup {user}) : kids[m] = {},
         \/ user > made /\ kids[user] = {}
         \/ user \in messages /\ kids = childrenIds
  PROVE  Tree'
<1> DEFINE msgs == messages \cup {user}
           responses == (last + 1) .. (last + n)
<1> USE BoundsAssumption DEF Ids
<1>1. /\ last + n =< MaxId /\ messages' = msgs \cup responses
      /\ parentId' = [m \in Ids |-> IF m \in responses THEN user ELSE par[m]]
      /\ childrenIds' = [kids EXCEPT ![user] = @ \cup responses]
      /\ currentId' = IF n > 0 THEN last + n ELSE IF user > made THEN user ELSE currentId
  BY DEF SendMessage
<1>2. /\ responses \subseteq Ids /\ responses \cap msgs = {} /\ msgs \subseteq Ids
      /\ 0 \notin responses /\ made \in Nat /\ user \in msgs
  BY <1>1 DEF Inv, TypeOK
<1>3. /\ \A m \in msgs : parentId'[m] = par[m]
      /\ \A m \in responses : parentId'[m] = user
      /\ \A m \in msgs \ {user} : childrenIds'[m] = kids[m]
      /\ \A m \in responses : childrenIds'[m] = {}
      /\ childrenIds'[user] = kids[user] \cup responses
  BY <1>1, <1>2
<1>a. /\ \A m \in msgs : kids[m] = {k \in msgs : par[k] = m} /\ par[m] \in msgs \cup {0}
      /\ messages' = msgs \cup responses
  BY <1>1
<1> HIDE DEF msgs, responses
<1>b. /\ \A m \in msgs : kids[m] \subseteq msgs /\ \A k \in msgs : k \in kids[m] <=> par[k] = m
      /\ \A k \in msgs : par[k] \in msgs \cup {0}
  BY <1>a
<1>4. ASSUME NEW m \in messages' PROVE childrenIds'[m] = {k \in messages' : parentId'[k] = m}
  <2> SUFFICES childrenIds'[m] \subseteq messages' /\ \A k \in messages' : k \in childrenIds'[m] <=> parentId'[k] = m
    OBVIOUS
  <2>1. CASE m = user
    <3>1. childrenIds'[m] = kids[m] \cup responses /\ kids[m] \subseteq msgs
      BY <1>2, <1>3, <1>b, <2>1
    <3>2. \A k \in msgs : k \in childrenIds'[m] <=> parentId'[k] = m
      BY <1>2, <1>3, <1>b, <2>1, <3>1
    <3>3. \A k \in responses : k \in childrenIds'[m] /\ parentId'[k] = m
      BY <1>3, <2>1, <3>1
    <3> QED
      BY <1>a, <3>1, <3>2, <3>3
  <2>2. CASE m \in responses
    <3>1. \A k \in msgs : par[k] # m
      BY <1>b, <1>2, <2>2
    <3>2. childrenIds'[m] = {} /\ m # user
      BY <1>2, <1>3, <2>2
    <3> QED
      BY <1>a, <1>3, <3>1, <3>2
  <2>3. CASE m \in msgs \ {user}
    <3>1. childrenIds'[m] = kids[m] /\ kids[m] \subseteq msgs
      BY <1>3, <1>b, <2>3
    <3>2. \A k \in msgs : k \in childrenIds'[m] <=> parentId'[k] = m
      BY <1>3, <1>b, <2>3, <3>1
    <3>3. \A k \in responses : k \notin childrenIds'[m] /\ parentId'[k] # m
      BY <1>2, <1>3, <2>3, <3>1
    <3> QED
      BY <1>a, <3>1, <3>2, <3>3
  <2> QED
    BY <1>a, <2>1, <2>2, <2>3
<1>5. ASSUME NEW m \in messages' PROVE parentId'[m] \in messages' \cup {0}
  BY <1>a, <1>2, <1>3
<1>6. currentId' \in messages' /\ childrenIds'[currentId'] = {}
  <2>1. CASE n > 0
    <3>1. currentId' = last + n /\ last + n \in responses
      BY <1>1, <2>1 DEF responses
    <3> QED
      BY <1>a, <1>3, <3>1
  <2>2. CASE n = 0
    <3>1. responses = {}
      BY <2>2 DEF responses
    <3>2. CASE user > made /\ kids[user] = {}
      <4>1. currentId' = user
        BY <1>1, <2>2, <3>2
      <4> QED
        BY <1>a, <1>2, <1>3, <3>1, <3>2, <4>1
    <3>3. CASE user \in messages /\ kids = childrenIds
      <4>1. currentId \in messages /\ childrenIds[currentId] = {} /\ ~(user > made)
        BY <3>3 DEF Tree, Inv, TypeOK
      <4>2. currentId' = currentId
        BY <1>1, <2>2, <4>1
      <4> QED
        BY <1>a, <1>2, <1>3, <3>1, <3>3, <4>1, <4>2 DEF msgs
    <3> QED
      BY <3>2, <3>3
  <2> QED
    BY <2>1, <2>2
<1>7. messages' # {}
  BY <1>a, <1>2
<1> QED
  BY <1>4, <1>5, <1>6, <1>7 DEF Tree

LEMMA PromptTree ==
  ASSUME Inv, Blank, Tree, NEW p \in {0} \cup messages, NEW n \in Nat, NEW newChat, Prompt(p, n, newChat)
  PROVE  Tree'
<1> DEFINE user == made + 1
           par == [parentId EXCEPT ![user] = p]
           kids == Appended(childrenIds, p, {user})
           msgs == messages \cup {user}
<1> USE BoundsAssumption DEF Ids
<1>1. /\ user \in Ids /\ p < user /\ p \in Nat /\ made \in Nat /\ messages \subseteq 1 .. made /\ user \notin messages
      /\ p # user /\ p \in 0 .. MaxId
      /\ parentId \in [Ids -> 0 .. MaxId] /\ childrenIds \in [Ids -> SUBSET Ids] /\ messages \subseteq Ids
  BY DEF Prompt, Inv, TypeOK
<1>2. /\ par \in [Ids -> 0 .. MaxId] /\ par[user] = p /\ \A m \in messages : par[m] = parentId[m]
  BY <1>1
<1>3. /\ kids \in [Ids -> SUBSET Ids]
      /\ \A m \in Ids : kids[m] = IF m = p /\ p \in messages THEN childrenIds[p] \cup {user} ELSE childrenIds[m]
  BY <1>1 DEF Appended
<1>4. SendMessage(user, user, par, kids, n, newChat)
  BY DEF Prompt
<1>5. /\ childrenIds[user] = {}
      /\ \A m \in messages : /\ childrenIds[m] \subseteq messages /\ \A k \in messages : k \in childrenIds[m] <=> parentId[k] = m
                             /\ parentId[m] \in messages \cup {0}
  <2>1. childrenIds[user] = {}
    BY <1>1 DEF Blank
  <2>2. \A m \in messages : childrenIds[m] = {k \in messages : parentId[k] = m} /\ parentId[m] \in messages \cup {0}
    BY DEF Tree
  <2>3. QED
    BY <2>1, <2>2
<1>6. user \in Nat /\ user > made /\ msgs \subseteq 1 .. user
  BY <1>1
<1>7. 0 \notin messages /\ user # 0
  BY <1>1
<1> HIDE DEF par, kids, user
<1>8. ASSUME NEW m \in msgs
      PROVE  kids[m] = {k \in msgs : par[k] = m} /\ par[m] \in messages \cup {user, 0}
  <2>1. CASE m = user
    <3>1. kids[m] = {}
      BY <1>1, <1>3, <1>5, <2>1
    <3>2. \A k \in msgs : par[k] # m
      BY <1>1, <1>2, <1>5, <1>7, <2>1
    <3> QED
      BY <1>1, <1>2, <2>1, <3>1, <3>2
  <2>2. CASE m \in messages
    <3>1. kids[m] \subseteq msgs
      BY <1>1, <1>3, <1>5, <2>2
    <3>2. \A k \in messages : k \in kids[m] <=> par[k] = m
      BY <1>1, <1>2, <1>3, <1>5, <2>2
    <3>3. user \in kids[m] <=> par[user] = m
      BY <1>1, <1>2, <1>3, <1>5, <2>2
    <3> QED
      BY <1>2, <1>5, <2>2, <3>1, <3>2, <3>3
  <2> QED
    BY <2>1, <2>2
<1>9. \A m \in Ids \ msgs : kids[m] = {}
  BY <1>1, <1>3 DEF Blank
<1>10. kids[user] = {}
  BY <1>1, <1>3, <1>5
<1>11. /\ user \in Ids /\ user \in Nat
       /\ par \in [Ids -> 0 .. MaxId] /\ kids \in [Ids -> SUBSET Ids]
       /\ messages \cup {user} \subseteq 1 .. user
       /\ \A m \in messages \cup {user} : /\ kids[m] = {k \in messages \cup {user} : par[k] = m}
                                         /\ par[m] \in messages \cup {user, 0}
       /\ \A m \in Ids \ (messages \cup {user}) : kids[m] = {}
  BY <1>1, <1>2, <1>3, <1>6, <1>8, <1>9
<1>12. \/ user > made /\ kids[user] = {}
       \/ user \in messages /\ kids = childrenIds
  BY <1>6, <1>10
<1> HIDE DEF Ids, msgs
<1> QED
  BY <1>4, <1>11, <1>12, SendMessageTree

LEMMA InsertTree ==
  ASSUME Inv, Blank, Tree, NEW p \in {0} \cup messages, NEW y \in {0, made + 2}, NEW xRole, NEW yRole,
         Insert(p, made + 1, xRole, y, yRole)
  PROVE  Tree'
<1> DEFINE x == made + 1
           new == {x, y} \ {0}
           c == Appended(childrenIds, p, {x})
<1> USE BoundsAssumption DEF Ids
<1>1. /\ made \in Nat /\ messages \subseteq 1 .. made /\ messages \subseteq Ids
      /\ parentId \in [Ids -> 0 .. MaxId] /\ childrenIds \in [Ids -> SUBSET Ids]
  BY DEF Inv, TypeOK
<1>2. /\ x \notin messages /\ y \notin messages /\ x # y /\ x # p /\ (p = y => y = 0) /\ x # 0 /\ 0 \notin messages
  BY <1>1
<1>3. /\ new \subseteq Ids /\ messages' = messages \cup new /\ currentId' = (IF y = 0 THEN x ELSE y)
      /\ parentId' = [m \in Ids |-> IF m = x THEN p ELSE IF m = y THEN x ELSE parentId[m]]
      /\ childrenIds' = [c EXCEPT ![x] = {y} \ {0}]
  BY DEF Insert
<1>4. x \in Ids /\ c \in [Ids -> SUBSET Ids]
      /\ \A m \in Ids : c[m] = IF m = p /\ p \in messages THEN childrenIds[p] \cup {x} ELSE childrenIds[m]
  BY <1>1, <1>2, <1>3 DEF Appended
<1>5. /\ \A m \in messages : parentId'[m] = parentId[m] /\ childrenIds'[m] = c[m]
      /\ parentId'[x] = p /\ childrenIds'[x] = {y} \ {0}
      /\ y \in new => parentId'[y] = x /\ childrenIds'[y] = {}
  BY <1>1, <1>2, <1>3, <1>4 DEF Blank
<1>6. /\ childrenIds[x] = {}
      /\ \A m \in messages : /\ childrenIds[m] \subseteq messages /\ \A k \in messages : k \in childrenIds[m] <=> parentId[k] = m
                             /\ parentId[m] \in messages \cup {0}
  <2>1. x \in Ids \ messages
    BY <1>2, <1>4
  <2>2. childrenIds[x] = {}
    BY <2>1 DEF Blank
  <2>3. \A m \in messages : childrenIds[m] = {k \in messages : parentId[k] = m} /\ parentId[m] \in messages \cup {0}
    BY DEF Tree
  <2> QED
    BY <2>2, <2>3
<1>7. messages' = messages \cup {x} \cup ({y} \ {0})
  BY <1>2, <1>3
<1> HIDE DEF x, new, c
<1>8. ASSUME NEW m \in messages' PROVE childrenIds'[m] = {k \in messages' : parentId'[k] = m}
  <2> SUFFICES childrenIds'[m] \subseteq messages' /\ \A k \in messages' : k \in childrenIds'[m] <=> parentId'[k] = m
    OBVIOUS
  <2>1. CASE m = x
    <3>1. \A k \in messages : parentId'[k] # m
      BY <1>2, <1>5, <1>6, <2>1
    <3>2. y \in new <=> y # 0
      BY DEF new
    <3> QED
      BY <1>2, <1>5, <1>7, <2>1, <3>1, <3>2
  <2>2. CASE m = y /\ y # 0
    <3>1. \A k \in messages : parentId'[k] # m
      BY <1>2, <1>5, <1>6, <2>2
    <3>2. y \in new
      BY <2>2 DEF new
    <3> QED
      BY <1>2, <1>5, <1>7, <2>2, <3>1, <3>2
  <2>3. CASE m \in messages
    <3>1. childrenIds'[m] = IF m = p THEN childrenIds[p] \cup {x} ELSE childrenIds[m]
      BY <1>1, <1>4, <1>5, <2>3
    <3>2. \A k \in messages : k \in childrenIds'[m] <=> parentId'[k] = m
      BY <1>2, <1>5, <1>6, <2>3, <3>1
    <3>3. x \in childrenIds'[m] <=> parentId'[x] = m
      BY <1>2, <1>5, <1>6, <2>3, <3>1
    <3>4. y # 0 => y \notin childrenIds'[m] /\ parentId'[y] # m
      <4>1. y # 0 => y \in new
        BY DEF new
      <4> QED
        BY <1>2, <1>5, <1>6, <2>3, <3>1, <4>1
    <3>5. childrenIds'[m] \subseteq messages'
      BY <1>6, <1>7, <2>3, <3>1
    <3> QED
      BY <1>7, <3>2, <3>3, <3>4, <3>5
  <2> QED
    BY <1>7, <2>1, <2>2, <2>3
<1>9. ASSUME NEW m \in messages' PROVE parentId'[m] \in messages' \cup {0}
  <2>1. y # 0 => y \in new
    BY DEF new
  <2> QED
    BY <1>5, <1>6, <1>7, <2>1
<1>10. currentId' \in messages' /\ childrenIds'[currentId'] = {}
  <2>1. CASE y = 0
    BY <1>3, <1>5, <1>7, <2>1
  <2>2. CASE y # 0
    <3>1. y \in new
      BY <2>2 DEF new
    <3> QED
      BY <1>3, <1>5, <1>7, <2>2, <3>1
  <2> QED
    BY <2>1, <2>2
<1> QED
  BY <1>8, <1>9, <1>10 DEF Tree

LEMMA DeleteMessageTree ==
  ASSUME Inv, Tree, NEW m \in messages, DeleteMessage(m)
  PROVE  Tree'
<1> DEFINE p    == parentId[m]
           gone == {m} \cup childrenIds[m]
           grandchildren == UNION {childrenIds[k] : k \in childrenIds[m] \cap messages}
<1> USE BoundsAssumption DEF Ids
<1>1. /\ messages \subseteq Ids /\ 0 \notin messages
      /\ \A x \in Ids : parentId[x] < x /\ x \in Nat
      /\ \A x \in messages : /\ childrenIds[x] \subseteq messages /\ \A k \in messages : k \in childrenIds[x] <=> parentId[k] = x
                             /\ parentId[x] \in messages \cup {0} /\ parentId[x] # x
  <2>1. messages \subseteq Ids /\ 0 \notin messages
    BY DEF Inv, TypeOK
  <2>2. \A x \in Ids : parentId[x] < x /\ x \in Nat
    BY DEF Inv, LoopsEnd
  <2>3. \A x \in messages : childrenIds[x] = {k \in messages : parentId[k] = x} /\ parentId[x] \in messages \cup {0}
    BY DEF Tree
  <2>4. \A x \in messages : parentId[x] # x
    BY <2>1, <2>2
  <2> QED
    BY <2>1, <2>2, <2>3, <2>4
<1>2. /\ p \in messages \cup {0} /\ gone \subseteq messages
      /\ \A k \in messages : k \in grandchildren <=> parentId[k] \in childrenIds[m]
      /\ grandchildren \subseteq messages
  <2>1. p \in messages \cup {0} /\ gone \subseteq messages
    BY <1>1
  <2>2. \A k : k \in grandchildren <=> \E j \in childrenIds[m] : j \in messages /\ k \in childrenIds[j]
    OBVIOUS
  <2> HIDE DEF grandchildren, gone, p
  <2>3. grandchildren \subseteq messages
    BY <1>1, <2>2
  <2>4. ASSUME NEW k \in messages, k \in grandchildren PROVE parentId[k] \in childrenIds[m]
    <3>1. PICK j \in childrenIds[m] : j \in messages /\ k \in childrenIds[j]
      BY <2>2, <2>4
    <3>2. parentId[k] = j
      BY <1>1, <3>1
    <3> QED
      BY <3>1, <3>2
  <2>5. ASSUME NEW k \in messages, parentId[k] \in childrenIds[m] PROVE k \in grandchildren
    <3>1. parentId[k] \in messages
      BY <1>1, <2>5
    <3>2. k \in childrenIds[parentId[k]]
      BY <1>1, <3>1
    <3> QED
      BY <2>2, <2>5, <3>1, <3>2
  <2> QED
    BY <2>1, <2>3, <2>4, <2>5
<1>3. /\ p \notin gone
      /\ \A g \in grandchildren : g \notin gone /\ parentId[g] # p /\ parentId[g] \in gone
  <2>1. p # m /\ p \notin childrenIds[m]
    <3>1. p < m /\ (p \in childrenIds[m] => p \in messages /\ parentId[p] = m)
      BY <1>1
    <3>2. p \in Ids => parentId[p] < p /\ p \in Nat
      BY <1>1
    <3>3. p \in messages => p \in Ids
      BY <1>1
    <3>4. m \in Nat /\ p \in Nat
      <4>1. m \in Ids /\ p \in messages \cup {0} /\ \A x \in messages : x \in Nat
        BY <1>1
      <4> HIDE DEF p
      <4> QED
        BY <1>1, <3>2, <3>3, <4>1
    <3> QED
      BY <3>1, <3>2, <3>3, <3>4
  <2>2. ASSUME NEW g \in grandchildren PROVE g \notin gone /\ parentId[g] # p /\ parentId[g] \in gone
    <3> DEFINE c == parentId[g]
    <3>1. c \in childrenIds[m] /\ c \in messages /\ parentId[c] = m /\ g \in messages
      BY <1>1, <1>2
    <3>2. c # p
      BY <2>1, <3>1
    <3>3. g # m
      BY <3>2
    <3>4. c # m
      BY <1>1, <3>1
    <3>5. g \notin childrenIds[m]
      BY <1>1, <3>1, <3>4
    <3> QED
      BY <3>1, <3>2, <3>3, <3>5
  <2> QED
    BY <2>1, <2>2
<1>4. /\ messages' = messages \ gone
      /\ childrenIds' = [x \in Ids |-> IF x \in gone THEN {}
                                       ELSE IF x = p /\ p \in messages THEN (childrenIds[p] \ {m}) \cup grandchildren
                                       ELSE childrenIds[x]]
      /\ parentId' = [x \in Ids |-> IF x \in gone THEN 0
                                    ELSE IF x \in grandchildren \cap messages THEN p ELSE parentId[x]]
  BY DEF DeleteMessage
<1>5. currentId' \in
             IF p = 0
             THEN IF Roots(messages', parentId') = {} THEN {0}
                  ELSE UNION {Drill(r, messages', childrenIds', currentId) : r \in Roots(messages', parentId')}
             ELSE IF p \in messages' THEN Drill(p, messages', childrenIds', currentId) ELSE {currentId}
  BY DEF DeleteMessage
<1>a. p = parentId[m] /\ \A x : x \in gone <=> x = m \/ x \in childrenIds[m]
  OBVIOUS
<1>b. parentId'[m] = 0
  BY <1>1, <1>4
<1> HIDE DEF p, gone, grandchildren
<1>6. /\ \A x \in messages' : parentId'[x] = IF x \in grandchildren THEN p ELSE parentId[x]
      /\ \A x \in messages' : childrenIds'[x] = IF x = p THEN (childrenIds[p] \ {m}) \cup grandchildren ELSE childrenIds[x]
  BY <1>1, <1>2, <1>4
<1>7. ASSUME NEW x \in messages' PROVE childrenIds'[x] = {k \in messages' : parentId'[k] = x}
  <2> SUFFICES childrenIds'[x] \subseteq messages' /\ \A k \in messages' : k \in childrenIds'[x] <=> parentId'[k] = x
    OBVIOUS
  <2>0. x \in messages /\ x \notin gone /\ x # m /\ x \notin childrenIds[m]
    BY <1>4, <1>a
  <2>1. CASE x = p
    <3>1. childrenIds'[x] = (childrenIds[p] \ {m}) \cup grandchildren
      BY <1>6, <2>1
    <3>2. ASSUME NEW k \in childrenIds[p], k # m PROVE k \in messages'
      <4>1. k \in messages /\ parentId[k] = p /\ p # m
        BY <1>1, <2>0, <2>1, <3>2
      <4>2. k \notin childrenIds[m]
        BY <1>1, <4>1
      <4> QED
        BY <1>4, <1>a, <3>2, <4>1, <4>2
    <3>3. grandchildren \subseteq messages'
      BY <1>2, <1>3, <1>4
    <3>4. ASSUME NEW k \in messages' PROVE k \in childrenIds'[x] <=> parentId'[k] = x
      <4>1. k \in messages /\ k # m
        BY <1>4, <1>a
      <4>2. k \in childrenIds[p] <=> parentId[k] = p
        BY <1>1, <2>0, <2>1, <4>1
      <4> QED
        BY <1>6, <2>1, <3>1, <4>1, <4>2
    <3> QED
      BY <3>1, <3>2, <3>3, <3>4
  <2>2. CASE x # p
    <3>1. childrenIds'[x] = childrenIds[x]
      BY <1>6, <2>2
    <3>2. ASSUME NEW k \in childrenIds[x] PROVE k \in messages'
      <4>1. k \in messages /\ parentId[k] = x
        BY <1>1, <2>0
      <4>2. k # m
        BY <1>a, <2>2, <4>1
      <4>3. k \notin childrenIds[m]
        BY <1>1, <2>0, <4>1
      <4> QED
        BY <1>4, <1>a, <4>1, <4>2, <4>3
    <3>3. ASSUME NEW k \in messages' PROVE k \in childrenIds'[x] <=> parentId'[k] = x
      <4>1. k \in messages /\ (k \in childrenIds[x] <=> parentId[k] = x)
        BY <1>1, <1>4, <2>0
      <4>2. CASE k \in grandchildren
        <5>1. parentId[k] # x /\ parentId'[k] = p
          BY <1>3, <1>6, <2>0, <4>2
        <5> QED
          BY <2>2, <3>1, <4>1, <5>1
      <4>3. CASE k \notin grandchildren
        BY <1>6, <3>1, <4>1, <4>3
      <4> QED
        BY <4>2, <4>3
    <3> QED
      BY <3>1, <3>2, <3>3
  <2> QED
    BY <2>1, <2>2
<1>8. ASSUME NEW x \in messages' PROVE parentId'[x] \in messages' \cup {0}
  <2>1. x \in messages /\ x # m /\ x \notin childrenIds[m]
    BY <1>4, <1>a
  <2>2. CASE x \in grandchildren
    BY <1>2, <1>3, <1>4, <1>6, <2>2
  <2>3. CASE x \notin grandchildren
    <3>1. parentId'[x] = parentId[x] /\ parentId[x] \in messages \cup {0}
      BY <1>1, <1>6, <2>1, <2>3
    <3>2. parentId[x] # m
      BY <1>1, <2>1
    <3>3. parentId[x] \notin childrenIds[m]
      BY <1>2, <2>1, <2>3
    <3> QED
      BY <1>4, <1>a, <3>1, <3>2, <3>3
  <2> QED
    BY <2>2, <2>3
<1>9. \A r : \A x \in Drill(r, messages', childrenIds', currentId) : x \in messages' /\ childrenIds'[x] = {}
  <2>1. \A x \in messages' : childrenIds'[x] \subseteq messages'
    BY <1>7
  <2> QED
    BY <2>1, DrillLands
<1>10. CASE p = 0 /\ Roots(messages', parentId') = {}
  <2>1. currentId' = 0
    BY <1>5, <1>10
  <2>2. \A x \in messages' : parentId'[x] < x /\ x \in Ids
    <3>1. Inv'
      BY DeleteMessageInv
    <3>2. \A x \in messages' : x \in Ids
      BY <1>1, <1>4
    <3> QED
      BY <3>1, <3>2 DEF Inv, LoopsEnd
  <2>3. messages' = {}
    <3>1. messages' \in SUBSET Ids
      BY <2>2
    <3> QED
      BY <1>8, <1>10, <2>2, <3>1, OldestIsRoot
  <2> QED
    BY <2>1, <2>3 DEF Tree
<1>11. CASE ~(p = 0 /\ Roots(messages', parentId') = {})
  <2>1. p # 0 => p \in messages'
    BY <1>2, <1>3, <1>4
  <2>2. \E r : currentId' \in Drill(r, messages', childrenIds', currentId)
    BY <1>5, <1>11, <2>1
  <2>3. currentId' \in messages' /\ childrenIds'[currentId'] = {}
    BY <1>9, <2>2
  <2> QED
    BY <1>7, <1>8, <2>3 DEF Tree
<1> QED
  BY <1>10, <1>11

-----------------------------------------------------------------------------
(* What is not in the history stays blank *)

LEMMA SendMessageBlank ==
  ASSUME NEW user \in Ids, NEW last, NEW n, NEW newChat,
         NEW par \in [Ids -> 0 .. MaxId], NEW kids \in [Ids -> SUBSET Ids],
         SendMessage(user, last, par, kids, n, newChat),
         \A m \in Ids \ (messages \cup {user}) : par[m] = 0 /\ kids[m] = {}
  PROVE  Blank'
<1>1. /\ messages' = messages \cup {user} \cup (last + 1) .. (last + n)
      /\ parentId' = [m \in Ids |-> IF m \in (last + 1) .. (last + n) THEN user ELSE par[m]]
      /\ childrenIds' = [kids EXCEPT ![user] = @ \cup (last + 1) .. (last + n)]
  BY DEF SendMessage
<1> QED
  BY <1>1 DEF Blank

LEMMA PromptBlank ==
  ASSUME Inv, Blank, NEW p \in {0} \cup messages, NEW n, NEW newChat, Prompt(p, n, newChat)
  PROVE  Blank'
<1> DEFINE user == made + 1
           par == [parentId EXCEPT ![user] = p]
           kids == Appended(childrenIds, p, {user})
<1>1. user \in Ids /\ p \in 0 .. MaxId /\ parentId \in [Ids -> 0 .. MaxId] /\ childrenIds \in [Ids -> SUBSET Ids]
  BY BoundsAssumption DEF Prompt, Inv, TypeOK, Ids
<1>2. par \in [Ids -> 0 .. MaxId] /\ kids \in [Ids -> SUBSET Ids]
  BY <1>1 DEF Appended
<1>3. \A m \in Ids \ (messages \cup {user}) : par[m] = 0 /\ kids[m] = {}
  BY <1>1 DEF Appended, Blank
<1>4. SendMessage(user, user, par, kids, n, newChat)
  BY DEF Prompt
<1> HIDE DEF user, par, kids
<1> QED
  BY <1>1, <1>2, <1>3, <1>4, SendMessageBlank

LEMMA InsertBlank ==
  ASSUME Inv, Blank, NEW p, NEW x, NEW y, NEW xRole, NEW yRole, Insert(p, x, xRole, y, yRole), x # 0
  PROVE  Blank'
<1>1. /\ messages' = messages \cup ({x, y} \ {0}) /\ {x, y} \ {0} \subseteq Ids
      /\ parentId' = [m \in Ids |-> IF m = x THEN p ELSE IF m = y THEN x ELSE parentId[m]]
      /\ childrenIds' = [Appended(childrenIds, p, {x}) EXCEPT ![x] = {y} \ {0}]
  BY DEF Insert
<1>2. ASSUME NEW m \in Ids, m \notin messages' PROVE m # x /\ m # y /\ m \notin messages
  BY <1>1, <1>2, BoundsAssumption DEF Ids
<1>3. ASSUME NEW m \in Ids \ messages, m # x PROVE childrenIds'[m] = {}
  <2>1. childrenIds \in [Ids -> SUBSET Ids] /\ childrenIds[m] = {}
    BY DEF Blank, Inv, TypeOK
  <2> QED
    BY <1>1, <1>3, <2>1 DEF Appended
<1> QED
  BY <1>1, <1>2, <1>3 DEF Blank

LEMMA DeleteMessageBlank ==
  ASSUME Blank, NEW m \in messages, DeleteMessage(m)
  PROVE  Blank'
<1> DEFINE p    == parentId[m]
           gone == {m} \cup childrenIds[m]
           grandchildren == UNION {childrenIds[k] : k \in childrenIds[m] \cap messages}
<1>1. /\ messages' = messages \ gone
      /\ childrenIds' = [x \in Ids |-> IF x \in gone THEN {}
                                       ELSE IF x = p /\ p \in messages THEN (childrenIds[p] \ {m}) \cup grandchildren
                                       ELSE childrenIds[x]]
      /\ parentId' = [x \in Ids |-> IF x \in gone THEN 0
                                    ELSE IF x \in grandchildren \cap messages THEN p ELSE parentId[x]]
  BY DEF DeleteMessage
<1> HIDE DEF p, gone, grandchildren
<1> QED
  BY <1>1 DEF Blank

LEMMA WriteBackBlank ==
  ASSUME Inv, Blank, NEW h \in pending, NEW held, WriteBack(h, held)
  PROVE  Blank'
<1>1. /\ messages' = messages \cup {h.id} /\ h.id \in Ids
      /\ parentId \in [Ids -> 0 .. MaxId] /\ childrenIds \in [Ids -> SUBSET Ids]
  BY DEF WriteBack, Inv, TypeOK, Held
<1>2. CASE h.live
  BY <1>1, <1>2 DEF WriteBack, Blank
<1>3. CASE ~h.live
  BY <1>1, <1>3 DEF WriteBack, Blank
<1> QED
  BY <1>2, <1>3

LEMMA SendingBlank == Inv /\ Blank /\ (\E n \in 0 .. MaxModels : Sending(n)) => Blank'
<1> SUFFICES ASSUME Inv, Blank, NEW n \in 0 .. MaxModels, Sending(n) PROVE Blank'
  OBVIOUS
<1>1. CASE SubmitPrompt(n)
  <2>1. currentId \in {0} \cup messages /\ Prompt(currentId, n, currentId = 0)
    BY <1>1 DEF SubmitPrompt
  <2> QED
    BY <2>1, PromptBlank
<1>2. ASSUME NEW m \in messages, SubmitMessage(m, n) PROVE Blank'
  BY <1>2, PromptBlank DEF SubmitMessage
<1>3. ASSUME NEW m \in messages, EditPrompt(m, n) PROVE Blank'
  <2>1. parentId[m] \in {0} \cup messages /\ Prompt(parentId[m], n, FALSE)
    BY <1>3 DEF EditPrompt
  <2> QED
    BY <2>1, PromptBlank
<1>4. ASSUME NEW m \in messages, RegenerateResponse(m, n) PROVE Blank'
  <2> DEFINE u == parentId[m]
  <2>1. u \in messages /\ SendMessage(u, made, parentId, childrenIds, n, FALSE)
    BY <1>4 DEF RegenerateResponse
  <2>2. messages \subseteq Ids /\ parentId \in [Ids -> 0 .. MaxId] /\ childrenIds \in [Ids -> SUBSET Ids]
    BY BoundsAssumption DEF Inv, TypeOK, Ids
  <2>3. \A x \in Ids \ (messages \cup {u}) : parentId[x] = 0 /\ childrenIds[x] = {}
    BY DEF Blank
  <2> HIDE DEF u
  <2> QED
    BY <2>1, <2>2, <2>3, SendMessageBlank
<1> QED
  BY <1>1, <1>2, <1>3, <1>4 DEF Sending

LEMMA BlankStep == Inv /\ Blank /\ [Next]_vars => Blank'
<1> SUFFICES ASSUME Inv, Blank, [Next]_vars PROVE Blank'
  OBVIOUS
<1>0. ASSUME UNCHANGED links PROVE Blank'
  BY <1>0 DEF links, Blank
<1>a. made + 1 # 0
  BY BoundsAssumption DEF Inv, TypeOK
<1>1. CASE CreateMessagePair
  <2>1. \E p \in {0} \cup messages : Insert(p, made + 1, "user", made + 2, "assistant")
    BY <1>1 DEF CreateMessagePair
  <2> QED
    BY <1>a, <2>1, InsertBlank
<1>2. ASSUME NEW found \in BOOLEAN, ContinueResponse(found) PROVE Blank'
  BY <1>0, <1>2 DEF ContinueResponse, tree
<1>3. ASSUME NEW m \in messages, AddMessages(m) PROVE Blank'
  BY <1>a, <1>3, InsertBlank DEF AddMessages
<1>4. ASSUME NEW m \in messages, SaveAsCopy(m) PROVE Blank'
  BY <1>a, <1>4, InsertBlank DEF SaveAsCopy
<1>5. ASSUME NEW m \in messages, ShowMessage(m) PROVE Blank'
  BY <1>0, <1>5 DEF ShowMessage, tree
<1>6. ASSUME NEW m \in messages, DeleteMessage(m) PROVE Blank'
  BY <1>6, DeleteMessageBlank
<1>7. ASSUME NEW m \in messages, HoldCopy(m) PROVE Blank'
  BY <1>0, <1>7 DEF HoldCopy, tree
<1>8. CASE Answering
  BY <1>0, <1>8 DEF Answering, ChatCreated, ChatNotCreated, RequestAnswered, Forget, tree
<1>9. CASE LateWrite
  BY <1>9, WriteBackBlank DEF LateWrite, RequestFails, SaveMessage
<1>10. CASE Events
  BY <1>0, <1>10 DEF Events, CompletionDone, TasksCancel, StopResponse, tree
<1>11. CASE UNCHANGED vars
  BY <1>0, <1>11 DEF vars, tree
<1> QED
  BY <1>1, <1>2, <1>3, <1>4, <1>5, <1>6, <1>7, <1>8, <1>9, <1>10, <1>11, SendingBlank DEF Next, Arranging

-----------------------------------------------------------------------------
(* Every step keeps the tree *)

\* A message written back that still fits changes nothing of the tree.
LEMMA WriteBackTree ==
  ASSUME Inv, Tree, NEW h \in pending, NEW held, WriteBack(h, held), ~Outdated(h),
         currentId' = currentId \/ (currentId' = h.id /\ h.request)
  PROVE  Tree'
<1>1. /\ h.id \in messages /\ (h.request => childrenIds[h.id] = {})
      /\ ~h.live => parentId[h.id] = h.parentId /\ childrenIds[h.id] = h.childrenIds
  BY DEF Outdated
<1>2. parentId \in [Ids -> 0 .. MaxId] /\ childrenIds \in [Ids -> SUBSET Ids]
  BY DEF Inv, TypeOK
<1>3. messages' = messages /\ parentId' = parentId /\ childrenIds' = childrenIds
  <2>1. messages' = messages
    BY <1>1 DEF WriteBack
  <2>2. CASE h.live
    BY <2>1, <2>2 DEF WriteBack
  <2>3. CASE ~h.live
    <3>1. /\ parentId' = [parentId EXCEPT ![h.id] = h.parentId]
          /\ childrenIds' = [childrenIds EXCEPT ![h.id] = h.childrenIds]
      BY <2>3 DEF WriteBack
    <3>2. h.parentId = parentId[h.id] /\ h.childrenIds = childrenIds[h.id]
      BY <1>1, <2>3
    <3>3. parentId' = parentId
      BY <1>2, <3>1, <3>2
    <3>4. childrenIds' = childrenIds
      BY <1>2, <3>1, <3>2
    <3> QED
      BY <2>1, <3>3, <3>4
  <2> QED
    BY <2>2, <2>3
<1>4. CASE currentId' = currentId
  BY <1>3, <1>4 DEF Tree
<1>5. CASE currentId' = h.id /\ h.request
  BY <1>1, <1>3, <1>5 DEF Tree
<1> QED
  BY <1>4, <1>5

LEMMA SendingTree == Inv /\ Blank /\ Tree /\ (\E n \in 0 .. MaxModels : Sending(n)) => Tree'
<1> SUFFICES ASSUME Inv, Blank, Tree, NEW n \in 0 .. MaxModels, Sending(n) PROVE Tree'
  OBVIOUS
<1>0. n \in Nat
  BY BoundsAssumption
<1>1. CASE SubmitPrompt(n)
  <2>1. currentId \in {0} \cup messages /\ Prompt(currentId, n, currentId = 0)
    BY <1>1 DEF SubmitPrompt
  <2> QED
    BY <1>0, <2>1, PromptTree
<1>2. ASSUME NEW m \in messages, SubmitMessage(m, n) PROVE Tree'
  BY <1>0, <1>2, PromptTree DEF SubmitMessage
<1>3. ASSUME NEW m \in messages, EditPrompt(m, n) PROVE Tree'
  <2>1. parentId[m] \in {0} \cup messages /\ Prompt(parentId[m], n, FALSE)
    BY <1>3 DEF EditPrompt
  <2> QED
    BY <1>0, <2>1, PromptTree
<1>4. ASSUME NEW m \in messages, RegenerateResponse(m, n) PROVE Tree'
  <2> DEFINE u == parentId[m]
             par == parentId
             kids == childrenIds
             newChat == FALSE
  <2>1. u \in messages /\ SendMessage(u, made, par, kids, n, newChat)
    BY <1>4 DEF RegenerateResponse
  <2>2. /\ messages \subseteq Ids /\ messages \subseteq 1 .. made /\ made \in Nat
        /\ par \in [Ids -> 0 .. MaxId] /\ kids \in [Ids -> SUBSET Ids]
    BY BoundsAssumption DEF Inv, TypeOK, Ids
  <2>3. /\ \A x \in messages : kids[x] = {k \in messages : par[k] = x} /\ par[x] \in messages \cup {0}
        /\ \A x \in Ids \ messages : kids[x] = {}
        /\ kids = childrenIds
    BY DEF Tree, Blank
  <2> HIDE DEF u, par, kids, newChat
  <2>4. messages \cup {u} = messages
    BY <2>1
  <2>5. \A x \in messages \cup {u} : /\ kids[x] = {k \in messages \cup {u} : par[k] = x}
                                     /\ par[x] \in messages \cup {u, 0}
    BY <2>1, <2>3, <2>4
  <2>6. /\ \A x \in Ids \ (messages \cup {u}) : kids[x] = {}
        /\ messages \cup {u} \subseteq 1 .. made
        /\ u \in Ids
    BY <2>1, <2>2, <2>3, <2>4
  <2>7. (u > made /\ kids[u] = {}) \/ (u \in messages /\ kids = childrenIds)
    BY <2>1, <2>3
  <2>8. /\ u \in Ids /\ made \in Nat /\ n \in Nat
        /\ par \in [Ids -> 0 .. MaxId] /\ kids \in [Ids -> SUBSET Ids]
        /\ SendMessage(u, made, par, kids, n, newChat)
        /\ messages \cup {u} \subseteq 1 .. made
        /\ \A x \in messages \cup {u} : /\ kids[x] = {k \in messages \cup {u} : par[k] = x}
                                         /\ par[x] \in messages \cup {u, 0}
        /\ \A x \in Ids \ (messages \cup {u}) : kids[x] = {}
        /\ (u > made /\ kids[u] = {}) \/ (u \in messages /\ kids = childrenIds)
    BY <1>0, <2>1, <2>2, <2>5, <2>6, <2>7
  <2> QED
    BY <2>8, SendMessageTree
<1> QED
  BY <1>1, <1>2, <1>3, <1>4 DEF Sending

LEMMA TreeAnyStep == Inv /\ Blank /\ [Next]_vars => TreeStep
<1> SUFFICES ASSUME Inv, Blank, Tree, ~OutdatedWrite, [Next]_vars PROVE Tree'
  BY DEF TreeStep
<1>0. ASSUME UNCHANGED <<links, currentId>> PROVE Tree'
  BY <1>0 DEF links, Tree
<1>1. CASE CreateMessagePair
  <2>1. \E p \in {0} \cup messages : Insert(p, made + 1, "user", made + 2, "assistant")
    BY <1>1 DEF CreateMessagePair
  <2> QED
    BY <2>1, InsertTree
<1>2. ASSUME NEW found \in BOOLEAN, ContinueResponse(found) PROVE Tree'
  BY <1>0, <1>2 DEF ContinueResponse, tree
<1>3. ASSUME NEW m \in messages, AddMessages(m) PROVE Tree'
  BY <1>3, InsertTree DEF AddMessages
<1>4. ASSUME NEW m \in messages, SaveAsCopy(m) PROVE Tree'
  <2>1. parentId[m] \in {0} \cup messages
    BY DEF Tree
  <2> QED
    BY <1>4, <2>1, InsertTree DEF SaveAsCopy
<1>5. ASSUME NEW m \in messages, ShowMessage(m) PROVE Tree'
  <2>1. UNCHANGED links /\ currentId' \in Drill(m, messages, childrenIds, currentId)
    BY <1>5 DEF ShowMessage, tree
  <2>2. currentId' \in messages /\ childrenIds[currentId'] = {}
    <3>1. \A x \in messages : childrenIds[x] \subseteq messages
      BY DEF Tree
    <3> QED
      BY <2>1, <3>1, DrillLands
  <2> QED
    BY <2>1, <2>2 DEF links, Tree
<1>6. ASSUME NEW m \in messages, DeleteMessage(m) PROVE Tree'
  BY <1>6, DeleteMessageTree
<1>7. ASSUME NEW m \in messages, HoldCopy(m) PROVE Tree'
  BY <1>0, <1>7 DEF HoldCopy, tree
<1>8. CASE Answering
  BY <1>0, <1>8 DEF Answering, ChatCreated, ChatNotCreated, RequestAnswered, Forget, tree
<1>9. CASE LateWrite
  <2>1. PICK h \in pending, b \in BOOLEAN : RequestFails(h, b) \/ SaveMessage(h, b)
    BY <1>9 DEF LateWrite
  <2>2. ~Outdated(h)
    BY <2>1 DEF OutdatedWrite
  <2>3. CASE RequestFails(h, b)
    <3>1. WriteBack(h, pending \ {h}) /\ (currentId' = currentId \/ (currentId' = h.id /\ h.request))
      BY <2>3 DEF RequestFails, Requests
    <3> QED
      BY <2>2, <3>1, WriteBackTree
  <2>4. CASE SaveMessage(h, b)
    <3>1. WriteBack(h, IF b THEN pending ELSE pending \ {h}) /\ currentId' = currentId
      BY <2>4 DEF SaveMessage
    <3> QED
      BY <2>2, <3>1, WriteBackTree
  <2> QED
    BY <2>1, <2>3, <2>4
<1>10. CASE Events
  BY <1>0, <1>10 DEF Events, CompletionDone, TasksCancel, StopResponse, tree
<1>11. CASE UNCHANGED vars
  BY <1>0, <1>11 DEF vars, tree
<1> QED
  BY <1>1, <1>2, <1>3, <1>4, <1>5, <1>6, <1>7, <1>8, <1>9, <1>10, <1>11, SendingTree DEF Next, Arranging

\* Every operation, answer and event keeps the tree a tree, save a message
\* written back over an await when it no longer fits.
THEOREM TreeAlwaysKept == Spec => TreeKept
<1>1. Init => Blank
  BY DEF Init, Blank
<1>2. Inv /\ Blank /\ [Next]_vars => [TreeStep]_vars
  BY TreeAnyStep
<1> QED
  BY Invariance, BlankStep, <1>1, <1>2, PTL DEF Spec, TreeKept

-----------------------------------------------------------------------------
(* What makes a response stuck *)

\* A message stuck after a step that was an open response before it, and not
\* awaited, was stuck already.
LEMMA WasStuck ==
  ASSUME NEW m \in messages, role[m] = "assistant", status[m] = "open", m \notin Awaited
  PROVE  m \in Stuck
BY DEF Stuck

\* Nobody waits for less when nothing is taken from the three sets.
LEMMA AwaitedGrows ==
  ASSUME creating \subseteq creating', pending \subseteq pending', running \subseteq running'
  PROVE  Awaited \subseteq Awaited'
BY DEF Awaited, Requests

\* The held messages detached from the history are still those asked for.
LEMMA DetachedAwaits ==
  ASSUME TypeOK, NEW held \in SUBSET pending, NEW gone, NEW h \in held, h.request
  PROVE  \E d \in Detached(held, gone) : d.request /\ d.id = h.id
<1>1. Kept(h, gone) \in Detached(held, gone)
  BY DEF Detached
<1>2. h \in Held
  BY DEF TypeOK
<1>3. Kept(h, gone).request /\ Kept(h, gone).id = h.id
  BY <1>2 DEF Held, Kept
<1> QED
  BY <1>1, <1>3

\* sendMessage: the responses made are waited for.
LEMMA SendMessageStuck ==
  ASSUME Inv, NEW user \in Ids, NEW last \in Nat, NEW n \in Nat, NEW newChat \in BOOLEAN, NEW par, NEW kids,
         (user \in messages /\ last = made) \/ (user = made + 1 /\ last = user),
         SendMessage(user, last, par, kids, n, newChat),
         NEW m \in Stuck'
  PROVE  m \in Stuck
<1> DEFINE responses == (last + 1) .. (last + n)
<1> USE BoundsAssumption DEF Ids
<1>1. /\ messages' = messages \cup {user} \cup responses
      /\ creating' = (IF newChat THEN creating \cup responses ELSE creating)
      /\ pending' = (IF newChat THEN pending ELSE pending \cup {CopyOf(r, TRUE, user, {}) : r \in responses})
      /\ UNCHANGED <<status, running>> /\ last + n =< MaxId
      /\ role' = [x \in Ids |-> IF x \in responses THEN "assistant" ELSE IF x > made THEN "user" ELSE role[x]]
  BY DEF SendMessage
<1>2. m \in messages' /\ role'[m] = "assistant" /\ status'[m] = "open" /\ m \notin Awaited'
  BY DEF Stuck
<1>3. made \in Nat /\ messages \subseteq 1 .. made /\ messages \subseteq Ids
  BY DEF Inv, TypeOK
<1>4. m \notin responses
  <2>1. ASSUME m \in responses PROVE m \in Awaited'
    <3>1. CASE newChat
      BY <1>1, <2>1, <3>1 DEF Awaited
    <3>2. CASE ~newChat
      <4>1. CopyOf(m, TRUE, user, {}) \in pending'
        BY <1>1, <2>1, <3>2
      <4>2. CopyOf(m, TRUE, user, {}).id = m /\ CopyOf(m, TRUE, user, {}).request
        BY DEF CopyOf
      <4> QED
        BY <4>1, <4>2 DEF Awaited, Requests
    <3> QED
      BY <3>1, <3>2
  <2> QED
    BY <1>2, <2>1
<1> HIDE DEF responses
<1>5. m \in messages /\ role[m] = "assistant"
  <2>1. m \in messages \cup {user} /\ m \in Ids
    BY <1>1, <1>2, <1>3, <1>4
  <2>2. ~(m > made)
    BY <1>1, <1>2, <1>4, <2>1
  <2>3. m \in messages
    BY <1>3, <2>1, <2>2
  <2> QED
    BY <1>1, <1>2, <1>4, <2>1, <2>2, <2>3
<1>6. m \notin Awaited
  BY <1>1, <1>2, AwaitedGrows
<1> QED
  BY <1>1, <1>2, <1>5, <1>6, WasStuck

\* The responses put in by hand are done.
LEMMA InsertStuck ==
  ASSUME Inv, NEW p, NEW x, NEW y, NEW xRole, NEW yRole, Insert(p, x, xRole, y, yRole), NEW m \in Stuck'
  PROVE  m \in Stuck
<1> DEFINE new == {x, y} \ {0}
<1>1. /\ new \subseteq Ids /\ messages' = messages \cup new
      /\ role' = [k \in Ids |-> IF k = x THEN xRole ELSE IF k = y THEN yRole ELSE role[k]]
      /\ status' = [k \in Ids |-> IF k \in new /\ role'[k] = "assistant" THEN "done" ELSE status[k]]
      /\ UNCHANGED <<creating, pending, running>>
  BY DEF Insert
<1>2. m \in messages' /\ role'[m] = "assistant" /\ status'[m] = "open" /\ m \notin Awaited'
  BY DEF Stuck
<1>3. messages \subseteq Ids /\ 0 \notin messages
  BY BoundsAssumption DEF Inv, TypeOK, Ids
<1>4. m \in Ids /\ m \notin new
  BY <1>1, <1>2, <1>3
<1>5. m \in messages /\ m # x /\ m # y
  BY <1>1, <1>2, <1>3, <1>4
<1>6. role[m] = "assistant" /\ status[m] = "open"
  BY <1>1, <1>2, <1>4, <1>5
<1>7. m \notin Awaited
  BY <1>1, <1>2, AwaitedGrows
<1> QED
  BY <1>5, <1>6, <1>7, WasStuck

\* What is neither done nor awaited after a deletion was not before.
LEMMA DeleteMessageStuck ==
  ASSUME Inv, NEW d \in messages, DeleteMessage(d), NEW m \in Stuck'
  PROVE  m \in Stuck
<1> DEFINE gone == {d} \cup childrenIds[d]
<1>1. /\ messages' = messages \ gone /\ pending' = Detached(pending, gone) /\ UNCHANGED <<creating, running>>
      /\ role' = [x \in Ids |-> IF x \in gone THEN "user" ELSE role[x]]
      /\ status' = [x \in Ids |-> IF x \in gone THEN "open" ELSE status[x]]
  BY DEF DeleteMessage
<1> HIDE DEF gone
<1>2. m \in messages' /\ role'[m] = "assistant" /\ status'[m] = "open" /\ m \notin Awaited'
  BY DEF Stuck
<1>3. m \in messages /\ m \notin gone /\ m \in Ids
  BY <1>1, <1>2, BoundsAssumption DEF Inv, TypeOK, Ids
<1>4. \A h \in pending : h.request => h.id # m
  <2> SUFFICES ASSUME NEW h \in pending, h.request, h.id = m PROVE FALSE
    OBVIOUS
  <2>1. \E g \in Detached(pending, gone) : g.request /\ g.id = h.id
    BY DetachedAwaits DEF Inv
  <2> QED
    BY <1>1, <1>2, <2>1 DEF Awaited, Requests
<1>5. m \notin Awaited
  BY <1>1, <1>2, <1>4 DEF Awaited, Requests
<1> QED
  BY <1>1, <1>2, <1>3, <1>5, WasStuck

\* A message written back is not open, and takes only its own request away.
LEMMA WriteBackStuck ==
  ASSUME Inv, NEW h \in pending, NEW held \in SUBSET pending, WriteBack(h, held), pending \ {h} \subseteq held,
         NEW m \in Stuck'
  PROVE  m \in Stuck
<1>1. /\ messages' = messages \cup {h.id} /\ role' = [role EXCEPT ![h.id] = "assistant"]
      /\ status' = [status EXCEPT ![h.id] = h.status] /\ UNCHANGED <<creating, running>>
  BY DEF WriteBack
<1>2. m \in messages' /\ role'[m] = "assistant" /\ status'[m] = "open" /\ m \notin Awaited'
  BY DEF Stuck
<1>3. h.id \in Ids /\ h.status # "open" /\ messages \subseteq Ids
      /\ role \in [Ids -> {"user", "assistant"}] /\ status \in [Ids -> Statuses]
  BY BoundsAssumption DEF Inv, TypeOK, HeldWell, Held, Ids
<1>4. m # h.id
  BY <1>1, <1>2, <1>3
<1>5. m \in messages /\ role[m] = "assistant" /\ status[m] = "open"
  BY <1>1, <1>2, <1>3, <1>4
<1>6. ASSUME NEW g \in pending, g.request, g.id = m PROVE FALSE
  <2>1. g \in held
    BY <1>4, <1>6
  <2>2. \E d \in pending' : d.request /\ d.id = g.id
    <3>1. CASE h.live
      BY <1>6, <2>1, <3>1 DEF WriteBack
    <3>2. CASE ~h.live
      <4>1. pending' = Detached(held, {h.id})
        BY <3>2 DEF WriteBack
      <4> QED
        BY <1>6, <2>1, <4>1, DetachedAwaits DEF Inv
    <3> QED
      BY <3>1, <3>2
  <2> QED
    BY <1>2, <1>6, <2>2 DEF Awaited, Requests
<1>7. m \notin Awaited
  BY <1>1, <1>2, <1>6 DEF Awaited, Requests
<1> QED
  BY <1>5, <1>7, WasStuck

LEMMA SendingStuck == Inv /\ (\E n \in 0 .. MaxModels : Sending(n)) => Stuck' \subseteq Stuck
<1> SUFFICES ASSUME Inv, NEW n \in 0 .. MaxModels, Sending(n), NEW m \in Stuck' PROVE m \in Stuck
  OBVIOUS
<1>0. n \in Nat /\ made \in Nat /\ messages \subseteq Ids
  BY BoundsAssumption DEF Inv, TypeOK, Ids
<1>1. ASSUME NEW p, NEW newChat \in BOOLEAN, Prompt(p, n, newChat) PROVE m \in Stuck
  <2> DEFINE user == made + 1
             par == [parentId EXCEPT ![user] = p]
             kids == Appended(childrenIds, p, {user})
  <2>1. SendMessage(user, user, par, kids, n, newChat) /\ user \in Ids
    BY <1>0, <1>1, BoundsAssumption DEF Prompt, Ids
  <2>2. user \in Nat /\ (user = made + 1 /\ user = user)
    BY <1>0
  <2> HIDE DEF user, par, kids
  <2> QED
    BY <1>0, <2>1, <2>2, SendMessageStuck
<1>2. CASE SubmitPrompt(n)
  BY <1>1, <1>2 DEF SubmitPrompt
<1>3. ASSUME NEW x \in messages, SubmitMessage(x, n) PROVE m \in Stuck
  BY <1>1, <1>3 DEF SubmitMessage
<1>4. ASSUME NEW x \in messages, EditPrompt(x, n) PROVE m \in Stuck
  BY <1>1, <1>4 DEF EditPrompt
<1>5. ASSUME NEW x \in messages, RegenerateResponse(x, n) PROVE m \in Stuck
  <2> DEFINE u == parentId[x]
             newChat == FALSE
  <2>1. u \in messages /\ SendMessage(u, made, parentId, childrenIds, n, newChat)
    BY <1>5 DEF RegenerateResponse
  <2>2. newChat \in BOOLEAN /\ u \in Ids /\ (u \in messages /\ made = made)
    BY <1>0, <2>1
  <2> HIDE DEF u, newChat
  <2> QED
    BY <1>0, <2>1, <2>2, SendMessageStuck
<1> QED
  BY <1>2, <1>3, <1>4, <1>5 DEF Sending

\* "Set all response messages to done" opens nothing, and when no sibling is missing
\* leaves none of them open.
LEMMA SiblingsDoneStuck ==
  ASSUME TypeOK, SiblingsDone, NEW m \in Ids, status'[m] = "open"
  PROVE  status[m] = "open" /\ ~Beside(m)
<1>1. CASE currentId \in messages /\ parentId[currentId] \in messages
  <2> DEFINE kids == childrenIds[parentId[currentId]]
  <2>1. PICK marked \in SUBSET (kids \cap messages) :
                /\ kids \subseteq messages => marked = kids
                /\ status' = [x \in Ids |-> IF x \in marked /\ status[x] = "open" THEN "done" ELSE status[x]]
    BY <1>1 DEF SiblingsDone
  <2>2. m \notin marked /\ status[m] = "open"
    BY <2>1
  <2> QED
    BY <2>1, <2>2 DEF Beside
<1>2. CASE ~(currentId \in messages /\ parentId[currentId] \in messages)
  BY <1>2 DEF SiblingsDone, Beside
<1> QED
  BY <1>1, <1>2

LEMMA StuckAnyStep == Inv /\ [Next]_vars => StuckStep
<1> SUFFICES ASSUME Inv, [Next]_vars, NEW m \in Stuck', m \notin Stuck
             PROVE  \/ ChatNotCreated \/ ContinueResponse(FALSE)
                    \/ TasksCancel(m) /\ ~Beside(m)
  BY DEF StuckStep
<1>0. m \in messages' /\ role'[m] = "assistant" /\ status'[m] = "open" /\ m \notin Awaited'
  BY DEF Stuck
<1>a. ASSUME UNCHANGED <<messages, role>>, m \in Ids => status[m] = "open", m \notin Awaited PROVE FALSE
  <2>1. m \in messages /\ m \in Ids /\ role[m] = "assistant"
    BY <1>0, <1>a, BoundsAssumption DEF Inv, TypeOK, Ids
  <2> QED
    BY <1>a, <2>1, WasStuck
<1>b. messages \subseteq Ids /\ status \in [Ids -> Statuses]
  BY BoundsAssumption DEF Inv, TypeOK, Ids
<1>c. ASSUME UNCHANGED <<messages, role, status>> PROVE m \in Awaited
  BY <1>0, <1>a, <1>c
<1>1. ASSUME CreateMessagePair PROVE FALSE
  BY <1>1, InsertStuck DEF CreateMessagePair
<1>2. ~ContinueResponse(TRUE)
  <2> SUFFICES ASSUME ContinueResponse(TRUE) PROVE FALSE
    OBVIOUS
  <2>1. /\ currentId \in messages /\ status' = [status EXCEPT ![currentId] = "open"]
        /\ pending' = pending \cup {Object(currentId)} /\ UNCHANGED <<messages, role, creating, running>>
    BY DEF ContinueResponse, ShownDone, Shown, tree, links
  <2>2. Object(currentId) \in pending' /\ Object(currentId).request /\ Object(currentId).id = currentId
    BY <2>1 DEF Object
  <2>3. m # currentId
    BY <1>0, <2>2 DEF Awaited, Requests
  <2>4. m \notin Awaited
    BY <1>0, <2>1, AwaitedGrows
  <2> QED
    BY <1>0, <1>a, <1>b, <2>1, <2>3, <2>4
<1>3. ASSUME NEW x \in messages, AddMessages(x) PROVE FALSE
  BY <1>3, InsertStuck DEF AddMessages
<1>4. ASSUME NEW x \in messages, SaveAsCopy(x) PROVE FALSE
  BY <1>4, InsertStuck DEF SaveAsCopy
<1>5. ASSUME NEW x \in messages, ShowMessage(x) PROVE FALSE
  BY <1>0, <1>5, <1>c, AwaitedGrows DEF ShowMessage, tree, links
<1>6. ASSUME NEW x \in messages, DeleteMessage(x) PROVE FALSE
  BY <1>6, DeleteMessageStuck
<1>7. ASSUME NEW x \in messages, HoldCopy(x) PROVE FALSE
  BY <1>0, <1>7, <1>c, AwaitedGrows DEF HoldCopy, tree, links
<1>8. ASSUME ChatCreated PROVE FALSE
  <2>1. /\ UNCHANGED <<messages, role, status, running>>
        /\ pending' = pending \cup {CopyOf(r, TRUE, parentId[r], childrenIds[r]) : r \in creating \cap messages}
    BY <1>8 DEF ChatCreated, tree, links
  <2>2. m \notin creating
    <3>1. ASSUME m \in creating PROVE FALSE
      <4> DEFINE c == CopyOf(m, TRUE, parentId[m], childrenIds[m])
      <4>1. c \in pending' /\ c.request /\ c.id = m
        BY <1>0, <2>1, <3>1 DEF CopyOf
      <4> QED
        BY <1>0, <4>1 DEF Awaited, Requests
    <3> QED
      BY <3>1
  <2> QED
    BY <1>0, <1>c, <2>1, <2>2 DEF Awaited, Requests
<1>9. ASSUME NEW h \in pending, RequestAnswered(h) PROVE FALSE
  <2>1. UNCHANGED <<messages, role, status, creating>> /\ pending' = pending \ {h} /\ running' = running \cup {h.id}
    BY <1>9 DEF RequestAnswered, tree, links
  <2> QED
    BY <1>0, <1>c, <2>1 DEF Awaited, Requests
<1>10. ASSUME NEW h \in pending, Forget(h) PROVE FALSE
  <2>1. UNCHANGED <<messages, role, status, creating, running>> /\ pending' = pending \ {h} /\ ~h.request
    BY <1>10 DEF Forget, Holds, Requests, tree, links
  <2> QED
    BY <1>0, <1>c, <2>1 DEF Awaited, Requests
<1>11. ASSUME LateWrite PROVE FALSE
  <2>1. PICK h \in pending, b \in BOOLEAN : RequestFails(h, b) \/ SaveMessage(h, b)
    BY <1>11 DEF LateWrite
  <2>2. WriteBack(h, pending) \/ WriteBack(h, pending \ {h})
    BY <2>1 DEF RequestFails, SaveMessage
  <2> QED
    BY <2>2, WriteBackStuck
<1>12. ASSUME NEW x \in Ids, NEW failed \in BOOLEAN, CompletionDone(x, failed) PROVE FALSE
  <2>1. /\ running' = running \ {x} /\ UNCHANGED <<messages, role, creating, pending>>
        /\ status' = IF x \in messages THEN [status EXCEPT ![x] = IF failed THEN "failed" ELSE "done"] ELSE status
    BY <1>12 DEF CompletionDone, tree, links
  <2>2. m # x
    BY <1>0, <1>b, <2>1
  <2>3. m \in Ids => status[m] = "open"
    BY <1>0, <1>b, <2>1, <2>2
  <2>4. m \notin Awaited
    BY <1>0, <2>1, <2>2 DEF Awaited, Requests
  <2> QED
    BY <1>a, <2>1, <2>3, <2>4
<1>13. ASSUME NEW x \in Ids, TasksCancel(x), ~(TasksCancel(m) /\ ~Beside(m)) PROVE FALSE
  <2>1. running' = running \ {x} /\ UNCHANGED <<messages, role, creating, pending>> /\ m \in messages /\ m \in Ids
    BY <1>0, <1>b, <1>13 DEF TasksCancel, tree, links
  <2>2. status[m] = "open"
    BY <1>0, <1>13, <2>1, SiblingsDoneStuck DEF TasksCancel, Inv
  <2>3. m # x
    BY <1>0, <1>13, <2>1, SiblingsDoneStuck DEF TasksCancel, Inv
  <2>4. m \notin Awaited
    BY <1>0, <2>1, <2>3 DEF Awaited, Requests
  <2> QED
    BY <1>a, <2>1, <2>2, <2>4
<1>14. ASSUME StopResponse PROVE FALSE
  <2>1. UNCHANGED <<messages, role, creating, pending, running>> /\ SiblingsDone
    BY <1>14 DEF StopResponse, tree, links
  <2>2. m \in Ids => status[m] = "open"
    BY <1>0, <2>1, SiblingsDoneStuck DEF Inv
  <2>3. m \notin Awaited
    BY <1>0, <2>1, AwaitedGrows
  <2> QED
    BY <1>a, <2>1, <2>2, <2>3
<1>15. ASSUME UNCHANGED vars PROVE FALSE
  BY <1>0, <1>15, <1>c, AwaitedGrows DEF vars, tree, links
<1>16. ASSUME NEW found \in BOOLEAN, ContinueResponse(found) PROVE ContinueResponse(FALSE)
  <2>1. found # TRUE
    BY <1>2, <1>16
  <2>2. found = FALSE
    BY <2>1
  <2> QED
    BY <1>16, <2>2
<1>17. ASSUME Arranging, ~ContinueResponse(FALSE) PROVE FALSE
  BY <1>1, <1>3, <1>4, <1>5, <1>6, <1>7, <1>16, <1>17 DEF Arranging
<1>18. ASSUME Answering, ~ChatNotCreated PROVE FALSE
  BY <1>8, <1>9, <1>10, <1>18 DEF Answering
<1>19. ASSUME Events PROVE TasksCancel(m) /\ ~Beside(m)
  BY <1>12, <1>13, <1>14, <1>19 DEF Events
<1> QED
  BY <1>11, <1>15, <1>17, <1>18, <1>19, SendingStuck DEF Next

\* A response gets stuck only in the three ways StuckStep names.
THEOREM StuckAlwaysOnlySo == Spec => StuckOnlySo
<1>1. Inv /\ [Next]_vars => [StuckStep]_vars
  BY StuckAnyStep
<1> QED
  BY Invariance, <1>1, PTL DEF Spec, StuckOnlySo

=============================================================================
