----------------------------- MODULE Admin_proofs -----------------------------
(***************************************************************************)
(* Proofs about what administrators change while guests are there, for any *)
(* number of each: the menu (MenuOrders) and the codes of the tables       *)
(* (QRCodes).                                                              *)
(*                                                                         *)
(* Of MenuOrders: MenusAreTold; that the editors do to the menu what       *)
(* OrderPlacement assumes of it, however their steps and those of the      *)
(* orders alternate; and, with that, OrdersShowWhole, which                *)
(* OrderPlacement_proofs shows of any menu that keeps to it.               *)
(* Of QRCodes: types, NeverWithoutCode and SeenAreRetired.                 *)
(***************************************************************************)
EXTENDS MenuOrders, QRCodes, TLAPS

\* What is proved of OrderPlacement, on the menu the editors make.
Placement == INSTANCE OrderPlacement_proofs WITH menu <- [i \in Item |-> MenuOf(i)]

-----------------------------------------------------------------------------
(* The editors' requests *)

Asking == {"ask_branch", "ask_created"}

\* An item whose branch a request has asked for is there still, unless it was moved
\* to another or deleted since; none goes back to being unborn.
AskedInv ==
    \A e \in Editor :
        /\ editors[e].at \in {"read_back", "delete", "tell"} =>
               \/ editors[e].item \in moved
               \/ items[editors[e].item] = Catalog!Deleted
               \/ items[editors[e].item].branch = editors[e].branch
        /\ editors[e].at \in Asking \cup {"read_back", "delete", "tell"} =>
               items[editors[e].item] # Catalog!Unborn

\* A request that has changed the item and is to tell the branch, if that is where it
\* finds the item when it has still to ask.
WillTell(e, i, b) ==
    /\ editors[e].item = i
    /\ \/ editors[e].at \in Asking
       \/ editors[e].at \in {"read_back", "tell"} /\ editors[e].branch = b

\* Why the guests of a branch need not know of a change of the item yet.
Explained(b, i) ==
    \/ i \in dropped
    \/ i \in moved /\ items[i].branch # b
    \/ items[i].branch = b /\ \E e \in Editor : WillTell(e, i, b)
    \/ /\ items[i] = Catalog!Deleted
       /\ \E e \in Editor : WillTell(e, i, b) /\ editors[e].at = "tell"

ToldInv == \A b \in Branch : \A i \in untold[b] : Explained(b, i)

CatalogInv == Catalog!CatalogTypeOK /\ AskedInv /\ ToldInv

LEMMA EditorFields ==
    ASSUME Catalog!CatalogTypeOK, NEW e \in Editor
    PROVE  /\ editors[e].at \in {"idle", "ask_branch", "ask_created", "ask_doomed",
                                 "read_back", "delete", "tell"}
           /\ editors[e].at = "idle" <=> editors[e] = Catalog!Idle
           /\ editors[e].at # "idle" => editors[e].item \in Item
           /\ editors[e].at \in {"ask_branch", "ask_created", "ask_doomed"} =>
                  editors[e].branch = NoBranch
           /\ editors[e].at \in {"read_back", "delete", "tell"} =>
                  /\ editors[e].branch \in Branch
                  /\ editors[e] \in [at: {"read_back", "delete", "tell"}, item: Item,
                                     branch: Branch]
BY DEF Catalog!CatalogTypeOK, Catalog!EditorState, Catalog!Idle

LEMMA RowFields ==
    /\ Catalog!Unborn \notin Catalog!Live
    /\ Catalog!Deleted \notin Catalog!Live
    /\ Catalog!Unborn # Catalog!Deleted
    /\ Catalog!Unborn.branch = NoBranch /\ Catalog!Deleted.branch = NoBranch
    /\ \A row \in Catalog!Live : row.branch \in Branch
    /\ NoBranch \notin Branch
BY MenuConstants DEF MenuConstants, Catalog!Unborn, Catalog!Deleted, Catalog!Live

LEMMA GotoSteps ==
    ASSUME Catalog!CatalogTypeOK, NEW e \in Editor,
           NEW state \in Catalog!EditorState, Catalog!Goto(e, state)
    PROVE  /\ editors' \in [Editor -> Catalog!EditorState]
           /\ editors'[e] = state
           /\ \A d \in Editor \ {e} : editors'[d] = editors[d]
BY DEF Catalog!CatalogTypeOK, Catalog!Goto

LEMMA WriteSteps ==
    ASSUME Catalog!CatalogTypeOK, NEW i \in Item,
           NEW row \in Catalog!Live \cup {Catalog!Deleted},
           Catalog!Write(i, row)
    PROVE  /\ items' \in [Item -> Catalog!Live
                                     \cup {Catalog!Unborn, Catalog!Deleted}]
           /\ untold' \in [Branch -> SUBSET Item]
           /\ moved' \subseteq Item /\ moved \subseteq moved'
           /\ items'[i] = row
           /\ \A j \in Item \ {i} : items'[j] = items[j]
           /\ \A b \in Branch :
                  untold'[b] = IF b \in {items[i].branch, row.branch}
                               THEN untold[b] \cup {i} ELSE untold[b]
           /\ Catalog!OnMenu(i) /\ row \in Catalog!Live
                  /\ row.branch # items[i].branch => i \in moved'
BY DEF Catalog!CatalogTypeOK, Catalog!Write

\* The steps of the composition, as the catalog sees them.
LEMMA CatalogSteps ==
    ASSUME [Next]_vars
    PROVE  \/ \E e \in Editor : \/ Catalog!Edit(e)
                                \/ Catalog!DeleteItem(e)
                                \/ Catalog!DeleteRefused(e)
           \/ UNCHANGED menuVars
BY DEF Next, EditorStep, DeleteStep, OrderStep, SessionStep,
       vars, menuVars

LEMMA CatalogInit == Init => CatalogInv
<1> SUFFICES ASSUME Init PROVE CatalogInv
    OBVIOUS
<1>1. Catalog!Init
    BY DEF Init
<1>2. Catalog!CatalogTypeOK
    BY <1>1 DEF Catalog!Init, Catalog!CatalogTypeOK, Catalog!EditorState
<1>3. AskedInv /\ ToldInv
    BY <1>1 DEF Catalog!Init, Catalog!Idle, AskedInv, Asking, ToldInv
<1> QED BY <1>2, <1>3 DEF CatalogInv

\* The INSERT and the UPDATE: the item is in the branch of its row now, and the request
\* has still to ask for it.
LEMMA WrittenTold ==
    ASSUME CatalogInv, NEW e \in Editor, NEW i \in Item,
           NEW row \in Catalog!Live, NEW at \in Asking,
           items[i] # Catalog!Deleted, editors[e] = Catalog!Idle,
           Catalog!Write(i, row),
           Catalog!Goto(e, [at |-> at, item |-> i, branch |-> NoBranch]),
           UNCHANGED dropped
    PROVE  CatalogInv'
<1> DEFINE state == [at |-> at, item |-> i, branch |-> NoBranch]
<1>0. Catalog!CatalogTypeOK /\ AskedInv /\ ToldInv
    BY DEF CatalogInv
<1>1. state \in Catalog!EditorState
    BY DEF Catalog!EditorState, Asking
<1>2. /\ editors' \in [Editor -> Catalog!EditorState]
      /\ editors'[e].at \in Asking /\ editors'[e].item = i
      /\ \A d \in Editor \ {e} : editors'[d] = editors[d]
    BY <1>0, <1>1, GotoSteps
<1> HIDE DEF state
<1>3. /\ items' \in [Item -> Catalog!Live \cup {Catalog!Unborn, Catalog!Deleted}]
      /\ untold' \in [Branch -> SUBSET Item]
      /\ moved' \subseteq Item /\ moved \subseteq moved'
      /\ items'[i] = row /\ row.branch \in Branch
      /\ \A j \in Item \ {i} : items'[j] = items[j]
      /\ \A b \in Branch : untold'[b] = IF b \in {items[i].branch, row.branch}
                                       THEN untold[b] \cup {i} ELSE untold[b]
      /\ items[i] \in Catalog!Live /\ row.branch # items[i].branch => i \in moved'
    BY <1>0, WriteSteps, RowFields DEF Catalog!OnMenu
<1>4. items[i] \in Catalog!Live \/ items[i] = Catalog!Unborn
    BY <1>0 DEF Catalog!CatalogTypeOK
<1>5. editors[e].at = "idle"
    BY <1>0, EditorFields
<1>6. Catalog!CatalogTypeOK'
    BY <1>0, <1>2, <1>3 DEF Catalog!CatalogTypeOK
<1>7. AskedInv'
  <2> SUFFICES ASSUME NEW d \in Editor
               PROVE  /\ editors'[d].at \in {"read_back", "delete", "tell"} =>
                             \/ editors'[d].item \in moved'
                             \/ items'[editors'[d].item] = Catalog!Deleted
                             \/ items'[editors'[d].item].branch = editors'[d].branch
                      /\ editors'[d].at \in Asking \cup {"read_back", "delete", "tell"} =>
                             items'[editors'[d].item] # Catalog!Unborn
      BY DEF AskedInv, Asking
  <2>1. CASE d = e
      BY <1>2, <1>3, <2>1, RowFields DEF Asking
  <2>2. CASE d # e /\ editors[d].item = i
      BY <1>0, <1>2, <1>3, <1>4, <2>2, RowFields DEF AskedInv
  <2>3. CASE d # e /\ editors[d].item # i
    <3>1. editors[d].at # "idle" => editors[d].item \in Item
        BY <1>0, EditorFields
    <3> QED BY <1>0, <1>2, <1>3, <2>3, <3>1 DEF AskedInv, Asking
  <2> QED BY <2>1, <2>2, <2>3
<1>8. ASSUME NEW b \in Branch, NEW j \in untold'[b]
      PROVE  Explained(b, j)'
  <2>1. CASE j = i /\ b = row.branch
      BY <1>2, <1>3, <2>1 DEF Explained, WillTell, Asking
  <2>2. CASE j = i /\ b # row.branch
    <3>1. CASE b = items[i].branch
        BY <1>3, <1>4, <2>2, <3>1, RowFields DEF Explained
    <3>2. CASE b # items[i].branch
      <4>1. Explained(b, i)
          BY <1>0, <1>3, <1>8, <2>2, <3>2 DEF ToldInv
      <4> QED BY <1>3, <1>4, <2>2, <3>2, <4>1, RowFields DEF Explained
    <3> QED BY <3>1, <3>2
  <2>3. CASE j # i
    <3>1. j \in untold[b] /\ j \in Item /\ Explained(b, j)
        BY <1>0, <1>3, <1>8, <2>3 DEF ToldInv, Catalog!CatalogTypeOK
    <3>2. \A d \in Editor : WillTell(d, j, b) => d # e
        BY <1>5 DEF WillTell, Asking
    <3> QED BY <1>2, <1>3, <2>3, <3>1, <3>2 DEF Explained, WillTell
  <2> QED BY <2>1, <2>2, <2>3
<1> QED BY <1>6, <1>7, <1>8 DEF CatalogInv, ToldInv, Explained, WillTell

\* A step of a request that writes no row: it is enough that what it was to tell is
\* explained after it.
LEMMA EditorGoes ==
    ASSUME CatalogInv, NEW e \in Editor,
           NEW state \in Catalog!EditorState, Catalog!Goto(e, state),
           UNCHANGED <<items, moved>>,
           dropped \subseteq dropped', dropped' \subseteq Item,
           untold' \in [Branch -> SUBSET Item],
           \A b \in Branch : untold'[b] \subseteq untold[b],
           state.at \in {"read_back", "delete", "tell"} =>
               \/ state.item \in moved
               \/ items[state.item] = Catalog!Deleted
               \/ items[state.item].branch = state.branch,
           state.at \in Asking \cup {"read_back", "delete", "tell"} =>
               items[state.item] # Catalog!Unborn,
           \A b \in Branch : \A i \in untold'[b] :
               WillTell(e, i, b) /\ Explained(b, i) => Explained(b, i)'
    PROVE  CatalogInv'
<1>0. Catalog!CatalogTypeOK /\ AskedInv /\ ToldInv
    BY DEF CatalogInv
<1>1. /\ editors' \in [Editor -> Catalog!EditorState]
      /\ editors'[e] = state
      /\ \A d \in Editor \ {e} : editors'[d] = editors[d]
    BY <1>0, GotoSteps
<1>2. Catalog!CatalogTypeOK'
    BY <1>0, <1>1 DEF Catalog!CatalogTypeOK
<1>3. AskedInv'
    BY <1>0, <1>1 DEF AskedInv
<1>4. ASSUME NEW b \in Branch, NEW i \in untold'[b]
      PROVE  Explained(b, i)'
  <2>1. Explained(b, i)
      BY <1>0, <1>4 DEF ToldInv
  <2>2. CASE ~ WillTell(e, i, b)
      BY <1>1, <2>1, <2>2 DEF Explained, WillTell
  <2> QED BY <1>4, <2>1, <2>2
<1> QED BY <1>2, <1>3, <1>4 DEF CatalogInv, ToldInv, Explained, WillTell

LEMMA IdleState ==
    /\ Catalog!Idle \in Catalog!EditorState
    /\ Catalog!Idle.at = "idle"
BY DEF Catalog!Idle, Catalog!EditorState

\* The queries for the branch.  A request that finds no item has nobody to tell: who
\* deleted it is to tell, or has told, the branch it was in.
LEMMA AskBranchTold ==
    ASSUME CatalogInv, NEW e \in Editor, Catalog!AskBranch(e)
    PROVE  CatalogInv'
<1> DEFINE i    == editors[e].item
           next == IF editors[e].at = "ask_branch" THEN "tell"
                   ELSE IF editors[e].at = "ask_created" THEN "read_back" ELSE "delete"
           state == IF Catalog!OnMenu(i)
                    THEN [at |-> next, item |-> i, branch |-> items[i].branch]
                    ELSE Catalog!Idle
<1>0. Catalog!CatalogTypeOK
    BY DEF CatalogInv
<1>1. editors[e].at \in {"ask_branch", "ask_created", "ask_doomed"}
    BY DEF Catalog!AskBranch
<1>2. /\ Catalog!Goto(e, state)
      /\ UNCHANGED <<items, untold, moved, dropped>>
    BY <1>1 DEF Catalog!AskBranch
<1>3. i \in Item
    BY <1>0, <1>1, EditorFields
<1>4. CASE Catalog!OnMenu(i)
  <2>1. items[i] \in Catalog!Live /\ items[i].branch \in Branch
      BY <1>4, RowFields DEF Catalog!OnMenu
  <2>2. state = [at |-> next, item |-> i, branch |-> items[i].branch]
      BY <1>4
  <2>3. state \in Catalog!EditorState
      BY <1>1, <1>3, <2>1, <2>2 DEF Catalog!EditorState
  <2>4. state.item = i /\ state.branch = items[i].branch /\ state.at = next
      BY <2>2
  <2>5. items[i] # Catalog!Unborn
      BY <2>1, RowFields
  <2>6. ASSUME NEW b \in Branch, NEW j \in untold'[b], WillTell(e, j, b), Explained(b, j)
        PROVE  Explained(b, j)'
    <3>1. j = i /\ next \in {"tell", "read_back"}
        BY <1>1, <2>6 DEF WillTell, Asking
    <3>2. items[i] # Catalog!Deleted
        BY <2>1, RowFields
    <3>3. editors'[e] = state
        BY <1>0, <1>2, <2>3, GotoSteps
    <3> HIDE DEF state, next
    <3> QED BY <1>2, <2>4, <2>6, <3>1, <3>2, <3>3 DEF Explained, WillTell
  <2> HIDE DEF state, next
  <2> QED BY <1>0, <1>2, <2>3, <2>4, <2>5, <2>6, EditorGoes DEF Catalog!CatalogTypeOK
<1>5. CASE ~ Catalog!OnMenu(i)
  <2>1. state = Catalog!Idle
      BY <1>5
  <2>2. items[i] \notin Catalog!Live
      BY <1>5 DEF Catalog!OnMenu
  <2>3. items[i].branch \notin Branch
      BY <1>0, <1>3, <2>2, RowFields DEF Catalog!CatalogTypeOK
  <2>4. ASSUME NEW b \in Branch, NEW j \in untold'[b], WillTell(e, j, b), Explained(b, j)
        PROVE  Explained(b, j)'
    <3>1. j = i
        BY <2>4 DEF WillTell
    <3>2. \A d \in Editor \ {e} : editors'[d] = editors[d]
        BY <1>0, <1>2, <2>1, GotoSteps, IdleState
    <3> HIDE DEF state, next
    <3> QED BY <1>1, <1>2, <2>3, <2>4, <3>1, <3>2 DEF Explained, WillTell
  <2> HIDE DEF state, next
  <2> QED BY <1>0, <1>2, <2>1, <2>4, EditorGoes, IdleState
          DEF Catalog!CatalogTypeOK, Asking
<1> QED BY <1>4, <1>5

LEMMA ReadBackTold ==
    ASSUME CatalogInv, NEW e \in Editor, Catalog!ReadBack(e)
    PROVE  CatalogInv'
<1> DEFINE i == editors[e].item
<1>0. Catalog!CatalogTypeOK /\ AskedInv
    BY DEF CatalogInv
<1>1. /\ editors[e].at = "read_back" /\ i \in Item
      /\ editors[e] \in [at: {"read_back", "delete", "tell"}, item: Item, branch: Branch]
      /\ UNCHANGED <<items, untold, moved, dropped>>
    BY <1>0, EditorFields DEF Catalog!ReadBack
<1>2. CASE Catalog!OnMenu(i)
  <2> DEFINE state == [editors[e] EXCEPT !.at = "tell"]
  <2>1. Catalog!Goto(e, state)
      BY <1>2 DEF Catalog!ReadBack
  <2>2. /\ state \in [at: {"read_back", "delete", "tell"}, item: Item, branch: Branch]
        /\ state.at = "tell" /\ state.item = i /\ state.branch = editors[e].branch
      BY <1>1
  <2> HIDE DEF state
  <2>3. state \in Catalog!EditorState
      BY <2>2 DEF Catalog!EditorState
  <2>4. editors'[e] = state /\ \A d \in Editor \ {e} : editors'[d] = editors[d]
      BY <1>0, <2>1, <2>3, GotoSteps
  <2>5. ASSUME NEW b \in Branch, NEW j \in untold'[b], WillTell(e, j, b), Explained(b, j)
        PROVE  Explained(b, j)'
      BY <1>1, <2>2, <2>4, <2>5 DEF Explained, WillTell, Asking
  <2> QED BY <1>0, <1>1, <2>1, <2>2, <2>3, <2>5, EditorGoes
          DEF Catalog!CatalogTypeOK, AskedInv, Asking
<1>3. CASE ~ Catalog!OnMenu(i)
  <2>1. Catalog!Goto(e, Catalog!Idle)
      BY <1>3 DEF Catalog!ReadBack
  <2>2. items[i].branch \notin Branch
      BY <1>0, <1>1, <1>3, RowFields DEF Catalog!CatalogTypeOK, Catalog!OnMenu
  <2>3. ASSUME NEW b \in Branch, NEW j \in untold'[b], WillTell(e, j, b), Explained(b, j)
        PROVE  Explained(b, j)'
    <3>1. j = i
        BY <2>3 DEF WillTell
    <3>2. \A d \in Editor \ {e} : editors'[d] = editors[d]
        BY <1>0, <2>1, GotoSteps, IdleState
    <3> QED BY <1>1, <2>2, <2>3, <3>1, <3>2 DEF Explained, WillTell
  <2> QED BY <1>0, <1>1, <2>1, <2>3, EditorGoes, IdleState DEF Catalog!CatalogTypeOK, Asking
<1> QED BY <1>2, <1>3

LEMMA DeleteBeginTold ==
    ASSUME CatalogInv, NEW e \in Editor, NEW i \in Item,
           Catalog!DeleteBegin(e, i)
    PROVE  CatalogInv'
<1> DEFINE state == [at |-> "ask_doomed", item |-> i, branch |-> NoBranch]
<1>0. Catalog!CatalogTypeOK
    BY DEF CatalogInv
<1>1. /\ state \in Catalog!EditorState /\ state.at = "ask_doomed"
      /\ Catalog!Goto(e, state) /\ editors[e].at = "idle"
      /\ UNCHANGED <<items, untold, moved, dropped>>
    BY <1>0, EditorFields DEF Catalog!DeleteBegin, Catalog!EditorState
<1> HIDE DEF state
<1>2. \A b \in Branch : \A j \in untold'[b] : ~ WillTell(e, j, b)
    BY <1>1 DEF WillTell, Asking
<1> QED BY <1>0, <1>1, <1>2, EditorGoes DEF Catalog!CatalogTypeOK, Asking

LEMMA DeleteRefusedTold ==
    ASSUME CatalogInv, NEW e \in Editor, Catalog!DeleteRefused(e)
    PROVE  CatalogInv'
<1>0. Catalog!CatalogTypeOK
    BY DEF CatalogInv
<1>1. \A b \in Branch : \A j \in untold'[b] : ~ WillTell(e, j, b)
    BY DEF Catalog!DeleteRefused, WillTell, Asking
<1> QED BY <1>0, <1>1, EditorGoes, IdleState
        DEF Catalog!DeleteRefused, Catalog!CatalogTypeOK, Asking

\* The message: what it does not tell another request is to tell, for it goes to the
\* one branch the request has asked for.
LEMMA TellTold ==
    ASSUME CatalogInv, NEW e \in Editor, Catalog!Tell(e)
    PROVE  CatalogInv'
<1>0. Catalog!CatalogTypeOK
    BY DEF CatalogInv
<1>1. /\ editors[e].at = "tell" /\ editors[e].branch \in Branch
      /\ UNCHANGED <<items, moved, dropped>>
      /\ Catalog!Goto(e, Catalog!Idle)
    BY <1>0, EditorFields DEF Catalog!Tell
<1>2. /\ untold' \in [Branch -> SUBSET Item]
      /\ untold'[editors[e].branch] = untold[editors[e].branch] \ {editors[e].item}
      /\ \A b \in Branch : untold'[b] \subseteq untold[b]
    BY <1>0, <1>1 DEF Catalog!Tell, Catalog!CatalogTypeOK
<1>3. \A b \in Branch : \A j \in untold'[b] : ~ WillTell(e, j, b)
    BY <1>1, <1>2 DEF WillTell, Asking
<1> QED BY <1>0, <1>1, <1>2, <1>3, EditorGoes, IdleState
        DEF Catalog!CatalogTypeOK, Asking

LEMMA AbortTold ==
    ASSUME CatalogInv, NEW e \in Editor, Catalog!Abort(e)
    PROVE  CatalogInv'
<1> DEFINE i == editors[e].item
<1>0. Catalog!CatalogTypeOK
    BY DEF CatalogInv
<1>1. /\ UNCHANGED <<items, untold, moved>> /\ i \in Item
      /\ Catalog!Goto(e, Catalog!Idle)
      /\ dropped' = IF e \in Catalog!ToTell(i) THEN dropped \cup {i} ELSE dropped
    BY <1>0, EditorFields DEF Catalog!Abort
<1>2. dropped \subseteq dropped' /\ dropped' \subseteq Item
    BY <1>0, <1>1 DEF Catalog!CatalogTypeOK
<1>3. ASSUME NEW b \in Branch, NEW j \in untold'[b], WillTell(e, j, b)
      PROVE  j \in dropped'
    BY <1>1, <1>3 DEF WillTell, Asking, Catalog!ToTell
<1> QED BY <1>0, <1>1, <1>2, <1>3, EditorGoes, IdleState
        DEF Catalog!CatalogTypeOK, Asking, Explained

\* The DELETE: the message that follows goes to the branch the request has asked for.
\* Unless the item was moved meanwhile that is the branch it is taken from.
LEMMA DeleteItemTold ==
    ASSUME CatalogInv, NEW e \in Editor, Catalog!DeleteItem(e)
    PROVE  CatalogInv'
<1> DEFINE i     == editors[e].item
           state == [editors[e] EXCEPT !.at = "tell"]
<1>0. Catalog!CatalogTypeOK /\ AskedInv /\ ToldInv
    BY DEF CatalogInv
<1>1. /\ editors[e].at = "delete" /\ i \in Item /\ UNCHANGED dropped
      /\ editors[e] \in [at: {"read_back", "delete", "tell"}, item: Item, branch: Branch]
      /\ Catalog!Goto(e, state)
    BY <1>0, EditorFields DEF Catalog!DeleteItem
<1>2. /\ state \in [at: {"read_back", "delete", "tell"}, item: Item, branch: Branch]
      /\ state.at = "tell" /\ state.item = i /\ state.branch = editors[e].branch
    BY <1>1
<1>3. state \in Catalog!EditorState
    BY <1>2 DEF Catalog!EditorState
<1> HIDE DEF state
<1>4. /\ editors' \in [Editor -> Catalog!EditorState]
      /\ editors'[e] = state
      /\ \A d \in Editor \ {e} : editors'[d] = editors[d]
    BY <1>0, <1>1, <1>3, GotoSteps
<1>5. \A b \in Branch : \A j : ~ WillTell(e, j, b)
    BY <1>1 DEF WillTell, Asking
<1>6. CASE ~ Catalog!OnMenu(i)
  <2>1. UNCHANGED <<items, untold, moved>>
      BY <1>6 DEF Catalog!DeleteItem
  <2> QED BY <1>0, <1>1, <1>2, <1>3, <1>5, <2>1, EditorGoes
          DEF Catalog!CatalogTypeOK, AskedInv, Asking
<1>7. CASE Catalog!OnMenu(i)
  <2> DEFINE row == Catalog!Deleted
  <2>1. /\ items' \in [Item -> Catalog!Live \cup {Catalog!Unborn, Catalog!Deleted}]
        /\ untold' \in [Branch -> SUBSET Item]
        /\ moved' \subseteq Item /\ moved \subseteq moved'
        /\ items'[i] = row
        /\ \A j \in Item \ {i} : items'[j] = items[j]
        /\ \A b \in Branch : untold'[b] = IF b \in {items[i].branch, row.branch}
                                         THEN untold[b] \cup {i} ELSE untold[b]
    <3>1. Catalog!Write(i, row)
        BY <1>7 DEF Catalog!DeleteItem
    <3> HIDE DEF i
    <3> QED BY <1>0, <1>1, <3>1, WriteSteps
  <2> HIDE DEF row
  <2>2. row = Catalog!Deleted /\ row.branch \notin Branch /\ row # Catalog!Unborn
      BY RowFields DEF row
  <2>3. Catalog!CatalogTypeOK'
      BY <1>0, <1>1, <1>4, <2>1 DEF Catalog!CatalogTypeOK
  <2>4. AskedInv'
    <3> SUFFICES ASSUME NEW d \in Editor
                 PROVE  /\ editors'[d].at \in {"read_back", "delete", "tell"} =>
                               \/ editors'[d].item \in moved'
                               \/ items'[editors'[d].item] = Catalog!Deleted
                               \/ items'[editors'[d].item].branch = editors'[d].branch
                        /\ editors'[d].at \in Asking \cup {"read_back", "delete", "tell"} =>
                               items'[editors'[d].item] # Catalog!Unborn
        BY DEF AskedInv, Asking
    <3>1. CASE d = e \/ editors'[d].item = i
        BY <1>2, <1>4, <2>1, <2>2, <3>1
    <3>2. CASE d # e /\ editors'[d].item # i
      <4>1. editors[d].at # "idle" => editors[d].item \in Item
          BY <1>0, EditorFields
      <4> QED BY <1>0, <1>4, <2>1, <3>2, <4>1 DEF AskedInv, Asking
    <3> QED BY <3>1, <3>2
  <2>5. ASSUME NEW b \in Branch, NEW j \in untold'[b]
        PROVE  Explained(b, j)'
    <3>1. CASE j = i /\ b = editors[e].branch
        BY <1>2, <1>4, <2>1, <2>2, <3>1 DEF Explained, WillTell, Asking
    <3>2. CASE j = i /\ b # editors[e].branch /\ i \in moved
        BY <2>1, <2>2, <3>2 DEF Explained
    <3>3. CASE j = i /\ b # editors[e].branch /\ i \notin moved
      <4>1. items[i].branch = editors[e].branch /\ items[i] # Catalog!Deleted
          BY <1>0, <1>1, <1>7, <3>3, RowFields DEF AskedInv, Catalog!OnMenu
      <4>2. j \in untold[b]
          BY <2>1, <2>2, <2>5, <3>3, <4>1
      <4>3. Explained(b, i)
          BY <1>0, <3>3, <4>2 DEF ToldInv
      <4> QED BY <1>1, <3>3, <4>1, <4>3 DEF Explained
    <3>4. CASE j # i
      <4>1. j \in untold[b] /\ j \in Item /\ Explained(b, j)
          BY <1>0, <2>1, <2>5, <3>4 DEF ToldInv, Catalog!CatalogTypeOK
      <4>2. \A d \in Editor : WillTell(d, j, b) => d # e
          BY <1>5
      <4> QED BY <1>1, <1>4, <2>1, <3>4, <4>1, <4>2 DEF Explained, WillTell
    <3> QED BY <3>1, <3>2, <3>3, <3>4
  <2> QED BY <2>3, <2>4, <2>5 DEF CatalogInv, ToldInv, Explained, WillTell
<1> QED BY <1>6, <1>7

LEMMA CatalogStep ==
    CatalogInv /\ [Next]_vars => CatalogInv'
<1> SUFFICES ASSUME CatalogInv, [Next]_vars PROVE CatalogInv'
    OBVIOUS
<1>0. Catalog!CatalogTypeOK
    BY DEF CatalogInv
<1>1. ASSUME NEW e \in Editor, NEW i \in Edited, NEW row \in Catalog!Live,
             Catalog!CreateItem(e, i, row) \/ Catalog!UpdateItem(e, i, row)
      PROVE  CatalogInv'
  <2>1. i \in Item
      BY MenuConstants DEF MenuConstants
  <2>2. CASE Catalog!CreateItem(e, i, row)
      BY <2>1, <2>2, WrittenTold, RowFields DEF Catalog!CreateItem, Asking
  <2>3. CASE Catalog!UpdateItem(e, i, row)
      BY <2>1, <2>3, WrittenTold, RowFields
         DEF Catalog!UpdateItem, Catalog!OnMenu, Asking
  <2> QED BY <1>1, <2>2, <2>3
<1>2. ASSUME NEW e \in Editor, Catalog!Edit(e) PROVE CatalogInv'
  <2>1. CASE \E i \in Edited : Catalog!DeleteBegin(e, i)
      BY <2>1, DeleteBeginTold, MenuConstants DEF MenuConstants
  <2>2. CASE Catalog!AskBranch(e) \/ Catalog!ReadBack(e)
      BY <2>2, AskBranchTold, ReadBackTold
  <2>3. CASE Catalog!Tell(e) \/ Catalog!Abort(e)
      BY <2>3, TellTold, AbortTold
  <2> QED BY <1>1, <1>2, <2>1, <2>2, <2>3 DEF Catalog!Edit
<1>3. CASE UNCHANGED menuVars
  <2>1. UNCHANGED <<items, editors, untold, moved, dropped>>
      BY <1>3 DEF menuVars
  <2>2. CatalogInv' = CatalogInv
      BY <2>1 DEF CatalogInv, Catalog!CatalogTypeOK, AskedInv, ToldInv, Explained, WillTell
  <2> QED BY <2>2
<1> QED BY <1>2, <1>3, CatalogSteps, DeleteItemTold, DeleteRefusedTold

LEMMA CatalogKept == Spec => []CatalogInv
<1>1. Init => CatalogInv
    BY CatalogInit
<1>2. CatalogInv /\ [Next]_vars => CatalogInv'
    BY CatalogStep
<1> QED BY <1>1, <1>2, PTL DEF Spec

\* Guests of a branch who load an item again at every message about it know the menu,
\* but for messages that are to come, that were lost, or that an item which went to
\* another branch does not send to the one it left (AdminMenuHandler).
THEOREM MenusTold == Spec => []MenusAreTold
<1>1. CatalogInv => MenusAreTold
  <2> SUFFICES ASSUME CatalogInv, NEW b \in Branch, NEW i \in untold[b]
               PROVE  \/ Catalog!ToTell(i) # {}
                      \/ i \in dropped
                      \/ i \in moved /\ items[i].branch # b
      BY DEF MenusAreTold, Catalog!MenusAreTold
  <2>1. Explained(b, i)
      BY DEF CatalogInv, ToldInv
  <2>2. ASSUME NEW e \in Editor, WillTell(e, i, b) PROVE e \in Catalog!ToTell(i)
      BY <2>2 DEF WillTell, Asking, Catalog!ToTell
  <2> QED BY <2>1, <2>2 DEF Explained
<1>2. Spec => []CatalogInv
    BY CatalogKept
<1> QED BY <1>1, <1>2, PTL

-----------------------------------------------------------------------------
(* The editors do to the menu what the orders expect of it. *)

\* The menu the orders read.
MenuNow == [i \in Item |-> MenuOf(i)]

LEMMA MenuWritten ==
    ASSUME Catalog!CatalogTypeOK, NEW i \in Item,
           NEW row \in Catalog!Live \cup {Catalog!Deleted},
           Catalog!Write(i, row)
    PROVE  /\ MenuNow' = [MenuNow EXCEPT ![i] = row.status]
           /\ row \in Catalog!Live => row.status \in {"available", "suspended"}
           /\ row = Catalog!Deleted => row.status = "deleted"
<1>1. /\ items'[i] = row
      /\ \A j \in Item \ {i} : items'[j] = items[j]
    BY WriteSteps
<1>2. /\ row \in Catalog!Live => row.status \in {"available", "suspended"}
      /\ row = Catalog!Deleted => row.status = "deleted"
    BY DEF Catalog!Live, Catalog!Deleted
<1>3. MenuOf(i)' = row.status
    BY <1>1, <1>2 DEF MenuOf
<1>4. \A j \in Item \ {i} : MenuOf(j)' = MenuOf(j)
    BY <1>1 DEF MenuOf
<1> QED BY <1>2, <1>3, <1>4 DEF MenuNow

LEMMA OnTheMenu ==
    ASSUME Catalog!CatalogTypeOK, NEW i \in Item
    PROVE  /\ MenuNow[i] = "deleted" <=> items[i] = Catalog!Deleted
           /\ Catalog!OnMenu(i) => items[i] # Catalog!Deleted
<1>1. items[i] \in Catalog!Live \cup {Catalog!Unborn, Catalog!Deleted}
    BY DEF Catalog!CatalogTypeOK
<1> QED BY <1>1 DEF MenuNow, MenuOf, Catalog!Live, Catalog!Unborn,
                    Catalog!Deleted, Catalog!OnMenu

\* What the orders know, in the terms of this module.
OrdersSee == <<sstatus, lock, orders, MenuNow, calls, answered>>

LEMMA OrdersVars == Orders!vars = OrdersSee
BY DEF Orders!vars, OrdersSee, MenuNow

LEMMA SameItems == ASSUME items' = items PROVE MenuNow' = MenuNow
BY DEF MenuNow, MenuOf

LEMMA MenuChanges ==
    ASSUME NEW i \in Item, NEW status \in {"available", "suspended", "deleted"},
           MenuNow[i] # "deleted", MenuNow' = [MenuNow EXCEPT ![i] = status],
           status = "deleted" => ~ Orders!Referenced(i),
           UNCHANGED <<sstatus, lock, orders, calls, answered>>
    PROVE  Orders!MenuMoves
<1>1. CASE status = "deleted"
  <2>1. Orders!MenuDelete(i)
      BY <1>1 DEF Orders!MenuDelete, MenuNow
  <2> QED BY <2>1 DEF Orders!MenuMoves
<1>2. CASE status # "deleted"
  <2>1. Orders!MenuUpdate(i, status) /\ status \in Orders!MenuState
      BY <1>2 DEF Orders!MenuUpdate, Orders!MenuState, MenuNow
  <2> QED BY <2>1 DEF Orders!MenuMoves
<1> QED BY <1>1, <1>2

LEMMA EditorSeen ==
    ASSUME Catalog!CatalogTypeOK, NEW e \in Editor, EditorStep(e)
    PROVE  Orders!MenuMoves \/ UNCHANGED OrdersSee
<1>1. UNCHANGED <<sstatus, lock, orders, calls, answered>>
    BY DEF EditorStep, orderVars
<1>2. CASE items' = items
    BY <1>1, <1>2, SameItems DEF OrdersSee
<1>3. ASSUME NEW i \in Edited, NEW row \in Catalog!Live,
             Catalog!CreateItem(e, i, row) \/ Catalog!UpdateItem(e, i, row)
      PROVE  Orders!MenuMoves
  <2>1. i \in Item /\ Catalog!Write(i, row)
      BY <1>3, MenuConstants DEF MenuConstants, Catalog!CreateItem, Catalog!UpdateItem
  <2>2. MenuNow[i] # "deleted"
      BY <1>3, <2>1, OnTheMenu, RowFields DEF Catalog!CreateItem, Catalog!UpdateItem
  <2>3. /\ MenuNow' = [MenuNow EXCEPT ![i] = row.status]
        /\ row.status \in {"available", "suspended"}
      BY <2>1, MenuWritten
  <2> QED BY <1>1, <2>1, <2>2, <2>3, MenuChanges
<1>4. CASE DeleteStep(e) /\ items' # items
  <2> DEFINE i == editors[e].item
  <2>1. /\ ~ Orders!Referenced(i) /\ Catalog!OnMenu(i)
        /\ Catalog!Write(i, Catalog!Deleted)
        /\ editors[e].at = "delete"
      BY <1>4 DEF DeleteStep, InTheWay, Catalog!DeleteItem,
                  Catalog!DeleteRefused
  <2>2. i \in Item
      BY <2>1, EditorFields
  <2>3. MenuNow[i] # "deleted" /\ MenuNow' = [MenuNow EXCEPT ![i] = "deleted"]
      BY <2>1, <2>2, OnTheMenu, MenuWritten
  <2> QED BY <1>1, <2>1, <2>2, <2>3, MenuChanges
<1>5. CASE Catalog!Edit(e) /\ items' # items
    BY <1>3, <1>5 DEF Catalog!Edit, Catalog!DeleteBegin, Catalog!AskBranch,
                      Catalog!ReadBack, Catalog!Tell, Catalog!Abort
<1> QED BY <1>2, <1>4, <1>5 DEF EditorStep

\* What OrderPlacement assumes of the menu holds whatever the editors do and however
\* their steps and those of the orders alternate: no row goes while a line refers to it.
THEOREM EditorsRespectOrders == Spec => OrdersImplemented
<1>1. Init => Orders!Init
    BY DEF Init
<1>2. CatalogInv /\ [Next]_vars => [Orders!Next]_Orders!vars
  <2> SUFFICES ASSUME CatalogInv, [Next]_vars
               PROVE  [Orders!Next]_Orders!vars
      OBVIOUS
  <2>1. CASE \E e \in Editor : EditorStep(e)
    <3>1. Orders!MenuMoves \/ UNCHANGED OrdersSee
        BY <2>1, EditorSeen DEF CatalogInv
    <3>2. CASE Orders!MenuMoves
        BY <3>2 DEF Orders!Next
    <3>3. CASE UNCHANGED OrdersSee
      <4>1. UNCHANGED Orders!vars
          BY <3>3, OrdersVars DEF Orders!vars, OrdersSee, MenuNow
      <4> QED BY <4>1
    <3> QED BY <3>1, <3>2, <3>3
  <2>2. CASE \E c \in Call : OrderStep(c)
      BY <2>2 DEF OrderStep, Orders!Next
  <2>3. CASE SessionStep
      BY <2>3 DEF SessionStep, Orders!Next, Orders!SessionStatus
  <2>4. CASE UNCHANGED vars
    <3>1. items' = items /\ UNCHANGED <<sstatus, lock, orders, calls, answered>>
        BY <2>4 DEF vars, orderVars, menuVars
    <3>2. MenuNow' = MenuNow
        BY <3>1, SameItems
    <3>3. UNCHANGED Orders!vars
        BY <3>1, <3>2 DEF Orders!vars, MenuNow
    <3> QED BY <3>3
  <2> QED BY <2>1, <2>2, <2>3, <2>4 DEF Next
<1>3. Spec => []CatalogInv
    BY CatalogKept
<1> QED BY <1>1, <1>2, <1>3, PTL DEF Spec, OrdersImplemented, Orders!Spec

-----------------------------------------------------------------------------
(* What getFullOrder shows of the orders *)

\* The orders of MenuOrders are those OrderPlacement_proofs is about.
LEMMA SameOrders ==
    /\ Orders!Init <=> Placement!Init
    /\ Orders!vars = Placement!vars
    /\ Orders!OrdersShowWhole <=> Placement!OrdersShowWhole
    /\ Orders!TypeOK <=> Placement!TypeOK
<1>1. Orders!Init <=> Placement!Init
    BY DEF Orders!Init, Placement!Init, Orders!Idle, Placement!Idle
<1>2. Orders!vars = Placement!vars
    BY DEF Orders!vars, Placement!vars
<1>3. Orders!OrdersShowWhole <=> Placement!OrdersShowWhole
    BY DEF Orders!OrdersShowWhole, Placement!OrdersShowWhole,
           Orders!Shown, Placement!Shown
<1>4. Orders!TypeOK <=> Placement!TypeOK
    BY Zenon
       DEF Orders!TypeOK, Orders!SessionStatus, Orders!OrderRow, Orders!MenuState,
           Orders!CallState, Orders!Stage, Orders!Idle, Orders!OrderRef,
           Placement!TypeOK, Placement!SessionStatus, Placement!OrderRow,
           Placement!MenuState, Placement!CallState, Placement!Stage, Placement!Idle,
           Placement!OrderRef
<1> QED BY <1>1, <1>2, <1>3, <1>4

LEMMA SameSteps ==
    [Orders!Next]_Orders!vars => [Placement!Next]_Placement!vars
<1>1. ASSUME NEW c \in Call PROVE Orders!Place(c) => Placement!Place(c)
    BY Zenon
       DEF Orders!Place, Orders!Receive, Orders!Step, Orders!Waiting,
           Orders!Lookup, Orders!LookupHit, Orders!LookupMiss,
           Orders!CheckSession, Orders!CheckLine, Orders!LockSession,
           Orders!CountOrders, Orders!InsertOrder, Orders!InsertItem,
           Orders!Commit, Orders!ReadBack, Orders!Abort, Orders!Finish,
           Orders!Goto, Orders!LockFree, Orders!Inserting,
           Orders!Committed, Orders!Idle,
           Placement!Place, Placement!Receive, Placement!Step, Placement!Waiting,
           Placement!Lookup, Placement!LookupHit, Placement!LookupMiss,
           Placement!CheckSession, Placement!CheckLine, Placement!LockSession,
           Placement!CountOrders, Placement!InsertOrder, Placement!InsertItem,
           Placement!Commit, Placement!ReadBack, Placement!Abort, Placement!Finish,
           Placement!Goto, Placement!LockFree, Placement!Inserting, Placement!Committed,
           Placement!Idle
<1>2. Orders!Next => Placement!Next
    BY <1>1, Zenon
       DEF Orders!Next, Orders!SessionMoves, Orders!SessionStatus,
           Orders!MenuMoves, Orders!MenuDelete, Orders!MenuUpdate,
           Orders!MenuState, Orders!LockFree, Orders!Referenced,
           Placement!Next, Placement!SessionMoves, Placement!SessionStatus,
           Placement!MenuMoves, Placement!MenuDelete, Placement!MenuUpdate,
           Placement!MenuState, Placement!LockFree, Placement!Referenced
<1> QED BY <1>2, SameOrders DEF Orders!vars, Placement!vars

LEMMA PlacementHere ==
    /\ Placement!OrderConstants
    /\ Spec => Placement!Spec
<1>1. Placement!OrderConstants
    BY OrdersConstants DEF Orders!OrderConstants, Placement!OrderConstants, Orders!Line,
                           Placement!Line
<1>2. Spec => Orders!Spec
    BY EditorsRespectOrders DEF OrdersImplemented
<1>3. Orders!Init => Placement!Init
    BY SameOrders
<1>4. [Orders!Next]_Orders!vars => [Placement!Next]_Placement!vars
    BY SameSteps
<1> QED BY <1>1, <1>2, <1>3, <1>4, PTL DEF Orders!Spec, Placement!Spec

\* Every reachable state of the menu, its editors and the orders is well typed.
THEOREM MenuTypeCorrect == Spec => []TypeOK
<1>1. Placement!Spec => []Placement!TypeOK
    BY PlacementHere, Placement!TypeCorrect
<1>2. CatalogInv /\ Placement!TypeOK => TypeOK
    BY SameOrders DEF CatalogInv, TypeOK
<1> QED BY <1>1, <1>2, CatalogKept, PlacementHere, PTL

\* With the editors at work, getFullOrder still shows of every order all that was asked
\* for.
THEOREM OrdersStayWhole == Spec => []OrdersShowWhole
<1>1. Placement!Spec => []Placement!OrdersShowWhole
    BY PlacementHere, Placement!OrdersAreWhole
<1>2. Placement!OrdersShowWhole => OrdersShowWhole
    BY SameOrders DEF OrdersShowWhole
<1> QED BY <1>1, <1>2, PlacementHere, PTL

-----------------------------------------------------------------------------
(* The codes of the tables *)

\* The row a request has inserted is its own, and not committed yet.
InsertedInv ==
    /\ \A c \in Request : requests[c].code # NoCode =>
           codes[requests[c].code] = NoCodeRow
    /\ \A c, d \in Request :
           requests[c].code # NoCode /\ requests[c].code = requests[d].code => c = d
    /\ \A c \in Request : requests[c].at = "commit" =>
           requests[c].code # NoCode /\ requests[c].todo = {}

\* A request works on a table that is there, its UPDATE saw rows of that table, and
\* those it has been at are locked by it, or inactive for good.
RetiredInv ==
    \A c \in Request :
        /\ requests[c].table # NoTable => requests[c].table \in tables
        /\ requests[c].todo \subseteq requests[c].saw
        /\ \A q \in requests[c].saw :
               /\ codes[q] # NoCodeRow /\ codes[q].table = requests[c].table
               /\ q \in requests[c].todo \/ rowLock[q] = c \/ ~ codes[q].active

CodeInv == CodeTypeOK /\ InsertedInv /\ RetiredInv

LEMMA RequestFields ==
    ASSUME CodeTypeOK, NEW c \in Request
    PROVE  /\ requests[c].at \in {"idle", "update", "retire", "commit"}
           /\ requests[c].at = "idle" <=> requests[c] = Idle
           /\ requests[c].at = "idle" <=> requests[c].table = NoTable
           /\ requests[c].at # "idle" => requests[c].table \in Table
           /\ requests[c].saw \subseteq Code /\ requests[c].todo \subseteq Code
           /\ requests[c].code \in Code \cup {NoCode}
           /\ requests[c] = [at |-> requests[c].at, table |-> requests[c].table,
                             saw |-> requests[c].saw, todo |-> requests[c].todo,
                             code |-> requests[c].code]
BY CodeConstants DEF CodeConstants, CodeTypeOK, RequestState, Idle

LEMMA CodeRowFields ==
    ASSUME CodeTypeOK, NEW q \in Code
    PROVE  /\ codes[q] = [table |-> codes[q].table, active |-> codes[q].active]
           /\ codes[q].active \in BOOLEAN
           /\ codes[q].table \in tables \cup {NoTable}
           /\ codes[q] = NoCodeRow <=> codes[q].table = NoTable
           /\ codes[q].table = NoTable => ~ codes[q].active
<1>1. CASE codes[q] = NoCodeRow
    BY <1>1 DEF NoCodeRow
<1>2. CASE codes[q] # NoCodeRow
  <2>1. codes[q] \in [table: Table, active: BOOLEAN] /\ codes[q].table \in tables
      BY <1>2 DEF CodeTypeOK, CodeRow
  <2>2. codes[q].table # NoTable
      BY <2>1, CodeConstants DEF CodeConstants
  <2> QED BY <1>2, <2>1, <2>2
<1> QED BY <1>1, <1>2

LEMMA CodeStarts == CodeInit => CodeInv
BY CodeConstants DEF CodeConstants, CodeInit, CodeInv, CodeTypeOK, InsertedInv, RetiredInv,
                     CodeRow, NoCodeRow, RequestState, Idle

\* A request takes its next step.
LEMMA RequestGoes ==
    ASSUME CodeTypeOK, NEW c \in Request, NEW state \in RequestState, Goto(c, state)
    PROVE  /\ requests' \in [Request -> RequestState]
           /\ requests'[c] = state
           /\ \A d \in Request \ {c} : requests'[d] = requests[d]
BY DEF CodeTypeOK, Goto

\* The fields of a request that is in progress.
LEMMA InProgress ==
    ASSUME CodeTypeOK, NEW c \in Request, requests[c].at # "idle"
    PROVE  requests[c] \in [at: {"update", "retire", "commit"}, table: Table,
                            saw: SUBSET Code, todo: SUBSET Code, code: Code \cup {NoCode}]
BY DEF CodeTypeOK, RequestState, Idle

LEMMA BeginCode ==
    ASSUME CodeInv, NEW c \in Request, NEW t \in Table,
           CreateTable(c, t) \/ Regenerate(c, t)
    PROVE  CodeInv'
<1> DEFINE state == [Idle EXCEPT !.at = "update", !.table = t]
<1>0. CodeTypeOK /\ InsertedInv /\ RetiredInv
    BY DEF CodeInv
<1>1. /\ requests[c] = Idle /\ UNCHANGED <<codes, rowLock>>
      /\ tables \subseteq tables' /\ tables' \subseteq Table /\ t \in tables'
      /\ Goto(c, state)
  <2> HIDE DEF state
  <2>1. CASE CreateTable(c, t)
      BY <1>0, <2>1 DEF CreateTable, CodeTypeOK, state
  <2>2. CASE Regenerate(c, t)
      BY <1>0, <2>2 DEF Regenerate, CodeTypeOK, state
  <2> QED BY <2>1, <2>2
<1>2. /\ state \in RequestState /\ state.table = t /\ state.saw = {} /\ state.todo = {}
      /\ state.code = NoCode /\ state.at = "update"
  <2>1. Idle \in [at: {"idle", "update"}, table: Table \cup {NoTable}, saw: {{}}, todo: {{}},
                  code: {NoCode}]
      BY DEF Idle
  <2>2. state \in [at: {"update"}, table: {t}, saw: {{}}, todo: {{}}, code: {NoCode}]
      BY <2>1
  <2> QED BY <2>2 DEF RequestState
<1> HIDE DEF state
<1>3. /\ requests' \in [Request -> RequestState] /\ requests'[c] = state
      /\ \A d \in Request \ {c} : requests'[d] = requests[d]
    BY <1>0, <1>1, <1>2, RequestGoes
<1>4. \A q \in Code : rowLock[q] # c
  <2>1. ASSUME NEW q \in Code, rowLock[q] = c PROVE FALSE
    <3>1. codes[q].active /\ codes[q].table = requests[c].table
        BY <1>0, <2>1, CodeConstants DEF CodeTypeOK, CodeConstants
    <3>2. requests[c].table = NoTable
        BY <1>1 DEF Idle
    <3> QED BY <1>0, <3>1, <3>2, CodeRowFields
  <2> QED BY <2>1
<1>5. CodeTypeOK'
    BY <1>0, <1>1, <1>3, <1>4 DEF CodeTypeOK
<1>6. InsertedInv'
    BY <1>0, <1>1, <1>2, <1>3 DEF InsertedInv
<1>7. RetiredInv'
    BY <1>0, <1>1, <1>2, <1>3 DEF RetiredInv
<1> QED BY <1>5, <1>6, <1>7 DEF CodeInv

LEMMA FindOldCode ==
    ASSUME CodeInv, NEW c \in Request, FindOld(c)
    PROVE  CodeInv'
<1> DEFINE old   == Active(requests[c].table)
           state == [requests[c] EXCEPT !.at = "retire", !.saw = old, !.todo = old]
<1>0. CodeTypeOK /\ InsertedInv /\ RetiredInv
    BY DEF CodeInv
<1>1. requests[c].at = "update" /\ Goto(c, state) /\ UNCHANGED <<tables, codes, rowLock>>
    BY DEF FindOld
<1>2. requests[c] \in [at: {"update", "retire", "commit"}, table: Table,
                       saw: SUBSET Code, todo: SUBSET Code, code: Code \cup {NoCode}]
    BY <1>0, <1>1, InProgress
<1>3. old \subseteq Code /\ \A q \in old : codes[q].active
    BY DEF Active
<1>4. \A q \in old : codes[q] # NoCodeRow /\ codes[q].table = requests[c].table
    BY <1>3 DEF Active, NoCodeRow
<1> HIDE DEF old
<1>5. /\ state \in RequestState /\ state.table = requests[c].table /\ state.saw = old
      /\ state.todo = old /\ state.code = requests[c].code /\ state.at = "retire"
    BY <1>2, <1>3 DEF RequestState
<1> HIDE DEF state
<1>6. /\ requests' \in [Request -> RequestState] /\ requests'[c] = state
      /\ \A d \in Request \ {c} : requests'[d] = requests[d]
    BY <1>0, <1>1, <1>5, RequestGoes
<1>7. CodeTypeOK'
    BY <1>0, <1>1, <1>5, <1>6 DEF CodeTypeOK
<1>8. InsertedInv'
    BY <1>0, <1>1, <1>5, <1>6 DEF InsertedInv
<1>9. RetiredInv'
    BY <1>0, <1>1, <1>4, <1>5, <1>6 DEF RetiredInv
<1> QED BY <1>7, <1>8, <1>9 DEF CodeInv

LEMMA RetireCode ==
    ASSUME CodeInv, NEW c \in Request, NEW q \in Code, Retire(c, q)
    PROVE  CodeInv'
<1> DEFINE state == [requests[c] EXCEPT !.todo = @ \ {q}]
<1>0. CodeTypeOK /\ InsertedInv /\ RetiredInv
    BY DEF CodeInv
<1>1. /\ requests[c].at = "retire" /\ rowLock[q] = NoRequest /\ q \in requests[c].todo
      /\ Goto(c, state) /\ UNCHANGED <<tables, codes>>
      /\ rowLock' = IF codes[q].active THEN [rowLock EXCEPT ![q] = c] ELSE rowLock
    BY DEF Retire
<1>2. requests[c] \in [at: {"update", "retire", "commit"}, table: Table,
                       saw: SUBSET Code, todo: SUBSET Code, code: Code \cup {NoCode}]
    BY <1>0, <1>1, InProgress
<1>3. /\ state \in RequestState /\ state.table = requests[c].table
      /\ state.saw = requests[c].saw /\ state.todo = requests[c].todo \ {q}
      /\ state.code = requests[c].code /\ state.at = "retire"
    BY <1>1, <1>2 DEF RequestState
<1> HIDE DEF state
<1>4. /\ requests' \in [Request -> RequestState] /\ requests'[c] = state
      /\ \A d \in Request \ {c} : requests'[d] = requests[d]
    BY <1>0, <1>1, <1>3, RequestGoes
<1>5. /\ rowLock' \in [Code -> Request \cup {NoRequest}]
      /\ \A r \in Code \ {q} : rowLock'[r] = rowLock[r]
      /\ rowLock'[q] = IF codes[q].active THEN c ELSE NoRequest
    BY <1>0, <1>1, CodeRowFields DEF CodeTypeOK
<1>6. q \in requests[c].saw /\ codes[q].table = requests[c].table
    BY <1>0, <1>1 DEF RetiredInv
<1>7. CodeTypeOK'
    BY <1>0, <1>1, <1>3, <1>4, <1>5, <1>6 DEF CodeTypeOK
<1>8. InsertedInv'
    BY <1>0, <1>1, <1>3, <1>4 DEF InsertedInv
<1>9. RetiredInv'
  <2>1. ASSUME NEW d \in Request, NEW r \in requests'[d].saw
        PROVE  \/ r \in requests'[d].todo \/ rowLock'[r] = d \/ ~ codes'[r].active
    <3>1. r \in requests[d].saw /\ r \in Code
        BY <1>0, <1>3, <1>4, <2>1, RequestFields
    <3>2. r \in requests[d].todo \/ rowLock[r] = d \/ ~ codes[r].active
        BY <1>0, <3>1 DEF RetiredInv
    <3>3. rowLock[r] = d => rowLock'[r] = d
        BY <1>1, <1>5, <3>1, CodeConstants DEF CodeConstants
    <3> QED BY <1>1, <1>3, <1>4, <1>5, <3>1, <3>2, <3>3
  <2> QED BY <1>0, <1>1, <1>3, <1>4, <2>1 DEF RetiredInv
<1> QED BY <1>7, <1>8, <1>9 DEF CodeInv

LEMMA InsertCodeRow ==
    ASSUME CodeInv, NEW c \in Request, NEW q \in Code, InsertCode(c, q)
    PROVE  CodeInv'
<1> DEFINE state == [requests[c] EXCEPT !.at = "commit", !.code = q]
<1>0. CodeTypeOK /\ InsertedInv /\ RetiredInv
    BY DEF CodeInv
<1>1. /\ requests[c].at = "retire" /\ requests[c].todo = {} /\ codes[q] = NoCodeRow
      /\ \A d \in Request : requests[d].code # q
      /\ Goto(c, state) /\ UNCHANGED <<tables, codes, rowLock>>
    BY DEF InsertCode
<1>2. requests[c] \in [at: {"update", "retire", "commit"}, table: Table,
                       saw: SUBSET Code, todo: SUBSET Code, code: Code \cup {NoCode}]
    BY <1>0, <1>1, InProgress
<1>3. /\ state \in RequestState /\ state.table = requests[c].table
      /\ state.saw = requests[c].saw /\ state.todo = requests[c].todo
      /\ state.code = q /\ state.at = "commit" /\ q # NoCode
    BY <1>1, <1>2, CodeConstants DEF RequestState, CodeConstants
<1> HIDE DEF state
<1>4. /\ requests' \in [Request -> RequestState] /\ requests'[c] = state
      /\ \A d \in Request \ {c} : requests'[d] = requests[d]
    BY <1>0, <1>1, <1>3, RequestGoes
<1>5. CodeTypeOK'
    BY <1>0, <1>1, <1>3, <1>4 DEF CodeTypeOK
<1>6. InsertedInv'
    BY <1>0, <1>1, <1>3, <1>4 DEF InsertedInv
<1>7. RetiredInv'
    BY <1>0, <1>1, <1>3, <1>4 DEF RetiredInv
<1> QED BY <1>5, <1>6, <1>7 DEF CodeInv

\* The end of a transaction: it holds no rows, and the locks of others are untouched.
LEMMA FinishSteps ==
    ASSUME CodeTypeOK, NEW c \in Request, Finish(c)
    PROVE  /\ requests' \in [Request -> RequestState] /\ requests'[c] = Idle
           /\ \A d \in Request \ {c} : requests'[d] = requests[d]
           /\ rowLock' \in [Code -> Request \cup {NoRequest}]
           /\ \A q \in Code : rowLock'[q] = IF rowLock[q] = c THEN NoRequest ELSE rowLock[q]
<1>1. Idle \in RequestState
    BY DEF RequestState
<1> QED BY <1>1, RequestGoes DEF Finish, CodeTypeOK

LEMMA IdleFields ==
    /\ Idle.code = NoCode /\ Idle.table = NoTable /\ Idle.saw = {} /\ Idle.todo = {}
    /\ Idle.at = "idle"
BY DEF Idle

LEMMA AbortCode ==
    ASSUME CodeInv, NEW c \in Request, Abort(c)
    PROVE  CodeInv'
<1>0. CodeTypeOK /\ InsertedInv /\ RetiredInv
    BY DEF CodeInv
<1>1. Finish(c) /\ UNCHANGED <<tables, codes>>
    BY DEF Abort
<1>2. CodeTypeOK'
    BY <1>0, <1>1, FinishSteps, CodeConstants DEF CodeTypeOK, CodeConstants
<1>3. InsertedInv'
    BY <1>0, <1>1, FinishSteps, IdleFields DEF InsertedInv
<1>4. RetiredInv'
  <2>1. ASSUME NEW d \in Request, d # c PROVE \A q \in Code : rowLock[q] = d => rowLock'[q] = d
      BY <1>0, <1>1, <2>1, FinishSteps
  <2>2. \A d \in Request : requests[d].saw \subseteq Code
      BY <1>0, RequestFields
  <2>3. requests'[c] = Idle /\ \A d \in Request \ {c} : requests'[d] = requests[d]
      BY <1>0, <1>1, FinishSteps
  <2> QED BY <1>0, <1>1, <2>1, <2>2, <2>3, IdleFields DEF RetiredInv
<1> QED BY <1>2, <1>3, <1>4 DEF CodeInv

\* What a COMMIT does to the rows: the one inserted is there and active, those locked
\* are not active any more, and the others are as they were.
LEMMA CommitRows ==
    ASSUME CodeInv, NEW c \in Request, Commit(c)
    PROVE  /\ requests[c].at = "commit" /\ Finish(c) /\ tables' = tables
           /\ requests[c].table \in Table
           /\ requests[c].code \in Code
           /\ codes[requests[c].code] = NoCodeRow
           /\ codes' \in [Code -> CodeRow]
           /\ codes'[requests[c].code] = [table |-> requests[c].table, active |-> TRUE]
           /\ \A q \in Code \ {requests[c].code} :
                  /\ codes'[q].table = codes[q].table
                  /\ rowLock[q] = c => codes[q].table = requests[c].table /\ ~ codes'[q].active
                  /\ rowLock[q] # c => codes'[q] = codes[q]
<1> DEFINE new == [table |-> requests[c].table, active |-> TRUE]
<1>0. CodeTypeOK /\ InsertedInv
    BY DEF CodeInv
<1>1. /\ requests[c].at = "commit" /\ Finish(c) /\ tables' = tables
      /\ codes' = [q \in Code |-> IF q = requests[c].code THEN new
                                  ELSE IF rowLock[q] = c THEN [codes[q] EXCEPT !.active = FALSE]
                                  ELSE codes[q]]
    BY DEF Commit
<1>2. /\ requests[c].table \in Table /\ requests[c].code \in Code
      /\ codes[requests[c].code] = NoCodeRow
    BY <1>0, <1>1, RequestFields DEF InsertedInv
<1>3. new \in CodeRow
    BY <1>2 DEF CodeRow
<1>4. ASSUME NEW q \in Code, rowLock[q] = c
      PROVE  /\ [codes[q] EXCEPT !.active = FALSE] \in CodeRow
             /\ [codes[q] EXCEPT !.active = FALSE].table = codes[q].table
             /\ ~ [codes[q] EXCEPT !.active = FALSE].active
             /\ codes[q].table = requests[c].table
  <2>1. codes[q].active /\ codes[q].table = requests[c].table
      BY <1>0, <1>4, CodeConstants DEF CodeTypeOK, CodeConstants
  <2>2. codes[q] \in [table: Table, active: BOOLEAN]
      BY <1>0, <2>1 DEF CodeTypeOK, CodeRow, NoCodeRow
  <2>3. [codes[q] EXCEPT !.active = FALSE] \in [table: Table, active: BOOLEAN]
      BY <2>2
  <2>4. [codes[q] EXCEPT !.active = FALSE] \in CodeRow
      BY <2>3 DEF CodeRow
  <2> QED BY <2>1, <2>2, <2>4
<1>5. \A q \in Code : codes[q] \in CodeRow
    BY <1>0 DEF CodeTypeOK
<1> HIDE DEF new
<1>6. codes' \in [Code -> CodeRow]
    BY <1>1, <1>3, <1>4, <1>5
<1>7. codes'[requests[c].code] = new
    BY <1>1, <1>2
<1>8. \A q \in Code \ {requests[c].code} :
          codes'[q] = IF rowLock[q] = c THEN [codes[q] EXCEPT !.active = FALSE] ELSE codes[q]
    BY <1>1
<1> QED BY <1>1, <1>2, <1>4, <1>6, <1>7, <1>8 DEF new

LEMMA CommitCode ==
    ASSUME CodeInv, NEW c \in Request, Commit(c)
    PROVE  CodeInv'
<1> DEFINE code == requests[c].code
           t    == requests[c].table
<1>0. CodeTypeOK /\ InsertedInv /\ RetiredInv
    BY DEF CodeInv
<1>1. /\ requests[c].at = "commit" /\ tables' = tables /\ t \in Table /\ code \in Code
      /\ codes[code] = NoCodeRow /\ codes' \in [Code -> CodeRow]
      /\ codes'[code] = [table |-> t, active |-> TRUE]
      /\ \A q \in Code \ {code} :
             /\ codes'[q].table = codes[q].table
             /\ rowLock[q] = c => ~ codes'[q].active
             /\ rowLock[q] # c => codes'[q] = codes[q]
    BY CommitRows
<1>2. /\ requests' \in [Request -> RequestState] /\ requests'[c] = Idle
      /\ \A d \in Request \ {c} : requests'[d] = requests[d]
      /\ rowLock' \in [Code -> Request \cup {NoRequest}]
      /\ \A q \in Code : rowLock'[q] = IF rowLock[q] = c THEN NoRequest ELSE rowLock[q]
    BY <1>0, CommitRows, FinishSteps
<1>3. t \in tables
    BY <1>0, <1>1, CodeConstants DEF RetiredInv, CodeConstants
<1>4. \A d \in Request : requests[d].saw \subseteq Code /\ requests[d].code \in Code \cup {NoCode}
    BY <1>0, RequestFields
<1>5. \A q \in Code : codes[q] # NoCodeRow <=> codes[q].table # NoTable
    BY <1>0, CodeRowFields
<1>6. rowLock[code] = NoRequest
  <2>1. ~ codes[code].active
      BY <1>1 DEF NoCodeRow
  <2> QED BY <1>0, <1>1, <2>1 DEF CodeTypeOK
<1>7. \A q \in Code \ {code} : codes'[q] # NoCodeRow <=> codes[q] # NoCodeRow
  <2>1. ASSUME NEW q \in Code \ {code} PROVE codes'[q] # NoCodeRow <=> codes'[q].table # NoTable
    <3>1. codes'[q] = NoCodeRow \/ codes'[q] \in [table: Table, active: BOOLEAN]
        BY <1>1 DEF CodeRow
    <3> QED BY <3>1, CodeConstants DEF CodeConstants, NoCodeRow
  <2> QED BY <1>1, <1>5, <2>1
<1>8. codes'[code].table = t /\ codes'[code].active
    BY <1>1
<1> HIDE DEF code, t
<1>9. CodeTypeOK'
  <2>1. \A q \in Code : codes'[q] # NoCodeRow => codes'[q].table \in tables
      BY <1>0, <1>1, <1>3, <1>7, <1>8 DEF CodeTypeOK
  <2>2. ASSUME NEW q \in Code, rowLock'[q] # NoRequest
        PROVE  codes'[q].active /\ requests'[rowLock'[q]].table = codes'[q].table
    <3>1. /\ q # code /\ rowLock'[q] = rowLock[q] /\ rowLock[q] \in Request \ {c}
        BY <1>0, <1>2, <1>6, <2>2 DEF CodeTypeOK
    <3> QED BY <1>0, <1>1, <1>2, <3>1, <2>2 DEF CodeTypeOK
  <2> QED BY <1>0, <1>1, <1>2, <2>1, <2>2 DEF CodeTypeOK
<1>10. InsertedInv'
  <2>1. ASSUME NEW d \in Request \ {c}, requests[d].code # NoCode
        PROVE  codes'[requests[d].code] = NoCodeRow
    <3>1. requests[d].code \in Code \ {code} /\ codes[requests[d].code] = NoCodeRow
        BY <1>0, <1>1, <1>4, <2>1, CodeConstants DEF InsertedInv, code, CodeConstants
    <3> QED BY <1>7, <3>1
  <2> QED BY <1>0, <1>2, <2>1, IdleFields DEF InsertedInv
<1>11. RetiredInv'
  <2>1. ASSUME NEW d \in Request \ {c}, NEW q \in requests[d].saw
        PROVE  /\ codes'[q] # NoCodeRow /\ codes'[q].table = requests[d].table
               /\ q \in requests[d].todo \/ rowLock'[q] = d \/ ~ codes'[q].active
    <3>1. /\ q \in Code \ {code} /\ codes[q] # NoCodeRow /\ codes[q].table = requests[d].table
          /\ q \in requests[d].todo \/ rowLock[q] = d \/ ~ codes[q].active
        BY <1>0, <1>1, <1>4 DEF RetiredInv
    <3>2. codes'[q] # NoCodeRow /\ codes'[q].table = requests[d].table
        BY <1>1, <1>7, <3>1
    <3>3. CASE rowLock[q] = c
        BY <1>1, <3>1, <3>2, <3>3
    <3>4. CASE rowLock[q] # c
        BY <1>1, <1>2, <3>1, <3>2, <3>4
    <3> QED BY <3>3, <3>4
  <2> QED BY <1>0, <1>1, <1>2, <2>1, IdleFields DEF RetiredInv
<1> QED BY <1>9, <1>10, <1>11 DEF CodeInv

LEMMA CodeStep ==
    ASSUME CodeInv, [CodeNext]_codeVars
    PROVE  CodeInv'
<1>1. CASE UNCHANGED codeVars
    BY <1>1 DEF codeVars, CodeInv, CodeTypeOK, InsertedInv, RetiredInv
<1>2. ASSUME NEW c \in Request,
             \/ \E t \in Table : CreateTable(c, t) \/ Regenerate(c, t)
             \/ FindOld(c)
             \/ \E q \in Code : Retire(c, q) \/ InsertCode(c, q)
             \/ Commit(c)
             \/ Abort(c)
      PROVE  CodeInv'
    BY <1>2, BeginCode, FindOldCode, RetireCode, InsertCodeRow, CommitCode, AbortCode
<1> QED BY <1>1, <1>2 DEF CodeNext

LEMMA CodesKept == CodeSpec => []CodeInv
BY CodeStarts, CodeStep, PTL DEF CodeSpec

\* The types of the codes, their locks and the requests: a row has a code's table, and
\* the rows a transaction holds are active rows of its table.
THEOREM CodeTypeCorrect == CodeSpec => []CodeTypeOK
BY CodesKept, PTL DEF CodeInv

\* Only a COMMIT changes a row that is there.
LEMMA OnlyCommits ==
    ASSUME [CodeNext]_codeVars, codes' # codes
    PROVE  \E c \in Request : Commit(c)
BY DEF CodeNext, codeVars, CreateTable, Regenerate, FindOld, Retire, InsertCode, Abort

\* A table that has a code customers can scan has one after every step of every
\* request (CreateForTable): the COMMIT that retires the last one brings its own.
THEOREM NeverLeftWithout == CodeSpec => NeverWithoutCode
<1>1. ASSUME CodeInv, [CodeNext]_codeVars, NEW t \in Table, Active(t) # {}
      PROVE  Active(t)' # {}
  <2>1. CASE codes' = codes
      BY <1>1, <2>1 DEF Active
  <2>2. ASSUME codes' # codes, NEW c \in Request, Commit(c) PROVE Active(t)' # {}
    <3>1. CASE requests[c].table = t
        BY <1>1, <2>2, <3>1, CommitRows DEF Active
    <3>2. CASE requests[c].table # t
      <4>1. PICK q \in Code : codes[q] = [table |-> t, active |-> TRUE]
          BY <1>1 DEF Active
      <4>2. codes[q].table = t /\ codes[q] # NoCodeRow
        <5>1. codes[q].table = t /\ codes[q].active
            BY <4>1
        <5> QED BY <5>1 DEF NoCodeRow
      <4>3. /\ codes[requests[c].code] = NoCodeRow
            /\ q # requests[c].code =>
                   /\ rowLock[q] = c => codes[q].table = requests[c].table
                   /\ rowLock[q] # c => codes'[q] = codes[q]
          BY <1>1, <2>2, CommitRows
      <4>4. codes'[q] = [table |-> t, active |-> TRUE]
          BY <3>2, <4>1, <4>2, <4>3
      <4> QED BY <4>4 DEF Active
    <3> QED BY <3>1, <3>2
  <2> QED BY <1>1, <2>1, <2>2, OnlyCommits
<1>2. ASSUME CodeInv, [CodeNext]_codeVars
      PROVE  [\A t \in Table : Active(t) # {} => Active(t)' # {}]_codeVars
    BY <1>1, <1>2
<1> QED BY <1>2, CodesKept, PTL DEF CodeSpec, NeverWithoutCode

\* Once a regeneration has committed, no code its UPDATE saw can be scanned: it has
\* retired it itself, or waited until another had.
THEOREM SeenOnesRetired == CodeSpec => SeenAreRetired
<1> DEFINE Retired ==
        \A c \in Request : codes' # codes /\ requests[c].at = "commit" /\ requests[c]' = Idle
            => \A q \in requests[c].saw : ~ codes'[q].active
<1>1. ASSUME CodeInv, [CodeNext]_codeVars, codes' # codes, NEW c \in Request,
             requests[c].at = "commit", requests[c]' = Idle, NEW q \in requests[c].saw
      PROVE  ~ codes'[q].active
  <2>0. CodeTypeOK /\ InsertedInv /\ RetiredInv
      BY <1>1 DEF CodeInv
  <2>1. PICK d \in Request : Commit(d)
      BY <1>1, OnlyCommits
  <2>2. d = c
    <3>1. Finish(d)
        BY <2>1 DEF Commit
    <3>2. d # c => requests'[c] = requests[c]
        BY <2>0, <3>1, FinishSteps
    <3> QED BY <1>1, <3>2, IdleFields
  <2>3. q \in Code /\ codes[q] # NoCodeRow /\ (rowLock[q] = c \/ ~ codes[q].active)
      BY <1>1, <2>0, RequestFields DEF RetiredInv, InsertedInv
  <2>4. q # requests[c].code
      BY <1>1, <2>1, <2>2, <2>3, CommitRows
  <2> QED BY <1>1, <2>1, <2>2, <2>3, <2>4, CommitRows
<1>2. ASSUME CodeInv, [CodeNext]_codeVars PROVE [Retired]_codeVars
    BY <1>1, <1>2
<1> QED BY <1>2, CodesKept, PTL DEF CodeSpec, SeenAreRetired

================================================================================
