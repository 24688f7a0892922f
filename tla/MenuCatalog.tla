----------------------------- MODULE MenuCatalog -----------------------------
(***************************************************************************)
(* The menu as its editors change it: creating, updating and deleting an   *)
(* item, and the message that tells the guests of a branch to load it      *)
(* again.  The branch to tell is a query of its own, after the INSERT and  *)
(* the UPDATE and before the DELETE; no transaction spans two statements.  *)
(* Of a category only its branch matters here.                             *)
(***************************************************************************)
CONSTANTS
    Item,         \* ids of menu items, the unborn included
    Edited,       \* those the editors of the instance work on: a bound
    Branch,       \* branches; each has a category
    Editor,       \* requests to /admin/menu-items in progress at one time: a bound
    NoBranch, NoItem

VARIABLES
    items,        \* the rows of menu_items
    editors,      \* the requests in progress
    untold,       \* history: for each branch, the items that were changed on its menu,
                  \* put there or taken away, since its guests were last told of them
    moved,        \* history: items that were moved from one branch to another
    dropped       \* history: items of which a change was written and its request ended
                  \* before the message

menuVars == <<items, editors, untold, moved, dropped>>

\* "available" stands for the statuses that may be ordered, "suspended" for the others.
Live == [branch: Branch, status: {"available", "suspended"}]
Unborn == [branch |-> NoBranch, status |-> "unborn"]
Deleted == [branch |-> NoBranch, status |-> "deleted"]

Idle == [at |-> "idle", item |-> NoItem, branch |-> NoBranch]
EditorState ==
    [at: {"ask_branch", "ask_created", "ask_doomed"}, item: Item, branch: {NoBranch}]
    \cup [at: {"read_back", "delete", "tell"}, item: Item, branch: Branch]
    \cup {Idle}

CatalogTypeOK ==
    /\ items \in [Item -> Live \cup {Unborn, Deleted}]
    /\ editors \in [Editor -> EditorState]
    /\ untold \in [Branch -> SUBSET Item]
    /\ moved \subseteq Item
    /\ dropped \subseteq Item

-----------------------------------------------------------------------------
OnMenu(i) == items[i] \in Live

\* The requests that have written the item and have not told anyone.
ToTell(i) ==
    {e \in Editor : /\ editors[e].item = i
                    /\ editors[e].at \in {"ask_branch", "ask_created", "read_back", "tell"}}

Goto(e, state) == editors' = [editors EXCEPT ![e] = state]

\* The row becomes "row": the menus of the branch it leaves and of the one it is
\* in now are not what their guests know.
Write(i, row) ==
    /\ items' = [items EXCEPT ![i] = row]
    /\ untold' = [b \in Branch |-> IF b \in {items[i].branch, row.branch}
                                   THEN untold[b] \cup {i} ELSE untold[b]]
    /\ moved' = IF OnMenu(i) /\ row \in Live /\ row.branch # items[i].branch
                THEN moved \cup {i} ELSE moved

-----------------------------------------------------------------------------
(* POST /admin/menu-items *)

\* The INSERT.
CreateItem(e, i, row) ==
    /\ editors[e] = Idle
    /\ items[i] = Unborn
    /\ Write(i, row)
    /\ Goto(e, [at |-> "ask_created", item |-> i, branch |-> NoBranch])
    /\ UNCHANGED dropped

\* GetItemDetail for the answer. An item deleted by now is an error, and no message.
ReadBack(e) ==
    /\ editors[e].at = "read_back"
    /\ Goto(e, IF OnMenu(editors[e].item) THEN [editors[e] EXCEPT !.at = "tell"] ELSE Idle)
    /\ UNCHANGED <<items, untold, moved, dropped>>

-----------------------------------------------------------------------------
(* PATCH /admin/menu-items/{id} *)

\* Variant with a bug: the branch is asked for before the UPDATE.
UpdateItemAskedBefore(e, i, row) ==
    /\ editors[e] = Idle
    /\ OnMenu(i)
    /\ Write(i, row)
    /\ Goto(e, [at |-> "tell", item |-> i, branch |-> items[i].branch])
    /\ UNCHANGED dropped

\* Variant with a bug: an item that is not there is put back (ON CONFLICT ...).
UpdateItemUpsert(e, i, row) ==
    /\ editors[e] = Idle
    /\ Write(i, row)
    /\ Goto(e, [at |-> "ask_branch", item |-> i, branch |-> NoBranch])
    /\ UNCHANGED dropped

\* UPDATE of any of the columns, the category included. No row is ErrNotFound.
UpdateItem(e, i, row) ==
    /\ editors[e] = Idle
    /\ OnMenu(i)
    /\ Write(i, row)
    /\ Goto(e, [at |-> "ask_branch", item |-> i, branch |-> NoBranch])
    /\ UNCHANGED dropped

\* itemBranchID: the branch the item is in by now. An item that has been deleted
\* ends the request with an error.
AskBranch(e) ==
    LET i == editors[e].item
        next == [ask_branch |-> "tell", ask_created |-> "read_back", ask_doomed |-> "delete"]
    IN
    /\ editors[e].at \in DOMAIN next
    /\ Goto(e, IF OnMenu(i)
               THEN [at |-> next[editors[e].at], item |-> i, branch |-> items[i].branch]
               ELSE Idle)
    /\ UNCHANGED <<items, untold, moved, dropped>>

-----------------------------------------------------------------------------
(* DELETE /admin/menu-items/{id} *)

DeleteBegin(e, i) ==
    /\ editors[e] = Idle
    /\ Goto(e, [at |-> "ask_doomed", item |-> i, branch |-> NoBranch])
    /\ UNCHANGED <<items, untold, moved, dropped>>

\* DELETE; a row that is gone already is no error.
DeleteItem(e) ==
    LET i == editors[e].item IN
    /\ editors[e].at = "delete"
    /\ IF OnMenu(i) THEN Write(i, Deleted) ELSE UNCHANGED <<items, untold, moved>>
    /\ Goto(e, [editors[e] EXCEPT !.at = "tell"])
    /\ UNCHANGED dropped

\* An order refers to the row: the foreign key has no ON DELETE clause.
DeleteRefused(e) ==
    /\ editors[e].at = "delete"
    /\ OnMenu(editors[e].item)
    /\ Goto(e, Idle)
    /\ UNCHANGED <<items, untold, moved, dropped>>

-----------------------------------------------------------------------------
\* broadcast: "menu_updated" or "menu_deleted" to those who watch the branch.
Tell(e) ==
    /\ editors[e].at = "tell"
    /\ untold' = [untold EXCEPT ![editors[e].branch] = @ \ {editors[e].item}]
    /\ Goto(e, Idle)
    /\ UNCHANGED <<items, moved, dropped>>

\* A statement fails, the client goes away or the process dies.
Abort(e) ==
    LET i == editors[e].item IN
    /\ editors[e] # Idle
    /\ Goto(e, Idle)
    /\ dropped' = IF e \in ToTell(i) THEN dropped \cup {i} ELSE dropped
    /\ UNCHANGED <<items, untold, moved>>

-----------------------------------------------------------------------------
Init ==
    /\ items \in [Item -> Live \cup {Unborn}]
    /\ \A i \in Item \ Edited : items[i].status = "available"
    /\ editors = [e \in Editor |-> Idle]
    /\ untold = [b \in Branch |-> {}]
    /\ moved = {}
    /\ dropped = {}

\* What an editor does but for the DELETE itself, which depends on the orders.
Edit(e) ==
    \/ \E i \in Edited :
           \/ \E row \in Live : CreateItem(e, i, row) \/ UpdateItem(e, i, row)
           \/ DeleteBegin(e, i)
    \/ AskBranch(e)
    \/ ReadBack(e)
    \/ Tell(e)
    \/ Abort(e)

-----------------------------------------------------------------------------
(* Properties *)

\* Guests of a branch who load an item again at every message about it know the
\* menu: a change they are not told of has its message still to come, or lost it,
\* or it took the item away from them to another branch, or happened to it after
\* that (AdminMenuHandler.Update tells the new branch only).
MenusAreTold ==
    \A b \in Branch : \A i \in untold[b] :
        \/ ToTell(i) # {}
        \/ i \in dropped
        \/ i \in moved /\ items[i].branch # b

=============================================================================
