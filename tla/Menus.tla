--------------------------------- MODULE Menus ---------------------------------
(***************************************************************************)
(* The menus of the admin console: MenuService, MenuMapper.buildTree and   *)
(* RoleService.assignMenus.  A menu names its parent by uid; nothing in    *)
(* the service or the table keeps that uid among the menus that exist, or  *)
(* the parents free of loops.  Edits are a read and a later save, removals *)
(* a count and a later transaction; what a user is shown is two reads and  *)
(* a loop over what they found.                                            *)
(***************************************************************************)
EXTENDS Naturals

CONSTANTS MenuIds, Top, Editors, NoEdit, NoView

VARIABLES
    menu,      \* [MenuIds -> {"absent", "live", "deleted"}]
    parent,    \* [MenuIds -> MenuIds \cup {Top}]: parentId, Top for NULL
    granted,   \* the menus bound to the effective roles of one user
    edit,      \* [Editors -> Edit \cup {NoEdit}]: requests in flight
    view       \* View \cup {NoView}: the user's own request for the menus

menuVars == <<menu, parent, granted, edit, view>>

Edit == [op : {"update", "remove"}, menu : MenuIds, parent : MenuIds \cup {Top}]

\* grantedUids, those of them that are still to be walked, cursor (Top for none) and visibleUids.
View == [step : {"menus", "walk", "tree"}, granted : SUBSET MenuIds, todo : SUBSET MenuIds,
         cursor : MenuIds \cup {Top}, visible : SUBSET MenuIds]

ASSUME MenuConstants == Top \notin MenuIds /\ NoEdit \notin Edit /\ NoView \notin View
-------------------------------------------------------------------------------
LiveMenus   == {m \in MenuIds : menu[m] = "live"}
Children(m) == {c \in LiveMenus : parent[c] = m}

\* Nothing is awaited from the find of all menus to the answer, and the list that it returned is
\* nobody else's: it is what the table holds as long as the walk lasts.
Walking == view # NoView /\ view.step # "menus"

MenuInit ==
    /\ menu = [m \in MenuIds |-> "absent"]
    /\ parent = [m \in MenuIds |-> Top]
    /\ granted = {}
    /\ edit = [e \in Editors |-> NoEdit]
    /\ view = NoView

\* create: whatever parent is named.
CreateMenu(m, p) ==
    /\ menu[m] = "absent"
    /\ menu' = [menu EXCEPT ![m] = "live"]
    /\ parent' = [parent EXCEPT ![m] = p]
    /\ UNCHANGED <<granted, edit, view>>

\* update, findByUid, and then save(menu), which writes deleted_at back as it was.
UpdateMenuReads(e, m, p) ==
    /\ edit[e] = NoEdit
    /\ m \in LiveMenus
    /\ edit' = [edit EXCEPT ![e] = [op |-> "update", menu |-> m, parent |-> p]]
    /\ UNCHANGED <<menu, parent, granted, view>>

UpdateMenuSaves(e) ==
    /\ edit[e] # NoEdit /\ edit[e].op = "update"
    /\ menu' = [menu EXCEPT ![edit[e].menu] = "live"]
    /\ parent' = [parent EXCEPT ![edit[e].menu] = edit[e].parent]
    /\ edit' = [edit EXCEPT ![e] = NoEdit]
    /\ UNCHANGED <<granted, view>>

\* remove, findByUid and the count of the children.
RemoveMenuCounts(e, m) ==
    /\ edit[e] = NoEdit
    /\ m \in LiveMenus
    /\ Children(m) = {}
    /\ edit' = [edit EXCEPT ![e] = [op |-> "remove", menu |-> m, parent |-> parent[m]]]
    /\ UNCHANGED <<menu, parent, granted, view>>

\* remove, the transaction.
RemoveMenuCommits(e) ==
    /\ edit[e] # NoEdit /\ edit[e].op = "remove"
    /\ menu' = [menu EXCEPT ![edit[e].menu] = "deleted"]
    /\ granted' = granted \ {edit[e].menu}
    /\ edit' = [edit EXCEPT ![e] = NoEdit]
    /\ UNCHANGED <<parent, view>>

\* assignMenus: all rows out, the new ones in, whether such menus exist or not.
AssignMenus(M) ==
    /\ granted' = M
    /\ UNCHANGED <<menu, parent, edit, view>>

-------------------------------------------------------------------------------
(***************************************************************************)
(* menusForUser.                                                           *)
(***************************************************************************)

\* getMenuUidsForUser; without any the answer is empty.
ViewReadsGrants ==
    /\ view = NoView /\ granted # {}
    /\ view' = [step |-> "menus", granted |-> granted, todo |-> granted, cursor |-> Top, visible |-> {}]
    /\ UNCHANGED <<menu, parent, granted, edit>>

\* The find of all menus.
ViewReadsMenus ==
    /\ view # NoView /\ view.step = "menus"
    /\ view' = [view EXCEPT !.step = "walk"]
    /\ UNCHANGED <<menu, parent, granted, edit>>

\* for: the next of the granted uids, in the order of the rows.
WalkTakesGrant(m) ==
    /\ view # NoView /\ view.step = "walk"
    /\ view.cursor = Top /\ m \in view.todo
    /\ view' = [view EXCEPT !.todo = @ \ {m}, !.cursor = m]
    /\ UNCHANGED <<menu, parent, granted, edit>>

\* Mutant: climbing stops below a menu without a parent of its own.
WalkStopsBelowRoot ==
    /\ view # NoView /\ view.step = "walk"
    /\ view.cursor # Top
    /\ view' = IF view.cursor \in view.visible \/ view.cursor \notin LiveMenus \/ parent[view.cursor] = Top
               THEN [view EXCEPT !.cursor = Top]
               ELSE [view EXCEPT !.visible = @ \cup {view.cursor}, !.cursor = parent[view.cursor]]
    /\ UNCHANGED <<menu, parent, granted, edit>>

\* while: up to the first menu that is visible already, or that does not exist.
WalkClimbs ==
    /\ view # NoView /\ view.step = "walk"
    /\ view.cursor # Top
    /\ view' = IF view.cursor \in view.visible \/ view.cursor \notin LiveMenus
               THEN [view EXCEPT !.cursor = Top]
               ELSE [view EXCEPT !.visible = @ \cup {view.cursor}, !.cursor = parent[view.cursor]]
    /\ UNCHANGED <<menu, parent, granted, edit>>

\* All are walked: buildTree of the visible ones.
WalkEnds ==
    /\ view # NoView /\ view.step = "walk"
    /\ view.cursor = Top /\ view.todo = {}
    /\ view' = [view EXCEPT !.step = "tree"]
    /\ UNCHANGED <<menu, parent, granted, edit>>

\* The answer, or the request dies before.
ViewEnds ==
    /\ view # NoView
    /\ view' = NoView
    /\ UNCHANGED <<menu, parent, granted, edit>>

\* buildTree: the roots are the menus whose parent is not in the list.
RootsIn(M) == {m \in M : parent[m] = Top \/ parent[m] \notin M}

\* The nodes of the tree that buildTree returns: what hangs below a root.
ShownIn(M) ==
    {m \in M : \A S \in SUBSET M :
        RootsIn(M) \subseteq S /\ (\A c \in M : parent[c] \in S => c \in S) => m \in S}

EditStep ==
    /\ ~Walking
    /\ \/ \E m \in MenuIds, p \in MenuIds \cup {Top} : CreateMenu(m, p)
       \/ \E e \in Editors : \/ \E m \in MenuIds, p \in MenuIds \cup {Top} : UpdateMenuReads(e, m, p)
                             \/ \E m \in MenuIds : RemoveMenuCounts(e, m)
                             \/ UpdateMenuSaves(e) \/ RemoveMenuCommits(e)
       \/ \E M \in SUBSET MenuIds : AssignMenus(M)

ViewStep ==
    \/ ViewReadsGrants \/ ViewReadsMenus
    \/ \E m \in MenuIds : WalkTakesGrant(m)
    \/ WalkClimbs \/ WalkEnds \/ ViewEnds

MenuNext == EditStep \/ ViewStep
-------------------------------------------------------------------------------
(***************************************************************************)
(* Properties.                                                             *)
(***************************************************************************)

\* The reference for menusForUser: the menus G that were granted and exist, and parents that exist.
HoldsAncestors(G, S) ==
    /\ G \cap LiveMenus \subseteq S
    /\ \A m \in S : parent[m] \in LiveMenus => parent[m] \in S

\* The comments of menusForUser and buildTree.  Visible are the granted menus with all their
\* ancestors, and no menu besides, in whatever order the grants are walked, through loops of
\* parents, and whatever happened between the two reads.  A menu whose parent is not in the
\* list becomes a root, so that the tree leaves out only menus whose chain of parents never
\* ends, however parents were removed, edited and brought back.
TreeShowsWhatIsGranted ==
    view # NoView /\ view.step = "tree" =>
        LET V == view.visible  leftOut == V \ ShownIn(V) IN
        /\ V \subseteq LiveMenus
        /\ HoldsAncestors(view.granted, V)
        /\ \A S \in SUBSET LiveMenus : HoldsAncestors(view.granted, S) => V \subseteq S
        /\ \A m \in leftOut : parent[m] \in leftOut
===============================================================================
