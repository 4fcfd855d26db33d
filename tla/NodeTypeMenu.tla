---------------------------- MODULE NodeTypeMenu ----------------------------
(***************************************************************************)
(* heditor/src/node_type_menu.c: the tree of groups in which the editor    *)
(* offers the node types of a registry, built in an arena and then copied  *)
(* in pre-order into one block, whose size a first call has asked for; and *)
(* the walk over that block with which editor.c draws it.  A group is the  *)
(* sequence of the labels between its slashes.                             *)
(***************************************************************************)
EXTENDS Registry

CONSTANTS Group             \* node type |-> labels

VARIABLES menu              \* node_type_menu_entry_t entries, from 0

menuVars == <<registryVars, menu>>

Entry(label, type) == [label |-> label, node_type |-> type, children |-> <<>>]

-----------------------------------------------------------------------------
(* build_menu_tree.  The tree is a sequence of entries in the order they   *)
(* are allocated, the root first; children are indexes into it and new     *)
(* ones are put in front.                                                  *)
AddChild(tree, node, entry) ==
    Append([tree EXCEPT ![node].children = <<Len(tree) + 1>> \o @], entry)

(* Mutant: only the first child is compared with the label. *)
FirstChildNamed(tree, node, label) ==
    {c \in ToSet(tree[node].children) : c = Head(tree[node].children) /\ tree[c].label = label}

(* The child of a label, which is the first of that name; an entry of a    *)
(* node type has an empty label, and so may a group.                       *)
ChildNamed(tree, node, label) ==
    LET children == tree[node].children
        named == {k \in DOMAIN children : tree[children[k]].label = label}
    IN  IF named = {} THEN {} ELSE {children[CHOOSE k \in named : \A j \in named : k <= j]}

Descend(state, label) ==
    LET child == ChildNamed(state.tree, state.node, label)
    IN  IF child # {} THEN [state EXCEPT !.node = CHOOSE c \in child : TRUE]
        ELSE [tree |-> AddChild(state.tree, state.node, Entry(label, NULL)),
              node |-> Len(state.tree) + 1]

AddToTree(tree, type) ==
    LET found == FoldLeft(Descend, [tree |-> tree, node |-> 1], Group[type])
    IN  AddChild(found.tree, found.node, Entry("", type))

Tree == FoldLeft(AddToTree, <<Entry("", NULL)>>, Iterate)

-----------------------------------------------------------------------------
(* flatten_menu_tree: the nodes in the order in which they take entries. *)
PreOrder(tree) ==
    LET below[n \in DOMAIN tree] ==
            <<n>> \o FlattenSeq([k \in DOMAIN tree[n].children |-> below[tree[n].children[k]]])
    IN  below[1]

Place(order, n) == (CHOOSE k \in DOMAIN order : order[k] = n) - 1

FirstChild(tree, order, n) ==
    IF tree[n].children = <<>> THEN Invalid ELSE Place(order, Head(tree[n].children))

NextSibling(tree, order, n) ==
    LET next == {c \in DOMAIN tree : \E m \in DOMAIN tree : \E k \in DOMAIN tree[m].children :
                     k > 1 /\ tree[m].children[k - 1] = n /\ tree[m].children[k] = c}
    IN  IF next = {} THEN Invalid ELSE Place(order, CHOOSE c \in next : TRUE)

(* node_type_menu_init *)
MenuInit ==
    LET tree  == Tree
        order == PreOrder(tree)
    IN  /\ registry # NULL /\ menu = NULL
        /\ menu' = [p \in 0 .. Len(order) - 1 |->
                       LET n == order[p + 1]
                       IN  [label        |-> tree[n].label,
                            node_type    |-> tree[n].node_type,
                            children     |-> FirstChild(tree, order, n),
                            next_sibling |-> NextSibling(tree, order, n)]]
        /\ UNCHANGED registryVars

Reload == BuilderInit /\ menu' = NULL
Register == (\E type \in NodeTypes : BuilderAdd(type)) /\ UNCHANGED menu
Build == RegistryInit /\ UNCHANGED menu

NoMenu == Init /\ menu = NULL

MenuNext == Reload \/ Register \/ Build \/ MenuInit

MenuSpec == NoMenu /\ [][MenuNext]_menuVars

-----------------------------------------------------------------------------
(* show_create_node_menu with every submenu open: the node types it offers, *)
(* each with the labels that lead to it; a group without label is not a    *)
(* submenu of its own.                                                     *)
Siblings ==
    LET from[p \in DOMAIN menu \union {Invalid}] ==
            IF p = Invalid THEN <<>> ELSE <<p>> \o from[menu[p].next_sibling]
    IN  from

Submenu(label, offers) ==
    [k \in DOMAIN offers |-> [offers[k] EXCEPT !.path = IF label = "" THEN @ ELSE <<label>> \o @]]

Offered ==
    LET below[p \in DOMAIN menu] ==
            IF menu[p].node_type # NULL
            THEN <<[path |-> <<>>, node_type |-> menu[p].node_type]>>
            ELSE LET children == Siblings[menu[p].children]
                 IN  Submenu(menu[p].label,
                             FlattenSeq([k \in DOMAIN children |-> below[children[k]]]))
    IN  below[0]

Labels(type) == SelectSeq(Group[type], LAMBDA label : label # "")

(* The menu offers every registered node type, as often as it is           *)
(* registered, under the labels of its group and nowhere else, and has one *)
(* submenu of a name in every place.                                       *)
MenuOffersEveryType ==
    menu # NULL =>
        /\ Len(Offered) = Len(Iterate)
        /\ ToSet(Offered) = {[path |-> Labels(type), node_type |-> type] : type \in ToSet(Iterate)}
        /\ \A p \in DOMAIN menu :
              LET submenus == {c \in ToSet(Siblings[menu[p].children]) : menu[c].node_type = NULL}
              IN  \A c, d \in submenus : menu[c].label = menu[d].label => c = d
=============================================================================
