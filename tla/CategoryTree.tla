---------------------------- MODULE CategoryTree ----------------------------
(***************************************************************************)
(* The tree of product categories (src/STORA/products): CategoryForm keeps  *)
(* it free of cycles by not offering a category itself nor any of its       *)
(* descendants as its parent, collected by get_descendant_ids one query per *)
(* level.  Several users edit the tree at once; nothing is locked between   *)
(* the queries and the save.                                                *)
(***************************************************************************)
EXTENDS FiniteSets, Naturals

CONSTANTS
    Categories,   \* names of categories
    Editors,      \* requests that edit a category
    Top,          \* parent of a top-level category (NULL)
    Absent,       \* parent of a category that does not exist
    Closed        \* an editor without a form

CategoryAssumptions ==
    /\ IsFiniteSet(Categories)
    /\ Top \notin Categories /\ Absent \notin Categories /\ Top # Absent

VARIABLES
    parent,     \* Category.parent
    onPos,      \* Category.show_on_pos
    form,       \* the CategoryForm each editor's request is building
    crossed     \* history: a form was saved that another save had outdated

vars == <<parent, onPos, form, crossed>>

Existing == {c \in Categories : parent[c] # Absent}
Children(S) == {c \in Existing : parent[c] \in S}

\* CategoryListView and the category pickers show the tree from its top-level
\* categories down, one level of children after the other.
Shown ==
    LET level[n \in Nat] == IF n = 0 THEN Children({Top}) ELSE Children(level[n - 1])
    IN  UNION {level[n] : n \in 0..Cardinality(Categories)}

\* Fault: only the category itself is kept out of the choices.
ExcludedSelf(f) == {f.category}
\* excluded_ids: the category and the descendants found.
Excluded(f) == {f.category} \cup f.found

Forms == [category : Categories, found : SUBSET Categories,
          frontier : SUBSET Categories, fresh : BOOLEAN]

TypeOK ==
    /\ parent \in [Categories -> Categories \cup {Top, Absent}]
    /\ onPos \in [Categories -> BOOLEAN]
    /\ form \in [Editors -> Forms \cup {Closed}]
    /\ crossed \in BOOLEAN

Init ==
    /\ parent = [c \in Categories |-> Absent]
    /\ onPos = [c \in Categories |-> FALSE]
    /\ form = [e \in Editors |-> Closed]
    /\ crossed = FALSE

-----------------------------------------------------------------------------
\* A write of the tree outdates the forms that others are building.
Outdated(keep) ==
    [e \in Editors |-> IF e \in keep THEN Closed
                       ELSE IF form[e] = Closed THEN Closed
                       ELSE [form[e] EXCEPT !.fresh = FALSE]]

\* CategoryCreateView: nothing to exclude for a category that has no pk.  A name
\* may be used again once its category is deleted, under a new pk.
Create(c, p, shown) ==
    /\ c \notin Existing
    /\ p \in Existing \cup {Top}
    /\ \A e \in Editors : form[e] # Closed => form[e].category # c
    /\ parent' = [parent EXCEPT ![c] = p]
    /\ onPos' = [onPos EXCEPT ![c] = shown]
    /\ form' = Outdated({})
    /\ UNCHANGED crossed

\* CategoryUpdateView, POST: the category is loaded, CategoryForm.__init__
\* starts from it ...
Open(e, c) ==
    /\ form[e] = Closed
    /\ c \in Existing
    /\ form' = [form EXCEPT ![e] = [category |-> c, found |-> {}, frontier |-> {c},
                                    fresh |-> TRUE]]
    /\ UNCHANGED <<parent, onPos, crossed>>

\* ... get_descendant_ids: one query for the children of the last level ...
Wave(e) ==
    /\ form[e] # Closed
    /\ form[e].frontier # {}
    /\ form' = [form EXCEPT ![e].frontier = Children(@),
                            ![e].found = @ \cup Children(form[e].frontier)]
    /\ UNCHANGED <<parent, onPos, crossed>>

\* ... until a level has none; then a parent among the choices is accepted and
\* every column saved.  A category deleted meanwhile is inserted again.
Save(e, p, shown) ==
    LET c == form[e].category IN
    /\ form[e] # Closed
    /\ form[e].frontier = {}
    /\ p \in (Existing \ Excluded(form[e])) \cup {Top}
    /\ parent' = [parent EXCEPT ![c] = p]
    /\ onPos' = [onPos EXCEPT ![c] = shown]
    /\ crossed' = (crossed \/ ~ form[e].fresh)
    /\ form' = Outdated({e})

\* "Not a valid choice", a name taken, a foreign key broken at COMMIT.
Refuse(e) ==
    /\ form[e] # Closed
    /\ form[e].frontier = {}
    /\ form' = [form EXCEPT ![e] = Closed]
    /\ UNCHANGED <<parent, onPos, crossed>>

\* CategoryTogglePosView: update_fields=['show_on_pos'].
TogglePos(c, shown) ==
    /\ c \in Existing
    /\ onPos' = [onPos EXCEPT ![c] = shown]
    /\ UNCHANGED <<parent, form, crossed>>

\* CategoryDeleteView, and each turn of CategoryBulkDeleteView's loop: the
\* subcategories become top-level ones (SET_NULL).
Delete(c) ==
    /\ c \in Existing
    /\ parent' = [d \in Categories |->
                    IF d = c THEN Absent ELSE IF parent[d] = c THEN Top ELSE parent[d]]
    /\ onPos' = [onPos EXCEPT ![c] = FALSE]
    /\ form' = Outdated({})
    /\ UNCHANGED crossed

Next ==
    \/ \E c \in Categories :
         \/ Delete(c)
         \/ \E shown \in BOOLEAN :
              TogglePos(c, shown) \/ \E p \in Categories \cup {Top} : Create(c, p, shown)
    \/ \E e \in Editors :
         \/ \E c \in Categories : Open(e, c)
         \/ Wave(e) \/ Refuse(e)
         \/ \E p \in Categories \cup {Top}, shown \in BOOLEAN : Save(e, p, shown)

Spec == Init /\ [][Next]_vars

-----------------------------------------------------------------------------
\* Excluding self and descendants "is enough on its own to block a cycle":
\* every category stays within reach of the top of the tree (those on a cycle
\* vanish from the list, and get_descendant_ids never ends for them), unless a
\* form was saved whose descendants were collected from an older tree.
TreeStaysWhole == ~ crossed => Shown = Existing

-----------------------------------------------------------------------------
(* The invariant that makes it so: inductive, for any categories and editors *)

\* No category has a parent that is gone.
ParentsExist == \A c \in Existing : parent[c] \in Existing \cup {Top}

\* No categories are each other's ancestors: of any, one has its parent outside.
NoCycle == ~ crossed => \A S \in SUBSET Existing : S # {} => \E c \in S : parent[c] \notin S

\* What a form has found of a tree that is still the same: the children of all
\* categories seen, but for those whose children are to be asked for next.
FormsFollow ==
    \A e \in Editors :
        form[e] # Closed /\ form[e].fresh =>
            LET seen == {form[e].category} \cup form[e].found
            IN  /\ form[e].category \in Existing
                /\ form[e].frontier \subseteq seen
                /\ Children(seen \ form[e].frontier) \subseteq form[e].found

IInv == TypeOK /\ ParentsExist /\ NoCycle /\ FormsFollow
=============================================================================
