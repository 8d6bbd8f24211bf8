----------------------------- MODULE FormLayout -----------------------------
(***************************************************************************)
(* The preview of a form in the app builder (components/works/FormPreview.tsx) *)
(* with the palette beside it (FieldPalette.tsx): fields lie in rows of a grid, *)
(* are resized with the mouse, dragged before one another, added and removed.   *)
(* A slug the assistant proposes can arrive in the middle of a gesture, and      *)
(* brings back the fields as they were when it was asked for.                  *)
(***************************************************************************)
EXTENDS Screen, FiniteSetsExt

CONSTANTS
    GridCols, \* GRID_COLS
    NewWidth, \* of a field from the palette
    MaxDrafts,
    Layouts   \* the forms a visit may start with: sequences of widths, 0 for a layout field

ASSUME FormLayoutAssumption ==
    /\ GridCols \in Nat \ {0} /\ NewWidth \in 1..GridCols /\ MaxDrafts \in Nat
    /\ \A form \in Layouts : form \in Seq(0..GridCols) /\ Len(form) < 10

VARIABLES
    drafts,       \* the fields: id, width, slug yes or no, layout field or not
    resizing,     \* the field whose edge is dragged, as it was, and the width shown
    dropping,     \* removeTargetId
    slugRequests \* requests for the slug of a field, with the fields the page had then

layoutVars == <<drafts, resizing, dropping, slugRequests>>

NoDraft == [id |-> 0, width |-> 1, slug |-> FALSE, layout |-> FALSE]
NotResizing == [of |-> NoDraft, preview |-> 1]
LayoutDraft == [id : Nat, width : 1..GridCols, slug : BOOLEAN, layout : BOOLEAN]
Resizing == [of : LayoutDraft, preview : 1..GridCols]
SlugRequest == [id : Nat, fields : Seq(LayoutDraft)]

LayoutTypeOK ==
    /\ drafts \in Seq(LayoutDraft)
    /\ resizing \in Resizing
    /\ dropping \in Nat
    /\ slugRequests \subseteq SlugRequest

DraftOf(id) == drafts[CHOOSE i \in DOMAIN drafts : drafts[i].id = id]
DraftIds == {drafts[i].id : i \in DOMAIN drafts}
WidthOf(d) == IF d.layout THEN GridCols ELSE d.width

\* The widths of the fields at some places, added up.
WidthSum(list, at) ==
    LET upTo[i \in 0..Len(list)] ==
            IF i = 0 THEN 0 ELSE upTo[i - 1] + (IF i \in at THEN list[i].width ELSE 0)
    IN upTo[Len(list)]

\* The row of each field: one that does not fit begins the next one.
computeFieldRows(list) ==
    LET used[i \in 0..Len(list)] ==
            IF i = 0 THEN 0
            ELSE LET before == used[i - 1]
                     w == WidthOf(list[i])
                 IN IF before + w > GridCols /\ before > 0 THEN w ELSE before + w
        first == {i \in DOMAIN list : used[i] = WidthOf(list[i])}
    IN [i \in DOMAIN list |-> Cardinality(first \cap 1..i)]

DraftsOf(form) ==
    [i \in DOMAIN form |-> [id |-> i, width |-> IF form[i] = 0 THEN GridCols ELSE form[i],
                            slug |-> TRUE, layout |-> form[i] = 0]]

LayoutInit ==
    /\ \E form \in Layouts : drafts = DraftsOf(form)
    /\ resizing = NotResizing /\ dropping = 0 /\ slugRequests = {}

WithDraft(list, d) == [i \in DOMAIN list |-> IF list[i].id = d.id THEN d ELSE list[i]]
UpdateDraft(d) == drafts' = WithDraft(drafts, d)
NoGesture == resizing = NotResizing /\ dropping = 0

-----------------------------------------------------------------------------
(* Resizing *)

handleResizeStart ==
    /\ NoGesture /\ Act("layout")
    /\ \E i \in DOMAIN drafts :
        ~drafts[i].layout /\ resizing' = [of |-> drafts[i], preview |-> drafts[i].width]
    /\ UNCHANGED <<drafts, dropping, slugRequests>>

\* The width follows the mouse between one column and the whole grid.
onMouseMove ==
    /\ resizing # NotResizing
    /\ \E delta \in -GridCols..GridCols :
        resizing' = [resizing EXCEPT !.preview = Max({1, Min({GridCols, resizing.of.width + delta})})]
    /\ UNCHANGED <<acts, drafts, dropping, slugRequests>>

\* The width goes to the field as it is now, if it still is there.
onMouseUp ==
    /\ resizing # NotResizing
    /\ IF resizing.of.id \in DraftIds
       THEN UpdateDraft([DraftOf(resizing.of.id) EXCEPT !.width = resizing.preview])
       ELSE UNCHANGED drafts
    /\ resizing' = NotResizing
    /\ UNCHANGED <<acts, dropping, slugRequests>>

-----------------------------------------------------------------------------
(* Dragging *)

\* The list without the dragged field, and the row it is dropped on.
Rest(from) == RemoveAt(drafts, from)
TargetRow(from, to) ==
    LET rest == Rest(from)
        rows == computeFieldRows(rest)
        at == IF from < to THEN to - 1 ELSE to
        neighbor == IF at > Len(rest) THEN Len(rest) ELSE at
    IN {i \in DOMAIN rest : rows[i] = rows[neighbor]}
\* Their positions in the new list, with that of the dragged field.
RowMembers(from, to) == {to} \cup {IF i >= to THEN i + 1 ELSE i : i \in TargetRow(from, to)}

\* Mutant: the last column of the remainder goes to nobody.
EvenWidthShort(k, count) == GridCols \div count + (IF k < GridCols % count THEN 1 ELSE 0)

\* The k-th of count fields that share a row.
EvenWidth(k, count) == GridCols \div count + (IF k <= GridCols % count THEN 1 ELSE 0)

Moved(from, to) == InsertAt(Rest(from), to, drafts[from])
Crowded(from, to) ==
    LET members == RowMembers(from, to)
        list == Moved(from, to)
    IN /\ \A i \in members : ~list[i].layout
       /\ Cardinality(members) <= GridCols
       /\ WidthSum(list, members) > GridCols

dropField(from, to) ==
    /\ NoGesture /\ Act("layout")
    /\ LET members == RowMembers(from, to)
           moved == Moved(from, to)
           place(i) == Cardinality(members \cap 1..i)
       IN drafts' = IF Crowded(from, to)
                    THEN [i \in DOMAIN moved |->
                            IF i \in members
                            THEN [moved[i] EXCEPT !.width = EvenWidth(place(i), Cardinality(members))]
                            ELSE moved[i]]
                    ELSE moved
    /\ UNCHANGED <<resizing, dropping, slugRequests>>

DropField == \E from, to \in DOMAIN drafts : from # to /\ dropField(from, to)

-----------------------------------------------------------------------------
(* Adding and removing *)

\* A click on the palette or a drop of one of its entries on the preview.
handlePaletteDrop ==
    /\ NoGesture /\ Act("layout") /\ Len(drafts) < MaxDrafts
    /\ \E layout \in BOOLEAN :
        drafts' = Append(drafts, [id |-> 10 * (1 + acts), width |-> NewWidth, slug |-> FALSE, layout |-> layout])
    /\ UNCHANGED <<resizing, dropping, slugRequests>>

AskRemove ==
    /\ NoGesture /\ Act("layout")
    /\ \E id \in DraftIds : dropping' = id
    /\ UNCHANGED <<drafts, resizing, slugRequests>>

AnswerRemove ==
    /\ dropping # 0 /\ dropping' = 0
    /\ \/ drafts' = Filter(drafts, LAMBDA d : d.id # dropping)
       \/ UNCHANGED drafts
    /\ UNCHANGED <<acts, resizing, slugRequests>>

-----------------------------------------------------------------------------
(* Proposed slugs *)

\* While the label of a field without a slug is typed: the answer to an earlier
\* request is still used, unless this one stopped its timer or was sent before it.
AskSlug ==
    /\ NoGesture /\ Act("layout")
    /\ \E i \in {j \in DOMAIN drafts : ~drafts[j].slug} :
        LET request == [id |-> drafts[i].id, fields |-> drafts]
        IN slugRequests' \in {{request}, slugRequests \cup {request}}
    /\ UNCHANGED <<drafts, resizing, dropping>>

\* onSuccess: the field gets its slug in the fields as they were when it was asked
\* for, which take the place of those the user has made since.
SlugArrives ==
    /\ \E request \in slugRequests :
        LET d == request.fields[CHOOSE i \in DOMAIN request.fields : request.fields[i].id = request.id] IN
        /\ slugRequests' = slugRequests \ {request}
        /\ drafts' \in {drafts, WithDraft(request.fields, [d EXCEPT !.slug = TRUE])}
    /\ UNCHANGED <<acts, resizing, dropping>>

LayoutNext ==
    \/ handleResizeStart \/ onMouseMove \/ onMouseUp \/ DropField
    \/ handlePaletteDrop \/ AskRemove \/ AnswerRemove \/ AskSlug \/ SlugArrives

-----------------------------------------------------------------------------
IdsIn(list) == {list[i].id : i \in DOMAIN list}

\* A drop keeps every field.  Fields that had to make room fill the grid's width
\* together, none of them to nothing; all other fields keep their width.
DropFillsRow ==
    [][drafts' # drafts => \A from, to \in DOMAIN drafts :
        from # to /\ dropField(from, to) =>
            LET changed == {i \in DOMAIN drafts' : drafts'[i].width # DraftOf(drafts'[i].id).width}
                members == RowMembers(from, to)
            IN /\ IdsIn(drafts') = IdsIn(drafts)
               /\ changed # {} => /\ changed \subseteq members
                                  /\ WidthSum(drafts', members) = GridCols
               /\ \A i \in members : drafts'[i].width \in 1..GridCols]_layoutVars

\* The end of a resize changes the width of one field and undoes nothing that
\* happened to it while the mouse was down.  A slug that arrives is another matter: it
\* undoes what was done since it was asked for.
ResizeKeepsField ==
    [][onMouseUp /\ resizing.of.id \in DraftIds =>
        \A i \in DOMAIN drafts : drafts'[i] = [drafts[i] EXCEPT !.width = drafts'[i].width]]_layoutVars
=============================================================================
