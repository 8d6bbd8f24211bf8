------------------------------- MODULE Builder -------------------------------
(***************************************************************************)
(* The app builder (components/works/AppBuilder.tsx) with its panel of field   *)
(* properties (FieldProperties.tsx).  A new app is created by one call; an      *)
(* existing one is changed by a sequence of calls, one field at a time, each    *)
(* of which the server may refuse.  The page keeps the fields it started from   *)
(* (originalFieldsRef) to tell new fields from old ones.                       *)
(***************************************************************************)
EXTENDS Screen, FiniteSets

CONSTANTS
    AppSlugs,   \* English ids of apps, proposed or typed
    FieldSlugs, \* those of fields
    Labels,     \* names of apps and fields
    MaxFields,
    MaxRefusals \* calls the server refuses or whose answer is lost

ASSUME BuilderAssumption ==
    /\ MaxFields \in Nat /\ MaxRefusals \in Nat
    /\ AppSlugs # {} /\ Labels # {} /\ \E s, t \in FieldSlugs : s # t
    /\ "" \notin AppSlugs \cup FieldSlugs \cup Labels

VARIABLES
    isEditMode,
    appName,        \* label
    appSlug, slugManual,
    slugAsked,      \* the request for an app's slug, as the page was when it was made
    fields,         \* drafts, in the order of the preview
    selectedId,
    propertyAsked,  \* the request for a field's slug, likewise
    originalFields, \* originalFieldsRef
    existing,       \* existingCollection: what the cache says of the app's fields
    existingName,   \* and of its label
    dbFields,       \* the fields in the database; empty before the app exists
    dbName,         \* its label there
    saving,         \* calls that are left, the first one on its way
    clicked,        \* the drafts when save was clicked
    clickedName,    \* the label then, and the one the cache held (observation only)
    found,          \* the fields in the database at that moment
    leaving,        \* the page after a save: here, blocked by the warning, or left
    refusals

builderName == <<appName, appSlug, slugManual, slugAsked>>
builderFields == <<fields, selectedId, propertyAsked>>
builderStored == <<dbFields, dbName>>
builderCached == <<originalFields, existing, existingName>>
builderClick == <<clicked, clickedName, found>>
builderSave == <<builderCached, builderStored, saving, builderClick, leaving, refusals>>
builderVars == <<isEditMode, builderName, builderFields, builderSave>>

NoField == 0
Draft == [id : Nat, slug : FieldSlugs \cup {""}, label : Labels]
NoNameAsk == [sent |-> FALSE, manual |-> FALSE]
NoFieldAsk == [sent |-> FALSE, field |-> [id |-> NoField, slug |-> "", label |-> ""], fields |-> <<>>]
FieldAsk == [sent : {TRUE}, field : Draft, fields : Seq(Draft)]
ServerCall == [op : {"create", "rename", "delete", "add", "update"}, draft : Draft]
NewLabel == CHOOSE l \in Labels : TRUE
TwoSlugs == CHOOSE slugs \in FieldSlugs \X FieldSlugs : slugs[1] # slugs[2]

BuilderTypeOK ==
    /\ isEditMode \in BOOLEAN /\ slugManual \in BOOLEAN
    /\ appName \in Labels \cup {""} /\ appSlug \in AppSlugs \cup {""}
    /\ fields \in Seq(Draft) /\ originalFields \in Seq(Draft) /\ existing \in Seq(Draft)
    /\ dbFields \in Seq(Draft) /\ clicked \in Seq(Draft) /\ found \in Seq(Draft)
    /\ {existingName, dbName} \subseteq Labels \cup {""}
    /\ clickedName \in [said : Labels \cup {""}, known : Labels \cup {""}]
    /\ selectedId \in Nat /\ refusals \in 0..MaxRefusals
    /\ slugAsked \in [sent : BOOLEAN, manual : BOOLEAN] /\ propertyAsked \in FieldAsk \cup {NoFieldAsk}
    /\ saving \in Seq(ServerCall)
    /\ leaving \in {"here", "blocked", "left"}

IdsOf(drafts) == {d.id : d \in ToSet(drafts)}
SlugsOf(drafts) == {d.slug : d \in ToSet(drafts)}

\* Draft ids (`field_1`, `ai_2`) count up; those of stored fields are the database's.
FreshId(k) == 10 * (1 + acts) + k

BuilderInit ==
    /\ isEditMode \in BOOLEAN
    /\ dbFields = IF isEditMode
               THEN <<[id |-> 1, slug |-> TwoSlugs[1], label |-> NewLabel],
                      [id |-> 2, slug |-> TwoSlugs[2], label |-> NewLabel]>>
               ELSE <<>>
    /\ fields = dbFields /\ originalFields = dbFields /\ existing = dbFields
    /\ appName = (IF isEditMode THEN NewLabel ELSE "") /\ slugManual = isEditMode
    /\ existingName = appName /\ dbName = appName /\ clickedName = [said |-> "", known |-> ""]
    /\ appSlug = (IF isEditMode THEN CHOOSE s \in AppSlugs : TRUE ELSE "")
    /\ slugAsked = NoNameAsk /\ propertyAsked = NoFieldAsk
    /\ selectedId = NoField /\ saving = <<>> /\ clicked = <<>> /\ found = <<>>
    /\ leaving = "here" /\ refusals = 0

BuilderAct == leaving = "here" /\ Act("builder")

-----------------------------------------------------------------------------
(* The name of the app *)

\* Each request replaces the one before; it remembers the page of the moment.  The id
\* of an app that exists counts as typed.
handleLabelChange ==
    /\ BuilderAct
    /\ \E l \in (Labels \cup {""}) \ {appName} :
        /\ appName' = l
        /\ IF slugManual THEN UNCHANGED <<appSlug, slugAsked>>
           ELSE IF l = "" THEN appSlug' = "" /\ UNCHANGED slugAsked
           ELSE slugAsked' = [sent |-> TRUE, manual |-> slugManual] /\ UNCHANGED appSlug
    /\ UNCHANGED <<isEditMode, slugManual, builderFields, builderSave>>

handleSlugChange ==
    /\ BuilderAct /\ ~isEditMode
    /\ \E s \in (AppSlugs \cup {""}) \ {appSlug} :
        /\ appSlug' = s
        /\ slugManual' = (s # "")
    /\ UNCHANGED <<isEditMode, appName, slugAsked, builderFields, builderSave>>

\* The answer looks at the page as it was when the question was asked.
requestSlug ==
    /\ slugAsked.sent /\ leaving # "left"
    /\ slugAsked' = NoNameAsk
    /\ \E s \in AppSlugs : appSlug' = IF slugAsked.manual THEN appSlug ELSE s
    /\ UNCHANGED <<acts, isEditMode, appName, slugManual, builderFields, builderSave>>

-----------------------------------------------------------------------------
(* Fields *)

handleAddField ==
    /\ BuilderAct /\ Len(fields) < MaxFields
    /\ \E at \in 1..Len(fields) + 1 :
        fields' = InsertAt(fields, at, [id |-> FreshId(0), slug |-> "", label |-> NewLabel])
    /\ selectedId' = FreshId(0)
    /\ UNCHANGED <<isEditMode, builderName, propertyAsked, builderSave>>

\* An answer of the assistant replaces the form.  Its slugs are its own business.
applyAIFields ==
    /\ BuilderAct /\ ~isEditMode
    /\ \E s \in AppSlugs, l \in Labels, f, g \in FieldSlugs :
        /\ appSlug' = s /\ appName' = l /\ slugManual' = FALSE
        /\ fields' = <<[id |-> FreshId(1), slug |-> f, label |-> l], [id |-> FreshId(2), slug |-> g, label |-> l]>>
    /\ selectedId' = NoField /\ propertyAsked' = NoFieldAsk
    /\ UNCHANGED <<isEditMode, slugAsked, builderSave>>

\* A panel that is closed forgets its request.
handleSelect ==
    /\ BuilderAct
    /\ \E id \in IdsOf(fields) \ {selectedId} : selectedId' = id
    /\ UNCHANGED <<isEditMode, builderName, fields, propertyAsked, builderSave>>

handleRemoveField ==
    /\ BuilderAct
    /\ \E id \in IdsOf(fields) :
        /\ fields' = Filter(fields, LAMBDA d : d.id # id)
        /\ IF selectedId = id THEN selectedId' = NoField /\ propertyAsked' = NoFieldAsk
           ELSE UNCHANGED <<selectedId, propertyAsked>>
    /\ UNCHANGED <<isEditMode, builderName, builderSave>>

onReorder ==
    /\ BuilderAct
    /\ \E i, j \in DOMAIN fields :
        i # j /\ fields' = InsertAt(RemoveAt(fields, i), j, fields[i])
    /\ UNCHANGED <<isEditMode, builderName, selectedId, propertyAsked, builderSave>>

handleFieldChange(drafts, updated) ==
    fields' = [i \in DOMAIN drafts |-> IF drafts[i].id = updated.id THEN updated ELSE drafts[i]]

\* The panel is there while the selected field is; a closed panel forgets its request.
PanelOpen == selectedId \in IdsOf(fields)
SelectedDraft == fields[CHOOSE i \in DOMAIN fields : fields[i].id = selectedId]

\* A label asks for a slug if there is none yet, with the fields of the moment.
updateLabel ==
    /\ BuilderAct /\ PanelOpen
    /\ \E l \in Labels \ {SelectedDraft.label} :
        LET updated == [SelectedDraft EXCEPT !.label = l] IN
        /\ handleFieldChange(fields, updated)
        /\ propertyAsked' = IF updated.slug = "" THEN [sent |-> TRUE, field |-> updated, fields |-> fields]
                            ELSE propertyAsked
    /\ UNCHANGED <<isEditMode, builderName, selectedId, builderSave>>

updateSlug ==
    /\ BuilderAct /\ PanelOpen
    /\ \E s \in FieldSlugs \cup {""} : handleFieldChange(fields, [SelectedDraft EXCEPT !.slug = s])
    /\ UNCHANGED <<isEditMode, builderName, selectedId, propertyAsked, builderSave>>

\* A slug that is taken gets a suffix.  onChange puts the remembered fields back.
requestAutoSlug ==
    /\ propertyAsked.sent /\ leaving # "left" /\ PanelOpen
    /\ propertyAsked' = NoFieldAsk
    /\ LET asked == propertyAsked
           taken == SlugsOf(Filter(asked.fields, LAMBDA d : d.id # asked.field.id))
       IN \E s \in FieldSlugs \ taken :
              handleFieldChange(asked.fields, [asked.field EXCEPT !.slug = s])
    /\ UNCHANGED <<acts, isEditMode, builderName, selectedId, builderSave>>

-----------------------------------------------------------------------------
(* Saving *)

Call(op, draft) == [op |-> op, draft |-> draft]
BuilderComplete == appName # "" /\ appSlug # "" /\ "" \notin SlugsOf(fields)

Original(id) == originalFields[CHOOSE i \in DOMAIN originalFields : originalFields[i].id = id]

\* hasFieldChanged does not look at the slug.
Originals == IdsOf(originalFields)
Deletions == Filter(originalFields, LAMBDA d : d.id \notin IdsOf(fields))
Additions == Filter(fields, LAMBDA d : d.id \notin Originals)
Updates == Filter(fields, LAMBDA d : d.id \in Originals /\ d.label # Original(d.id).label)
SaveCalls(op, drafts) == [i \in DOMAIN drafts |-> Call(op, drafts[i])]
NameCall(op) == Call(op, [id |-> NoField, slug |-> "", label |-> appName])
Renaming == IF appName # existingName THEN <<NameCall("rename")>> ELSE <<>>
editCalls ==
    Renaming \o SaveCalls("delete", Deletions) \o SaveCalls("add", Additions) \o SaveCalls("update", Updates)

isDirty ==
    IF isEditMode THEN fields # existing \/ appName # existingName
    ELSE appName # "" \/ appSlug # "" \/ fields # <<>>

\* The page navigates when nothing is left to do; useBlocker stops it while isDirty.
LeaveBuilder == leaving' = IF isDirty THEN "blocked" ELSE "left"

ClickSave ==
    clicked' = fields /\ found' = dbFields /\ clickedName' = [said |-> appName, known |-> existingName]

saveApp ==
    /\ BuilderAct /\ ~isEditMode /\ saving = <<>> /\ BuilderComplete
    /\ ClickSave /\ saving' = <<NameCall("create")>>
    /\ UNCHANGED <<isEditMode, builderName, builderFields, builderCached, builderStored, leaving, refusals>>

handleEditSave ==
    /\ BuilderAct /\ isEditMode /\ saving = <<>> /\ BuilderComplete
    /\ ClickSave /\ saving' = editCalls
    /\ IF editCalls = <<>> THEN LeaveBuilder ELSE UNCHANGED leaving
    /\ UNCHANGED <<isEditMode, builderName, builderFields, builderCached, builderStored, refusals>>

\* What the server does with a call, and whether it can.
Possible(c) ==
    CASE c.op = "create" -> dbFields = <<>> /\ \A i, j \in DOMAIN clicked : clicked[i].slug = clicked[j].slug => i = j
      [] c.op = "rename" -> TRUE
      [] c.op = "add" -> c.draft.slug \notin SlugsOf(dbFields)
      [] OTHER -> c.draft.id \in IdsOf(dbFields)
Applied(c) ==
    CASE c.op = "create" -> [i \in DOMAIN clicked |-> [clicked[i] EXCEPT !.id = 100 + i]]
      [] c.op = "rename" -> dbFields
      [] c.op = "delete" -> Filter(dbFields, LAMBDA d : d.id # c.draft.id)
      [] c.op = "add" -> Append(dbFields, [c.draft EXCEPT !.id = 100 + @])
      [] OTHER -> [i \in DOMAIN dbFields |-> IF dbFields[i].id = c.draft.id
                                          THEN [dbFields[i] EXCEPT !.label = c.draft.label] ELSE dbFields[i]]
LabelAfter(c) == IF c.op \in {"create", "rename"} THEN c.draft.label ELSE dbName
ServerApplies(c) == Possible(c) /\ dbFields' = Applied(c) /\ dbName' = LabelAfter(c)

CallSucceeds ==
    /\ saving # <<>> /\ ServerApplies(Head(saving))
    /\ saving' = Tail(saving)
    /\ IF Tail(saving) = <<>> THEN LeaveBuilder ELSE UNCHANGED leaving
    /\ UNCHANGED <<acts, isEditMode, builderName, builderFields, builderCached, builderClick, refusals>>

\* Mutant: a call that fails does not stop the ones after it.
CallSkipped ==
    /\ saving # <<>> /\ refusals < MaxRefusals /\ refusals' = refusals + 1
    /\ saving' = Tail(saving)
    /\ IF Tail(saving) = <<>> THEN LeaveBuilder ELSE UNCHANGED leaving
    /\ UNCHANGED <<acts, isEditMode, builderName, builderFields, builderCached, builderStored, builderClick>>

\* An error ends the save; what was done stays done.
CallFails ==
    /\ saving # <<>> /\ saving' = <<>>
    /\ \/ ~Possible(Head(saving)) /\ UNCHANGED <<builderStored, refusals>>
       \/ /\ refusals < MaxRefusals /\ refusals' = refusals + 1
          /\ UNCHANGED builderStored \/ ServerApplies(Head(saving))
    /\ UNCHANGED <<acts, isEditMode, builderName, builderFields, builderCached, builderClick, leaving>>

\* The invalidated collection is fetched again; only the warning and the first call of
\* a save look at it.
RefetchCollection ==
    /\ isEditMode /\ leaving = "here" /\ <<existing, existingName>> # <<dbFields, dbName>>
    /\ existing' = dbFields /\ existingName' = dbName
    /\ UNCHANGED <<acts, isEditMode, builderName, builderFields, originalFields, builderStored, saving,
                   builderClick, leaving, refusals>>

\* The warning: stay or go.
AnswerWarning ==
    /\ leaving = "blocked" /\ Act("builder")
    /\ leaving' \in {"here", "left"}
    /\ UNCHANGED <<isEditMode, builderName, builderFields, builderCached, builderStored, saving,
                   builderClick, refusals>>

BuilderNext ==
    \/ handleLabelChange \/ handleSlugChange \/ requestSlug
    \/ applyAIFields \/ handleAddField \/ handleSelect \/ handleRemoveField \/ onReorder
    \/ updateLabel \/ updateSlug \/ requestAutoSlug
    \/ saveApp \/ handleEditSave \/ CallSucceeds \/ CallFails \/ RefetchCollection \/ AnswerWarning

-----------------------------------------------------------------------------
\* Fields the page has added are known by slug and label, those it started from by id.
Added(drafts) == {<<d.slug, d.label>> : d \in {e \in ToSet(drafts) : e.id \notin Originals}}
Kept(drafts) == {<<d.id, d.label>> : d \in {e \in ToSet(drafts) : e.id \in Originals}}

\* "The app was saved": its new label and every field that was added are in the
\* database, and of the fields the page started from every one that was removed is gone,
\* whatever was refused before.  A save that finds the fields the page started from
\* leaves those of the form, no more and no fewer, under their labels.  Not covered:
\* what a save that failed in the middle has added and the user then removes, which
\* stays in the database; a label that the page took for the stored one when save was
\* clicked, which is not sent; the order of the fields; the slugs of old ones, which an edit never sends.
SavedMeansStored ==
    leaving # "here" =>
        /\ clickedName.said # clickedName.known => dbName = clickedName.said
        /\ Added(clicked) \subseteq Added(dbFields)
        /\ IdsOf(dbFields) \cap Originals \subseteq IdsOf(clicked)
        /\ found = originalFields => Added(dbFields) = Added(clicked) /\ Kept(dbFields) = Kept(clicked)

\* A slug the page chose for a field is not that of another field of the form.
ProposedSlugsDistinct ==
    [][fields' # fields /\ requestAutoSlug =>
        \A i, j \in DOMAIN fields' :
            i # j /\ fields'[i].id = propertyAsked.field.id =>
                fields'[i].slug # fields'[j].slug]_builderVars
=============================================================================
