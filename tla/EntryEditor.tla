---------------------------- MODULE EntryEditor ----------------------------
(***************************************************************************)
(* The page of one record (frontend/src/pages/EntryPage.tsx with             *)
(* components/works/EntryForm.tsx): a form that keeps a copy of the record,   *)
(* saves itself 1.5 s after a change, and takes the version it sends from     *)
(* the cached record, which others' writes refresh under the form.           *)
(*                                                                          *)
(* Versions are not counted: a copy is fresh when it has the version of the   *)
(* server.                                                                   *)
(***************************************************************************)
EXTENDS Screen, FiniteSets

CONSTANTS
    Inputs,      \* the fields of the form
    Required,    \* those that must have a value
    Numbers,     \* those whose empty input is sent as null, the others send ""
    Relations,   \* those the server sends as an expanded record
    FileInput,   \* the one that uploads a file
    StatusInput, \* _status: set by the buttons above the form
    Transitions, \* pairs of statuses the process allows
    ShowsOn,     \* visibility rule: the input that must have a value first
    ValuesOf,    \* what can be entered in each
    OutOfRange,  \* values outside the range of the number inputs
    MaxOthers,   \* bound on the writes of other users
    MaxLost,     \* bound on failing calls
    MaxCalls     \* bound on requests under way

ASSUME EditorAssumption ==
    /\ Required \cup Numbers \cup Relations \cup {FileInput, StatusInput} \subseteq Inputs
    /\ (Numbers \cup Relations) \cap {FileInput, StatusInput} = {}
    /\ ShowsOn \in [Inputs -> Inputs]
    /\ DOMAIN ValuesOf = Inputs /\ \A f \in Inputs : "" \notin ValuesOf[f]
    /\ Transitions \subseteq ValuesOf[StatusInput] \X ValuesOf[StatusInput]
    /\ {MaxOthers, MaxLost, MaxCalls} \subseteq Nat

VARIABLES
    isNew,       \* no entryId in the path
    computed,    \* the collection has computed fields
    row,         \* the record of the server
    entry,       \* entryData: the cached record, and whether its version is current
    data,        \* the values of the form
    raw,         \* relations whose value is still the expanded record
    initialData, \* initialRef: the values the form was opened with
    stamped,     \* data._version is not the version the form was opened with
    errors,      \* inputs marked as wrong
    upload,      \* the upload under way: what its callback knows of the errors
    calls,       \* requests under way
    toastRetry,  \* the request of the last error toast
    prefilling,  \* prefill.isPending
    leftPage,    \* the user went back to the list
    created,     \* records this page made
    again,       \* requests repeated by a toast or after a lost answer (observation only)
    others, lost \* what others and the network did so far

editVars == <<isNew, computed, row, entry, data, raw, initialData, stamped, errors,
              upload, calls, toastRetry, prefilling, leftPage, created, again, others, lost>>
outsideVars == <<computed, others, lost>>
callVars == <<calls, toastRetry, created, again>>

Record == {r \in [Inputs -> (UNION {ValuesOf[f] : f \in Inputs}) \cup {""}] :
              \A f \in Inputs : r[f] \in ValuesOf[f] \cup {""}}
Blank == [f \in Inputs |-> ""]
\* A request of the form; submitting follows the latest one.
FormRequest == [create : BOOLEAN, data : Record, raw : SUBSET Relations, fresh : BOOLEAN, latest : BOOLEAN]
NoRetry == [create |-> FALSE, data |-> Blank, raw |-> {}, fresh |-> FALSE, latest |-> FALSE]
NoUpload == "none"

EditorTypeOK ==
    /\ {isNew, computed, stamped, prefilling, leftPage} \subseteq BOOLEAN
    /\ {row, data, initialData} \subseteq Record
    /\ entry \in [values : Record, fresh : BOOLEAN, moved : BOOLEAN]
    /\ raw \subseteq Relations /\ errors \subseteq Inputs
    /\ upload \in {NoUpload, "saw error", "saw none"}
    /\ calls \in Seq(FormRequest) /\ toastRetry \in FormRequest
    /\ created \in Nat /\ again \in Nat /\ others \in 0..MaxOthers /\ lost \in 0..MaxLost

Expanded(values) == {f \in Relations : values[f] # ""}

\* EntryForm is mounted with its initial data.
MountedWith(values) ==
    /\ data' = values /\ initialData' = values
    /\ raw' = Expanded(values)
    /\ stamped' = FALSE /\ errors' = {} /\ upload' = NoUpload

\* Records as the server holds them.
Filled == {r \in Record : /\ \A f \in Required \cup {StatusInput} : r[f] # ""
                          /\ \A f \in Numbers : r[f] \notin OutOfRange}

EditorInit ==
    /\ isNew \in BOOLEAN /\ computed \in BOOLEAN
    /\ row \in Filled
    /\ entry = [values |-> row, fresh |-> TRUE, moved |-> FALSE]
    /\ data = IF isNew THEN Blank ELSE row
    /\ initialData = data /\ raw = Expanded(data)
    /\ stamped = FALSE /\ errors = {} /\ upload = NoUpload
    /\ calls = <<>> /\ toastRetry = NoRetry /\ prefilling = FALSE /\ leftPage = FALSE
    /\ created = 0 /\ again = 0 /\ others = 0 /\ lost = 0

-----------------------------------------------------------------------------
(* The form *)

Empty(f) == data[f] = ""

\* The rule is evaluated against the values of the form.
VisibleInput(f) == ShowsOn[f] = f \/ ~Empty(ShowsOn[f])

changed == stamped \/ data # initialData \/ raw # Expanded(initialData)

\* setValue looks at the errors of the render its caller belongs to.
setValue(f, v, sawError) ==
    /\ data' = [data EXCEPT ![f] = v]
    /\ raw' = raw \ {f}
    /\ errors' = IF sawError THEN errors \ {f} ELSE errors

\* FieldInput: typing into an input, and picking a related record.
TypedInputs == Inputs \ (Relations \cup {FileInput, StatusInput})

Edit ==
    /\ Act("entry") /\ ~leftPage
    /\ \E f \in TypedInputs : \E v \in ValuesOf[f] \cup {""} :
        VisibleInput(f) /\ setValue(f, v, f \in errors)
    /\ UNCHANGED <<isNew, row, entry, initialData, stamped, upload, prefilling, leftPage, callVars,
                   outsideVars>>

PickRecord ==
    /\ Act("entry") /\ ~leftPage
    /\ \E f \in Relations : \E v \in ValuesOf[f] \cup {""} :
        VisibleInput(f) /\ setValue(f, v, f \in errors)
    /\ UNCHANGED <<isNew, row, entry, initialData, stamped, upload, prefilling, leftPage, callVars,
                   outsideVars>>

\* The buttons follow the status of the cached record, not the one of the form.
TakeTransition ==
    /\ Act("entry") /\ ~leftPage /\ ~isNew
    /\ \E t \in Transitions :
        /\ t[1] = entry.values[StatusInput]
        /\ setValue(StatusInput, t[2], FALSE)
    /\ UNCHANGED <<isNew, row, entry, initialData, stamped, upload, prefilling, leftPage, callVars,
                   outsideVars>>

handleBlur ==
    /\ Act("entry") /\ ~leftPage
    /\ \E f \in TypedInputs :
        /\ VisibleInput(f)
        /\ errors' = IF (f \in Required /\ Empty(f)) \/ (f \in Numbers /\ data[f] \in OutOfRange)
                     THEN errors \cup {f} ELSE errors
    /\ UNCHANGED <<isNew, row, entry, data, raw, initialData, stamped, upload, prefilling, leftPage,
                   callVars, outsideVars>>

\* The upload keeps the onChange of the render it was started in.
handleFile ==
    /\ Act("entry") /\ ~leftPage
    /\ VisibleInput(FileInput) /\ upload = NoUpload
    /\ upload' = IF FileInput \in errors THEN "saw error" ELSE "saw none"
    /\ UNCHANGED <<isNew, row, entry, data, raw, initialData, stamped, errors, prefilling, leftPage,
                   callVars, outsideVars>>

FinishUpload ==
    /\ upload # NoUpload /\ ~leftPage
    /\ upload' = NoUpload
    /\ \/ \E v \in ValuesOf[FileInput] : setValue(FileInput, v, upload = "saw error")
       \/ UNCHANGED <<data, raw, errors>>
    /\ UNCHANGED <<acts, isNew, row, entry, initialData, stamped, prefilling, leftPage, callVars,
                   outsideVars>>

-----------------------------------------------------------------------------
(* Saving *)

mutate(r) ==
    /\ Len(calls) < MaxCalls
    /\ calls' = Append([n \in DOMAIN calls |-> [calls[n] EXCEPT !.latest = FALSE]],
                        [create |-> r.create, data |-> r.data, raw |-> r.raw, fresh |-> r.fresh, latest |-> TRUE])

\* EntryPage.handleSubmit puts the cached version into the form's own data.
SendForm ==
    /\ mutate([create |-> isNew, data |-> data, raw |-> raw, fresh |-> entry.fresh])
    /\ stamped' = (~isNew /\ entry.moved)

\* Mutant: the button is not disabled while a request is under way.
neverSubmitting == FALSE

submitting == \E n \in DOMAIN calls : calls[n].latest

\* The button and the Enter key, as often as the user likes.
handleSubmit ==
    /\ ~leftPage /\ ~submitting
    /\ errors' = IF \E f \in Required : Empty(f) THEN {f \in Required : Empty(f)} ELSE errors
    /\ IF \E f \in Required : Empty(f) THEN UNCHANGED <<calls, stamped>> ELSE SendForm
    /\ UNCHANGED <<acts, isNew, row, entry, data, raw, initialData, upload, toastRetry, prefilling,
                   leftPage, created, again, outsideVars>>

\* The autosave timer: every render of the page starts it again, and saving
\* renders the page, so it runs as long as the data differs from initialRef.
Autosave ==
    /\ ~isNew /\ ~leftPage /\ changed
    /\ SendForm
    /\ UNCHANGED <<acts, isNew, row, entry, data, raw, initialData, errors, upload,
                   toastRetry, prefilling, leftPage, created, again, outsideVars>>

\* The server checks the payload, then the transition, then the version.  A new
\* record gets the initial status.
Valid(r) ==
    /\ ~computed /\ r.raw = {}
    /\ \A f \in Required \cap Numbers : r.data[f] # ""
    /\ \A f \in Numbers : r.data[f] \notin OutOfRange

Permitted(r) == r.create \/ r.data[StatusInput] = row[StatusInput]
                         \/ <<row[StatusInput], r.data[StatusInput]>> \in Transitions

Accepts(r) == Valid(r) /\ Permitted(r) /\ (r.create \/ r.fresh)

Stale(requests) == [n \in DOMAIN requests |-> [requests[n] EXCEPT !.fresh = FALSE]]

\* An accepted update replaces the cached record, an accepted create leaves the page.
Accepted ==
    \E n \in DOMAIN calls : LET r == calls[n] IN
        /\ Accepts(r)
        /\ IF r.create
           THEN /\ created' = created + 1 /\ leftPage' = TRUE
                /\ calls' = RemoveAt(calls, n)
                /\ UNCHANGED <<row, entry, toastRetry>>
           ELSE /\ row' = r.data
                /\ entry' = [values |-> row', fresh |-> TRUE, moved |-> TRUE]
                /\ calls' = Stale(RemoveAt(calls, n))
                /\ toastRetry' = [toastRetry EXCEPT !.fresh = FALSE]
                /\ UNCHANGED <<created, leftPage>>
        /\ UNCHANGED <<acts, isNew, data, raw, initialData, stamped, errors, upload, prefilling,
                       again, outsideVars>>

\* useConflictAwareUpdate: a conflict reads the record again, any other error
\* offers to repeat the request with the version it had.
Refused ==
    \E n \in DOMAIN calls : LET r == calls[n] IN
        /\ ~Accepts(r)
        /\ calls' = RemoveAt(calls, n)
        /\ IF Valid(r) /\ Permitted(r)
           THEN entry' = [values |-> row, fresh |-> TRUE, moved |-> TRUE] /\ UNCHANGED toastRetry
           ELSE toastRetry' = r /\ UNCHANGED entry
        /\ UNCHANGED <<acts, isNew, row, data, raw, initialData, stamped, errors, upload,
                       prefilling, leftPage, created, again, outsideVars>>

\* The call fails on its way, or its answer does after the server did it.
CallLost ==
    \E n \in DOMAIN calls : LET r == calls[n] IN
        /\ lost < MaxLost
        /\ lost' = lost + 1 /\ again' = again + 1
        /\ \/ /\ calls' = RemoveAt(calls, n)
              /\ toastRetry' = r
              /\ UNCHANGED <<row, entry, created>>
           \/ /\ Accepts(r) /\ r.create
              /\ calls' = RemoveAt(calls, n)
              /\ toastRetry' = r /\ created' = created + 1
              /\ UNCHANGED <<row, entry>>
           \/ /\ Accepts(r) /\ ~r.create
              /\ calls' = Stale(RemoveAt(calls, n))
              /\ row' = r.data /\ entry' = [entry EXCEPT !.fresh = FALSE]
              /\ toastRetry' = [r EXCEPT !.fresh = FALSE]
              /\ UNCHANGED created
        /\ UNCHANGED <<acts, isNew, computed, data, raw, initialData, stamped, errors, upload,
                       prefilling, leftPage, others>>

\* The toast outlives the page.
retryToast ==
    /\ Act("entry") /\ toastRetry # NoRetry
    /\ mutate(toastRetry)
    /\ toastRetry' = NoRetry
    /\ again' = again + 1
    /\ UNCHANGED <<isNew, row, entry, data, raw, initialData, stamped, errors, upload, prefilling,
                   leftPage, created, outsideVars>>

-----------------------------------------------------------------------------
(* The rest of the page *)

OtherUser ==
    /\ others < MaxOthers
    /\ others' = others + 1
    /\ \E f \in Inputs : \E v \in ValuesOf[f] :
        /\ row[f] # v /\ (f = StatusInput => <<row[f], v>> \in Transitions)
        /\ row' = [row EXCEPT ![f] = v]
    /\ entry' = [entry EXCEPT !.fresh = FALSE]
    /\ calls' = Stale(calls)
    /\ toastRetry' = [toastRetry EXCEPT !.fresh = FALSE]
    /\ UNCHANGED <<acts, isNew, computed, data, raw, initialData, stamped, errors, upload,
                   prefilling, leftPage, created, again, lost>>

\* The stream of events, or the end of a mutation, has the record read again.
RefetchEntry ==
    /\ ~entry.fresh /\ ~isNew
    /\ entry' = [values |-> row, fresh |-> TRUE, moved |-> TRUE]
    /\ UNCHANGED <<acts, isNew, row, data, raw, initialData, stamped, errors, upload, prefilling,
                   leftPage, callVars, outsideVars>>

handleAIPrefill ==
    /\ Act("entry") /\ isNew /\ ~leftPage /\ ~prefilling
    /\ prefilling' = TRUE
    /\ UNCHANGED <<isNew, row, entry, data, raw, initialData, stamped, errors, upload, leftPage,
                   callVars, outsideVars>>

\* The answer mounts a new form: what was typed meanwhile is gone.
AnswerPrefill ==
    /\ prefilling /\ ~leftPage
    /\ prefilling' = FALSE
    /\ \/ \E f \in TypedInputs : \E v \in ValuesOf[f] : MountedWith([Blank EXCEPT ![f] = v])
       \/ UNCHANGED <<data, raw, initialData, stamped, errors, upload>>
    /\ UNCHANGED <<acts, isNew, row, entry, leftPage, callVars, outsideVars>>

\* A copy of the record opens in the same page.
handleDuplicate ==
    /\ Act("entry") /\ ~isNew /\ ~leftPage
    /\ isNew' = TRUE
    /\ MountedWith(entry.values)
    /\ UNCHANGED <<row, entry, prefilling, leftPage, callVars, outsideVars>>

\* Cancelling, going back to the list, a confirmed deletion.
goBack ==
    /\ Act("entry") /\ ~leftPage
    /\ leftPage' = TRUE
    /\ UNCHANGED <<isNew, row, entry, data, raw, initialData, stamped, errors, upload, prefilling,
                   callVars, outsideVars>>

EditorNext ==
    \/ Edit \/ PickRecord \/ TakeTransition \/ handleBlur \/ handleFile \/ FinishUpload
    \/ handleSubmit \/ Autosave \/ Accepted \/ Refused \/ CallLost \/ retryToast
    \/ OtherUser \/ RefetchEntry
    \/ handleAIPrefill \/ AnswerPrefill \/ handleDuplicate \/ goBack

-----------------------------------------------------------------------------
\* A page makes one record, however often its button is pressed; only repeating a
\* request, or one whose answer was lost, can make another.
CreatedOnce == created <= 1 + again

\* What the user typed is in the record in the end, without pressing the button
\* and through conflicts.  Not covered: values the server refuses, values put
\* back to what the form was opened with, which are not saved, and a form whose
\* status somebody else has moved on meanwhile: every save is refused for good.
EditsReachServer ==
    LET form == [create |-> FALSE, data |-> data, raw |-> raw] IN
    <>[](leftPage \/ isNew \/ data = initialData \/ row = data \/ ~Valid(form) \/ ~Permitted(form))

\* An input marked as wrong has something wrong, except a file whose upload was
\* under way when it was marked.
ErrorsAreReal ==
    \A f \in errors \ {FileInput} :
        (f \in Required /\ Empty(f)) \/ (f \in Numbers /\ data[f] \in OutOfRange)
=============================================================================
