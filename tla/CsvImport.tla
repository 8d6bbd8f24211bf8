------------------------------ MODULE CsvImport ------------------------------
(***************************************************************************)
(* Importing a CSV file: the preview that maps its columns to fields          *)
(* (components/works/CSVImportPreview.tsx), the page that sends the file       *)
(* (AppViewPage.tsx, handleCSVConfirm) and the server that reads it again       *)
(* (handler/csv.go, ImportCSV).  The preview stays mounted between two files.  *)
(***************************************************************************)
EXTENDS Screen, FiniteSets

CONSTANTS
    Files, Headers,
    HeadersOf, \* the columns of each file
    CsvFields, \* fields of the collection
    ReadOnly,  \* those of them the preview does not offer
    Named,     \* the field whose slug or label a header is, or none
    Resembles, \* the same when case does not matter
    MaxImports \* imports on their way at a time

NoFile == ""

ASSUME CsvAssumption ==
    /\ NoFile \notin Files
    /\ HeadersOf \in [Files -> SUBSET Headers] /\ ReadOnly \subseteq CsvFields
    /\ {Named, Resembles} \subseteq [Headers -> CsvFields \cup {""}]
    /\ \A h \in Headers : Named[h] # "" => Resembles[h] = Named[h]

VARIABLES
    csvPreviewFile, csvPreviewOpen,
    readers,   \* files being read for the preview
    csvData,   \* the file whose columns are shown
    columnMap, \* field chosen for each column; none is "skip"
    imports,   \* requests on their way: file and map
    imported   \* the last import that was carried out

csvVars == <<csvPreviewFile, csvPreviewOpen, readers, csvData, columnMap, imports, imported>>

Offered == CsvFields \ ReadOnly
NoMap == [h \in Headers |-> ""]
Maps == [Headers -> CsvFields \cup {""}]
NoImport == [file |-> NoFile, map |-> NoMap, columns |-> NoMap]

CsvTypeOK ==
    /\ csvPreviewFile \in Files \cup {NoFile} /\ csvPreviewOpen \in BOOLEAN
    /\ readers \subseteq Files /\ csvData \in Files \cup {NoFile}
    /\ columnMap \in Maps
    /\ imports \subseteq [file : Files, map : Maps]
    /\ imported \in [file : Files \cup {NoFile}, map : Maps, columns : Maps]

CsvInit ==
    /\ csvPreviewFile = NoFile /\ csvPreviewOpen = FALSE
    /\ readers = {} /\ csvData = NoFile /\ columnMap = NoMap
    /\ imports = {} /\ imported = NoImport

-----------------------------------------------------------------------------
(* The preview *)

handleImportCSV ==
    /\ Act("csv") /\ ~csvPreviewOpen
    /\ \E f \in Files :
        /\ csvPreviewFile' = f
        /\ readers' = readers \cup {f}
    /\ csvPreviewOpen' = TRUE
    /\ UNCHANGED <<csvData, columnMap, imports, imported>>

\* The effect depends on the fields too: a collection fetched anew reads the file again.
FieldsRefetched ==
    /\ Act("csv") /\ csvPreviewFile # NoFile
    /\ readers' = readers \cup {csvPreviewFile}
    /\ UNCHANGED <<csvPreviewFile, csvPreviewOpen, csvData, columnMap, imports, imported>>

\* Auto-match by label or slug.
autoMap(f) == [h \in Headers |-> IF h \in HeadersOf[f] /\ Resembles[h] \in Offered THEN Resembles[h] ELSE ""]

\* Readers are not cancelled, and end in any order.
FileRead ==
    /\ \E f \in readers :
        /\ readers' = readers \ {f}
        /\ csvData' = f
        /\ columnMap' = autoMap(f)
    /\ UNCHANGED <<acts, csvPreviewFile, csvPreviewOpen, imports, imported>>

setColumnMap ==
    /\ Act("csv") /\ csvPreviewOpen /\ csvData # NoFile
    /\ \E h \in HeadersOf[csvData], f \in Offered \cup {""} :
        /\ columnMap[h] # f
        /\ columnMap' = [columnMap EXCEPT ![h] = f]
    /\ UNCHANGED <<csvPreviewFile, csvPreviewOpen, readers, csvData, imports, imported>>

ClosePreview ==
    /\ Act("csv") /\ csvPreviewOpen
    /\ csvPreviewOpen' = FALSE
    /\ UNCHANGED <<csvPreviewFile, readers, csvData, columnMap, imports, imported>>

finalMap == columnMap
mappedCount == Cardinality({h \in Headers : columnMap[h] # ""})

handleConfirm ==
    /\ Act("csv") /\ csvPreviewOpen /\ csvPreviewFile # NoFile /\ mappedCount > 0
    /\ Cardinality(imports) < MaxImports
    /\ imports' = imports \cup {[file |-> csvPreviewFile, map |-> finalMap]}
    /\ csvPreviewOpen' = FALSE
    /\ UNCHANGED <<csvPreviewFile, readers, csvData, columnMap, imported>>

-----------------------------------------------------------------------------
(* The server *)

\* A header that names a field is imported there; the map is for the other ones.
Column(r, h) ==
    CASE h \notin HeadersOf[r.file] -> ""
      [] h \in HeadersOf[r.file] /\ Named[h] # "" -> Named[h]
      [] OTHER -> r.map[h]
Mappings(r) == [h \in Headers |-> Column(r, h)]

\* The rows, all of them, or an error; then `finally`.
ImportCSV ==
    /\ \E r \in imports :
        /\ imports' = imports \ {r}
        /\ \/ UNCHANGED imported
           \/ /\ Mappings(r) # NoMap
              /\ imported' = [file |-> r.file, map |-> r.map, columns |-> Mappings(r)]
    /\ csvPreviewFile' = NoFile
    /\ UNCHANGED <<acts, csvPreviewOpen, readers, csvData, columnMap>>

CsvNext ==
    \/ handleImportCSV \/ FieldsRefetched \/ FileRead \/ setColumnMap
    \/ ClosePreview \/ handleConfirm \/ ImportCSV

-----------------------------------------------------------------------------
\* The map on the screen speaks of the columns that are shown, whichever reader
\* ended last, so no choice made for one file is sent with the columns of another.
MapOfShownColumns == \A h \in Headers : columnMap[h] # "" => csvData # NoFile /\ h \in HeadersOf[csvData]

\* A column whose header names no field goes where the dialog said, or nowhere.
FreeColumnsAsMapped ==
    \A h \in Headers : Named[h] = "" /\ imported.columns[h] # "" => imported.columns[h] = imported.map[h]
=============================================================================
