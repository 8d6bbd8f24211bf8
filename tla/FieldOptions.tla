---------------------------- MODULE FieldOptions ----------------------------
(***************************************************************************)
(* The panel of a field's properties (components/works/FieldProperties.tsx):   *)
(* what the user may set for which type, and what the panel sets along.  The    *)
(* text areas for choices show the stored list and store what is left of the    *)
(* edited text without its blank lines.  Name and slug are in Builder.tla.     *)
(***************************************************************************)
EXTENDS Screen, FiniteSets

CONSTANTS
    Words,         \* lines of text that are not blank
    Titles, KeyOf, \* names of sub columns and the keys they give; "" may be one
    Reach,         \* the form's relation fields with the fields of the apps they lead to
    Apps,          \* apps to link to
    MaxItems       \* choices, sub columns and rules

(* Types, and those the panel changes into one another *)
TextTypes == {"text", "textarea"}
NumberTypes == {"number", "integer"}
SelectTypes == {"select", "multiselect"}
VariantGroups == {TextTypes, NumberTypes, {"date", "time", "datetime"}, SelectTypes}
Types == (UNION VariantGroups) \cup {"relation", "lookup", "rollup", "formula", "table", "label"}

(* Checkboxes, sizes and plain texts: whether the user set them *)
Sizes == {"width", "height"}
Advanced == {"hide_label", "description", "is_unique", "input_width"}
Plain == Sizes \cup Advanced \cup {"is_required", "content", "expression", "limits", "display"}

ASSUME FieldOptionsAssumption ==
    /\ "" \notin Words /\ "" \in Titles /\ KeyOf \in [Titles -> Titles] /\ MaxItems \in Nat

VARIABLES field, keys   \* the draft, and subColCounter

optionVars == <<field, keys>>

NoLink == [app |-> "", kind |-> "one_to_many", on_delete |-> "SET NULL"]
LinkKinds == {"one_to_one", "one_to_many", "many_to_many"}
Formats == {"", "email", "url", "phone"}
Functions == {"", "SUM", "COUNT"}
RuleOps == {"eq", "neq", "is_empty", "is_not_empty"}
SubColumn == [key : (Titles \cup {"col"}) \X Nat, label : Titles,
              type : {"text", "number", "select"}, choices : Seq(Words)]
Rule == [on : DOMAIN Reach \cup {""}, op : RuleOps, value : Words \cup {""}]

Link == [app : Apps \cup {""}, kind : LinkKinds, on_delete : {"SET NULL", "CASCADE"}]
Field ==
    [type : Types, set : SUBSET Plain, choices : Seq(Words), default : Words \cup {""}, relation : Link,
     via : DOMAIN Reach \cup {""}, target : (UNION {Reach[r] : r \in DOMAIN Reach}) \cup {""},
     function : Functions, display : Formats, validation : Formats \cup {"regex"},
     rules : Seq(Rule), columns : Seq(SubColumn)]

OptionsTypeOK == keys \in Nat /\ field \in Field

NewField(t) ==
    [type |-> t, set |-> {}, choices |-> <<>>, default |-> "", relation |-> NoLink,
     via |-> "", target |-> "", function |-> "", display |-> "", validation |-> "",
     rules |-> <<>>, columns |-> <<>>]

OptionsInit == keys = 0 /\ \E t \in Types : field = NewField(t)

isSelect == field.type \in SelectTypes
isText == field.type \in TextTypes
isNumeric == field.type \in NumberTypes
isRelation == field.type = "relation"
isComputed == field.type \in {"lookup", "rollup", "formula"}
isLayout == field.type = "label"

update(f) == Act("options") /\ field' = f

-----------------------------------------------------------------------------
(* Plain properties *)

\* A type turns into another of its group; the options stay.
SetType ==
    /\ \E g \in VariantGroups, t \in Types :
        {field.type, t} \subseteq g /\ t # field.type /\ update([field EXCEPT !.type = t])
    /\ UNCHANGED keys

\* One of these is set, or set back.
Toggle(some) ==
    /\ \E p \in some : update([field EXCEPT !.set = IF p \in @ THEN @ \ {p} ELSE @ \cup {p}])
    /\ UNCHANGED keys

SetContent == isLayout /\ Toggle({"content"})
SetExpression == field.type = "formula" /\ Toggle({"expression"} \cup Sizes)
SetRequired == ~isComputed /\ ~isLayout /\ Toggle({"is_required"})
SetSize == ~isLayout /\ Toggle(Sizes)
SetAdvanced == ~isLayout /\ field.type # "formula" /\ Toggle(Advanced)
SetLimits == (isText \/ isNumeric) /\ Toggle({"limits"})
SetLook == (isNumeric \/ field.type = "select") /\ Toggle({"display"})

SetDefault ==
    /\ ~isRelation /\ ~isComputed /\ ~isLayout
    /\ \E v \in (IF isSelect THEN Range(field.choices) ELSE Words) \cup {""} :
        v # field.default /\ update([field EXCEPT !.default = v])
    /\ UNCHANGED keys

\* A display format brings the check of its name along, in one update.
SetDisplay ==
    /\ field.type = "text"
    /\ \E d \in Formats \ {field.display} :
        update([field EXCEPT !.display = d, !.validation = IF d = "" THEN @ ELSE d])
    /\ UNCHANGED keys

SetValidation ==
    /\ isText
    /\ \E v \in (Formats \cup {"regex"}) \ {field.validation} : update([field EXCEPT !.validation = v])
    /\ UNCHANGED keys

-----------------------------------------------------------------------------
(* Lists in text areas *)

LinesOf(list) == IF list = <<>> THEN <<"">> ELSE list
Cleaned(lines) == Filter(lines, LAMBDA l : l # "")

\* Enter at the end of a line; another text on a line; a text from the clipboard.
Entered(list, i) == InsertAt(LinesOf(list), i + 1, "")
Edited(list) ==
    UNION {{ReplaceAt(LinesOf(list), i, w) : w \in Words \cup {""}} : i \in DOMAIN LinesOf(list)}
Pasted(list) == UNION {{list \o <<v, "", w>> : v \in Words} : w \in Words}
OptionTexts(list) == {Entered(list, i) : i \in DOMAIN LinesOf(list)} \cup Edited(list) \cup Pasted(list)

EditChoices(text) == update([field EXCEPT !.choices = Cleaned(text)])

SetChoices ==
    /\ isSelect
    /\ \E text \in OptionTexts(field.choices) : Len(Cleaned(text)) <= MaxItems /\ EditChoices(text)
    /\ UNCHANGED keys

-----------------------------------------------------------------------------
(* SubColumnEditor *)

hasColumns == field.type \in {"table", "spreadsheet"}

addColumn ==
    /\ hasColumns /\ Len(field.columns) < MaxItems
    /\ keys' = keys + 1
    /\ update([field EXCEPT !.columns =
                   Append(@, [key |-> <<"col", keys'>>, label |-> "", type |-> "text", choices |-> <<>>])])

\* The key follows the label, unless nothing of it is left.
Labelled(col, title) == [col EXCEPT !.label = title, !.key = IF KeyOf[title] = "" THEN @ ELSE <<KeyOf[title], 0>>]

\* Choices are dropped with the type they belong to.
RetypedColumn(col, type) == [col EXCEPT !.type = type, !.choices = IF type = "select" THEN @ ELSE <<>>]

updateColumn ==
    /\ hasColumns
    /\ \E i \in DOMAIN field.columns :
        LET col == field.columns[i]
            store(c) == c # col /\ update([field EXCEPT !.columns[i] = c])
        IN \/ \E title \in Titles : store(Labelled(col, title))
           \/ \E type \in {"text", "number", "select"} : store(RetypedColumn(col, type))
           \/ /\ col.type = "select"
              /\ \E text \in OptionTexts(col.choices) :
                    Len(Cleaned(text)) <= MaxItems /\ store([col EXCEPT !.choices = Cleaned(text)])
    /\ UNCHANGED keys

removeColumn ==
    /\ hasColumns
    /\ \E i \in DOMAIN field.columns : update([field EXCEPT !.columns = RemoveAt(@, i)])
    /\ UNCHANGED keys

\* The handle only moves a column up.
moveColumn ==
    /\ hasColumns
    /\ \E i \in DOMAIN field.columns :
        i > 1 /\ update([field EXCEPT !.columns = InsertAt(RemoveAt(@, i), i - 1, @[i])])
    /\ UNCHANGED keys

-----------------------------------------------------------------------------
(* Links and computed fields *)

SetRelation ==
    /\ isRelation
    /\ \/ \E app \in Apps : update([field EXCEPT !.relation.app = app])
       \/ /\ field.relation.app # ""
          /\ \/ \E k \in LinkKinds : update([field EXCEPT !.relation.kind = k])
             \/ \E d \in {"SET NULL", "CASCADE"} : update([field EXCEPT !.relation.on_delete = d])
    /\ UNCHANGED keys

SetReach ==
    /\ field.type \in {"lookup", "rollup"}
    /\ \/ \E r \in DOMAIN Reach : update([field EXCEPT !.via = r])
       \/ /\ field.via # ""
          /\ \E f \in Reach[field.via] : update([field EXCEPT !.target = f])
       \/ /\ field.type = "rollup"
          /\ \E f \in Functions \ {""} : update([field EXCEPT !.function = f])
    /\ UNCHANGED keys

-----------------------------------------------------------------------------
(* VisibilityRuleEditor *)

UpdateRules(rules) == update([field EXCEPT !.rules = rules])

EditRules ==
    /\ ~isComputed /\ ~isLayout
    /\ \/ /\ Len(field.rules) < MaxItems
          /\ UpdateRules(Append(field.rules, [on |-> "", op |-> "eq", value |-> ""]))
       \/ \E i \in DOMAIN field.rules :
            \/ UpdateRules(RemoveAt(field.rules, i))
            \/ \E f \in DOMAIN Reach : UpdateRules([field.rules EXCEPT ![i].on = f])
            \/ \E op \in RuleOps : UpdateRules([field.rules EXCEPT ![i].op = op])
            \/ /\ field.rules[i].op \in {"eq", "neq"}
               /\ \E v \in Words : UpdateRules([field.rules EXCEPT ![i].value = v])
    /\ UNCHANGED keys

OptionsNext ==
    \/ SetType \/ SetContent \/ SetExpression \/ SetRequired \/ SetSize \/ SetAdvanced \/ SetLimits \/ SetLook
    \/ SetDefault \/ SetDisplay \/ SetValidation
    \/ SetChoices \/ addColumn \/ updateColumn \/ removeColumn \/ moveColumn
    \/ SetRelation \/ SetReach \/ EditRules

-----------------------------------------------------------------------------
(* Properties *)

\* However the lists are typed, no choice is blank (the server refuses one,
\* validate.go), every sub column keeps a key, and only select columns have choices.
NothingBlank ==
    /\ \A i \in DOMAIN field.choices : field.choices[i] # ""
    /\ \A i \in DOMAIN field.columns :
        LET col == field.columns[i] IN
        /\ col.key[1] # ""
        /\ col.type # "select" => col.choices = <<>>
        /\ \A j \in DOMAIN col.choices : col.choices[j] # ""
=============================================================================
