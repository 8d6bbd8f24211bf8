--------------------------- MODULE AutomationForm ---------------------------
(***************************************************************************)
(* The automations of an app: the page (pages/AutomationsPage.tsx) with its    *)
(* form, the schedule picker in it (components/works/SchedulePicker.tsx), the   *)
(* assistant (AIAutomationDialog.tsx), and what the server answers and stores   *)
(* (backend/internal/handler/automation.go).  The list it answers has no        *)
(* conditions and no actions; an update replaces both.                         *)
(***************************************************************************)
EXTENDS Screen, FiniteSets

CONSTANTS
    Triggers,                    \* "schedule" among them
    Conditions, Actions,
    ScheduleHours, ScheduleDays, \* Days: of the week or of the month
    TypedCrons,                  \* cron expressions only a user writes
    MaxRules

(* An expression tells how often, at which hour, on which day and in which months. *)
Frequencies == {"daily", "weekly", "monthly"}
Built == [often : Frequencies, hour : ScheduleHours, day : ScheduleDays, months : {"*"}]
NoCron == [often |-> "", hour |-> 0, day |-> 0, months |-> ""]
BadCron == [NoCron EXCEPT !.often = "bad"]
Crons == Built \cup TypedCrons \cup {NoCron, BadCron}

\* Hours and days are those the picker offers, its own 9 o'clock and first day among
\* them; what a user writes may be odd, but is an expression.
ASSUME AutomationAssumption ==
    /\ "schedule" \in Triggers /\ {"record_created", "status_change"} \subseteq Triggers
    /\ MaxRules \in Nat
    /\ ScheduleHours \subseteq Nat /\ 9 \in ScheduleHours
    /\ ScheduleDays \subseteq Nat /\ 1 \in ScheduleDays
    /\ \A c \in TypedCrons : c.hour \in ScheduleHours /\ c.day \in ScheduleDays /\ c \notin {NoCron, BadCron}

VARIABLES
    rules,       \* what the server stores; NoRule where there is none
    listedRules, \* what the list says of them
    ruleForm,    \* the form of the page
    picker,      \* the schedule picker, while it is on the screen
    ruleSave,    \* the save on its way
    assistant

automationVars == <<rules, listedRules, ruleForm, picker, ruleSave, assistant>>

NoRule == [trigger |-> "", cron |-> NoCron, conditions |-> {}, actions |-> {}]
Automation == [trigger : Triggers, cron : Crons, conditions : SUBSET Conditions, actions : SUBSET Actions]
Rules == Automation \cup {NoRule}
RuleIds == 1..MaxRules
NewForm == [open |-> FALSE, editing |-> 0, named |-> FALSE, trigger |-> "record_created",
            cron |-> NoCron, conditions |-> {}, actions |-> {}]
NoSave == [sent |-> FALSE, id |-> 0, rule |-> NoRule]

isValidCron(c) == c \notin {NoCron, BadCron}

\* What the picker makes of an expression; it does not look at the months.
parseCron(c) ==
    IF c.often \in Frequencies
    THEN [frequency |-> c.often, hour |-> c.hour, day |-> IF c.often = "daily" THEN 1 ELSE c.day]
    ELSE [frequency |-> IF c = NoCron THEN "daily" ELSE "custom", hour |-> 9, day |-> 1]
buildCron(p) ==
    [often |-> p.frequency, hour |-> p.hour,
     day |-> IF p.frequency = "daily" THEN 1 ELSE p.day, months |-> "*"]

Showing(c, custom) ==
    LET p == parseCron(c) IN
    [frequency |-> p.frequency, hour |-> p.hour, day |-> p.day, custom |-> custom, synced |-> c]
PickerFor(c) == Showing(c, IF parseCron(c).frequency = "custom" THEN c ELSE NoCron)
NoPicker == PickerFor(NoCron)

RuleForm == [open : BOOLEAN, editing : RuleIds \cup {0}, named : BOOLEAN, trigger : Triggers, cron : Crons,
             conditions : SUBSET Conditions, actions : SUBSET Actions]
Picker == [frequency : Frequencies \cup {"custom"}, hour : ScheduleHours, day : ScheduleDays,
           custom : Crons, synced : Crons]
RuleSave == [sent : BOOLEAN, id : RuleIds \cup {0}, rule : Rules]

AutomationTypeOK ==
    /\ rules \in [RuleIds -> Rules] /\ listedRules \in [RuleIds -> Rules]
    /\ ruleForm \in RuleForm /\ picker \in Picker /\ ruleSave \in RuleSave
    /\ assistant \in {"closed", "open", "asked", "proposed"}

\* Of conditions and actions the list says nothing.
List(stored) == [i \in RuleIds |-> [stored[i] EXCEPT !.conditions = {}, !.actions = {}]]

OneRule(t, c) ==
    [i \in RuleIds |-> IF i = 1
                       THEN [trigger |-> t, cron |-> IF t = "schedule" THEN c ELSE NoCron,
                             conditions |-> Conditions, actions |-> Actions]
                       ELSE NoRule]

AutomationInit ==
    /\ \E t \in Triggers, c \in TypedCrons : rules = OneRule(t, c)
    /\ listedRules = List(rules)
    /\ ruleForm = NewForm /\ picker = NoPicker /\ ruleSave = NoSave /\ assistant = "closed"

\* The form changes, and the picker with it: it comes and goes with the trigger
\* "schedule", and follows the expression when that is another one than it knows.
hasPicker(f) == f.open /\ f.trigger = "schedule"
SetForm(f, shown) ==
    /\ ruleForm' = f
    /\ picker' = IF ~hasPicker(f) THEN NoPicker
                 ELSE IF ~hasPicker(ruleForm) THEN PickerFor(f.cron)
                 ELSE IF f.cron = shown.synced THEN shown
                 ELSE Showing(f.cron, IF parseCron(f.cron).frequency = "custom" THEN f.cron ELSE shown.custom)

\* The assistant's dialog covers the page.
AutomationAct == assistant = "closed" /\ Act("automation")
AssistantAct == Act("automation")
Editing == ruleForm.open /\ AutomationAct
resetForm == SetForm(NewForm, picker)

-----------------------------------------------------------------------------
(* The form *)

OpenForm ==
    /\ ~ruleForm.open /\ AutomationAct
    /\ SetForm([ruleForm EXCEPT !.open = TRUE], picker)
    /\ UNCHANGED <<rules, listedRules, ruleSave, assistant>>

CancelForm == Editing /\ resetForm /\ UNCHANGED <<rules, listedRules, ruleSave, assistant>>

\* Fills the form from the list, whatever was in it.
handleEdit ==
    /\ AutomationAct
    /\ \E id \in RuleIds :
        /\ listedRules[id] # NoRule
        /\ SetForm([open |-> TRUE, editing |-> id, named |-> TRUE, trigger |-> listedRules[id].trigger,
                    cron |-> listedRules[id].cron, conditions |-> listedRules[id].conditions,
                    actions |-> listedRules[id].actions],
                   picker)
    /\ UNCHANGED <<rules, listedRules, ruleSave, assistant>>

EditTrigger ==
    /\ Editing
    /\ \/ ~ruleForm.named /\ SetForm([ruleForm EXCEPT !.named = TRUE], picker)
       \/ \E t \in Triggers \ {ruleForm.trigger} : SetForm([ruleForm EXCEPT !.trigger = t], picker)
    /\ UNCHANGED <<rules, listedRules, ruleSave, assistant>>

Toggled(set, x) == IF x \in set THEN set \ {x} ELSE set \cup {x}

EditConditions ==
    /\ Editing
    /\ \E c \in Conditions : SetForm([ruleForm EXCEPT !.conditions = Toggled(@, c)], picker)
    /\ UNCHANGED <<rules, listedRules, ruleSave, assistant>>

EditActions ==
    /\ Editing
    /\ \E a \in Actions : SetForm([ruleForm EXCEPT !.actions = Toggled(@, a)], picker)
    /\ UNCHANGED <<rules, listedRules, ruleSave, assistant>>

-----------------------------------------------------------------------------
(* The schedule picker *)

\* A click sets the picker and tells the form what it builds.
pickerEmits(p) ==
    SetForm([ruleForm EXCEPT !.cron = IF p.frequency = "custom" THEN p.custom ELSE buildCron(p)], p)

PickSchedule ==
    /\ hasPicker(ruleForm) /\ AutomationAct
    /\ \/ \E f \in Frequencies \cup {"custom"} : f # picker.frequency /\ pickerEmits([picker EXCEPT !.frequency = f])
       \/ picker.frequency # "custom" /\ \E h \in ScheduleHours : pickerEmits([picker EXCEPT !.hour = h])
       \/ picker.frequency \in {"weekly", "monthly"} /\ \E d \in ScheduleDays : pickerEmits([picker EXCEPT !.day = d])
    /\ UNCHANGED <<rules, listedRules, ruleSave, assistant>>

\* Only what is valid or empty reaches the form.
TypeCron ==
    /\ hasPicker(ruleForm) /\ picker.frequency = "custom" /\ AutomationAct
    /\ \E c \in (TypedCrons \cup {NoCron, BadCron}) \ {picker.custom} :
        IF isValidCron(c) \/ c = NoCron THEN pickerEmits([picker EXCEPT !.custom = c])
        ELSE SetForm(ruleForm, [picker EXCEPT !.custom = c])
    /\ UNCHANGED <<rules, listedRules, ruleSave, assistant>>

-----------------------------------------------------------------------------
(* Saving *)

\* Mutant: the schedule is not checked.
CanSaveAnyTime == ruleForm.named /\ ruleForm.actions # {}

CanSave == ruleForm.named /\ ruleForm.actions # {} /\ (ruleForm.trigger = "schedule" => isValidCron(ruleForm.cron))

\* The schedule goes along only with its trigger.
saveRule ==
    /\ Editing /\ ~ruleSave.sent /\ CanSave
    /\ ruleSave' = [sent |-> TRUE, id |-> ruleForm.editing,
                   rule |-> [trigger |-> ruleForm.trigger,
                             cron |-> IF ruleForm.trigger = "schedule" THEN ruleForm.cron ELSE NoCron,
                             conditions |-> ruleForm.conditions, actions |-> ruleForm.actions]]
    /\ UNCHANGED <<rules, listedRules, ruleForm, picker, assistant>>

\* Create and Update of the server, then onSuccess, which closes the form there is.
SavedAs(id) ==
    /\ rules' = [rules EXCEPT ![id] = ruleSave.rule]
    /\ listedRules' = List(rules')
    /\ ruleSave' = NoSave /\ resetForm
    /\ UNCHANGED <<acts, assistant>>

CreateRule == ruleSave.sent /\ ruleSave.id = 0 /\ \E id \in RuleIds : rules[id] = NoRule /\ SavedAs(id)
UpdateRule == ruleSave.sent /\ ruleSave.id # 0 /\ rules[ruleSave.id] # NoRule /\ SavedAs(ruleSave.id)

\* The automation is gone, or the call is lost.
NotSaved ==
    /\ ruleSave.sent /\ ruleSave' = NoSave
    /\ UNCHANGED <<acts, rules, listedRules, ruleForm, picker, assistant>>

handleDelete ==
    /\ AutomationAct
    /\ \E id \in RuleIds :
        /\ listedRules[id] # NoRule
        /\ rules' = [rules EXCEPT ![id] = NoRule]
        /\ listedRules' = List(rules')
    /\ UNCHANGED <<ruleForm, picker, ruleSave, assistant>>

-----------------------------------------------------------------------------
(* The assistant: its button is there while the form is closed *)

OpenAssistant ==
    /\ ~ruleForm.open /\ AutomationAct /\ assistant' = "open"
    /\ UNCHANGED <<rules, listedRules, ruleForm, picker, ruleSave>>
handleGenerate ==
    /\ assistant = "open" /\ AssistantAct /\ assistant' = "asked"
    /\ UNCHANGED <<rules, listedRules, ruleForm, picker, ruleSave>>
\* An answer, an error, or a wish for another answer.
Generated ==
    /\ assistant \in {"asked", "proposed"} /\ assistant' \in {"open", "proposed"} \ {assistant}
    /\ UNCHANGED <<acts, rules, listedRules, ruleForm, picker, ruleSave>>
CloseAssistant ==
    /\ assistant # "closed" /\ AssistantAct /\ assistant' = "closed"
    /\ UNCHANGED <<rules, listedRules, ruleForm, picker, ruleSave>>

\* The proposal fills the form, but for the schedule.
applyProposal ==
    /\ assistant = "proposed" /\ AssistantAct /\ assistant' = "closed"
    /\ \E t \in Triggers :
        SetForm([ruleForm EXCEPT !.open = TRUE, !.editing = 0, !.named = TRUE, !.trigger = t,
                             !.conditions = {}, !.actions = Actions], picker)
    /\ UNCHANGED <<rules, listedRules, ruleSave>>

AutomationNext ==
    \/ OpenForm \/ CancelForm \/ handleEdit \/ EditTrigger \/ EditConditions \/ EditActions \/ PickSchedule \/ TypeCron
    \/ saveRule \/ CreateRule \/ UpdateRule \/ NotSaved \/ handleDelete
    \/ OpenAssistant \/ handleGenerate \/ Generated \/ CloseAssistant \/ applyProposal

-----------------------------------------------------------------------------
(* Properties *)

\* The picker keeps no schedule of its own: whichever automation is opened, and
\* whatever was typed before, it reads as the expression that would be saved reads.
PickerInStep ==
    hasPicker(ruleForm) /\ picker.frequency # "custom" /\ ruleForm.cron # NoCron =>
        [frequency |-> picker.frequency, hour |-> picker.hour, day |-> picker.day] = parseCron(ruleForm.cron)

\* A stored schedule can run, and no other trigger brings one along: the server
\* looks at neither.
SchedulesCanRun ==
    \A id \in RuleIds : rules[id] # NoRule => (rules[id].trigger = "schedule" <=> isValidCron(rules[id].cron))

\* "Need to fetch the full automation with conditions/actions" (AutomationsPage.tsx):
\* the form that opens for an automation has its conditions.
EditShowsConditions ==
    [][\A id \in RuleIds :
        handleEdit /\ ruleForm'.editing = id /\ listedRules = List(rules) =>
            ruleForm'.conditions = rules[id].conditions]_automationVars
=============================================================================
