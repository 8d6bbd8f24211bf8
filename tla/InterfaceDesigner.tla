-------------------------- MODULE InterfaceDesigner --------------------------
(***************************************************************************)
(* The designer of an app's dashboard (pages/InterfaceDesignerPage.tsx).     *)
(* The layout is kept in the browser's local storage: every change of a       *)
(* widget stores it, a drag moves widgets on the screen only and their order   *)
(* is stored when it ends.  What a widget's settings say is one value here.   *)
(***************************************************************************)
EXTENDS Screen

CONSTANTS
    WidgetTypes,     \* WIDGET_TYPES
    WidgetSettings,  \* title, functions, fields, limit and text of a widget
    MaxWidgets       \* bound on a layout

ASSUME DesignerAssumption == MaxWidgets \in Nat

VARIABLES
    config,          \* the layout on the screen
    storedLayout,    \* localStorage
    storageWorks,    \* it takes what is stored
    editMode, editingWidget, dragIdx,
    draggedWidget,        \* the widget that was taken (observation only)
    widgetIds        \* ids given so far by generateId

designerVars == <<config, storedLayout, storageWorks, editMode, editingWidget, dragIdx, draggedWidget, widgetIds>>

NoWidget == 0
IssuedIds == 1..widgetIds
Widths == 1..4
Widget == [id : IssuedIds, type : WidgetTypes, width : Widths, settings : WidgetSettings]

DesignerTypeOK ==
    /\ widgetIds \in Nat
    /\ {config, storedLayout} \subseteq Seq(Widget)
    /\ {storageWorks, editMode} \subseteq BOOLEAN
    /\ {editingWidget, draggedWidget} \subseteq IssuedIds \cup {NoWidget}
    /\ dragIdx \in 0..Len(config)

\* Layouts of earlier visits.
EarlierLayout(n) ==
    {[i \in 1..n |-> [id |-> i, type |-> t, width |-> 1, settings |-> s]] :
        t \in WidgetTypes, s \in WidgetSettings}

DesignerInit ==
    /\ \E n \in {0, MaxWidgets} : config \in EarlierLayout(n) /\ widgetIds = n
    /\ storedLayout = config /\ storageWorks \in BOOLEAN
    /\ editMode = FALSE /\ editingWidget = NoWidget
    /\ dragIdx = 0 /\ draggedWidget = NoWidget

-----------------------------------------------------------------------------
Store(layout) == storedLayout' = IF storageWorks THEN layout ELSE storedLayout
saveConfig(next) == config' = next /\ Store(next)

DesignerAct == Act("designer") /\ editMode /\ dragIdx = 0

addWidget ==
    /\ DesignerAct /\ Len(config) < MaxWidgets
    /\ widgetIds' = widgetIds + 1
    /\ \E t \in WidgetTypes, s \in WidgetSettings :
          saveConfig(Append(config, [id |-> widgetIds + 1, type |-> t, settings |-> s,
                                     width |-> IF t \in {"data_table", "text"} THEN 4 ELSE 1]))
    /\ editingWidget' = widgetIds + 1
    /\ UNCHANGED <<storageWorks, editMode, dragIdx, draggedWidget>>

\* The settings of the widget whose panel is open.
updateWidget ==
    /\ DesignerAct
    /\ \E n \in DOMAIN config :
        /\ config[n].id = editingWidget
        /\ \/ \E w \in Widths : saveConfig([config EXCEPT ![n].width = w])
           \/ \E s \in WidgetSettings : saveConfig([config EXCEPT ![n].settings = s])
    /\ UNCHANGED <<storageWorks, editMode, editingWidget, dragIdx, draggedWidget, widgetIds>>

removeWidget ==
    /\ DesignerAct
    /\ \E n \in DOMAIN config :
        /\ saveConfig(RemoveAt(config, n))
        /\ editingWidget' = IF editingWidget = config[n].id THEN NoWidget ELSE editingWidget
    /\ UNCHANGED <<storageWorks, editMode, dragIdx, draggedWidget, widgetIds>>

\* The gear of a widget opens and closes its panel, the cross closes it.
TogglePanel ==
    /\ DesignerAct
    /\ \E n \in DOMAIN config :
          editingWidget' = IF editingWidget = config[n].id THEN NoWidget ELSE config[n].id
    /\ UNCHANGED <<config, storedLayout, storageWorks, editMode, dragIdx, draggedWidget, widgetIds>>

ToggleEdit ==
    /\ Act("designer") /\ dragIdx = 0
    /\ editMode' = ~editMode
    /\ editingWidget' = IF editMode THEN NoWidget ELSE editingWidget
    /\ UNCHANGED <<config, storedLayout, storageWorks, dragIdx, draggedWidget, widgetIds>>

-----------------------------------------------------------------------------
(* Drag and drop *)

handleDragStart ==
    /\ DesignerAct
    /\ dragIdx' \in DOMAIN config
    /\ draggedWidget' = config[dragIdx'].id
    /\ UNCHANGED <<config, storedLayout, storageWorks, editMode, editingWidget, widgetIds>>

MovedTo(from, to) == InsertAt(RemoveAt(config, from), to, config[from])

handleDragOver ==
    /\ Act("designer") /\ dragIdx # 0
    /\ \E idx \in DOMAIN config \ {dragIdx} :
        /\ config' = MovedTo(dragIdx, idx)
        /\ dragIdx' = idx
    /\ UNCHANGED <<storedLayout, storageWorks, editMode, editingWidget, draggedWidget, widgetIds>>

\* handleDragEnd
endWidgetDrag ==
    /\ dragIdx # 0
    /\ dragIdx' = 0 /\ draggedWidget' = NoWidget
    /\ Store(config)
    /\ UNCHANGED <<acts, config, storageWorks, editMode, editingWidget, widgetIds>>

\* The page is opened again, also in the middle of a drag.
OpenDesigner ==
    /\ Act("designer")
    /\ config' = storedLayout
    /\ editMode' = FALSE /\ editingWidget' = NoWidget /\ dragIdx' = 0 /\ draggedWidget' = NoWidget
    /\ UNCHANGED <<storedLayout, storageWorks, widgetIds>>

DesignerNext ==
    \/ addWidget \/ updateWidget \/ removeWidget \/ TogglePanel \/ ToggleEdit
    \/ handleDragStart \/ handleDragOver \/ endWidgetDrag \/ OpenDesigner

-----------------------------------------------------------------------------
(* Properties *)

\* What the screen shows is stored, except for the order while a widget is in the air.
LayoutStored == storageWorks /\ dragIdx = 0 => storedLayout = config

\* A drag moves the widget it took, past others that keep their order and settings.
Others(layout) == Filter(layout, LAMBDA w : w.id # draggedWidget)
DragMovesOne ==
    [][dragIdx # 0 /\ dragIdx' # 0 =>
        /\ config'[dragIdx'].id = draggedWidget
        /\ Others(config') = Others(config)]_designerVars
=============================================================================
