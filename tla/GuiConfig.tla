------------------------------- MODULE GuiConfig -------------------------------
(* claw-gui: the draft of the configuration (config_manager.rs), the views   *)
(* that edit it (views/*.rs), the commit workflow, and the frame that ties   *)
(* them together (main.rs).  A frame takes one input of the user and draws   *)
(* the current view, which may itself change draft and selection; an action  *)
(* is such a frame.  A list of the draft is a sequence of entries [name,     *)
(* target, form]: bindings name an agent and a channel, agents a directory,  *)
(* and form is the rest, parts of which its detail form fills in when it is  *)
(* drawn.  A list that is empty and one that is absent are not told apart.   *)
EXTENDS Options, Naturals, Sequences, FiniteSets, SequencesExt

CONSTANTS IndexedLists,  \* the list views that select by position
          KeyedLists,    \* the list views that select by key
          Names,         \* what an id, a key, a name or a template may be
          Tabs,          \* the sections of the settings, each with a tab
          Settings,      \* what the user may set such a section to
          Files,         \* what the file may hold when the panel starts
          Invalid,       \* those of them that validate_config calls errors
          MaxUndo,       \* MAX_UNDO_DEPTH
          MaxEntries,    \* bound: the entries of a list
          MaxFrames      \* bound: the frames of all sessions

\* Every list has a view of its own.  A file holds a section for every tab and
\* the lists, those with keys by name.
ASSUME ConfigAssumption ==
    /\ MaxUndo \in Nat
    /\ {"dashboard", "settings"} \cap (IndexedLists \cup KeyedLists) = {} /\ "bindings" \notin KeyedLists
    /\ \A config \in Files :
          /\ config = [settings |-> [tab \in Tabs |-> config.settings[tab]],
                       lists |-> [list \in IndexedLists \cup KeyedLists |-> config.lists[list]]]
          /\ \A list \in KeyedLists : config.lists[list] \in
                Seq([name : Names, target : {None}, form : {None, "default", "set"}])

VARIABLES
    manager,  \* ConfigManager: [live, draft, undo, redo]
    file,     \* the file: [config, torn], torn by a write that failed
    gui,      \* [view, tab, phase, raw]: the view, the tab of the settings,
              \* CommitPhase, and the buffer of the raw editor, empty if closed
    forms,    \* per list view: [selected, snapshot] of its detail form
    picker,   \* the form for a new binding: [open, agent, channel]
    panel,    \* "running", "panicked", or "unloaded": no configuration was read
    frames    \* the frames drawn so far

guiVars == <<manager, file, gui, forms, picker, panel, frames>>

Lists == IndexedLists \cup KeyedLists

NewEntry(name, target) == [name |-> name, target |-> target, form |-> None]

--------------------------------------------------------------------------------
(* ConfigManager *)

\* What load_config makes of a file: variables are replaced by their values.
Loaded(config) ==
    [config EXCEPT !.settings = [tab \in Tabs |-> IF @[tab] = "variable" THEN "value" ELSE @[tab]]]

LoadConfig(config) == [live |-> Loaded(config), draft |-> Loaded(config), undo |-> <<>>, redo |-> <<>>]

BeginEditUncapped(m) == [m EXCEPT !.redo = <<>>, !.undo = Append(m.undo, m.draft)]

BeginEdit(m) ==
    LET pushed == Append(m.undo, m.draft)
    IN [m EXCEPT !.redo = <<>>,
                 !.undo = IF Len(pushed) > MaxUndo THEN Tail(pushed) ELSE pushed]

Undo(m) ==
    IF m.undo = <<>> THEN m
    ELSE [m EXCEPT !.draft = m.undo[Len(m.undo)],
                   !.undo = SubSeq(m.undo, 1, Len(m.undo) - 1),
                   !.redo = Append(m.redo, m.draft)]

Redo(m) ==
    IF m.redo = <<>> THEN m
    ELSE [m EXCEPT !.draft = m.redo[Len(m.redo)],
                   !.redo = SubSeq(m.redo, 1, Len(m.redo) - 1),
                   !.undo = Append(m.undo, m.draft)]

Discard(m) == [m EXCEPT !.draft = m.live, !.undo = <<>>, !.redo = <<>>]

Promote(m) == [m EXCEPT !.live = m.draft, !.undo = <<>>, !.redo = <<>>]

IsDirty(m) == m.draft # m.live

\* validate_config, as far as it depends on what a draft holds here.
FailsValidation(config) ==
    LET agents == config.lists["agents"]
    IN \/ \E tab \in Tabs : config.settings[tab] \in Invalid
       \/ \E i \in DOMAIN agents : agents[i].name = None
       \/ \E i, j \in DOMAIN agents : i # j /\ agents[i].name = agents[j].name
       \/ \E e \in Range(config.lists["bindings"]) : e.name = None

--------------------------------------------------------------------------------
(* Drawing a view *)

\* The place of the entry a detail form shows, 0 when it is gone.
Place(config, list, selected) ==
    IF list \in IndexedLists THEN IF selected \in DOMAIN config.lists[list] THEN selected ELSE 0
    ELSE SelectInSeq(config.lists[list], LAMBDA e : e.name = selected)

Closed == [selected |-> None, snapshot |-> FALSE]

\* The match of a binding and the accounts of a channel are inserted.
FilledIn(list, entry) ==
    IF list \in {"bindings", "channels"} /\ entry.form = None THEN [entry EXCEPT !.form = "default"] ELSE entry

DrawDetailOpening(m, list, form) ==
    LET at    == Place(m.draft, list, form.selected)
        saved == IF form.snapshot THEN m ELSE BeginEdit(m)
    IN IF at = 0 THEN [at |-> 0, m |-> m, form |-> IF form.snapshot THEN form ELSE [form EXCEPT !.selected = None]]
       ELSE [at   |-> at,
             form |-> [form EXCEPT !.snapshot = TRUE],
             m    |-> [saved EXCEPT !.draft.lists[list][at] = FilledIn(list, @)]]

\* What show_detail does in every frame: it leaves the form of an entry that
\* is gone, the snapshot flag as it was; else it saves the draft for undo,
\* once, and fills in the parts of the entry that are missing.
DrawDetail(m, list, form) ==
    LET at    == Place(m.draft, list, form.selected)
        saved == IF form.snapshot THEN m ELSE BeginEdit(m)
    IN IF at = 0 THEN [at |-> 0, m |-> m, form |-> [form EXCEPT !.selected = None]]
       ELSE [at   |-> at,
             form |-> [form EXCEPT !.snapshot = TRUE],
             m    |-> [saved EXCEPT !.draft.lists[list][at] = FilledIn(list, @)]]

\* A tab inserts the defaults of the section it shows; the raw tab has none.
DrawSettings(m, tab) ==
    IF tab \notin Tabs THEN m ELSE [m EXCEPT !.draft.settings[tab] = IF @ = None THEN "default" ELSE @]

\* How many names a picker of the form for a new binding offers.
Offered(config, list) ==
    Cardinality({i \in DOMAIN config.lists[list] : config.lists[list][i].name # None})

\* While both are chosen, the form looks the names up by the chosen indexes.
PickerPanics(config, p) ==
    LET agents   == Offered(config, "agents")
        channels == Offered(config, "channels")
    IN /\ p.open /\ None \notin {p.agent, p.channel} /\ 0 \notin {agents, channels}
       /\ p.agent > agents \/ p.channel > channels

\* The rest of a frame after its input: the content of the current view.
Draw(m, g) ==
    LET drawn == DrawDetail(m, g.view, forms[g.view])
    IN /\ gui' = g
       /\ IF g.view \in Lists /\ forms[g.view].selected # None
            THEN manager' = drawn.m /\ forms' = [forms EXCEPT ![g.view] = drawn.form]
            ELSE /\ manager' = IF g.view = "settings" THEN DrawSettings(m, g.tab) ELSE m
                 /\ UNCHANGED forms
       /\ panel' = IF g.view = "bindings" /\ forms["bindings"].selected = None /\ PickerPanics(m.draft, picker)
                     THEN "panicked" ELSE "running"
       /\ UNCHANGED picker

Frame == panel = "running" /\ frames < MaxFrames /\ frames' = frames + 1

ConfigView == gui.view # "dashboard"

--------------------------------------------------------------------------------
(* Menu, shortcuts and navigation, which every view has *)

Repaint == Frame /\ Draw(manager, gui) /\ UNCHANGED file

Navigate(view) == Frame /\ Draw(manager, [gui EXCEPT !.view = view]) /\ UNCHANGED file

\* Ctrl+S and the File menu look at dirty alone.
SaveShortcut ==
    /\ Frame
    /\ IsDirty(manager)
    /\ Draw(manager, [gui EXCEPT !.phase = "confirming"])
    /\ UNCHANGED file

UndoClicked == Frame /\ Draw(Undo(manager), gui) /\ UNCHANGED file

RedoClicked == Frame /\ Draw(Redo(manager), gui) /\ UNCHANGED file

--------------------------------------------------------------------------------
(* The commit workflow, drawn above the views of the configuration *)

SaveClicked ==
    /\ Frame
    /\ ConfigView /\ IsDirty(manager) /\ ~FailsValidation(manager.draft)
    /\ Draw(manager, [gui EXCEPT !.phase = "confirming"])
    /\ UNCHANGED file

DiscardClicked ==
    /\ Frame
    /\ ConfigView /\ IsDirty(manager)
    /\ Draw(Discard(manager), [gui EXCEPT !.phase = "idle"])
    /\ UNCHANGED file

CancelClicked ==
    /\ Frame
    /\ ConfigView /\ gui.phase = "confirming"
    /\ Draw(manager, [gui EXCEPT !.phase = "idle"])
    /\ UNCHANGED file

CommitForgetsWrite ==
    /\ Frame
    /\ ConfigView /\ gui.phase = "confirming"
    /\ \E ok \in BOOLEAN :
          /\ file' = IF ok THEN [config |-> manager.draft, torn |-> FALSE] ELSE file
          /\ Draw(Promote(manager), [gui EXCEPT !.phase = "success"])

\* The draft is written; a failure leaves the file as it was (its directory
\* cannot be made) or torn (the write itself fails).
Commit ==
    /\ Frame
    /\ ConfigView /\ gui.phase = "confirming"
    /\ \/ /\ file' = [config |-> manager.draft, torn |-> FALSE]
          /\ Draw(Promote(manager), [gui EXCEPT !.phase = "success"])
       \/ /\ file' \in {file, [file EXCEPT !.torn = TRUE]}
          /\ Draw(manager, [gui EXCEPT !.phase = "error"])

\* The banner of a commit goes after FEEDBACK_DURATION frames.
BannerGoes ==
    /\ Frame
    /\ ConfigView /\ gui.phase \in {"success", "error"}
    /\ Draw(manager, [gui EXCEPT !.phase = "idle"])
    /\ UNCHANGED file

--------------------------------------------------------------------------------
(* The views *)

\* An input to the content of a view: draft and form of a list after it.
ListInput(m, list, form) ==
    /\ manager' = m
    /\ forms' = [forms EXCEPT ![list] = form]
    /\ UNCHANGED <<file, gui, picker, panel>>

InList(list) == Frame /\ gui.view = list /\ forms[list].selected = None

InDetail(list) == Frame /\ gui.view = list /\ forms[list].selected # None

WithList(m, list, entries) == [m EXCEPT !.draft.lists[list] = entries]

\* "Create" of the agents, channels and skills: the name must be new.
CreateEntry(list, entry) ==
    LET old == manager.draft.lists[list]
    IN /\ InList(list)
       /\ Len(old) < MaxEntries
       /\ \A e \in Range(old) : e.name # entry.name
       /\ ListInput(WithList(BeginEdit(manager), list, Append(old, entry)), list, forms[list])

\* A blank agent, or one cloned or made from a template: it gets its directory.
CreateAgent(name, template) == CreateEntry("agents", NewEntry(name, template))

\* The button of a template that no agent is named after or made from.
AddTemplate(template) ==
    /\ \A e \in Range(manager.draft.lists["agents"]) : e.target # template
    /\ CreateEntry("agents", NewEntry(template, template))

\* A channel of a known platform has an account from the start.
CreateChannel(key, known) ==
    CreateEntry("channels", [NewEntry(key, None) EXCEPT !.form = IF known THEN "default" ELSE None])

CreateSkill(key) == CreateEntry("skills", NewEntry(key, None))

DeleteEntry(list, i) ==
    /\ InList(list)
    /\ i \in DOMAIN manager.draft.lists[list]
    /\ ListInput(WithList(BeginEdit(manager), list, RemoveAt(manager.draft.lists[list], i)), list, forms[list])

OpenDetail(list, i) ==
    /\ InList(list)
    /\ i \in DOMAIN manager.draft.lists[list]
    /\ ListInput(manager, list,
                 [forms[list] EXCEPT !.selected = IF list \in IndexedLists THEN i ELSE manager.draft.lists[list][i].name])

\* The fields of a detail form write into the draft at once.
EditDetail(list, entry) ==
    LET drawn == DrawDetail(manager, list, forms[list])
    IN /\ InDetail(list) /\ drawn.at # 0
       /\ list \in KeyedLists => entry.name = drawn.m.draft.lists[list][drawn.at].name
       /\ list \in KeyedLists => entry.target = None
       /\ entry # drawn.m.draft.lists[list][drawn.at]
       /\ ListInput([drawn.m EXCEPT !.draft.lists[list][drawn.at] = entry], list, drawn.form)

BackClicked(list) ==
    LET drawn == DrawDetail(manager, list, forms[list])
    IN /\ InDetail(list) /\ drawn.at # 0
       /\ ListInput(drawn.m, list, Closed)

DetailDelete(list) ==
    LET drawn == DrawDetail(manager, list, forms[list])
    IN /\ InDetail(list) /\ drawn.at # 0
       /\ ListInput(WithList(drawn.m, list, RemoveAt(drawn.m.draft.lists[list], drawn.at)), list, Closed)

HasBinding(bindings, agent, channel) == \E e \in Range(bindings) : e.name = agent /\ e.target = channel

AddBinding(bindings, agent, channel) == Append(bindings, NewEntry(agent, channel))

\* All that bind the two go, whatever else they match on.
RemoveBinding(bindings, agent, channel) ==
    SelectSeq(bindings, LAMBDA e : ~(e.name = agent /\ e.target = channel))

\* A cell of the matrix of agents and channels.
ToggleBinding(agent, channel) ==
    LET old == manager.draft.lists["bindings"]
        new == IF HasBinding(old, agent, channel) THEN RemoveBinding(old, agent, channel)
               ELSE AddBinding(old, agent, channel)
    IN /\ InList("bindings")
       /\ \E e \in Range(manager.draft.lists["agents"]) : e.name = agent
       /\ \E e \in Range(manager.draft.lists["channels"]) : e.name = channel
       /\ Len(new) <= MaxEntries
       /\ ListInput(WithList(BeginEdit(manager), "bindings", new), "bindings", forms["bindings"])

PickBinding(p) ==
    /\ InList("bindings")
    /\ p.agent \in {None} \cup (1..Offered(manager.draft, "agents"))
    /\ p.channel \in {None} \cup (1..Offered(manager.draft, "channels"))
    /\ p # picker
    /\ picker' = p
    /\ UNCHANGED <<manager, file, gui, forms, panel>>

\* "Create" of the form for a binding forgets the two indexes it has used and
\* unwraps them again for its note on duplicates.
CreateBinding ==
    /\ InList("bindings")
    /\ picker.open /\ None \notin {picker.agent, picker.channel}
    /\ panel' = "panicked"
    /\ UNCHANGED <<manager, file, gui, forms, picker>>

\* The cards of a list: "Edit" and "Delete".
AgentCards == \E i \in 1..MaxEntries : OpenDetail("agents", i) \/ DeleteEntry("agents", i)

ChannelCards == \E i \in 1..MaxEntries : OpenDetail("channels", i) \/ DeleteEntry("channels", i)

SkillCards == \E i \in 1..MaxEntries : OpenDetail("skills", i) \/ DeleteEntry("skills", i)

BindingCards == \E i \in 1..MaxEntries : OpenDetail("bindings", i) \/ DeleteEntry("bindings", i)

\* The detail forms: their fields, "Back" and "Delete".
EntryForm(list, targets) ==
    \/ \E name \in Names \cup {None}, target \in targets :
          EditDetail(list, [name |-> name, target |-> target, form |-> "edited"])
    \/ BackClicked(list)
    \/ DetailDelete(list)

AgentForm == EntryForm("agents", Names \cup {None})

ChannelForm == EntryForm("channels", {None})

SkillForm == EntryForm("skills", {None})

BindingForm == EntryForm("bindings", Names \cup {None})

\* The fields of the settings write into the draft, which is not saved for
\* undo before.
EditSettings(tab, s) ==
    /\ Frame /\ gui.view = "settings" /\ gui.tab = tab
    /\ manager' = [manager EXCEPT !.draft.settings[tab] = s]
    /\ UNCHANGED <<file, gui, forms, picker, panel>>

GatewayTab == \E s \in Settings : EditSettings("gateway", s)

ModelsTab == \E s \in Settings : EditSettings("models", s)

SelectTab(tab) ==
    /\ Frame /\ gui.view = "settings"
    /\ Draw(manager, [gui EXCEPT !.tab = tab])
    /\ UNCHANGED file

\* The raw editor edits a copy of the draft, which "Save" puts in its place.
RawEdit ==
    /\ Frame /\ gui.view = "settings" /\ gui.tab = "raw" /\ gui.raw = <<>>
    /\ gui' = [gui EXCEPT !.raw = <<manager.draft>>]
    /\ UNCHANGED <<manager, file, forms, picker, panel>>

RawSave(tab, s) ==
    /\ Frame /\ gui.view = "settings" /\ gui.tab = "raw" /\ gui.raw # <<>>
    /\ manager' = [manager EXCEPT !.draft = [gui.raw[1] EXCEPT !.settings[tab] = s]]
    /\ gui' = [gui EXCEPT !.raw = <<>>]
    /\ UNCHANGED <<file, forms, picker, panel>>

RawCancel ==
    /\ Frame /\ gui.view = "settings" /\ gui.tab = "raw" /\ gui.raw # <<>>
    /\ gui' = [gui EXCEPT !.raw = <<>>]
    /\ UNCHANGED <<manager, file, forms, picker, panel>>

RawTab == RawEdit \/ RawCancel \/ \E tab \in Tabs, s \in Settings : RawSave(tab, s)

\* The panel is started again, after a panic or not, and reads the file.
Restart ==
    /\ frames < MaxFrames /\ frames' = frames + 1
    /\ panel' = IF file.torn THEN "unloaded" ELSE "running"
    /\ manager' = IF file.torn THEN manager ELSE LoadConfig(file.config)
    /\ gui' = [view |-> "dashboard", tab |-> "gateway", phase |-> "idle", raw |-> <<>>]
    /\ forms' = [l \in Lists |-> Closed]
    /\ picker' = [open |-> FALSE, agent |-> None, channel |-> None]
    /\ UNCHANGED file

--------------------------------------------------------------------------------
GuiInit ==
    /\ file \in [config : Files, torn : {FALSE}]
    /\ manager = LoadConfig(file.config)
    /\ gui = [view |-> "dashboard", tab |-> "gateway", phase |-> "idle", raw |-> <<>>]
    /\ forms = [l \in Lists |-> Closed]
    /\ picker = [open |-> FALSE, agent |-> None, channel |-> None]
    /\ panel = "running"
    /\ frames = 0

AgentInput ==
    \/ \E name \in Names, template \in Names \cup {None} : CreateAgent(name, template)
    \/ \E template \in Names : AddTemplate(template)
    \/ AgentCards \/ AgentForm

ChannelInput ==
    \/ \E key \in Names, known \in BOOLEAN : CreateChannel(key, known)
    \/ ChannelCards \/ ChannelForm

SkillInput == (\E key \in Names : CreateSkill(key)) \/ SkillCards \/ SkillForm

BindingInput ==
    \/ \E agent, channel \in Names : ToggleBinding(agent, channel)
    \/ \E p \in [open : {TRUE}, agent : {None} \cup (1..MaxEntries), channel : {None} \cup (1..MaxEntries)] : PickBinding(p)
    \/ PickBinding([picker EXCEPT !.open = FALSE])
    \/ CreateBinding
    \/ BindingCards \/ BindingForm

SettingsInput == GatewayTab \/ ModelsTab \/ RawTab \/ \E tab \in Tabs \cup {"raw"} : SelectTab(tab)

GuiNext ==
    \/ Repaint \/ SaveShortcut \/ UndoClicked \/ RedoClicked
    \/ \E view \in Lists \cup {"dashboard", "settings"} : Navigate(view)
    \/ SaveClicked \/ DiscardClicked \/ CancelClicked \/ Commit \/ BannerGoes
    \/ AgentInput \/ ChannelInput \/ SkillInput \/ BindingInput \/ SettingsInput
    \/ Restart

GuiSpec == GuiInit /\ [][GuiNext]_guiVars

--------------------------------------------------------------------------------
(* Properties *)

\* The undo and redo stacks hold at most MAX_UNDO_DEPTH drafts together, and
\* outside a failed write the file says what the panel takes for saved: what
\* was committed last, whatever panics and restarts came between, but for
\* references to variables, which the panel replaces when it reads the file.
DraftHistoryHolds ==
    /\ Len(manager.undo) + Len(manager.redo) <= MaxUndo
    /\ panel = "running" /\ ~file.torn => Loaded(file.config) = Loaded(manager.live)

\* A frame never draws the detail form of an entry that is gone, which would
\* panic: undo, redo, discard and the raw editor may take it away at any time.
FormHasEntry ==
    [][ \A list \in Lists :
           gui'.view = list /\ forms'[list].selected # None /\ forms'[list].snapshot /\ forms[list].selected # None
           => Place(manager'.draft, list, forms'[list].selected) # 0 ]_guiVars

\* config_manager.rs:4: "changes are only persisted on explicit commit after
\* validation and user confirmation".  Ctrl+S leads past the validation.
OnlyValidIsWritten == ~file.torn => ~FailsValidation(file.config)

\* bindings.rs:3 offers creating among the things its view does.
PanelSurvives == panel # "panicked"

\* agents.rs:104: "Whether we've already taken an undo snapshot for this
\* detail session."  A form left because its entry is gone keeps the flag.
SnapshotPerSession == \A list \in Lists : forms[list].snapshot => forms[list].selected # None
================================================================================
