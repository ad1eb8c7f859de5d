---------------------------- MODULE AdminSettings ----------------------------
(***************************************************************************)
(* The settings page of the administration, (admin)/admin/settings/page.tsx, *)
(* and SaveSettings under it: one document that the page reads, edits in   *)
(* many places and sends back whole.  A save or a load in flight finds, at *)
(* its return, whatever has been edited since; and the secrets, which never *)
(* leave the server, are put back into a document that was sent without.   *)
(*                                                                         *)
(* Of the document: the model channels, the models open to the users, the  *)
(* default one, the prices, and "rest" for every other field.  A channel's *)
(* name stands for its name and its base URL.                              *)
(***************************************************************************)
EXTENDS Integers, Sequences, FiniteSets, SequencesExt, FiniteSetsExt

CONSTANTS
    ChannelNames, Models, Texts,
    MaxRequests,  \* bound: loads and saves in flight
    MaxOperations      \* bound: things done at the page, and requests that fail

VARIABLES
    stored,       \* the server's document
    form,         \* the page's, with the keys that were typed
    listed,       \* the channels of the table
    json,         \* the two halves when they are edited as text
    hint,         \* what the page says of its state
    loaded,       \* settingsLoadedRef: edits count as such
    reading, isSaving,  \* what the buttons show
    requests,     \* loads and saves in flight, in the order they left
    drawer,       \* the channel being edited
    selector,     \* the models ticked for it
    editor,       \* the login provider or mail template being edited
    dialog,       \* the channel being tested, and the verdicts shown
    probes,       \* tests and lists of models in flight
    edits

sheet == <<form, listed, json, hint>>
windows == <<drawer, selector, editor, dialog>>
flags == <<loaded, reading, isSaving>>
settingsVars == <<stored, sheet, flags, requests, windows, probes, edits>>

None == "none"
Nonsense == "nonsense"
DefaultText == CHOOSE t \in Texts : TRUE
Edit == edits < MaxOperations /\ edits' = edits + 1
Tabs == {"public", "private"}

------------------------------------------------------------------------------
(* The document *)

On(channels) == {c \in ToSet(channels) : c.on}
Offered(channels) == UNION {DOMAIN c.ids : c \in On(channels)}

\* channelModelId: of the first channel in use that has one for the model.
ChannelModelId(channels, m) ==
    LET with == {i \in DOMAIN channels : /\ channels[i].on
                                        /\ m \in DOMAIN channels[i].ids /\ channels[i].ids[m] # 0}
    IN  IF with = {} THEN 0 ELSE channels[Min(with)].ids[m]

\* Mutant: a price is found by the identity of the model alone.
SyncById(prices, open, channels) ==
    [m \in open \cap Offered(channels) |->
        LET id == ChannelModelId(channels, m)
            same == {k \in DOMAIN prices : id # 0 /\ prices[k].id = id}
        IN  [id |-> id, credits |-> IF same # {} THEN prices[CHOOSE k \in same : TRUE].credits ELSE 0]]

\* A price for each of these models, found by the model's identity, else by its name.
Costs(prices, models, channels) ==
    [m \in models |->
        LET id == ChannelModelId(channels, m)
            same == {k \in DOMAIN prices : id # 0 /\ prices[k].id = id}
        IN  [id |-> id,
             credits |-> IF same # {} THEN prices[CHOOSE k \in same : TRUE].credits
                         ELSE IF m \in DOMAIN prices THEN prices[m].credits ELSE 0]]

\* syncModelCostsWithPublicModels: every open model that a channel offers has a price.
SyncModelCosts(prices, open, channels) == Costs(prices, open \cap Offered(channels), channels)

\* emptySettings: what the page shows before the first answer, and could send.
EmptySettings == [channels |-> <<>>, open |-> {}, default |-> None, rest |-> DefaultText, prices |-> <<>>, seq |-> 0]

\* Text that is read may hold values that no field would take: a price below zero, or
\* another field out of its range.  (The second price or entry of a model, which is dropped
\* as well, has no place in a function or a set of models.)
NotBelowZero(price) == [price EXCEPT !.credits = Max({0, @})]
NormalizePublicSetting(doc) == [doc EXCEPT !.prices = [m \in DOMAIN @ |-> NotBelowZero(@[m])]]
NormalizePrivateSetting(doc) == [doc EXCEPT !.rest = IF @ = Nonsense THEN DefaultText ELSE @]
NormalizeSettings(doc) == NormalizePublicSetting(NormalizePrivateSetting(doc))

\* firstModel: lists of models are sets here, so the first one is some fixed one.
FirstModel(open) == IF open = {} THEN None ELSE CHOOSE m \in open : TRUE
ModelInScope(m, open) == IF m \in open THEN m ELSE FirstModel(open)

\* The document as the page sends it: only what a channel in use offers stays open.
Scoped(doc) ==
    LET open == doc.open \cap Offered(doc.channels)
    IN  [doc EXCEPT !.open = open, !.default = ModelInScope(@, open),
                    !.prices = SyncModelCosts(doc.prices, open, doc.channels)]

PublicOf(doc, from) == [doc EXCEPT !.open = from.open, !.default = from.default, !.prices = from.prices]
PrivateOf(doc, from) == [doc EXCEPT !.channels = from.channels, !.rest = from.rest]
\* parseTabJson: the half that is written as text.
ParseTabJson(doc, tab) ==
    NormalizeSettings(IF tab = "public" THEN PublicOf(doc, json[tab].doc) ELSE PrivateOf(doc, json[tab].doc))

\* collectSettings, when neither text is broken: the form, but for the halves that
\* are edited as text.
Readable == \A tab \in Tabs : json[tab].mode # "broken"
CollectSettings(doc) ==
    LET public == IF json["public"].mode = "json" THEN ParseTabJson(doc, "public") ELSE doc
    IN  Scoped(IF json["private"].mode = "json" THEN ParseTabJson(public, "private") ELSE public)

------------------------------------------------------------------------------
(* The server *)

\* Mutant: a channel that was renamed is not found by its place.
KeyByName(channel, i) ==
    LET same == {j \in DOMAIN stored.channels : stored.channels[j].name = channel.name}
    IN  IF channel.key # 0 THEN channel.key
        ELSE IF same # {} THEN stored.channels[Min(same)].key
        ELSE 0

\* keepPrivateAPIKeys: a key left empty is that of the first channel of this name,
\* else of the channel at this place.
KeepKey(channel, i) ==
    LET same == {j \in DOMAIN stored.channels : stored.channels[j].name = channel.name}
    IN  IF channel.key # 0 THEN channel.key
        ELSE IF same # {} THEN stored.channels[Min(same)].key
        ELSE IF i \in DOMAIN stored.channels THEN stored.channels[i].key
        ELSE 0

\* The models of channels that have no identity, or that of a model of a channel before:
\* a channel may be saved over another one that has taken its place in the table.
Unidentified(doc) ==
    {p \in (DOMAIN doc.channels) \X Models :
        LET ids == doc.channels[p[1]].ids
        IN  /\ p[2] \in DOMAIN ids
            /\ \/ ids[p[2]] = 0
               \/ \E j \in 1 .. p[1] - 1 : ids[p[2]] \in Range(doc.channels[j].ids)}

\* normalizeModelMappingsWithIDs: they get the next identities.
WithIds(doc) ==
    LET new == Unidentified(doc)
        order == SetToSeq(new)
        last == Max({doc.seq} \cup UNION {Range(c.ids) : c \in ToSet(doc.channels)})
        id(i, m) == IF <<i, m>> \in new THEN last + CHOOSE k \in DOMAIN order : order[k] = <<i, m>>
                    ELSE doc.channels[i].ids[m]
        ids(i) == [m \in DOMAIN doc.channels[i].ids |-> id(i, m)]
    IN  [doc EXCEPT !.seq = last + Cardinality(new), !.channels = [i \in DOMAIN @ |-> [@[i] EXCEPT !.ids = ids(i)]]]

\* normalizePublicSettingWithChannels: as the page does, but when no channel in use offers
\* anything every model stays open.
ScopedByServer(doc) ==
    LET offered == Offered(doc.channels)
        open == IF offered = {} THEN doc.open ELSE doc.open \cap offered
    IN  [doc EXCEPT !.open = open, !.default = ModelInScope(@, open),
                    !.prices = Costs(doc.prices, open, doc.channels)]

SaveSettings(doc) ==
    LET kept == [doc EXCEPT !.channels = [i \in DOMAIN @ |-> [@[i] EXCEPT !.key = KeepKey(doc.channels[i], i)]]]
    IN  ScopedByServer(WithIds(kept))

\* hidePrivateAPIKeys: no secret is answered.
Hidden(doc) == [doc EXCEPT !.channels = [i \in DOMAIN @ |-> [@[i] EXCEPT !.key = 0]]]

Served(k) ==
    /\ ~requests[k].served
    /\ stored' = IF requests[k].kind = "load" THEN stored ELSE SaveSettings(requests[k].doc)
    /\ requests' = [requests EXCEPT ![k].served = TRUE, ![k].answer = Hidden(stored')]
    /\ UNCHANGED <<sheet, flags, windows, probes, edits>>

------------------------------------------------------------------------------
(* Loads and saves *)

Send(kind, doc) ==
    /\ Len(requests) < MaxRequests
    /\ requests' = Append(requests, [kind |-> kind, doc |-> doc, served |-> FALSE, answer |-> doc])

\* mergeSavedSecrets: keys that were typed stay in the page, by place.
MergeSavedSecrets(current, saved) ==
    LET key(i) == IF i \in DOMAIN current.channels /\ current.channels[i].key # 0
                  THEN current.channels[i].key ELSE saved.channels[i].key
    IN  [saved EXCEPT !.channels = [i \in DOMAIN @ |-> [@[i] EXCEPT !.key = key(i)]]]

\* A document that arrives is shown everywhere, texts included.
ShowDocument(doc) ==
    /\ form' = doc /\ listed' = doc.channels
    /\ json' = [tab \in Tabs |-> IF json[tab].mode = "visual" THEN json[tab] ELSE [mode |-> "json", doc |-> doc]]

\* Until the answer is there nothing that is edited is marked.
StartLoad ==
    /\ Send("load", form)
    /\ loaded' = FALSE /\ reading' = TRUE
    /\ UNCHANGED <<stored, sheet, isSaving, windows, probes>>
LoadSettings == ~reading /\ StartLoad

\* The window gets the focus again.
RefreshSettings ==
    /\ hint # "unsaved" /\ ~isSaving /\ editor.on = None /\ ~drawer.open /\ ~selector.open
    /\ StartLoad

\* saveSettings: the header, a section, or a window that closes.
StartSave(doc) ==
    IF Readable
    THEN /\ Send("page", CollectSettings(doc))
         /\ isSaving' = TRUE /\ hint' = "saving"
    ELSE UNCHANGED <<requests, isSaving, hint>>
SectionSaveButton ==
    /\ ~isSaving /\ Readable
    /\ StartSave(form)
    /\ UNCHANGED <<stored, form, listed, json, loaded, reading, windows, probes>>

\* persistChannels: the form is sent with other channels; no flag is looked at.
PersistChannels(channels) == Send("channels", Scoped([form EXCEPT !.channels = channels]))

NoDrawer == [open |-> FALSE, index |-> 0, channel |-> [id |-> 0, name |-> None, on |-> TRUE, key |-> 0, ids |-> <<>>]]

Arrived(k) ==
    /\ requests[k].served
    /\ requests' = RemoveAt(requests, k)
    /\ LET r == requests[k]
       IN  CASE r.kind = "load" ->
                  /\ ShowDocument(r.answer)
                  /\ loaded' = TRUE /\ reading' = FALSE /\ hint' = "manual"
                  /\ UNCHANGED <<isSaving, drawer>>
             [] r.kind = "page" ->
                  /\ ShowDocument(MergeSavedSecrets(r.doc, r.answer))
                  /\ isSaving' = FALSE /\ hint' = "saved"
                  /\ UNCHANGED <<loaded, reading, drawer>>
             [] OTHER ->
                  /\ ShowDocument(MergeSavedSecrets(r.doc, r.answer))
                  /\ drawer' = IF r.kind = "drawer" THEN NoDrawer ELSE drawer
                  /\ UNCHANGED <<flags, hint>>
    /\ UNCHANGED <<stored, selector, editor, dialog, probes, edits>>

\* A request that fails before or after it was served: the page keeps what it shows.
Failed(k) ==
    /\ requests' = RemoveAt(requests, k)
    /\ LET kind == requests[k].kind
       IN  /\ reading' = IF kind = "load" THEN FALSE ELSE reading
           /\ isSaving' = IF kind = "page" THEN FALSE ELSE isSaving
           /\ hint' = IF kind = "page" THEN "failed" ELSE hint
    /\ UNCHANGED <<stored, form, listed, json, loaded, windows, probes>>

------------------------------------------------------------------------------
(* Fields *)

Marked == IF loaded THEN "unsaved" ELSE hint

\* handleFormValuesChange: a field of one of the tabs.
ChangeForm(doc) ==
    /\ form' = doc
    /\ hint' = IF editor.on = None THEN Marked ELSE hint
    /\ UNCHANGED <<stored, listed, json, flags, requests, windows, probes>>
Rest == \E text \in Texts : text # form.rest /\ ChangeForm([form EXCEPT !.rest = text])

PublicModels ==
    \/ \E m \in Models \cap (Offered(listed) \cup form.open) : ChangeForm([form EXCEPT !.open = SymDiff(@, {m})])
    \/ \E m \in form.open \ {form.default} : ChangeForm([form EXCEPT !.default = m])

\* setModelCost: one price of the table, which is brought up to date with it.
SetModelCost ==
    \E m \in form.open \cap Offered(listed) :
        LET prices == SyncModelCosts(form.prices, form.open, form.channels)
        IN  m \in DOMAIN prices /\ ChangeForm([form EXCEPT !.prices = [prices EXCEPT ![m].credits = IF @ = 2 THEN 1 ELSE 2]])

\* A half is shown as text, or the text is read into the form.
ToggleMode(tab) ==
    /\ IF json[tab].mode = "visual"
       THEN /\ json' = [json EXCEPT ![tab] = [mode |-> "json", doc |-> form]]
            /\ UNCHANGED <<form, listed, hint>>
       ELSE /\ json[tab].mode = "json"
            /\ form' = ParseTabJson(form, tab) /\ listed' = IF tab = "private" THEN json[tab].doc.channels ELSE listed
            /\ json' = [json EXCEPT ![tab] = [mode |-> "visual", doc |-> <<>>]]
            /\ hint' = Marked
    /\ UNCHANGED <<stored, flags, requests, windows, probes>>

\* What is typed as text: another field, a model, or something that cannot be read.
WriteJson(tab) ==
    /\ json[tab].mode # "visual"
    /\ \/ json' = [json EXCEPT ![tab].mode = "broken"]
       \/ \E text \in Texts \cup {Nonsense} : json' = [json EXCEPT ![tab].mode = "json", ![tab].doc.rest = text]
       \/ \E m \in Models : json' = [json EXCEPT ![tab].mode = "json", ![tab].doc.open = SymDiff(@, {m})]
       \/ \E m \in DOMAIN json[tab].doc.prices :
             json' = [json EXCEPT ![tab].mode = "json", ![tab].doc.prices[m].credits = -1]
    /\ hint' = Marked
    /\ UNCHANGED <<stored, form, listed, flags, requests, windows, probes>>

JsonTabs == \E tab \in Tabs : ToggleMode(tab) \/ WriteJson(tab)

------------------------------------------------------------------------------
(* Windows *)

Providers == {"oauth", "metamask", "custom"}
NoEditor == [on |-> None, draft |-> None, snapshot |-> <<>>]

\* The editor of a login provider writes into the form, and remembers how that was;
\* a provider of one's own is added to it at once.
OpenAuthProviderEditor(kind) ==
    /\ editor' = [on |-> kind, draft |-> None, snapshot |-> <<form>>]
    /\ UNCHANGED <<stored, sheet, flags, requests, drawer, selector, dialog, probes>>
AddCustomAuthProvider ==
    /\ editor' = [on |-> "custom", draft |-> None, snapshot |-> <<form>>]
    /\ \E text \in Texts \ {form.rest} : form' = [form EXCEPT !.rest = text]
    /\ UNCHANGED <<stored, listed, json, hint, flags, requests, drawer, selector, dialog, probes>>

OAuthProviderFields == editor.on = "oauth" /\ Rest
MetaMaskProviderFields == editor.on = "metamask" /\ Rest
CustomProviderFields == editor.on = "custom" /\ Rest

\* Cancelled, saved with the whole form, or a provider of one's own removed.
OAuthProviderEditor ==
    /\ editor.on \in Providers
    /\ editor' = NoEditor
    /\ \/ form' = Head(editor.snapshot) /\ UNCHANGED <<requests, isSaving, hint>>
       \/ UNCHANGED form /\ StartSave(form)
       \/ /\ editor.on = "custom"
          /\ \E text \in Texts \ {form.rest} :
                form' = [form EXCEPT !.rest = text] /\ StartSave(form')
    /\ UNCHANGED <<stored, listed, json, loaded, reading, drawer, selector, dialog, probes>>

\* That of a mail template has a draft of its own.
MailTemplateBlock ==
    /\ editor' = [on |-> "template", draft |-> form.rest, snapshot |-> <<>>]
    /\ UNCHANGED <<stored, sheet, flags, requests, drawer, selector, dialog, probes>>
SetTemplateField ==
    /\ editor.on = "template"
    /\ \E text \in Texts \ {editor.draft} : editor' = [editor EXCEPT !.draft = text]
    /\ UNCHANGED <<stored, sheet, flags, requests, drawer, selector, dialog, probes>>
MailTemplateEditor ==
    /\ editor.on = "template"
    /\ editor' = NoEditor
    /\ \/ UNCHANGED <<form, requests, isSaving, hint>>
       \/ form' = [form EXCEPT !.rest = editor.draft] /\ StartSave(form')
    /\ UNCHANGED <<stored, listed, json, loaded, reading, drawer, selector, dialog, probes>>

\* The drawer of a channel: a copy, and the place it was taken from.
OpenChannelDrawer ==
    /\ drawer' \in {[open |-> TRUE, index |-> i, channel |-> listed[i]] : i \in DOMAIN listed}
                   \cup {[open |-> TRUE, index |-> 0, channel |-> [NoDrawer.channel EXCEPT !.id = 10 + edits]]}
    /\ UNCHANGED <<stored, sheet, flags, requests, selector, editor, dialog, probes>>

CloseChannelDrawer ==
    /\ drawer.open /\ drawer' = NoDrawer
    /\ UNCHANGED <<stored, sheet, flags, requests, selector, editor, dialog, probes>>

ChannelFields ==
    /\ drawer.open
    /\ \/ \E name \in ChannelNames \ {drawer.channel.name} : drawer' = [drawer EXCEPT !.channel.name = name]
       \/ drawer' = [drawer EXCEPT !.channel.on = ~@]
       \/ drawer.channel.key = 0 /\ drawer' = [drawer EXCEPT !.channel.key = 100 + drawer.channel.id]
       \/ \E m \in Models \ DOMAIN drawer.channel.ids :
             drawer' = [drawer EXCEPT !.channel.ids = [n \in DOMAIN @ \cup {m} |-> IF n = m THEN 0 ELSE @[n]]]
       \/ \E m \in DOMAIN drawer.channel.ids : \* the name of a model, which keeps its identity
             \E to \in Models \ DOMAIN drawer.channel.ids :
                drawer' = [drawer EXCEPT !.channel.ids =
                    [n \in (DOMAIN @ \ {m}) \cup {to} |-> IF n = to THEN @[m] ELSE @[n]]]
    /\ UNCHANGED <<stored, sheet, flags, requests, selector, editor, dialog, probes>>

\* saveChannel closes the drawer only when the server has answered: it may be pressed
\* again, and its place may be another channel's by then.
SaveChannel ==
    /\ drawer.open /\ drawer.channel.name # None
    /\ drawer.index = 0 => drawer.channel.key # 0
    /\ LET channels == IF drawer.index \in DOMAIN listed THEN [listed EXCEPT ![drawer.index] = drawer.channel]
                       ELSE Append(listed, drawer.channel)
       IN  Send("drawer", Scoped([form EXCEPT !.channels = channels]))
    /\ UNCHANGED <<stored, sheet, flags, windows, probes>>

ChannelDrawer == CloseChannelDrawer \/ ChannelFields \/ SaveChannel

\* A channel goes at once.
DeleteChannel ==
    /\ \E i \in DOMAIN listed : PersistChannels(RemoveAt(listed, i))
    /\ UNCHANGED <<stored, sheet, flags, windows, probes>>

\* The window that ticks the models of a channel: those it has, and those that are known.
OpenChannelModelSelector ==
    /\ drawer.open
    /\ selector' = [open |-> TRUE, ticked |-> DOMAIN drawer.channel.ids]
    /\ UNCHANGED <<stored, sheet, flags, requests, drawer, editor, dialog, probes>>
CloseChannelModelSelector ==
    /\ selector.open /\ selector' = [selector EXCEPT !.open = FALSE]
    /\ UNCHANGED <<stored, sheet, flags, requests, drawer, editor, dialog, probes>>
ToggleSelectedModel ==
    /\ selector.open
    /\ \E m \in Models : selector' = [selector EXCEPT !.ticked = SymDiff(@, {m})]
    /\ UNCHANGED <<stored, sheet, flags, requests, drawer, editor, dialog, probes>>

\* The channel gets what is ticked; what it had keeps its identity.
ConfirmChannelModelSelector ==
    /\ selector.open
    /\ drawer' = [drawer EXCEPT !.channel.ids = [m \in selector.ticked |-> IF m \in DOMAIN @ THEN @[m] ELSE 0]]
    /\ selector' = [selector EXCEPT !.open = FALSE]
    /\ UNCHANGED <<stored, sheet, flags, requests, editor, dialog, probes>>
Probe(p) == p \notin probes /\ probes' = probes \cup {p}
sameButProbes == UNCHANGED <<stored, sheet, flags, requests, windows>>

\* The models are asked of the provider; the answer opens the selector, even when the
\* drawer is closed by then.
FetchChannelModelList == selector.open /\ drawer.channel.name # None /\ Probe([kind |-> "models", channel |-> drawer.index, model |-> None]) /\ sameButProbes
ModelSelector ==
    \/ CloseChannelModelSelector \/ ToggleSelectedModel \/ ConfirmChannelModelSelector
    \/ FetchChannelModelList

ChannelModelsFetched(p) ==
    /\ p.kind = "models"
    /\ selector' = [open |-> TRUE,
                    ticked |-> Models \cup IF selector.open THEN selector.ticked ELSE DOMAIN drawer.channel.ids]
    /\ UNCHANGED <<stored, sheet, flags, requests, drawer, editor, dialog>>

\* Settings of the mail and of the storage are tried out as the form has them.
SendTestMail == Probe([kind |-> "mail", channel |-> 0, model |-> None]) /\ sameButProbes
TestCurrentCloudStorage == Probe([kind |-> "storage", channel |-> 0, model |-> None]) /\ sameButProbes

\* The models of a channel are tried out in a window of their own; its verdicts are
\* kept by model, whichever channel was asked.
NoDialog == [channel |-> 0, verdicts |-> {}]
OpenTestDialog ==
    /\ \E i \in DOMAIN listed : listed[i].ids # <<>> /\ dialog' = [channel |-> i, verdicts |-> {}]
    /\ UNCHANGED <<stored, sheet, flags, requests, drawer, selector, editor, probes>>
CloseTestDialog ==
    /\ dialog' = NoDialog
    /\ UNCHANGED <<stored, sheet, flags, requests, drawer, selector, editor, probes>>
TestModelOnline ==
    /\ dialog.channel \in DOMAIN listed
    /\ \E m \in DOMAIN listed[dialog.channel].ids : Probe([kind |-> "model", channel |-> dialog.channel, model |-> m])
    /\ sameButProbes
TestDialog == dialog.channel # 0 /\ (CloseTestDialog \/ TestModelOnline)
ModelTested(p) ==
    /\ p.kind = "model"
    /\ dialog' = [dialog EXCEPT !.verdicts = @ \cup {p.model}]
    /\ UNCHANGED <<stored, sheet, flags, requests, drawer, selector, editor>>

ProbeAnswered ==
    \E p \in probes :
        /\ probes' = probes \ {p}
        /\ \/ ModelTested(p) \/ ChannelModelsFetched(p)
           \/ sameButProbes  \* it failed, or only says so
        /\ UNCHANGED edits

------------------------------------------------------------------------------
(* The page.  An open window hides the rest of it. *)

Uncovered == editor.on = None /\ ~drawer.open /\ ~selector.open /\ dialog.channel = 0
PublicModelsTab == PublicModels \/ SectionSaveButton
BillingTab == SetModelCost \/ SectionSaveButton
ChannelsTab == OpenTestDialog \/ OpenChannelDrawer \/ DeleteChannel
PublicTab == json["public"].mode = "visual" /\ (Rest \/ SectionSaveButton)
PrivateTab == json["private"].mode = "visual" /\ (Rest \/ SectionSaveButton)
RuntimeTab == Rest \/ SectionSaveButton
PagesTab == Rest \/ SectionSaveButton
BillingKycTab == Rest \/ SectionSaveButton
CloudStorageTab == Rest \/ SectionSaveButton \/ TestCurrentCloudStorage
MailTab == Rest \/ SectionSaveButton \/ SendTestMail
AuthProviderSummaryCard == \E kind \in Providers : OpenAuthProviderEditor(kind)
ThirdPartyTab == AuthProviderSummaryCard \/ AddCustomAuthProvider
Header == SectionSaveButton \/ LoadSettings \/ JsonTabs

DrawerOnTop == drawer.open /\ ~selector.open

Admin ==
    \/ Uncovered /\ (Header \/ PublicModelsTab \/ BillingTab \/ ChannelsTab)
    \/ Uncovered /\ (PublicTab \/ PrivateTab \/ RuntimeTab \/ PagesTab \/ BillingKycTab)
    \/ Uncovered /\ (CloudStorageTab \/ MailTab \/ MailTemplateBlock \/ ThirdPartyTab)
    \/ RefreshSettings
    \/ DrawerOnTop /\ (ChannelDrawer \/ OpenChannelModelSelector)
    \/ ModelSelector
    \/ TestDialog
    \/ OAuthProviderFields \/ MetaMaskProviderFields \/ CustomProviderFields \/ OAuthProviderEditor
    \/ SetTemplateField \/ MailTemplateEditor

SettingsReplies ==
    \/ \E k \in DOMAIN requests : Served(k) \/ Arrived(k) \/ (Edit /\ Failed(k))
    \/ ProbeAnswered

\* Two channels offer the first model, and may share their name and base URL.
Start(names) ==
    LET m == CHOOSE x \in Models : TRUE
    IN  [channels |-> [i \in 1 .. 2 |->
            [id |-> i, name |-> names[i], on |-> TRUE, key |-> i,
             ids |-> IF i = 1 THEN [x \in {m} |-> 1] ELSE [x \in Models |-> IF x = m THEN 2 ELSE 3]]],
         open |-> Models, default |-> m, rest |-> CHOOSE t \in Texts : TRUE,
         prices |-> [x \in Models |-> [id |-> IF x = m THEN 1 ELSE 3, credits |-> 1]],
         seq |-> 3]

SettingsInit ==
    /\ stored \in {Start(names) : names \in [1 .. 2 -> ChannelNames]}
    /\ form = EmptySettings /\ listed = <<>>
    /\ json = [tab \in Tabs |-> [mode |-> "visual", doc |-> <<>>]]
    /\ hint = "manual" /\ loaded = FALSE /\ reading = TRUE /\ isSaving = FALSE
    /\ requests = <<[kind |-> "load", doc |-> form, served |-> FALSE, answer |-> form]>>
    /\ drawer = NoDrawer
    /\ selector = [open |-> FALSE, ticked |-> {}]
    /\ editor = NoEditor /\ dialog = NoDialog
    /\ probes = {} /\ edits = 0

SettingsNext == (Edit /\ Admin) \/ SettingsReplies

SettingsSpec == SettingsInit /\ [][SettingsNext]_settingsVars
=============================================================================
