----------------------------- MODULE MCWebClient -----------------------------
(***************************************************************************)
(* Pages of the web client, for TLC.  A tab of the browser shows one       *)
(* of them at a time, and a page keeps its state for itself: what two of   *)
(* them share is on the server, where each page's module has it changed by *)
(* others.  So the instance is a tab that is open at one page, whichever,  *)
(* with the server around it; the pages that are not open stay as they     *)
(* begin.                                                                  *)
(***************************************************************************)
EXTENDS
    StudioProperties, AdminSettingsProperties, CanvasAssistantProperties, CanvasSavesProperties,
    WorkflowLibraryProperties, AdminListsProperties

CONSTANT Pages   \* the pages that are looked at
VARIABLE tab     \* the page that is open

MCDoings == [image |-> 2, video |-> 3, model3d |-> 3]

allVars == <<tab, studioVars, settingsVars, assistantVars, savesVars, libraryVars, listVars>>

\* The pages other than one do nothing.
OthersStay(t) ==
    /\ UNCHANGED tab
    /\ IF t = "studio" THEN TRUE ELSE UNCHANGED studioVars
    /\ IF t = "settings" THEN TRUE ELSE UNCHANGED settingsVars
    /\ IF t = "assistant" THEN TRUE ELSE UNCHANGED assistantVars
    /\ IF t = "saves" THEN TRUE ELSE UNCHANGED savesVars
    /\ IF t = "library" THEN TRUE ELSE UNCHANGED libraryVars
    /\ IF t = "lists" THEN TRUE ELSE UNCHANGED listVars

ClientInit ==
    /\ tab \in Pages
    /\ StudioInit /\ (tab # "studio" => bench = "image")
    /\ SettingsInit /\ (tab # "settings" => \A i \in 1 .. 2 : stored.channels[i].name = CHOOSE n \in ChannelNames : TRUE)
    /\ AssistantInit /\ (tab # "assistant" => mode = "chat")
    /\ SavesInit /\ (tab # "saves" => record.title = CHOOSE t \in Titles : TRUE)
    /\ LibraryInit /\ picked = {} /\ (tab # "library" => credits /\ \A f \in Flows : ~cloud[f].there)
    /\ ListsInit /\ (tab # "lists" => office = "database")

ClientNext ==
    \/ tab = "studio" /\ StudioNext /\ OthersStay("studio")
    \/ tab = "settings" /\ SettingsNext /\ OthersStay("settings")
    \/ tab = "assistant" /\ AssistantNext /\ OthersStay("assistant")
    \/ tab = "saves" /\ SavesNext /\ OthersStay("saves")
    \/ tab = "library" /\ LibraryNext /\ OthersStay("library")
    \/ tab = "lists" /\ ListsNext /\ OthersStay("lists")

\* The fairness of each page, while it is the one that is open.
ClientFairness ==
    /\ \A i \in 1 .. MaxCount : WF_studioVars(tab = "studio" /\ SlotStep(i))
    /\ \A t \in 1 .. MaxCount * MaxDoings["video"] :
          WF_studioVars(tab = "studio" /\ t \in DOMAIN tasks /\ TaskStep(t))
    /\ WF_studioVars(tab = "studio" /\ RecordSaved)
    /\ \A l \in 1 .. MaxLists :
          WF_studioVars(tab = "studio" /\ l \in DOMAIN lists /\ (RecordsServed(l) \/ ListArrived(l)))
    /\ \A turn \in 1 .. MaxTalks :
          WF_assistantVars(/\ tab = "assistant"
                           /\ \E s \in sends : /\ s.turn = turn
                                               /\ \/ SessionRead(s) \/ SendAnswered(s)
                                                  \/ SaveCanvasAssistantSession(s))
    /\ WF_savesVars(tab = "saves" /\ Restore) /\ WF_savesVars(tab = "saves" /\ ViewSaveFires)
    /\ WF_savesVars(tab = "saves" /\ AutoSaveFires)
    /\ \A i \in 1 .. MaxSaves : WF_savesVars(tab = "saves" /\ (SaveServed(i) \/ SaveAnswered(i)))
    /\ WF_listVars(tab = "lists" /\ ListReplies)

ClientSpec == ClientInit /\ [][ClientNext]_allVars
FairClientSpec == ClientSpec /\ ClientFairness
=============================================================================
