---------------------------- MODULE ClientInvariant ----------------------------
(***************************************************************************)
(* Why the pages of the web client keep what they promise, whatever is     *)
(* asked, answered and clicked: the library never puts a banned work up    *)
(* again but with what it read before, the lists of the administration     *)
(* never save one row over another, the workbenches never cancel another   *)
(* card's task, the assistant keeps no placeholder, and the settings lose  *)
(* neither a key nor a price.                                              *)
(***************************************************************************)
EXTENDS
    WorkflowLibraryProperties, AdminListsProperties, StudioProperties, CanvasAssistantProperties,
    AdminSettingsProperties

------------------------------------------------------------------------------
(* The library: what a request has read was not banned then *)

LibraryInvariant ==
    /\ Posts \subseteq DOMAIN posts
    /\ \A p \in Posts : "status" \in DOMAIN posts[p]
    /\ \A j \in jobs :
          /\ {"at", "post", "row", "over"} \subseteq DOMAIN j
          /\ "status" \in DOMAIN j.row
          /\ j.at \in {"asked", "read"} => ~j.over

\* A run that goes on knows where it is, and what it is deleting.
OneByOne == {"typing", "again", "last", "asked"}
RunInvariant ==
    /\ run \in [at : OneByOne \cup {"none", "next"}, todo : SUBSET Flows,
               flow : Flows \cup {"none"}, done : SUBSET Flows]
    /\ run.at \in OneByOne => run.flow \in Flows

------------------------------------------------------------------------------
(* The lists: wherever the details of a row are on their way, they are its own *)

Row == [there : BOOLEAN, of : Nat, edition : Nat, credits : Nat, off : BOOLEAN]
FormFields == [of : Nat, edition : Nat]
Stages == {"none", "asked", "served", "settling", "settled"}
ChangeKinds == {"save", "adjust", "delete", "batch", "sync", "category", "ban"}
AllCriteria == [keyword : {"", "one"}, page : {1, 2}]

\* A row of the base carries its own details.
AtHome(r, row) == row \in Row /\ (r \in Base => row.of = r)

\* What a request is answered with, or a page lists.
Lists == {f \in UNION {[D -> Row] : D \in SUBSET Rows} : \A r \in DOMAIN f : AtHome(r, f[r])}
Requests == [at : Stages, criteria : AllCriteria, items : Lists]
Fetches == [at : Stages, criteria : AllCriteria \cup {NoFetch.criteria}, items : Lists]
LeftBehind == [fetch : Fetches, seen : Lists, known : BOOLEAN]

\* What a change in flight saves over a row is that row's, and so is what it saved.
AllChanges ==
    {c \in [kind : ChangeKinds, row : Rows \cup {New}, fields : FormFields, ids : SUBSET Rows,
            at : Stages, awaits : AllCriteria, saved : Row \cup {Blank}] :
        /\ c.kind = "save" /\ c.row \in Base => c.fields.of = c.row
        /\ c.kind \in {"adjust", "delete", "ban"} => c.row \in Rows
        /\ c.row \in Rows /\ c.at # "asked" => AtHome(c.row, c.saved)}

RowsInvariant == rows \in [Rows -> Row] /\ \A r \in Rows : AtHome(r, rows[r])
ListedInvariant ==
    /\ seen \in Lists /\ known \in BOOLEAN /\ criteria \in AllCriteria
    /\ fetch \in Fetches /\ left \subseteq LeftBehind
    /\ loads \in Seq(Requests)
ChangesInvariant == changes \subseteq AllChanges
DialogsInvariant ==
    /\ editing \in [on : BOOLEAN, row : Rows \cup {New}] /\ entered \in FormFields
    /\ editing.row \in Base => entered.of = editing.row
    /\ removing \in Rows \cup {0} /\ ticked \subseteq Rows

ListsInvariant == RowsInvariant /\ ListedInvariant /\ ChangesInvariant /\ DialogsInvariant

------------------------------------------------------------------------------
(* The workbenches: a card that waits in the queue stands for its slot *)

CardFields == {"status", "task"}
SlotFields == {"at", "task"}
StudioInvariant ==
    /\ {"phase", "prompt", "slots"} \subseteq DOMAIN batch
    /\ \A i \in BatchSlots : SlotFields \subseteq DOMAIN batch.slots[i]
    /\ \A i \in DOMAIN results : CardFields \subseteq DOMAIN results[i]
    /\ CancelsItsOwn

------------------------------------------------------------------------------
(* The assistant: what is asked with, kept and fetched has nothing that is *)
(* still being thought about                                               *)

Messages == [role : {"user", "assistant"}, turn : Nat, state : {"said", "loading", "failed"}, ops : BOOLEAN]
Finished == {m \in Messages : m.state # "loading"}
TalkRows == [id : Nat, messages : Seq(Messages)]
KeptRows == [id : Nat, messages : Seq(Finished), deleted : BOOLEAN]
Questions == [turn : Nat, session : Nat, mode : {"plan", "chat"}, at : {"asked", "read", "saved"}, row : Nat,
              here : BOOLEAN, history : Seq(Finished)]

AssistantInvariant ==
    /\ talk \in Seq(TalkRows) \ {<<>>} /\ born \in Nat /\ talks \in Nat
    /\ kept \in Seq(KeptRows)
    /\ sends \subseteq Questions /\ mode \in {"plan", "chat"}
    /\ fetching \in [at : {"none", "asked", "served"}, items : Seq(KeptRows)]

------------------------------------------------------------------------------
(* The settings page: every document, wherever it is, is a whole one, and   *)
(* its channels are a list                                                  *)

DocumentFields == {"channels", "open", "default", "rest", "prices", "seq"}
FieldsOfChannel == {"id", "name", "on", "key", "ids"}
IsSequence(s) == s \in Seq(ToSet(s))
IsChannels(s) == IsSequence(s) /\ \A i \in DOMAIN s : DOMAIN s[i] = FieldsOfChannel
IsDocument(d) == DOMAIN d = DocumentFields /\ IsChannels(d.channels)

StoredInvariant == IsDocument(stored)
ShownInvariant ==
    /\ IsDocument(form) /\ IsChannels(listed)
    /\ DOMAIN json = Tabs
    /\ \A tab \in Tabs : /\ DOMAIN json[tab] = {"mode", "doc"}
                         /\ json[tab].mode # "visual" => IsDocument(json[tab].doc)
RequestsInvariant ==
    /\ IsSequence(requests)
    /\ \A k \in DOMAIN requests : /\ DOMAIN requests[k] = {"kind", "doc", "served", "answer"}
                                  /\ IsDocument(requests[k].doc) /\ IsDocument(requests[k].answer)
WindowsInvariant ==
    /\ DOMAIN drawer = {"open", "index", "channel"} /\ DOMAIN drawer.channel = FieldsOfChannel
    /\ editor.on \in Providers => IsDocument(Head(editor.snapshot))
    /\ "on" \in DOMAIN editor
SettingsInvariant == StoredInvariant /\ ShownInvariant /\ RequestsInvariant /\ WindowsInvariant
=============================================================================
