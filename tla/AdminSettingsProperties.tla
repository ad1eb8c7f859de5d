----------------------- MODULE AdminSettingsProperties -----------------------
(***************************************************************************)
(* What the settings page promises, whatever is in flight.                 *)
(***************************************************************************)
EXTENDS AdminSettings

\* While every channel of the document has its key, none that takes the place of one
\* is saved without: whatever was renamed, removed or moved, and though the page never
\* knew the keys.
KeysStay ==
    [][(\A j \in DOMAIN stored.channels : stored.channels[j].key # 0) =>
           \A i \in DOMAIN stored.channels \cap DOMAIN stored'.channels : stored'.channels[i].key # 0]_settingsVars

\* A model keeps its name in every channel of the document.
NamesKept(before, after) ==
    \A b \in ToSet(before), a \in ToSet(after) :
        \A m \in DOMAIN b.ids, n \in DOMAIN a.ids : b.ids[m] # 0 /\ b.ids[m] = a.ids[n] => m = n

\* A price of the form that cites an identity stands under its model's name.
PricesNamed(doc) ==
    \A k \in DOMAIN doc.prices : doc.prices[k].id # 0 =>
        \E c \in ToSet(doc.channels) : k \in DOMAIN c.ids /\ c.ids[k] = doc.prices[k].id

\* While no model is renamed and prices stand where they belong, every model that stays
\* open is sent with the price it has in the form, whichever channel of those that
\* offer it goes or is switched off.
PricesStay ==
    [][Len(requests') > Len(requests) /\ requests'[Len(requests')].kind \in {"channels", "drawer"} =>
           LET sent == requests'[Len(requests')].doc
           IN  PricesNamed(form) /\ NamesKept(form.channels, sent.channels) =>
                   \A m \in sent.open \cap DOMAIN form.prices : sent.prices[m].credits = form.prices[m].credits]_settingsVars
=============================================================================
