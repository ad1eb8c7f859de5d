------------------------- MODULE AdminListsProperties -------------------------
(***************************************************************************)
(* What the list pages of the administration promise.                      *)
(***************************************************************************)
EXTENDS AdminLists

\* The details of one user, prompt or plan are never saved over those of another,
\* although the form is one for all of them and answers that come in change the row it is
\* about.  (The address of an asset that has none is left in the form from another.)
DetailsStayHome == \A r \in Base : rows[r].there /\ office # "assets" => rows[r].of = r

\* A list of users, prompts, assets or logs shows in the end what the server has, in
\* whatever order changes, searches and refreshes are answered: unless something changed
\* that the page was not told of, or the answer it awaited had been read before the change:
\* the first answer of a query, or that of criteria that were left and are looked at again.
ListsConverge ==
    <>[](office \notin Queried \/ unseen \/ seen = ShownRows(rows, criteria))
=============================================================================
