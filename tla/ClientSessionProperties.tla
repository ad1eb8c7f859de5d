----------------------- MODULE ClientSessionProperties -----------------------
(***************************************************************************)
(* What the login of a tab promises, over any order of answers.            *)
(***************************************************************************)
EXTENDS ClientSession

\* A token that the server has seen is never kept for the next request: it is
\* dropped with the answer of the one that carried it, whatever the answer is.
FreshChallenge ==
    widget.held \in spent => \E c \in DOMAIN calls : ~calls[c].gone /\ calls[c].captcha = widget.held

\* The redirects of the pages, each sensible alone, do not send the user round
\* in circles: with the last thing done by the user they come to an end.
RedirectsEnd == <>[][UNCHANGED path]_vars

\* A guest does not stay on a page that wants a login, whichever answers of the
\* session arrive late, once the public settings are known.
GuestLeaves ==
    (path = "guarded" /\ site.guarded /\ settings.there /\ store.ready /\ store.user = NoUser)
        ~> (path # "guarded" \/ store.user # NoUser \/ ~settings.there)
=============================================================================
