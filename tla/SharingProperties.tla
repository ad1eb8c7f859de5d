--------------------------- MODULE SharingProperties ---------------------------
(***************************************************************************)
(* What sharing a workflow guarantees.  stale and behind name the          *)
(* exceptions the code has: a share saved by a request that had not seen   *)
(* its last change; a linked copy made from a share that has changed       *)
(* since, set back by a slower push, or kept from a push by a failure —    *)
(* until the next push reaches it.                                         *)
(***************************************************************************)
EXTENDS WorkflowSharing

\* The variables have the types the tables give them.
TypeOK ==
    /\ edition \in Editions
    /\ share \in [Shares -> [state : {"none", "active", "revoked"},
                             version : Versions, snapshot : Editions]]
    /\ copy \in [Copies -> [state : {"none", "live", "deleted"},
                            of : Shares \cup {Nothing}, linked : BOOLEAN,
                            version : Versions, content : Editions \cup {Own}]]
    /\ pc \in [Requests -> PCs]
    /\ job \in [Requests -> [target : Shares \cup {Nothing}, version : Versions,
                             edition : Editions, queue : SUBSET Copies]]
    /\ outdated \subseteq Requests
    /\ stale \subseteq Shares
    /\ behind \subseteq Copies

\* Request r is going to push share s's present version to copy c.
Pushes(r, s, c) ==
    /\ job[r].target = s /\ job[r].version = share[s].version
    /\ \/ pc[r] = "push"
       \/ pc[r] = "pushing" /\ c \in job[r].queue

\* A linked copy is at its share's version, or a request is bringing it there,
\* however sharing, copying and pushing overlap (docs/system-settings.md:331).
LinkedCopiesFollow ==
    \A s \in Shares \ stale : \A c \in LinkedTo(s) \ behind :
        \/ copy[c].version = share[s].version
        \/ \E r \in Requests : Pushes(r, s, c)

\* The versions of share s in circulation, each with what it shows: the share's
\* own, those that requests push or copy, and those of copies, linked or not,
\* whose users have not saved something else.
Circulating(s) ==
    {<<share[s].version, share[s].snapshot>>}
    \cup {<<job[r].version, job[r].edition>> :
             r \in {q \in Requests : pc[q] \in {"push", "pushing", "copy"}
                                     /\ job[q].target = s}}
    \cup {<<copy[c].version, copy[c].content>> :
             c \in {d \in Copies : copy[d].state = "live" /\ copy[d].of = s
                                   /\ copy[d].content # Own}}

\* A version names one content: whatever shows the same version of a share shows
\* the same edition.
VersionNamesContent ==
    \A s \in Shares \ stale : \A x, y \in Circulating(s) : x[1] = y[1] => x[2] = y[2]

\* A workflow has one active share, whoever shares it at once, unless a request
\* inserted or restored one it had not seen (docs/backend-database.md:550).
OneActiveShare ==
    \A s, t \in Shares \ stale : Active(s) /\ Active(t) => s = t

\* A revoked share stays revoked, unless a request saves what it read before.
RevocationStands ==
    [][\A s \in Shares \ stale' :
           share[s].state = "revoked" => share'[s].state = "revoked"]_vars
=============================================================================
