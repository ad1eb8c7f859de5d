--------------------------- MODULE SharingInvariant ---------------------------
(***************************************************************************)
(* The inductive invariant behind the properties of SharingProperties.     *)
(* stale only grows and outdated is what a request cannot know, so each    *)
(* part speaks of shares that are not stale, or of requests that are not   *)
(* outdated.                                                               *)
(***************************************************************************)
EXTENDS SharingProperties

Working(r) == pc[r] \in {"push", "pushing", "copy"}

\* Shares that requests and copies refer to have been saved.
References ==
    /\ \A s \in Shares : share[s].state = "none" => share[s].version = 0
    /\ \A r \in Requests :
           /\ pc[r] = "share" => job[r].target = Nothing
           /\ Working(r) => job[r].target \in Shares
           /\ (Working(r) \/ pc[r] = "save") /\ job[r].target # Nothing
                  => share[job[r].target].state # "none"
    /\ \A c \in Copies : copy[c].state = "live" =>
           copy[c].of \in Shares /\ share[copy[c].of].state # "none"

\* A request that is not outdated knows the share as it is, or that there is
\* no active one.
Knowledge ==
    \A r \in Requests \ outdated :
        /\ pc[r] = "save" /\ job[r].target # Nothing =>
               /\ Active(job[r].target)
               /\ job[r].version = share[job[r].target].version + 1
        /\ pc[r] = "save" /\ job[r].target = Nothing =>
               job[r].version = 1 /\ \A s \in Shares : ~Active(s)
        /\ pc[r] = "copy" =>
               /\ job[r].version = share[job[r].target].version
               /\ job[r].edition = share[job[r].target].snapshot

\* What a request still has to push to are linked copies of its share, or were.
Queues ==
    \A r \in Requests : pc[r] = "pushing" =>
        \A c \in job[r].queue :
            /\ copy[c].state # "none"
            /\ copy[c].state = "live" => copy[c].linked /\ copy[c].of = job[r].target

\* No version in circulation is newer than the share's.
Ordered ==
    \A s \in Shares \ stale :
        /\ \A r \in Requests : Working(r) /\ job[r].target = s
               => job[r].version <= share[s].version
        /\ \A c \in Copies : copy[c].state = "live" /\ copy[c].of = s
               => copy[c].version <= share[s].version

IInv == /\ TypeOK
        /\ References
        /\ Knowledge
        /\ Queues
        /\ Ordered
        /\ VersionNamesContent
        /\ LinkedCopiesFollow
        /\ OneActiveShare
=============================================================================
