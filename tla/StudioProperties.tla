-------------------------- MODULE StudioProperties --------------------------
(***************************************************************************)
(* What the workbenches promise, whatever the user does while a batch runs. *)
(***************************************************************************)
EXTENDS StudioPages

\* The button of a waiting card cancels the task of the slot that the card stands
\* for, whatever was shown in its place in between.
CancelsItsOwn ==
    bench = "image" =>
        \A i \in DOMAIN results :
            (results[i].status = "queued" /\ Running) => i \in BatchSlots /\ results[i].task = batch.slots[i].task

\* The pictures that a logged-in user's batch has and nobody has recorded yet:
\* those of its slots, until its record is saved, and those of a video's record
\* that is on its way.
Obtained ==
    {batch.slots[i].item : i \in {k \in BatchSlots : /\ batch.token /\ batch.phase \in {"running", "saving"}
                                                     /\ batch.slots[k].at = "done"}}
    \cup UNION {ToSet(record.items) : record \in recordings}
Recorded == UNION {ToSet(records[r].items) : r \in DOMAIN records}

\* No picture is lost on its way to the records: whichever slots of its batch
\* fail, are cancelled or answer last, and whatever is written, previewed or
\* started anew meanwhile, a picture that has arrived is recorded, unless it is the
\* save of its record that fails.
PicturesAreKept ==
    [][Obtained \subseteq Obtained' \cup Recorded' \/ (RecordSaved /\ UNCHANGED records)]_studioVars

\* The page never generates for ever: the queue gets to the task, and the poll
\* finds its end.
BatchEnds == []<>~Running
=============================================================================
