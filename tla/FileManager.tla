---------------------------- MODULE FileManager ----------------------------
(***************************************************************************)
(* One path in the panel's file explorer (agent/files.go): the text        *)
(* editor's read and save, the upload in chunks, moving and deleting.      *)
(*                                                                         *)
(* Each kind of request has a lane of its own, so saves are one at a time  *)
(* and so are chunks, but a save, an upload and a move interleave, and     *)
(* somebody at a shell with all of them.  The chunks of an upload that was *)
(* given up may arrive during the next one, in any order.                  *)
(***************************************************************************)
EXTENDS Naturals, Sequences

CONSTANTS Editors,      \* editor windows
          Sources,      \* local files one may upload to this path
          Chunks,       \* of an upload
          MaxUploads, MaxSaves, MaxOther   \* bounds

NoFile == [id |-> 0, by |-> "nobody", data |-> <<>>]
NoPart == [there |-> FALSE, data |-> <<>>]

VARIABLES file,     \* its version (fileVersion), who wrote it, of what
          part,     \* <path>.beacle-part
          editors,  \* each window: the versions its first and last read saw
          saving,   \* the window whose save has passed its check
          moving,   \* a move to this path has passed its check
          client,   \* the app's upload loop
          wire,     \* chunks on the way to the agent
          ending,   \* a final chunk is written and not renamed yet
          ids, count

fileVars == <<file, part, editors, saving, moving, client, wire, ending, ids, count>>

Closed == [at |-> "closed", first |-> 0, ver |-> 0, forced |-> FALSE]
Nobody == "nobody"
Resting == [at |-> "idle", src |-> Nobody, off |-> 0, over |-> FALSE, n |-> 0]

TypeOK ==
    /\ file.id \in 0..ids /\ file.by \in {"nobody", "edit", "upload", "other"}
    /\ \A e \in Editors : editors[e].at \in {"closed", "half", "open"} /\ editors[e].ver \in 0..ids
    /\ saving \in Editors \cup {Nobody} /\ moving \in BOOLEAN
    /\ client.at \in {"idle", "wait", "done", "failed"} /\ client.off \in 0..Chunks
    /\ Len(part.data) <= Chunks /\ ending \subseteq wire

Init ==
    /\ file \in {NoFile, [id |-> 1, by |-> "other", data |-> <<>>]}
    /\ part = NoPart /\ editors = [e \in Editors |-> Closed] /\ saving = Nobody /\ moving = FALSE
    /\ client = Resting /\ wire = {} /\ ending = {} /\ ids = 1
    /\ count = [uploads |-> 0, saves |-> 0, other |-> 0]

Counts(what) == count' = [count EXCEPT ![what] = @ + 1]
Becomes(by, data) == file' = [id |-> ids + 1, by |-> by, data |-> data] /\ ids' = ids + 1
uploading == <<part, client, wire, ending>>

-----------------------------------------------------------------------------
(* The editor.                                                             *)

\* readRemoteText: a large file takes several reads, and the version is the
\* last one's.
ReadFirst(e) ==
    /\ editors[e] = Closed
    /\ editors' = [editors EXCEPT ![e] = [Closed EXCEPT !.at = IF file.id = 0 THEN "open" ELSE "half",
                                                        !.first = file.id]]
    /\ UNCHANGED <<file, saving, moving, uploading, ids, count>>
ReadLast(e) ==
    /\ editors[e].at = "half"
    /\ editors' = [editors EXCEPT ![e] = IF file.id = 0 THEN Closed ELSE [editors[e] EXCEPT !.at = "open", !.ver = file.id]]
    /\ UNCHANGED <<file, saving, moving, uploading, ids, count>>

\* Mutant: a file is saved whatever is there.
Anything(e) == TRUE
\* fileVersion(info) = req.Version; a new file must not be there.
SameVersion(e) == file.id = editors[e].ver

\* Write, up to the temporary file: the lane is taken.  A conflict is the
\* user's to decide: load it again, or take what is there as the base.
WriteChecks(e) ==
    /\ saving = Nobody /\ editors[e].at = "open" /\ count.saves < MaxSaves
    /\ \/ SameVersion(e) /\ saving' = e /\ UNCHANGED editors
       \/ /\ ~SameVersion(e) /\ UNCHANGED saving
          /\ editors' \in {[editors EXCEPT ![e] = Closed],
                           [editors EXCEPT ![e] = [editors[e] EXCEPT !.ver = file.id, !.forced = TRUE]]}
    /\ UNCHANGED <<file, moving, uploading, ids, count>>
WriteRenames(e) ==
    /\ saving = e
    /\ saving' = Nobody
    /\ Becomes("edit", <<>>) /\ Counts("saves")
    /\ editors' = [editors EXCEPT ![e] = [editors[e] EXCEPT !.first = ids + 1, !.ver = ids + 1, !.forced = FALSE]]
    /\ UNCHANGED <<moving, uploading>>

-----------------------------------------------------------------------------
(* The upload.                                                             *)

Request(c) == [src |-> c.src, off |-> c.off, over |-> c.over, n |-> c.n]
Sends(c) == client' = [c EXCEPT !.at = "wait"] /\ wire' = wire \cup {Request(c)}

\* _uploadOne: from the start.
UploadBegins(src, over) ==
    /\ client.at # "wait" /\ count.uploads < MaxUploads /\ Counts("uploads")
    /\ Sends([Resting EXCEPT !.src = src, !.over = over, !.n = count.uploads + 1])
    /\ UNCHANGED <<file, part, editors, saving, moving, ending, ids>>

\* Mutant: a chunk is written where it says, whatever is there.
AnyOffset(r, data) == TRUE
\* req.Offset = info.Size()
AtTheEnd(r, data) == r.off = Len(data)

\* WriteAt: a gap is filled with zeroes.
WriteAt(data, r) ==
    [k \in 1..(IF Len(data) > r.off THEN Len(data) ELSE r.off + 1) |->
        IF k = r.off + 1 THEN [src |-> r.src, off |-> r.off]
        ELSE IF k <= Len(data) THEN data[k] ELSE [src |-> Nobody, off |-> Chunks]]

\* What the app does with the answer, if it still waits for this one and the
\* answer is not lost on the way: received = 0 with an error ends the upload.
Answered(r, ok, received) ==
    \/ UNCHANGED client /\ wire' = wire \ {r}
    \/ /\ client.at = "wait" /\ r = Request(client)
       /\ IF ok /\ received = Chunks THEN client' = [client EXCEPT !.at = "done"] /\ wire' = wire \ {r}
          ELSE IF ok \/ received > 0
          THEN client' = [client EXCEPT !.off = received]
               /\ wire' = (wire \ {r}) \cup {Request([client EXCEPT !.off = received])}
          ELSE client' = [client EXCEPT !.at = "failed"] /\ wire' = wire \ {r}

\* Upload: a file that is there needs overwrite; offset 0 truncates.
Refused(r) ==
    /\ file.id # 0 /\ ~r.over
    /\ Answered(r, FALSE, 0) /\ UNCHANGED <<part, ending>>
Takes(r) ==
    /\ file.id # 0 => r.over
    /\ LET data == IF r.off = 0 THEN <<>> ELSE part.data
           final == r.off + 1 = Chunks
       IN IF AtTheEnd(r, data)
          THEN /\ part' = [there |-> TRUE, data |-> WriteAt(data, r)]
               /\ IF final THEN ending' = {r} /\ UNCHANGED <<client, wire>>
                  ELSE Answered(r, TRUE, r.off + 1) /\ UNCHANGED ending
          ELSE /\ part' = [there |-> TRUE, data |-> data]
               /\ Answered(r, FALSE, Len(data)) /\ UNCHANGED ending
Upload(r) ==
    /\ ending = {}
    /\ Refused(r) \/ Takes(r)
    /\ UNCHANGED <<file, editors, saving, moving, ids, count>>

\* os.Rename(part, local), which puts nothing in its place.
UploadRenames(r) ==
    /\ ending = {r}
    /\ Becomes("upload", part.data) /\ part' = NoPart /\ ending' = {}
    /\ Answered(r, TRUE, Chunks)
    /\ UNCHANGED <<editors, saving, moving, count>>

\* The request's timeout, or Cancel: the chunk may still arrive.
GivesUp ==
    /\ client.at = "wait"
    /\ client' = [client EXCEPT !.at = "failed"]
    /\ UNCHANGED <<file, part, editors, saving, moving, wire, ending, ids, count>>
Lost(r) ==
    /\ ending = {}
    /\ wire' = wire \ {r}
    /\ UNCHANGED <<file, part, editors, saving, moving, client, ending, ids, count>>

-----------------------------------------------------------------------------
(* Moving, deleting, and the shell.                                        *)

Delete ==
    /\ file.id # 0 /\ count.other < MaxOther /\ Counts("other")
    /\ file' = NoFile
    /\ UNCHANGED <<editors, saving, moving, uploading, ids>>

\* Rename of another file to this path: refused when there is one, unless it
\* is to be overwritten.
RenameChecks(over) ==
    /\ ~moving /\ (file.id = 0 \/ over)
    /\ count.other < MaxOther /\ Counts("other")
    /\ moving' = TRUE
    /\ UNCHANGED <<file, editors, saving, uploading, ids>>
Renames ==
    /\ moving
    /\ moving' = FALSE
    /\ Becomes("other", <<>>)
    /\ UNCHANGED <<editors, saving, uploading, count>>

SomebodyWrites ==
    /\ count.other < MaxOther /\ Counts("other")
    /\ Becomes("other", <<>>)
    /\ UNCHANGED <<editors, saving, moving, uploading>>

Next ==
    \/ \E e \in Editors : ReadFirst(e) \/ ReadLast(e) \/ WriteChecks(e) \/ WriteRenames(e)
    \/ \E src \in Sources, over \in BOOLEAN : UploadBegins(src, over)
    \/ \E r \in wire : Upload(r) \/ UploadRenames(r) \/ Lost(r)
    \/ \E over \in BOOLEAN : RenameChecks(over)
    \/ GivesUp \/ Delete \/ Renames \/ SomebodyWrites

-----------------------------------------------------------------------------
(* Properties.                                                             *)

\* What an upload leaves at the path is complete and in order: every chunk at
\* its offset, none missing, whatever was lost, late, repeated or overtaken.
\* The chunks may be of two local files (see OneSource).
UploadWhole ==
    file.by = "upload" => Len(file.data) = Chunks /\ \A k \in DOMAIN file.data : file.data[k].off = k - 1

\* A save never replaces what another window saved without its user having
\* loaded that version, or having said so.
EditKept ==
    [][saving # Nobody /\ saving' = Nobody /\ file.by = "edit" => editors[saving].ver = file.id]_fileVars

\* Refuted: a save replaces only what its window has loaded in full.  The file
\* may change between two reads, of which the last gives the version, and
\* between the check and the rename.
SawIt ==
    [][saving # Nobody /\ saving' = Nobody /\ ~editors[saving].forced
       => editors[saving].first = file.id]_fileVars

\* Refuted: "a retried or reordered chunk cannot corrupt the file".  A late
\* chunk of an upload that was given up fits into the next one's, and the
\* upload succeeds.
OneSource ==
    file.by = "upload" => \A j, k \in DOMAIN file.data : file.data[j].src = file.data[k].src
=============================================================================
