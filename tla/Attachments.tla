------------------------------ MODULE Attachments ------------------------------
(***************************************************************************)
(* File attachments: api/attachments.py and the file endpoints of          *)
(* api/channels.py, over one table and two stores.                         *)
(*                                                                         *)
(* An upload writes its file and commits the row after it; a deletion      *)
(* removes the file and then the row.  /attachments keeps files on disk,   *)
(* /channels/{id}/files in the bucket, and each of them deletes the rows   *)
(* of both.                                                                *)
(***************************************************************************)
EXTENDS Integers, FiniteSets

CONSTANTS
    Files,      \* bound: the uploads that are tried; each has a name of its own
    Deleters    \* deletions in flight

VARIABLES
    message,    \* the message that files are attached to: "live" or "deleted"
    archived,   \* is_archived of the channel
    stored,     \* stored[s]: the files on the disk, the objects in the bucket
    rows,       \* the rows of file_attachments
    upload,     \* upload[f]: how far the upload of f has come
    deletion,   \* deletion[d]: the deletion in flight
    failed,     \* history: uploads that ended with an error or with the server
    cutDeletions,        \* history: files whose deletion ended between file and row
    missed      \* history: files a deletion left: it asked the other store, or its store failed

fileVars == <<message, archived, stored, rows, upload, deletion, failed, cutDeletions, missed>>

Stores  == {"disk", "bucket"}
\* What an upload names: a message of the channel, a message without the channel, neither.
Targets == {"message", "unplaced", "own"}
AttachmentRow == [file : Files, store : Stores, on : {"message", "own", "none"}]
NoUpload   == [pc |-> "new"]
NoDeletion == [pc |-> "idle"]
Stage(pc)  == {f \in Files : upload[f].pc = pc}

AttachmentsTypeOK ==
    /\ message \in {"live", "deleted"} /\ archived \in BOOLEAN
    /\ stored \in [Stores -> SUBSET Files] /\ rows \subseteq AttachmentRow
    /\ \A a, b \in rows : a.file = b.file => a = b
    /\ \A f \in Files : upload[f].pc \in {"new", "checked", "written", "saved", "over"}
    /\ \A d \in Deleters : deletion[d] # NoDeletion =>
           deletion[d].pc \in {"found", "removed"} /\ deletion[d].row \in AttachmentRow
    /\ (failed \cup cutDeletions \cup missed) \subseteq Files
    \* A file is kept by one store, and has a row only once it was written.
    /\ stored["disk"] \cap stored["bucket"] = {}
    /\ \A a \in rows : upload[a.file].pc \in {"saved", "over"}

AttachmentsInit ==
    /\ message = "live" /\ archived = FALSE
    /\ stored = [s \in Stores |-> {}] /\ rows = {}
    /\ upload = [f \in Files |-> NoUpload] /\ deletion = [d \in Deleters |-> NoDeletion]
    /\ failed = {} /\ cutDeletions = {} /\ missed = {}

FileMoves(f, pc) == upload' = [upload EXCEPT ![f].pc = pc]
UploadOver         == [pc |-> "over"]
UploadEnds(f)      == upload' = [upload EXCEPT ![f] = UploadOver]
Fails(f)     == UploadEnds(f) /\ failed' = failed \cup {f}

\* What the request names is checked, and the type of the file.  A file of no message gets
\* one of its own, in the same transaction as its row.
Attaching(f, target) ==
    /\ upload[f] = NoUpload
    /\ target # "unplaced" => ~archived
    /\ target \in {"message", "unplaced"} => message = "live"
    /\ upload' = [upload EXCEPT ![f] = [pc |-> "checked", store |-> "disk", target |-> target]]
    /\ UNCHANGED <<message, archived, stored, rows, deletion, failed, cutDeletions, missed>>

\* Nothing but the channel's existence is checked.
ChannelUpload(f) ==
    /\ upload[f] = NoUpload
    /\ upload' = [upload EXCEPT ![f] = [pc |-> "checked", store |-> "bucket", target |-> "none"]]
    /\ UNCHANGED <<message, archived, stored, rows, deletion, failed, cutDeletions, missed>>

\* Mutant: the bucket's file is kept on the disk as well.
FileWrittenTwice(f) ==
    /\ upload[f].pc = "checked"
    /\ stored' = [s \in Stores |-> IF s \in {"disk", upload[f].store} THEN stored[s] \cup {f} ELSE stored[s]]
    /\ FileMoves(f, "written")
    /\ UNCHANGED <<message, archived, rows, deletion, failed, cutDeletions, missed>>

FileWritten(f) ==
    /\ upload[f].pc = "checked"
    /\ stored' = [stored EXCEPT ![upload[f].store] = @ \cup {f}]
    /\ FileMoves(f, "written")
    /\ UNCHANGED <<message, archived, rows, deletion, failed, cutDeletions, missed>>

\* The store fails, or the size of the file is refused once it has been read.
WriteFails(f) ==
    /\ upload[f].pc = "checked" /\ Fails(f)
    /\ UNCHANGED <<message, archived, stored, rows, deletion, cutDeletions, missed>>

AttachmentOf(f) == [file |-> f, store |-> upload[f].store, on |-> upload[f].target]
\* A message whose channel the request does not name stands in channel 0, which there is not.
Insertable(f) == upload[f].target # "unplaced"

\* Mutant: the row comes before its file.
RowAhead(f) ==
    /\ upload[f].pc = "checked" /\ Insertable(f)
    /\ rows' = rows \cup {AttachmentOf(f)}
    /\ FileMoves(f, "saved")
    /\ UNCHANGED <<message, archived, stored, deletion, failed, cutDeletions, missed>>

RowCommitted(f) ==
    /\ upload[f].pc = "written" /\ Insertable(f)
    /\ rows' = rows \cup {AttachmentOf(f)}
    /\ FileMoves(f, "saved")
    /\ UNCHANGED <<message, archived, stored, deletion, failed, cutDeletions, missed>>

\* The database refuses the row or is not there.  The file stays.
RowFails(f) ==
    /\ upload[f].pc = "written" /\ Fails(f)
    /\ UNCHANGED <<message, archived, stored, rows, deletion, cutDeletions, missed>>

\* The audit entry and the events follow the commit; an error in them is answered as a
\* failed upload.
UploadAnswered(f, told) ==
    /\ upload[f].pc = "saved" /\ UploadEnds(f)
    /\ failed' = IF told = "error" THEN failed \cup {f} ELSE failed
    /\ UNCHANGED <<message, archived, stored, rows, deletion, cutDeletions, missed>>

\* DELETE /attachments/{id} removes from the disk, DELETE /channels/{c}/files/{id} from the
\* bucket; each finds any row by its id.
Deleting(d, store) == \E a \in rows :
    /\ deletion[d] = NoDeletion
    /\ deletion' = [deletion EXCEPT ![d] = [pc |-> "found", row |-> a, store |-> store]]
    /\ UNCHANGED <<message, archived, stored, rows, upload, failed, cutDeletions, missed>>

\* A file that the store does not have is no error, and an error is not looked at.
Removed(store, f) == [stored EXCEPT ![store] = @ \ {f}]
FileRemoved(d) == LET a == deletion[d].row IN
    /\ deletion[d].pc = "found"
    /\ \/ /\ stored' = Removed(deletion[d].store, a.file)
          /\ missed' = IF deletion[d].store = a.store THEN missed ELSE missed \cup {a.file}
       \/ stored' = stored /\ missed' = missed \cup {a.file}
    /\ deletion' = [deletion EXCEPT ![d].pc = "removed"]
    /\ UNCHANGED <<message, archived, rows, upload, failed, cutDeletions>>

\* The row may be gone by now: another deletion of it is no error.
RowDeleted(d) ==
    /\ deletion[d].pc = "removed"
    /\ rows' = rows \ {deletion[d].row}
    /\ deletion' = [deletion EXCEPT ![d] = NoDeletion]
    /\ UNCHANGED <<message, archived, stored, upload, failed, cutDeletions, missed>>

RowStays(d) ==
    /\ deletion[d].pc = "removed"
    /\ cutDeletions' = cutDeletions \cup {deletion[d].row.file}
    /\ deletion' = [deletion EXCEPT ![d] = NoDeletion]
    /\ UNCHANGED <<message, archived, stored, rows, upload, failed, missed>>

\* A message is only marked, its files stay.
MessageDeleted ==
    /\ message = "live" /\ message' = "deleted"
    /\ UNCHANGED <<archived, stored, rows, upload, deletion, failed, cutDeletions, missed>>

\* archive_channel, unarchive_channel.
Archive ==
    /\ archived' = ~archived
    /\ UNCHANGED <<message, stored, rows, upload, deletion, failed, cutDeletions, missed>>

\* Nothing looks for what was left when the server comes up again.
FilesServerStops ==
    LET ups  == Stage("checked") \cup Stage("written") \cup Stage("saved")
        dels == {d \in Deleters : deletion[d].pc = "removed"}
    IN  /\ upload' = [f \in Files |-> IF f \in ups THEN UploadOver ELSE upload[f]]
        /\ failed' = failed \cup ups
        /\ cutDeletions' = cutDeletions \cup {deletion[d].row.file : d \in dels}
        /\ deletion' = [d \in Deleters |-> NoDeletion]
        /\ UNCHANGED <<message, archived, stored, rows, missed>>

AttachmentsNext ==
    \/ \E f \in Files : \/ \E t \in Targets : Attaching(f, t)
                        \/ ChannelUpload(f) \/ FileWritten(f) \/ WriteFails(f)
                        \/ RowCommitted(f) \/ RowFails(f)
                        \/ \E told \in {"ok", "error"} : UploadAnswered(f, told)
    \/ \E d \in Deleters : \/ \E s \in Stores : Deleting(d, s)
                           \/ FileRemoved(d) \/ RowDeleted(d) \/ RowStays(d)
    \/ MessageDeleted \/ Archive \/ FilesServerStops

\* What GET answers: /attachments/download looks on the disk, /channels/.../download in the
\* bucket, /attachments/file at the path that the URL spells out.
Served(a, store) == a.file \in stored[store] /\ (store = "disk" => ~archived)
ServedAt(url)    == url.day = "20260131" /\ url.file \in stored["disk"] /\ ~archived
\* The URL of a row in the list of a channel's files, from its path, and in a message, from
\* the day it was created.
ListedUrl(a)  == [file |-> a.file, day |-> IF a.store = "disk" THEN "20260131" ELSE "path"]
MessageUrl(a) == [file |-> a.file, day |-> "2026-01-31"]

AttachmentsSpec == AttachmentsInit /\ [][AttachmentsNext]_fileVars

-----------------------------------------------------------------------------
\* A row whose file is gone is one that is being deleted, or whose deletion ended between the
\* two steps of delete_attachment or delete_file: no upload commits a row without its file,
\* and no deletion takes the file of another row.
RowWithoutFileExplained ==
    \A a \in rows : ~archived /\ ~Served(a, a.store) =>
        \/ a.file \in cutDeletions
        \/ \E d \in Deleters : deletion[d] # NoDeletion
                             /\ deletion[d].row = a /\ deletion[d].pc = "removed"

\* A file without a row is one whose upload is under way or was not finished, or one that the
\* deletion of its row missed: it asked the store of the other endpoint, or its store failed.
FileWithoutRowExplained ==
    \A s \in Stores : \A f \in stored[s] : (\A a \in rows : a.file # f) =>
        f \in failed \cup missed \cup Stage("written")

\* Rows and files come apart in these ways only.
FileGapsExplained == RowWithoutFileExplained /\ FileWithoutRowExplained

-----------------------------------------------------------------------------
(* What a comment of the code says, and the code does not do.               *)

\* "Generate the URL based on storage path" (transform_attachment_to_response): where the
\* list of the channel's files leads to a file, the URL in its message does.
MessageUrlLeadsThere ==
    \A a \in rows : a.on # "none" /\ ServedAt(ListedUrl(a)) => ServedAt(MessageUrl(a))
=============================================================================
