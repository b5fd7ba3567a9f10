----------------------------- MODULE Documents -----------------------------
(***************************************************************************)
(* One upload of a document: StorageService.save_document() writes the     *)
(* file chunk by chunk, DocumentService.upload() then commits its row and  *)
(* removes the file if that fails.  Uploads have paths and rows of their   *)
(* own, so that one is enough.  The handler may be stopped at any await:   *)
(* a CancelledError is no Exception, and no clause of theirs removes the   *)
(* file then; nor does anything after a crash.                             *)
(***************************************************************************)
EXTENDS Naturals

CONSTANT MaxChunks   \* max_upload_size_bytes, in chunks

VARIABLES
    upload,   \* where the handler stands (below)
    stored,   \* original.<extension>: "absent", "partial" or "whole"
    chunks,   \* chunks read
    raised,   \* an exception is on its way out of save_document()
    saved,    \* the row of the document is committed
    doubtful, \* history: the answer to the commit was lost
    left      \* history: a file could not be removed

vars == <<upload, stored, chunks, raised, saved, doubtful, left>>

(***************************************************************************)
(* validate  the name and the media type      open    mkdir and open        *)
(* read      upload.read(), output.write()    unlink  of a refused file     *)
(* close     upload.close()                   create  INSERT and COMMIT     *)
(* created, refused, stopped                  the request is over           *)
(***************************************************************************)
Init ==
    /\ upload = "validate" /\ stored = "absent" /\ chunks = 0
    /\ raised = FALSE /\ saved = FALSE /\ doubtful = FALSE /\ left = FALSE

Validate(supported) ==
    /\ upload = "validate"
    /\ upload' = IF supported THEN "open" ELSE "refused"
    /\ UNCHANGED <<stored, chunks, raised, saved, doubtful, left>>

\* The directory cannot be made, or the file is opened and empty; an open that
\* fails leaves no file to remove.
Open ==
    /\ upload = "open"
    /\ \/ upload' = "refused" /\ UNCHANGED <<stored, raised>>
       \/ upload' = "close" /\ raised' = TRUE /\ UNCHANGED stored
       \/ upload' = "read" /\ stored' = "partial" /\ UNCHANGED raised
    /\ UNCHANGED <<chunks, saved, doubtful, left>>

\* Another chunk: too many are refused before they are written.
ReadChunk ==
    /\ upload = "read"
    /\ chunks' = chunks + 1
    /\ upload' = IF chunks' > MaxChunks THEN "unlink" ELSE "read"
    /\ UNCHANGED <<stored, raised, saved, doubtful, left>>

\* The client or the disk fails.
ReadFails ==
    /\ upload = "read"
    /\ upload' = "unlink"
    /\ UNCHANGED <<stored, chunks, raised, saved, doubtful, left>>

\* Everything was read; an empty upload is refused.
ReadAll ==
    /\ upload = "read"
    /\ stored' = "whole"
    /\ upload' = IF chunks = 0 THEN "unlink" ELSE "close"
    /\ UNCHANGED <<chunks, raised, saved, doubtful, left>>

\* The except clause of save_document(); its unlink may fail like any other.
Unlink ==
    /\ upload = "unlink"
    /\ \/ stored' = "absent" /\ UNCHANGED left
       \/ left' = TRUE /\ UNCHANGED stored
    /\ raised' = TRUE /\ upload' = "close"
    /\ UNCHANGED <<chunks, saved, doubtful>>

\* The finally clause; the error goes on, or one of close() itself leaves the file.
Close ==
    /\ upload = "close"
    /\ \/ upload' = (IF raised THEN "refused" ELSE "create") /\ UNCHANGED left
       \/ upload' = "refused" /\ left' = (left \/ stored # "absent")
    /\ UNCHANGED <<stored, chunks, raised, saved, doubtful>>

\* The except clause of upload(): the file goes, unless it cannot be removed.
Discard ==
    /\ upload' = "refused"
    /\ \/ stored' = "absent" /\ UNCHANGED left
       \/ left' = TRUE /\ UNCHANGED stored

Create ==
    /\ upload = "create"
    /\ saved' = TRUE /\ upload' = "created"
    /\ UNCHANGED <<stored, chunks, raised, doubtful, left>>

\* Mutant of CreateFails: the file of a row that was refused stays.
CreateFailsOnly ==
    /\ upload = "create"
    /\ upload' = "refused"
    /\ UNCHANGED <<stored, chunks, raised, saved, doubtful, left>>

\* The row is refused, or the connection is lost while the commit is under way:
\* the code cannot tell whether the row is there, and removes the file.
CreateFails ==
    /\ upload = "create"
    /\ saved' \in BOOLEAN /\ doubtful' = saved'
    /\ Discard
    /\ UNCHANGED <<chunks, raised>>

\* A cancellation or a crash.  A removal or a commit under way may take effect.
Stop ==
    /\ upload \in {"open", "read", "unlink", "close", "create"}
    /\ upload' = "stopped"
    /\ stored' \in {stored} \cup (IF upload = "unlink" THEN {"absent"} ELSE {})
    /\ saved' \in {saved} \cup (IF upload = "create" THEN {TRUE} ELSE {})
    /\ UNCHANGED <<chunks, raised, doubtful, left>>

Next ==
    \/ \E supported \in BOOLEAN : Validate(supported)
    \/ Open \/ ReadChunk \/ ReadFails \/ ReadAll \/ Unlink \/ Close
    \/ Create \/ CreateFails \/ Stop

Spec == Init /\ [][Next]_vars

-----------------------------------------------------------------------------
\* A document that can be found can be read in full, and an upload that was refused
\* leaves no file, unless one could not be removed.  Only a commit whose answer was
\* lost may leave a row without its file.
RowsHaveFiles ==
    /\ saved /\ ~doubtful => stored = "whole" /\ chunks \in 1..MaxChunks
    /\ upload = "created" => saved
    /\ upload = "refused" /\ ~left => stored = "absent"
=============================================================================
