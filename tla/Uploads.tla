------------------------------ MODULE Uploads -------------------------------
(***************************************************************************)
(* Chunked uploads and direct saves, src/internal/handlers/upload.go:      *)
(* init_upload makes a directory, upload_chunk writes a part into it,      *)
(* complete_upload joins the parts into a file of a free name, save_video  *)
(* writes a file of a free name at once.  Every request is a goroutine of  *)
(* its own; the client may send them in any order, again, and before the   *)
(* answers (as the flow in web/docs/API.md does).                          *)
(*                                                                         *)
(* Abstracted: all uploads go to one author's folder under one name, the   *)
(* case in which they can meet: candidate 0 is the name asked for, n is    *)
(* "name(n)".  The contents of a part are "whole" or "cut".  RemoveAll     *)
(* meets part files that are still open: it unlinks them, or on Windows    *)
(* leaves them.  Of the record of a save only that it was written counts.  *)
(***************************************************************************)
EXTENDS Integers, Sequences, FiniteSets, FiniteSetsExt

CONSTANTS
  Uploads,     \* upload ids
  NoOne,
  Chunkers,    \* upload_chunk requests
  Mergers,     \* complete_upload requests
  Savers,      \* save_video requests
  PartCount,   \* total of every upload
  ChunkCap,    \* upload_chunk_concurrency (4)
  MergeCap     \* upload_merge_concurrency (1)

ASSUME UploadsAssumption ==
  /\ NoOne \notin Uploads \cup Chunkers \cup Mergers \cup Savers /\ Mergers \cap Savers = {}
  /\ {PartCount, ChunkCap, MergeCap} \subseteq Nat \ {0}
  /\ IsFiniteSet(Mergers) /\ IsFiniteSet(Savers) /\ IsFiniteSet(Chunkers)

PartIds == 1..PartCount
\* Enough candidates for every writer to find a free one.
FileNames == 0..Cardinality(Mergers) + Cardinality(Savers)
Writers == Mergers \cup Savers

VARIABLES
  begun,        \* uploads init_upload has answered
  directories,  \* those whose directory exists
  part,         \* part[u][i]: "none", "cut" or "whole"
  latest,       \* latest[u][i]: the request that created the part file as it is
  chunker,      \* chunker[c] = [at, up, part]
  writer,       \* writer[w] = [at, up, name, copied, whole]: a merge or a save
  files,        \* files[n]: who created the file as it is, or NoOne
  recorded,     \* names with a completed record
  damaged       \* history: uploads some part of which is known to be damaged

uploadVars == <<begun, directories, part, latest, chunker, writer, files, recorded, damaged>>

NoChunk == [at |-> "unsent", up |-> NoOne, part |-> 0]

UploadInit ==
  /\ begun = {} /\ directories = {}
  /\ part = [u \in Uploads |-> [i \in PartIds |-> "none"]]
  /\ latest = [u \in Uploads |-> [i \in PartIds |-> NoOne]]
  /\ chunker = [c \in Chunkers |-> NoChunk]
  /\ writer = [w \in Writers |-> [at |-> "unsent", up |-> NoOne, name |-> 0, copied |-> 0, whole |-> TRUE]]
  /\ files = [n \in FileNames |-> NoOne]
  /\ recorded = {} /\ damaged = {}

\* The parts of u that requests still write to.
OpenParts(u) == {chunker[c].part : c \in {d \in Chunkers : chunker[d].at = "writing" /\ chunker[d].up = u}}

-----------------------------------------------------------------------------
\* An id is random, so that nobody knows it before.
InitUpload(u) ==
  /\ u \notin begun
  /\ begun' = begun \cup {u} /\ directories' = directories \cup {u}
  /\ UNCHANGED <<part, latest, chunker, writer, files, recorded, damaged>>

ChunkEnds(c) == chunker' = [chunker EXCEPT ![c] = [NoChunk EXCEPT !.at = "answered"]]

\* upload_chunk with one of the places of chunkSem, up to the look at the directory.
ChunkLooks(c, u, i) ==
  /\ chunker[c].at = "unsent" /\ u \in begun
  /\ Cardinality({d \in Chunkers : chunker[d].at \in {"found", "writing"}}) < ChunkCap
  /\ IF u \in directories THEN chunker' = [chunker EXCEPT ![c] = [at |-> "found", up |-> u, part |-> i]]
                            ELSE ChunkEnds(c)
  /\ UNCHANGED <<begun, directories, part, latest, writer, files, recorded, damaged>>

\* os.Create: the part is emptied if it was there; the directory may be gone by now.
ChunkCreates(c) ==
  /\ chunker[c].at = "found"
  /\ LET u == chunker[c].up
         i == chunker[c].part
     IN IF u \in directories
        THEN /\ chunker' = [chunker EXCEPT ![c].at = "writing"]
             /\ part' = [part EXCEPT ![u][i] = "cut"]
             /\ latest' = [latest EXCEPT ![u][i] = c]
        ELSE ChunkEnds(c) /\ UNCHANGED <<part, latest>>
  /\ UNCHANGED <<begun, directories, writer, files, recorded, damaged>>

Owns(c) == latest[chunker[c].up][chunker[c].part] = c

\* The part is written and found right.
ChunkSaved(c) ==
  /\ chunker[c].at = "writing"
  /\ ChunkEnds(c)
  /\ part' = IF Owns(c) THEN [part EXCEPT ![chunker[c].up][chunker[c].part] = "whole"] ELSE part
  /\ UNCHANGED <<begun, directories, latest, writer, files, recorded, damaged>>

\* Mutant of ChunkDropped: the part of a refused chunk is left behind.
ChunkLeft(u, i) == UNCHANGED <<part, latest>>
\* os.Remove of the part file, whoever wrote it last.
ChunkDropped(u, i) ==
  /\ part' = [part EXCEPT ![u][i] = "none"]
  /\ latest' = [latest EXCEPT ![u][i] = NoOne]

\* A checksum or a size that does not match, or a chunk too large.  On Windows the
\* part stays if another request has it open, with whatever the two wrote.
ChunkMismatches(c) ==
  /\ chunker[c].at = "writing"
  /\ ChunkEnds(c)
  /\ \/ ChunkDropped(chunker[c].up, chunker[c].part) /\ UNCHANGED damaged
     \/ /\ \E d \in Chunkers \ {c} : chunker[d] = chunker[c]
        /\ damaged' = damaged \cup {chunker[c].up} /\ UNCHANGED <<part, latest>>
  /\ UNCHANGED <<begun, directories, writer, files, recorded>>

\* A write that fails, or an algorithm not known: what is there of the part stays.
ChunkBreaks(c) ==
  /\ chunker[c].at = "writing"
  /\ ChunkEnds(c)
  /\ damaged' = damaged \cup {chunker[c].up}
  /\ UNCHANGED <<begun, directories, part, latest, writer, files, recorded>>

-----------------------------------------------------------------------------
Merging == {m \in Mergers : writer[m].at \in {"named", "created", "copying", "cleaning"}}

\* Mutant of MergeMayStart: mergeSem is not taken.
MergeStartsAnyway == TRUE
MergeMayStart == Cardinality(Merging) < MergeCap

\* os.Stat on one candidate after the other.
FreeName == Min({n \in FileNames : files[n] = NoOne})

MergeNames(m, u) ==
  /\ writer[m].at = "unsent" /\ u \in begun /\ MergeMayStart
  /\ writer' = [writer EXCEPT ![m] = [@ EXCEPT !.at = "named", !.up = u, !.name = FreeName]]
  /\ UNCHANGED <<begun, directories, part, latest, chunker, files, recorded, damaged>>

\* os.Create, which empties a file that has come there since.
WriterCreates(w) ==
  /\ writer[w].at = "named"
  /\ files' = [files EXCEPT ![writer[w].name] = w]
  /\ writer' = [writer EXCEPT ![w].at = "created"]
  /\ UNCHANGED <<begun, directories, part, latest, chunker, recorded, damaged>>

\* An error: the file stays as far as it was written.
MergeRefused(m) ==
  writer' = [writer EXCEPT ![m] = [@ EXCEPT !.at = "refused", !.up = NoOne, !.copied = 0, !.whole = TRUE]]

\* Is every part there?
MergeChecks(m) ==
  /\ m \in Mergers /\ writer[m].at = "created"
  /\ IF \A i \in PartIds : part[writer[m].up][i] # "none"
     THEN writer' = [writer EXCEPT ![m].at = "copying"]
     ELSE MergeRefused(m)
  /\ UNCHANGED <<begun, directories, part, latest, chunker, files, recorded, damaged>>

\* The next part: it may have gone, or it is copied as it is now; or the copy fails.
MergeCopies(m) ==
  /\ writer[m].at = "copying"
  /\ LET u == writer[m].up
         i == writer[m].copied + 1
     IN \/ part[u][i] # "none"
           /\ writer' = [writer EXCEPT ![m] =
                           [@ EXCEPT !.copied = i, !.whole = writer[m].whole /\ part[u][i] = "whole",
                                     !.at = IF i = PartCount THEN "cleaning" ELSE "copying"]]
           /\ damaged' = IF i \in OpenParts(u) THEN damaged \cup {u} ELSE damaged
        \/ MergeRefused(m) /\ UNCHANGED damaged
  /\ UNCHANGED <<begun, directories, part, latest, chunker, files, recorded>>

\* os.RemoveAll, in one step: open parts are unlinked, or they stay with their directory.
MergeCleans(m) ==
  /\ writer[m].at = "cleaning"
  /\ writer' = [writer EXCEPT ![m].at = "stored"]
  /\ LET u == writer[m].up
     IN \E stay \in {{}, OpenParts(u)} :
          /\ directories' = IF stay = {} THEN directories \ {u} ELSE directories
          /\ part' = [part EXCEPT ![u] = [i \in PartIds |-> IF i \in stay THEN @[i] ELSE "none"]]
          /\ latest' = [latest EXCEPT ![u] = [i \in PartIds |-> IF i \in stay THEN @[i] ELSE NoOne]]
  /\ UNCHANGED <<begun, chunker, files, recorded, damaged>>

\* save_video: no semaphore; a name, the file, its contents, and a record if that can be written.
SaveNames(s) ==
  /\ s \in Savers /\ writer[s].at = "unsent"
  /\ writer' = [writer EXCEPT ![s] = [@ EXCEPT !.at = "named", !.name = FreeName]]
  /\ UNCHANGED <<begun, directories, part, latest, chunker, files, recorded, damaged>>

SaveEnds(s) ==
  /\ s \in Savers /\ writer[s].at = "created"
  /\ \/ /\ writer' = [writer EXCEPT ![s].at = "stored"]
        /\ \E names \in {{}, {writer[s].name}} : recorded' = recorded \cup names
     \/ writer' = [writer EXCEPT ![s].at = "refused"] /\ UNCHANGED recorded
  /\ UNCHANGED <<begun, directories, part, latest, chunker, files, damaged>>

UploadNext ==
  \/ \E u \in Uploads : InitUpload(u) \/ \E m \in Mergers : MergeNames(m, u)
  \/ \E c \in Chunkers :
       \/ \E u \in Uploads, i \in PartIds : ChunkLooks(c, u, i)
       \/ ChunkCreates(c) \/ ChunkSaved(c) \/ ChunkMismatches(c) \/ ChunkBreaks(c)
  \/ \E w \in Writers :
       WriterCreates(w) \/ MergeChecks(w) \/ MergeCopies(w) \/ MergeCleans(w) \/ SaveNames(w) \/ SaveEnds(w)

UploadSpec == UploadInit /\ [][UploadNext]_uploadVars

-----------------------------------------------------------------------------
UploadTypeOK ==
  /\ begun \subseteq Uploads /\ directories \subseteq begun
  /\ part \in [Uploads -> [PartIds -> {"none", "cut", "whole"}]]
  /\ latest \in [Uploads -> [PartIds -> Chunkers \cup {NoOne}]]
  /\ chunker \in [Chunkers -> [at : {"unsent", "found", "writing", "answered"},
                               up : Uploads \cup {NoOne}, part : 0..PartCount]]
  /\ writer \in [Writers -> [at : {"unsent", "named", "created", "copying", "cleaning", "stored", "refused"},
                             up : Uploads \cup {NoOne}, name : FileNames, copied : 0..PartCount,
                             whole : BOOLEAN]]
  /\ files \in [FileNames -> Writers \cup {NoOne}]
  /\ recorded \subseteq FileNames

\* A merge that answered success left a file of its own with every part whole in it,
\* unless a chunk of the upload broke off, was refused while sent twice at a time, or
\* was still being written when it was copied, or a save of the same name overtook
\* the merge: never because of another merge, which is what mergeSem is for, nor of
\* a chunk refused for its checksum or size.
DamageExplained ==
  \A m \in Mergers : writer[m].at = "stored" =>
    /\ writer[m].whole \/ writer[m].up \in damaged
    /\ \/ files[writer[m].name] = m
       \/ \E s \in Savers : writer[s].name = writer[m].name /\ writer[s].at # "unsent"
=============================================================================
