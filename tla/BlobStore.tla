------------------------------ MODULE BlobStore ------------------------------
(***************************************************************************)
(* The content-addressed blob store (storage.blobs_filesystem) and the     *)
(* order in which its callers use it: the bytes first, then the artifact   *)
(* that refers to them.                                                    *)
(*                                                                         *)
(* put_bytes, get_bytes and delete run without an await, so the processes  *)
(* that share the directory are what interleaves, at their system calls.   *)
(* A process that dies leaves its temporary file behind.                   *)
(***************************************************************************)
EXTENDS FiniteSets

CONSTANTS
    Writers,    \* processes that store bytes and then an artifact about them
    Readers,    \* processes that read a blob
    Deleters,   \* processes that delete a blob
    Digests,    \* sha256 digests of the bytes
    Dir         \* digest -> the directory its file is in

Users == Writers \cup Readers \cup Deleters

VARIABLES
    file,       \* digest -> what is at its path
    dirs,       \* the directories that exist
    temp,       \* writer -> its temporary file
    step,         \* where a process is
    digest,     \* the digest it works on
    refs,       \* digests that a stored artifact refers to
    deleted     \* digests that were deleted

blobVars == <<file, dirs, temp, step, digest, refs, deleted>>

Content == {"none", "partial", "whole"}
Over == {"done", "raised", "absent", "dead"}

BlobTypeOK ==
    /\ file \in [Digests -> Content]
    /\ dirs \subseteq {Dir[d] : d \in Digests}
    /\ temp \in [Writers -> Content]
    /\ step \in [Users -> {"idle", "verify", "mkdir", "mkstemp", "write", "replace",
                         "stored", "read", "rmdir"} \cup Over]
    /\ digest \in [Users -> Digests]
    /\ refs \subseteq Digests /\ deleted \subseteq Digests

BlobInit ==
    /\ file = [d \in Digests |-> "none"]
    /\ dirs = {}
    /\ temp = [w \in Writers |-> "none"]
    /\ step = [p \in Users |-> "idle"]
    /\ digest \in [Users -> Digests]
    /\ refs = {} /\ deleted = {}

-----------------------------------------------------------------------------
Proceed(p, to) == step' = [step EXCEPT ![p] = to]

\* Mutants: the bytes written in place; a rename that is left out; an error path
\* that keeps the temporary file, and one that loses the others; a directory
\* removed with temporary files in it.
InPlace(w) == /\ file' = [file EXCEPT ![digest[w]] = "partial"]
              /\ temp' = [temp EXCEPT ![w] = "partial"]
NotRenamed(w) == UNCHANGED file
Kept(w) == UNCHANGED temp
DiscardAll(w) == temp' = [v \in {w} |-> "none"]
NoBlobs(dir) == \A d \in Digests : Dir[d] = dir => file[d] = "none"

\* mkstemp in the directory of the target: an empty file.
MakeTemp(w) == /\ temp' = [temp EXCEPT ![w] = "partial"]
               /\ UNCHANGED file

\* os.replace.
Rename(w) == file' = [file EXCEPT ![digest[w]] = temp[w]]

\* The finally clause of put_bytes.
Discard(w) == temp' = [temp EXCEPT ![w] = "none"]

\* rmdir takes an empty directory only.
Empty(dir) ==
    /\ \A d \in Digests : Dir[d] = dir => file[d] = "none"
    /\ \A w \in Writers : Dir[digest[w]] = dir => temp[w] = "none"

-----------------------------------------------------------------------------
\* put_bytes: target.exists().
PutBytes(w) ==
    /\ step[w] = "idle"
    /\ Proceed(w, IF file[digest[w]] # "none" THEN "verify" ELSE "mkdir")
    /\ UNCHANGED <<file, dirs, temp, digest, refs, deleted>>

\* The file that is there is read and compared with the digest.
VerifyStored(w) ==
    /\ step[w] = "verify"
    /\ Proceed(w, IF file[digest[w]] = "whole" THEN "stored" ELSE "raised")
    /\ UNCHANGED <<file, dirs, temp, digest, refs, deleted>>

MakeDir(w) ==
    /\ step[w] = "mkdir"
    /\ dirs' = dirs \cup {Dir[digest[w]]}
    /\ Proceed(w, "mkstemp")
    /\ UNCHANGED <<file, temp, digest, refs, deleted>>

\* mkstemp fails when the directory has gone again.
OpenTemp(w) ==
    /\ step[w] = "mkstemp"
    /\ \/ Dir[digest[w]] \in dirs /\ MakeTemp(w) /\ Proceed(w, "write")
       \/ Dir[digest[w]] \notin dirs /\ Proceed(w, "raised") /\ UNCHANGED <<file, temp>>
    /\ UNCHANGED <<dirs, digest, refs, deleted>>

\* The bytes are written, synced and read back; or the disk is full.
Write(w) ==
    /\ step[w] = "write"
    /\ \/ Proceed(w, "replace") /\ temp' = [temp EXCEPT ![w] = "whole"]
       \/ Proceed(w, "raised") /\ Discard(w)
    /\ UNCHANGED <<file, dirs, digest, refs, deleted>>

Replace(w) ==
    /\ step[w] = "replace"
    /\ Rename(w) /\ Discard(w)
    /\ Proceed(w, "stored")
    /\ UNCHANGED <<dirs, digest, refs, deleted>>

\* The caller stores the artifact with the reference, or fails to.
Refer(w) ==
    /\ step[w] = "stored"
    /\ \/ Proceed(w, "done") /\ refs' = refs \cup {digest[w]}
       \/ Proceed(w, "raised") /\ UNCHANGED refs
    /\ UNCHANGED <<file, dirs, temp, digest, deleted>>

WriterDies(w) ==
    /\ step[w] \notin Over \cup {"idle"}
    /\ Proceed(w, "dead")
    /\ UNCHANGED <<file, dirs, temp, digest, refs, deleted>>

\* get_bytes: exists(), then the content is read and verified.
Look(r) ==
    /\ step[r] = "idle"
    /\ Proceed(r, IF file[digest[r]] # "none" THEN "read" ELSE "absent")
    /\ UNCHANGED <<file, dirs, temp, digest, refs, deleted>>

Read(r) ==
    /\ step[r] = "read"
    /\ Proceed(r, CASE file[digest[r]] = "none" -> "absent"
                 [] file[digest[r]] = "whole" -> "done"
                 [] file[digest[r]] = "partial" -> "raised")
    /\ UNCHANGED <<file, dirs, temp, digest, refs, deleted>>

Delete(x) ==
    /\ step[x] = "idle"
    /\ file' = [file EXCEPT ![digest[x]] = "none"]
    /\ deleted' = deleted \cup {digest[x]}
    /\ Proceed(x, "rmdir")
    /\ UNCHANGED <<dirs, temp, digest, refs>>

\* The directory goes when nothing is left in it.
RemoveDir(x) ==
    /\ step[x] = "rmdir"
    /\ dirs' = IF Empty(Dir[digest[x]]) THEN dirs \ {Dir[digest[x]]} ELSE dirs
    /\ Proceed(x, "done")
    /\ UNCHANGED <<file, temp, digest, refs, deleted>>

BlobNext ==
    \/ \E w \in Writers : \/ PutBytes(w) \/ VerifyStored(w) \/ MakeDir(w) \/ OpenTemp(w)
                          \/ Write(w) \/ Replace(w) \/ Refer(w) \/ WriterDies(w)
    \/ \E r \in Readers : Look(r) \/ Read(r)
    \/ \E x \in Deleters : Delete(x) \/ RemoveDir(x)

BlobSpec == BlobInit /\ [][BlobNext]_blobVars

-----------------------------------------------------------------------------
(* A file at a blob's path is whole at every moment, for every process that *)
(* looks, and after every crash: no put_bytes or get_bytes raises a digest  *)
(* mismatch because of another one.                                         *)
BlobsWhole == \A d \in Digests : file[d] # "partial"

(* What a stored artifact refers to can be read, unless the blob was        *)
(* deleted: neither a crash, a failed write nor a second writer of the same *)
(* bytes leaves a reference without its content.                            *)
ReferencesResolve == \A d \in refs \ deleted : file[d] = "whole"

(* Only a process that died leaves a temporary file behind.                 *)
NoTempLeft == \A w \in Writers : step[w] \in {"done", "raised", "stored"} => temp[w] = "none"

(* A directory is not removed under a put_bytes that writes in it, so that  *)
(* its rename finds the place.                                              *)
DirectoryInUse ==
    \A w \in Writers : temp[w] # "none" => Dir[digest[w]] \in dirs
=============================================================================
