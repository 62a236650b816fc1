------------------------------- MODULE WatDFSFresh -------------------------------
(***************************************************************************)
(* WatDFS with a memory of the server's file, to say what the comparison   *)
(* of modification times in cli_freshness_check is worth.  It compares     *)
(* whole seconds, and what it compares is changed call by call.            *)
(***************************************************************************)
EXTENDS WatDFS

VARIABLES
    stamps,           \* history: the server's file whenever nobody was uploading, and
                      \* the copies that were not downloaded, or not to the end
    clear,            \* history: these tell contents by their times, and no download
                      \* began with a stat in the middle of another client's upload
    smooth            \* history: no call failed, and open(2) on the server never did

freshVars == <<allVars, stamps, clear, smooth>>

Quiet == File \in DOMAIN files /\ \A c \in Clients : ~Uploading(c)

FreshInit ==
    /\ Init
    /\ stamps = {files[p] : p \in {File} \cap DOMAIN files}
    /\ clear = TRUE
    /\ smooth = TRUE

TellContents(S) == \A f, g \in S : f.mtime = g.mtime => f.data = g.data

StatDuringUpload(c) ==
    pc[c] = "dl_stat" /\ pc'[c] = "dl_open" /\ \E d \in Clients \ {c} : Uploading(d)

CopyChanged(c) == Cached(c)' /\ (Cached(c) => cache'[c] # cache[c])

\* The copies that applications have changed.
Written ==
    {cache'[c] : c \in {d \in Clients : CopyChanged(d) /\ pc[d] \notin {"dl_lock", "dl_wait", "dl_read"}}}

\* The copies of failed downloads: they are empty.
LeftBehind == {cache[c] : c \in {d \in Clients : pc[d] = "dl_read" /\ pc'[d] = "idle"}}

Failing(c) == frame[c].ret < 0 \/ frame[c].fh = BadFd \/ (Has(c) /\ fi[c].fh = BadFd)

FreshNext ==
    /\ Next
    /\ smooth' = (smooth /\ lost' = 0 /\ \A c \in Clients : ~Failing(c)')
    /\ LET seen == stamps \cup Written \cup LeftBehind \cup (IF Quiet' THEN {files'[File]} ELSE {})
       IN  /\ clear' = (clear /\ TellContents(seen) /\ \A c \in Clients : ~StatDuringUpload(c))
           /\ stamps' = IF clear' THEN seen ELSE {}

FreshSpec == FreshInit /\ [][FreshNext]_freshVars

-----------------------------------------------------------------------------
(* Properties *)

FoundFresh(c) == pc[c] = "check" /\ Expired(c) /\ pc'[c] = "idle" /\ frame'[c].ret >= 0

\* cli_freshness_check: a copy that is found to have the modification time of the
\* server's file has its contents, in whatever order the file was stated, uploaded
\* and downloaded and whatever failed; provided that the file never had different
\* contents in the same second, and nobody is uploading it.
FreshIsCurrent ==
    [][\A c \in Clients :
          FoundFresh(c) /\ clear /\ Quiet => cache[c].data = files[File].data]_freshVars

\* The downloads that have opened the file and have not released it.
Fetching == {c \in Clients : pc[c] \in {"dl_lock", "dl_wait", "dl_read", "dl_unlock", "dl_release"}}

Opening == {c \in Clients : Has(c)}

\* openNum, on which the life of the lock depends, is exact as long as nothing has
\* failed: it counts the handles of applications and the downloads under way, and
\* the file is out of the table when there are none.
OpenNumExact ==
    smooth => Lookup(File).openNum = Cardinality(Opening) + Cardinality(Fetching)
================================================================================
