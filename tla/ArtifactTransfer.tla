-------------------------- MODULE ArtifactTransfer --------------------------
(***************************************************************************)
(* artifacts.Transfer: Download streams a body into a part file that it    *)
(* verifies before it hands the path out; Upload streams a local file that *)
(* others may rewrite while it is looked at, read and sent.  The process   *)
(* may die between any two steps; part files outlive it.                   *)
(***************************************************************************)
EXTENDS Integers

CONSTANTS
  Contents,          \* artifact contents, told apart by their digest
  Length,            \* their lengths
  Manifests,         \* expected size and content a caller passes to Download
  Downloads,         \* goroutines that call Download
  Uploads,           \* goroutines that call Upload for the local file
  MaxDownloadBytes,  \* t.MaxDownloadBytes
  MaxUploadBytes,    \* t.MaxUploadBytes
  None               \* no file, no content

\* Bytes read or written: the first size bytes of a content.
Data == UNION {{[content |-> c, size |-> n] : n \in 0 .. Length[c]} : c \in Contents}
Whole(c) == [content |-> c, size |-> Length[c]]
Prefix(d, n) == IF d.size <= n THEN d ELSE [d EXCEPT !.size = n]

ASSUME TransferAssumption ==
  /\ Length \in [Contents -> Nat]
  /\ Manifests \subseteq [size : Int, content : Contents]
  /\ MaxDownloadBytes \in Nat
  /\ MaxUploadBytes \in Nat
  /\ None \notin Contents

VARIABLES
  down,      \* each Download: its step, manifest, body and part file
  litter,    \* part files that no call knows of and no caller was given, those of
             \* the latest step that left any
  excused,   \* history: the process died, or a removal failed
  local,     \* the content of the file to upload, None if not a regular file
  up,        \* each Upload: its step, expected content, size seen, bytes hashed
  stored     \* history: what the Control Plane took from each Upload

vars == <<down, litter, excused, local, up, stored>>
downVars == <<down, litter, excused>>
upVars   == <<local, up, stored>>

IdleDown == [pc |-> "idle"]
IdleUp   == [pc |-> "idle"]

Init ==
  /\ down = [d \in Downloads |-> IdleDown]
  /\ litter = {} /\ excused = FALSE
  /\ local \in Contents \cup {None}
  /\ up = [u \in Uploads |-> IdleUp]
  /\ stored = [u \in Uploads |-> None]

\* The digest of the bytes is the expected one.
DigestMatches(data, c) ==
  data.size = Length[c] /\ (data.size = 0 \/ data.content = c)

-----------------------------------------------------------------------------
(* Download.                                                                *)

\* The URL is safe, the expected size within the limit and the answer 200: the
\* body is any part of any content.
Request(d) ==
  /\ down[d].pc = "idle"
  /\ \E m \in Manifests, body \in Data :
       /\ m.size \in 0 .. MaxDownloadBytes
       /\ down' = [down EXCEPT ![d] = [pc |-> "answered", manifest |-> m, body |-> body]]
  /\ UNCHANGED <<litter, excused, upVars>>

\* CreateTemp makes a part file ...
CreatePart(d) ==
  /\ down[d].pc = "answered"
  /\ down' = [down EXCEPT ![d] =
                [pc |-> "copy", manifest |-> @.manifest, body |-> @.body, size |-> 0]]
  /\ UNCHANGED <<litter, excused, upVars>>

\* ... or fails, and Download returns.
CreateFails(d) ==
  /\ down[d].pc = "answered"
  /\ down' = [down EXCEPT ![d] = IdleDown]
  /\ UNCHANGED <<litter, excused, upVars>>

Part(d) == Prefix(down[d].body, down[d].size)

\* The LimitedReader ends the copy one byte past the limit, at the latest.
Limited(body) == Prefix(body, MaxDownloadBytes + 1)

CopyByte(d) ==
  /\ down[d].pc = "copy"
  /\ down[d].size < Limited(down[d].body).size
  /\ down' = [down EXCEPT ![d].size = @ + 1]
  /\ UNCHANGED <<litter, excused, upVars>>

\* Only the size is compared.
SizeVerified(d) ==
  /\ MaxDownloadBytes >= 1
  /\ down[d].size <= MaxDownloadBytes
  /\ down[d].size = down[d].manifest.size

\* The checks of copyVerified once the body has ended.
Verified(d) ==
  /\ MaxDownloadBytes >= 1
  /\ down[d].size <= MaxDownloadBytes
  /\ down[d].size = down[d].manifest.size
  /\ DigestMatches(Part(d), down[d].manifest.content)

Verify(d) ==
  /\ down[d].pc = "copy"
  /\ down[d].size = Limited(down[d].body).size
  /\ down' = [down EXCEPT ![d].pc = IF Verified(d) THEN "sync" ELSE "remove"]
  /\ UNCHANGED <<litter, excused, upVars>>

\* Chmod, reading the body, writing the file, Sync or Close fails.
DownloadFails(d) ==
  /\ down[d].pc \in {"copy", "sync"}
  /\ down' = [down EXCEPT ![d].pc = "remove"]
  /\ UNCHANGED <<litter, excused, upVars>>

\* Sync and Close succeed: committed is set and the path returned.
Commit(d) ==
  /\ down[d].pc = "sync"
  /\ down' = [down EXCEPT ![d].pc = "returned"]
  /\ UNCHANGED <<litter, excused, upVars>>

\* The caller has the file; the goroutine may call Download again.
HandOver(d) ==
  /\ down[d].pc = "returned"
  /\ down' = [down EXCEPT ![d] = IdleDown]
  /\ UNCHANGED <<litter, excused, upVars>>

\* What the deferred function leaves of an uncommitted part file.
PartForgotten(d) == {Part(d)}
PartRemoved(d) == litter

\* The deferred os.Remove ...
RemovePart(d) ==
  /\ down[d].pc = "remove"
  /\ litter' = PartRemoved(d)
  /\ down' = [down EXCEPT ![d] = IdleDown]
  /\ UNCHANGED <<excused, upVars>>

\* ... whose error is ignored.
RemoveFails(d) ==
  /\ down[d].pc = "remove"
  /\ litter' = {Part(d)}
  /\ excused' = TRUE
  /\ down' = [down EXCEPT ![d] = IdleDown]
  /\ UNCHANGED upVars

-----------------------------------------------------------------------------
(* Upload.                                                                  *)

\* The size of the file is not looked at.
StatUnchecked(u) ==
  /\ up[u].pc = "idle"
  /\ local # None
  /\ \E c \in Contents :
       up' = [up EXCEPT ![u] = [pc |-> "stat", expected |-> c, size |-> Length[local]]]
  /\ stored' = [stored EXCEPT ![u] = None]
  /\ UNCHANGED <<downVars, local>>

\* The URL is safe, and Lstat finds a regular file within the limit.
Stat(u) ==
  /\ up[u].pc = "idle"
  /\ local # None
  /\ Length[local] <= MaxUploadBytes
  /\ \E c \in Contents :
       up' = [up EXCEPT ![u] = [pc |-> "stat", expected |-> c, size |-> Length[local]]]
  /\ stored' = [stored EXCEPT ![u] = None]
  /\ UNCHANGED <<downVars, local>>

\* The LimitReader around the file.
ReadAll == Whole(local)
ReadLimited == Prefix(Whole(local), MaxUploadBytes + 1)

\* What goes over the wire: net/http sends Content-Length bytes, and treats a
\* Content-Length of zero with a body as unknown.
Sent(u) == IF up[u].size = 0 THEN ReadLimited ELSE Prefix(ReadLimited, up[u].size)

\* The Control Plane answers 204.  When the file has grown since Lstat, the
\* answer races with the transport's reading past the Content-Length, so the
\* hash may or may not have seen the bytes that were not sent.
Put(u) ==
  /\ up[u].pc = "stat"
  /\ local # None
  /\ Sent(u).size >= up[u].size
  /\ stored' = [stored EXCEPT ![u] = Sent(u)]
  /\ \E hashed \in {Sent(u), ReadLimited} :
       up' = [up EXCEPT ![u] = [pc |-> "answered", expected |-> @.expected, size |-> @.size,
                                hashed |-> hashed]]
  /\ UNCHANGED <<downVars, local>>

\* Open, the transport or the Control Plane fails, or the answer is lost.
PutFails(u) ==
  /\ up[u].pc = "stat"
  /\ \/ UNCHANGED stored
     \/ local # None /\ stored' = [stored EXCEPT ![u] = Sent(u)]
  /\ up' = [up EXCEPT ![u] = IdleUp]
  /\ UNCHANGED <<downVars, local>>

\* The expected digest is announced and trusted.
CompareNothing(u) ==
  /\ up[u].pc = "answered"
  /\ up' = [up EXCEPT ![u] = [pc |-> "uploaded", expected |-> @.expected, size |-> @.size]]
  /\ UNCHANGED <<downVars, local, stored>>

\* The digest of what was read is compared after the answer: nil, or an error.
Compare(u) ==
  /\ up[u].pc = "answered"
  /\ up' = [up EXCEPT ![u] =
              IF DigestMatches(@.hashed, @.expected)
              THEN [pc |-> "uploaded", expected |-> @.expected, size |-> @.size] ELSE IdleUp]
  /\ UNCHANGED <<downVars, local, stored>>

\* The caller has its answer.
Acknowledge(u) ==
  /\ up[u].pc = "uploaded"
  /\ up' = [up EXCEPT ![u] = IdleUp]
  /\ UNCHANGED <<downVars, local, stored>>

-----------------------------------------------------------------------------
(* The environment.                                                         *)

\* Another process writes, replaces or removes the local file.
Rewrite ==
  /\ local' \in Contents \cup {None}
  /\ UNCHANGED <<downVars, up, stored>>

\* The process dies: part files of calls in progress stay behind.
Crash ==
  /\ LET left == {d \in Downloads : down[d].pc \in {"copy", "sync", "remove"}}
     IN  litter' = IF left = {} THEN litter ELSE {Part(d) : d \in left}
  /\ excused' = TRUE
  /\ down' = [d \in Downloads |-> IdleDown]
  /\ up' = [u \in Uploads |-> IdleUp]
  /\ UNCHANGED <<local, stored>>

Next ==
  \/ \E d \in Downloads :
       \/ Request(d) \/ CreatePart(d) \/ CreateFails(d) \/ CopyByte(d) \/ Verify(d)
       \/ DownloadFails(d) \/ Commit(d) \/ HandOver(d) \/ RemovePart(d) \/ RemoveFails(d)
  \/ \E u \in Uploads : Stat(u) \/ Put(u) \/ PutFails(u) \/ Compare(u) \/ Acknowledge(u)
  \/ Rewrite \/ Crash

Spec == Init /\ [][Next]_vars

-----------------------------------------------------------------------------
(* Properties.                                                              *)

DownStates ==
  [pc : {"idle"}]
  \cup [pc : {"answered"}, manifest : Manifests, body : Data]
  \cup [pc : {"copy", "sync", "returned", "remove"}, manifest : Manifests, body : Data, size : Nat]

UpStates ==
  [pc : {"idle"}]
  \cup [pc : {"stat"}, expected : Contents, size : 0 .. MaxUploadBytes]
  \cup [pc : {"answered"}, expected : Contents, size : 0 .. MaxUploadBytes, hashed : Data]
  \cup [pc : {"uploaded"}, expected : Contents, size : 0 .. MaxUploadBytes]

\* Every variable keeps its type; in particular an upload in progress was within
\* the limit when its file was looked at.
TypeOK ==
  /\ down \in [Downloads -> DownStates]
  /\ litter \subseteq Data
  /\ excused \in BOOLEAN
  /\ local \in Contents \cup {None}
  /\ up \in [Uploads -> UpStates]
  /\ stored \in [Uploads -> Data \cup {None}]

\* Every path Download returns is of a complete file with the size and the
\* digest of its manifest, within the limit, whatever the server sent and
\* wherever it stopped.
ReturnedVerified ==
  \A d \in Downloads : down[d].pc = "returned" =>
    LET m == down[d].manifest IN
    /\ down[d].size = m.size
    /\ down[d].size <= MaxDownloadBytes
    /\ DigestMatches(Part(d), m.content)

\* A part file that nobody knows of is left only by a death of the process or a
\* failed removal, never by one of the error returns of Download.
NoLitter == litter # {} => excused

\* How far the limits can be exceeded.  A part file, abandoned or in progress,
\* has at most the one byte past the limit by which copyVerified finds the excess
\* out, however long the body.  An upload whose length was announced sends exactly
\* the length that Lstat saw, which is within the limit.  One whose file was empty
\* at Lstat announces no length and sends what the file has grown to, up to one
\* byte past the limit: LimitReader lets that byte through and nothing in Upload
\* looks at it, so such an upload may even return nil.
ExcessBounded ==
  /\ \A f \in litter : f.size <= MaxDownloadBytes + 1
  /\ \A d \in Downloads :
       down[d].pc \in {"copy", "sync", "remove"} => down[d].size <= MaxDownloadBytes + 1
  /\ \A u \in Uploads : stored[u] # None =>
       /\ stored[u].size <= MaxUploadBytes + 1
       /\ up[u].pc \in {"answered", "uploaded"} /\ up[u].size > 0 =>
            stored[u].size = up[u].size

\* Upload returns nil only when what the Control Plane took is the expected
\* content, although the file may be rewritten between Lstat and the read, and
\* may have been empty, so that its length was not announced; or, when the file
\* grew into the expected content since Lstat, the beginning of it that had the
\* announced length.
UploadTruthful ==
  \A u \in Uploads : up[u].pc = "uploaded" =>
    \/ DigestMatches(stored[u], up[u].expected)
    \/ up[u].size > 0 /\ stored[u] = Prefix(Whole(up[u].expected), up[u].size)
=============================================================================
