----------------------- MODULE ArtifactTransferProofs -----------------------
(***************************************************************************)
(* Proofs about ArtifactTransfer, for contents of any number and length,   *)
(* any limits, and any number of concurrent calls, crashes and rewrites of *)
(* the local file.                                                         *)
(***************************************************************************)
EXTENDS ArtifactTransfer, TLAPS

-----------------------------------------------------------------------------
(* The inductive invariant.                                                 *)

\* A part file never exceeds the limit by more than a byte, and one that passed
\* copyVerified stays as it was verified.
DownSound(s) ==
  /\ s.pc \in {"copy", "sync", "remove"} => s.size <= MaxDownloadBytes + 1
  /\ s.pc \in {"sync", "returned"} =>
       /\ s.size = s.manifest.size
       /\ s.size <= MaxDownloadBytes
       /\ DigestMatches(Prefix(s.body, s.size), s.manifest.content)

LitterSound ==
  /\ \A f \in litter : f.size <= MaxDownloadBytes + 1
  /\ NoLitter

\* Once answered, the Control Plane has what was hashed, or its beginning of the
\* announced length; once compared, the expected content or its beginning.
UpSound(s, data) ==
  /\ data # None => data.size <= MaxUploadBytes + 1
  /\ s.pc = "answered" =>
       /\ data \in Data
       /\ data = s.hashed \/ (s.size > 0 /\ data = Prefix(s.hashed, s.size))
  /\ s.pc \in {"answered", "uploaded"} /\ s.size > 0 => data.size = s.size
  /\ s.pc = "uploaded" =>
       DigestMatches(data, s.expected)
       \/ (s.size > 0 /\ data = Prefix(Whole(s.expected), s.size))

TransferInv ==
  /\ TypeOK
  /\ \A d \in Downloads : DownSound(down[d])
  /\ LitterSound
  /\ \A u \in Uploads : UpSound(up[u], stored[u])

-----------------------------------------------------------------------------
(* Bytes.                                                                   *)

LEMMA DataFields ==
  ASSUME NEW x \in Data
  PROVE  /\ x.content \in Contents /\ x.size \in 0 .. Length[x.content]
         /\ Length[x.content] \in Nat
         /\ x = [content |-> x.content, size |-> x.size]
<1>1. PICK c \in Contents : x \in {[content |-> c, size |-> n] : n \in 0 .. Length[c]}
  BY DEF Data
<1>2. PICK n \in 0 .. Length[c] : x = [content |-> c, size |-> n]
  BY <1>1
<1>3. QED
  BY <1>2, TransferAssumption

LEMMA DataIntro ==
  ASSUME NEW c \in Contents, NEW n \in 0 .. Length[c]
  PROVE  [content |-> c, size |-> n] \in Data
BY DEF Data

\* The bytes a LimitedReader lets through.
LEMMA PrefixData ==
  ASSUME NEW x \in Data, NEW n \in Nat
  PROVE  /\ Prefix(x, n) \in Data
         /\ Prefix(x, n).size = IF x.size <= n THEN x.size ELSE n
         /\ Prefix(x, n).size <= n /\ Prefix(x, n).size \in Nat
<1>1. x.content \in Contents /\ x.size \in 0 .. Length[x.content] /\ Length[x.content] \in Nat
      /\ x = [content |-> x.content, size |-> x.size]
  BY DataFields
<1>2. CASE x.size <= n
  BY <1>1, <1>2 DEF Prefix
<1>3. CASE ~(x.size <= n)
  <2>1. Prefix(x, n) = [content |-> x.content, size |-> n]
    BY <1>1, <1>3 DEF Prefix
  <2>2. n \in 0 .. Length[x.content]
    BY <1>1, <1>3
  <2>3. Prefix(x, n) \in Data
    BY <1>1, <2>1, <2>2, DataIntro
  <2>4. QED
    BY <1>1, <1>3, <2>1, <2>3
<1>4. QED
  BY <1>2, <1>3

LEMMA WholeData ==
  ASSUME NEW c \in Contents
  PROVE  Whole(c) \in Data /\ Whole(c).size = Length[c] /\ Length[c] \in Nat
BY DataIntro, TransferAssumption DEF Whole

-----------------------------------------------------------------------------
(* Download.                                                                *)

\* The fields a call has at each step.
LEMMA DownFields ==
  ASSUME NEW s \in DownStates
  PROVE  /\ s.pc \in {"idle", "answered", "copy", "sync", "returned", "remove"}
         /\ s.pc # "idle" => s.manifest \in Manifests /\ s.body \in Data
         /\ s.pc = "answered" => s = [pc |-> "answered", manifest |-> s.manifest, body |-> s.body]
         /\ s.pc \in {"copy", "sync", "returned", "remove"} =>
              /\ s.size \in Nat
              /\ s = [pc |-> s.pc, manifest |-> s.manifest, body |-> s.body, size |-> s.size]
BY DEF DownStates

\* A call's record is replaced by a typed and sound one.
LEMMA DownStep ==
  ASSUME TransferInv, NEW d \in Downloads, NEW new \in DownStates, DownSound(new),
         down' = [down EXCEPT ![d] = new]
  PROVE  down' \in [Downloads -> DownStates] /\ \A e \in Downloads : DownSound(down'[e])
BY DEF TransferInv, TypeOK

\* The part file of a call that has one.
LEMMA PartData ==
  ASSUME TransferInv, NEW d \in Downloads, down[d].pc \in {"copy", "sync", "remove"}
  PROVE  Part(d) \in Data /\ Part(d).size <= MaxDownloadBytes + 1
<1>1. down[d] \in DownStates /\ DownSound(down[d])
  BY DEF TransferInv, TypeOK
<1>2. down[d].body \in Data /\ down[d].size \in Nat
  BY <1>1, DownFields
<1>3. down[d].size <= MaxDownloadBytes + 1
  BY <1>1 DEF DownSound
<1>4. Part(d) \in Data /\ Part(d).size \in Nat /\ Part(d).size <= down[d].size
  BY <1>2, PrefixData DEF Part
<1>5. QED
  BY <1>2, <1>3, <1>4, TransferAssumption

DownloadStep(d) ==
  \/ Request(d) \/ CreatePart(d) \/ CreateFails(d) \/ CopyByte(d) \/ Verify(d)
  \/ DownloadFails(d) \/ Commit(d) \/ HandOver(d) \/ RemovePart(d) \/ RemoveFails(d)

\* Every step of Download leaves a typed and sound record.
LEMMA DownloadRecord ==
  ASSUME TransferInv, NEW d \in Downloads, DownloadStep(d)
  PROVE  \E new \in DownStates : DownSound(new) /\ down' = [down EXCEPT ![d] = new]
<1>1. down[d] \in DownStates /\ DownSound(down[d]) /\ down \in [Downloads -> DownStates]
  BY DEF TransferInv, TypeOK
<1>2. IdleDown \in DownStates /\ DownSound(IdleDown)
  BY DEF IdleDown, DownStates, DownSound
<1>3. CASE CreateFails(d) \/ HandOver(d) \/ RemovePart(d) \/ RemoveFails(d)
  BY <1>2, <1>3 DEF CreateFails, HandOver, RemovePart, RemoveFails
<1>4. CASE Request(d)
  <2>1. PICK m \in Manifests, body \in Data :
          down' = [down EXCEPT ![d] = [pc |-> "answered", manifest |-> m, body |-> body]]
    BY <1>4 DEF Request
  <2> DEFINE new == [pc |-> "answered", manifest |-> m, body |-> body]
  <2>2. new \in DownStates /\ DownSound(new)
    BY DEF DownStates, DownSound
  <2>3. QED
    BY <2>1, <2>2
<1>5. CASE CreatePart(d)
  <2> DEFINE new == [pc |-> "copy", manifest |-> down[d].manifest, body |-> down[d].body,
                     size |-> 0]
  <2>1. down' = [down EXCEPT ![d] = new] /\ down[d].pc = "answered"
    BY <1>1, <1>5 DEF CreatePart
  <2>2. new \in DownStates
    BY <1>1, <2>1, DownFields DEF DownStates
  <2>3. DownSound(new)
    BY TransferAssumption DEF DownSound
  <2>4. QED
    BY <2>1, <2>2, <2>3
<1>6. CASE CopyByte(d)
  <2> DEFINE new == [down[d] EXCEPT !.size = down[d].size + 1]
  <2>1. down' = [down EXCEPT ![d] = new] /\ down[d].pc = "copy"
        /\ down[d].size < Limited(down[d].body).size
    BY <1>1, <1>6 DEF CopyByte
  <2>2. /\ down[d].manifest \in Manifests /\ down[d].body \in Data /\ down[d].size \in Nat
        /\ down[d] = [pc |-> "copy", manifest |-> down[d].manifest, body |-> down[d].body,
                      size |-> down[d].size]
    BY <1>1, <2>1, DownFields
  <2>3. new = [pc |-> "copy", manifest |-> down[d].manifest, body |-> down[d].body,
               size |-> down[d].size + 1]
    BY <2>2
  <2>4. new \in DownStates
    BY <2>2, <2>3 DEF DownStates
  <2>5. Limited(down[d].body).size \in Nat /\ Limited(down[d].body).size <= MaxDownloadBytes + 1
    <3>1. MaxDownloadBytes + 1 \in Nat
      BY TransferAssumption
    <3>2. QED
      BY <2>2, <3>1, PrefixData DEF Limited
  <2>6. down[d].size + 1 <= MaxDownloadBytes + 1
    BY <2>1, <2>2, <2>5, TransferAssumption
  <2>7. DownSound(new)
    BY <2>3, <2>6 DEF DownSound
  <2>8. QED
    BY <2>1, <2>4, <2>7
<1>7. CASE Verify(d) \/ DownloadFails(d) \/ Commit(d)
  <2>1. PICK p \in {"sync", "returned", "remove"} :
          /\ down' = [down EXCEPT ![d] = [down[d] EXCEPT !.pc = p]]
          /\ p = "sync" => Verified(d)
          /\ p = "returned" => down[d].pc = "sync"
          /\ down[d].pc \in {"copy", "sync"}
    BY <1>1, <1>7 DEF Verify, DownloadFails, Commit
  <2> DEFINE new == [down[d] EXCEPT !.pc = p]
  <2>2. /\ down[d].manifest \in Manifests /\ down[d].body \in Data /\ down[d].size \in Nat
        /\ down[d] = [pc |-> down[d].pc, manifest |-> down[d].manifest, body |-> down[d].body,
                      size |-> down[d].size]
    BY <1>1, <2>1, DownFields
  <2>3. new = [pc |-> p, manifest |-> down[d].manifest, body |-> down[d].body,
               size |-> down[d].size]
    BY <2>2
  <2>4. new \in DownStates
    BY <2>2, <2>3 DEF DownStates
  <2>5. down[d].size <= MaxDownloadBytes + 1
    BY <1>1, <2>1 DEF DownSound
  <2>6. p \in {"sync", "returned"} =>
          /\ down[d].size = down[d].manifest.size
          /\ down[d].size <= MaxDownloadBytes
          /\ DigestMatches(Prefix(down[d].body, down[d].size), down[d].manifest.content)
    BY <1>1, <2>1 DEF Verified, Part, DownSound
  <2>7. new.pc = p /\ new.manifest = down[d].manifest /\ new.body = down[d].body
        /\ new.size = down[d].size
    BY <2>3
  <2>8. DownSound(new)
    BY <2>5, <2>6, <2>7 DEF DownSound
  <2>9. QED
    BY <2>1, <2>4, <2>8
<1>8. QED
  BY <1>3, <1>4, <1>5, <1>6, <1>7 DEF DownloadStep

\* The deferred function removes the part file, or its error excuses the litter.
LEMMA DownloadLitter ==
  ASSUME TransferInv, NEW d \in Downloads, DownloadStep(d)
  PROVE  LitterSound' /\ litter' \subseteq Data /\ excused' \in BOOLEAN
<1>1. LitterSound /\ litter \subseteq Data /\ excused \in BOOLEAN
  BY DEF TransferInv, TypeOK
<1>2. CASE RemoveFails(d)
  <2>1. litter' = {Part(d)} /\ excused' = TRUE /\ down[d].pc = "remove"
    BY <1>2 DEF RemoveFails
  <2>2. Part(d) \in Data /\ Part(d).size <= MaxDownloadBytes + 1
    BY <2>1, PartData
  <2>3. QED
    BY <2>1, <2>2 DEF LitterSound, NoLitter
<1>3. CASE ~RemoveFails(d)
  <2>1. litter' = litter /\ excused' = excused
    BY <1>3 DEF DownloadStep, Request, CreatePart, CreateFails, CopyByte, Verify,
       DownloadFails, Commit, HandOver, RemovePart, PartRemoved
  <2>2. QED
    BY <1>1, <2>1 DEF LitterSound, NoLitter
<1>4. QED
  BY <1>2, <1>3

LEMMA DownloadKeeps ==
  ASSUME TransferInv, NEW d \in Downloads, DownloadStep(d)
  PROVE  TransferInv'
<1>1. UNCHANGED <<local, up, stored>>
  BY DEF DownloadStep, Request, CreatePart, CreateFails, CopyByte, Verify,
     DownloadFails, Commit, HandOver, RemovePart, RemoveFails, upVars
<1>2. PICK new \in DownStates : DownSound(new) /\ down' = [down EXCEPT ![d] = new]
  BY DownloadRecord
<1>3. down' \in [Downloads -> DownStates] /\ \A e \in Downloads : DownSound(down'[e])
  BY <1>2, DownStep
<1>4. LitterSound' /\ litter' \subseteq Data /\ excused' \in BOOLEAN
  BY DownloadLitter
<1>5. TypeOK'
  BY <1>1, <1>3, <1>4 DEF TransferInv, TypeOK
<1>6. \A u \in Uploads : UpSound(up[u], stored[u])'
  BY <1>1 DEF TransferInv
<1>7. QED
  BY <1>3, <1>4, <1>5, <1>6 DEF TransferInv

-----------------------------------------------------------------------------
(* Upload.                                                                  *)

LEMMA UpFields ==
  ASSUME NEW s \in UpStates
  PROVE  /\ s.pc \in {"idle", "stat", "answered", "uploaded"}
         /\ s.pc # "idle" => s.expected \in Contents /\ s.size \in 0 .. MaxUploadBytes
         /\ s.pc = "answered" => s.hashed \in Data
BY DEF UpStates

\* What is read, and what of it is sent.
LEMMA SentData ==
  ASSUME local \in Contents, NEW u \in Uploads, up[u].size \in 0 .. MaxUploadBytes
  PROVE  /\ ReadLimited \in Data /\ Sent(u) \in Data
         /\ Sent(u).size <= MaxUploadBytes + 1
         /\ Sent(u) = ReadLimited \/ (up[u].size > 0 /\ Sent(u) = Prefix(ReadLimited, up[u].size))
<1>1. ReadLimited \in Data /\ ReadLimited.size <= MaxUploadBytes + 1
  <2>1. MaxUploadBytes + 1 \in Nat
    BY TransferAssumption
  <2>2. QED
    BY <2>1, WholeData, PrefixData DEF ReadLimited
<1>2. CASE up[u].size = 0
  BY <1>1, <1>2 DEF Sent
<1>3. CASE up[u].size # 0
  <2>1. Sent(u) = Prefix(ReadLimited, up[u].size) /\ up[u].size \in Nat /\ up[u].size > 0
    BY <1>3, TransferAssumption DEF Sent
  <2>2. Sent(u) \in Data /\ Sent(u).size <= up[u].size /\ Sent(u).size \in Nat
    BY <1>1, <2>1, PrefixData
  <2>3. Sent(u).size <= MaxUploadBytes + 1
    BY <2>2, TransferAssumption
  <2>4. QED
    BY <1>1, <2>1, <2>2, <2>3
<1>4. QED
  BY <1>2, <1>3

\* The comparison of Upload: hashed bytes with the expected digest are the
\* expected content.
LEMMA ComparedData ==
  ASSUME NEW h \in Data, NEW c \in Contents, NEW n \in Nat, NEW data \in Data,
         DigestMatches(h, c),
         data = h \/ (n > 0 /\ data = Prefix(h, n))
  PROVE  DigestMatches(data, c) \/ (n > 0 /\ data = Prefix(Whole(c), n))
<1>1. h.size \in Nat /\ h = [content |-> h.content, size |-> h.size]
  BY DataFields
<1>2. CASE data = h
  BY <1>2
<1>3. CASE n > 0 /\ data = Prefix(h, n) /\ h.size = 0
  <2>1. Prefix(h, n) = h
    BY <1>1, <1>3 DEF Prefix
  <2>2. QED
    BY <1>3, <2>1
<1>4. CASE n > 0 /\ data = Prefix(h, n) /\ h.size # 0
  <2>1. h.content = c /\ h.size = Length[c]
    BY <1>4 DEF DigestMatches
  <2>2. h = Whole(c)
    BY <1>1, <2>1 DEF Whole
  <2>3. QED
    BY <1>4, <2>2
<1>5. QED
  BY <1>2, <1>3, <1>4

UploadStep(u) == Stat(u) \/ Put(u) \/ PutFails(u) \/ Compare(u) \/ Acknowledge(u)

\* Every step of Upload leaves a typed record that is sound with what was stored.
LEMMA UploadRecord ==
  ASSUME TransferInv, NEW u \in Uploads, UploadStep(u)
  PROVE  \E new \in UpStates, data \in Data \cup {None} :
           /\ UpSound(new, data)
           /\ up' = [up EXCEPT ![u] = new]
           /\ stored' = [stored EXCEPT ![u] = data]
<1>1. /\ up[u] \in UpStates /\ up \in [Uploads -> UpStates]
      /\ stored[u] \in Data \cup {None} /\ stored \in [Uploads -> Data \cup {None}]
      /\ UpSound(up[u], stored[u])
      /\ local \in Contents \cup {None}
  BY DEF TransferInv, TypeOK
<1>2. IdleUp \in UpStates /\ IdleUp.pc = "idle"
  BY DEF IdleUp, UpStates
<1>3. stored = [stored EXCEPT ![u] = stored[u]]
  BY <1>1
<1>4. CASE Stat(u)
  <2>1. PICK c \in Contents :
          up' = [up EXCEPT ![u] = [pc |-> "stat", expected |-> c, size |-> Length[local]]]
    BY <1>4 DEF Stat
  <2> DEFINE new == [pc |-> "stat", expected |-> c, size |-> Length[local]]
  <2>2. local \in Contents /\ Length[local] <= MaxUploadBytes
        /\ stored' = [stored EXCEPT ![u] = None]
    BY <1>1, <1>4 DEF Stat
  <2>3. Length[local] \in 0 .. MaxUploadBytes
    BY <2>2, TransferAssumption
  <2>4. new \in UpStates
    BY <2>3 DEF UpStates
  <2>5. UpSound(new, None)
    BY DEF UpSound
  <2>6. QED
    BY <2>1, <2>2, <2>4, <2>5
<1>5. CASE Put(u)
  <2>1. PICK hashed \in {Sent(u), ReadLimited} :
          up' = [up EXCEPT ![u] = [pc |-> "answered", expected |-> up[u].expected,
                                   size |-> up[u].size, hashed |-> hashed]]
    BY <1>1, <1>5 DEF Put
  <2> DEFINE new == [pc |-> "answered", expected |-> up[u].expected,
                     size |-> up[u].size, hashed |-> hashed]
  <2>2. local \in Contents /\ stored' = [stored EXCEPT ![u] = Sent(u)] /\ up[u].pc = "stat"
    BY <1>1, <1>5 DEF Put
  <2>3. up[u].expected \in Contents /\ up[u].size \in 0 .. MaxUploadBytes
    BY <1>1, <2>2, UpFields
  <2>4. /\ ReadLimited \in Data /\ Sent(u) \in Data
        /\ Sent(u).size <= MaxUploadBytes + 1
        /\ Sent(u) = ReadLimited \/ (up[u].size > 0 /\ Sent(u) = Prefix(ReadLimited, up[u].size))
    BY <2>2, <2>3, SentData
  <2>5. new \in UpStates
    BY <2>3, <2>4 DEF UpStates
  <2>6. new.pc = "answered" /\ new.size = up[u].size /\ new.hashed = hashed
    OBVIOUS
  <2>7. Sent(u) = hashed \/ (up[u].size > 0 /\ Sent(u) = Prefix(hashed, up[u].size))
    BY <2>1, <2>4
  <2>8. up[u].size > 0 => Sent(u).size = up[u].size
    <3> SUFFICES ASSUME up[u].size > 0 PROVE Sent(u).size = up[u].size
      OBVIOUS
    <3>1. up[u].size \in Nat
      BY <2>3, TransferAssumption
    <3>2. Sent(u) = Prefix(ReadLimited, up[u].size)
      BY <3>1 DEF Sent
    <3>3. Sent(u).size >= up[u].size
      BY <1>5 DEF Put
    <3>4. Sent(u).size <= up[u].size /\ Sent(u).size \in Nat
      BY <2>4, <3>1, <3>2, PrefixData
    <3>5. QED
      BY <3>1, <3>3, <3>4
  <2>9. UpSound(new, Sent(u))
    BY <2>4, <2>6, <2>7, <2>8 DEF UpSound
  <2>10. QED
    BY <2>1, <2>2, <2>4, <2>5, <2>9
<1>6. CASE PutFails(u)
  <2>1. up' = [up EXCEPT ![u] = IdleUp] /\ up[u].pc = "stat"
    BY <1>6 DEF PutFails
  <2>2. CASE stored' = stored
    BY <1>1, <1>2, <1>3, <2>1, <2>2 DEF UpSound
  <2>3. CASE local # None /\ stored' = [stored EXCEPT ![u] = Sent(u)]
    <3>1. Sent(u) \in Data /\ Sent(u).size <= MaxUploadBytes + 1
      BY <1>1, <2>1, <2>3, UpFields, SentData
    <3>2. UpSound(IdleUp, Sent(u))
      BY <1>2, <3>1 DEF UpSound
    <3>3. QED
      BY <1>2, <2>1, <2>3, <3>1, <3>2
  <2>4. QED
    BY <1>6, <2>2, <2>3 DEF PutFails
<1>7. CASE Compare(u) /\ DigestMatches(up[u].hashed, up[u].expected)
  <2> DEFINE new == [pc |-> "uploaded", expected |-> up[u].expected, size |-> up[u].size]
  <2>1. up' = [up EXCEPT ![u] = new] /\ up[u].pc = "answered" /\ stored' = stored
    BY <1>1, <1>7 DEF Compare
  <2>2. up[u].expected \in Contents /\ up[u].size \in 0 .. MaxUploadBytes /\ up[u].hashed \in Data
    BY <1>1, <2>1, UpFields
  <2>3. new \in UpStates
    BY <2>2 DEF UpStates
  <2>4. stored[u] \in Data
        /\ (stored[u] = up[u].hashed
            \/ (up[u].size > 0 /\ stored[u] = Prefix(up[u].hashed, up[u].size)))
    BY <1>1, <2>1 DEF UpSound
  <2>5. up[u].size \in Nat
    BY <2>2, TransferAssumption
  <2>6. DigestMatches(stored[u], up[u].expected)
        \/ (up[u].size > 0 /\ stored[u] = Prefix(Whole(up[u].expected), up[u].size))
    BY <1>7, <2>2, <2>4, <2>5, ComparedData
  <2>7. new.pc = "uploaded" /\ new.expected = up[u].expected /\ new.size = up[u].size
    OBVIOUS
  <2>8. UpSound(new, stored[u])
    BY <1>1, <2>1, <2>6, <2>7 DEF UpSound
  <2>9. QED
    BY <1>1, <1>3, <2>1, <2>3, <2>8
<1>8. CASE Acknowledge(u) \/ (Compare(u) /\ ~DigestMatches(up[u].hashed, up[u].expected))
  <2>1. up' = [up EXCEPT ![u] = IdleUp] /\ stored' = stored
    BY <1>1, <1>8 DEF Compare, Acknowledge
  <2>2. UpSound(IdleUp, stored[u])
    BY <1>1, <1>2 DEF UpSound
  <2>3. QED
    BY <1>1, <1>2, <1>3, <2>1, <2>2
<1>9. QED
  BY <1>4, <1>5, <1>6, <1>7, <1>8 DEF UploadStep

LEMMA UploadKeeps ==
  ASSUME TransferInv, NEW u \in Uploads, UploadStep(u)
  PROVE  TransferInv'
<1>1. UNCHANGED <<down, litter, excused, local>>
  BY DEF UploadStep, Stat, Put, PutFails, Compare, Acknowledge, downVars
<1>2. PICK new \in UpStates, data \in Data \cup {None} :
        UpSound(new, data) /\ up' = [up EXCEPT ![u] = new] /\ stored' = [stored EXCEPT ![u] = data]
  BY UploadRecord
<1>3. up \in [Uploads -> UpStates] /\ stored \in [Uploads -> Data \cup {None}]
  BY DEF TransferInv, TypeOK
<1>4. up' \in [Uploads -> UpStates] /\ stored' \in [Uploads -> Data \cup {None}]
  BY <1>2, <1>3
<1>5. \A v \in Uploads : UpSound(up'[v], stored'[v])
  BY <1>2, <1>3 DEF TransferInv
<1>6. TypeOK'
  BY <1>1, <1>4 DEF TransferInv, TypeOK
<1>7. LitterSound' /\ \A d \in Downloads : DownSound(down[d])'
  BY <1>1 DEF TransferInv, LitterSound, NoLitter
<1>8. QED
  BY <1>5, <1>6, <1>7 DEF TransferInv

-----------------------------------------------------------------------------
(* The environment.                                                         *)

LEMMA RewriteKeeps ==
  ASSUME TransferInv, Rewrite
  PROVE  TransferInv'
<1>1. UNCHANGED <<down, litter, excused, up, stored>> /\ local' \in Contents \cup {None}
  BY DEF Rewrite, downVars
<1>2. QED
  BY <1>1 DEF TransferInv, TypeOK, LitterSound, NoLitter

LEMMA CrashKeeps ==
  ASSUME TransferInv, Crash
  PROVE  TransferInv'
<1>1. /\ excused' = TRUE /\ UNCHANGED <<local, stored>>
      /\ down' = [d \in Downloads |-> IdleDown]
      /\ up' = [u \in Uploads |-> IdleUp]
  BY DEF Crash
<1>2. /\ IdleDown \in DownStates /\ DownSound(IdleDown)
      /\ IdleUp \in UpStates /\ IdleUp.pc = "idle"
  BY DEF IdleDown, IdleUp, DownStates, UpStates, DownSound
<1>3. \A f \in litter' : f \in Data /\ f.size <= MaxDownloadBytes + 1
  <2> DEFINE left == {d \in Downloads : down[d].pc \in {"copy", "sync", "remove"}}
  <2>1. litter' = IF left = {} THEN litter ELSE {Part(d) : d \in left}
    BY DEF Crash
  <2>2. \A f \in litter : f \in Data /\ f.size <= MaxDownloadBytes + 1
    BY DEF TransferInv, TypeOK, LitterSound
  <2>3. \A d \in left : Part(d) \in Data /\ Part(d).size <= MaxDownloadBytes + 1
    BY PartData
  <2>4. QED
    BY <2>1, <2>2, <2>3
<1>4. LitterSound'
  BY <1>1, <1>3 DEF LitterSound, NoLitter
<1>5. TypeOK'
  BY <1>1, <1>2, <1>3 DEF TransferInv, TypeOK
<1>6. \A d \in Downloads : DownSound(down'[d])
  BY <1>1, <1>2
<1>7. \A u \in Uploads : UpSound(up'[u], stored'[u])
  <2> TAKE u \in Uploads
  <2>1. up'[u] = IdleUp /\ stored'[u] = stored[u]
    BY <1>1
  <2>2. UpSound(up[u], stored[u])
    BY DEF TransferInv
  <2>3. QED
    BY <1>2, <2>1, <2>2 DEF UpSound
<1>8. QED
  BY <1>4, <1>5, <1>6, <1>7 DEF TransferInv

-----------------------------------------------------------------------------
(* The results.                                                             *)

LEMMA InitTransfer == Init => TransferInv
<1> HAVE Init
<1>1. /\ IdleDown \in DownStates /\ DownSound(IdleDown)
      /\ IdleUp \in UpStates /\ UpSound(IdleUp, None)
  BY DEF IdleDown, IdleUp, DownStates, UpStates, DownSound, UpSound
<1>2. TypeOK
  BY <1>1 DEF Init, TypeOK
<1>3. LitterSound
  BY DEF Init, LitterSound, NoLitter
<1>4. QED
  BY <1>1, <1>2, <1>3 DEF Init, TransferInv

\* The inductive invariant: typed calls, part files within the limit and, past
\* copyVerified, equal to their manifests; litter excused; and what the Control
\* Plane took tied to what Upload hashed.
THEOREM TransferInvariance == Spec => []TransferInv
<1>1. TransferInv /\ [Next]_vars => TransferInv'
  <2> SUFFICES ASSUME TransferInv, [Next]_vars PROVE TransferInv'
    OBVIOUS
  <2>1. CASE \E d \in Downloads : DownloadStep(d)
    BY <2>1, DownloadKeeps
  <2>2. CASE \E u \in Uploads : UploadStep(u)
    BY <2>2, UploadKeeps
  <2>3. CASE Rewrite
    BY <2>3, RewriteKeeps
  <2>4. CASE Crash
    BY <2>4, CrashKeeps
  <2>5. CASE UNCHANGED vars
    BY <2>5 DEF vars, TransferInv, TypeOK, LitterSound, NoLitter
  <2>6. QED
    BY <2>1, <2>2, <2>3, <2>4, <2>5 DEF Next, DownloadStep, UploadStep
<1>2. QED
  BY InitTransfer, <1>1, PTL DEF Spec

\* Every variable keeps its type; in particular an upload in progress was within
\* the limit when Lstat saw its file.
THEOREM TypeCorrect == Spec => []TypeOK
<1>1. TransferInv => TypeOK
  BY DEF TransferInv
<1>2. QED
  BY <1>1, TransferInvariance, PTL

\* Download returns only complete files of the manifest's size and digest, for
\* every body and every place where it stops.
THEOREM DownloadsVerified == Spec => []ReturnedVerified
<1>1. TransferInv => ReturnedVerified
  BY DEF TransferInv, DownSound, ReturnedVerified, Part
<1>2. QED
  BY <1>1, TransferInvariance, PTL

\* Only a death of the process or a failed os.Remove leaves a part file behind.
THEOREM LitterExcused == Spec => []NoLitter
<1>1. TransferInv => NoLitter
  BY DEF TransferInv, LitterSound
<1>2. QED
  BY <1>1, TransferInvariance, PTL

\* A part file exceeds its limit by the byte that copyVerified examines at most; an
\* upload whose length Lstat announced keeps to it, and one whose file was empty
\* then exceeds the limit by one byte at most.
THEOREM TransfersLimited == Spec => []ExcessBounded
<1>1. TransferInv => ExcessBounded
  BY DEF TransferInv, DownSound, UpSound, LitterSound, ExcessBounded
<1>2. QED
  BY <1>1, TransferInvariance, PTL

\* Upload returns nil only when the Control Plane took the expected content, or
\* the beginning of it that had the length Lstat announced.
THEOREM UploadsTruthful == Spec => []UploadTruthful
<1>1. TransferInv => UploadTruthful
  BY DEF TransferInv, UpSound, UploadTruthful
<1>2. QED
  BY <1>1, TransferInvariance, PTL
=============================================================================
