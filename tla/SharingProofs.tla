---------------------------- MODULE SharingProofs ----------------------------
(***************************************************************************)
(* Proofs about Sharing, for any number of files, contacts, shares and      *)
(* chunks: whatever overlaps and fails, receipts are true; without perils,  *)
(* active shares are served, no copy outlives its last share, and with B2   *)
(* keys a revoked share's credential opens nothing.                         *)
(***************************************************************************)
EXTENDS Sharing, TLAPS

-----------------------------------------------------------------------------
(* Types.                                                                   *)
Times    == Nat \cup {Never}
Creds    == {"key", "folder"} \X Shares
Copies   == Shares \X Chunks
Notes    == [fs : Shares, cred : Creds, kind : {"imported", "downloaded"}, at : Nat]
Rows     == [file : Files, contact : Contacts, fs : Shares, created : Nat, expires : Times,
             revoked : BOOLEAN, cred : Creds, got : SUBSET {"imported", "downloaded"}]
ShareJob == [op : {"share"}, phase : {"upload", "creds", "insert"}, fs : Shares, file : Files,
             contact : Contacts, created : Nat, cred : Creds \cup {<<>>}, expires : Times]
Listing  == ({"chunk"} \X Copies) \cup ({"receipt"} \X Notes)
Revoking == [op : {"revoke"}, via : {"command", "sweep"}, last : BOOLEAN, fs : Shares,
             cred : Creds, phase : {"list", "delete", "mark", "cleanup"}, list : SUBSET Listing]
Packages == [to : Contacts, share : Shares, fs : Shares, cred : Creds, expires : Times]

TypeOK ==
    /\ now \in Nat /\ files \subseteq Files /\ contacts \subseteq Contacts
    /\ row \in [Shares -> Rows \cup {NoRow}] /\ snaps \subseteq Shares
    /\ blobs \subseteq Copies /\ stray \subseteq Copies /\ grants \subseteq [id : Creds, until : Times]
    /\ packages \subseteq Packages /\ received \subseteq [who : Contacts, pkg : Packages]
    /\ owed \subseteq Notes /\ receipts \subseteq Notes
    /\ saved \subseteq [who : Contacts, fs : Shares, at : Nat]
    /\ job \in [Shares -> ShareJob \cup Revoking \cup {Idle}] /\ sweep \subseteq Shares

(* A package is sealed after its credential was made, and a share expires   *)
(* after it was begun.                                                      *)
JobsSane ==
    \A s \in Shares : job[s].op = "share" =>
        /\ job[s].phase = "insert" => job[s].cred \in Creds
        /\ job[s].expires # Never => job[s].created <= job[s].expires

Typed == TypeOK /\ JobsSane

-----------------------------------------------------------------------------
(* What a receipt proves.                                                   *)
NotesTrue ==
    \A r \in owed \cup receipts : r.kind = "downloaded" =>
        \E d \in saved : d.fs = r.fs /\ d.at = r.at

ReceiptInv == Typed /\ NotesTrue /\ ReceiptIsTrue

-----------------------------------------------------------------------------
(* Without perils one command runs at a time, and during a sweep only its   *)
(* own revocations.                                                         *)
Solo ==
    /\ \A s, t \in Shares : job[s].op # "idle" /\ job[t].op # "idle" => s = t
    /\ sweep # {} => \A s \in Shares :
          job[s].op # "idle" => job[s].op = "revoke" /\ job[s].via = "sweep"

(* What a share_file under way can rely on.                                 *)
Sharing1(s) ==
    job[s].op = "share" =>
        /\ job[s].file \in files /\ row[s] = NoRow
        /\ job[s].phase = "upload" => job[s].fs = s /\ s \notin snaps
        /\ job[s].phase # "upload" => job[s].fs \in snaps /\ Complete(job[s].fs)
        /\ job[s].fs # s => \E t \in Shares : Active(t) /\ row[t].fs = job[s].fs

(* What a revocation read is still so until it marks the row.               *)
Revoking1(s) ==
    job[s].op = "revoke" /\ job[s].phase # "cleanup" =>
        /\ Active(s) /\ job[s].fs = row[s].fs
        /\ job[s].last <=> job[s].phase \in {"list", "delete"}
        /\ job[s].last => \A t \in Shares : Active(t) /\ row[t].fs = row[s].fs => t = s
        /\ ~job[s].last => \E t \in Shares : t # s /\ Active(t) /\ row[t].fs = row[s].fs
        /\ job[s].phase = "delete" =>
              \A b \in blobs : b[1] = job[s].fs <=> <<"chunk", b>> \in job[s].list

Served ==
    \A s \in Shares : Active(s) =>
        /\ row[s].fs \in snaps
        /\ Complete(row[s].fs) \/ (job[s].op = "revoke" /\ job[s].phase = "delete")

Owned ==
    \A b \in blobs \ stray :
        \/ \E s \in Shares : Active(s) /\ row[s].fs = b[1]
        \/ \E s \in Shares : job[s].op = "share" /\ job[s].fs = b[1]

SoloInv ==
    /\ Typed /\ Solo /\ Served /\ Owned
    /\ \A s \in Shares : Sharing1(s) /\ Revoking1(s)

-----------------------------------------------------------------------------
(* B2: the keys of a share end with it.                                     *)
Key(s) == <<"key", s>>

Named(s) ==
    /\ row[s] # NoRow => row[s].cred = Key(s)
    /\ job[s].op = "share" /\ job[s].phase = "insert" => job[s].cred = Key(s)
    /\ job[s].op = "revoke" => job[s].cred = Key(s)

(* No time passes during a command, and a sweep revokes what has expired.   *)
Timed(s) ==
    /\ job[s].op = "share" =>
          job[s].created = now /\ (job[s].expires # Never => now <= job[s].expires)
    /\ job[s].op # "idle" => s \notin sweep
    /\ s \in sweep \/ (job[s].op = "revoke" /\ job[s].via = "sweep") =>
          Active(s) /\ row[s].expires # Never /\ row[s].expires < now

(* A key has ended, or ends by the expiry of its share, or is being         *)
(* deleted.                                                                 *)
Ends(g, e) == e # Never => g.until <= e

Bounded(s) ==
    \A g \in grants : g.id = Key(s) =>
        \/ g.until <= now
        \/ job[s].op = "share" /\ job[s].phase = "insert" /\ Ends(g, job[s].expires)
        \/ Active(s) /\ Ends(g, row[s].expires)
        \/ job[s].op = "revoke" /\ job[s].phase = "cleanup"

CutInv ==
    /\ SoloInv /\ \A g \in grants : g.until \in Nat
    /\ \A s \in Shares : Named(s) /\ Timed(s) /\ Bounded(s)

-----------------------------------------------------------------------------
(* What the tag of a job, and of a row, says of the record.                 *)
LEMMA JobKinds ==
    ASSUME Typed, NEW s \in Shares
    PROVE  /\ job[s].op = "share" => job[s] \in ShareJob
           /\ job[s].op = "revoke" => job[s] \in Revoking
           /\ job[s] = Idle <=> job[s].op = "idle"
           /\ job[s].op \in {"share", "revoke", "idle"}
BY DEF Typed, TypeOK, ShareJob, Revoking, Idle

LEMMA RowKinds ==
    ASSUME Typed, NEW s \in Shares
    PROVE  /\ Active(s) <=> ~row[s].revoked
           /\ Used(s) => row[s] \in Rows
           /\ Active(s) => row[s] \in Rows
BY DEF Typed, TypeOK, Rows, NoRow, Used, Active

(* A credential is named after the share or the copy it is made for.        *)
LEMMA CredentialType ==
    ASSUME SharingConstants, Typed, NEW s \in Shares, NEW fs \in Shares,
           NEW created \in Nat, NEW expires \in Times,
           expires # Never => created <= expires,
           NEW g \in GenerateShareCredentials(s, fs, Ttl(expires, created))
    PROVE  g \in [id : Creds, until : Times]
<1>1. Ttl(expires, created) \in Nat
  BY DEF Ttl, Earlier, Times, SharingConstants
<1>2. ScopedKey(s, Ttl(expires, created)) \in [id : Creds, until : Times]
  BY <1>1 DEF ScopedKey, Creds, Times, Typed, TypeOK
<1>3. FolderPermission(fs) \in [id : Creds, until : Times]
  BY DEF FolderPermission, Creds, Times
<1> QED
  BY <1>2, <1>3 DEF GenerateShareCredentials, GenerateB2, GenerateDrive, HasB2Keys, HasDriveOAuth

-----------------------------------------------------------------------------
(* Types are kept.                                                          *)
LEMMA TypeInit == ASSUME Init PROVE Typed
BY DEF Init, Typed, TypeOK, JobsSane, Idle, NoRow

(* What a change of one job must show.                                      *)
GoodJob(j) ==
    /\ j \in ShareJob \cup Revoking \cup {Idle}
    /\ j.op = "share" =>
        /\ j.phase = "insert" => j.cred \in Creds
        /\ j.expires # Never => j.created <= j.expires

LEMMA JobsKept ==
    ASSUME Typed, NEW s \in Shares, NEW j, GoodJob(j), job' = [job EXCEPT ![s] = j]
    PROVE  job' \in [Shares -> ShareJob \cup Revoking \cup {Idle}] /\ JobsSane'
BY DEF Typed, TypeOK, JobsSane, GoodJob

LEMMA IdleIsGood == GoodJob(Idle)
BY DEF GoodJob, Idle

LEMMA TypeShare ==
    ASSUME SharingConstants, Typed, NEW s \in Shares, NEW f \in Files, NEW c \in Contacts,
           NEW e \in Expiries, ShareBegin(s, f, c, e)
    PROVE  Typed'
<1>1. PICK n \in NextCopy(s, f) : job' = [job EXCEPT ![s] =
                [op |-> "share", phase |-> n.phase, fs |-> n.fs, file |-> f,
                 contact |-> c, created |-> now, cred |-> <<>>,
                 expires |-> IF e = Never THEN Never ELSE now + e]]
  BY DEF ShareBegin
<1>2. n.phase \in {"upload", "creds"} /\ n.fs \in Shares
  <2>1. \A t \in ListActiveByFile(f) : row[t].fs \in Shares
    BY RowKinds DEF ListActiveByFile, Rows
  <2> QED BY <2>1 DEF NextCopy, FirstOf
<1>3. now \in Nat /\ (IF e = Never THEN Never ELSE now + e) \in Times
      /\ ((IF e = Never THEN Never ELSE now + e) # Never => now <= (IF e = Never THEN Never ELSE now + e))
  BY DEF Typed, TypeOK, Times, SharingConstants
<1>4. GoodJob([op |-> "share", phase |-> n.phase, fs |-> n.fs, file |-> f,
                 contact |-> c, created |-> now, cred |-> <<>>,
                 expires |-> IF e = Never THEN Never ELSE now + e])
  BY <1>2, <1>3 DEF GoodJob, ShareJob
<1>5. job' \in [Shares -> ShareJob \cup Revoking \cup {Idle}] /\ JobsSane'
  BY <1>1, <1>4, JobsKept
<1> QED BY <1>5 DEF ShareBegin, Typed, TypeOK, cloud, people

LEMMA TypeSharing ==
    ASSUME SharingConstants, Typed, NEW s \in Shares,
           \/ ShareUpload(s) \/ ShareUploadFail(s) \/ ShareSnapshot(s)
           \/ ShareCreds(s) \/ ShareCredsFail(s) \/ ShareInsert(s)
    PROVE  Typed'
<1>j. job[s] \in ShareJob
  BY JobKinds DEF ShareUpload, ShareUploadFail, ShareSnapshot, ShareCreds, ShareCredsFail, ShareInsert
<1>g. GoodJob(job[s])
  BY DEF Typed, TypeOK, JobsSane, GoodJob
<1>1. CASE ShareUpload(s)
  BY <1>1 DEF ShareUpload, Typed, TypeOK, JobsSane, Copies, people
<1>2. CASE ShareUploadFail(s)
  <2>1. blobs' \subseteq Copies /\ stray' \subseteq Copies
    BY <1>2 DEF ShareUploadFail, UploadFailed, Copies, Typed, TypeOK
  <2>2. job' \in [Shares -> ShareJob \cup Revoking \cup {Idle}] /\ JobsSane'
    BY <1>2, JobsKept, IdleIsGood DEF ShareUploadFail
  <2> QED BY <1>2, <2>1, <2>2 DEF ShareUploadFail, Typed, TypeOK, people
<1>3. CASE ShareSnapshot(s)
  <2>1. job' \in [Shares -> ShareJob \cup Revoking \cup {Idle}] /\ JobsSane'
    <3>1. GoodJob([job[s] EXCEPT !.phase = "creds"])
      BY <1>j, <1>g DEF GoodJob, ShareJob
    <3>2. job' = [job EXCEPT ![s] = [job[s] EXCEPT !.phase = "creds"]]
      BY <1>3 DEF ShareSnapshot, Typed, TypeOK
    <3> QED BY <3>1, <3>2, JobsKept
  <2> QED BY <1>3, <2>1 DEF ShareSnapshot, InsertFileShare, Typed, TypeOK, cloud, people
<1>4. CASE ShareCreds(s)
  <2>1. PICK g \in GenerateShareCredentials(s, job[s].fs, Ttl(job[s].expires, job[s].created)) :
           /\ grants' = grants \cup {g}
           /\ job' = [job EXCEPT ![s] = [job[s] EXCEPT !.phase = "insert", !.cred = g.id]]
    BY <1>4 DEF ShareCreds, Typed, TypeOK
  <2>2. g \in [id : Creds, until : Times]
    <3>1. job[s].fs \in Shares /\ job[s].created \in Nat /\ job[s].expires \in Times
      BY <1>j DEF ShareJob
    <3>2. job[s].expires # Never => job[s].created <= job[s].expires
      BY <1>4 DEF ShareCreds, Typed, JobsSane
    <3> QED BY <2>1, <3>1, <3>2, CredentialType
  <2>3. GoodJob([job[s] EXCEPT !.phase = "insert", !.cred = g.id])
    BY <1>j, <1>g, <2>2 DEF GoodJob, ShareJob
  <2>4. job' \in [Shares -> ShareJob \cup Revoking \cup {Idle}] /\ JobsSane'
    BY <2>1, <2>3, JobsKept
  <2> QED BY <1>4, <2>1, <2>2, <2>4 DEF ShareCreds, Typed, TypeOK, people
<1>5. CASE ShareCredsFail(s)
  <2>1. job' \in [Shares -> ShareJob \cup Revoking \cup {Idle}] /\ JobsSane'
    BY <1>5, JobsKept, IdleIsGood DEF ShareCredsFail
  <2> QED BY <1>5, <2>1 DEF ShareCredsFail, Typed, TypeOK, cloud, people
<1>6. CASE ShareInsert(s)
  <2>1. job' \in [Shares -> ShareJob \cup Revoking \cup {Idle}] /\ JobsSane'
    BY <1>6, JobsKept, IdleIsGood DEF ShareInsert
  <2>2. job[s].cred \in Creds
    BY <1>6 DEF ShareInsert, Typed, JobsSane
  <2>3. row' \in [Shares -> Rows \cup {NoRow}]
    <3> DEFINE r == [file |-> job[s].file, contact |-> job[s].contact, fs |-> job[s].fs,
                     created |-> job[s].created, expires |-> job[s].expires,
                     revoked |-> FALSE, cred |-> job[s].cred, got |-> {}]
    <3>1. r \in Rows
      BY <1>j, <2>2 DEF Rows, ShareJob
    <3>2. row' = [row EXCEPT ![s] = r] \/ row' = row
      BY <1>6 DEF ShareInsert, InsertShare
    <3> HIDE DEF r
    <3> QED BY <3>1, <3>2 DEF Typed, TypeOK
  <2>4. packages' \subseteq Packages
    BY <1>6, <1>j, <2>2 DEF ShareInsert, Seal, Typed, TypeOK, Packages, ShareJob
  <2> QED BY <1>6, <2>1, <2>3, <2>4 DEF ShareInsert, Typed, TypeOK, cloud
<1> QED BY <1>1, <1>2, <1>3, <1>4, <1>5, <1>6

(* A revocation begins with what is in the row.                             *)
LEMMA RevocationBegun ==
    ASSUME Typed, NEW s \in Shares, NEW via \in {"command", "sweep"},
           Active(s), BeginRevoke(s, via)
    PROVE  job' \in [Shares -> ShareJob \cup Revoking \cup {Idle}] /\ JobsSane'
<1> DEFINE j == [op |-> "revoke", via |-> via, last |-> IsLast(s),
                 fs |-> row[s].fs, cred |-> row[s].cred,
                 phase |-> IF IsLast(s) THEN "list" ELSE "mark", list |-> {}]
<1>1. row[s].fs \in Shares /\ row[s].cred \in Creds
  BY RowKinds DEF Rows
<1>2. IsLast(s) \in BOOLEAN
  BY DEF IsLast
<1>3. j \in Revoking
  BY <1>1, <1>2 DEF Revoking
<1>4. GoodJob(j)
  BY <1>3 DEF GoodJob, Revoking
<1>5. job' = [job EXCEPT ![s] = j]
  BY DEF BeginRevoke
<1> HIDE DEF j
<1> QED BY <1>4, <1>5, JobsKept

LEMMA ListingType ==
    ASSUME Typed, NEW fs \in Shares
    PROVE  ListShared(fs) \subseteq Listing
BY DEF ListShared, CopiedBlobs, Listing, Typed, TypeOK

LEMMA TypeRevoking ==
    ASSUME SharingConstants, Typed, NEW s \in Shares,
           \/ RevokeBegin(s) \/ RevokeList(s) \/ RevokeDelete(s) \/ RevokePartial(s)
           \/ RevokeMark(s) \/ RevokeCleanup(s) \/ SweepNext(s) \/ CheckReceipts(s)
    PROVE  Typed'
<1>1. CASE RevokeBegin(s)
  <2>1. Active(s)
    BY <1>1 DEF RevokeBegin, RevokeOffered, ListShares, Active
  <2>2. job' \in [Shares -> ShareJob \cup Revoking \cup {Idle}] /\ JobsSane'
    BY <1>1, <2>1, RevocationBegun DEF RevokeBegin
  <2> QED BY <1>1, <2>2 DEF RevokeBegin, Typed, TypeOK, cloud, people
<1>2. CASE RevokeList(s)
  <2>1. job[s] \in Revoking
    BY <1>2, JobKinds DEF RevokeList
  <2>2. ListShared(job[s].fs) \subseteq Listing
    BY <2>1, ListingType DEF Revoking
  <2>3. GoodJob([job[s] EXCEPT !.phase = "delete", !.list = ListShared(job[s].fs)])
    BY <2>1, <2>2 DEF GoodJob, Revoking
  <2>4. job' = [job EXCEPT ![s] = [job[s] EXCEPT !.phase = "delete", !.list = ListShared(job[s].fs)]]
    BY <1>2 DEF RevokeList, Typed, TypeOK
  <2>5. job' \in [Shares -> ShareJob \cup Revoking \cup {Idle}] /\ JobsSane'
    BY <2>3, <2>4, JobsKept
  <2> QED BY <1>2, <2>5 DEF RevokeList, Typed, TypeOK, cloud, people
<1>3. CASE RevokeDelete(s)
  <2>1. job[s] \in Revoking
    BY <1>3, JobKinds DEF RevokeDelete
  <2>2. PICK x \in job[s].list :
          /\ blobs' = blobs \ {b \in blobs : x = <<"chunk", b>>}
          /\ receipts' = receipts \ {r \in receipts : x = <<"receipt", r>>}
          /\ job' = [job EXCEPT ![s] = [job[s] EXCEPT !.list = job[s].list \ {x}]]
    BY <1>3 DEF RevokeDelete, Typed, TypeOK
  <2>3. GoodJob([job[s] EXCEPT !.list = job[s].list \ {x}])
    BY <2>1 DEF GoodJob, Revoking
  <2>4. job' \in [Shares -> ShareJob \cup Revoking \cup {Idle}] /\ JobsSane'
    BY <2>2, <2>3, JobsKept
  <2>5. blobs' \subseteq blobs /\ receipts' \subseteq receipts
    BY <2>2
  <2> QED BY <1>3, <2>4, <2>5 DEF RevokeDelete, Typed, TypeOK, people
<1>4. CASE RevokePartial(s)
  <2>1. job' \in [Shares -> ShareJob \cup Revoking \cup {Idle}] /\ JobsSane'
    BY <1>4, JobsKept, IdleIsGood DEF RevokePartial
  <2> QED BY <1>4, <2>1 DEF RevokePartial, Typed, TypeOK, cloud, people
<1>5. CASE RevokeMark(s)
  <2>1. job[s] \in Revoking
    BY <1>5, JobKinds DEF RevokeMark
  <2>2. \/ job' = [job EXCEPT ![s] = [job[s] EXCEPT !.phase = "cleanup"]]
        \/ job' = [job EXCEPT ![s] = Idle]
    BY <1>5 DEF RevokeMark, Typed, TypeOK
  <2>3. GoodJob([job[s] EXCEPT !.phase = "cleanup"])
    BY <2>1 DEF GoodJob, Revoking
  <2>4. job' \in [Shares -> ShareJob \cup Revoking \cup {Idle}] /\ JobsSane'
    BY <2>2, <2>3, JobsKept, IdleIsGood
  <2>5. row' \in [Shares -> Rows \cup {NoRow}]
    <3>1. CASE ~Active(s)
      BY <1>5, <3>1 DEF RevokeMark, Typed, TypeOK
    <3>2. CASE Active(s)
      <4>1. [row[s] EXCEPT !.revoked = TRUE] \in Rows
        BY <3>2, RowKinds DEF Rows
      <4>2. row' = [row EXCEPT ![s] = [row[s] EXCEPT !.revoked = TRUE]]
        BY <1>5, <3>2 DEF RevokeMark, SetShareRevoked, Typed, TypeOK
      <4> QED BY <4>1, <4>2 DEF Typed, TypeOK
    <3> QED BY <3>1, <3>2
  <2>6. snaps' \subseteq Shares
    BY <1>5 DEF RevokeMark, DeleteFileShare, Typed, TypeOK
  <2> QED BY <1>5, <2>4, <2>5, <2>6 DEF RevokeMark, Typed, TypeOK, cloud, people
<1>6. CASE RevokeCleanup(s)
  <2>1. job' \in [Shares -> ShareJob \cup Revoking \cup {Idle}] /\ JobsSane'
    BY <1>6, JobsKept, IdleIsGood DEF RevokeCleanup
  <2>2. grants' \subseteq grants
    BY <1>6 DEF RevokeCleanup, Cleanup, DeleteGrant
  <2> QED BY <1>6, <2>1, <2>2 DEF RevokeCleanup, Typed, TypeOK, people
<1>7. CASE SweepNext(s)
  <2>1. job' \in [Shares -> ShareJob \cup Revoking \cup {Idle}] /\ JobsSane'
    <3>1. CASE Active(s)
      BY <1>7, <3>1, RevocationBegun DEF SweepNext
    <3>2. CASE ~Active(s)
      BY <1>7, <3>2 DEF SweepNext, Typed, TypeOK, JobsSane
    <3> QED BY <3>1, <3>2
  <2> QED BY <1>7, <2>1 DEF SweepNext, Typed, TypeOK, cloud, people
<1>8. CASE CheckReceipts(s)
  <2>1. PICK k \in Kinds : row' = [row EXCEPT ![s] = [row[s] EXCEPT !.got = row[s].got \cup {k}]]
    BY <1>8 DEF CheckReceipts, Typed, TypeOK
  <2>2. [row[s] EXCEPT !.got = row[s].got \cup {k}] \in Rows
    <3>1. row[s] \in Rows
      BY <1>8, RowKinds DEF CheckReceipts
    <3>2. row[s].got \cup {k} \in SUBSET {"imported", "downloaded"}
      BY <3>1 DEF Rows, SharingConstants
    <3> QED BY <3>1, <3>2 DEF Rows
  <2>3. row' \in [Shares -> Rows \cup {NoRow}]
    BY <2>1, <2>2 DEF Typed, TypeOK
  <2> QED BY <1>8, <2>3 DEF CheckReceipts, Typed, TypeOK, JobsSane, cloud, people
<1> QED BY <1>1, <1>2, <1>3, <1>4, <1>5, <1>6, <1>7, <1>8

(* A receipt that is owed.                                                  *)
LEMMA NoteType ==
    ASSUME Typed, NEW p \in Packages, NEW k \in {"imported", "downloaded"}, Owe(Receipt(p, k))
    PROVE  Receipt(p, k) \in Notes /\ owed' \subseteq owed \cup {Receipt(p, k)}
BY DEF Receipt, Owe, Notes, Packages, Typed, TypeOK

LEMMA TypeRest ==
    ASSUME SharingConstants, Typed,
           \/ \E c \in Contacts : AddContact(c)
           \/ SweepBegin
           \/ \E c \in Contacts, p \in packages : ImportShare(c, p) \/ DownloadReceived(c, p)
           \/ \E r \in owed : SendReceipt(r)
           \/ \E f \in Files : DeleteFile(f)
           \/ Tick
           \/ Stop
    PROVE  Typed'
<1>1. ASSUME NEW c \in Contacts, AddContact(c) PROVE Typed'
  BY <1>1 DEF AddContact, InsertContact, Typed, TypeOK, JobsSane, cloud, people
<1>2. CASE SweepBegin
  BY <1>2 DEF SweepBegin, Typed, TypeOK, JobsSane, cloud, people
<1>3. ASSUME NEW c \in Contacts, NEW p \in packages, ImportShare(c, p) PROVE Typed'
  <2>1. p \in Packages
    BY DEF Typed, TypeOK
  <2>2. owed' \subseteq Notes
    BY <1>3, <2>1, NoteType DEF ImportShare, Typed, TypeOK
  <2>3. received' \subseteq [who : Contacts, pkg : Packages]
    BY <1>3, <2>1 DEF ImportShare, InsertReceivedShare, ReceivedRow, Typed, TypeOK
  <2> QED BY <1>3, <2>2, <2>3 DEF ImportShare, Typed, TypeOK, JobsSane, cloud
<1>4. ASSUME NEW c \in Contacts, NEW p \in packages, DownloadReceived(c, p) PROVE Typed'
  <2>1. p \in Packages
    BY DEF Typed, TypeOK
  <2>2. owed' \subseteq Notes
    BY <1>4, <2>1, NoteType DEF DownloadReceived, Typed, TypeOK
  <2>3. saved' \subseteq [who : Contacts, fs : Shares, at : Nat]
    BY <1>4, <2>1 DEF DownloadReceived, Packages, Typed, TypeOK
  <2> QED BY <1>4, <2>2, <2>3 DEF DownloadReceived, Typed, TypeOK, JobsSane, cloud
<1>5. ASSUME NEW r \in owed, SendReceipt(r) PROVE Typed'
  <2>1. receipts' \subseteq receipts \cup {r}
    BY <1>5 DEF SendReceipt, WithReceipt
  <2> QED BY <1>5, <2>1 DEF SendReceipt, Typed, TypeOK, JobsSane
<1>6. ASSUME NEW f \in Files, DeleteFile(f) PROVE Typed'
  BY <1>6 DEF DeleteFile, Typed, TypeOK, JobsSane, cloud, people
<1>7. CASE Tick
  BY <1>7 DEF Tick, Typed, TypeOK, JobsSane, cloud, people
<1>8. CASE Stop
  BY <1>8 DEF Stop, Typed, TypeOK, JobsSane, Idle, cloud, people
<1> QED BY <1>1, <1>2, <1>3, <1>4, <1>5, <1>6, <1>7, <1>8

LEMMA TypeStep == ASSUME SharingConstants, Typed, [Next]_vars PROVE Typed'
<1>1. CASE UNCHANGED vars
  BY <1>1 DEF vars, Typed, TypeOK, JobsSane
<1>2. CASE Next
  BY <1>2, TypeShare, TypeSharing, TypeRevoking, TypeRest DEF Next
<1> QED BY <1>1, <1>2

(* Every row, receipt, credential, package and command has its shape.       *)
THEOREM TypeCorrect == Spec => []TypeOK
<1>1. Init => Typed
  BY TypeInit
<1>2. Typed /\ [Next]_vars => Typed'
  BY SharingConstants, TypeStep
<1>3. Typed => TypeOK
  BY DEF Typed
<1> QED BY <1>1, <1>2, <1>3, PTL DEF Spec

-----------------------------------------------------------------------------
(* Receipts are true, whatever overlaps, fails or is deleted.               *)
LEMMA NotesStep == ASSUME Typed, NotesTrue, [Next]_vars PROVE NotesTrue' /\ saved \subseteq saved'
<1>1. CASE UNCHANGED <<owed, receipts, saved>>
  BY <1>1 DEF NotesTrue
<1>2. ASSUME NEW c \in Contacts, NEW p \in packages, ImportShare(c, p)
      PROVE  NotesTrue' /\ saved' = saved
  <2>1. p \in Packages
    BY DEF Typed, TypeOK
  <2>2. owed' \subseteq owed \cup {Receipt(p, "imported")} /\ UNCHANGED <<receipts, saved>>
    BY <1>2, <2>1, NoteType DEF ImportShare, cloud
  <2> QED BY <2>2 DEF NotesTrue, Receipt
<1>3. ASSUME NEW c \in Contacts, NEW p \in packages, DownloadReceived(c, p)
      PROVE  NotesTrue' /\ saved \subseteq saved'
  <2>1. p \in Packages
    BY DEF Typed, TypeOK
  <2>2. owed' \subseteq owed \cup {Receipt(p, "downloaded")} /\ UNCHANGED receipts
    BY <1>3, <2>1, NoteType DEF DownloadReceived, cloud
  <2>3. saved' = saved \cup {[who |-> c, fs |-> p.fs, at |-> now]}
    BY <1>3 DEF DownloadReceived
  <2>4. ASSUME NEW r \in (owed \cup receipts)', r.kind = "downloaded"
        PROVE  \E d \in saved' : d.fs = r.fs /\ d.at = r.at
    <3>1. CASE r \in owed \cup receipts
      BY <2>3, <2>4, <3>1 DEF NotesTrue
    <3>2. CASE r = Receipt(p, "downloaded")
      <4>1. r.fs = p.fs /\ r.at = now
        BY <3>2 DEF Receipt
      <4>2. [who |-> c, fs |-> p.fs, at |-> now] \in saved'
        BY <2>3
      <4> QED BY <4>1, <4>2
    <3> QED BY <2>2, <3>1, <3>2
  <2> QED BY <2>3, <2>4 DEF NotesTrue
<1>4. ASSUME NEW r \in owed, SendReceipt(r) PROVE NotesTrue' /\ saved' = saved
  <2>1. receipts' \subseteq receipts \cup {r} /\ owed' \subseteq owed /\ saved' = saved
    BY <1>4 DEF SendReceipt, WithReceipt
  <2> QED BY <2>1 DEF NotesTrue
<1>5. ASSUME NEW s \in Shares, RevokeDelete(s) PROVE NotesTrue' /\ saved' = saved
  <2>1. receipts' \subseteq receipts /\ owed' = owed /\ saved' = saved
    BY <1>5 DEF RevokeDelete, people
  <2> QED BY <2>1 DEF NotesTrue
<1>6. ASSUME NEW s \in Shares,
             \/ ShareUpload(s) \/ ShareUploadFail(s) \/ ShareSnapshot(s)
             \/ ShareCreds(s) \/ ShareCredsFail(s) \/ ShareInsert(s)
             \/ RevokeBegin(s) \/ RevokeList(s) \/ RevokePartial(s)
             \/ RevokeMark(s) \/ RevokeCleanup(s) \/ SweepNext(s) \/ CheckReceipts(s)
      PROVE  UNCHANGED <<owed, receipts, saved>>
  BY <1>6 DEF ShareUpload, ShareUploadFail, ShareSnapshot, ShareCreds, ShareCredsFail, ShareInsert,
              RevokeBegin, RevokeList, RevokePartial, RevokeMark, RevokeCleanup, SweepNext,
              CheckReceipts, cloud, people
<1>7. ASSUME \/ \E c \in Contacts : AddContact(c)
             \/ \E s \in Shares, f \in Files, c \in Contacts, e \in Expiries : ShareBegin(s, f, c, e)
             \/ SweepBegin \/ (\E f \in Files : DeleteFile(f)) \/ Tick \/ Stop \/ UNCHANGED vars
      PROVE  UNCHANGED <<owed, receipts, saved>>
  BY <1>7 DEF AddContact, ShareBegin, SweepBegin, DeleteFile, Tick, Stop, vars, cloud, people
<1> QED BY <1>1, <1>2, <1>3, <1>4, <1>5, <1>6, <1>7 DEF Next

(* The rows of the shares: inserted, marked, checked or deleted.            *)
LEMMA RowSteps ==
    ASSUME Typed, [Next]_vars
    PROVE  \/ row' = row
           \/ \E s \in Shares : ShareInsert(s) \/ RevokeMark(s) \/ CheckReceipts(s)
           \/ \E f \in Files : DeleteFile(f)
BY DEF Next, AddContact, ShareBegin, ShareUpload, ShareUploadFail, ShareSnapshot, ShareCreds,
       ShareCredsFail, RevokeBegin, RevokeList, RevokeDelete, RevokePartial, RevokeCleanup, SweepNext,
       SweepBegin, ImportShare, DownloadReceived, SendReceipt, Tick, Stop, vars

LEMMA ReceiptStep ==
    ASSUME SharingConstants, ReceiptInv, [Next]_vars
    PROVE  ReceiptInv'
<1>1. Typed' /\ NotesTrue' /\ saved \subseteq saved'
  BY TypeStep, NotesStep DEF ReceiptInv
<1>2. SUFFICES ASSUME NEW t \in Shares, Active(t)', "downloaded" \in row'[t].got
               PROVE  \E d \in saved' : d.fs = row'[t].fs /\ d.at >= row'[t].created
  BY <1>1 DEF ReceiptInv, ReceiptIsTrue
<1>3. ASSUME row'[t] = row[t] PROVE \E d \in saved' : d.fs = row'[t].fs /\ d.at >= row'[t].created
  BY <1>1, <1>2, <1>3 DEF ReceiptInv, ReceiptIsTrue, Active, Used
<1>4. ASSUME NEW s \in Shares, ShareInsert(s)
      PROVE  row'[t] = row[t]
  BY <1>2, <1>4 DEF ShareInsert, InsertShare, ReceiptInv, Typed, TypeOK
<1>5. ASSUME NEW s \in Shares, RevokeMark(s)
      PROVE  row'[t] = row[t]
  <2>1. CASE ~Active(s)
    BY <1>5, <2>1 DEF RevokeMark
  <2>2. CASE Active(s)
    <3>1. row[s] \in Rows
      BY <2>2, RowKinds DEF ReceiptInv
    <3>2. row' = [row EXCEPT ![s] = [row[s] EXCEPT !.revoked = TRUE]]
      BY <1>5, <2>2 DEF RevokeMark, SetShareRevoked, ReceiptInv, Typed, TypeOK
    <3>3. t # s
      BY <1>2, <3>1, <3>2 DEF Active, Rows, ReceiptInv, Typed, TypeOK
    <3> QED BY <3>2, <3>3 DEF ReceiptInv, Typed, TypeOK
  <2> QED BY <2>1, <2>2
<1>6. ASSUME NEW s \in Shares, CheckReceipts(s), row'[t] # row[t]
      PROVE  \E d \in saved' : d.fs = row'[t].fs /\ d.at >= row'[t].created
  <2>1. PICK k \in Kinds \ row[s].got :
          /\ ValidReceipts(s, k) # {}
          /\ row' = [row EXCEPT ![s] = [row[s] EXCEPT !.got = row[s].got \cup {k}]]
    BY <1>6 DEF CheckReceipts, ReceiptInv, Typed, TypeOK
  <2>2. t = s /\ Active(t)
    BY <1>6, <2>1 DEF CheckReceipts, ReceiptInv, Typed, TypeOK
  <2>3. row[t] \in Rows
    BY <2>2, RowKinds DEF ReceiptInv
  <2>4. row'[t].fs = row[t].fs /\ row'[t].created = row[t].created /\ row'[t].got = row[t].got \cup {k}
    BY <2>1, <2>2, <2>3 DEF Rows, ReceiptInv, Typed, TypeOK
  <2>5. CASE k # "downloaded"
    BY <1>1, <1>2, <2>2, <2>4, <2>5 DEF ReceiptInv, ReceiptIsTrue
  <2>6. CASE k = "downloaded"
    <3>1. PICK r \in receipts : r.fs = row[t].fs /\ r.kind = "downloaded" /\ row[t].created <= r.at
      BY <2>1, <2>2, <2>6 DEF ValidReceipts
    <3>2. PICK d \in saved : d.fs = r.fs /\ d.at = r.at
      BY <3>1 DEF ReceiptInv, NotesTrue
    <3>3. d.at \in Nat /\ row[t].created \in Nat
      BY <2>3 DEF Rows, ReceiptInv, Typed, TypeOK
    <3> QED BY <1>1, <2>4, <3>1, <3>2, <3>3
  <2> QED BY <2>5, <2>6
<1>7. ASSUME NEW f \in Files, DeleteFile(f)
      PROVE  row'[t] = row[t]
  BY <1>2, <1>7 DEF DeleteFile, Active, Used
<1> QED BY <1>3, <1>4, <1>5, <1>6, <1>7, RowSteps DEF ReceiptInv

(* A share is never shown as downloaded unless somebody saved its copy at   *)
(* or after the time it was made, whatever commands overlap, whatever       *)
(* deletions fail, and however late a receipt arrives.                      *)
THEOREM ReceiptsAreTrue == Spec => []ReceiptIsTrue
<1>1. Init => ReceiptInv
  <2> SUFFICES ASSUME Init PROVE ReceiptInv
    OBVIOUS
  <2>1. NotesTrue
    BY DEF Init, NotesTrue
  <2>2. ReceiptIsTrue
    BY DEF Init, ReceiptIsTrue, Active, Used
  <2> QED BY <2>1, <2>2, TypeInit DEF ReceiptInv
<1>2. ReceiptInv /\ [Next]_vars => ReceiptInv'
  BY SharingConstants, ReceiptStep
<1>3. ReceiptInv => ReceiptIsTrue
  BY DEF ReceiptInv
<1> QED BY <1>1, <1>2, <1>3, PTL DEF Spec

-----------------------------------------------------------------------------
(* One command at a time.                                                   *)
LEMMA Elsewhere ==
    ASSUME SoloInv, NEW s \in Shares, job[s].op # "idle"
    PROVE  \A t \in Shares \ {s} : job[t].op = "idle"
BY DEF SoloInv, Solo

LEMMA NobodyWorks ==
    ASSUME SoloInv, Perils = {}, MayStart
    PROVE  sweep = {} /\ \A t \in Shares : job[t].op = "idle"
<1>1. Working = {} /\ sweep = {}
  BY DEF MayStart
<1> QED BY <1>1, JobKinds DEF Working, SoloInv

(* What must be shown of a step that changes the job of share s.            *)
LEMMA SoloMove ==
    ASSUME Typed', NEW s \in Shares,
           \A t \in Shares \ {s} : job'[t].op = "idle",
           sweep' # {} => job'[s].op = "idle" \/ (job'[s].op = "revoke" /\ job'[s].via = "sweep"),
           Served', Owned', Sharing1(s)', Revoking1(s)'
    PROVE  SoloInv'
<1>1. Solo'
  BY DEF Solo
<1>2. \A t \in Shares : Sharing1(t)' /\ Revoking1(t)'
  BY DEF Sharing1, Revoking1
<1> QED BY <1>1, <1>2 DEF SoloInv

LEMMA SoloShareBegin ==
    ASSUME SharingConstants, SoloInv, Perils = {}, NEW s \in Shares, NEW f \in Files,
           NEW c \in Contacts, NEW e \in Expiries, ShareBegin(s, f, c, e)
    PROVE  SoloInv'
<1>0. Typed'
  BY TypeShare DEF SoloInv
<1>1. sweep = {} /\ \A t \in Shares : job[t].op = "idle"
  BY NobodyWorks DEF ShareBegin
<1>u. UNCHANGED <<files, row, snaps, blobs, stray, sweep>>
  BY DEF ShareBegin, cloud
<1>2. PICK n \in NextCopy(s, f) :
          /\ n.phase = "creds" => n.fs \in snaps
          /\ job' = [job EXCEPT ![s] =
                [op |-> "share", phase |-> n.phase, fs |-> n.fs, file |-> f,
                 contact |-> c, created |-> now, cred |-> <<>>,
                 expires |-> IF e = Never THEN Never ELSE now + e]]
  BY DEF ShareBegin
<1>3. /\ \A t \in Shares \ {s} : job'[t] = job[t]
      /\ job'[s].op = "share" /\ job'[s].phase = n.phase /\ job'[s].fs = n.fs /\ job'[s].file = f
  BY <1>2 DEF SoloInv, Typed, TypeOK
<1>4. \/ n.phase = "upload" /\ n.fs = s
      \/ n.phase = "creds" /\ \E t \in Shares : Active(t) /\ row[t].fs = n.fs
  BY DEF NextCopy, FirstOf, ListActiveByFile
<1>5. Served'
  BY <1>1, <1>u, <1>3 DEF SoloInv, Served, Active, Used, Complete
<1>6. Owned'
  BY <1>1, <1>u, <1>3 DEF SoloInv, Owned, Active, Used
<1>7. n.phase = "creds" => n.fs \in snaps /\ Complete(n.fs)
  BY <1>1, <1>2, <1>4 DEF SoloInv, Served
<1>8. Sharing1(s)'
  <2>1. row[s] = NoRow /\ s \notin snaps /\ f \in files
    BY DEF ShareBegin, Used
  <2>2. n.fs # s => \E t \in Shares : Active(t)' /\ row'[t].fs = n.fs
    BY <1>4, <1>u DEF Active, Used
  <2>3. n.phase = "creds" => Complete(n.fs)'
    BY <1>7, <1>u DEF Complete
  <2> QED BY <1>3, <1>4, <1>7, <1>u, <2>1, <2>2, <2>3 DEF Sharing1, Complete
<1>9. Revoking1(s)'
  BY <1>3 DEF Revoking1
<1> QED BY <1>0, <1>1, <1>3, <1>u, <1>5, <1>6, <1>8, <1>9, SoloMove

LEMMA SoloSharing ==
    ASSUME SharingConstants, SoloInv, Perils = {}, NEW s \in Shares,
           \/ ShareUpload(s) \/ ShareUploadFail(s) \/ ShareSnapshot(s)
           \/ ShareCreds(s) \/ ShareCredsFail(s) \/ ShareInsert(s)
    PROVE  SoloInv'
<1>0. Typed'
  BY TypeSharing DEF SoloInv
<1>1. job[s].op = "share"
  BY DEF ShareUpload, ShareUploadFail, ShareSnapshot, ShareCreds, ShareCredsFail, ShareInsert
<1>2. \A t \in Shares \ {s} : job[t].op = "idle"
  BY <1>1, Elsewhere
<1>3. sweep = {}
  BY <1>1 DEF SoloInv, Solo
<1>4. Sharing1(s)
  BY DEF SoloInv
<1>5. ~Active(s)
  BY <1>1, <1>4 DEF Sharing1, Active, Used
<1>6. CASE ShareUpload(s)
  <2>1. UNCHANGED <<files, row, snaps, stray, job, sweep>>
    BY <1>6 DEF ShareUpload
  <2>2. PICK i \in Chunks : blobs' = blobs \cup {<<s, i>>}
    BY <1>6 DEF ShareUpload
  <2>3. job[s].phase = "upload" /\ job[s].fs = s
    BY <1>1, <1>4, <1>6 DEF ShareUpload, Sharing1
  <2>4. Served'
    BY <2>1, <2>2 DEF SoloInv, Served, Active, Used, Complete
  <2>5. Owned'
    BY <1>1, <2>1, <2>2, <2>3 DEF SoloInv, Owned, Active, Used
  <2>6. Sharing1(s)'
    BY <1>4, <2>1, <2>3 DEF Sharing1, Active, Used
  <2>7. Revoking1(s)'
    BY <1>1, <2>1 DEF Revoking1
  <2> QED BY <1>0, <1>2, <1>3, <2>1, <2>4, <2>5, <2>6, <2>7, SoloMove
<1>7. CASE ShareUploadFail(s)
  <2>0. \E i \in Chunks : \E new \in SUBSET {<<s, i>>} :
          /\ blobs' = (blobs \ CopiedBlobs(s)) \cup new
          /\ stray' = stray \cup new
    <3>1. {x \in SUBSET blobs : "delete_fails" \in Perils} = {}
      OBVIOUS
    <3>2. PICK i \in Chunks : \E left \in {UploadFailed(s)} : \E new \in SUBSET {<<s, i>>} :
            blobs' = left \cup new /\ stray' = stray \cup new
      BY <1>7, <3>1 DEF ShareUploadFail
    <3> QED BY <3>2 DEF UploadFailed
  <2>1. UNCHANGED <<files, row, snaps, sweep>>
    BY <1>7 DEF ShareUploadFail
  <2>2. job'[s].op = "idle" /\ \A t \in Shares \ {s} : job'[t] = job[t]
    BY <1>7 DEF ShareUploadFail, Idle, SoloInv, Typed, TypeOK
  <2>3. job[s].phase = "upload" /\ job[s].fs = s /\ s \notin snaps
    BY <1>1, <1>4, <1>7 DEF ShareUploadFail, Sharing1
  <2>4. Served'
    <3> SUFFICES ASSUME NEW t \in Shares, Active(t)'
                 PROVE  row'[t].fs \in snaps' /\ Complete(row[t].fs)'
      BY DEF Served
    <3>1. Active(t) /\ t # s /\ row[t].fs \in snaps /\ Complete(row[t].fs)
      BY <1>2, <1>5, <2>1 DEF Active, Used, SoloInv, Served
    <3>2. row[t].fs # s
      BY <2>3, <3>1
    <3> QED BY <2>0, <2>1, <3>1, <3>2 DEF Complete, CopiedBlobs
  <2>5. Owned'
    <3> SUFFICES ASSUME NEW b \in blobs' \ stray' PROVE \E t \in Shares : Active(t)' /\ row'[t].fs = b[1]
      BY DEF Owned
    <3>1. b \in blobs \ stray /\ b[1] # s
      BY <2>0 DEF CopiedBlobs
    <3>2. \E t \in Shares : Active(t) /\ row[t].fs = b[1]
      BY <1>2, <2>3, <3>1 DEF SoloInv, Owned
    <3> QED BY <2>1, <3>2 DEF Active, Used
  <2>6. Sharing1(s)' /\ Revoking1(s)'
    BY <2>2 DEF Sharing1, Revoking1
  <2> QED BY <1>0, <1>2, <1>3, <2>1, <2>2, <2>4, <2>5, <2>6, SoloMove
<1>8. CASE ShareSnapshot(s)
  <2>1. UNCHANGED <<files, row, blobs, stray, sweep>> /\ snaps' = snaps \cup {s} /\ Complete(s)
    BY <1>8 DEF ShareSnapshot, InsertFileShare, cloud
  <2>2. /\ job'[s].op = "share" /\ job'[s].phase = "creds" /\ job'[s].fs = job[s].fs
        /\ job'[s].file = job[s].file
        /\ \A t \in Shares \ {s} : job'[t] = job[t]
    <3>1. job[s] \in ShareJob
      BY <1>1, JobKinds DEF SoloInv
    <3> QED BY <1>8, <3>1 DEF ShareSnapshot, ShareJob, SoloInv, Typed, TypeOK
  <2>3. job[s].fs = s
    BY <1>1, <1>4, <1>8 DEF ShareSnapshot, Sharing1
  <2>4. Served'
    BY <1>2, <1>5, <2>1 DEF SoloInv, Served, Active, Used, Complete
  <2>5. Owned'
    BY <1>1, <1>2, <2>1, <2>2 DEF SoloInv, Owned, Active, Used
  <2>6. Sharing1(s)'
    BY <1>1, <1>4, <2>1, <2>2, <2>3 DEF Sharing1, Active, Used, Complete
  <2>7. Revoking1(s)'
    BY <2>2 DEF Revoking1
  <2> QED BY <1>0, <1>2, <1>3, <2>1, <2>2, <2>4, <2>5, <2>6, <2>7, SoloMove
<1>9. CASE ShareCreds(s)
  <2>1. UNCHANGED <<files, row, snaps, blobs, stray, sweep>>
    BY <1>9 DEF ShareCreds
  <2>2. /\ job'[s].op = "share" /\ job'[s].phase = "insert" /\ job'[s].fs = job[s].fs
        /\ job'[s].file = job[s].file /\ job[s].phase = "creds"
        /\ \A t \in Shares \ {s} : job'[t] = job[t]
    <3>1. job[s] \in ShareJob
      BY <1>1, JobKinds DEF SoloInv
    <3>2. PICK g \in GenerateShareCredentials(s, job[s].fs, Ttl(job[s].expires, job[s].created)) :
               job' = [job EXCEPT ![s] = [job[s] EXCEPT !.phase = "insert", !.cred = g.id]]
      BY <1>9 DEF ShareCreds, SoloInv, Typed, TypeOK
    <3> QED BY <1>9, <3>1, <3>2 DEF ShareCreds, ShareJob, SoloInv, Typed, TypeOK
  <2>4. Served'
    BY <1>2, <1>5, <2>1 DEF SoloInv, Served, Active, Used, Complete
  <2>5. Owned'
    BY <1>1, <1>2, <2>1, <2>2 DEF SoloInv, Owned, Active, Used
  <2>6. Sharing1(s)'
    BY <1>1, <1>4, <2>1, <2>2 DEF Sharing1, Active, Used, Complete
  <2>7. Revoking1(s)'
    BY <2>2 DEF Revoking1
  <2> QED BY <1>0, <1>2, <1>3, <2>1, <2>2, <2>4, <2>5, <2>6, <2>7, SoloMove
<1>10. CASE ShareCredsFail(s)
  <2>1. UNCHANGED <<files, row, snaps, blobs, stray, sweep>> /\ job[s].fs # s
    BY <1>10 DEF ShareCredsFail, cloud
  <2>2. job'[s].op = "idle" /\ \A t \in Shares \ {s} : job'[t] = job[t]
    BY <1>10 DEF ShareCredsFail, Idle, SoloInv, Typed, TypeOK
  <2>3. PICK u \in Shares : Active(u) /\ row[u].fs = job[s].fs
    BY <1>1, <1>4, <2>1 DEF Sharing1
  <2>4. Served'
    BY <1>2, <1>5, <2>1 DEF SoloInv, Served, Active, Used, Complete
  <2>5. Owned'
    BY <1>2, <2>1, <2>3 DEF SoloInv, Owned, Active, Used
  <2>6. Sharing1(s)' /\ Revoking1(s)'
    BY <2>2 DEF Sharing1, Revoking1
  <2> QED BY <1>0, <1>2, <1>3, <2>1, <2>2, <2>4, <2>5, <2>6, SoloMove
<1>11. CASE ShareInsert(s)
  <2>1. UNCHANGED <<files, snaps, blobs, stray, sweep>> /\ job[s].phase = "insert"
    BY <1>11 DEF ShareInsert, cloud
  <2>2. job'[s].op = "idle" /\ \A t \in Shares \ {s} : job'[t] = job[t]
    BY <1>11 DEF ShareInsert, Idle, SoloInv, Typed, TypeOK
  <2>3. job[s].file \in files /\ job[s].fs \in snaps /\ Complete(job[s].fs)
    BY <1>1, <1>4, <2>1 DEF Sharing1
  <2>4. /\ \A t \in Shares \ {s} : row'[t] = row[t]
        /\ row'[s].fs = job[s].fs /\ row'[s].revoked = FALSE /\ row'[s] # NoRow
    BY <1>11, <2>3 DEF ShareInsert, InsertShare, NoRow, SoloInv, Typed, TypeOK
  <2>5. Served'
    BY <1>2, <2>1, <2>3, <2>4 DEF SoloInv, Served, Active, Used, Complete
  <2>6. Owned'
    <3> SUFFICES ASSUME NEW b \in blobs' \ stray' PROVE \E t \in Shares : Active(t)' /\ row'[t].fs = b[1]
      BY DEF Owned
    <3>1. \/ \E t \in Shares : Active(t) /\ row[t].fs = b[1]
          \/ job[s].fs = b[1]
      BY <1>2, <2>1 DEF SoloInv, Owned
    <3> QED BY <1>5, <2>4, <3>1 DEF Active, Used
  <2>7. Sharing1(s)' /\ Revoking1(s)'
    BY <2>2 DEF Sharing1, Revoking1
  <2> QED BY <1>0, <1>2, <1>3, <2>1, <2>2, <2>5, <2>6, <2>7, SoloMove
<1> QED BY <1>6, <1>7, <1>8, <1>9, <1>10, <1>11

(* A revocation that begins where nobody works.                             *)
LEMMA SoloBeginRevoke ==
    ASSUME SoloInv, Typed', NEW s \in Shares, NEW via \in {"command", "sweep"}, Active(s),
           \A t \in Shares : job[t].op = "idle",
           BeginRevoke(s, via), UNCHANGED <<files, row, snaps, blobs, stray>>,
           sweep' # {} => via = "sweep"
    PROVE  SoloInv'
<1>1. /\ \A t \in Shares \ {s} : job'[t] = job[t]
      /\ job'[s].op = "revoke" /\ job'[s].via = via /\ job'[s].last = IsLast(s)
      /\ job'[s].fs = row[s].fs
      /\ job'[s].phase = IF IsLast(s) THEN "list" ELSE "mark"
  BY DEF BeginRevoke, SoloInv, Typed, TypeOK
<1>2. Served'
  BY <1>1 DEF SoloInv, Served, Active, Used, Complete
<1>3. Owned'
  BY <1>1 DEF SoloInv, Owned, Active, Used
<1>4. Sharing1(s)'
  BY <1>1 DEF Sharing1
<1>5. Revoking1(s)'
  <2>1. IsLast(s) => \A t \in Shares : Active(t) /\ row[t].fs = row[s].fs => t = s
    BY DEF IsLast, ListActiveByFileShareId
  <2>2. ~IsLast(s) => \E t \in Shares : t # s /\ Active(t) /\ row[t].fs = row[s].fs
    BY DEF IsLast, ListActiveByFileShareId
  <2> QED BY <1>1, <2>1, <2>2 DEF Revoking1, Active, Used
<1> QED BY <1>1, <1>2, <1>3, <1>4, <1>5, SoloMove

LEMMA SoloRevokeStart ==
    ASSUME SharingConstants, SoloInv, Perils = {}, NEW s \in Shares,
           RevokeBegin(s) \/ SweepNext(s)
    PROVE  SoloInv'
<1>0. Typed'
  BY TypeRevoking DEF SoloInv
<1>1. CASE RevokeBegin(s)
  <2>1. sweep = {} /\ \A t \in Shares : job[t].op = "idle"
    BY <1>1, NobodyWorks DEF RevokeBegin
  <2>2. Active(s)
    BY <1>1 DEF RevokeBegin, RevokeOffered, ListShares, Active
  <2>3. BeginRevoke(s, "command") /\ UNCHANGED <<files, row, snaps, blobs, stray, sweep>>
    BY <1>1 DEF RevokeBegin, cloud
  <2> QED BY <1>0, <2>1, <2>2, <2>3, SoloBeginRevoke
<1>2. CASE SweepNext(s)
  <2>1. \A t \in Shares : job[t].op = "idle"
    <3>1. \A t \in Shares : job[t].op # "idle" => job[t].op = "revoke" /\ job[t].via = "sweep"
      BY <1>2 DEF SweepNext, SoloInv, Solo
    <3>2. \A t \in Shares : job[t].op = "revoke" => job[t].via # "sweep"
      BY <1>2, JobKinds DEF SweepNext, Working, SoloInv
    <3> QED BY <3>1, <3>2
  <2>2. UNCHANGED <<files, row, snaps, blobs, stray>>
    BY <1>2 DEF SweepNext, cloud
  <2>3. CASE Active(s)
    BY <1>0, <1>2, <2>1, <2>2, <2>3, SoloBeginRevoke DEF SweepNext
  <2>4. CASE ~Active(s)
    <3>1. job' = job
      BY <1>2, <2>4 DEF SweepNext
    <3>2. Served' /\ Owned'
      BY <2>2, <3>1 DEF SoloInv, Served, Owned, Active, Used, Complete
    <3>3. Sharing1(s)' /\ Revoking1(s)'
      BY <2>1, <3>1 DEF Sharing1, Revoking1
    <3> QED BY <1>0, <2>1, <3>1, <3>2, <3>3, SoloMove
  <2> QED BY <2>3, <2>4
<1> QED BY <1>1, <1>2

LEMMA SoloRevoking ==
    ASSUME SharingConstants, SoloInv, Perils = {}, NEW s \in Shares,
           RevokeList(s) \/ RevokeDelete(s) \/ RevokePartial(s) \/ RevokeMark(s) \/ RevokeCleanup(s)
    PROVE  SoloInv'
<1>0. Typed'
  BY TypeRevoking DEF SoloInv
<1>1. job[s].op = "revoke" /\ job[s] \in Revoking
  BY JobKinds DEF RevokeList, RevokeDelete, RevokePartial, RevokeMark, RevokeCleanup, SoloInv
<1>2. \A t \in Shares \ {s} : job[t].op = "idle"
  BY <1>1, Elsewhere
<1>3. sweep # {} => job[s].via = "sweep"
  BY <1>1 DEF SoloInv, Solo
<1>4. Revoking1(s)
  BY DEF SoloInv
<1>5. CASE RevokeList(s)
  <2>1. UNCHANGED <<files, row, snaps, blobs, stray, sweep>> /\ job[s].phase = "list"
    BY <1>5 DEF RevokeList, cloud
  <2>2. /\ job'[s].op = "revoke" /\ job'[s].phase = "delete" /\ job'[s].fs = job[s].fs
        /\ job'[s].via = job[s].via /\ job'[s].last = job[s].last
        /\ job'[s].list = ListShared(job[s].fs)
        /\ \A t \in Shares \ {s} : job'[t] = job[t]
    BY <1>1, <1>5 DEF RevokeList, Revoking, SoloInv, Typed, TypeOK
  <2>3. Served'
    BY <1>2, <2>1, <2>2 DEF SoloInv, Served, Active, Used, Complete
  <2>4. Owned'
    BY <1>1, <1>2, <2>1, <2>2 DEF SoloInv, Owned, Active, Used
  <2>5. Revoking1(s)'
    <3>1. \A b \in blobs : b[1] = job[s].fs <=> <<"chunk", b>> \in ListShared(job[s].fs)
      BY DEF ListShared, CopiedBlobs
    <3> QED BY <1>1, <1>4, <2>1, <2>2, <3>1 DEF Revoking1, Active, Used
  <2>6. Sharing1(s)'
    BY <2>2 DEF Sharing1
  <2> QED BY <1>0, <1>2, <1>3, <2>1, <2>2, <2>3, <2>4, <2>5, <2>6, SoloMove
<1>6. CASE RevokeDelete(s)
  <2>1. UNCHANGED <<files, row, snaps, stray, sweep>> /\ job[s].phase = "delete"
    BY <1>6 DEF RevokeDelete
  <2>2. PICK x \in job[s].list :
          /\ blobs' = blobs \ {b \in blobs : x = <<"chunk", b>>}
          /\ job' = [job EXCEPT ![s] = [job[s] EXCEPT !.list = job[s].list \ {x}]]
    BY <1>6 DEF RevokeDelete, SoloInv, Typed, TypeOK
  <2>3. /\ job'[s].op = "revoke" /\ job'[s].phase = "delete" /\ job'[s].fs = job[s].fs
        /\ job'[s].via = job[s].via /\ job'[s].last = job[s].last
        /\ job'[s].list = job[s].list \ {x}
        /\ \A t \in Shares \ {s} : job'[t] = job[t]
    BY <1>1, <2>1, <2>2 DEF Revoking, SoloInv, Typed, TypeOK
  <2>4. /\ Active(s) /\ job[s].fs = row[s].fs
        /\ \A t \in Shares : Active(t) /\ row[t].fs = row[s].fs => t = s
        /\ \A b \in blobs : b[1] = job[s].fs <=> <<"chunk", b>> \in job[s].list
    BY <1>1, <1>4, <2>1 DEF Revoking1
  <2>5. Served'
    <3> SUFFICES ASSUME NEW t \in Shares, Active(t)'
                 PROVE  row'[t].fs \in snaps' /\ (t # s => Complete(row[t].fs)')
      BY <2>3 DEF Served
    <3>1. Active(t) /\ row[t].fs \in snaps /\ (t # s => Complete(row[t].fs))
      BY <1>2, <2>1 DEF Active, Used, SoloInv, Served
    <3>2. t # s => row[t].fs # job[s].fs
      BY <2>4, <3>1
    <3>3. \A i \in Chunks : t # s /\ <<row[t].fs, i>> \in blobs => <<row[t].fs, i>> \in blobs'
      BY <2>2, <2>4, <3>2
    <3> QED BY <2>1, <3>1, <3>3 DEF Complete
  <2>6. Owned'
    BY <1>1, <1>2, <2>1, <2>2, <2>3 DEF SoloInv, Owned, Active, Used
  <2>7. Revoking1(s)'
    <3>1. \A b \in blobs' : b[1] = job[s].fs <=> <<"chunk", b>> \in job[s].list \ {x}
      BY <2>2, <2>4
    <3> QED BY <1>1, <1>4, <2>1, <2>3, <3>1 DEF Revoking1, Active, Used
  <2>8. Sharing1(s)'
    BY <2>3 DEF Sharing1
  <2> QED BY <1>0, <1>2, <1>3, <2>1, <2>3, <2>5, <2>6, <2>7, <2>8, SoloMove
<1>7. CASE RevokePartial(s)
  <2>1. UNCHANGED <<files, row, snaps, blobs, stray, sweep>> /\ job[s].phase = "delete" /\ Complete(job[s].fs)
    BY <1>7 DEF RevokePartial, cloud
  <2>2. job'[s].op = "idle" /\ \A t \in Shares \ {s} : job'[t] = job[t]
    BY <1>7 DEF RevokePartial, Idle, SoloInv, Typed, TypeOK
  <2>3. Complete(row[s].fs)
    BY <1>1, <1>4, <2>1 DEF Revoking1
  <2>4. Served'
    BY <1>2, <2>1, <2>3 DEF SoloInv, Served, Active, Used, Complete
  <2>5. Owned'
    BY <1>1, <1>2, <2>1 DEF SoloInv, Owned, Active, Used
  <2>6. Sharing1(s)' /\ Revoking1(s)'
    BY <2>2 DEF Sharing1, Revoking1
  <2> QED BY <1>0, <1>2, <1>3, <2>1, <2>2, <2>4, <2>5, <2>6, SoloMove
<1>8. CASE RevokeMark(s)
  <2>1. UNCHANGED <<files, blobs, stray, sweep>>
    BY <1>8 DEF RevokeMark, cloud
  <2>2. /\ job[s].phase # "cleanup"
        /\ job[s].phase = "mark" \/ (job[s].phase = "delete" /\ job[s].list = {})
    BY <1>8 DEF RevokeMark
  <2>3. Active(s) /\ job[s].fs = row[s].fs
    BY <1>1, <1>4, <2>2 DEF Revoking1
  <2>4. row' = [row EXCEPT ![s] = [row[s] EXCEPT !.revoked = TRUE]]
    BY <1>8, <2>3 DEF RevokeMark, SetShareRevoked, SoloInv, Typed, TypeOK
  <2>5. (\A t \in Shares \ {s} : row'[t] = row[t]) /\ ~Active(s)'
    <3>1. row[s] \in Rows
      BY <2>3, RowKinds DEF SoloInv
    <3> QED BY <2>4, <3>1 DEF Active, Rows, SoloInv, Typed, TypeOK
  <2>6. /\ \A t \in Shares \ {s} : job'[t] = job[t]
        /\ job'[s].op = "idle" \/ (job'[s].op = "revoke" /\ job'[s].via = job[s].via /\ job'[s].phase = "cleanup")
    BY <1>1, <1>8, <2>3 DEF RevokeMark, Idle, Revoking, SoloInv, Typed, TypeOK
  <2>7. snaps' = IF job[s].last THEN snaps \ {job[s].fs} ELSE snaps
    BY <1>8, <2>3 DEF RevokeMark, DeleteFileShare
  <2>8. Served'
    <3> SUFFICES ASSUME NEW t \in Shares, Active(t)'
                 PROVE  row'[t].fs \in snaps' /\ Complete(row[t].fs)'
      BY DEF Served
    <3>1. t # s /\ Active(t) /\ row'[t] = row[t]
      BY <2>5 DEF Active, Used
    <3>2. row[t].fs \in snaps /\ Complete(row[t].fs)
      BY <1>2, <3>1 DEF SoloInv, Served
    <3>3. job[s].last => row[t].fs # job[s].fs
      BY <1>1, <1>4, <2>2, <3>1 DEF Revoking1
    <3>4. Complete(row[t].fs)'
      BY <2>1, <3>1, <3>2 DEF Complete
    <3> QED BY <2>7, <3>1, <3>2, <3>3, <3>4
  <2>9. Owned'
    <3> SUFFICES ASSUME NEW b \in blobs' \ stray' PROVE \E t \in Shares : Active(t)' /\ row'[t].fs = b[1]
      BY DEF Owned
    <3>1. PICK u \in Shares : Active(u) /\ row[u].fs = b[1]
      BY <1>1, <1>2, <2>1 DEF SoloInv, Owned
    <3>2. CASE u # s
      BY <2>5, <3>1, <3>2 DEF Active, Used
    <3>3. CASE u = s
      <4>1. ~job[s].last
        BY <1>1, <1>4, <2>1, <2>2, <2>3, <3>1, <3>3 DEF Revoking1
      <4>2. PICK v \in Shares : v # s /\ Active(v) /\ row[v].fs = row[s].fs
        BY <1>1, <1>4, <2>2, <4>1 DEF Revoking1
      <4> QED BY <2>5, <3>1, <3>3, <4>2 DEF Active, Used
    <3> QED BY <3>2, <3>3
  <2>10. Sharing1(s)' /\ Revoking1(s)'
    BY <2>6 DEF Sharing1, Revoking1
  <2> QED BY <1>0, <1>2, <1>3, <2>1, <2>6, <2>8, <2>9, <2>10, SoloMove
<1>9. CASE RevokeCleanup(s)
  <2>1. UNCHANGED <<files, row, snaps, blobs, stray, sweep>> /\ job[s].phase = "cleanup"
    BY <1>9 DEF RevokeCleanup
  <2>2. job'[s].op = "idle" /\ \A t \in Shares \ {s} : job'[t] = job[t]
    BY <1>9 DEF RevokeCleanup, Idle, SoloInv, Typed, TypeOK
  <2>3. Served'
    BY <1>2, <2>1 DEF SoloInv, Served, Active, Used, Complete
  <2>4. Owned'
    BY <1>1, <1>2, <2>1 DEF SoloInv, Owned, Active, Used
  <2>5. Sharing1(s)' /\ Revoking1(s)'
    BY <2>2 DEF Sharing1, Revoking1
  <2> QED BY <1>0, <1>2, <1>3, <2>1, <2>2, <2>3, <2>4, <2>5, SoloMove
<1> QED BY <1>5, <1>6, <1>7, <1>8, <1>9

(* A step that leaves what the invariant reads of the rows.                 *)
LEMMA SoloAlike ==
    ASSUME SoloInv, Typed', UNCHANGED <<snaps, blobs, stray, job>>,
           \A t \in Shares : /\ Active(t)' <=> Active(t)
                             /\ Active(t) => row'[t].fs = row[t].fs
                             /\ row[t] = NoRow => row'[t] = NoRow
                             /\ job[t].op = "share" => job[t].file \in files',
           sweep' # {} => \A t \in Shares :
               job[t].op # "idle" => job[t].op = "revoke" /\ job[t].via = "sweep"
    PROVE  SoloInv'
<1>1. Solo'
  BY DEF SoloInv, Solo
<1>2. Served'
  BY DEF SoloInv, Served, Complete
<1>3. Owned'
  BY DEF SoloInv, Owned
<1>4. ASSUME NEW t \in Shares PROVE Sharing1(t)'
  BY DEF SoloInv, Sharing1, Complete
<1>5. ASSUME NEW t \in Shares PROVE Revoking1(t)'
  BY DEF SoloInv, Revoking1
<1> QED BY <1>1, <1>2, <1>3, <1>4, <1>5 DEF SoloInv

LEMMA SoloRest ==
    ASSUME SharingConstants, SoloInv, Perils = {},
           \/ \E c \in Contacts : AddContact(c)
           \/ \E s \in Shares : CheckReceipts(s)
           \/ SweepBegin
           \/ \E c \in Contacts, p \in packages : ImportShare(c, p) \/ DownloadReceived(c, p)
           \/ \E r \in owed : SendReceipt(r)
           \/ \E f \in Files : DeleteFile(f)
           \/ Tick
           \/ Stop
    PROVE  SoloInv'
<1>0. Typed'
  BY TypeRest, TypeRevoking DEF SoloInv
<1>1. CASE \/ \E c \in Contacts : AddContact(c)
           \/ \E c \in Contacts, p \in packages : ImportShare(c, p) \/ DownloadReceived(c, p)
           \/ \E r \in owed : SendReceipt(r)
           \/ Tick
  <2>1. UNCHANGED <<files, row, snaps, blobs, stray, job, sweep>>
    BY <1>1 DEF AddContact, ImportShare, DownloadReceived, SendReceipt, Tick, cloud
  <2> QED BY <1>0, <2>1, SoloAlike DEF Active, Used, SoloInv, Solo, Sharing1
<1>2. CASE SweepBegin
  <2>1. UNCHANGED <<files, row, snaps, blobs, stray, job>>
    BY <1>2 DEF SweepBegin, cloud
  <2>2. \A t \in Shares : job[t].op = "idle"
    BY <1>2, NobodyWorks DEF SweepBegin
  <2> QED BY <1>0, <2>1, <2>2, SoloAlike DEF Active, Used
<1>3. ASSUME NEW s \in Shares, CheckReceipts(s) PROVE SoloInv'
  <2>1. PICK k \in Kinds : row' = [row EXCEPT ![s] = [row[s] EXCEPT !.got = row[s].got \cup {k}]]
    BY <1>3 DEF CheckReceipts, SoloInv, Typed, TypeOK
  <2>2. UNCHANGED <<files, snaps, blobs, stray, job, sweep>> /\ Active(s)
    BY <1>3 DEF CheckReceipts, cloud
  <2>3. row[s] \in Rows
    BY <2>2, RowKinds DEF SoloInv
  <2>4. /\ \A t \in Shares \ {s} : row'[t] = row[t]
        /\ row'[s].revoked = row[s].revoked /\ row'[s].fs = row[s].fs
    BY <2>1, <2>3 DEF Rows, SoloInv, Typed, TypeOK
  <2>5. row[s] # NoRow /\ row[s].revoked = FALSE /\ row'[s] # NoRow
    BY <2>2, <2>3, <2>4 DEF Active, Used, Rows, NoRow
  <2>6. \A t \in Shares : /\ Active(t)' <=> Active(t)
                          /\ row'[t].fs = row[t].fs
                          /\ row[t] = NoRow => row'[t] = NoRow
    BY <2>4, <2>5 DEF Active, Used
  <2> QED BY <1>0, <2>2, <2>6, SoloAlike DEF SoloInv, Solo, Sharing1
<1>4. ASSUME NEW f \in Files, DeleteFile(f) PROVE SoloInv'
  <2>1. UNCHANGED <<snaps, blobs, stray, job, sweep>>
    BY <1>4 DEF DeleteFile, cloud
  <2>2. ListActiveByFile(f) = {} /\ \A s \in Working : job[s].op # "share"
    BY <1>4 DEF DeleteFile
  <2>3. \A t \in Shares : job[t].op # "share"
    BY <2>2, JobKinds DEF Working, SoloInv
  <2>4. \A t \in Shares : row'[t] = IF Used(t) /\ row[t].file = f THEN NoRow ELSE row[t]
    BY <1>4 DEF DeleteFile
  <2>5. \A t \in Shares : Active(t) => row[t].file # f
    BY <2>2 DEF ListActiveByFile
  <2>6. \A t \in Shares : /\ Active(t)' <=> Active(t)
                          /\ Active(t) => row'[t].fs = row[t].fs
                          /\ row[t] = NoRow => row'[t] = NoRow
    BY <2>4, <2>5 DEF Active, Used
  <2> QED BY <1>0, <2>1, <2>3, <2>6, SoloAlike DEF SoloInv, Solo
<1>5. CASE Stop
  <2>1. UNCHANGED <<files, row, snaps, blobs, stray>> /\ sweep' = {} /\ \A t \in Shares : job'[t].op = "idle"
    BY <1>5 DEF Stop, Idle, cloud
  <2>2. \A t \in Shares : job[t].op # "idle" => Untouched(t)
    BY <1>5, JobKinds DEF Stop, Working, SoloInv
  <2>3. Solo'
    BY <2>1 DEF Solo
  <2>4. Served'
    BY <2>1, <2>2 DEF SoloInv, Served, Untouched, Active, Used, Complete
  <2>5. Owned'
    <3> SUFFICES ASSUME NEW b \in blobs \ stray PROVE \E t \in Shares : Active(t) /\ row[t].fs = b[1]
      BY <2>1 DEF Owned, Active, Used
    <3>1. CASE \E t \in Shares : Active(t) /\ row[t].fs = b[1]
      BY <3>1
    <3>2. ASSUME NEW s \in Shares, job[s].op = "share", job[s].fs = b[1]
          PROVE  \E t \in Shares : Active(t) /\ row[t].fs = b[1]
      <4>1. CopiedBlobs(s) = {}
        BY <2>2, <3>2 DEF Untouched
      <4>2. job[s].fs # s
        BY <3>2, <4>1 DEF CopiedBlobs
      <4> QED BY <3>2, <4>2 DEF SoloInv, Sharing1
    <3> QED BY <3>1, <3>2 DEF SoloInv, Owned
  <2>6. \A t \in Shares : Sharing1(t)' /\ Revoking1(t)'
    BY <2>1 DEF Sharing1, Revoking1
  <2> QED BY <1>0, <2>3, <2>4, <2>5, <2>6 DEF SoloInv
<1> QED BY <1>1, <1>2, <1>3, <1>4, <1>5

LEMMA SoloStep == ASSUME SharingConstants, SoloInv, Perils = {}, [Next]_vars PROVE SoloInv'
<1>1. CASE UNCHANGED vars
  <2>1. Typed'
    BY TypeStep DEF SoloInv
  <2> QED BY <1>1, <2>1, SoloAlike DEF vars, Active, Used, SoloInv, Solo, Sharing1
<1>2. CASE Next
  BY <1>2, SoloShareBegin, SoloSharing, SoloRevokeStart, SoloRevoking, SoloRest DEF Next
<1> QED BY <1>1, <1>2

LEMMA SoloStart == ASSUME Init PROVE SoloInv
<1>1. \A s \in Shares : job[s].op = "idle" /\ ~Active(s)
  BY DEF Init, Idle, Active, Used
<1>2. Solo /\ Served /\ Owned /\ \A s \in Shares : Sharing1(s) /\ Revoking1(s)
  BY <1>1 DEF Init, Solo, Served, Owned, Sharing1, Revoking1
<1> QED BY <1>2, TypeInit DEF SoloInv

(* With one command at a time and no failing deletion, every active share   *)
(* has its snapshot row and all blobs of its copy: revoking one recipient   *)
(* leaves the others served.                                                *)
THEOREM ActiveSharesServed == ASSUME Perils = {} PROVE Spec => []ActiveIsServed
<1>1. Init => SoloInv
  BY SoloStart
<1>2. SoloInv /\ [Next]_vars => SoloInv'
  BY SharingConstants, SoloStep
<1>3. SoloInv => ActiveIsServed
  BY DEF SoloInv, Served, ActiveIsServed, Idle
<1> QED BY <1>1, <1>2, <1>3, PTL DEF Spec

(* And no copy outlives its last share: what failed uploads, credentials    *)
(* and revocations, and the end of the application between commands, leave   *)
(* without an owner is at most blobs whose upload was reported failed.      *)
THEOREM NoCopyLeftBehind == ASSUME Perils = {} PROVE Spec => []CopiesAreOwned
<1>1. Init => SoloInv
  BY SoloStart
<1>2. SoloInv /\ [Next]_vars => SoloInv'
  BY SharingConstants, SoloStep
<1>3. SoloInv => CopiesAreOwned
  <2> SUFFICES ASSUME SoloInv, NEW b \in blobs \ stray
               PROVE  \/ ListActiveByFileShareId(b[1]) # {}
                      \/ \E s \in Working : job[s].op = "share" /\ job[s].fs = b[1]
    BY DEF CopiesAreOwned
  <2>1. CASE \E s \in Shares : Active(s) /\ row[s].fs = b[1]
    BY <2>1 DEF ListActiveByFileShareId
  <2>2. CASE \E s \in Shares : job[s].op = "share" /\ job[s].fs = b[1]
    BY <2>2 DEF Working, Idle
  <2> QED BY <2>1, <2>2 DEF SoloInv, Owned
<1> QED BY <1>1, <1>2, <1>3, PTL DEF Spec

-----------------------------------------------------------------------------
(* B2 keys: what a step leaves of a share it does not work on.              *)
CutFor(s) == Named(s) /\ Timed(s) /\ Bounded(s)

LEMMA CutElsewhere ==
    ASSUME CutInv, NEW t \in Shares, row'[t] = row[t], job'[t] = job[t], now' = now,
           t \in sweep' => t \in sweep,
           \A g \in grants' : g.id = Key(t) => g \in grants
    PROVE  CutFor(t)'
<1>1. Named(t) /\ Timed(t) /\ Bounded(t)
  BY DEF CutInv
<1>2. Named(t)'
  BY <1>1 DEF Named
<1>3. Timed(t)'
  BY <1>1 DEF Timed, Active, Used
<1>4. Bounded(t)'
  BY <1>1 DEF Bounded, Ends, Key, Active, Used
<1> QED BY <1>2, <1>3, <1>4 DEF CutFor

(* What must be shown of a step that works on share s and changes no        *)
(* credential.                                                              *)
LEMMA CutMove ==
    ASSUME CutInv, SoloInv', NEW s \in Shares, UNCHANGED <<now, grants>>,
           \A t \in Shares \ {s} : row'[t] = row[t] /\ job'[t] = job[t],
           sweep' \subseteq sweep, CutFor(s)'
    PROVE  CutInv'
<1>1. ASSUME NEW t \in Shares PROVE CutFor(t)'
  <2>1. CASE t = s
    BY <2>1
  <2>2. CASE t # s
    BY <2>2, CutElsewhere
  <2> QED BY <2>1, <2>2
<1> QED BY <1>1 DEF CutInv, CutFor

LEMMA CutSharing ==
    ASSUME SharingConstants, CutInv, SoloInv', Perils = {}, Provider = "b2", NEW s \in Shares,
           \/ \E f \in Files, c \in Contacts, e \in Expiries : ShareBegin(s, f, c, e)
           \/ ShareUploadFail(s) \/ ShareSnapshot(s)
           \/ ShareCreds(s) \/ ShareCredsFail(s) \/ ShareInsert(s)
    PROVE  CutInv'
<1>0. Named(s) /\ Timed(s) /\ Bounded(s) /\ Typed /\ Sharing1(s)
  BY DEF CutInv, SoloInv
<1>1. ASSUME NEW f \in Files, NEW c \in Contacts, NEW e \in Expiries, ShareBegin(s, f, c, e)
      PROVE  CutInv'
  <2>1. UNCHANGED <<now, row, grants, sweep>> /\ sweep = {} /\ row[s] = NoRow /\ job[s].op = "idle"
    BY <1>1, NobodyWorks DEF ShareBegin, Used, CutInv, cloud
  <2>2. PICK n \in NextCopy(s, f) : job' = [job EXCEPT ![s] =
                [op |-> "share", phase |-> n.phase, fs |-> n.fs, file |-> f,
                 contact |-> c, created |-> now, cred |-> <<>>,
                 expires |-> IF e = Never THEN Never ELSE now + e]]
    BY <1>1 DEF ShareBegin
  <2>3. n.phase \in {"upload", "creds"}
    BY DEF NextCopy
  <2>4. /\ \A t \in Shares \ {s} : job'[t] = job[t]
        /\ job'[s].op = "share" /\ job'[s].phase = n.phase /\ job'[s].created = now
        /\ job'[s].expires = IF e = Never THEN Never ELSE now + e
    BY <2>2 DEF CutInv, SoloInv, Typed, TypeOK
  <2>5. Named(s)'
    BY <2>1, <2>3, <2>4 DEF Named
  <2>6. Timed(s)'
    <3>1. e # Never => now <= now + e
      BY <1>0 DEF SharingConstants, Typed, TypeOK
    <3> QED BY <2>1, <2>4, <3>1 DEF Timed
  <2>7. Bounded(s)'
    BY <1>0, <2>1 DEF Bounded, Active, Used, Key
  <2> QED BY <2>1, <2>4, <2>5, <2>6, <2>7, CutMove DEF CutFor
<1>2. CASE ShareUploadFail(s) \/ ShareCredsFail(s)
  <2>1. UNCHANGED <<now, row, grants, sweep>> /\ job[s].op = "share" /\ job[s].phase # "insert"
    BY <1>2 DEF ShareUploadFail, ShareCredsFail, cloud
  <2>2. job'[s].op = "idle" /\ \A t \in Shares \ {s} : job'[t] = job[t]
    BY <1>0, <1>2 DEF ShareUploadFail, ShareCredsFail, Idle, Typed, TypeOK
  <2>3. Named(s)' /\ Timed(s)'
    BY <1>0, <2>1, <2>2 DEF Named, Timed, Active, Used, Key
  <2>4. Bounded(s)'
    BY <1>0, <2>1 DEF Bounded, Active, Used, Key, Ends
  <2> QED BY <2>1, <2>2, <2>3, <2>4, CutMove DEF CutFor
<1>3. CASE ShareSnapshot(s)
  <2>1. UNCHANGED <<now, row, grants, sweep>> /\ job[s].op = "share" /\ job[s].phase = "upload"
    BY <1>3 DEF ShareSnapshot, cloud
  <2>2. /\ job'[s].op = "share" /\ job'[s].phase = "creds" /\ job'[s].created = job[s].created
        /\ job'[s].expires = job[s].expires
        /\ \A t \in Shares \ {s} : job'[t] = job[t]
    <3>1. job[s] \in ShareJob
      BY <1>0, <2>1, JobKinds
    <3> QED BY <1>0, <1>3, <3>1 DEF ShareSnapshot, ShareJob, Typed, TypeOK
  <2>3. Named(s)' /\ Timed(s)'
    BY <1>0, <2>1, <2>2 DEF Named, Timed, Key
  <2>4. Bounded(s)'
    BY <1>0, <2>1 DEF Bounded, Active, Used, Key, Ends
  <2> QED BY <2>1, <2>2, <2>3, <2>4, CutMove DEF CutFor
<1>4. CASE ShareCreds(s)
  <2>1. UNCHANGED <<now, row, sweep>> /\ job[s].op = "share" /\ job[s].phase = "creds" /\ row[s] = NoRow
    BY <1>0, <1>4 DEF ShareCreds, Sharing1
  <2> DEFINE ttl == Ttl(job[s].expires, job[s].created)
             k == ScopedKey(s, ttl)
  <2>2. job[s] \in ShareJob
    BY <1>0, <2>1, JobKinds
  <2>3. /\ grants' = grants \cup {k}
        /\ job' = [job EXCEPT ![s] = [job[s] EXCEPT !.phase = "insert", !.cred = k.id]]
    BY <1>0, <1>4 DEF ShareCreds, GenerateShareCredentials, GenerateB2, HasB2Keys, HasDriveOAuth,
                      Typed, TypeOK
  <2>4. k.id = Key(s) /\ k.until = now + ttl
    BY DEF ScopedKey, Key
  <2>5. ttl \in Nat /\ now \in Nat /\ Ends(k, job[s].expires)
    <3>1. /\ now \in Nat /\ job[s].created = now /\ job[s].expires \in Times
          /\ job[s].expires # Never => now <= job[s].expires
      BY <1>0, <2>1, <2>2 DEF Timed, ShareJob, Typed, TypeOK
    <3>2. ttl \in Nat /\ (job[s].expires # Never => ttl <= job[s].expires - now)
      BY <3>1 DEF Ttl, Earlier, Times, SharingConstants
    <3> HIDE DEF ttl
    <3> QED BY <2>4, <3>1, <3>2 DEF Ends, Times
  <2> HIDE DEF k, ttl
  <2>6. /\ job'[s].op = "share" /\ job'[s].phase = "insert" /\ job'[s].created = job[s].created
        /\ job'[s].expires = job[s].expires /\ job'[s].cred = Key(s)
        /\ \A t \in Shares \ {s} : job'[t] = job[t]
    BY <1>0, <2>1, <2>2, <2>3, <2>4 DEF ShareJob, Typed, TypeOK
  <2>7. Named(s)' /\ Timed(s)'
    BY <1>0, <2>1, <2>6 DEF Named, Timed, Key
  <2>8. Bounded(s)'
    <3> SUFFICES ASSUME NEW g \in grants', g.id = Key(s)
                 PROVE  g.until <= now \/ Ends(g, job[s].expires)
      BY <2>1, <2>6 DEF Bounded, Ends, Key
    <3>1. CASE g = k
      BY <2>5, <3>1
    <3>2. CASE g \in grants
      BY <1>0, <2>1, <3>2 DEF Bounded, Active, Used
    <3> QED BY <2>3, <3>1, <3>2
  <2>9. ASSUME NEW t \in Shares \ {s} PROVE CutFor(t)'
    <3>1. \A g \in grants' : g.id = Key(t) => g \in grants
      BY <2>3, <2>4 DEF Key
    <3> QED BY <2>1, <2>6, <3>1, CutElsewhere
  <2>10. \A g \in grants' : g.until \in Nat
    BY <2>3, <2>4, <2>5 DEF CutInv
  <2> QED BY <2>7, <2>8, <2>9, <2>10 DEF CutInv, CutFor
<1>5. CASE ShareInsert(s)
  <2>1. UNCHANGED <<now, grants, sweep>> /\ job[s].op = "share" /\ job[s].phase = "insert"
    BY <1>5 DEF ShareInsert, cloud
  <2>2. job'[s].op = "idle" /\ \A t \in Shares \ {s} : job'[t] = job[t]
    BY <1>0, <1>5 DEF ShareInsert, Idle, Typed, TypeOK
  <2>3. job[s].file \in files /\ row[s] = NoRow
    BY <1>0, <2>1 DEF Sharing1
  <2>4. /\ \A t \in Shares \ {s} : row'[t] = row[t]
        /\ row'[s].cred = job[s].cred /\ row'[s].expires = job[s].expires
        /\ row'[s].revoked = FALSE /\ row'[s] # NoRow
    BY <1>0, <1>5, <2>3 DEF ShareInsert, InsertShare, NoRow, Typed, TypeOK
  <2>5. Named(s)' /\ Timed(s)'
    BY <1>0, <2>1, <2>2, <2>4 DEF Named, Timed, Key
  <2>6. Bounded(s)'
    BY <1>0, <2>1, <2>3, <2>4 DEF Bounded, Active, Used, Key, Ends
  <2> QED BY <2>1, <2>2, <2>4, <2>5, <2>6, CutMove DEF CutFor
<1> QED BY <1>1, <1>2, <1>3, <1>4, <1>5

LEMMA CutBeginRevoke ==
    ASSUME CutInv, SoloInv', NEW s \in Shares, NEW via \in {"command", "sweep"}, Active(s),
           BeginRevoke(s, via), UNCHANGED <<now, row, grants>>, job[s].op = "idle",
           sweep' = sweep \ {s}, via = "sweep" => s \in sweep
    PROVE  CutInv'
<1>0. Named(s) /\ Timed(s) /\ Bounded(s)
  BY DEF CutInv
<1>1. /\ \A t \in Shares \ {s} : job'[t] = job[t]
      /\ job'[s].op = "revoke" /\ job'[s].via = via /\ job'[s].cred = row[s].cred
  BY DEF BeginRevoke, CutInv, SoloInv, Typed, TypeOK
<1>2. Named(s)'
  BY <1>0, <1>1 DEF Named, Key, Active, Used
<1>3. Timed(s)'
  BY <1>0, <1>1 DEF Timed, Active, Used
<1>4. Bounded(s)'
  BY <1>0 DEF Bounded, Active, Used, Key, Ends
<1> QED BY <1>1, <1>2, <1>3, <1>4, CutMove DEF CutFor

LEMMA CutRevoking ==
    ASSUME SharingConstants, CutInv, SoloInv', Perils = {}, NEW s \in Shares,
           \/ RevokeBegin(s) \/ SweepNext(s)
           \/ RevokeList(s) \/ RevokeDelete(s) \/ RevokePartial(s) \/ RevokeMark(s) \/ RevokeCleanup(s)
    PROVE  CutInv'
<1>0. Named(s) /\ Timed(s) /\ Bounded(s) /\ Typed /\ Revoking1(s) /\ SoloInv
  BY DEF CutInv, SoloInv
<1>1. CASE RevokeBegin(s)
  <2>1. sweep = {} /\ job[s].op = "idle"
    BY <1>0, <1>1, NobodyWorks DEF RevokeBegin
  <2>2. Active(s)
    BY <1>1 DEF RevokeBegin, RevokeOffered, ListShares, Active
  <2>3. BeginRevoke(s, "command") /\ UNCHANGED <<now, row, grants, sweep>>
    BY <1>1 DEF RevokeBegin, cloud
  <2> QED BY <2>1, <2>2, <2>3, CutBeginRevoke
<1>2. CASE SweepNext(s)
  <2>1. s \in sweep /\ job[s].op = "idle" /\ sweep' = sweep \ {s} /\ UNCHANGED <<now, row, grants>>
    BY <1>2 DEF SweepNext, Idle, cloud
  <2>2. Active(s)
    BY <1>0, <2>1 DEF Timed
  <2> QED BY <1>2, <2>1, <2>2, CutBeginRevoke DEF SweepNext
<1>3. CASE RevokeList(s) \/ RevokeDelete(s)
  <2>1. UNCHANGED <<now, row, grants, sweep>> /\ job[s].op = "revoke" /\ job[s].phase # "cleanup"
    BY <1>3 DEF RevokeList, RevokeDelete, cloud
  <2>2. job[s] \in Revoking
    BY <1>0, <2>1, JobKinds
  <2>3. /\ job'[s].op = "revoke" /\ job'[s].cred = job[s].cred /\ job'[s].via = job[s].via
        /\ \A t \in Shares \ {s} : job'[t] = job[t]
    <3>1. CASE RevokeList(s)
      BY <1>0, <2>1, <2>2, <3>1 DEF RevokeList, Revoking, Typed, TypeOK
    <3>2. CASE RevokeDelete(s)
      <4>1. PICK x \in job[s].list : job' = [job EXCEPT ![s] = [job[s] EXCEPT !.list = job[s].list \ {x}]]
        BY <1>0, <3>2 DEF RevokeDelete, Typed, TypeOK
      <4> QED BY <1>0, <2>1, <2>2, <4>1 DEF Revoking, Typed, TypeOK
    <3> QED BY <1>3, <3>1, <3>2
  <2>4. Named(s)' /\ Timed(s)'
    BY <1>0, <2>1, <2>3 DEF Named, Timed, Active, Used, Key
  <2>5. Bounded(s)'
    BY <1>0, <2>1 DEF Bounded, Active, Used, Key, Ends
  <2> QED BY <2>1, <2>3, <2>4, <2>5, CutMove DEF CutFor
<1>4. CASE RevokePartial(s)
  <2>1. UNCHANGED <<now, row, grants, sweep>> /\ job[s].op = "revoke" /\ job[s].phase = "delete"
    BY <1>4 DEF RevokePartial, cloud
  <2>2. job'[s].op = "idle" /\ \A t \in Shares \ {s} : job'[t] = job[t]
    BY <1>0, <1>4 DEF RevokePartial, Idle, Typed, TypeOK
  <2>3. Named(s)' /\ Timed(s)'
    BY <1>0, <2>1, <2>2 DEF Named, Timed, Active, Used, Key
  <2>4. Bounded(s)'
    BY <1>0, <2>1 DEF Bounded, Active, Used, Key, Ends
  <2> QED BY <2>1, <2>2, <2>3, <2>4, CutMove DEF CutFor
<1>5. CASE RevokeMark(s)
  <2>1. UNCHANGED <<now, grants, sweep>> /\ job[s].op = "revoke" /\ job[s].phase # "cleanup"
    BY <1>5 DEF RevokeMark, cloud
  <2>2. Active(s) /\ s \notin sweep
    BY <1>0, <2>1 DEF Revoking1, Timed
  <2>3. row[s] \in Rows /\ job[s] \in Revoking
    BY <1>0, <2>1, <2>2, RowKinds, JobKinds
  <2>4. row' = [row EXCEPT ![s] = [row[s] EXCEPT !.revoked = TRUE]]
    BY <1>0, <1>5, <2>2 DEF RevokeMark, SetShareRevoked, Typed, TypeOK
  <2>5. (\A t \in Shares \ {s} : row'[t] = row[t]) /\ row'[s].cred = row[s].cred
    BY <1>0, <2>3, <2>4 DEF Rows, Typed, TypeOK
  <2>6. /\ \A t \in Shares \ {s} : job'[t] = job[t]
        /\ \/ job'[s].op = "idle" /\ job[s].via = "sweep"
           \/ /\ job'[s].op = "revoke" /\ job'[s].via = "command" /\ job'[s].phase = "cleanup"
              /\ job'[s].cred = job[s].cred
    BY <1>0, <1>5, <2>2, <2>3 DEF RevokeMark, Idle, Revoking, Typed, TypeOK
  <2>7. Named(s)'
    BY <1>0, <2>1, <2>2, <2>5, <2>6 DEF Named, Active, Used, Key
  <2>8. Timed(s)'
    BY <2>1, <2>2, <2>6 DEF Timed
  <2>9. Bounded(s)'
    <3>1. CASE job'[s].op = "revoke"
      BY <2>6, <3>1 DEF Bounded
    <3>2. CASE job[s].via = "sweep"
      <4>1. row[s].expires # Never /\ row[s].expires < now
        BY <1>0, <2>1, <3>2 DEF Timed
      <4>2. row[s].expires \in Nat /\ now \in Nat /\ \A g \in grants : g.until \in Nat
        BY <1>0, <2>3, <4>1 DEF Rows, Times, Typed, TypeOK, CutInv
      <4>3. \A g \in grants : g.id = Key(s) => g.until <= now
        BY <1>0, <2>1, <4>1, <4>2 DEF Bounded, Ends
      <4> QED BY <2>1, <4>3 DEF Bounded, Key
    <3> QED BY <2>6, <3>1, <3>2
  <2> QED BY <2>1, <2>5, <2>6, <2>7, <2>8, <2>9, CutMove DEF CutFor
<1>6. CASE RevokeCleanup(s)
  <2>1. UNCHANGED <<now, row, sweep>> /\ job[s].op = "revoke" /\ job[s].phase = "cleanup"
    BY <1>6 DEF RevokeCleanup
  <2>2. job'[s].op = "idle" /\ \A t \in Shares \ {s} : job'[t] = job[t]
    BY <1>0, <1>6 DEF RevokeCleanup, Idle, Typed, TypeOK
  <2>3. grants' = {g \in grants : g.id # Key(s)}
    BY <1>0, <1>6, <2>1 DEF RevokeCleanup, Cleanup, DeleteGrant, Named
  <2>4. Named(s)' /\ Timed(s)'
    BY <1>0, <2>1, <2>2 DEF Named, Timed, Active, Used, Key
  <2>5. Bounded(s)'
    BY <2>3 DEF Bounded, Key
  <2>6. ASSUME NEW t \in Shares \ {s} PROVE CutFor(t)'
    BY <2>1, <2>2, <2>3, CutElsewhere
  <2>7. \A g \in grants' : g.until \in Nat
    BY <2>3 DEF CutInv
  <2> QED BY <2>4, <2>5, <2>6, <2>7 DEF CutInv, CutFor
<1> QED BY <1>1, <1>2, <1>3, <1>4, <1>5, <1>6

LEMMA CutRest ==
    ASSUME SharingConstants, CutInv, SoloInv', Perils = {},
           \/ \E c \in Contacts : AddContact(c)
           \/ \E s \in Shares : ShareUpload(s) \/ CheckReceipts(s)
           \/ SweepBegin
           \/ \E c \in Contacts, p \in packages : ImportShare(c, p) \/ DownloadReceived(c, p)
           \/ \E r \in owed : SendReceipt(r)
           \/ \E f \in Files : DeleteFile(f)
           \/ Tick
           \/ Stop
           \/ UNCHANGED vars
    PROVE  CutInv'
<1>0. SoloInv /\ Typed /\ \A t \in Shares : Named(t) /\ Timed(t) /\ Bounded(t)
  BY DEF CutInv, SoloInv
<1>1. CASE \/ \E c \in Contacts : AddContact(c)
           \/ \E s \in Shares : ShareUpload(s)
           \/ \E c \in Contacts, p \in packages : ImportShare(c, p) \/ DownloadReceived(c, p)
           \/ \E r \in owed : SendReceipt(r)
           \/ UNCHANGED vars
  <2>1. UNCHANGED <<now, row, grants, job, sweep>>
    BY <1>1 DEF AddContact, ShareUpload, ImportShare, DownloadReceived, SendReceipt, vars, cloud
  <2>2. \A t \in Shares : CutFor(t)'
    BY <2>1, CutElsewhere
  <2> QED BY <2>1, <2>2 DEF CutInv, CutFor
<1>2. CASE SweepBegin
  <2>1. UNCHANGED <<now, row, grants, job>>
    BY <1>2 DEF SweepBegin, cloud
  <2>2. \A t \in Shares : job[t].op = "idle"
    BY <1>0, <1>2, NobodyWorks DEF SweepBegin
  <2>3. \A t \in sweep' : Active(t) /\ row[t].expires # Never /\ row[t].expires < now
    BY <1>2 DEF SweepBegin
  <2>4. ASSUME NEW t \in Shares PROVE CutFor(t)'
    <3>1. Timed(t)'
      BY <2>1, <2>2, <2>3 DEF Timed, Active, Used
    <3>2. Named(t)' /\ Bounded(t)'
      BY <1>0, <2>1 DEF Named, Bounded, Active, Used, Key, Ends
    <3> QED BY <3>1, <3>2 DEF CutFor
  <2> QED BY <2>1, <2>4 DEF CutInv, CutFor
<1>3. ASSUME NEW s \in Shares, CheckReceipts(s) PROVE CutInv'
  <2>1. PICK k \in Kinds : row' = [row EXCEPT ![s] = [row[s] EXCEPT !.got = row[s].got \cup {k}]]
    BY <1>0, <1>3 DEF CheckReceipts, Typed, TypeOK
  <2>2. UNCHANGED <<now, grants, job, sweep>> /\ Active(s)
    BY <1>3 DEF CheckReceipts, cloud
  <2>3. row[s] \in Rows
    BY <1>0, <2>2, RowKinds
  <2>4. /\ \A t \in Shares \ {s} : row'[t] = row[t]
        /\ row'[s].revoked = row[s].revoked /\ row'[s].expires = row[s].expires
        /\ row'[s].cred = row[s].cred
    BY <1>0, <2>1, <2>3 DEF Rows, Typed, TypeOK
  <2>5. row[s] # NoRow /\ ~row[s].revoked /\ row'[s] # NoRow
    BY <2>2, <2>3, <2>4 DEF Active, Used, Rows, NoRow
  <2>6. Named(s)' /\ Timed(s)'
    BY <1>0, <2>2, <2>4, <2>5 DEF Named, Timed, Active, Used, Key
  <2>7. Bounded(s)'
    BY <1>0, <2>2, <2>4, <2>5 DEF Bounded, Active, Used, Key, Ends
  <2> QED BY <2>2, <2>4, <2>6, <2>7, CutMove DEF CutFor
<1>4. ASSUME NEW f \in Files, DeleteFile(f) PROVE CutInv'
  <2>1. UNCHANGED <<now, grants, job, sweep>>
    BY <1>4 DEF DeleteFile, cloud
  <2>2. \A t \in Shares : row'[t] = IF Used(t) /\ row[t].file = f THEN NoRow ELSE row[t]
    BY <1>4 DEF DeleteFile
  <2>3. \A t \in Shares : Active(t) => row[t].file # f
    BY <1>4 DEF DeleteFile, ListActiveByFile
  <2>4. \A t \in Shares : (Active(t) => row'[t] = row[t]) /\ (row'[t] # NoRow => row'[t] = row[t])
    BY <2>2, <2>3
  <2>5. ASSUME NEW t \in Shares PROVE CutFor(t)'
    <3>1. Named(t)'
      BY <1>0, <2>1, <2>4 DEF Named, Key
    <3>2. Timed(t)'
      BY <1>0, <2>1, <2>4 DEF Timed, Active, Used
    <3>3. Bounded(t)'
      BY <1>0, <2>1, <2>4 DEF Bounded, Active, Used, Key, Ends
    <3> QED BY <3>1, <3>2, <3>3 DEF CutFor
  <2> QED BY <2>1, <2>5 DEF CutInv, CutFor
<1>5. CASE Tick
  <2>1. UNCHANGED <<row, grants, job, sweep>> /\ now' = now + 1 /\ now \in Nat
    BY <1>0, <1>5 DEF Tick, cloud, Typed, TypeOK
  <2>2. sweep = {} /\ \A t \in Shares : job[t].op = "idle"
    BY <1>0, <1>5, JobKinds DEF Tick, Working
  <2>3. ASSUME NEW t \in Shares PROVE CutFor(t)'
    <3>1. Named(t)' /\ Timed(t)'
      BY <1>0, <2>1, <2>2 DEF Named, Timed, Key
    <3>2. \A g \in grants : g.until \in Nat /\ (g.until <= now => g.until <= now + 1)
      BY <2>1 DEF CutInv
    <3>3. Bounded(t)'
      BY <1>0, <2>1, <2>2, <3>2 DEF Bounded, Active, Used, Key, Ends
    <3> QED BY <3>1, <3>3 DEF CutFor
  <2> QED BY <2>1, <2>3 DEF CutInv, CutFor
<1>6. CASE Stop
  <2>1. UNCHANGED <<now, row, grants>> /\ sweep' = {} /\ \A t \in Shares : job'[t].op = "idle"
    BY <1>6 DEF Stop, Idle, cloud
  <2>2. \A t \in Shares : job[t].op # "idle" => Untouched(t)
    BY <1>0, <1>6, JobKinds DEF Stop, Working
  <2>3. ASSUME NEW t \in Shares PROVE CutFor(t)'
    <3>1. Named(t)' /\ Timed(t)'
      BY <1>0, <2>1 DEF Named, Timed, Key
    <3>2. Bounded(t)'
      BY <1>0, <2>1, <2>2 DEF Bounded, Active, Used, Untouched, Key, Ends
    <3> QED BY <3>1, <3>2 DEF CutFor
  <2> QED BY <2>1, <2>3 DEF CutInv, CutFor
<1> QED BY <1>1, <1>2, <1>3, <1>4, <1>5, <1>6

LEMMA CutStep ==
    ASSUME SharingConstants, CutInv, Perils = {}, Provider = "b2", [Next]_vars
    PROVE  CutInv'
<1>1. SoloInv'
  BY SoloStep DEF CutInv
<1>2. CASE UNCHANGED vars
  BY <1>1, <1>2, CutRest
<1>3. CASE Next
  BY <1>1, <1>3, CutSharing, CutRevoking, CutRest DEF Next
<1> QED BY <1>2, <1>3

(* With B2 keys, one command at a time and no failing deletion, the         *)
(* credential of a revoked share opens nothing: the command deleted it, or  *)
(* it had run out by the time the sweep revoked the share.                  *)
THEOREM RevokedSharesCut == ASSUME Perils = {}, Provider = "b2" PROVE Spec => []RevokedIsCut
<1>1. Init => CutInv
  <2> SUFFICES ASSUME Init PROVE CutInv
    OBVIOUS
  <2>1. SoloInv
    BY SoloStart
  <2>2. \A s \in Shares : Named(s) /\ Timed(s) /\ Bounded(s)
    BY DEF Init, Idle, Named, Timed, Bounded
  <2> QED BY <2>1, <2>2 DEF Init, CutInv
<1>2. CutInv /\ [Next]_vars => CutInv'
  BY SharingConstants, CutStep
<1>3. CutInv => RevokedIsCut
  <2> SUFFICES ASSUME CutInv, NEW s \in Shares, Used(s), row[s].revoked, job[s] = Idle,
                      NEW g \in grants, g.id = row[s].cred
               PROVE  g.until # Never /\ ~(now < g.until)
    BY DEF RevokedIsCut, Live
  <2>1. Named(s) /\ Bounded(s) /\ g.until \in Nat /\ now \in Nat
    BY DEF CutInv, SoloInv, Typed, TypeOK
  <2>2. g.id = Key(s) /\ ~Active(s) /\ job[s].op = "idle"
    BY <2>1 DEF Named, Used, Active, Idle
  <2>3. g.until <= now
    BY <2>1, <2>2 DEF Bounded
  <2> QED BY <2>1, <2>3, SharingConstants DEF SharingConstants
<1> QED BY <1>1, <1>2, <1>3, PTL DEF Spec

=============================================================================
