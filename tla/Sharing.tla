------------------------------- MODULE Sharing -------------------------------
(***************************************************************************)
(* Outgoing and received shares.  The owner re-encrypts a file into blobs  *)
(* under shared/<file_share_id>/ (one copy for all recipients of the file),*)
(* mints a download credential per recipient, seals a package for the      *)
(* recipient and records a share row; revoking, or the sweep of expired    *)
(* shares, undoes this in several steps.  Recipients import the package,   *)
(* download with the credential in it, and write delivery receipts.        *)
(*                                                                         *)
(* The owner's commands run on an asynchronous runtime and are broken at   *)
(* their cloud calls and database transactions: job[s] is the command that *)
(* works on share s.  Time is in units of some days.  The file_share_id of *)
(* a copy is the share that was made together with it.                     *)
(***************************************************************************)
EXTENDS Naturals, FiniteSets

CONSTANTS
    Files,      \* files of the owner's vault
    Contacts,   \* the people the owner shares with
    Shares,     \* share identifiers, each used by at most one share_file call
    NChunks,    \* chunks of a file
    Provider,   \* "b2": one scoped key per share; "drive": one permission of
                \* the service account per folder
    KeyLife,    \* the longest life of a scoped key (seven days)
    Expiries,   \* the periods a share may be given; Never is "No expiration"
    Never,
    Kinds,      \* receipts looked at, a subset of {"imported", "downloaded"}
    MaxTime,    \* bound on the clock
    MaxOwed,    \* bound on the receipts being uploaded at one time
    Perils      \* what the environment may do, see below

(***************************************************************************)
(* Perils: "overlap" commands run concurrently; "delete_fails" a cloud     *)
(* deletion fails after others were made; "creds_fail" no credential can   *)
(* be minted for a copy just uploaded; "delete_file" a file is deleted     *)
(* while it is shared; "slow" time passes during a command; "stops" the    *)
(* application stops in the middle of a command's changes.                 *)
(***************************************************************************)
AllPerils == {"overlap", "delete_fails", "creds_fail", "delete_file",
              "slow", "stops"}

ASSUME SharingConstants ==
    /\ NChunks \in Nat \ {0} /\ KeyLife \in Nat \ {0} /\ MaxTime \in Nat
    /\ MaxOwed \in Nat \ {0} /\ Kinds \subseteq {"imported", "downloaded"}
    /\ Provider \in {"b2", "drive"} /\ Perils \subseteq AllPerils
    /\ Never \notin Nat /\ Expiries \subseteq (Nat \ {0}) \cup {Never}

VARIABLES
    now,        \* the clock
    files,      \* nodes of the vault
    contacts,   \* rows of contacts
    row,        \* rows of shares, NoRow where there is none
    snaps,      \* rows of file_shares, by file_share_id
    blobs,      \* <<file_share_id, chunk>> under shared/ in the cloud
    stray,      \* those of them stored by an upload that was reported failed
    grants,     \* live credentials in the cloud: [id, until]
    packages,   \* the .arxshare files written so far
    received,   \* [who, pkg]: rows of received_shares of the recipients
    owed,       \* receipts a recipient's application is about to upload
    receipts,   \* receipt blobs in the cloud
    saved,      \* history: [who, fs, at], the downloads that completed
    job,        \* the owner's command at work on a share, Idle where none is
    sweep       \* the expired shares the running sweep has still to revoke

vars == <<now, files, contacts, row, snaps, blobs, stray, grants, packages,
          received, owed, receipts, saved, job, sweep>>

cloud  == <<blobs, stray, grants, receipts>>
people == <<packages, received, owed, saved>>

Chunks == 1..NChunks
NoRow  == [revoked |-> TRUE]
Idle   == [op |-> "idle"]

Used(s)    == row[s] # NoRow
Active(s)  == Used(s) /\ ~row[s].revoked
Working    == {s \in Shares : job[s] # Idle}
MayStart   == "overlap" \in Perils \/ (Working = {} /\ sweep = {})

Init ==
    /\ now = 0
    /\ files = Files
    /\ contacts = {}
    /\ row = [s \in Shares |-> NoRow]
    /\ snaps = {} /\ blobs = {} /\ stray = {} /\ grants = {} /\ packages = {}
    /\ received = {} /\ owed = {} /\ receipts = {} /\ saved = {}
    /\ job = [s \in Shares |-> Idle]
    /\ sweep = {}

-----------------------------------------------------------------------------
(* The tables (storage/sharing.rs).                                        *)

ListActiveByFile(f) == {s \in Shares : Active(s) /\ row[s].file = f}

ListActiveByFileShareId(fs) == {s \in Shares : Active(s) /\ row[s].fs = fs}

InsertShare(s, r) == row' = [row EXCEPT ![s] = r]

SetShareRevoked(s) == row' = [row EXCEPT ![s] = [@ EXCEPT !.revoked = TRUE]]

InsertFileShare(fs) == snaps' = snaps \cup {fs}

DeleteFileShare(fs) == snaps' = snaps \ {fs}

InsertContact(c) == contacts' = contacts \cup {c}

ListContacts == contacts

(* A row of received_shares, in the vault of recipient c.                  *)
ReceivedRow(c, pkg) == [who |-> c, pkg |-> pkg]

InsertReceivedShare(c, pkg) == received' = received \cup {ReceivedRow(c, pkg)}

GetReceivedShare(c, pkg) == ReceivedRow(c, pkg) \in received

(* list_shares joins the rows with their files and contacts.               *)
ListShares ==
    {s \in Shares : Used(s) /\ row[s].file \in files /\ row[s].contact \in contacts}

(* The first row by created_at: the copy a further recipient is given.     *)
FirstOf(S) == {s \in S : \A t \in S : row[s].created <= row[t].created}

-----------------------------------------------------------------------------
(* Credentials (rclone.rs, b2_api.rs, gdrive_api.rs).  A B2 key is an      *)
(* object of its own and dies after its life; a Drive permission is        *)
(* identified by the account and the folder and has no end.                *)

Earlier(a, b) == IF a <= b THEN a ELSE b

(* Mutant of Ttl: a key always lives its longest.                          *)
TtlSevenDays(expires, created) == KeyLife

(* ttl_seconds of create_share, from the time the command began: the time  *)
(* to the expiry, at most seven days.  The lower clamp of one minute is    *)
(* below one unit of time.                                                 *)
Ttl(expires, created) ==
    IF expires = Never THEN KeyLife ELSE Earlier(expires - created, KeyLife)

(* The stanza of the primary remote in the session's configuration.        *)
HasB2Keys == Provider = "b2"

HasDriveOAuth == Provider = "drive"

ScopedKey(s, ttl) == [id |-> <<"key", s>>, until |-> now + ttl]

FolderPermission(fs) == [id |-> <<"folder", fs>>, until |-> Never]

GenerateB2(s, ttl) == {ScopedKey(s, ttl)}

(* The permission is granted without an end: the ttl is not used.          *)
GenerateDrive(fs) == {FolderPermission(fs)}

(* The credential made, if the primary is one of the two providers.        *)
GenerateShareCredentials(s, fs, ttl) ==
    CASE HasB2Keys     -> GenerateB2(s, ttl)
      [] HasDriveOAuth -> GenerateDrive(fs)
      [] OTHER         -> {}

Live(id) == \E g \in grants : g.id = id /\ (g.until # Never => now < g.until)

DeleteGrant(id) == grants' = {g \in grants : g.id # id}

-----------------------------------------------------------------------------
(* The share package (packages.rs, hpke.rs): only the holder of the        *)
(* private key opens it.                                                   *)

Seal(c, s, fs, cred, expires) ==
    [to |-> c, share |-> s, fs |-> fs, cred |-> cred, expires |-> expires]

Opens(c, pkg) == pkg.to = c

(* What an import accepts: an opened package with a share, a file and its  *)
(* chunks in it, that this vault has not imported.                         *)
Importable(c, pkg) ==
    /\ Opens(c, pkg)
    /\ pkg.share \in Shares /\ pkg.fs \in Shares
    /\ ~GetReceivedShare(c, pkg)

-----------------------------------------------------------------------------
(* share_file.                                                             *)

AddContact(c) ==
    /\ c \notin contacts
    /\ InsertContact(c)
    /\ UNCHANGED <<now, files, row, snaps, cloud, people, job, sweep>>

(* Where create_share continues: an active share's copy is reused, a file  *)
(* without one is re-encrypted into a new copy.                            *)
NextCopy(s, f) ==
    IF ListActiveByFile(f) = {}
    THEN {[phase |-> "upload", fs |-> s]}
    ELSE {[phase |-> "creds", fs |-> row[t].fs] : t \in FirstOf(ListActiveByFile(f))}

(* The dialog offers stored contacts and closes its button while sharing.  *)
DialogOffers(c) == c \in ListContacts /\ \A t \in Working : job[t].op # "share"

ShareBegin(s, f, c, e) ==
    /\ MayStart
    /\ job[s] = Idle /\ ~Used(s)
    /\ s \notin snaps /\ (\A b \in blobs : b[1] # s)
    /\ f \in files /\ DialogOffers(c)
    /\ \E n \in NextCopy(s, f) :
          /\ n.phase = "creds" => n.fs \in snaps
          /\ job' = [job EXCEPT ![s] =
                [op |-> "share", phase |-> n.phase, fs |-> n.fs, file |-> f,
                 contact |-> c, created |-> now, cred |-> <<>>,
                 expires |-> IF e = Never THEN Never ELSE now + e]]
    /\ UNCHANGED <<now, files, contacts, row, snaps, cloud, people, sweep>>

CopiedBlobs(fs) == {b \in blobs : b[1] = fs}

Complete(fs) == \A i \in Chunks : <<fs, i>> \in blobs

(* One chunk is encrypted, staged and uploaded.                            *)
ShareUpload(s) ==
    /\ job[s].op = "share" /\ job[s].phase = "upload"
    /\ \E i \in Chunks :
          /\ <<s, i>> \notin blobs /\ \A k \in 1..(i - 1) : <<s, k>> \in blobs
          /\ blobs' = blobs \cup {<<s, i>>}
    /\ UNCHANGED <<now, files, contacts, row, snaps, stray, grants, receipts, people, job, sweep>>

(* Mutant of UploadFailed: the copy is left behind.                        *)
UploadFailedKeeps(s) == blobs

(* A failed upload deletes the blobs of this copy uploaded before.         *)
UploadFailed(s) == blobs \ CopiedBlobs(s)

(* The blob that failed is not among them, whether it could not be staged, *)
(* did not arrive, or was stored and its answer lost.                      *)
ShareUploadFail(s) ==
    /\ job[s].op = "share" /\ job[s].phase = "upload"
    /\ \E i \in Chunks :
          /\ <<s, i>> \notin blobs /\ \A k \in 1..(i - 1) : <<s, k>> \in blobs
          /\ \E left \in {UploadFailed(s)} \cup {x \in SUBSET blobs : "delete_fails" \in Perils} :
             \E new \in SUBSET {<<s, i>>} :
                 /\ UploadFailed(s) \subseteq left
                 /\ blobs' = left \cup new
                 /\ stray' = stray \cup new
    /\ job' = [job EXCEPT ![s] = Idle]
    /\ UNCHANGED <<now, files, contacts, row, snaps, grants, receipts, people, sweep>>

ShareSnapshot(s) ==
    /\ job[s].op = "share" /\ job[s].phase = "upload"
    /\ Complete(s)
    /\ InsertFileShare(s)
    /\ job' = [job EXCEPT ![s] = [@ EXCEPT !.phase = "creds"]]
    /\ UNCHANGED <<now, files, contacts, row, cloud, people, sweep>>

ShareCreds(s) ==
    /\ job[s].op = "share" /\ job[s].phase = "creds"
    /\ \E g \in GenerateShareCredentials(s, job[s].fs, Ttl(job[s].expires, job[s].created)) :
           /\ grants' = grants \cup {g}
           /\ job' = [job EXCEPT ![s] = [@ EXCEPT !.phase = "insert", !.cred = g.id]]
    /\ UNCHANGED <<now, files, contacts, row, snaps, blobs, stray, receipts, people, sweep>>

(* No supported backend, no service account, or the provider's API fails:  *)
(* the command returns, and nothing removes the copy.                      *)
ShareCredsFail(s) ==
    /\ job[s].op = "share" /\ job[s].phase = "creds"
    /\ "creds_fail" \in Perils \/ job[s].fs # s
    /\ job' = [job EXCEPT ![s] = Idle]
    /\ UNCHANGED <<now, files, contacts, row, snaps, cloud, people, sweep>>

(* The package is sealed and the row inserted (refused by the foreign key  *)
(* when the file is gone); then the package is written to the shares       *)
(* directory.  One that cannot be written is one that nobody imports.      *)
ShareInsert(s) ==
    /\ job[s].op = "share" /\ job[s].phase = "insert"
    /\ LET j == job[s] IN
       \/ /\ j.file \in files
          /\ InsertShare(s, [file |-> j.file, contact |-> j.contact, fs |-> j.fs,
                             created |-> j.created, expires |-> j.expires,
                             revoked |-> FALSE, cred |-> j.cred,
                             got |-> {}])
          /\ packages' = packages \cup {Seal(j.contact, s, j.fs, j.cred, j.expires)}
       \/ j.file \notin files /\ UNCHANGED <<row, packages>>
    /\ job' = [job EXCEPT ![s] = Idle]
    /\ UNCHANGED <<now, files, contacts, snaps, cloud, received, owed, saved, sweep>>

-----------------------------------------------------------------------------
(* revoke_share, and the sweep that pull_and_reconcile runs at its end.    *)

(* Mutant of IsLast: other recipients are not looked for.                  *)
IsLastAlways(s) == TRUE

(* is_last: no other active share uses the copy.                           *)
IsLast(s) == ListActiveByFileShareId(row[s].fs) = {s}

(* The share record is read here and used to the end of the command.       *)
BeginRevoke(s, via) ==
    job' = [job EXCEPT ![s] =
        [op |-> "revoke", via |-> via, last |-> IsLast(s),
         fs |-> row[s].fs, cred |-> row[s].cred,
         phase |-> IF IsLast(s) THEN "list" ELSE "mark", list |-> {}]]

(* The Revoke button of a share that is not revoked; it is disabled while  *)
(* its own command runs.                                                   *)
RevokeOffered(s) == s \in ListShares /\ ~row[s].revoked /\ job[s] = Idle

RevokeBegin(s) ==
    /\ MayStart
    /\ RevokeOffered(s)
    /\ BeginRevoke(s, "command")
    /\ UNCHANGED <<now, files, contacts, row, snaps, cloud, people, sweep>>

(* sweep_expired_shares reads the expired rows once.                       *)
SweepBegin ==
    /\ MayStart /\ sweep = {}
    /\ sweep' = {s \in Shares : /\ Active(s) /\ row[s].expires # Never
                                /\ row[s].expires < now}
    /\ sweep' # {}
    /\ UNCHANGED <<now, files, contacts, row, snaps, cloud, people, job>>

(* The next expired share: revoked, or skipped with a warning when it no   *)
(* longer can be.                                                          *)
SweepNext(s) ==
    /\ s \in sweep /\ job[s] = Idle
    /\ \A t \in Working : job[t].op = "revoke" => job[t].via # "sweep"
    /\ sweep' = sweep \ {s}
    /\ IF Active(s) THEN BeginRevoke(s, "sweep") ELSE UNCHANGED job
    /\ UNCHANGED <<now, files, contacts, row, snaps, cloud, people>>

(* list_blobs is recursive: it returns the receipts as well.               *)
ListShared(fs) == {<<"chunk", b>> : b \in CopiedBlobs(fs)}
                  \cup {<<"receipt", r>> : r \in {x \in receipts : x.fs = fs}}

RevokeList(s) ==
    /\ job[s].op = "revoke" /\ job[s].phase = "list"
    /\ job' = [job EXCEPT ![s] = [@ EXCEPT !.phase = "delete", !.list = ListShared(job[s].fs)]]
    /\ UNCHANGED <<now, files, contacts, row, snaps, cloud, people, sweep>>

(* One listed blob is deleted; NotFound counts as deleted.                 *)
RevokeDelete(s) ==
    /\ job[s].op = "revoke" /\ job[s].phase = "delete"
    /\ \E x \in job[s].list :
          /\ blobs' = blobs \ {b \in blobs : x = <<"chunk", b>>}
          /\ receipts' = receipts \ {r \in receipts : x = <<"receipt", r>>}
          /\ job' = [job EXCEPT ![s] = [@ EXCEPT !.list = job[s].list \ {x}]]
    /\ UNCHANGED <<now, files, contacts, row, snaps, stray, grants, people, sweep>>

(* RevocationPartial: the row stays active and the user may retry.         *)
RevokePartial(s) ==
    /\ job[s].op = "revoke" /\ job[s].phase = "delete" /\ job[s].list # {}
    /\ "delete_fails" \in Perils \/ Complete(job[s].fs)
    /\ job' = [job EXCEPT ![s] = Idle]
    /\ UNCHANGED <<now, files, contacts, row, snaps, cloud, people, sweep>>

(* set_share_revoked_at, refused when the row is gone or already revoked.  *)
RevokeMark(s) ==
    /\ job[s].op = "revoke"
    /\ job[s].phase = "mark" \/ (job[s].phase = "delete" /\ job[s].list = {})
    /\ IF Active(s)
       THEN /\ SetShareRevoked(s)
            /\ IF job[s].last THEN DeleteFileShare(job[s].fs) ELSE UNCHANGED snaps
            /\ job' = [job EXCEPT ![s] =
                  IF job[s].via = "command" THEN [@ EXCEPT !.phase = "cleanup"] ELSE Idle]
       ELSE /\ job' = [job EXCEPT ![s] = Idle]
            /\ UNCHANGED <<row, snaps>>
    /\ UNCHANGED <<now, files, contacts, cloud, people, sweep>>

(* cleanup_b2_share_key or cleanup_gdrive_share_permission.                *)
Cleanup(s) == DeleteGrant(job[s].cred)

(* Only the command deletes the credential, and a failure is only logged.  *)
RevokeCleanup(s) ==
    /\ job[s].op = "revoke" /\ job[s].phase = "cleanup"
    /\ Cleanup(s) \/ ("delete_fails" \in Perils /\ UNCHANGED grants)
    /\ job' = [job EXCEPT ![s] = Idle]
    /\ UNCHANGED <<now, files, contacts, row, snaps, blobs, stray, receipts, people, sweep>>

-----------------------------------------------------------------------------
(* Recipients, receipts, deletion, time.                                   *)

Receipt(pkg, kind) == [fs |-> pkg.fs, cred |-> pkg.cred, kind |-> kind, at |-> now]

(* A receipt is uploaded after the command's own work is done.             *)
Owe(r) ==
    IF r.kind \in Kinds
    THEN Cardinality(owed) < MaxOwed /\ owed' = owed \cup {r}
    ELSE UNCHANGED owed

(* import_share: opens the package, stores the row (a second import of the *)
(* same share is refused by the primary key) and owes an import receipt.   *)
ImportShare(c, pkg) ==
    /\ pkg \in packages /\ Importable(c, pkg)
    /\ InsertReceivedShare(c, pkg)
    /\ Owe(Receipt(pkg, "imported"))
    /\ UNCHANGED <<now, files, contacts, row, snaps, cloud, packages, saved, job, sweep>>

(* fetch_received_share_to_local: the chunks that arrive, by the           *)
(* credential of the package.                                              *)
Fetched(pkg) == {i \in Chunks : Live(pkg.cred) /\ <<pkg.fs, i>> \in blobs}

(* decrypt_received_share_blobs writes the file from all its chunks or     *)
(* removes what it wrote.                                                  *)
Decrypts(local) == local = Chunks

IsExpired(pkg) == pkg.expires # Never /\ pkg.expires < now

(* download_received_share (and the preview, which writes no receipt).     *)
DownloadReceived(c, pkg) ==
    /\ GetReceivedShare(c, pkg)
    /\ ~IsExpired(pkg)
    /\ Decrypts(Fetched(pkg))
    /\ [who |-> c, fs |-> pkg.fs, at |-> now] \notin saved
    /\ saved' = saved \cup {[who |-> c, fs |-> pkg.fs, at |-> now]}
    /\ Owe(Receipt(pkg, "downloaded"))
    /\ UNCHANGED <<now, files, contacts, row, snaps, cloud, packages, received, job, sweep>>

(* B2: a new blob; Drive: the placeholder of the folder is overwritten.    *)
WithReceipt(r) ==
    IF Provider = "b2" THEN receipts \cup {r}
    ELSE {x \in receipts : x.fs # r.fs \/ x.kind # r.kind} \cup {r}

(* write_receipt_blob is best effort.                                      *)
SendReceipt(r) ==
    /\ r \in owed
    /\ owed' = owed \ {r}
    /\ receipts' \in {receipts} \cup (IF Live(r.cred) THEN {WithReceipt(r)} ELSE {})
    /\ UNCHANGED <<now, files, contacts, row, snaps, blobs, stray, grants, packages,
                   received, saved, job, sweep>>

(* Mutant of ValidReceipts: the time is not checked.                       *)
ValidReceiptsUnchecked(s, kind) ==
    {r \in receipts : r.fs = row[s].fs /\ r.kind = kind}

(* The receipts under the copy's folder whose time is in range.            *)
ValidReceipts(s, kind) ==
    {r \in receipts : /\ r.fs = row[s].fs /\ r.kind = kind
                      /\ row[s].created <= r.at /\ r.at <= now}

(* check_share_receipts finds a receipt of kind k for one pending share    *)
(* and records it; each kind has a pass of its own.                        *)
CheckReceipts(s) ==
    /\ Active(s)
    /\ \E k \in Kinds \ row[s].got :
          /\ ValidReceipts(s, k) # {}
          /\ row' = [row EXCEPT ![s] = [@ EXCEPT !.got = row[s].got \cup {k}]]
    /\ UNCHANGED <<now, files, contacts, snaps, cloud, people, job, sweep>>

(* delete_node cascades to the share rows and to nothing else of sharing.  *)
DeleteFile(f) ==
    /\ f \in files
    /\ "delete_file" \in Perils \/ (ListActiveByFile(f) = {} /\ \A s \in Working : job[s].op # "share")
    /\ files' = files \ {f}
    /\ row' = [s \in Shares |-> IF Used(s) /\ row[s].file = f THEN NoRow ELSE row[s]]
    /\ UNCHANGED <<now, contacts, snaps, cloud, people, job, sweep>>

Tick ==
    /\ now < MaxTime
    /\ "slow" \in Perils \/ (Working = {} /\ sweep = {})
    /\ now' = now + 1
    /\ UNCHANGED <<files, contacts, row, snaps, cloud, people, job, sweep>>

(* The command has changed nothing yet.                                    *)
Untouched(s) ==
    IF job[s].op = "share"
    THEN job[s].phase # "insert" /\ CopiedBlobs(s) = {}
    ELSE job[s].phase \in {"list", "mark"}

(* The application stops: its commands are lost.                           *)
Stop ==
    /\ Working # {}
    /\ "stops" \in Perils \/ \A s \in Working : Untouched(s)
    /\ job' = [s \in Shares |-> Idle]
    /\ sweep' = {}
    /\ UNCHANGED <<now, files, contacts, row, snaps, cloud, people>>

Next ==
    \/ \E c \in Contacts : AddContact(c)
    \/ \E s \in Shares, f \in Files, c \in Contacts, e \in Expiries : ShareBegin(s, f, c, e)
    \/ \E s \in Shares :
          \/ ShareUpload(s) \/ ShareUploadFail(s) \/ ShareSnapshot(s)
          \/ ShareCreds(s) \/ ShareCredsFail(s) \/ ShareInsert(s)
          \/ RevokeBegin(s) \/ RevokeList(s) \/ RevokeDelete(s) \/ RevokePartial(s)
          \/ RevokeMark(s) \/ RevokeCleanup(s)
          \/ SweepNext(s) \/ CheckReceipts(s)
    \/ SweepBegin
    \/ \E c \in Contacts, p \in packages : ImportShare(c, p) \/ DownloadReceived(c, p)
    \/ \E r \in owed : SendReceipt(r)
    \/ \E f \in Files : DeleteFile(f)
    \/ Tick
    \/ Stop

Spec == Init /\ [][Next]_vars

-----------------------------------------------------------------------------
(* Properties.                                                             *)

(* Revoking one recipient leaves the others served: while a share is       *)
(* active and no revocation of it has begun, its snapshot row and every    *)
(* blob of its copy exist, so its package can be downloaded and further    *)
(* recipients can be given the same copy.                                  *)
ActiveIsServed ==
    \A s \in Shares : Active(s) /\ (job[s] = Idle) =>
        row[s].fs \in snaps /\ Complete(row[s].fs)

(* "always revokes the cloud-level download credential": once a share is   *)
(* revoked and the command or sweep is done with it, the credential in its *)
(* package opens nothing, whether it was deleted or has run out.           *)
RevokedIsCut ==
    \A s \in Shares : Used(s) /\ row[s].revoked /\ job[s] = Idle => ~Live(row[s].cred)

(* The copy of a file does not outlive its last share: every shared blob   *)
(* belongs to a copy an active share uses or a running command handles.    *)
(* The one exception is a blob that was stored though its upload was       *)
(* reported failed: "already-uploaded blobs are deleted", this one is not   *)
(* known to be one.                                                         *)
CopiesAreOwned ==
    \A b \in blobs \ stray :
        \/ ListActiveByFileShareId(b[1]) # {}
        \/ \E s \in Working : job[s].op = "share" /\ job[s].fs = b[1]

(* A share shown as downloaded was: somebody saved this copy at or after   *)
(* the time the share was made (a receipt does not say who).               *)
ReceiptIsTrue ==
    \A s \in Shares : Active(s) /\ "downloaded" \in row[s].got =>
        \E d \in saved : d.fs = row[s].fs /\ d.at >= row[s].created

(* What the badge next to the recipient's name suggests: that this         *)
(* recipient downloaded the file.                                          *)
ReceiptIsPersonal ==
    \A s \in Shares : Active(s) /\ "downloaded" \in row[s].got =>
        \E d \in saved : d.fs = row[s].fs /\ d.who = row[s].contact

(* A share that has neither expired nor been revoked can be downloaded.    *)
ActiveIsReadable ==
    \A s \in Shares : Active(s) /\ job[s] = Idle
                      /\ (row[s].expires = Never \/ now <= row[s].expires) =>
        Live(row[s].cred)
=============================================================================
