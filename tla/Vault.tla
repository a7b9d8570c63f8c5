-------------------------------- MODULE Vault --------------------------------
(***************************************************************************)
(* Sealed blobs that the messaging worker keeps: the backup of an account  *)
(* and the media of messages, with what the client makes of them.          *)
(*                                                                         *)
(* workers/messaging/src/index.ts (the backup and media routes), packages/*)
(* vortic-core/src/backup.rs (a key per generation), apps/web/src/lib/     *)
(* media.ts and the composer of components/chat/ActiveChatPanel.tsx.  The  *)
(* handlers ask RateGateDO (module Membership), look at the bucket and     *)
(* write, and between the three others go on.  The clients of a backup are *)
(* devices that have the recovery phrase: they write the generation after  *)
(* the one they read.                                                      *)
(***************************************************************************)
EXTENDS Integers, FiniteSets

CONSTANTS
  Nothing,
  Client,         \* devices with the recovery phrase of the backup
  File,           \* what a user attaches
  Chat,           \* the chats of the user, at one of which the composer is
  MaxWrites,      \* bound of the model: requests to write or delete
  MaxFaults       \* bound of the model: answers lost, uploads and downloads
                  \* that fail, and chats switched, together

Kind == {"put", "get", "delete"}

\* A version of the backup: the generation in its metadata and its etag.
Version == [gen : Int, etag : Int]

ASSUME VaultAssumption ==
  /\ Nothing \notin Chat \cup Version \cup {"uploading", "ready", "error"}
  /\ MaxWrites \in Nat /\ MaxFaults \in Nat

VARIABLES
  backup,       \* the object of the backup: generation and etag; or None
  requests,     \* the requests that are handled, and the answers to them
  known,        \* known[c]: what client c read or wrote last: None, or the
                \* generation and etag, both -1 for no backup
  media,        \* the files in the bucket of the media
  composer,     \* pendingAttachments: file -> "uploading", "ready", "error"
  atChat,       \* the chat of the composer
  uploads,      \* the uploads under way: file and whether it is stored
  sent,         \* the attachments of messages: file and chat
  viewed,       \* objectUrlCache: the files that were downloaded
  attached,     \* history: the files that were attached
  attachedAt,   \* history: attachedAt[f]: the chat file f was attached for
  writes,       \* history: number of writes and deletions asked for
  etags,        \* history: number of objects that were written
  reset,        \* history: the backup was deleted, or begun twice at a time
  overwritten,  \* history: versions put over by one that had not read them
  faults        \* history: number of faults

backups ==
  <<backup, requests, known, etags, reset, overwritten, writes>>
medias == <<media, composer, atChat, uploads, sent, viewed, attached, attachedAt>>
vaultVars == <<backups, medias, faults>>

Absent == [gen |-> -1, etag |-> -1]

VaultInit ==
  /\ backup = Nothing /\ requests = {}
  /\ known = [c \in Client |-> Nothing]
  /\ media = {} /\ composer = [f \in File |-> Nothing]
  /\ atChat \in Chat /\ uploads = {} /\ sent = {}
  /\ viewed = {} /\ attached = {} /\ attachedAt = [f \in File |-> Nothing]
  /\ writes = 0 /\ etags = 0 /\ reset = FALSE /\ overwritten = {} /\ faults = 0

Fault == faults < MaxFaults /\ faults' = faults + 1

-----------------------------------------------------------------------------
(* The backup *)

\* A client reads the backup, writes the generation after the one it knows, or
\* deletes it; one request at a time.
Ask(c, kind) ==
  /\ \A r \in requests : r.client # c
  /\ kind = "put" => known[c] # Nothing
  /\ kind # "get" => writes < MaxWrites
  /\ writes' = IF kind = "get" THEN writes ELSE writes + 1
  /\ requests' = requests \cup
       {[client |-> c, kind |-> kind, at |-> "arrived", base |-> known[c],
         head |-> Nothing]}
  /\ UNCHANGED <<backup, known, etags, reset, overwritten, medias, faults>>

Goes(r, place, head) ==
  requests' = (requests \ {r}) \cup
    {[client |-> r.client, kind |-> r.kind, at |-> place, base |-> r.base,
      head |-> head]}

\* Every request is counted first, and refused over its limit.
Count(r, allowed) ==
  /\ r \in requests /\ r.at = "arrived"
  /\ Goes(r, IF allowed THEN "counted" ELSE "refused", Nothing)
  /\ UNCHANGED <<backup, known, etags, reset, overwritten, writes, medias, faults>>

\* coreBackupPut looks at the object; its generation advances by one at a time,
\* from 0.
Head(r) ==
  /\ r \in requests /\ r.at = "counted" /\ r.kind = "put"
  /\ LET now == IF backup = Nothing THEN Absent ELSE backup
     IN  Goes(r, IF r.base.gen = now.gen THEN "looked" ELSE "refused", now)
  /\ UNCHANGED <<backup, known, etags, reset, overwritten, writes,
                 medias, faults>>

\* Mutant: the condition on the etag is left out.
MatchesAny(head) == TRUE

\* The first write is not conditional, any other is.
Matches(head) ==
  \/ head = Absent
  \/ backup # Nothing /\ backup.etag = head.etag

\* Then it writes, if the object is still the one it looked at.
Put(r) ==
  /\ r \in requests /\ r.at = "looked"
  /\ IF Matches(r.head)
     THEN LET new == [gen |-> r.base.gen + 1, etag |-> etags]
          IN  /\ backup' = new
              /\ etags' = etags + 1
              /\ reset' = (reset \/ (r.head = Absent /\ backup # Nothing))
              /\ overwritten' =
                   IF backup # Nothing /\ backup.etag # r.base.etag
                   THEN overwritten \cup {backup.etag} ELSE overwritten
              /\ Goes(r, "ok", new)
     ELSE /\ Goes(r, "refused", Nothing)
          /\ UNCHANGED <<backup, etags, reset, overwritten>>
  /\ UNCHANGED <<known, writes, medias, faults>>

\* coreBackupGet.
Get(r) ==
  /\ r \in requests /\ r.at = "counted" /\ r.kind = "get"
  /\ Goes(r, "ok", IF backup = Nothing THEN Absent ELSE backup)
  /\ UNCHANGED <<backup, known, etags, reset, overwritten, writes,
                 medias, faults>>

\* coreBackupDelete, whatever is there.
DeleteBackup(r) ==
  /\ r \in requests /\ r.at = "counted" /\ r.kind = "delete"
  /\ backup' = Nothing
  /\ reset' = TRUE
  /\ Goes(r, "ok", Absent)
  /\ UNCHANGED <<known, etags, overwritten, writes, medias, faults>>

\* The client learns what it read or wrote, and must read again when refused.
Answer(r) ==
  /\ r \in requests /\ r.at \in {"ok", "refused"}
  /\ requests' = requests \ {r}
  /\ known' = [known EXCEPT ![r.client] = r.head]
  /\ UNCHANGED <<backup, etags, reset, overwritten, writes, medias,
                 faults>>

\* The answer is lost: the client goes on with what it knew.
LoseAnswer(r) ==
  /\ r \in requests /\ r.at \in {"ok", "refused"} /\ Fault
  /\ requests' = requests \ {r}
  /\ UNCHANGED <<backup, known, etags, reset, overwritten, writes,
                 medias>>

-----------------------------------------------------------------------------
(* Media *)

\* handleFiles: the upload of an attached file begins at once, under an id and a
\* key of its own.
Attach(f) ==
  /\ composer[f] = Nothing /\ f \notin attached
  /\ composer' = [composer EXCEPT ![f] = "uploading"]
  /\ uploads' = uploads \cup {[file |-> f, stored |-> FALSE]}
  /\ attached' = attached \cup {f}
  /\ attachedAt' = [attachedAt EXCEPT ![f] = atChat]
  /\ UNCHANGED <<backups, media, atChat, sent, viewed, faults>>

\* coreMediaPut: an unconditional write.
Store(u) ==
  /\ u \in uploads /\ ~u.stored
  /\ media' = media \cup {u.file}
  /\ uploads' = (uploads \ {u}) \cup {[file |-> u.file, stored |-> TRUE]}
  /\ UNCHANGED <<backups, composer, atChat, sent, attached, attachedAt, viewed,
                 faults>>

\* Mutant: the end of an upload puts its file on the list, wherever that is now.
StatusAdded(old, status) == status

\* What the composer shows of a file whose upload has ended, if it has it still.
Status(old, status) == IF old = Nothing THEN Nothing ELSE status

Ended(u, status) ==
  /\ uploads' = uploads \ {u}
  /\ composer' = [composer EXCEPT ![u.file] = Status(@, status)]

Uploaded(u) ==
  /\ u \in uploads /\ u.stored
  /\ Ended(u, "ready")
  /\ UNCHANGED <<backups, media, atChat, sent, attached, attachedAt, viewed,
                 faults>>

\* The upload is refused or fails, or only its answer does.
UploadFails(u) ==
  /\ u \in uploads /\ Fault
  /\ Ended(u, "error")
  /\ UNCHANGED <<backups, media, atChat, sent, attached, attachedAt, viewed>>

\* An attachment is taken back.
Remove(f) ==
  /\ composer[f] # Nothing
  /\ composer' = [composer EXCEPT ![f] = Nothing]
  /\ UNCHANGED <<backups, media, atChat, uploads, sent, attached, attachedAt,
                 viewed, faults>>

\* The chat is switched, which takes back all of them.
SwitchChat(c) ==
  /\ c # atChat /\ Fault
  /\ atChat' = c
  /\ composer' = [f \in File |-> Nothing]
  /\ UNCHANGED <<backups, media, uploads, sent, attached, attachedAt, viewed>>

CanSubmit == \A f \in File : composer[f] # "uploading"

\* Mutant: an attachment is sent however its upload ended.
ReadyOrNot == {f \in File : composer[f] # Nothing}

Ready == {f \in File : composer[f] = "ready"}

\* handleSubmit sends what is ready, once nothing is being uploaded.
Submit ==
  /\ CanSubmit /\ Ready # {}
  /\ sent' = sent \cup {[file |-> f, chat |-> atChat] : f \in Ready}
  /\ composer' = [f \in File |-> Nothing]
  /\ UNCHANGED <<backups, media, atChat, uploads, attached, attachedAt, viewed,
                 faults>>

\* getAttachmentObjectUrl keeps the download of a file.  It forgets one that
\* fails, so that the next look at the message downloads it again.
View(s) ==
  /\ s \in sent /\ s.file \notin viewed
  /\ \/ s.file \in media /\ viewed' = viewed \cup {s.file} /\ UNCHANGED faults
     \/ Fault /\ UNCHANGED viewed
  /\ UNCHANGED <<backups, media, composer, atChat, uploads, sent, attached,
                 attachedAt>>

-----------------------------------------------------------------------------
VaultNext ==
  \/ \E c \in Client, k \in Kind : Ask(c, k)
  \/ \E r \in requests, allowed \in BOOLEAN : Count(r, allowed)
  \/ \E r \in requests :
       Head(r) \/ Put(r) \/ Get(r) \/ DeleteBackup(r) \/ Answer(r)
         \/ LoseAnswer(r)
  \/ \E f \in File : Attach(f) \/ Remove(f)
  \/ \E u \in uploads : Store(u) \/ Uploaded(u) \/ UploadFails(u)
  \/ \E c \in Chat : SwitchChat(c)
  \/ Submit
  \/ \E s \in sent : View(s)

VaultSpec == VaultInit /\ [][VaultNext]_vaultVars

VaultTypeOK ==
  /\ backup \in Version \cup {Nothing}
  /\ requests \subseteq
       [client : Client, kind : Kind, base : Version \cup {Nothing},
        head : Version \cup {Nothing},
        at : {"arrived", "counted", "looked", "ok", "refused"}]
  /\ known \in [Client -> Version \cup {Nothing}]
  /\ composer \in [File -> {Nothing, "uploading", "ready", "error"}]
  /\ atChat \in Chat
  /\ uploads \subseteq [file : File, stored : BOOLEAN]
  /\ sent \subseteq [file : File, chat : Chat]
  /\ media \subseteq File /\ viewed \subseteq File /\ attached \subseteq File
  /\ attachedAt \in [File -> Chat \cup {Nothing}]
  /\ etags \in Nat /\ writes \in Nat /\ faults \in Nat
  /\ reset \in BOOLEAN /\ overwritten \subseteq Int

\* A version of the backup is only replaced by a device that had read it or had
\* written it, and the generations count the versions, unless the backup was
\* deleted or two devices began it at a time: index.ts:407 compares generations
\* before the write and :419 the etag in it, and the writes, deletions and reads of
\* several devices, some of which never hear the answer, pass between the two.
NoVersionLostUnlessReset ==
  ~reset =>
    /\ overwritten = {}
    /\ backup # Nothing => backup.gen + 1 = etags

\* What was sent is in the bucket, and went to the chat it was attached for:
\* ActiveChatPanel.tsx:189 marks the file of an upload that ends by its id, in a
\* list that was emptied when the chat was switched, and lib/media.ts:61 throws
\* when an upload is not acknowledged.
SentAsAttached ==
  \A s \in sent : s.file \in media /\ s.chat = attachedAt[s.file]
=============================================================================
