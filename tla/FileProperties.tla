--------------------------- MODULE FileProperties ---------------------------
(***************************************************************************)
(* What is kept of an object besides its data when it goes to a share, to  *)
(* another share or to a disk: who may do what with it, its attributes and *)
(* its times (ste/sender-azureFile*.go, sourceInfoProvider-File.go,        *)
(* sourceInfoProvider-Local_linux.go, downloader-azureFiles*.go,           *)
(* securityInfoPersistenceManager.go).                                     *)
(*                                                                         *)
(* A share keeps the texts of permissions in a table and names them by     *)
(* keys, which mean something else in another share.  The transfers of a   *)
(* job use one cache of texts and keys.  A disk is a mount of an SMB       *)
(* server or of an NFS server.                                             *)
(***************************************************************************)
EXTENDS SecurityDescriptor, Functions

CONSTANTS FpTransfers,       \* transfers of the job
          FpJobs,            \* jobs to look at, with the source of every transfer
          SharePermissions,  \* share -> sequence of texts, what is in it at first
          MaxShortAces,      \* entries of the longest text that goes into a header
          MaxFpFaults        \* bound: calls of services and systems that fail

ASSUME FilePropertiesAssumption ==
    FpTransfers # {} /\ MaxShortAces \in Nat /\ MaxFpFaults \in Nat

Shares == DOMAIN SharePermissions

(* The service takes no text with two sections of a kind. *)
ASSUME SharePermissionsAssumption ==
    \A share \in Shares :
        /\ SharePermissions[share] \in Seq(Range(SharePermissions[share]))
        /\ \A text \in Range(SharePermissions[share]) : IsText(text)

(* "unset" is what a sender has in the place of attributes. *)
IsSource(source) ==
    /\ {source.from, source.to} \subseteq Shares
    /\ source.key \in 0 .. Len(SharePermissions[source.from])
    /\ "unset" \notin source.attributes
    /\ source.mode \subseteq {"r", "w", "s"}
    /\ IsBinary(source.sd)

ASSUME FpJobsAssumption ==
    \A job \in FpJobs :
        /\ job.route \in {"upload", "copy", "download"}
        /\ {job.fromNFS, job.toNFS} \subseteq BOOLEAN
        /\ \A t \in FpTransfers : IsSource(job.source[t])

VARIABLES fpJob,        \* the job's options and its sources
          fpPc,         \* per transfer: what it does next
          fpLive,       \* per transfer: whether it has not failed (jptm.IsLive)
          fpRead,       \* per transfer: cacheOnce of a share's object: "no", "yes" or "empty"
          fpHeaders,    \* per transfer: what its sender will apply (...ToApply)
          fpDst,        \* per transfer: the object at the destination
          fpTexts,      \* per share: what has been added to its table of permissions
          fpCache,      \* the job's cache: <<share, text, key>> put and <<share, key>> got
          fpPanicked,   \* the process is gone
          fpFaults

fpVars == <<fpJob, fpPc, fpLive, fpRead, fpHeaders, fpDst, fpTexts, fpCache, fpPanicked, fpFaults>>

-----------------------------------------------------------------------------
Src(t) == fpJob.source[t]
Uploading == fpJob.route = "upload"
Copying == fpJob.route = "copy"
Downloading == fpJob.route = "download"
OverNFS == fpJob.fromNFS \/ fpJob.toNFS
CrossProtocol == fpJob.fromNFS # fpJob.toNFS

(* The shares at both ends; an account's are copied by one job. *)
SrcShare(t) == Src(t).from
DstShare(t) == Src(t).to

(* A key is an index. *)
Table(share) == SharePermissions[share] \o fpTexts[share]

Inherited == [how |-> "inherit", text |-> <<>>, key |-> 0]
AsText(text) == [how |-> "text", text |-> text, key |-> 0]
AsKey(key) == [how |-> "key", text |-> <<>>, key |-> key]

(* What a sender has to apply at first, and what a service or a disk gives *)
(* to an object that comes without.                                        *)
NothingSet == [permission |-> Inherited, attributes |-> {"unset"}, created |-> "now",
               written |-> "now", owner |-> "service", mode |-> {}]
OfADisk == [owner |-> "me", group |-> "us", present |-> TRUE, flags |-> {},
            dacl |-> [given |-> TRUE, aces |-> <<>>]]
NewOnDisk == [sd |-> OfADisk, ownWish |-> "none", attributes |-> {"A"}, created |-> "now",
              written |-> "now", owner |-> "me", mode |-> {"r", "w"}]
NotThere == [there |-> FALSE]

(* ShouldTransferLastWriteTime *)
TransfersWriteTime(t) == ~Src(t).folder

(* More than FilesServiceMaxSDDLSize characters. *)
IsLong(text) == \E i \in DOMAIN text : IsAcl(text[i]) /\ Len(text[i].acl.aces) > MaxShortAces

NothingPreserved ==
    /\ fpPc = [t \in FpTransfers |->
                 IF fpJob.source[t].absent THEN "done"
                 ELSE IF fpJob.route = "copy" /\ fpJob.backend THEN "backend"
                 ELSE "permissions"]
    /\ fpLive = [t \in FpTransfers |-> TRUE]
    /\ fpRead = [t \in FpTransfers |-> "no"]
    /\ fpHeaders = [t \in FpTransfers |-> NothingSet]
    /\ fpDst = [t \in FpTransfers |-> IF fpJob.route = "download" THEN NewOnDisk ELSE NotThere]
    /\ fpTexts = [s \in Shares |-> <<>>]
    /\ fpCache = {}
    /\ fpPanicked = FALSE
    /\ fpFaults = 0

FPInit == fpJob \in FpJobs /\ NothingPreserved

(* Step names what is next; a call that fails fails the transfer, which    *)
(* goes to the end of it, and a sender's clean-up removes the file it made.*)
Goto(t, step) == fpPc' = [fpPc EXCEPT ![t] = step]

CallFails == fpFaults < MaxFpFaults /\ fpFaults' = fpFaults + 1

FailTransfer(t) ==
    /\ fpLive' = [fpLive EXCEPT ![t] = FALSE]
    /\ Goto(t, "cleanup")
    /\ UNCHANGED <<fpJob, fpHeaders, fpDst, fpTexts, fpCache, fpPanicked>>

FpPanics ==
    /\ fpPanicked' = TRUE
    /\ UNCHANGED <<fpJob, fpPc, fpLive, fpRead, fpHeaders, fpDst, fpTexts, fpCache, fpFaults>>

-----------------------------------------------------------------------------
(* A share's object is asked for its properties once; a failure is kept as *)
(* well, as properties of which none is there.                             *)
NeedsProperties(t) ==
    /\ ~Uploading /\ fpRead[t] = "no"
    /\ \/ fpPc[t] = "backend"
       \/ fpPc[t] = "permissions" /\ fpJob.permissions # "none" /\ ~CrossProtocol
       \/ fpPc[t] = "properties" /\ fpJob.info

MutGetPropertiesFails(t) ==  \* goes on with what there is
    /\ NeedsProperties(t) /\ CallFails
    /\ fpRead' = [fpRead EXCEPT ![t] = "empty"]
    /\ UNCHANGED <<fpJob, fpPc, fpLive, fpHeaders, fpDst, fpTexts, fpCache, fpPanicked>>

GetPropertiesFails(t) ==
    /\ NeedsProperties(t) /\ CallFails
    /\ fpRead' = [fpRead EXCEPT ![t] = "empty"]
    /\ FailTransfer(t)

GetProperties(t) ==
    /\ NeedsProperties(t)
    /\ fpRead' = [fpRead EXCEPT ![t] = "yes"]
    /\ UNCHANGED <<fpJob, fpPc, fpLive, fpHeaders, fpDst, fpTexts, fpCache, fpPanicked, fpFaults>>

KeyOf(t) == IF fpRead[t] = "yes" THEN Src(t).key ELSE 0

(* Properties(): cachedPermissionKey is set only here. *)
PropertiesInBackend(t) ==
    /\ fpPc[t] = "backend" /\ ~NeedsProperties(t)
    /\ Goto(t, "permissions")
    /\ UNCHANGED <<fpJob, fpLive, fpRead, fpHeaders, fpDst, fpTexts, fpCache, fpPanicked, fpFaults>>

CachedPermissionKey(t) == IF fpJob.backend THEN KeyOf(t) ELSE 0

SetPermission(t, permission, step) ==
    /\ fpHeaders' = [fpHeaders EXCEPT ![t].permission = permission]
    /\ Goto(t, step)
    /\ UNCHANGED <<fpJob, fpLive, fpRead, fpDst, fpTexts, fpPanicked, fpFaults>>

Ready(t) == fpPc[t] = "permissions" /\ ~NeedsProperties(t)

(* addPermissionsToHeaders and preservePermissions when they have nothing  *)
(* to do, because nobody asked or because the source names no permissions. *)
NoPermissions(t) ==
    /\ Ready(t) /\ ~OverNFS
    /\ \/ fpJob.permissions = "none"
       \/ ~Uploading /\ KeyOf(t) = 0
    /\ Goto(t, "properties")
    /\ UNCHANGED <<fpJob, fpLive, fpRead, fpHeaders, fpDst, fpTexts, fpCache, fpPanicked, fpFaults>>

WantsPermissions(t) == Ready(t) /\ ~OverNFS /\ fpJob.permissions # "none"

MutSameShare(t) == TRUE  \* compares the hosts alone

(* Host and share of both ends. *)
SameShare(t) == SrcShare(t) = DstShare(t)

(* Within a share the key will do. *)
UseTheKey(t) ==
    /\ WantsPermissions(t) /\ Copying /\ SameShare(t) /\ CachedPermissionKey(t) # 0
    /\ SetPermission(t, AsKey(CachedPermissionKey(t)), "properties")
    /\ UNCHANGED fpCache

(* GetSDDL of a file below a mount of an SMB server.  The text passes the  *)
(* check of ParseSDDL, whatever its list is, since the list comes last.    *)
GetLocalSDDL(t) ==
    LET sd == Src(t).sd
        text == SecurityDescriptorToString(sd)
    IN /\ WantsPermissions(t) /\ Uploading
       /\ \/ SecurityDescriptorToStringKind(sd) # "ok" /\ FpPanics
          \/ /\ SecurityDescriptorToStringKind(sd) = "ok"
             /\ SetPermission(t, AsText(PortableString(text)),
                              IF IsLong(text) THEN "put" ELSE "properties")
             /\ UNCHANGED fpCache
          \/ CallFails /\ FailTransfer(t) /\ UNCHANGED fpRead

(* GetSDDL of a share's object: GetSDDLFromID, with a cache of the job.  A *)
(* cache of 3000 entries may have lost any of them.                        *)
WantsText(t) ==
    /\ WantsPermissions(t) /\ ~Uploading /\ KeyOf(t) # 0
    /\ ~(Copying /\ SameShare(t) /\ CachedPermissionKey(t) # 0)

HaveText(t, text) ==
    SetPermission(t, AsText(text), IF Downloading THEN "set"
                                   ELSE IF IsLong(text) THEN "put" ELSE "properties")

GetSDDLFromCache(t) ==
    /\ WantsText(t)
    /\ \E entry \in fpCache :
          /\ entry.share = SrcShare(t) /\ entry.by = "ID" /\ entry.key = KeyOf(t)
          /\ HaveText(t, entry.text)
    /\ UNCHANGED fpCache

GetSDDLFromID(t) ==
    /\ WantsText(t)
    /\ \/ /\ HaveText(t, Table(SrcShare(t))[KeyOf(t)])
          /\ fpCache' = fpCache \cup {[share |-> SrcShare(t), by |-> "ID", key |-> KeyOf(t),
                                       text |-> Table(SrcShare(t))[KeyOf(t)]]}
       \/ CallFails /\ FailTransfer(t) /\ UNCHANGED fpRead

(* PutSDDL: a look into the cache, and when nothing is found, a call and   *)
(* an entry.  Transfers may all look before one has an answer; the service *)
(* may know the text, or take it as a new one.                             *)
MutCacheHolds(entry, share, text) ==  \* one entry per text, whatever the share
    entry.by = "SDDL" /\ entry.text = text

CacheHolds(entry, share, text) ==
    entry.by = "SDDL" /\ entry.text = text /\ entry.share = share

PutSDDLFromCache(t) ==
    /\ fpPc[t] = "put"
    /\ \E entry \in fpCache :
          /\ CacheHolds(entry, DstShare(t), fpHeaders[t].permission.text)
          /\ SetPermission(t, AsKey(entry.key), "properties")
    /\ UNCHANGED fpCache

PutSDDLMisses(t) ==
    /\ fpPc[t] = "put"
    /\ Goto(t, "createPermission")
    /\ UNCHANGED <<fpJob, fpLive, fpRead, fpHeaders, fpDst, fpTexts, fpCache, fpPanicked, fpFaults>>

CreatePermission(t) ==
    LET share == DstShare(t)
        text == fpHeaders[t].permission.text
        known == {k \in DOMAIN Table(share) : Table(share)[k] = text}
    IN /\ fpPc[t] = "createPermission"
       /\ \/ \E k \in known \cup {Len(Table(share)) + 1} :
                /\ fpTexts' = IF k \in known THEN fpTexts
                              ELSE [fpTexts EXCEPT ![share] = Append(@, text)]
                /\ fpCache' = fpCache \cup {[share |-> share, by |-> "SDDL", key |-> k, text |-> text]}
                /\ fpHeaders' = [fpHeaders EXCEPT ![t].permission = AsKey(k)]
                /\ Goto(t, "properties")
                /\ UNCHANGED <<fpJob, fpLive, fpRead, fpDst, fpPanicked, fpFaults>>
          \/ CallFails /\ FailTransfer(t) /\ UNCHANGED fpRead

(* addNFSPermissionsToHeaders: of the source, or those of this user; what  *)
(* comes from a share has no default.  Between protocols nothing is kept.  *)
(* A file on a disk is asked anew each time.                               *)
NFSPermissions(t) ==
    /\ Ready(t) /\ OverNFS /\ ~Downloading
    /\ \/ /\ fpHeaders' = [fpHeaders EXCEPT ![t] =
                IF CrossProtocol \/ (~Uploading /\ fpJob.permissions = "none") THEN @
                ELSE IF fpJob.permissions # "none"
                THEN [@ EXCEPT !.owner = Src(t).owner, !.mode = Src(t).mode]
                ELSE [@ EXCEPT !.owner = "me", !.mode = Src(t).mode \ {"w"}]]
          /\ Goto(t, "properties")
          /\ UNCHANGED <<fpJob, fpLive, fpRead, fpDst, fpTexts, fpCache, fpPanicked, fpFaults>>
       \/ Uploading /\ CallFails /\ FailTransfer(t) /\ UNCHANGED fpRead

-----------------------------------------------------------------------------
(* addSMBPropertiesToHeaders, addNFSPropertiesToHeaders: NFS has no        *)
(* attributes, and a protocol does not get the other's.                    *)
PropertiesToHeaders(t) ==
    LET h == fpHeaders[t]
        given == [h EXCEPT !.attributes = IF OverNFS THEN @ ELSE Src(t).attributes,
                           !.created = "source",
                           !.written = IF TransfersWriteTime(t) THEN "source" ELSE @]
    IN /\ fpPc[t] = "properties" /\ ~NeedsProperties(t) /\ ~Downloading
       /\ \/ /\ fpHeaders' = [fpHeaders EXCEPT ![t] = IF fpJob.info THEN given ELSE h]
             /\ Goto(t, IF Src(t).folder THEN "folder" ELSE "create")
             /\ UNCHANGED <<fpJob, fpLive, fpRead, fpDst, fpTexts, fpCache, fpPanicked, fpFaults>>
          \/ Uploading /\ fpJob.info /\ CallFails /\ FailTransfer(t) /\ UNCHANGED fpRead

AttributesGiven(h) == IF h.attributes = {"unset"} THEN {"A"} ELSE h.attributes

(* Prologue: the file is made without being read-only, which is taken out  *)
(* of what is to be applied.  A file that is there and read-only is first  *)
(* freed of its attributes, if that was allowed, and otherwise a failure.  *)
Create(t) ==
    LET h == [fpHeaders[t] EXCEPT !.attributes = @ \ {"R"}]
    IN /\ fpPc[t] = "create"
       /\ \/ /\ fpJob.readOnlyThere => fpJob.force
             /\ fpHeaders' = [fpHeaders EXCEPT ![t] = h]
             /\ fpDst' = [fpDst EXCEPT ![t] = [h EXCEPT !.attributes = AttributesGiven(h)]]
             /\ Goto(t, "ranges")
             /\ UNCHANGED <<fpJob, fpLive, fpRead, fpTexts, fpCache, fpPanicked, fpFaults>>
          \/ /\ fpJob.readOnlyThere /\ ~fpJob.force
             /\ FailTransfer(t) /\ UNCHANGED <<fpRead, fpFaults>>
          \/ CallFails /\ FailTransfer(t) /\ UNCHANGED fpRead

(* The data, which makes the service set the last write time. *)
PutRanges(t) ==
    /\ fpPc[t] = "ranges"
    /\ \/ /\ fpDst' = [fpDst EXCEPT ![t].written = "now"]
          /\ Goto(t, "epilogue")
          /\ UNCHANGED <<fpJob, fpLive, fpRead, fpHeaders, fpTexts, fpCache, fpPanicked, fpFaults>>
       \/ CallFails /\ FailTransfer(t) /\ UNCHANGED fpRead

MutApply(dst, h) == [dst EXCEPT !.attributes = AttributesGiven(h)]  \* as before March 2021

(* SetHTTPHeaders, with what was there at the creation. *)
Apply(dst, h) ==
    [dst EXCEPT !.attributes = AttributesGiven(h), !.created = h.created, !.written = h.written]

SenderEpilogue(t) ==
    /\ fpPc[t] = "epilogue"
    /\ \/ /\ fpDst' = [fpDst EXCEPT ![t] = IF fpJob.info THEN Apply(@, fpHeaders[t]) ELSE @]
          /\ Goto(t, "done")
          /\ UNCHANGED <<fpJob, fpLive, fpRead, fpHeaders, fpTexts, fpCache, fpPanicked, fpFaults>>
       \/ fpJob.info /\ CallFails /\ FailTransfer(t) /\ UNCHANGED fpRead

(* The folder is there (FolderCreation); all is set in one go. *)
SetFolderProperties(t) ==
    /\ fpPc[t] = "folder"
    /\ \/ /\ fpDst' = [fpDst EXCEPT ![t] =
                         [fpHeaders[t] EXCEPT !.attributes = AttributesGiven(fpHeaders[t])]]
          /\ Goto(t, "done")
          /\ UNCHANGED <<fpJob, fpLive, fpRead, fpHeaders, fpTexts, fpCache, fpPanicked, fpFaults>>
       \/ CallFails /\ FailTransfer(t) /\ UNCHANGED fpRead

CleanUp(t) ==
    /\ fpPc[t] = "cleanup"
    /\ fpDst' = [fpDst EXCEPT ![t] = IF Downloading \/ Src(t).folder THEN @ ELSE NotThere]
    /\ Goto(t, "done")
    /\ UNCHANGED <<fpJob, fpLive, fpRead, fpHeaders, fpTexts, fpCache, fpPanicked, fpFaults>>

-----------------------------------------------------------------------------
(* PutSDDL of the downloader, under globalSetAclMu.  What is at the root   *)
(* of the transfer, or right below a share, must not inherit from where it *)
(* lands, and nor must what did not inherit before.                        *)
MutWithControl(sd) == [sd EXCEPT !.flags = IF fpJob.atRoot THEN @ \cup {"P"} ELSE @]

WithControl(sd) ==
    [sd EXCEPT !.flags = @ \cup (IF "AI" \in @ THEN {"AR"} ELSE {})
                           \cup (IF fpJob.atRoot THEN {"P"} ELSE {})]

PutSDDL(t) ==
    LET text == fpHeaders[t].permission.text
        kind == SecurityDescriptorFromStringKind(text)
        sd == WithControl(SecurityDescriptorFromString(text))
        withOwner == fpJob.permissions = "ownership"
    IN /\ fpPc[t] = "set"
       /\ \/ kind = "panic" /\ FpPanics
          \/ kind = "ok" /\ SetSecurityObjectPanics(withOwner, sd) /\ FpPanics
          \/ kind = "error" /\ FailTransfer(t) /\ UNCHANGED <<fpRead, fpFaults>>
          \/ /\ kind = "ok" /\ ~SetSecurityObjectPanics(withOwner, sd)
             /\ \/ /\ fpDst' = [fpDst EXCEPT ![t].sd = SetSecurityObject(@, withOwner, sd)]
                   /\ Goto(t, "properties")
                   /\ UNCHANGED <<fpJob, fpLive, fpRead, fpHeaders, fpTexts, fpCache, fpPanicked,
                                  fpFaults>>
                \/ CallFails /\ FailTransfer(t) /\ UNCHANGED fpRead

(* PutNFSPermissions: the owner, then the mode, of which os.Chmod takes    *)
(* the nine bits of os.FileMode.                                           *)
PutNFSOwner(t) ==
    /\ Ready(t) /\ OverNFS /\ Downloading
    /\ \/ /\ fpDst' = [fpDst EXCEPT ![t].owner =
                         IF fpJob.permissions = "none" THEN @ ELSE Src(t).owner]
          /\ Goto(t, IF fpJob.permissions = "none" THEN "properties" ELSE "mode")
          /\ UNCHANGED <<fpJob, fpLive, fpRead, fpHeaders, fpTexts, fpCache, fpPanicked, fpFaults>>
       \/ fpJob.permissions # "none" /\ CallFails /\ FailTransfer(t) /\ UNCHANGED fpRead

PutNFSMode(t) ==
    /\ fpPc[t] = "mode"
    /\ \/ /\ fpDst' = [fpDst EXCEPT ![t].mode = Src(t).mode \cap {"r", "w"}]
          /\ Goto(t, "properties")
          /\ UNCHANGED <<fpJob, fpLive, fpRead, fpHeaders, fpTexts, fpCache, fpPanicked, fpFaults>>
       \/ CallFails /\ FailTransfer(t) /\ UNCHANGED fpRead

(* PutSMBProperties: both times, then the attributes; PutNFSProperties:    *)
(* the last write time, of folders too.                                    *)
PutDates(t) ==
    LET dst == fpDst[t]
        dated == [dst EXCEPT !.written = IF OverNFS \/ TransfersWriteTime(t) THEN "source" ELSE @,
                             !.created = IF OverNFS THEN @ ELSE "source"]
    IN /\ fpPc[t] = "properties" /\ ~NeedsProperties(t) /\ Downloading
       /\ \/ /\ fpDst' = [fpDst EXCEPT ![t] = IF fpJob.info THEN dated ELSE dst]
             /\ Goto(t, IF fpJob.info /\ ~OverNFS THEN "attributes" ELSE "done")
             /\ UNCHANGED <<fpJob, fpLive, fpRead, fpHeaders, fpTexts, fpCache, fpPanicked, fpFaults>>
          \/ fpJob.info /\ CallFails /\ FailTransfer(t) /\ UNCHANGED fpRead

PutAttributes(t) ==
    /\ fpPc[t] = "attributes"
    /\ \/ /\ fpDst' = [fpDst EXCEPT ![t].attributes = Src(t).attributes]
          /\ Goto(t, "done")
          /\ UNCHANGED <<fpJob, fpLive, fpRead, fpHeaders, fpTexts, fpCache, fpPanicked, fpFaults>>
       \/ CallFails /\ FailTransfer(t) /\ UNCHANGED fpRead

-----------------------------------------------------------------------------
FPNext ==
    /\ ~fpPanicked
    /\ \E t \in FpTransfers :
          \/ GetProperties(t) \/ GetPropertiesFails(t) \/ PropertiesInBackend(t)
          \/ NoPermissions(t) \/ UseTheKey(t) \/ GetLocalSDDL(t)
          \/ GetSDDLFromCache(t) \/ GetSDDLFromID(t)
          \/ PutSDDLFromCache(t) \/ PutSDDLMisses(t) \/ CreatePermission(t)
          \/ NFSPermissions(t) \/ PropertiesToHeaders(t)
          \/ Create(t) \/ PutRanges(t) \/ SenderEpilogue(t) \/ SetFolderProperties(t)
          \/ CleanUp(t)
          \/ PutSDDL(t) \/ PutNFSOwner(t) \/ PutNFSMode(t) \/ PutDates(t) \/ PutAttributes(t)

FPSpec == FPInit /\ [][FPNext]_fpVars

-----------------------------------------------------------------------------
(* Properties.  What a text and a key say is what a share makes of them,   *)
(* and not what sddl does: no list lets everybody in, an empty one nobody. *)
Delivered(t) == fpPc[t] = "done" /\ fpLive[t] /\ ~Src(t).absent

SectionOf(text, tag) == CHOOSE section \in Range(text) : section.tag = tag
Names(text, tag) == \E section \in Range(text) : section.tag = tag

WhoMay(dacl) ==
    IF dacl.noAccessControl THEN NoDacl
    ELSE [given |-> TRUE,
          aces |-> [i \in DOMAIN dacl.aces |->
                      [type |-> dacl.aces[i].type,
                       flags |-> {AceFlagToByte(f) : f \in dacl.aces[i].flags},
                       rights |-> AceRightsToAccessMask(dacl.aces[i].rights),
                       sid |-> dacl.aces[i].sid.sid]]]

Meaning(text) ==
    [owner |-> IF Names(text, "O") THEN SectionOf(text, "O").sid.sid ELSE "nobody",
     group |-> IF Names(text, "G") THEN SectionOf(text, "G").sid.sid ELSE "nobody",
     flags |-> IF Names(text, "D") THEN SectionOf(text, "D").acl.flags ELSE {},
     dacl |-> IF Names(text, "D") THEN WhoMay(SectionOf(text, "D").acl) ELSE NoDacl]

TextOf(permission, share) ==
    IF permission.how = "key" THEN Table(share)[permission.key] ELSE permission.text

MeantBySource(t) == Meaning(SharePermissions[SrcShare(t)][Src(t).key])

(* What reaches a share lets in whom the source lets in, belongs to whom   *)
(* it belonged to and inherits as it did, whether it goes as a text or as  *)
(* a key of this share (sender-azureFile-helper.go:185).                   *)
AccessIsSent ==
    \A t \in FpTransfers : Delivered(t) /\ ~Downloading /\ ~OverNFS /\ fpJob.permissions # "none" =>
        IF Copying /\ Src(t).key = 0 THEN fpDst[t].permission = Inherited
        ELSE /\ fpDst[t].permission.how # "inherit"
             /\ Meaning(TextOf(fpDst[t].permission, DstShare(t))) =
                    IF Copying THEN MeantBySource(t)
                    ELSE [owner |-> Src(t).sd.owner, group |-> Src(t).sd.group,
                          flags |-> Src(t).sd.flags, dacl |-> Src(t).sd.dacl]

(* What reaches a disk lets in whom the share lets in, says that it has    *)
(* inherited if it had, and is protected from the place it has come to at  *)
(* the root of the transfer (downloader-azureFiles_linux.go:150).          *)
AccessIsRestored ==
    \A t \in FpTransfers :
        Delivered(t) /\ Downloading /\ ~OverNFS /\ fpJob.permissions # "none" /\ Src(t).key # 0 =>
            LET meant == MeantBySource(t)
                sd == fpDst[t].sd
            IN /\ sd.dacl = meant.dacl
               /\ sd.flags \cap {"AI"} = meant.flags \cap {"AI"}
               /\ "P" \in sd.flags <=> "P" \in meant.flags \/ fpJob.atRoot
               /\ IF fpJob.permissions = "ownership"
                  THEN sd.owner = meant.owner /\ sd.group = meant.group
                  ELSE sd.owner = OfADisk.owner /\ sd.group = OfADisk.group

(* Times and attributes are the source's in the end, although writing the  *)
(* data changes them (sender-azureFile.go:251), but for a sent file's      *)
(* read-only attribute, which is never set again.                          *)
InfoIsKept ==
    \A t \in FpTransfers : Delivered(t) /\ fpJob.info =>
        /\ ~Src(t).folder => fpDst[t].written = "source"
        /\ ~(Downloading /\ OverNFS) => fpDst[t].created = "source"
        /\ ~OverNFS => fpDst[t].attributes =
                         Src(t).attributes \ (IF Downloading \/ Src(t).folder THEN {} ELSE {"R"})

(* Between NFS and NFS owner and mode are kept, the setuid bit in a share. *)
ModeIsKept ==
    \A t \in FpTransfers :
        Delivered(t) /\ fpJob.fromNFS /\ fpJob.toNFS /\ fpJob.permissions # "none" =>
            /\ fpDst[t].owner = Src(t).owner
            /\ fpDst[t].mode = Src(t).mode \ (IF Downloading THEN {"s"} ELSE {})

(* A file whose sending failed is not left in the share without them.      *)
NoHalfSentFile ==
    \A t \in FpTransfers :
        fpPc[t] = "done" /\ ~fpLive[t] /\ ~Downloading /\ ~Src(t).folder => fpDst[t] = NotThere

FilePropertiesInv ==
    AccessIsSent /\ AccessIsRestored /\ InfoIsKept /\ ModeIsKept /\ NoHalfSentFile
=============================================================================
