----------------------------- MODULE SyncCommand -----------------------------
(***************************************************************************)
(* "azcopy sync" from its command line to its enumerator.  It shares with  *)
(* CopyCommand the checks of flags and of credentials, and has its own     *)
(* order of them; it compares two listings, so both ends are listed, and   *)
(* it has to list them alike and to address what it has listed.  What it   *)
(* then does with the listings is SyncJob.                                 *)
(***************************************************************************)
EXTENDS CopyCommand

CONSTANT SyncAsked   \* as Asked, with the field dots (TrailingDotOption), and in src and dst
                     \* found (what there is) and protocol (of a share)

ASSUME SyncAskedAssumption ==
    \A line \in SyncAsked :
        /\ "dots" \in DOMAIN line
        /\ line.dots \in {"Enable", "Disable", "AllowToUnsafeDestination"}

VARIABLES listsStubs,    \* of both traversers: IncludeDirectoryStubs
          scansDots,     \* of both traversers: TrailingDotOption.IsEnabled
          jobDots        \* of both clients: AllowTrailingDot

scOwn == <<listsStubs, scansDots, jobDots>>
scVars == <<ccVars, scOwn>>

NotSetUp == listsStubs = FALSE /\ scansDots = FALSE /\ jobDots = FALSE
SCInit == asked \in SyncAsked /\ NothingDone /\ NotSetUp

SyncDirections ==
    LET services == BlobLike \cup {"File"}
    IN (services \X services) \cup (FileServices \X FileServices)
       \cup ({"Local"} \X (services \cup {"FileNFS"}))
       \cup ((services \cup {"FileNFS"}) \X {"Local"})

(* A place that is named to be remote and is no URL makes the process      *)
(* panic; there is no flag for owners, and symbolic links are left alone   *)
(* or followed or preserved.                                               *)
SyncToOptions ==
    /\ stage = "raw"
    /\ LET d == asked.fromTo
       IN \/ Reject
          \/ /\ IsRecognised /\ d \in SyncDirections /\ ~MixesProtocols(d)
             /\ \/ Has("unparsableSource") /\ From(d) \in Remote
                \/ Has("unparsableDestination") /\ To(d) \in Remote
             /\ asked.explicit
             /\ Panic
          \/ /\ IsRecognised /\ d \in SyncDirections /\ ~MixesProtocols(d)
             /\ Has("unparsableSource") => From(d) \notin Remote
             /\ Has("unparsableDestination") => To(d) \notin Remote
             /\ ~{"followLinks", "preserveLinks"} \subseteq asked.flags /\ ~Has("legacyFilters")
             /\ fromTo' = d
             /\ preserved' =
                  [info |-> /\ WantsInfo(d)
                            /\ IF IsNFS(d) THEN AreBothNFSAware(d) ELSE AreBothSMBAware(d),
                   permissions |-> Has("permissions") \/ Has("preserveSMBPermissions"),
                   posix |-> Has("posix") /\ ~IsNFS(d)]
             /\ stage' = "options"
             /\ UNCHANGED <<asked, stubs, ccLanding, credential, srcCredential, fpo>>

(* validate.  The level of a place is looked at in its URL.                *)
SyncOptionsAreOk(d) ==
    /\ From(d) \in Remote => asked.src.level # "service"
    /\ To(d) \in Remote => asked.dst.level # "service"
    /\ Has("forceIfReadOnly") => ForceIfReadOnlyIsOk(d)
    /\ Has("preserveLinks") => PreserveSymlinksIsOk(d)
    /\ IF IsNFS(d) THEN NFSIsOk(d)
       ELSE SMBIsOk(d) /\ asked.flags \cap {"followLinks", "preserveLinks"} = {}
    /\ Has("md5Option") => IsDownload(d)
    /\ Has("keepBlobTags") => d = <<"Blob", "Blob">>
    /\ ~{"cpkByName", "cpkByValue"} \subseteq asked.flags
    /\ Has("quiet") => ~Has("prompt") /\ ~Has("dryrun")

SyncValidate ==
    /\ stage = "options"
    /\ Reject \/ (SyncOptionsAreOk(fromTo) /\ EndWith("validated"))

(* process: the destination is authenticated first, whatever the direction. *)
AuthenticateDestination ==
    /\ stage = "validated"
    /\ LET type == CredentialFor(To(fromTo), asked.dst, FALSE)
       IN AuthenticateTo(To(fromTo), asked.dst, type,
                         /\ credential' = type /\ stage' = "authenticated"
                         /\ UNCHANGED <<asked, ccOptions, ccLanding, srcCredential, fpo>>)

MutSyncSource ==   \* downloads use the credential of the destination
    /\ stage = "authenticated"
    /\ LET type == CredentialFor(From(fromTo), asked.src, TRUE)
       IN AuthenticateTo(From(fromTo), asked.src, type,
            /\ srcCredential' = type
            /\ credential' = IF IsDownload(fromTo) \/ IsS2S(fromTo) THEN type ELSE credential
            /\ stage' = "authenticating"
            /\ UNCHANGED <<asked, ccOptions, ccLanding, fpo>>)
SyncSource ==
    /\ stage = "authenticated"
    /\ LET type == CredentialFor(From(fromTo), asked.src, TRUE)
       IN AuthenticateTo(From(fromTo), asked.src, type,
            /\ srcCredential' = type
            /\ credential' = IF IsDownload(fromTo) THEN type ELSE credential
            /\ stage' = "authenticating"
            /\ UNCHANGED <<asked, ccOptions, ccLanding, fpo>>)

CheckDestination ==
    /\ stage = "authenticating"
    /\ \/ Reject
       \/ /\ ~((IsS2S(fromTo) \/ IsUpload(fromTo)) /\ Has("systemContainer"))
          /\ EndWith("enumerating")

-----------------------------------------------------------------------------
(* Between services, a source is read with a SAS, by anybody, or with a    *)
(* token that can be forwarded.                                            *)
SourceCanBeRead(d) ==
    IsS2S(d) => \/ srcCredential = "Anonymous"
                \/ srcCredential \in AzureOAuth /\ CanForwardOAuthTokens(To(d))
                \/ srcCredential \in {"GoogleAppCredentials", "S3AccessKey", "S3PublicBucket"}

(* IsDirectory of the two traversers, which on shares fails for whatever   *)
(* is not a directory, and the comparison of what they return.             *)
TypesAreOk(d) ==
    LET fails == CASE To(d) \in FileServices -> asked.dst.found # "dir"
                   [] OTHER -> asked.dst.found \in {"nothing", "noContainer"} /\ ~asked.dst.isDir
        isDir == asked.dst.found = "dir" \/ (asked.dst.found = "nothing" /\ asked.dst.isDir)
    IN \/ To(d) \in BlobLike          \* it creates a missing container
       \/ fails /\ (To(d) \in FileServices => asked.dst.found # "noContainer")
       \/ ~fails /\ (asked.src.found = "dir") = isDir

(* validateProtocolCompatibility.  A share whose protocol cannot be found  *)
(* out is taken for what the command says.                                 *)
ProtocolsAreOk(d) ==
    /\ From(d) \in FileServices => asked.src.protocol \in {From(d), "hidden"}
    /\ To(d) \in FileServices => asked.dst.protocol \in {To(d), "hidden"}

SupportsTrailingDot(loc) == loc \in FileServices \/ (loc = "Local" /\ asked.os # "windows")

MutListsStubsFor(d) == stubs
ListsStubsFor(d) ==
    stubs \/ ({From(d), To(d)} \subseteq BlobLike /\ preserved.permissions)

(* The option is turned off unless both ends have such names, and a client  *)
(* keeps them with Enable only.                                            *)
JobKeepsDots(d) ==
    asked.dots = "Enable" /\ SupportsTrailingDot(From(d)) /\ SupportsTrailingDot(To(d))

(* initEnumerator.  Like a copy of what is in a folder, unless the root is *)
(* asked for.  The option for trailing dots is changed after both          *)
(* traversers have got it.                                                 *)
SyncEnumerate ==
    /\ stage = "enumerating"
    /\ LET d == fromTo
       IN \/ Reject /\ UNCHANGED scOwn
          \/ /\ SourceCanBeRead(d) /\ TypesAreOk(d) /\ ProtocolsAreOk(d)
             /\ stripTopDir' = ~Has("includeRoot")
             /\ listsStubs' = ListsStubsFor(d)
             /\ scansDots' = (asked.dots # "Disable")
             /\ jobDots' = JobKeepsDots(d)
             /\ fpo' = FolderPropertyOption(d, stripTopDir')
             /\ stage' = "scheduling"
             /\ UNCHANGED <<asked, ccOptions, asSubdir, credential, srcCredential>>

SCNext ==
    \/ /\ \/ SyncToOptions \/ SyncValidate \/ AuthenticateDestination \/ SyncSource
          \/ CheckDestination
       /\ UNCHANGED scOwn
    \/ SyncEnumerate
SCSpec == SCInit /\ [][SCNext]_scVars

-----------------------------------------------------------------------------
(* Only a place named by --from-to that is no URL, or a forced credential  *)
(* for S3, makes the command panic.                                        *)
OnlyKnownSyncPanics ==
    stage = "panicked" => \/ asked.explicit /\ asked.flags \cap {"unparsableSource", "unparsableDestination"} # {}
                          \/ asked.forced = "S3PublicBucket"

(* Folders are listed at both ends, or at none, whenever the job takes     *)
(* folders: else those of one end look as if they were missing at the      *)
(* other, and are deleted.  The POSIX properties make a job take folders   *)
(* that a listing of blobs does not show.                                  *)
ListsFolders(loc) == loc # "Blob" \/ listsStubs
FoldersAreListedAlike ==
    Scheduled /\ fpo # "NoFolders" /\ ~preserved.posix =>
        ListsFolders(From(fromTo)) /\ ListsFolders(To(fromTo))

(* Names on a share that differ in trailing dots only are not taken for    *)
(* one another: the requests of the job keep such dots whenever the scan   *)
(* has and has let names with them through.  This is not so for the        *)
(* deletions at a share that is synchronised with a place without such     *)
(* names, nor for AllowToUnsafeDestination, with which only the scan keeps *)
(* them.                                                                   *)
DropsDottedNames(d) == To(d) \in BlobLike \/ (To(d) = "Local" /\ asked.os = "windows")
DottedNamesAreKeptApart ==
    Scheduled /\ scansDots /\ ~jobDots /\ asked.dots # "AllowToUnsafeDestination" =>
        /\ From(fromTo) \in FileServices => DropsDottedNames(fromTo)
        /\ To(fromTo) \in FileServices => ~SupportsTrailingDot(From(fromTo))

(* The conditions that a copy has to meet, and those of comparing.         *)
SyncCommandInv ==
    /\ OnlyKnownSyncPanics
    /\ PreservedWhereBothCan
    /\ LoginsAreForTrustedHosts
    /\ FoldersAreListedAlike
    /\ DottedNamesAreKeptApart
=============================================================================
