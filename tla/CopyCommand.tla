----------------------------- MODULE CopyCommand -----------------------------
(***************************************************************************)
(* "azcopy copy" from its command line to the work it gives to the engine: *)
(* the options are cooked and validated, both ends authenticated, and the  *)
(* enumerator decides what is taken, what of it is preserved and where     *)
(* each object lands; computeJobXfer then picks the code for it.  Every    *)
(* stage relies on what the earlier ones have let through.                 *)
(***************************************************************************)
EXTENDS Integers, Sequences, FiniteSets

CONSTANT Asked   \* what may be asked and of what: a set of records
                 \* [fromTo, explicit, flags, os, forced, token, accountKey, src, dst],
                 \* src and dst of [sas, host, isPublic, level, isDir]

Remote == {"BlobFS", "Blob", "File", "S3", "GCP", "FileNFS", "Http"}
FileServices == {"File", "FileNFS"}
BlobLike == {"Blob", "BlobFS"}
FolderAware == {"BlobFS", "File", "Local", "FileNFS"}
Location == Remote \cup {"Local", "Pipe", "Benchmark", "None", "Unknown"}

EnumFromTo ==
    ({"Local", "Benchmark"} \X {"Blob", "File", "BlobFS", "FileNFS"})
    \cup ({"Blob", "File", "BlobFS", "FileNFS", "Http"} \X {"Local"})
    \cup ({"Blob", "File"} \X {"Pipe"}) \cup ({"Pipe"} \X {"Blob", "File"})
    \cup ({"Blob", "File", "BlobFS"} \X {"Blob", "File", "BlobFS", "Unknown", "None"})
    \cup ({"S3", "GCP"} \X {"Blob"})
    \cup {<<"File", "FileNFS">>, <<"FileNFS", "File">>, <<"FileNFS", "FileNFS">>,
          <<"Unknown", "Unknown">>}

From(d) == d[1]
To(d) == d[2]
IsUpload(d) == From(d) \notin Remote \cup {"Unknown"} /\ To(d) \in Remote
IsDownload(d) == From(d) \in Remote /\ To(d) \in {"Local", "Pipe", "Benchmark"}
IsS2S(d) == From(d) \in Remote /\ To(d) \in Remote
IsNFS(d) == "FileNFS" \in {From(d), To(d)}

VARIABLES asked,         \* the command line and what is found at its two ends
          stage,
          fromTo,        \* FromTo
          preserved,     \* preserveInfo, preservePermissions, preservePOSIXProperties
          stubs,         \* IncludeDirectoryStubs
          stripTopDir, asSubdir,
          credential,    \* credentialInfo.CredentialType
          srcCredential, \* srcCredInfo.CredentialType
          fpo            \* of the job: FolderPropertyOption

ccOptions == <<fromTo, preserved, stubs>>
ccLanding == <<stripTopDir, asSubdir>>
ccVars == <<asked, stage, ccOptions, ccLanding, credential, srcCredential, fpo>>

Has(flag) == flag \in asked.flags
ToNull == Has("toNull") /\ To(asked.fromTo) = "Local"

NothingDone ==
    /\ stage = "raw"
    /\ fromTo = <<"Unknown", "Unknown">>
    /\ preserved = [info |-> FALSE, permissions |-> FALSE, posix |-> FALSE]
    /\ stubs = Has("stubs") /\ stripTopDir = FALSE /\ asSubdir = ~Has("noSubdir")
    /\ credential = "Unknown" /\ srcCredential = "Unknown" /\ fpo = "NoFolders"
CCInit == asked \in Asked /\ NothingDone

(* An error, or the operating system, may end every stage before the last. *)
EndWith(end) ==
    /\ stage' = end
    /\ UNCHANGED <<asked, ccOptions, ccLanding, credential, srcCredential, fpo>>
Reject == EndWith("rejected")
Panic == EndWith("panicked")

-----------------------------------------------------------------------------
(* ValidateFromTo: a direction that is inferred is one of the enumeration  *)
(* and of places that an argument can be recognised as.                    *)
Inferable == Location \ {"FileNFS", "None", "Unknown"}
IsRecognised ==
    /\ asked.fromTo \in EnumFromTo
    /\ asked.explicit \/ asked.fromTo \in Inferable \X Inferable

AreBothNFSAware(d) ==
    \/ asked.os = "linux" /\ d \in {<<"Local", "FileNFS">>, <<"FileNFS", "Local">>}
    \/ IsNFS(d) /\ d \in FileServices \X FileServices
AreBothSMBAware(d) ==
    \/ asked.os \in {"windows", "linux"} /\ d \in {<<"Local", "File">>, <<"File", "Local">>}
    \/ d = <<"File", "File">>
AreBothPOSIXAware(d) ==
    \/ asked.os = "linux" /\ d \in ({"Local"} \X BlobLike) \cup (BlobLike \X {"Local"})
    \/ d \in BlobLike \X BlobLike

(* ComputePreserveFlags: the new flag decides, then the old one, then the  *)
(* default of the system.                                                  *)
WantsInfo(d) ==
    IF asked.flags \cap {"preserveInfo", "noPreserveInfo"} # {} THEN Has("preserveInfo")
    ELSE \/ Has("preserveSMBInfo")
         \/ AreBothNFSAware(d)
         \/ asked.os = "windows" /\ AreBothSMBAware(d)
MixesProtocols(d) ==
    /\ IsNFS(d)
    /\ Has("preserveSMBPermissions") \/ (Has("preserveSMBInfo") /\ asked.os = "linux")

(* A trailing wildcard strips the top directory, and so does any wildcard  *)
(* in a local source; the URL of a remote one is used before it is looked  *)
(* at whether it could be parsed.                                          *)
ToOptions ==
    /\ stage = "raw"
    /\ LET d == asked.fromTo
           parsesSource == From(d) \in Remote \ {"Http"}
           wildcard == Has("wildcard") /\ (parsesSource \/ From(d) = "Local")
           glob == Has("glob") /\ From(d) = "Local"
       IN \/ Reject
          \/ asked.explicit /\ Has("unparsableSource") /\ parsesSource /\ Panic
          \/ /\ IsRecognised /\ ~MixesProtocols(d) /\ ~{"followLinks", "preserveLinks"} \subseteq asked.flags
             /\ Has("unparsableSource") => From(d) \notin Remote
             /\ Has("unparsableDestination") => To(d) \notin Remote
             /\ Has("glob") => ~parsesSource
             /\ fromTo' = d
             /\ stripTopDir' = (wildcard \/ glob)
             /\ preserved' =
                  [info |-> /\ WantsInfo(d)
                            /\ IF IsNFS(d) THEN AreBothNFSAware(d) ELSE AreBothSMBAware(d),
                   permissions |-> Has("permissions") \/ Has("preserveSMBPermissions"),
                   posix |-> Has("posix") /\ ~IsNFS(d)]
             /\ stubs' = (stubs \/ (preserved'.permissions /\ From(d) = "Blob"))
             /\ stage' = "options" /\ UNCHANGED <<asked, asSubdir, credential, srcCredential, fpo>>

-----------------------------------------------------------------------------
(* validate. *)
ForceIfReadOnlyIsOk(d) ==
    \/ To(d) \in FileServices \/ d = <<"File", "Unknown">>
    \/ To(d) = "Local" /\ asked.os = "windows"

PreserveSymlinksIsOk(d) ==
    d \in ({"Local"} \X BlobLike) \cup (BlobLike \X {"Local"}) \cup (BlobLike \X BlobLike)
          \cup {<<"Local", "FileNFS">>, <<"FileNFS", "Local">>, <<"FileNFS", "FileNFS">>}

MutBackupModeIsOk(d) == asked.os = "windows"   \* any direction
BackupModeIsOk(d) == asked.os = "windows" /\ (IsUpload(d) \/ IsDownload(d))

(* --blob-tags is refused for one direction only.                          *)
BlobTagsAreOk(d) == d # <<"BlobFS", "None">>
KeepBlobTagsIsOk(d) == d = <<"Blob", "Blob">> /\ ~Has("blobTags")

CpkIsOk(d) ==
    /\ ~{"cpkByName", "cpkByValue"} \subseteq asked.flags
    /\ ~Has("unparsableDestination")
    /\ ~(To(d) = "BlobFS" /\ asked.dst.host = "azure")

NFSIsOk(d) ==
    LET stays(allowed) == d \in allowed /\ (IsUpload(d) \/ IsDownload(d) => asked.os = "linux")
        same == {<<"Local", "FileNFS">>, <<"FileNFS", "Local">>, <<"FileNFS", "FileNFS">>}
        cross == {<<"FileNFS", "File">>, <<"File", "FileNFS">>}
    IN /\ IsUpload(d) \/ IsDownload(d) => asked.os = "linux"
       /\ preserved.info => stays(same \cup cross)
       /\ preserved.permissions => stays(same)
       /\ Has("followLinks") => From(d) = "Local"

MutSMBIsOk(d) ==   \* permissions wherever there may be folders
    LET stays == /\ d \in {<<"Local", "File">>, <<"File", "Local">>, <<"File", "File">>}
                 /\ IsUpload(d) \/ IsDownload(d) => asked.os \in {"windows", "linux"}
    IN /\ preserved.info => stays
       /\ preserved.posix => AreBothPOSIXAware(d)
       /\ preserved.permissions => {From(d), To(d)} \subseteq FolderAware \cup BlobLike
       /\ Has("noPreserveOwner") => IsDownload(d)
SMBIsOk(d) ==
    LET stays == /\ d \in {<<"Local", "File">>, <<"File", "Local">>, <<"File", "File">>}
                 /\ IsUpload(d) \/ IsDownload(d) => asked.os \in {"windows", "linux"}
    IN /\ preserved.info => stays
       /\ preserved.posix => AreBothPOSIXAware(d)
       /\ preserved.permissions => d \in BlobLike \X BlobLike \/ stays
       /\ Has("noPreserveOwner") => IsDownload(d)

(* The switch over fromTo: the flags that its case refuses.                *)
RefusedFlags(d) ==
    CASE From(d) = "Local" ->
           {"lastModified", "s2sOption"}
           \cup (IF To(d) = "Blob" THEN {} ELSE {"blobType", "tier"})
      [] To(d) = "Local" /\ From(d) # "Http" ->
           {"followLinks", "tier", "noGuess", "headers", "s2sOption"}
      [] d \in {<<"Blob", "File">>, <<"S3", "Blob">>, <<"Blob", "Blob">>, <<"File", "Blob">>,
                <<"File", "File">>, <<"GCP", "Blob">>, <<"FileNFS", "FileNFS">>} ->
           {"lastModified", "followLinks", "noGuess", "headers"}
           \cup (IF To(d) = "Blob" THEN {} ELSE {"blobType", "tier"})
      [] OTHER -> {}

OptionsAreOk(d) ==
    /\ Has("forceIfReadOnly") => ForceIfReadOnlyIsOk(d)
    /\ Has("preserveLinks") => PreserveSymlinksIsOk(d)
    /\ Has("decompress") => To(d) = "Local" /\ From(d) \in {"Blob", "File", "FileNFS"}
    /\ Has("patterns") => d # <<"BlobFS", "Unknown">>
    /\ ~{"listOfFiles", "includePath"} \subseteq asked.flags
    /\ Has("blobTags") => BlobTagsAreOk(d)
    /\ Has("keepBlobTags") => KeepBlobTagsIsOk(d)
    /\ Has("cpkByName") \/ Has("cpkByValue") => CpkIsOk(d)
    /\ IF IsNFS(d) THEN NFSIsOk(d) ELSE SMBIsOk(d)
    /\ Has("backup") => BackupModeIsOk(d)
    /\ asked.flags \cap RefusedFlags(d) = {}
    /\ Has("md5Option") => IsDownload(d)
    /\ Has("fileAttributes") => From(d) = "Local"
    /\ Has("quiet") => ~Has("prompt") /\ ~Has("dryrun")

(* With a key for encryption the destination is parsed as a URL, and what  *)
(* is not one is used all the same; a local path may be such.              *)
Validate ==
    /\ stage = "options"
    /\ \/ Reject
       \/ OptionsAreOk(fromTo) /\ EndWith("validated")
       \/ /\ Has("cpkByName") \/ Has("cpkByValue")
          /\ ~{"cpkByName", "cpkByValue"} \subseteq asked.flags
          /\ Has("unparsableDestination") /\ To(fromTo) = "Local"
          /\ Panic

(* process: backup mode needs a privilege that the system may refuse; the  *)
(* two redirections are done by the client library at once.                *)
ProcessCommand ==
    /\ stage = "validated"
    /\ LET unsupported == asked.os = "windows" /\ Has("backup") /\ ~IsUpload(fromTo) /\ ~IsDownload(fromTo)
       IN \/ unsupported /\ Panic
          \/ ~unsupported /\ Reject
          \/ /\ ~unsupported
             /\ EndWith(IF fromTo \in {<<"Blob", "Pipe">>, <<"Pipe", "Blob">>}
                        THEN "redirecting" ELSE "authenticating")

-----------------------------------------------------------------------------
AzureOAuth == {"OAuthToken", "MDOAuthToken"}
Implicit == AzureOAuth \cup {"SharedKey"}   \* taken from the machine, not from the URL
Azure == BlobLike \cup FileServices

(* doGetCredentialTypeForLocation.  A managed disk may ask for a token.    *)
CredentialFor(loc, end, isSource) ==
    IF loc \in {"Local", "Benchmark", "None", "Pipe"} THEN "Anonymous"
    ELSE IF loc = "S3" THEN "S3AccessKey"
    ELSE IF loc = "GCP" THEN "GoogleAppCredentials"
    ELSE IF asked.forced # "Unknown" THEN asked.forced
    ELSE IF loc = "Blob" /\ isSource /\ ~end.sas /\ end.isPublic THEN "Anonymous"
    ELSE IF loc = "Blob" /\ end.host = "managedDisk" THEN "MDOAuthToken"
    ELSE IF end.sas THEN "Anonymous"
    ELSE IF asked.token THEN "OAuthToken"
    ELSE IF loc = "BlobFS" /\ asked.accountKey THEN "SharedKey"
    ELSE "Unknown"

(* checkAuthSafeForTarget, and whether there is the token that is needed.  *)
MutIsSafe(type, loc, end) ==   \* whatever the host
    \/ loc \notin Remote \cup {"Unknown"} \/ type \in {"Unknown", "Anonymous"}
    \/ type \in Implicit /\ loc \in Azure
    \/ <<type, loc>> \in {<<"S3AccessKey", "S3">>, <<"GoogleAppCredentials", "GCP">>}
IsSafe(type, loc, end) ==
    \/ loc \notin Remote \cup {"Unknown"} \/ type \in {"Unknown", "Anonymous"}
    \/ type \in Implicit /\ loc \in Azure /\ end.host # "other"
    \/ <<type, loc>> \in {<<"S3AccessKey", "S3">>, <<"GoogleAppCredentials", "GCP">>}
HasIt(type) == type \in AzureOAuth => asked.token

(* What getCredentialType authenticates to: the destination; else the      *)
(* source, which a deletion never takes for a public one.                  *)
AuthenticatesTo(d) ==
    IF To(d) \in Remote THEN [loc |-> To(d), end |-> asked.dst, isSource |-> FALSE]
    ELSE IF From(d) \in Remote
    THEN [loc |-> From(d), end |-> asked.src, isSource |-> To(d) # "Unknown"]
    ELSE [loc |-> "None", end |-> asked.src, isSource |-> FALSE]

(* Authentication to one end with a type that the check does not know      *)
(* panics, one that it finds unsafe is refused.                            *)
AuthenticateTo(loc, end, type, done) ==
    \/ Reject
    \/ type = "S3PublicBucket" /\ Panic
    \/ IsSafe(type, loc, end) /\ HasIt(type) /\ done

Authenticate ==
    /\ stage = "authenticating"
    /\ LET to == AuthenticatesTo(fromTo)
           type == CredentialFor(to.loc, to.end, to.isSource)
       IN AuthenticateTo(to.loc, to.end, type,
                         /\ credential' = type /\ stage' = "authenticated"
                         /\ UNCHANGED <<asked, ccOptions, ccLanding, srcCredential, fpo>>)

(* processRedirectionUpload and processRedirectionDownload. *)
Redirect ==
    /\ stage = "redirecting"
    /\ LET isSource == From(fromTo) = "Blob"
           end == IF isSource THEN asked.src ELSE asked.dst
           type == CredentialFor("Blob", end, isSource)
       IN AuthenticateTo("Blob", end, type,
                         /\ credential' = type /\ stage' = "redirected"
                         /\ UNCHANGED <<asked, ccOptions, ccLanding, srcCredential, fpo>>)

(* getSrcCredential: a copy between services needs a source that the       *)
(* service of the destination can read by itself.                          *)
CanForwardOAuthTokens(loc) == loc \in Azure
ServiceCanRead(d, type) ==
    IsS2S(d) =>
        /\ type = "OAuthToken" => CanForwardOAuthTokens(To(d))
        /\ type = "Anonymous" =>
              asked.src.sas \/ (From(d) = "Blob" /\ asked.forced = "Unknown" /\ asked.src.isPublic)
        /\ "SharedKey" \notin {type, credential}
AuthenticateSource ==
    /\ stage = "authenticated"
    /\ LET loc == From(fromTo)
           type == CredentialFor(loc, asked.src, TRUE)
       IN IF loc = "Pipe" THEN Panic
          ELSE AuthenticateTo(loc, asked.src, type,
                 /\ ServiceCanRead(fromTo, type)
                 /\ srcCredential' = type /\ stage' = "enumerating"
                 /\ UNCHANGED <<asked, ccOptions, ccLanding, credential, fpo>>)

-----------------------------------------------------------------------------
(* DetermineLocationLevel. *)
HasList == {"listOfFiles", "includePath"} \cap asked.flags # {}
SrcLevel(d) ==
    CASE From(d) = "Local" -> IF Has("glob") \/ asked.src.isDir THEN "container" ELSE "object"
      [] From(d) \in {"Benchmark", "Http"} -> "object"
      [] OTHER -> asked.src.level
DstLevel(d) ==
    IF To(d) = "Local" /\ asked.dst.level # "object" THEN "container" ELSE asked.dst.level

(* IsDirectory of the traverser that InitResourceTraverser chooses. *)
IsSourceDir(d) ==
    /\ ~HasList /\ ~Has("glob") /\ From(d) # "Http"
    /\ \/ From(d) = "Benchmark"
       \/ asked.src.isDir
       \/ From(d) # "Local" /\ asked.src.level # "object"

HasTraverser(d) ==
    /\ From(d) \notin {"Pipe", "Unknown"}
    /\ From(d) \in Remote /\ SrcLevel(d) = "service" => HasList \/ Has("recursive")
    /\ ~(HasList /\ Has("glob"))

(* What initEnumerator refuses, and for the properties of files            *)
(* setPropertiesEnumerator.                                                *)
CanCopy(d) ==
    /\ To(d) # "Pipe"
    /\ IsSourceDir(d) => Has("recursive") \/ stripTopDir
    /\ ~(HasList /\ SrcLevel(d) = "service")
    /\ DstLevel(d) = "service" =>
         /\ SrcLevel(d) # "object" /\ From(d) \in Remote
         /\ SrcLevel(d) = "container" => asSubdir
CanEnumerate(d) ==
    /\ HasTraverser(d)
    /\ IsUpload(d) \/ IsDownload(d) \/ IsS2S(d) => CanCopy(d)
    /\ d = <<"File", "None">> => ~(srcCredential = "Anonymous" /\ ~asked.src.sas)

(* A container copied onto a container does not become a folder in it; but *)
(* it must not lose its root, if that has permissions to be kept.          *)
IsContainerToContainer(d) == IsS2S(d) /\ {SrcLevel(d), DstLevel(d)} = {"container"}
MutKeepsTheRoot(d) == FALSE
KeepsTheRoot(d) == IsContainerToContainer(d) /\ preserved.permissions

(* NewFolderPropertyOption. *)
OnlyFiles == {"patterns", "fileAttributes"} \cap asked.flags # {}
FolderPropertyOption(d, strips) ==
    LET copies == To(d) \notin {"None", "Unknown"}
        takesFolders ==
            \/ /\ \/ {From(d), To(d)} \subseteq FolderAware \/ stubs
                  \/ copies /\ (preserved.posix \/ preserved.permissions)
               /\ ~ToNull
            \/ d = <<"File", "Unknown">>
    IN IF d = <<"BlobFS", "Unknown">> THEN "AllFolders"
       ELSE IF ~takesFolders \/ ~Has("recursive") \/ OnlyFiles THEN "NoFolders"
       ELSE IF strips THEN "AllFoldersExceptRoot" ELSE "AllFolders"

(* initEnumerator or its kin.  The source of benchmarks knows no filters.  *)
Enumerate ==
    /\ stage = "enumerating"
    /\ LET d == fromTo
           panics == From(d) = "Benchmark" /\ Has("patterns")
           merges == IsContainerToContainer(d) /\ ~KeepsTheRoot(d)
       IN \/ Reject
          \/ CanEnumerate(d) /\ panics /\ Panic
          \/ /\ CanEnumerate(d) /\ ~panics
             /\ asSubdir' = (asSubdir /\ ~KeepsTheRoot(d))
             /\ stripTopDir' = (stripTopDir \/ merges)
             /\ fpo' = FolderPropertyOption(d, stripTopDir')
             /\ stage' = "scheduling"
             /\ UNCHANGED <<asked, ccOptions, credential, srcCredential>>

(* The objects that a scan hands to the processor, by their container,     *)
(* their path below the root, and whether they are folders.                *)
Scanned(d) ==
    LET Object(c, path, isFolder) == [container |-> c, path |-> path, isFolder |-> isFolder]
        Tree(c) == {Object(c, <<>>, TRUE), Object(c, <<"d">>, TRUE),
                    Object(c, <<"f">>, FALSE), Object(c, <<"d", "f">>, FALSE)}
    IN IF SrcLevel(d) = "service" THEN Tree("c1") \cup Tree("c2")
       ELSE IF SrcLevel(d) = "object" /\ ~IsSourceDir(d) /\ ~HasList
       THEN {Object("c1", <<>>, FALSE)}
       ELSE {o \in Tree("c1") : o.path # <<>> \/ ~(HasList \/ Has("glob"))}

(* isCompatibleWithEntitySettings. *)
IsSent(o) ==
    o.isFolder => fpo = "AllFolders" \/ (fpo = "AllFoldersExceptRoot" /\ o.path # <<>>)

(* The container that the path at the destination begins with, if any.     *)
MutKeepsContainer(d) == From(d) \in Remote /\ DstLevel(d) = "service"   \* as for single containers
KeepsContainer(d) == From(d) \in Remote /\ (SrcLevel(d) = "service" \/ DstLevel(d) = "service")

(* MakeEscapedRelativePath, for the destination.                           *)
DstRelPath(d, o) ==
    IF ToNull THEN <<>>
    ELSE IF o.path = <<>> /\ ~o.isFolder THEN IF asked.dst.isDir THEN <<"name">> ELSE <<>>
    ELSE (IF KeepsContainer(d) THEN <<o.container>>
          ELSE IF ~stripTopDir /\ asSubdir THEN <<"root">> ELSE <<>>) \o o.path

(* computeJobXfer: there is code for the direction. *)
HasXfer(d) ==
    \/ d \in {"Blob", "File", "BlobFS"} \X {"Unknown", "None"}
    \/ IsDownload(d) /\ From(d) \in Azure \cup {"Http"}
    \/ ~IsDownload(d) /\ To(d) \in Azure /\ From(d) \in Azure \cup {"Local", "Benchmark", "S3", "GCP"}

(* The engine takes up one of the objects: where only the POSIX properties *)
(* are wanted, hard links are neither folders nor files.                   *)
Transfer(entity) ==
    /\ stage = "scheduling"
    /\ entity = "Hardlink" => IsNFS(fromTo)
    /\ IF \/ ~HasXfer(fromTo)
          \/ entity = "Hardlink" /\ Has("posixOverwrite") /\ To(fromTo) \in Remote
       THEN Panic ELSE EndWith("started")

CCNext ==
    \/ ToOptions \/ Validate \/ ProcessCommand \/ Redirect
    \/ Authenticate \/ AuthenticateSource \/ Enumerate
    \/ \E entity \in {"File", "Folder", "Hardlink"} : Transfer(entity)

CCSpec == CCInit /\ [][CCNext]_ccVars

-----------------------------------------------------------------------------
EndsOf(d) == {From(d), To(d)}
Scheduled == stage \in {"scheduling", "started"}

(* What one stage lets through, a later one can do: the command panics for *)
(* nothing but what no stage looks at, which is piping to Azure Files, a   *)
(* forced type of credential that is for S3, a source or an encrypted copy *)
(* to a path that are no URLs, filters on a benchmark, and only the POSIX  *)
(* properties of hard links.                                               *)
OnlyKnownPanics ==
    stage = "panicked" =>
        \/ asked.fromTo = <<"Pipe", "File">>
        \/ asked.forced = "S3PublicBucket"
        \/ Has("unparsableSource") /\ asked.explicit
        \/ Has("unparsableDestination") /\ (Has("cpkByName") \/ Has("cpkByValue"))
        \/ Has("patterns") /\ From(asked.fromTo) = "Benchmark"
        \/ Has("posixOverwrite") /\ IsNFS(asked.fromTo)

(* Nothing is preserved between two ends of which one does not know it:    *)
(* the fields of SMB and of NFS exist on the one kind of share and on some *)
(* systems, the permissions of a hierarchical namespace and POSIX          *)
(* properties on blobs; only the times cross between the two protocols.    *)
PreservedWhereBothCan ==
    LET d == fromTo
        On(systems) == IF asked.os \in systems THEN {"Local"} ELSE {}
        smb == {"File"} \cup On({"windows", "linux"})
        nfs == {"FileNFS"} \cup On({"linux"})
    IN stage \notin {"raw", "options", "rejected", "panicked"} =>
         /\ preserved.info =>
              \E kind \in {smb, nfs, FileServices} : EndsOf(d) \subseteq kind
         /\ preserved.permissions =>
              \E kind \in {smb, nfs, BlobLike} : EndsOf(d) \subseteq kind
         /\ preserved.posix => EndsOf(d) \subseteq BlobLike \cup On({"linux"})

(* A login of this machine is used for no host but Azure's, whatever the   *)
(* order in which tokens, keys, SAS and forced types are looked for.       *)
LoginsAreForTrustedHosts ==
    /\ credential \in Implicit =>
         (IF To(fromTo) \in Remote THEN asked.dst ELSE asked.src).host # "other"
    /\ srcCredential \in Implicit => asked.src.host # "other"

(* No two objects of a scan land at one path, where the second would       *)
(* overwrite the first, except all of them at the null device.             *)
DestinationsAreDistinct ==
    Scheduled /\ To(fromTo) \notin {"None", "Unknown"} /\ ~ToNull =>
        \A o, p \in {x \in Scanned(fromTo) : IsSent(x)} :
            DstRelPath(fromTo, o) = DstRelPath(fromTo, p) => o = p

(* A container copied onto a container has what is in it land directly in  *)
(* the other, whether or not the root is kept for its permissions; and the *)
(* root is sent whenever permissions are preserved and folders are taken.  *)
ContainersLandOnEachOther ==
    Scheduled /\ IsContainerToContainer(fromTo) =>
        /\ \A o \in Scanned(fromTo) : IsSent(o) => DstRelPath(fromTo, o) = o.path
        /\ /\ preserved.permissions /\ Has("recursive") /\ ~HasList /\ ~Has("wildcard") /\ ~OnlyFiles
           => fpo = "AllFolders"

CopyInv ==
    /\ OnlyKnownPanics
    /\ PreservedWhereBothCan
    /\ LoginsAreForTrustedHosts
    /\ DestinationsAreDistinct
    /\ ContainersLandOnEachOther
=============================================================================
