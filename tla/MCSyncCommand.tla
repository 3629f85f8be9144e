---------------------------- MODULE MCSyncCommand ----------------------------
(* The command lines SyncCommand is checked for. *)
EXTENDS SyncCommand

SyncEnd == [sas |-> TRUE, host |-> "azure", isPublic |-> FALSE, level |-> "object", isDir |-> FALSE,
            found |-> "dir", protocol |-> "hidden"]
PlainSync == [fromTo |-> <<"Local", "Blob">>, explicit |-> TRUE, flags |-> {"recursive"}, os |-> "linux",
              forced |-> "Unknown", token |-> FALSE, accountKey |-> FALSE, dots |-> "Enable",
              src |-> SyncEnd, dst |-> SyncEnd]

SyncFlag == {"forceIfReadOnly", "preserveLinks", "followLinks", "patterns", "keepBlobTags",
             "preserveInfo", "noPreserveInfo", "permissions", "posix", "preserveSMBInfo",
             "preserveSMBPermissions", "md5Option", "stubs", "includeRoot", "legacyFilters",
             "unparsableSource", "unparsableDestination", "systemContainer"}
SyncFlagSets ==
    {{f} : f \in SyncFlag} \cup
    {{}, {"preserveInfo", "permissions"}, {"cpkByName", "cpkByValue"}, {"prompt", "quiet"},
     {"preserveLinks", "followLinks"}, {"permissions", "includeRoot"}, {"posix", "stubs"},
     {"permissions", "patterns"}}

SyncFlagCases ==
    {[PlainSync EXCEPT !.fromTo = d, !.flags = @ \cup f, !.os = os] :
        d \in SyncDirections, f \in SyncFlagSets, os \in {"linux", "windows", "darwin"}}
    \cup {[PlainSync EXCEPT !.fromTo = d] : d \in EnumFromTo}

(* Every option for trailing dots, every protocol, whatever is found. *)
SyncPlaceCases ==
    {[PlainSync EXCEPT !.fromTo = d, !.os = os, !.dots = dots, !.flags = f,
                       !.src = [@ EXCEPT !.found = x[1], !.protocol = x[2]],
                       !.dst = [@ EXCEPT !.found = y[1], !.protocol = y[2]]] :
        d \in SyncDirections, os \in {"linux", "windows"}, f \in {{}, {"recursive"}},
        dots \in {"Enable", "Disable", "AllowToUnsafeDestination"},
        x \in {<<"dir", "hidden">>, <<"file", "hidden">>, <<"dir", "File">>},
        y \in {<<"dir", "hidden">>, <<"file", "File">>, <<"nothing", "FileNFS">>,
               <<"noContainer", "hidden">>}}

SyncLoginCases ==
    {[PlainSync EXCEPT !.fromTo = d, !.forced = forced, !.token = login[1], !.accountKey = login[2],
                       !.src = [@ EXCEPT !.sas = s[1], !.host = s[2], !.isPublic = s[3]],
                       !.dst = [@ EXCEPT !.sas = t[1], !.host = t[2]]] :
        d \in {<<"Local", "Blob">>, <<"BlobFS", "Local">>, <<"Blob", "Blob">>, <<"File", "BlobFS">>,
               <<"BlobFS", "BlobFS">>},
        forced \in {"Unknown", "OAuthToken", "S3PublicBucket"},
        login \in {<<FALSE, FALSE>>, <<TRUE, FALSE>>, <<FALSE, TRUE>>},
        s \in BOOLEAN \X {"azure", "managedDisk", "other"} \X BOOLEAN,
        t \in BOOLEAN \X {"azure", "other"}}

SyncOptionCases == SyncFlagCases \cup SyncLoginCases

SyncsAsked == SyncOptionCases \cup SyncPlaceCases
=============================================================================
