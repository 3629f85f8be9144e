---------------------------- MODULE MCCopyCommand ----------------------------
(* The command lines CopyCommand is checked for. *)
EXTENDS CopyCommand

(* A command that has nothing special, to change one thing at a time.      *)
PlainEnd == [sas |-> TRUE, host |-> "azure", isPublic |-> FALSE, level |-> "object", isDir |-> TRUE]
PlainCopy == [fromTo |-> <<"Local", "Blob">>, explicit |-> TRUE, flags |-> {"recursive"}, os |-> "linux",
              forced |-> "Unknown", token |-> FALSE, accountKey |-> FALSE,
              src |-> PlainEnd, dst |-> PlainEnd]

(* Every flag by itself and those that meet, in every direction and on     *)
(* every system.                                                           *)
OneFlag == {"forceIfReadOnly", "preserveLinks", "followLinks", "decompress", "patterns", "blobTags",
            "keepBlobTags", "noPreserveOwner", "backup", "preserveInfo", "noPreserveInfo",
            "permissions", "posix", "preserveSMBInfo", "preserveSMBPermissions",
            "lastModified", "tier", "headers", "md5Option", "posixOverwrite", "stubs", "glob"}
FlagSets == {{f} : f \in OneFlag} \cup
    {{}, {"permissions", "posix"}, {"preserveInfo", "permissions"}, {"permissions", "backup"},
     {"cpkByName", "cpkByValue"}, {"cpkByValue", "unparsableDestination"}, {"unparsableSource"},
     {"blobTags", "keepBlobTags"}, {"prompt", "quiet"}, {"listOfFiles", "includePath"}}
FlagCases ==
    {[PlainCopy EXCEPT !.fromTo = d, !.flags = @ \cup f, !.os = os] :
        d \in EnumFromTo, f \in FlagSets, os \in {"linux", "windows", "darwin"}}
    \cup {[PlainCopy EXCEPT !.fromTo = d, !.explicit = FALSE] : d \in Location \X Location}

(* Every way to authenticate, with hosts of Azure's and others. *)
LoginCases ==
    {[PlainCopy EXCEPT !.fromTo = d, !.forced = forced, !.token = login[1], !.accountKey = login[2],
                       !.src = [@ EXCEPT !.sas = s[1][1], !.isPublic = s[1][2], !.host = s[2]],
                       !.dst = [@ EXCEPT !.sas = t[1], !.host = t[2]]] :
        d \in {<<"Local", "Blob">>, <<"BlobFS", "Local">>, <<"Blob", "Blob">>, <<"File", "BlobFS">>,
               <<"S3", "Blob">>, <<"Http", "Local">>, <<"Blob", "Unknown">>, <<"File", "None">>,
               <<"Blob", "Pipe">>, <<"Pipe", "Blob">>, <<"Pipe", "File">>},
        forced \in {"Unknown", "OAuthToken", "S3PublicBucket"},
        login \in {<<FALSE, FALSE>>, <<TRUE, FALSE>>, <<FALSE, TRUE>>},
        s \in {<<TRUE, FALSE>>, <<FALSE, FALSE>>, <<FALSE, TRUE>>} \X {"azure", "managedDisk", "other"},
        t \in BOOLEAN \X {"azure", "other"}}

(* Services, containers, folders and files at both ends, and every option  *)
(* about which of them are meant.                                          *)
PlaceCases ==
    {[PlainCopy EXCEPT !.fromTo = d, !.flags = f \cup g,
                       !.src = [@ EXCEPT !.level = s[1], !.isDir = s[2]],
                       !.dst = [@ EXCEPT !.level = t[1], !.isDir = t[2]]] :
        d \in {<<"Local", "Blob">>, <<"Blob", "Local">>, <<"Blob", "Blob">>, <<"File", "File">>,
               <<"BlobFS", "BlobFS">>, <<"S3", "Blob">>},
        f \in SUBSET {"recursive", "wildcard", "noSubdir", "permissions"},
        g \in {{}, {"glob"}, {"listOfFiles"}, {"patterns"}, {"toNull"}},
        s \in {<<"service", TRUE>>, <<"container", TRUE>>, <<"object", TRUE>>, <<"object", FALSE>>},
        t \in {<<"service", TRUE>>, <<"container", TRUE>>, <<"object", TRUE>>, <<"object", FALSE>>}}

OptionCases == FlagCases \cup LoginCases

CommandsAsked == OptionCases \cup PlaceCases
=============================================================================
