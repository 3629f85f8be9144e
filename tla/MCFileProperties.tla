-------------------------- MODULE MCFileProperties --------------------------
(***************************************************************************)
(* A small instance of FileProperties: two shares with a few permissions,  *)
(* a disk with a few descriptors, mostly one transfer at a time, and two   *)
(* where they meet in the cache.                                           *)
(***************************************************************************)
EXTENDS FileProperties

Named(names) == [hex |-> FALSE, rights |-> names]
Hex(rights) == [hex |-> TRUE, rights |-> rights]
ShortName(x) == [form |-> "short", sid |-> x]
OfDomain(x) == [form |-> "domain", sid |-> x]
Entry(rights, sid) == [type |-> "A", flags |-> {}, rights |-> rights, sid |-> sid, extra |-> FALSE]

OwnerAndGroup == <<[tag |-> "O", sid |-> ShortName("ann")], [tag |-> "G", sid |-> Numeric("staff")]>>
Dacl(flags, entries) == <<[tag |-> "D", acl |-> Acl(flags, entries)]>>
Sacl(entries) == <<[tag |-> "S", acl |-> Acl({}, entries)]>>

AnnReads == Entry(Named({"FR"}), ShortName("ann"))
BobWrites == [Entry(Hex({"CC", "SYNCHRONIZE"}), Numeric("bob")) EXCEPT !.flags = {"CI", "TP"}]

(* Entries and flags of several kinds, a long list, lists that are empty   *)
(* in each way, and what cannot be read back.                              *)
TextsOfA ==
    << OwnerAndGroup \o Dacl({"AI"}, <<AnnReads>>),
       OwnerAndGroup \o Dacl({"P"}, <<AnnReads, BobWrites>>),
       OwnerAndGroup \o Dacl({}, <<BobWrites>>),
       OwnerAndGroup \o Dacl({"P"}, <<>>),
       OwnerAndGroup \o Dacl({}, <<>>),
       OwnerAndGroup,
       <<[tag |-> "D", acl |-> [NoAcl EXCEPT !.noAccessControl = TRUE, !.flags = {"P"}]]>>,
       OwnerAndGroup \o Dacl({}, <<AnnReads>>) \o Sacl(<<BobWrites>>),
       OwnerAndGroup \o Dacl({}, <<Entry(Named({"RC"}), OfDomain("admins"))>>),
       OwnerAndGroup \o Dacl({"AI"}, <<[AnnReads EXCEPT !.extra = TRUE]>>),
       OwnerAndGroup \o Dacl({}, <<BobWrites, AnnReads>>) >>

(* The same keys mean something else in B, which knows one long text. *)
MCSharePermissions ==
    [s \in {"A", "B", "C", "D"} |->
        CASE s = "A" -> TextsOfA
          [] s = "B" -> <<TextsOfA[4], TextsOfA[1], TextsOfA[2]>>
          [] s = "C" -> <<TextsOfA[3], TextsOfA[2]>>
          [] s = "D" -> <<TextsOfA[1], TextsOfA[1], TextsOfA[1], TextsOfA[1]>>]

AnnMay(rights) == [type |-> "A", flags |-> {"CI"}, rights |-> rights, sid |-> "ann"]
Descriptor(flags, entries) ==
    [owner |-> "ann", group |-> "staff", present |-> TRUE, flags |-> flags,
     dacl |-> [given |-> TRUE, aces |-> entries]]

Descriptors ==
    LET plain == Descriptor({"AI"}, <<AnnMay({"RC", "CC"})>>)
    IN { plain,
         Descriptor({"P"}, <<AnnMay({"RC", "SYNCHRONIZE"}), AnnMay({"GA"})>>),
         Descriptor({}, <<>>),
         [plain EXCEPT !.dacl = NoDacl],
         [plain EXCEPT !.owner = "nobody"],
         Descriptor({}, <<[AnnMay({"RC"}) EXCEPT !.type = "resource"]>>) }

PlainSource == [absent |-> FALSE, folder |-> FALSE, from |-> "A", to |-> "B", key |-> 1, sd |-> OfADisk,
                attributes |-> {"A", "R"}, owner |-> "ann", mode |-> {"r", "w", "s"}]
NoSource == [PlainSource EXCEPT !.absent = TRUE]
Alone(source) == [t \in FpTransfers |-> IF t = "x" THEN source ELSE NoSource]
Both(source) == [t \in FpTransfers |-> source]
OfTwoShares(source) == [Both(source) EXCEPT !["y"] = [source EXCEPT !.from = "C", !.to = "D"]]

PlainJob == [route |-> "upload", fromNFS |-> FALSE, toNFS |-> FALSE, permissions |-> "acls",
             info |-> TRUE, backend |-> FALSE, force |-> FALSE,
             readOnlyThere |-> FALSE, atRoot |-> FALSE, source |-> Alone(PlainSource)]

Uploads ==
    {[PlainJob EXCEPT !.permissions = p, !.info = i,
                      !.source = Alone([PlainSource EXCEPT !.sd = sd, !.folder = folder])] :
        p \in {"none", "acls"}, i \in BOOLEAN, sd \in Descriptors, folder \in BOOLEAN}
ToReadOnly ==
    {[PlainJob EXCEPT !.readOnlyThere = TRUE, !.force = force] : force \in BOOLEAN}
CopiesOfJob ==
    {[PlainJob EXCEPT !.route = "copy", !.permissions = p, !.backend = b,
                      !.source = Alone([PlainSource EXCEPT !.key = k, !.folder = folder, !.to = s])] :
        p \in {"none", "acls"}, b \in BOOLEAN, s \in {"A", "B"}, k \in 0 .. Len(TextsOfA),
        folder \in BOOLEAN}
Downloads ==
    {[PlainJob EXCEPT !.route = "download", !.permissions = p, !.atRoot = r,
                      !.source = Alone([PlainSource EXCEPT !.key = k, !.folder = folder])] :
        p \in {"none", "acls", "ownership"}, r \in BOOLEAN, k \in 0 .. Len(TextsOfA),
        folder \in BOOLEAN}
WithNFS ==
    {[PlainJob EXCEPT !.route = r, !.fromNFS = TRUE, !.toNFS = TRUE, !.permissions = p, !.info = i,
                      !.source = Alone([PlainSource EXCEPT !.folder = folder])] :
        r \in {"upload", "copy", "download"}, p \in {"none", "acls"}, i \in BOOLEAN,
        folder \in BOOLEAN}
    \cup {[PlainJob EXCEPT !.route = "copy", !.toNFS = TRUE, !.permissions = "none", !.info = i,
                           !.source = Alone([PlainSource EXCEPT !.folder = folder])] :
            i \in BOOLEAN, folder \in BOOLEAN}
    \cup {[PlainJob EXCEPT !.route = "copy", !.fromNFS = TRUE, !.permissions = "none", !.info = i] :
            i \in BOOLEAN}
Together ==
    {[PlainJob EXCEPT !.info = FALSE, !.source = Both([PlainSource EXCEPT !.sd = sd])] :
        sd \in {d \in Descriptors : Len(d.dacl.aces) = 2}}
    \cup {[PlainJob EXCEPT !.route = r, !.info = FALSE, !.source = s] :
            r \in {"copy", "download"},
            s \in {Both(PlainSource), Both([PlainSource EXCEPT !.key = 2]),
                   OfTwoShares([PlainSource EXCEPT !.key = 2])}}

MCFpJobs == Uploads \cup ToReadOnly \cup CopiesOfJob \cup Downloads \cup WithNFS \cup Together
=============================================================================
