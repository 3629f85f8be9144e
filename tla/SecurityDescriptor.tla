------------------------- MODULE SecurityDescriptor -------------------------
(***************************************************************************)
(* src/sddl: the two forms of who may do what with a file.  The binary     *)
(* form is what the cifs client reads and writes, the text (SDDL) is what  *)
(* Azure Files keeps.  A text is a sequence of sections, in the order they *)
(* are written: O and G name a security identifier (SID), D and S an       *)
(* access control list with flags.  A conversion ends in "ok", "error" or  *)
(* "panic".                                                                *)
(***************************************************************************)
EXTENDS Naturals, Sequences, FiniteSetsExt

(* The SID of a section, or an entry, that is not there. *)
NoSid == [form |-> "none", sid |-> "nobody"]
Numeric(x) == [form |-> "numeric", sid |-> x]

NoAcl == [flags |-> {}, noAccessControl |-> FALSE, aces |-> <<>>]
Acl(flags, aces) == [flags |-> flags, noAccessControl |-> FALSE, aces |-> aces]

(* An offset of the list that is 0 means everybody is allowed; a list that *)
(* is there and has no entry means that nobody is.                         *)
NoDacl == [given |-> FALSE, aces |-> <<>>]

(* A binary descriptor, and a text with no more than one section of each   *)
(* kind.  The two names of a flag are told apart in texts only.            *)
IsBinary(sd) ==
    /\ sd.dacl = [given |-> sd.dacl.given, aces |-> sd.dacl.aces]
    /\ sd.dacl.given \in BOOLEAN
    /\ ~sd.dacl.given => sd.dacl.aces = <<>>
    /\ sd.dacl.aces = [i \in DOMAIN sd.dacl.aces |->
                         [type |-> sd.dacl.aces[i].type, flags |-> sd.dacl.aces[i].flags,
                          rights |-> sd.dacl.aces[i].rights, sid |-> sd.dacl.aces[i].sid]]
    /\ \A i \in DOMAIN sd.dacl.aces : "TP" \notin sd.dacl.aces[i].flags

IsText(text) ==
    /\ text \in Seq({text[i] : i \in DOMAIN text})
    /\ \A i \in DOMAIN text :
          LET section == text[i]
          IN \/ /\ section.tag \in {"O", "G"}
                /\ section.sid = [form |-> section.sid.form, sid |-> section.sid.sid]
             \/ /\ section.tag \in {"D", "S"}
                /\ section.acl = [flags |-> section.acl.flags,
                                  noAccessControl |-> section.acl.noAccessControl,
                                  aces |-> section.acl.aces]
    /\ \A i, j \in DOMAIN text : text[i].tag = text[j].tag => i = j

FirstFailure(kinds) ==
    IF \E i \in DOMAIN kinds : kinds[i] # "ok"
    THEN kinds[Min({i \in DOMAIN kinds : kinds[i] # "ok"})] ELSE "ok"

-----------------------------------------------------------------------------
(* Rights are a set of bits, of which all but SYNCHRONIZE have a name of   *)
(* their own; FR names three.                                              *)
NamedRights == {"GA", "RC", "CC"}
RightsOfName == [r \in NamedRights \cup {"FR"} |->
                   IF r = "FR" THEN {"RC", "CC", "SYNCHRONIZE"} ELSE {r}]

MutAceRightsToString(rights) ==  \* also when only some of the bits have a name
    IF rights \cap NamedRights # {}
    THEN [hex |-> FALSE, rights |-> rights \cap NamedRights]
    ELSE [hex |-> TRUE, rights |-> rights]

AceRightsToString(rights) ==
    IF rights \subseteq NamedRights THEN [hex |-> FALSE, rights |-> rights]
    ELSE [hex |-> TRUE, rights |-> rights]

AceRightsToAccessMask(text) ==
    IF text.hex THEN text.rights ELSE UNION {RightsOfName[r] : r \in text.rights}

AceFlags == {"CI", "OI", "ID", "SA", "TP"}
AceFlagToByte(f) == IF f = "TP" THEN "SA" ELSE f   \* one bit has two names

AclFlags == {"P", "AR", "AI"}

(* Of a binary entry: the types of the seventeen that are supported. *)
IsUnsupportedAceType(type) == type \notin {"A", "D"}

(* A domain-relative name is known, but only below a domain's SID. *)
StringToSid(s) ==
    CASE s.form \in {"numeric", "short"} -> "ok"
      [] s.form = "domain" -> "panic"
      [] OTHER -> "error"

AceToString(ace) ==
    [type |-> ace.type, flags |-> ace.flags, rights |-> AceRightsToString(ace.rights),
     sid |-> Numeric(ace.sid), extra |-> FALSE]

AclEntryToSlice(entry) ==
    [type |-> entry.type, flags |-> {AceFlagToByte(f) : f \in entry.flags},
     rights |-> AceRightsToAccessMask(entry.rights), sid |-> entry.sid.sid]

(* extra: an object's guid or a condition is given. *)
AclEntryKind(entry) ==
    IF \/ entry.type = "unknown" \/ entry.extra
       \/ ~entry.flags \subseteq AceFlags
       \/ ~entry.rights.hex /\ ~entry.rights.rights \subseteq DOMAIN RightsOfName
    THEN "error" ELSE StringToSid(entry.sid)

-----------------------------------------------------------------------------
(* From the binary form to a text. *)
SdRelativeIsValid(sd, withOwner) ==
    /\ sd.present
    /\ withOwner => sd.owner # "nobody" /\ sd.group # "nobody"

GetDaclString(sd) ==
    [NoAcl EXCEPT !.flags = sd.flags, !.noAccessControl = ~sd.dacl.given,
                  !.aces = [i \in DOMAIN sd.dacl.aces |-> AceToString(sd.dacl.aces[i])]]

SecurityDescriptorToStringKind(sd) ==
    IF \/ ~SdRelativeIsValid(sd, TRUE)
       \/ \E i \in DOMAIN sd.dacl.aces : IsUnsupportedAceType(sd.dacl.aces[i].type)
    THEN "error" ELSE "ok"

SecurityDescriptorToString(sd) ==
    << [tag |-> "O", sid |-> Numeric(sd.owner)],
       [tag |-> "G", sid |-> Numeric(sd.group)],
       [tag |-> "D", acl |-> GetDaclString(sd)] >>

-----------------------------------------------------------------------------
(* Parsing.  A section is closed by the colon of the next one, or by the   *)
(* last character.  When that last character is a colon, the section       *)
(* before it takes the whole rest of the text, D: included, unless it has  *)
(* ended with an entry.  What has been parsed is then put together again   *)
(* and compared with the text: a list without flags and entries has        *)
(* vanished, unless it is in what the section before it took.              *)
IsAcl(section) == section.tag \in {"D", "S"}
IsBare(section) == IsAcl(section) /\ section.acl = NoAcl

TakesTheRest(text, i) ==
    /\ i + 1 = Len(text) /\ IsBare(text[i + 1])
    /\ IsAcl(text[i]) => text[i].acl.aces = <<>>

SanityCheckSDDLParse(text) ==
    \A i \in DOMAIN text : IsBare(text[i]) => i > 1 /\ TakesTheRest(text, i - 1)

SidOf(text, tag) ==
    IF \E i \in DOMAIN text : text[i].tag = tag
    THEN LET i == CHOOSE j \in DOMAIN text : text[j].tag = tag
         IN IF TakesTheRest(text, i) THEN [text[i].sid EXCEPT !.form = "unknown"] ELSE text[i].sid
    ELSE NoSid

AclOf(text, tag) ==
    IF \E i \in DOMAIN text : text[i].tag = tag
    THEN LET i == CHOOSE j \in DOMAIN text : text[j].tag = tag
         IN IF TakesTheRest(text, i) THEN [text[i].acl EXCEPT !.flags = @ \cup {"colon"}] ELSE text[i].acl
    ELSE NoAcl

ParseSDDL(text) ==
    [owner |-> SidOf(text, "O"), group |-> SidOf(text, "G"),
     dacl |-> AclOf(text, "D"), sacl |-> AclOf(text, "S")]

(* SIDs are written out; those that cannot be are left as they are. *)
PortableSid(s) == IF s.form = "short" THEN [s EXCEPT !.form = "numeric"] ELSE s
PortableAcl(acl) ==
    LET aces == acl.aces
    IN [acl EXCEPT !.aces = [i \in DOMAIN aces |-> [aces[i] EXCEPT !.sid = PortableSid(@)]]]
PortableString(text) ==
    [i \in DOMAIN text |-> IF IsAcl(text[i]) THEN [text[i] EXCEPT !.acl = PortableAcl(@)]
                           ELSE [text[i] EXCEPT !.sid = PortableSid(@)]]

-----------------------------------------------------------------------------
(* From a text to the binary form. *)
AclKind(acl, forSacl) ==
    LET entries == [i \in DOMAIN acl.aces |-> AclEntryKind(acl.aces[i])]
    IN IF acl = NoAcl THEN "ok"
       ELSE IF ~acl.flags \subseteq AclFlags THEN "error"
       ELSE IF acl.noAccessControl THEN IF acl.aces = <<>> THEN "ok" ELSE "error"
       ELSE IF FirstFailure(entries) = "ok" /\ forSacl THEN "panic" ELSE FirstFailure(entries)

SecurityDescriptorFromStringKind(text) ==
    LET p == ParseSDDL(text)
        SidKind(s) == IF s.form = "none" THEN "ok" ELSE StringToSid(s)
    IN IF ~SanityCheckSDDLParse(text) THEN "error"
       ELSE FirstFailure(<<SidKind(p.owner), SidKind(p.group),
                           AclKind(p.sacl, TRUE), AclKind(p.dacl, FALSE)>>)

SecurityDescriptorFromString(text) ==
    LET p == ParseSDDL(text)
    IN [present |-> TRUE, owner |-> p.owner.sid, group |-> p.group.sid, flags |-> p.dacl.flags,
        dacl |-> IF p.dacl = NoAcl \/ p.dacl.noAccessControl THEN NoDacl
                 ELSE [given |-> TRUE,
                       aces |-> [i \in DOMAIN p.dacl.aces |-> AclEntryToSlice(p.dacl.aces[i])]]]

-----------------------------------------------------------------------------
(* What the cifs client is told to write: the list alone, and owner and    *)
(* group stay as they are, or all three.  The server keeps AI only when it *)
(* comes with AR, and never AR.                                            *)
SetSecurityObjectPanics(withOwner, sd) == ~SdRelativeIsValid(sd, withOwner)

SetSecurityObject(old, withOwner, sd) ==
    [old EXCEPT !.dacl = sd.dacl,
                !.flags = (sd.flags \cap {"P"}) \cup
                          (IF {"AI", "AR"} \subseteq sd.flags THEN {"AI"} ELSE {}),
                !.owner = IF withOwner THEN sd.owner ELSE @,
                !.group = IF withOwner THEN sd.group ELSE @]
=============================================================================
