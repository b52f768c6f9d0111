---- MODULE A2ACompat_proofs ----
(***************************************************************************)
(* Proofs about A2ACompat.  For any agent card: the type invariant, and    *)
(* that a message reaches every agent that serves what its card says, and  *)
(* every old agent behind a new card.  For any part: the translations of   *)
(* parts and answers read out of the schemas of the versions what is in    *)
(* them, but for what Narrow and Kept leave out, hence the agent reads     *)
(* what the user sent and the hub hears what the agent meant.              *)
(***************************************************************************)
EXTENDS A2ACompat, WellFoundedInduction, TLAPS

\* A set of positions has a first one.
LEMMA Smallest ==
  ASSUME NEW S, S \subseteq Nat, S # {}
  PROVE  \E i \in S : \A j \in S : i <= j
<1>1. IsWellFoundedOn(OpToRel(<, Nat), Nat)
  BY NatLessThanWellFounded
<1>2. PICK i \in S : \A j \in S : ~ (<<j, i>> \in OpToRel(<, Nat))
  BY <1>1, WFMin
<1>3. \A j \in S : ~ (j < i)
  BY <1>2 DEF OpToRel
<1>. QED
  BY <1>3

\* The first usable interface of a version is an interface that the card lists.
LEMMA FirstUsableIsListed ==
  ASSUME TypeOK, card.lists, NEW v \in Version, Usable(card, v) # {}
  PROVE  FirstUsable(card, v) \in Listed /\ FirstUsable(card, v).version = v
<1>. DEFINE Entry == [binding : {"JSONRPC", "GRPC"},
                      version : {"absent", "0.3", "1.0", "2.0"}, url : Url \cup {NoUrl}]
<1>1. card.interfaces \in Seq(Entry)
  BY CardAssumption DEF TypeOK
<1>. HIDE DEF Entry
<1>2. Usable(card, v) \subseteq DOMAIN card.interfaces /\ DOMAIN card.interfaces \subseteq Nat
  BY <1>1 DEF Usable
<1>3. \E i \in Usable(card, v) : \A j \in Usable(card, v) : i <= j
  BY <1>2, Smallest
<1>. DEFINE i == CHOOSE i \in Usable(card, v) : \A j \in Usable(card, v) : i <= j
<1>4. i \in Usable(card, v)
  BY <1>3
<1>5. FirstUsable(card, v) = [version |-> v, url |-> card.interfaces[i].url]
  BY DEF FirstUsable
<1>. HIDE DEF i
<1>6. card.interfaces[i].url \in Url
  <2>1. card.interfaces[i].url \in Url \cup {NoUrl}
    <3>1. card.interfaces[i] \in Entry
      BY <1>1, <1>2, <1>4
    <3>. QED
      BY <3>1 DEF Entry
  <2>2. card.interfaces[i].url # NoUrl
    BY <1>4 DEF Usable
  <2>. QED
    BY <2>1, <2>2
<1>7. FirstUsable(card, v) \in Interface
  BY <1>5, <1>6 DEF Interface
<1>. QED
  BY <1>4, <1>5, <1>7 DEF Listed

\* Only an interface the card lists is chosen, or none.
LEMMA ChoiceIsListed ==
  ASSUME TypeOK PROVE SelectInterface(card) \in Listed \cup {None}
<1>1. CASE card.lists
  BY <1>1, FirstUsableIsListed DEF SelectInterface, Version
<1>2. CASE ~card.lists
  <2>1. CASE card.url # NoUrl
    <3>1. card.url \in Url
      BY <2>1, CardAssumption DEF TypeOK
    <3>. QED
      BY <1>2, <2>1, <3>1 DEF SelectInterface, Listed, Interface, Version
  <2>2. CASE card.url = NoUrl
    BY <1>2, <2>2 DEF SelectInterface
  <2>. QED
    BY <2>1, <2>2
<1>. QED
  BY <1>1, <1>2

\* The second try is at version 0.3: at an interface the card lists, or at the url of
\* the first try.
LEMMA FallbackIsOld ==
  ASSUME TypeOK, iface \in Listed, SelectFallback(card, iface) # None
  PROVE  /\ SelectFallback(card, iface) \in Interface
         /\ SelectFallback(card, iface).version = "0.3"
         /\ \/ SelectFallback(card, iface) \in Listed
            \/ SelectFallback(card, iface).url = iface.url
<1>1. iface \in Interface /\ iface.version # "0.3"
  BY DEF Listed, SelectFallback
<1>2. card.lists
  BY <1>1 DEF Listed
<1>3. CASE Usable(card, "0.3") # {}
  <2>1. FirstUsable(card, "0.3") \in Listed /\ FirstUsable(card, "0.3").version = "0.3"
    BY <1>2, <1>3, FirstUsableIsListed DEF Version
  <2>2. SelectFallback(card, iface) = FirstUsable(card, "0.3")
    BY <1>1, <1>3 DEF SelectFallback
  <2>. QED
    BY <2>1, <2>2 DEF Listed
<1>4. CASE Usable(card, "0.3") = {}
  <2>1. SelectFallback(card, iface) = [version |-> "0.3", url |-> iface.url]
    BY <1>1, <1>4 DEF SelectFallback
  <2>. QED
    BY <1>1, <2>1 DEF Interface, Version
<1>. QED
  BY <1>3, <1>4

\* A request has method, header and role of its interface's version: an agent that
\* does not take it does not serve that interface.
LEMMA WellFormed ==
  ASSUME iface \in Interface, NEW base \in {"send", "stream"},
         ~ \E v \in Version : Speaks(Send(base), v)
  PROVE  iface \notin serves
<1>. DEFINE r == Send(base)
<1>1. /\ r.url = iface.url
      /\ r.method = IF iface.version = "1.0" THEN MethodMapV10[base] ELSE MethodMapV03[base]
      /\ r.header = IF iface.version = "1.0" THEN "1.0" ELSE "absent"
      /\ r.role = IF iface.version = "1.0" THEN "ROLE_USER" ELSE "user"
  BY DEF Send, Request
<1>. HIDE DEF r
<1>2. iface.version \in Version /\ iface = [version |-> iface.version, url |-> iface.url]
  BY DEF Interface
<1>3. r.method \in IF iface.version = "1.0" THEN {"SendMessage", "SendStreamingMessage"}
                                            ELSE {"message/send", "message/stream"}
  BY <1>1 DEF MethodMapV10, MethodMapV03
<1>4. ~ Speaks(r, iface.version)
  BY <1>2 DEF r
<1>. QED
  BY <1>1, <1>2, <1>3, <1>4 DEF Speaks

----------------------------------------------------------------------------
\* A part is one of four kinds, by its content.
LEMMA Shapes ==
  ASSUME NEW p, IsPart(p)
  PROVE  /\ p = [x \in DOMAIN p |-> p[x]]
         /\ \E c \in {"text", "data", "url", "raw"} :
              /\ c \in DOMAIN p
              /\ DOMAIN p \subseteq {c, "mediaType", "filename", "metadata"}
BY DEF IsPart, ContentKeys, Beside

\* It has one content key.
LEMMA ContentKey ==
  ASSUME NEW p, IsPart(p), NEW k \in ContentKeys, Has(p, k)
  PROVE  (CHOOSE c \in ContentKeys : Has(p, c)) = k
<1>1. \A c \in ContentKeys : Has(p, c) => c = k
  BY Shapes DEF Has, ContentKeys
<1>. QED
  BY <1>1

\* What is carried of a part through version 0.3 is a part again.
LEMMA NarrowPart ==
  ASSUME NEW p, IsPart(p), NEW n, n = Narrow(p)
  PROVE  /\ IsPart(n) /\ Narrow(n) = n
         /\ IsFile(n) <=> IsFile(p)
         /\ \A k \in DOMAIN n : k \in DOMAIN p /\ n[k] = p[k]
         /\ DOMAIN n = DOMAIN p \cap IF IsFile(p) THEN {"url", "raw", "mediaType", "filename"}
                                                  ELSE {"text", "data", "metadata"}
<1>1. /\ DOMAIN n = DOMAIN p \cap IF IsFile(p) THEN {"url", "raw", "mediaType", "filename"}
                                               ELSE {"text", "data", "metadata"}
      /\ n = [k \in DOMAIN n |-> p[k]]
  BY DEF Narrow
<1>2. \A k \in DOMAIN n : k \in DOMAIN p /\ n[k] = p[k]
  BY <1>1
<1>3. n = [k \in DOMAIN n |-> n[k]]
  BY <1>1
<1>4. \A k \in ContentKeys : k \in DOMAIN n <=> k \in DOMAIN p
  BY <1>1, Shapes DEF IsFile, Has, ContentKeys
<1>5. IsFile(n) <=> IsFile(p)
  BY <1>4 DEF IsFile, Has, ContentKeys
<1>6. IsPart(n)
  BY <1>2, <1>3, <1>4 DEF IsPart
<1>7. Narrow(n) = [k \in DOMAIN n |-> n[k]]
  BY <1>1, <1>5 DEF Narrow
<1>. QED
  BY <1>1, <1>2, <1>3, <1>5, <1>6, <1>7

\* The content k of a part and its metadata.
LEMMA MetadataFields ==
  ASSUME NEW p, NEW k
  PROVE  WithMetadata(p, k) = [x \in DOMAIN p \cap {k, "metadata"} |-> p[x]]
<1>. DEFINE names == (k :> k) @@ [metadata |-> "metadata"]
<1>1. DOMAIN names = {k, "metadata"} /\ \A x \in {k, "metadata"} : names[x] = x
  BY DEF :>, @@
<1>2. WithMetadata(p, k) = Fields(p, names)
  BY DEF WithMetadata
<1>. HIDE DEF names
<1>. QED
  BY <1>1, <1>2 DEF Fields, Has

\* A part with the kind of its content in it is read as that content and its metadata.
LEMMA KindIsRead ==
  ASSUME NEW s, "kind" \notin DOMAIN s, NEW k \in {"text", "data"}
  PROVE  NormalizePart([kind |-> k] @@ s) = [x \in DOMAIN s \cap {k, "metadata"} |-> s[x]]
<1>. DEFINE q == [kind |-> k] @@ s
<1>1. /\ Has(q, "kind") /\ q.kind = k /\ DOMAIN q = DOMAIN s \cup {"kind"}
      /\ \A x \in DOMAIN s : q[x] = s[x]
  BY DEF Has, @@
<1>. HIDE DEF q
<1>2. NormalizePart(q) = [x \in DOMAIN q \cap {k, "metadata"} |-> q[x]]
  BY <1>1, MetadataFields DEF NormalizePart
<1>3. DOMAIN q \cap {k, "metadata"} = DOMAIN s \cap {k, "metadata"}
  BY <1>1
<1>. QED
  BY <1>1, <1>2, <1>3 DEF q

\* A part of text or data is written with its kind, and read back.
LEMMA PlainPart ==
  ASSUME NEW p, IsPart(p), NEW k \in {"text", "data"}, Has(p, k)
  PROVE  /\ ~IsFile(p)
         /\ Written(p, "0.3") = [kind |-> k] @@ Narrow(p)
         /\ BuildPart(p, "0.3") = [kind |-> k] @@ Narrow(p)
         /\ NormalizePart([kind |-> k] @@ p) = Narrow(p)
<1>1. DOMAIN p \subseteq {k, "mediaType", "filename", "metadata"}
  BY Shapes DEF Has
<1>2. ~IsFile(p)
  BY <1>1 DEF IsFile, Has
<1>3. Narrow(p) = [x \in DOMAIN p \cap {k, "metadata"} |-> p[x]]
  <2>1. DOMAIN p \cap {k, "metadata"} = DOMAIN p \cap {"text", "data", "metadata"}
    BY <1>1
  <2>. QED
    BY <1>2, <2>1 DEF Narrow
<1>4. Written(p, "0.3") = [kind |-> k] @@ Narrow(p)
  BY <1>3, ContentKey DEF Written, ContentKeys
<1>5. BuildPart(p, "0.3") = [kind |-> k] @@ Narrow(p)
  <2>1. BuildPart(p, "0.3") = [kind |-> k] @@ WithMetadata(p, k)
    BY <1>1 DEF BuildPart, Has
  <2>. QED
    BY <1>3, <2>1, MetadataFields
<1>6. NormalizePart([kind |-> k] @@ p) = Narrow(p)
  BY <1>1, <1>3, KindIsRead
<1>. QED
  BY <1>2, <1>4, <1>5, <1>6

\* Where the fields of a file come from, read back.
CanonicalNames == [url |-> "uri", raw |-> "bytes", mediaType |-> "mimeType", filename |-> "name"]

LEMMA Names ==
  /\ DOMAIN NestedNames = {"uri", "bytes", "mimeType", "name"}
  /\ NestedNames["uri"] = "url" /\ NestedNames["bytes"] = "raw"
  /\ NestedNames["mimeType"] = "mediaType" /\ NestedNames["name"] = "filename"
BY DEF NestedNames

\* The nested file of a part.
LEMMA FileFields ==
  ASSUME NEW p, NEW f, f = Fields(p, NestedNames)
  PROVE  /\ DOMAIN f \subseteq {"uri", "bytes", "mimeType", "name"}
         /\ \A x \in {"uri", "bytes", "mimeType", "name"} :
              /\ x \in DOMAIN f <=> NestedNames[x] \in DOMAIN p
              /\ x \in DOMAIN f => f[x] = p[NestedNames[x]]
BY Names DEF Fields, Has

\* Its fields are found again under their canonical names.
LEMMA FileReadBack ==
  ASSUME NEW p, IsPart(p), IsFile(p), NEW f, f = Fields(p, NestedNames)
  PROVE  Fields(f, CanonicalNames) = Narrow(p)
<1>1. Narrow(p) = [x \in DOMAIN p \cap {"url", "raw", "mediaType", "filename"} |-> p[x]]
  BY DEF Narrow
<1>2. \A x \in {"url", "raw", "mediaType", "filename"} :
        /\ CanonicalNames[x] \in {"uri", "bytes", "mimeType", "name"}
        /\ NestedNames[CanonicalNames[x]] = x
  BY Names DEF CanonicalNames
<1>3. DOMAIN CanonicalNames = {"url", "raw", "mediaType", "filename"}
  BY DEF CanonicalNames
<1>. DEFINE q == Fields(f, CanonicalNames)
            names == DOMAIN p \cap {"url", "raw", "mediaType", "filename"}
<1>4. q = [x \in {n \in DOMAIN CanonicalNames : CanonicalNames[n] \in DOMAIN f} |->
             f[CanonicalNames[x]]]
  BY DEF Fields, Has
<1>5. {n \in DOMAIN CanonicalNames : CanonicalNames[n] \in DOMAIN f} = names
  BY <1>2, <1>3, FileFields
<1>6. \A x \in names : f[CanonicalNames[x]] = p[x]
  BY <1>2, <1>3, FileFields
<1>. QED
  BY <1>1, <1>4, <1>5, <1>6

\* Names of keys that a part does not have make no difference.
LEMMA IdleNames ==
  ASSUME NEW p, NEW names, NEW more,
         DOMAIN names \subseteq DOMAIN more, \A n \in DOMAIN names : names[n] = more[n],
         \A n \in DOMAIN more \ DOMAIN names : ~Has(p, more[n])
  PROVE  Fields(p, names) = Fields(p, more)
<1>1. {n \in DOMAIN names : Has(p, names[n])} = {n \in DOMAIN more : Has(p, more[n])}
  OBVIOUS
<1>. QED
  BY <1>1 DEF Fields

\* A file as the code builds it: the names of the key it does not have are idle.
LEMMA FileBuilt ==
  ASSUME NEW p, IsPart(p), IsFile(p)
  PROVE  BuildPart(p, "0.3") = [kind |-> "file", file |-> Fields(p, NestedNames)]
<1>1. CASE Has(p, "url")
  <2>. DEFINE names == [uri |-> "url"] @@ FileNames
  <2>1. Fields(p, names) = Fields(p, NestedNames)
    <3>1. /\ DOMAIN names = {"uri", "mimeType", "name"}
          /\ names["uri"] = "url" /\ names["mimeType"] = "mediaType" /\ names["name"] = "filename"
      BY DEF @@, FileNames
    <3>. HIDE DEF names
    <3>2. "raw" \notin DOMAIN p
      BY <1>1, Shapes DEF Has
    <3>. QED
      BY <3>1, <3>2, Names, IdleNames DEF Has
  <2>2. BuildPart(p, "0.3") = [kind |-> "file", file |-> Fields(p, names)]
    BY <1>1, Shapes DEF BuildPart, Has
  <2>. QED
    BY <2>1, <2>2
<1>2. CASE Has(p, "raw")
  <2>. DEFINE names == [bytes |-> "raw"] @@ FileNames
  <2>1. Fields(p, names) = Fields(p, NestedNames)
    <3>1. /\ DOMAIN names = {"bytes", "mimeType", "name"}
          /\ names["bytes"] = "raw" /\ names["mimeType"] = "mediaType" /\ names["name"] = "filename"
      BY DEF @@, FileNames
    <3>. HIDE DEF names
    <3>2. "url" \notin DOMAIN p
      BY <1>2, Shapes DEF Has
    <3>. QED
      BY <3>1, <3>2, Names, IdleNames DEF Has
  <2>2. BuildPart(p, "0.3") = [kind |-> "file", file |-> Fields(p, names)]
    BY <1>2, Shapes DEF BuildPart, Has
  <2>. QED
    BY <2>1, <2>2
<1>. QED
  BY <1>1, <1>2 DEF IsFile

\* A file as the schema has it, with its metadata beside it.
LEMMA FileWritten ==
  ASSUME NEW p, IsPart(p), IsFile(p)
  PROVE  Written(p, "0.3") = [kind |-> "file", file |-> Fields(p, NestedNames)] @@
                               Fields(p, [metadata |-> "metadata"])
<1>1. (CHOOSE c \in ContentKeys : Has(p, c)) \notin {"text", "data"}
  BY ContentKey DEF IsFile, ContentKeys
<1>. QED
  BY <1>1 DEF Written

\* Without its metadata both are the same.
LEMMA FilePart ==
  ASSUME NEW p, IsPart(p), IsFile(p), NEW n, n = Narrow(p)
  PROVE  BuildPart(p, "0.3") = Written(n, "0.3")
<1>1. /\ IsPart(n) /\ IsFile(n) /\ \A x \in DOMAIN n : x \in DOMAIN p /\ n[x] = p[x]
      /\ DOMAIN n = DOMAIN p \cap {"url", "raw", "mediaType", "filename"}
  BY NarrowPart
<1>2. Fields(n, NestedNames) = Fields(p, NestedNames)
  <2>1. \A x \in DOMAIN NestedNames :
          /\ Has(n, NestedNames[x]) <=> Has(p, NestedNames[x])
          /\ Has(n, NestedNames[x]) => n[NestedNames[x]] = p[NestedNames[x]]
    BY <1>1, Names DEF Has
  <2>2. {x \in DOMAIN NestedNames : Has(n, NestedNames[x])} =
          {x \in DOMAIN NestedNames : Has(p, NestedNames[x])}
    BY <2>1
  <2>. QED
    BY <2>1, <2>2 DEF Fields
<1>. DEFINE none == Fields(n, [metadata |-> "metadata"])
            file == [kind |-> "file", file |-> Fields(n, NestedNames)]
<1>3. DOMAIN none = {}
  BY <1>1 DEF Fields, Has
<1>4. file = [x \in DOMAIN file |-> file[x]]
  OBVIOUS
<1>. HIDE DEF none, file
<1>5. file @@ none = file
  BY <1>3, <1>4 DEF @@
<1>6. Written(n, "0.3") = file @@ none
  BY <1>1, FileWritten DEF file, none
<1>7. BuildPart(p, "0.3") = file
  BY <1>2, FileBuilt DEF file
<1>. QED
  BY <1>5, <1>6, <1>7

\* A canonical part is left as it is.
LEMMA FlatPart ==
  ASSUME NEW p, IsPart(p) PROVE NormalizePart(p) = p
<1>1. DOMAIN p \subseteq DOMAIN FlatNames /\ p = [x \in DOMAIN p |-> p[x]] /\ ~Has(p, "mimeType")
      /\ ~Has(p, "kind")
  BY Shapes DEF FlatNames, Has
<1>2. \A x \in DOMAIN FlatNames : FlatNames[x] = x
  BY DEF FlatNames
<1>3. Fields(p, FlatNames) = p
  BY <1>1, <1>2 DEF Fields, Has
<1>. QED
  BY <1>1, <1>3 DEF NormalizePart, Flat

\* The names in a part with an old media type, and that part read.
MimeNames(p) == [k \in (DOMAIN p \ {"mediaType"}) |-> k] @@
                   (IF Has(p, "mediaType") THEN [mimeType |-> "mediaType"]
                                    ELSE <<>>)
LEMMA MimePart ==
  ASSUME NEW p, IsPart(p), NEW q, q = Passed(p, "mime") PROVE NormalizePart(q) = p
<1>1. DOMAIN p \subseteq DOMAIN FlatNames /\ p = [x \in DOMAIN p |-> p[x]]
  BY Shapes DEF FlatNames
<1>2. q = Fields(p, MimeNames(p))
  BY DEF Passed, MimeNames, Version
<1>3. CASE ~Has(p, "mediaType")
  <2>. DEFINE names == MimeNames(p)
  <2>1. DOMAIN names = DOMAIN p /\ \A x \in DOMAIN p : names[x] = x
    BY <1>3 DEF MimeNames, @@, Has
  <2>. HIDE DEF names
  <2>2. q = p
    BY <1>1, <1>2, <2>1 DEF Fields, Has, names
  <2>. QED
    BY <2>2, FlatPart
<1>4. CASE Has(p, "mediaType")
  <2>. DEFINE names == MimeNames(p)
              back == [FlatNames EXCEPT !.mediaType = "mimeType"]
  <2>1. /\ DOMAIN names = (DOMAIN p \ {"mediaType"}) \cup {"mimeType"}
        /\ \A x \in DOMAIN p \ {"mediaType"} : names[x] = x
        /\ names["mimeType"] = "mediaType"
    <3>1. "mimeType" \notin DOMAIN p
      BY Shapes
    <3>. QED
      BY <1>4, <3>1 DEF MimeNames, @@, Has
  <2>2. /\ DOMAIN back = DOMAIN FlatNames /\ back["mediaType"] = "mimeType"
        /\ \A x \in DOMAIN FlatNames \ {"mediaType"} : back[x] = x
    BY DEF FlatNames
  <2>. HIDE DEF names, back
  <2>3. /\ DOMAIN q = (DOMAIN p \ {"mediaType"}) \cup {"mimeType"}
        /\ \A x \in DOMAIN p \ {"mediaType"} : q[x] = p[x]
        /\ q["mimeType"] = p["mediaType"]
    BY <1>2, <1>4, <2>1 DEF Fields, Has, names
  <2>4. Has(q, "mimeType") /\ ~Has(q, "kind")
    BY <2>3, Shapes DEF Has
  <2>5. {n \in DOMAIN back : Has(q, back[n])} = DOMAIN p
    <3>1. "mimeType" \notin DOMAIN FlatNames /\ "mediaType" \in DOMAIN FlatNames
      BY DEF FlatNames
    <3>. QED
      BY <1>1, <1>4, <2>2, <2>3, <3>1 DEF Has
  <2>6. \A x \in DOMAIN p : q[back[x]] = p[x]
    BY <1>1, <2>2, <2>3
  <2>7. Fields(q, back) = p
    BY <1>1, <2>5, <2>6 DEF Fields
  <2>. QED
    BY <2>4, <2>7 DEF NormalizePart, Flat, back
<1>. QED
  BY <1>3, <1>4

\* A file with the kind of version 0.3 in it has no content where that version has it;
\* other parts are read as of that version.
LEMMA StalePart ==
  ASSUME NEW p, IsPart(p), NEW q, q = Passed(p, "stale")
  PROVE  /\ IsFile(p) => Normalize(q) = <<>>
         /\ ~IsFile(p) => NormalizePart(q) = Narrow(p)
<1>1. q = [kind |-> IF IsFile(p) THEN "file" ELSE IF Has(p, "text") THEN "text" ELSE "data"] @@ p
  BY DEF Passed, Version
<1>2. CASE IsFile(p)
  <2>1. Has(q, "kind") /\ q.kind = "file" /\ ~Has(q, "file")
    BY <1>1, <1>2, Shapes DEF Has, @@
  <2>2. NormalizePart(q) = Fields(<<>>, CanonicalNames)
    BY <2>1 DEF NormalizePart, FileOf, CanonicalNames
  <2>3. DOMAIN Fields(<<>>, CanonicalNames) = {}
    BY DEF Fields, Has, CanonicalNames
  <2>. QED
    BY <1>2, <2>2, <2>3 DEF Normalize
<1>3. CASE ~IsFile(p)
  <2>1. Has(p, "text") \/ (Has(p, "data") /\ ~Has(p, "text"))
    BY <1>3, Shapes DEF IsFile, Has
  <2>. QED
    BY <1>1, <1>3, <2>1, PlainPart
<1>. QED
  BY <1>2, <1>3

\* A part has content: none is dropped.
LEMMA NotDropped ==
  ASSUME NEW p, IsPart(p), NEW q, NormalizePart(q) = p PROVE Normalize(q) = <<p>>
<1>1. DOMAIN p \cap ContentKeys # {}
  BY Shapes DEF ContentKeys
<1>. QED
  BY <1>1 DEF Normalize

\* What is carried is a part.
LEMMA CarriedPart ==
  ASSUME NEW p, IsPart(p), NEW v \in Version PROVE IsPart(Carried(p, v))
BY NarrowPart DEF Carried

\* build_message_parts writes what the schema of the version says, of what is carried.
LEMMA BuiltAsWritten ==
  ASSUME NEW p, IsPart(p), NEW v \in Version PROVE BuildPart(p, v) = Written(Carried(p, v), v)
<1>1. CASE v = "1.0"
  BY <1>1 DEF BuildPart, Written, Carried
<1>2. CASE v = "0.3" /\ IsFile(p)
  BY <1>2, FilePart DEF Carried
<1>3. CASE v = "0.3" /\ ~IsFile(p)
  <2>. DEFINE n == Narrow(p)
  <2>1. PICK k \in {"text", "data"} : Has(p, k)
    BY <1>3, Shapes DEF IsFile, Has
  <2>2. BuildPart(p, "0.3") = [kind |-> k] @@ n
    BY <2>1, PlainPart
  <2>3. IsPart(n) /\ Narrow(n) = n
    BY NarrowPart
  <2>4. Has(n, k)
    <3>1. DOMAIN n = DOMAIN p \cap {"text", "data", "metadata"}
      BY <1>3, NarrowPart
    <3>. QED
      BY <2>1, <3>1 DEF Has
  <2>. HIDE DEF n
  <2>5. Written(n, "0.3") = [kind |-> k] @@ Narrow(n)
    BY <2>3, <2>4, PlainPart
  <2>. QED
    BY <1>3, <2>2, <2>3, <2>5 DEF Carried, n
<1>. QED
  BY <1>1, <1>2, <1>3 DEF Version

\* normalize_inbound_parts reads what is carried out of the schemas.
LEMMA ReadBack ==
  ASSUME NEW p, IsPart(p), NEW v \in Version
  PROVE  Normalize(Written(p, v)) = <<Carried(p, v)>>
<1>. SUFFICES NormalizePart(Written(p, v)) = Carried(p, v)
  BY CarriedPart, NotDropped
<1>1. CASE v = "1.0"
  BY <1>1, FlatPart DEF Written, Carried
<1>2. CASE v = "0.3" /\ ~IsFile(p)
  <2>. DEFINE n == Narrow(p)
  <2>1. PICK k \in {"text", "data"} : Has(p, k)
    BY <1>2, Shapes DEF IsFile, Has
  <2>2. Written(p, v) = [kind |-> k] @@ n
    BY <1>2, <2>1, PlainPart
  <2>3. IsPart(n) /\ Narrow(n) = n /\ Has(n, k)
    <3>1. DOMAIN n = DOMAIN p \cap {"text", "data", "metadata"}
      BY <1>2, NarrowPart
    <3>2. Has(n, k)
      BY <2>1, <3>1 DEF Has
    <3>. QED
      BY <3>2, NarrowPart
  <2>. HIDE DEF n
  <2>4. NormalizePart([kind |-> k] @@ n) = n
    BY <2>3, PlainPart
  <2>. QED
    BY <1>2, <2>2, <2>4 DEF Carried, n
<1>3. CASE v = "0.3" /\ IsFile(p)
  <2>. DEFINE f == Fields(p, NestedNames)
              metadata == Fields(p, [metadata |-> "metadata"])
              q == [kind |-> "file", file |-> f] @@ metadata
  <2>1. Written(p, v) = q
    BY <1>3, FileWritten
  <2>2. Has(q, "kind") /\ q.kind = "file" /\ Has(q, "file") /\ q.file = f
    <3>. HIDE DEF f, metadata
    <3>. QED
      BY DEF Has, @@
  <2>. HIDE DEF q
  <2>3. NormalizePart(q) = Fields(f, CanonicalNames)
    BY <2>2 DEF NormalizePart, FileOf, CanonicalNames
  <2>4. Fields(f, CanonicalNames) = Narrow(p)
    BY <1>3, FileReadBack
  <2>. QED
    BY <1>3, <2>1, <2>3, <2>4 DEF Carried
<1>. QED
  BY <1>1, <1>2, <1>3 DEF Version

\* What the hub reads from any form the relay passes a part in.
LEMMA AnyFormIsRead ==
  ASSUME NEW p \in Part, NEW style \in Style PROVE Normalize(Passed(p, style)) = Kept(p, style)
<1>0. IsPart(p)
  BY PartAssumption
<1>1. CASE style \in Version
  <2>1. Passed(p, style) = Written(p, style)
    BY <1>1 DEF Passed, Version
  <2>2. Kept(p, style) = <<Carried(p, style)>>
    BY <1>1 DEF Kept, Carried, Version
  <2>. QED
    BY <1>0, <1>1, <2>1, <2>2, ReadBack
<1>2. CASE style = "mime"
  <2>1. Kept(p, style) = <<p>>
    BY <1>2 DEF Kept
  <2>. QED
    BY <1>0, <1>2, <2>1, MimePart, NotDropped
<1>3. CASE style = "stale"
  <2>1. Kept(p, style) = IF IsFile(p) THEN <<>> ELSE <<Narrow(p)>>
    BY <1>3 DEF Kept
  <2>2. IsPart(Narrow(p))
    BY <1>0, NarrowPart
  <2>. QED
    BY <1>0, <1>3, <2>1, <2>2, StalePart, NotDropped
<1>. QED
  BY <1>1, <1>2, <1>3, StyleAssumption

\* It is one part or none.
LEMMA KeptPart ==
  ASSUME NEW p \in Part, NEW style
  PROVE  Kept(p, style) = <<>> \/ \E q : IsPart(q) /\ Kept(p, style) = <<q>>
<1>1. IsPart(p) /\ IsPart(Narrow(p))
  BY PartAssumption, NarrowPart
<1>2. Kept(p, style) \in {<<>>, <<p>>, <<Narrow(p)>>}
  BY DEF Kept
<1>. QED
  BY <1>1, <1>2

----------------------------------------------------------------------------
\* The parts of a place of an answer are read back.
LEMMA PlaceReadBack ==
  ASSUME NEW s \in AtMostOne(Part), NEW v \in Version
  PROVE  NormalizeParts([i \in DOMAIN s |-> Written(s[i], v)]) =
           [i \in DOMAIN s |-> Carried(s[i], v)]
<1>1. CASE s = <<>>
  <2>1. [i \in DOMAIN s |-> Written(s[i], v)] = <<>> /\ [i \in DOMAIN s |-> Carried(s[i], v)] = <<>>
    BY <1>1
  <2>. QED
    BY <2>1 DEF NormalizeParts
<1>2. CASE \E p \in Part : s = <<p>>
  <2>1. PICK p \in Part : s = <<p>>
    BY <1>2
  <2>. DEFINE ps == [i \in DOMAIN s |-> Written(s[i], v)]
  <2>2. ps # <<>> /\ ps[1] = Written(p, v)
    BY <2>1
  <2>. HIDE DEF ps
  <2>3. NormalizeParts(ps) = <<Carried(p, v)>>
    BY <2>2, ReadBack, PartAssumption DEF NormalizeParts
  <2>4. [i \in DOMAIN s |-> Carried(s[i], v)] = <<Carried(p, v)>>
    BY <2>1
  <2>. QED
    BY <2>3, <2>4 DEF ps
<1>. QED
  BY <1>1, <1>2 DEF AtMostOne

\* So is the state.
LEMMA StateReadBack ==
  ASSUME NEW t \in State PROVE NormalizeState(StateMap[t]) = t
<1>1. State = {"submitted", "working", "completed", "failed", "canceled", "rejected",
               "input-required", "auth-required"}
  BY DEF State, StateMap, :>, @@
<1>2. \A s \in State : StateMap[s] = StateMap[t] => s = t
  BY <1>1 DEF StateMap, :>, @@
<1>. QED
  BY <1>2 DEF NormalizeState

\* The canonical form of the body of an answer is what the agent meant.
LEMMA BodyReadBack ==
  ASSUME NEW r \in Reply, NEW v \in Version, NEW body,
         body.state = IF v = "1.0" THEN StateMap[r.state] ELSE r.state,
         body.status = [i \in DOMAIN r.status |-> Written(r.status[i], v)],
         body.artifact = [i \in DOMAIN r.artifact |-> Written(r.artifact[i], v)],
         {"state", "status", "artifact"} \subseteq DOMAIN body
  PROVE  /\ Canonical(body, v).state = r.state
         /\ Canonical(body, v).status = Body(r, v).status
         /\ Canonical(body, v).artifact = Body(r, v).artifact
<1>1. r.state \in State /\ r.status \in AtMostOne(Part) /\ r.artifact \in AtMostOne(Part)
  BY DEF Reply
<1>2. /\ Canonical(body, v).state = IF v = "1.0" THEN NormalizeState(body.state) ELSE body.state
      /\ Canonical(body, v).status = NormalizeParts(body.status)
      /\ Canonical(body, v).artifact = NormalizeParts(body.artifact)
  BY DEF Canonical
<1>3. /\ Body(r, v).status = [i \in DOMAIN r.status |-> Carried(r.status[i], v)]
      /\ Body(r, v).artifact = [i \in DOMAIN r.artifact |-> Carried(r.artifact[i], v)]
  BY DEF Body
<1>4. Canonical(body, v).state = r.state
  BY <1>1, <1>2, StateReadBack
<1>. QED
  BY <1>1, <1>2, <1>3, <1>4, PlaceReadBack

\* An answer in either version is understood as what the agent meant, and as of its kind.
LEMMA Understood ==
  ASSUME NEW r \in Reply, NEW v \in Version, NEW m, m = Understand(Answered(r, v), v)
  PROVE  /\ m.state = r.state /\ m.status = Body(r, v).status
         /\ m.artifact = Body(r, v).artifact
         /\ r.shape # "fetched" => m.kind = Kind[r.shape]
<1>. DEFINE body == [state |-> IF v = "1.0" THEN StateMap[r.state] ELSE r.state,
                     status |-> [i \in DOMAIN r.status |-> Written(r.status[i], v)],
                     artifact |-> [i \in DOMAIN r.artifact |-> Written(r.artifact[i], v)]]
            raw == Answered(r, v)
<1>1. CASE v = "0.3"
  <2>. DEFINE old == [kind |-> IF r.shape = "fetched" THEN "task" ELSE Kind[r.shape]] @@ body
  <2>1. raw = old
    BY <1>1 DEF Answered
  <2>2. m = Canonical(old, v)
    BY <1>1, <2>1 DEF Understand
  <2>3. /\ old.state = body.state /\ old.status = body.status /\ old.artifact = body.artifact
        /\ DOMAIN old = {"kind", "state", "status", "artifact"}
        /\ old.kind = IF r.shape = "fetched" THEN "task" ELSE Kind[r.shape]
    BY DEF @@
  <2>4. Canonical(old, v).kind = old.kind
    <3>. HIDE DEF old
    <3>. QED
      BY <2>3 DEF Canonical
  <2>. QED
    BY <2>2, <2>3, <2>4, BodyReadBack
<1>2. CASE v = "1.0" /\ r.shape = "fetched"
  <2>1. raw = body
    BY <1>2 DEF Answered
  <2>2. ~ \E k \in DOMAIN Kind : Has(raw, k)
    BY <2>1 DEF Kind, Has
  <2>3. m = Canonical(body, v)
    BY <1>2, <2>1, <2>2 DEF Understand
  <2>. QED
    BY <1>2, <2>3, BodyReadBack
<1>3. CASE v = "1.0" /\ r.shape # "fetched"
  <2>1. r.shape \in DOMAIN Kind
    BY <1>3 DEF Reply
  <2>2. raw = r.shape :> body
    BY <1>3 DEF Answered
  <2>3. DOMAIN raw = {r.shape} /\ raw[r.shape] = body
    BY <2>2 DEF :>
  <2>4. (CHOOSE k \in DOMAIN Kind : Has(raw, k)) = r.shape /\ \E k \in DOMAIN Kind : Has(raw, k)
    BY <2>1, <2>3 DEF Has
  <2>5. m = [kind |-> Kind[r.shape]] @@ Canonical(body, v)
    <3>. HIDE DEF raw, body
    <3>. QED
      BY <1>3, <2>3, <2>4 DEF Understand, raw
  <2>6. DOMAIN Canonical(body, v) = {"state", "status", "artifact"}
    BY DEF Canonical
  <2>. DEFINE c == Canonical(body, v)
  <2>7. /\ m.kind = Kind[r.shape] /\ m.state = c.state
        /\ m.status = c.status /\ m.artifact = c.artifact
    <3>. HIDE DEF c
    <3>. QED
      BY <2>5, <2>6 DEF @@, c
  <2>. QED
    BY <2>7, BodyReadBack
<1>. QED
  BY <1>1, <1>2, <1>3 DEF Version

\* What the hub does with an answer depends on no more than that.
LEMMA SameContent ==
  ASSUME NEW m, NEW n, NEW kind,
         m.state = n.state, m.status = n.status, m.artifact = n.artifact
  PROVE  Content(m, kind) = Content(n, kind)
BY DEF Content, CollectFromTask

----------------------------------------------------------------------------
\* Every step keeps the types.
LEMMA TypeStep ==
  ASSUME TypeOK, pc = "send" => iface \in Listed, [Next]_vars PROVE TypeOK'
<1>1. CASE Choose
  <2>1. iface' \in Listed \cup {None}
    BY <1>1, ChoiceIsListed DEF Choose
  <2>2. iface' \in Interface \cup {None}
    BY <2>1 DEF Listed
  <2>3. CASE iface' = None
    BY <1>1, <2>2, <2>3 DEF Choose, TypeOK
  <2>4. CASE iface' # None
    <3>1. message' \in Message /\ pc' = "send"
      BY <1>1, <2>4 DEF Choose
    <3>2. message' # NoMessage
      BY <3>1 DEF Message, NoMessage
    <3>. QED
      BY <1>1, <2>2, <2>4, <3>1, <3>2 DEF Choose, TypeOK
  <2>. QED
    BY <2>3, <2>4
<1>2. CASE Taken
  BY <1>2 DEF Taken, TypeOK
<1>3. CASE Refused
  <2>0. refusal' \in Refusal
    BY <1>3 DEF Refused
  <2>1. CASE pc' = "resend"
    <3>1. iface' = SelectFallback(card, iface) /\ pc = "send" /\ iface' # None
      BY <1>3, <2>1 DEF Refused
    <3>2. iface' \in Interface /\ iface'.version = "0.3"
      BY <3>1, FallbackIsOld
    <3>. QED
      BY <1>3, <2>0, <2>1, <3>1, <3>2 DEF Refused, TypeOK
  <2>2. CASE pc' = "failed"
    <3>1. UNCHANGED iface
      BY <1>3, <2>2 DEF Refused
    <3>. QED
      BY <1>3, <2>0, <2>2, <3>1 DEF Refused, TypeOK
  <2>. QED
    BY <1>3, <2>1, <2>2 DEF Refused
<1>4. CASE Unreachable
  BY <1>4 DEF Unreachable, TypeOK
<1>5. CASE Work
  BY <1>5 DEF Work, TypeOK
<1>6. CASE Hear
  <2>1. reply' \in Reply
    BY <1>6 DEF Hear
  <2>. QED
    BY <1>6, <2>1 DEF Hear, TypeOK
<1>7. CASE UNCHANGED vars
  BY <1>7 DEF vars, TypeOK
<1>. QED
  BY <1>1, <1>2, <1>3, <1>4, <1>5, <1>6, <1>7 DEF Next

\* Where a message that has not been taken yet is going.
OnItsWay ==
  /\ pc = "send" => iface \in Listed
  /\ pc = "resend" => \/ iface \in Listed
                      \/ \E i \in Listed : i \notin serves /\ i.url = iface.url
  /\ SpeakersAreReached

\* Every step keeps that.
LEMMA WayStep == ASSUME TypeOK, OnItsWay, [Next]_vars PROVE OnItsWay'
<1>1. CASE Choose
  <2>1. SelectInterface(card) \in Listed \cup {None}
    BY ChoiceIsListed
  <2>. QED
    BY <1>1, <2>1 DEF Choose, OnItsWay, SpeakersAreReached, Listed
<1>2. ASSUME pc \in {"send", "resend"}, iface \notin serves,
             [version |-> "0.3", url |-> iface.url] \notin serves,
             pc' = "failed", UNCHANGED <<card, serves, iface>>
      PROVE  OnItsWay'
  <2>1. /\ ~ Listed \subseteq serves
        /\ \E i \in Listed : [version |-> "0.3", url |-> i.url] \notin serves
    BY <1>2 DEF OnItsWay
  <2>2. Listed' = Listed
    BY <1>2 DEF Listed
  <2>. QED
    BY <1>2, <2>1, <2>2 DEF OnItsWay, SpeakersAreReached
<1>3. CASE Refused
  <2>1. PICK e \in Refusal :
          /\ ~ \E v \in Version : Speaks(Send(e.base), v)
          /\ refusal' = e
          /\ LET fallback == SelectFallback(card, iface)
                 eligible == /\ e.code \in FALLBACK_ELIGIBLE_CODES
                             /\ e.base = "stream" => e.form = "event"
             IN  IF pc = "send" /\ eligible /\ fallback # None
                   THEN pc' = "resend" /\ iface' = fallback
                   ELSE pc' = "failed" /\ UNCHANGED iface
    BY <1>3 DEF Refused
  <2>2. /\ iface \in Interface /\ pc \in {"send", "resend"} /\ UNCHANGED <<card, serves>>
        /\ e.base \in {"send", "stream"}
    BY <1>3 DEF Refused, TypeOK, Refusal
  <2>3. iface \notin serves
    BY <2>1, <2>2, WellFormed
  <2>4. Listed' = Listed
    BY <2>2 DEF Listed
  <2>5. CASE pc' = "resend"
    <3>1. pc = "send" /\ iface' = SelectFallback(card, iface) /\ iface' # None
      BY <2>1, <2>5
    <3>2. iface' \in Listed \/ iface'.url = iface.url
      BY <3>1, FallbackIsOld DEF OnItsWay
    <3>. QED
      BY <2>2, <2>3, <2>4, <2>5, <3>1, <3>2 DEF OnItsWay, SpeakersAreReached
  <2>6. CASE pc' = "failed" /\ iface.version = "0.3"
    <3>1. [version |-> "0.3", url |-> iface.url] = iface
      BY <2>2, <2>6 DEF Interface
    <3>2. UNCHANGED iface
      BY <2>1, <2>6
    <3>. QED
      BY <1>2, <2>2, <2>3, <2>6, <3>1, <3>2
  <2>7. CASE pc' = "failed" /\ iface.version # "0.3"
    <3>1. pc = "send" /\ iface \in Listed /\ iface.version = "1.0"
      BY <2>2, <2>7 DEF TypeOK, OnItsWay, Interface, Version
    <3>2. SelectFallback(card, iface) # None
      <4>1. CASE Usable(card, "0.3") # {}
        <5>1. card.lists
          BY <2>7, <3>1 DEF Listed
        <5>2. FirstUsable(card, "0.3").version = "0.3"
          BY <4>1, <5>1, FirstUsableIsListed DEF Version
        <5>. QED
          BY <2>7, <4>1, <5>2 DEF SelectFallback, None
      <4>2. CASE Usable(card, "0.3") = {}
        BY <2>7, <4>2 DEF SelectFallback, None
      <4>. QED
        BY <4>1, <4>2
    <3>3. /\ e.code \notin FALLBACK_ELIGIBLE_CODES \/ (e.base = "stream" /\ e.form # "event")
          /\ UNCHANGED iface
      BY <2>1, <2>7, <3>1, <3>2
    <3>4. e.code = "other" \/ (e.base = "stream" /\ e.form = "json")
      BY <3>3 DEF Refusal, Code
    <3>5. ~ Listed \subseteq serves
      BY <2>3, <3>1
    <3>. QED
      BY <2>1, <2>2, <2>4, <2>7, <3>1, <3>3, <3>4, <3>5 DEF OnItsWay, SpeakersAreReached
  <2>. QED
    BY <2>1, <2>5, <2>6, <2>7
<1>4. CASE Unreachable
  BY <1>2, <1>4 DEF Unreachable
<1>5. CASE Taken \/ Work \/ Hear
  BY <1>5 DEF Taken, Work, Hear, OnItsWay, SpeakersAreReached
<1>6. CASE UNCHANGED vars
  BY <1>6 DEF vars, OnItsWay, SpeakersAreReached, Listed
<1>. QED
  BY <1>1, <1>3, <1>4, <1>5, <1>6 DEF Next

\* The types, and where a message may be, together: the type of the interface of a
\* second try rests on where the first one came from.
THEOREM WayInvariant == Spec => [](TypeOK /\ OnItsWay)
<1>1. Init => TypeOK /\ OnItsWay
  BY DEF Init, TypeOK, OnItsWay, SpeakersAreReached, NoMessage
<1>2. TypeOK /\ OnItsWay /\ [Next]_vars => (TypeOK /\ OnItsWay)'
  BY TypeStep, WayStep DEF OnItsWay
<1>. QED
  BY <1>1, <1>2, PTL DEF Spec

\* The type invariant: an interface is only ever one of a supported version with a
\* url, and the second try is at version 0.3.
THEOREM TypeCorrect == Spec => []TypeOK
BY WayInvariant, PTL

\* For any card: a message that ends nowhere was meant for an agent that does not serve
\* all its card lists, and either not version 0.3 at all those urls, or it refused the
\* first try with an error that is not eligible, or with none where the code looks for it.
THEOREM EverySpeakerReached == Spec => []SpeakersAreReached
<1>1. OnItsWay => SpeakersAreReached
  BY DEF OnItsWay
<1>. QED
  BY <1>1, WayInvariant, PTL

----------------------------------------------------------------------------
\* A request that is taken holds the user's part in the version of the interface.
LEMMA ContentStep == ASSUME TypeOK, ContentArrives, [Next]_vars PROVE ContentArrives'
<1>1. CASE Taken
  <2>1. PICK base \in {"send", "stream"} : got' = Send(base).parts
    BY <1>1 DEF Taken
  <2>2. message[1] \in Part /\ message[2] \in Style /\ iface.version \in Version
    BY <1>1 DEF Taken, TypeOK, Message, Interface
  <2>. DEFINE part == Passed(message[1], message[2])
              kept == Kept(message[1], message[2])
              v == iface.version
  <2>3. Normalize(part) = kept
    BY <2>2, AnyFormIsRead
  <2>4. got' = [i \in DOMAIN kept |-> BuildPart(kept[i], v)]
    BY <2>1, <2>3 DEF Send, Request
  <2>5. \A i \in DOMAIN kept : IsPart(kept[i])
    <3>. HIDE DEF kept
    <3>1. kept = <<>> \/ \E q : IsPart(q) /\ kept = <<q>>
      BY <2>2, KeptPart DEF kept
    <3>. QED
      BY <3>1
  <2>6. \A i \in DOMAIN kept : BuildPart(kept[i], v) = Written(Carried(kept[i], v), v)
    BY <2>2, <2>5, BuiltAsWritten
  <2>7. got' = [i \in DOMAIN kept |-> Written(Carried(kept[i], v), v)]
    BY <2>4, <2>6
  <2>8. message' = message /\ iface' = iface
    BY <1>1 DEF Taken
  <2>. QED
    BY <2>7, <2>8 DEF ContentArrives
<1>2. CASE Choose \/ Refused \/ Unreachable \/ Work \/ Hear
  BY <1>2 DEF Choose, Refused, Unreachable, Work, Hear, ContentArrives
<1>3. CASE UNCHANGED vars
  BY <1>3 DEF vars, ContentArrives
<1>. QED
  BY <1>1, <1>2, <1>3 DEF Next

\* An answer is heard as the agent meant it.
LEMMA ReplyStep == ASSUME TypeOK, ReplyIsUnderstood, [Next]_vars PROVE ReplyIsUnderstood'
<1>1. CASE Hear
  <2>1. PICK r \in Reply :
          LET m == Understand(Answered(r, iface.version), iface.version)
          IN  /\ reply' = r
              /\ heard' = Content(m, IF r.shape = "fetched" THEN "task" ELSE m.kind)
    BY <1>1 DEF Hear
  <2>2. iface.version \in Version
    BY <1>1 DEF Hear, TypeOK, Interface
  <2>. DEFINE m == Understand(Answered(r, iface.version), iface.version)
              kind == IF r.shape = "fetched" THEN "task" ELSE Kind[r.shape]
  <2>3. /\ m.state = r.state /\ m.status = Body(r, iface.version).status
        /\ m.artifact = Body(r, iface.version).artifact
        /\ r.shape # "fetched" => m.kind = Kind[r.shape]
    BY <2>2, Understood
  <2>4. heard' = Content(m, kind)
    BY <2>1, <2>3
  <2>5. Content(m, kind) = Content(Body(r, iface.version), kind)
    <3>1. Body(r, iface.version).state = r.state
      BY DEF Body
    <3>. QED
      BY <2>3, <3>1, SameContent
  <2>6. iface' = iface
    BY <1>1 DEF Hear
  <2>. QED
    BY <2>1, <2>4, <2>5, <2>6 DEF ReplyIsUnderstood
<1>2. CASE Choose \/ Refused \/ Unreachable \/ Work \/ Taken
  BY <1>2 DEF Choose, Refused, Unreachable, Work, Taken, ReplyIsUnderstood
<1>3. CASE UNCHANGED vars
  BY <1>3 DEF vars, ReplyIsUnderstood
<1>. QED
  BY <1>1, <1>2, <1>3 DEF Next

\* For any part of any version, any form the relay has for it, the stale kind included,
\* any card and either try: what the agent reads is the user's part as the schema of the
\* agent's version has it, but for what Kept and Carried leave out: on a way through version
\* 0.3 what it has no room for and the metadata of a file, and a file with a kind left
\* in it.
THEOREM EveryPartArrives == Spec => []ContentArrives
<1>1. Init => ContentArrives
  BY DEF Init, ContentArrives
<1>. QED
  BY <1>1, ContentStep, TypeCorrect, PTL DEF Spec

\* For any part, in both versions and every shape of answer: the hub hears the text, the
\* other parts and the state that the agent meant, but in version 0.3 for what it has
\* no room for and the metadata of a file.
THEOREM EveryReplyIsUnderstood == Spec => []ReplyIsUnderstood
<1>1. Init => ReplyIsUnderstood
  BY DEF Init, ReplyIsUnderstood
<1>. QED
  BY <1>1, ReplyStep, TypeCorrect, PTL DEF Spec
====
