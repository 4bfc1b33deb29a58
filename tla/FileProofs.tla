------------------------------ MODULE FileProofs ------------------------------
(***************************************************************************)
(* The two files that bandwidthd writes itself: the configuration, which   *)
(* it shares with the wizard, and the log.                                 *)
(*                                                                         *)
(* ConfigFile and Logger share nothing; what both would call Init, Next,   *)
(* Spec or TypeOK has a name of its own in Logger.                         *)
(***************************************************************************)
EXTENDS ConfigFile, Logger, SequenceTheorems, WellFoundedInduction, TLAPS

-----------------------------------------------------------------------------
(* Least and greatest elements.                                            *)

LEMMA LeastIn ==
  ASSUME NEW S \in SUBSET Nat, S # {}
  PROVE  \E i \in S : Min(S) = i /\ \A j \in S : i <= j
<1>1. PICK i \in S : \A j \in S : ~ (<<j, i>> \in OpToRel(<, Nat))
  BY NatLessThanWellFounded, WFMin, Zenon
<1>2. \A j \in S : ~ (j < i)
  BY <1>1 DEF OpToRel
<1>3. \A j \in S : i <= j
  BY <1>2
<1>4. Min(S) \in S /\ \A j \in S : Min(S) <= j
  BY <1>3 DEF Min
<1> QED BY <1>4

LEMMA LeastIs ==
  ASSUME NEW S \in SUBSET Nat, NEW i \in S, \A j \in S : i <= j
  PROVE  Min(S) = i
<1>1. PICK m \in S : Min(S) = m /\ \A j \in S : m <= j
  BY LeastIn
<1>2. m = i
  BY <1>1
<1> QED BY <1>1, <1>2

LEMMA GreatestIn ==
  ASSUME NEW n \in Nat, NEW S \in SUBSET (1..n), S # {}
  PROVE  \E i \in S : Max(S) = i /\ \A j \in S : i >= j
<1> DEFINE T == {n - j : j \in S}
<1>1. \A j \in S : n - j \in Nat
  OBVIOUS
<1>2. T \in SUBSET Nat /\ T # {}
  BY <1>1
<1>3. PICK m \in T : Min(T) = m /\ \A t \in T : m <= t
  BY <1>2, LeastIn
<1>4. PICK i \in S : m = n - i
  OBVIOUS
<1>5. \A j \in S : n - i <= n - j
  BY <1>3, <1>4
<1>6. \A j \in S : i >= j
  BY <1>5
<1>7. Max(S) \in S /\ \A j \in S : Max(S) >= j
  BY <1>6 DEF Max
<1> QED BY <1>7

LEMMA GreatestIs ==
  ASSUME NEW n \in Nat, NEW S \in SUBSET (1..n), NEW i \in S, \A j \in S : i >= j
  PROVE  Max(S) = i
<1>1. PICK m \in S : Max(S) = m /\ \A j \in S : m >= j
  BY GreatestIn
<1>2. m = i
  BY <1>1
<1> QED BY <1>1, <1>2

-----------------------------------------------------------------------------
(* Documents.                                                              *)

LEMMA DocumentType ==
  ASSUME NEW doc \in Seq(Lines)
  PROVE  /\ Len(doc) \in Nat /\ DOMAIN doc = 1..Len(doc)
         /\ \A i \in DOMAIN doc :
              doc[i] \in Lines /\ doc[i].depth \in 0..2 /\ doc[i].value \in Values
         /\ doc # Empty => 1 \in DOMAIN doc
<1>1. Len(doc) \in Nat /\ DOMAIN doc = 1..Len(doc)
  BY LenProperties
<1>2. \A i \in DOMAIN doc : doc[i] \in Lines
  BY <1>1, ElementOfSeq
<1>3. doc # Empty => Len(doc) # 0
  BY EmptySeq DEF Empty
<1> QED BY <1>1, <1>2, <1>3 DEF Lines

\* The documents d and e differ in values only.
SameKeys(d, e) ==
  /\ DOMAIN e = DOMAIN d
  /\ \A i \in DOMAIN d : e[i].depth = d[i].depth /\ e[i].key = d[i].key

LEMMA Revalued ==
  ASSUME NEW doc \in Seq(Lines), NEW k \in DOMAIN doc, NEW v \in Values
  PROVE  /\ [doc EXCEPT ![k].value = v] \in Seq(Lines)
         /\ SameKeys(doc, [doc EXCEPT ![k].value = v])
         /\ \A i \in DOMAIN doc : [doc EXCEPT ![k].value = v][i].value =
                                   IF i = k THEN v ELSE doc[i].value
<1> DEFINE x == [doc[k] EXCEPT !.value = v]
           e == [doc EXCEPT ![k] = x]
<1>1. Len(doc) \in Nat /\ DOMAIN doc = 1..Len(doc) /\ doc[k] \in Lines
  BY DocumentType
<1>2. x \in Lines /\ x.depth = doc[k].depth /\ x.key = doc[k].key /\ x.value = v
  BY <1>1 DEF Lines
<1>3. e \in Seq(Lines)
  BY <1>1, <1>2, ExceptSeq
<1>4. DOMAIN e = DOMAIN doc /\ \A i \in DOMAIN doc : e[i] = IF i = k THEN x ELSE doc[i]
  OBVIOUS
<1>5. [doc EXCEPT ![k].value = v] = e
  OBVIOUS
<1> HIDE DEF x, e
<1> QED BY <1>2, <1>3, <1>4, <1>5 DEF SameKeys

\* Only what is at or before a line is above it.
LEMMA AboveIs ==
  ASSUME NEW doc \in Seq(Lines), NEW i \in DOMAIN doc, NEW depth \in Nat,
         NEW j \in 1..i, doc[j].depth <= depth, \A k \in j+1..i : doc[k].depth > depth
  PROVE  Above(doc, i, depth) = doc[j]
<1> DEFINE S == {l \in 1..i : doc[l].depth <= depth}
<1>1. i \in Nat /\ 1..i \subseteq DOMAIN doc
  BY DocumentType
<1>2. S \in SUBSET (1..i) /\ j \in S
  OBVIOUS
<1>3. ASSUME NEW l \in S PROVE j >= l
  <2>1. doc[l].depth \in Nat
    BY <1>1, DocumentType
  <2> QED BY <1>1, <2>1
<1> HIDE DEF S
<1>4. Max(S) = j
  BY <1>1, <1>2, <1>3, GreatestIs
<1> QED BY <1>4 DEF Above, S

LEMMA AboveStays ==
  ASSUME NEW d \in Seq(Lines), NEW e, SameKeys(d, e), d # Empty, d[1].depth = 0,
         NEW i \in DOMAIN d, NEW depth \in Nat
  PROVE  Above(e, i, depth).key = Above(d, i, depth).key
<1> DEFINE S == {j \in 1..i : d[j].depth <= depth}
           T == {j \in 1..i : e[j].depth <= depth}
<1>1. i \in Nat /\ 1..i \subseteq DOMAIN d /\ 1 \in 1..i
  BY DocumentType
<1>2. T = S
  BY <1>1 DEF SameKeys
<1>3. S \in SUBSET (1..i) /\ 1 \in S
  BY <1>1
<1> HIDE DEF S, T
<1>4. Max(S) \in DOMAIN d
  <2>1. PICK m \in S : Max(S) = m
    BY <1>1, <1>3, GreatestIn
  <2> QED BY <1>1, <1>3, <2>1
<1>5. e[Max(T)].key = d[Max(S)].key
  BY <1>2, <1>4 DEF SameKeys
<1> QED BY <1>5 DEF Above, S, T

LEMMA PathStays ==
  ASSUME NEW d \in Seq(Lines), NEW e, SameKeys(d, e), d # Empty, d[1].depth = 0,
         NEW i \in DOMAIN d
  PROVE  PathOf(e, i) = PathOf(d, i)
<1>1. d[i].depth \in Nat /\ e[i].depth = d[i].depth
  BY DocumentType DEF SameKeys
<1>2. \A n \in 1..d[i].depth + 1 : Above(e, i, n - 1).key = Above(d, i, n - 1).key
  BY <1>1, AboveStays
<1> QED BY <1>1, <1>2 DEF PathOf

LEMMA FoundStays ==
  ASSUME NEW d \in Seq(Lines), NEW e, SameKeys(d, e), d # Empty, d[1].depth = 0,
         NEW path
  PROVE  Held(e, path) = Held(d, path) /\ Hits(e, path) = Hits(d, path)
<1>1. Held(e, path) = Held(d, path)
  BY PathStays DEF Held, SameKeys
<1>2. \A i \in DOMAIN d : Section(e, i) = Section(d, i)
  BY AboveStays DEF Section
<1>3. Hits(e, path) = Hits(d, path)
  BY <1>2 DEF Hits, SameKeys
<1> QED BY <1>1, <1>3

\* A setting is at one of its lines, or has its default.
LEMMA LoadType ==
  ASSUME NEW doc \in Seq(Lines)
  PROVE  Load(doc) \in [Paths -> Values]
<1>1. ASSUME NEW path \in Paths PROVE Load(doc)[path] \in Values
  <2>1. CASE Held(doc, path) = {}
    <3>1. Default[path] \in Values
      BY DEF Default, Values, Paths
    <3> QED BY <2>1, <3>1 DEF Load
  <2>2. CASE Held(doc, path) # {}
    <3>1. Held(doc, path) \in SUBSET Nat /\ Held(doc, path) \subseteq DOMAIN doc
      BY DocumentType DEF Held
    <3>2. PICK i \in Held(doc, path) : Min(Held(doc, path)) = i
      BY <2>2, <3>1, LeastIn
    <3>3. doc[i].value \in Values
      BY <3>1, DocumentType
    <3> QED BY <2>2, <3>2, <3>3 DEF Load
  <2> QED BY <2>1, <2>2
<1> QED BY <1>1 DEF Load

-----------------------------------------------------------------------------
(* Plain documents.                                                        *)

\* As installed, or opened for writing and not written.
Whole(doc) == doc = Empty \/ Plain(doc)

LEMMA FoundType ==
  ASSUME NEW doc \in Seq(Lines), NEW path
  PROVE  /\ Held(doc, path) \in SUBSET Nat /\ Hits(doc, path) \in SUBSET Nat
         /\ Held(doc, path) \subseteq DOMAIN doc /\ Hits(doc, path) \subseteq DOMAIN doc
BY DocumentType DEF Held, Hits

LEMMA EmptyFound ==
  /\ Empty \in Seq(Lines) /\ DOMAIN Empty = {}
  /\ \A path : Held(Empty, path) = {} /\ Hits(Empty, path) = {}
<1>1. Empty \in Seq(Lines) /\ Len(Empty) = 0
  BY DEF Empty
<1>2. DOMAIN Empty = {}
  BY <1>1, DocumentType
<1> QED BY <1>1, <1>2 DEF Held, Hits

\* The wizard never looks for a path of three parts with success.
LEMMA Lengths ==
  /\ Len(Rate) = 2 /\ Len(Alerts) = 2 /\ Len(Api) = 2 /\ Len(Zone) = 1
  /\ Len(Url) = 3 /\ Len(Endpoint) = 3
  /\ \A path \in Editable : path # Url /\ path # Endpoint
<1>1. Len(Rate) = 2 /\ Len(Alerts) = 2 /\ Len(Api) = 2 /\ Len(Zone) = 1
  BY DEF Rate, Alerts, Api, Zone
<1>2. Len(Url) = 3 /\ Len(Endpoint) = 3
  BY DEF Url, Endpoint
<1>3. 2 # 3 /\ 1 # 3
  OBVIOUS
<1> QED BY <1>1, <1>2, <1>3, Zenon DEF Editable

LEMMA DefaultSound == Sound(Default) /\ Load(Empty) = Default
<1>1. Default \in [Paths -> Values] /\ Default[Rate] = "100" /\ Default[Zone] = "Asia/Kolkata"
  BY DEF Default, Paths, Values, Rate, Zone, Alerts, Url, Endpoint, Api, Token
<1>2. Load(Empty) = [path \in Paths |-> Default[path]]
  BY EmptyFound DEF Load
<1>3. Default = [path \in Paths |-> Default[path]]
  BY <1>1
<1>4. Default[Url] = "" /\ Default[Endpoint] = Default[Endpoint]
  BY DEF Default, Paths, Rate, Zone, Alerts, Url, Endpoint, Api, Token
<1> QED BY <1>1, <1>2, <1>3 DEF Sound

LEMMA ReplaceType ==
  ASSUME NEW doc \in Seq(Lines), NEW path, NEW v \in Values
  PROVE  Replace(doc, path, v) \in Seq(Lines)
<1>1. CASE Hits(doc, path) = {}
  BY <1>1 DEF Replace
<1>2. CASE Hits(doc, path) # {}
  <2>1. PICK k \in Hits(doc, path) : Min(Hits(doc, path)) = k
    BY <1>2, FoundType, LeastIn
  <2>2. k \in DOMAIN doc
    BY <2>1, FoundType
  <2> QED BY <1>2, <2>1, <2>2, Revalued DEF Replace
<1> QED BY <1>1, <1>2

\* In a plain document the wizard changes the setting it means, and no other.
LEMMA ReplacePlain ==
  ASSUME NEW doc, Plain(doc), NEW path \in Editable, NEW v \in Values \ {""}
  PROVE  /\ Plain(Replace(doc, path, v))
         /\ Load(Replace(doc, path, v)) = [Load(doc) EXCEPT ![path] = v]
<1> DEFINE e == Replace(doc, path, v)
<1>1. doc \in Seq(Lines) /\ doc # Empty /\ doc[1].depth = 0 /\ path \in Paths
  BY DEF Plain, Editable, Paths
<1>2. PICK k \in Held(doc, path) : Min(Held(doc, path)) = k /\ Min(Hits(doc, path)) = k
  BY <1>1, FoundType, LeastIn DEF Plain
<1>3. k \in DOMAIN doc /\ Hits(doc, path) # {}
  BY <1>1, <1>2, FoundType DEF Plain
<1>4. e = [doc EXCEPT ![k].value = v]
  BY <1>2, <1>3 DEF Replace
<1>5. /\ e \in Seq(Lines) /\ SameKeys(doc, e)
      /\ \A i \in DOMAIN doc : e[i].value = IF i = k THEN v ELSE doc[i].value
  <2> DEFINE f == [doc EXCEPT ![k].value = v]
  <2>1. /\ f \in Seq(Lines) /\ SameKeys(doc, f)
        /\ \A i \in DOMAIN doc : f[i].value = IF i = k THEN v ELSE doc[i].value
    BY <1>1, <1>3, Revalued, Zenon
  <2> HIDE DEF f
  <2>2. e = f
    BY <1>4 DEF f
  <2> QED BY <2>1, <2>2
<1> HIDE DEF e
<1>6. e # Empty /\ e[1].depth = 0
  <2>1. DOMAIN e = DOMAIN doc /\ 1 \in DOMAIN doc
    BY <1>1, <1>5, DocumentType DEF SameKeys
  <2> QED BY <1>1, <1>5, <2>1, EmptyFound DEF SameKeys
<1>7. \A p : Held(e, p) = Held(doc, p) /\ Hits(e, p) = Hits(doc, p)
  BY <1>1, <1>5, FoundStays
<1>8. ASSUME NEW p \in Paths
      PROVE  Load(e)[p] = IF p = path THEN v ELSE Load(doc)[p]
  <2>1. CASE Held(doc, p) = {}
    BY <1>2, <1>7, <2>1 DEF Load
  <2>2. CASE Held(doc, p) # {}
    <3>1. PICK m \in Held(doc, p) : Min(Held(doc, p)) = m
      BY <1>1, <2>2, FoundType, LeastIn
    <3>2. m = k => p = path
      BY <1>2, <3>1 DEF Held
    <3>3. p = path => m = k
      BY <1>2, <3>1
    <3>4. m \in DOMAIN doc
      BY <1>1, <3>1, FoundType
    <3>5. Load(e)[p] = e[m].value /\ Load(doc)[p] = doc[m].value
      BY <1>7, <2>2, <3>1 DEF Load
    <3> QED BY <1>5, <3>2, <3>3, <3>4, <3>5
  <2> QED BY <2>1, <2>2
<1>9. Load(e) = [Load(doc) EXCEPT ![path] = v]
  BY <1>8 DEF Load
<1>10. Sound(Load(e))
  <2>1. Load(e) \in [Paths -> Values] /\ Load(doc) \in [Paths -> Values]
    BY <1>1, <1>5, LoadType
  <2>2. path # Url /\ path # Endpoint
    BY Lengths, Zenon
  <2>3. {Rate, Zone, Url, Endpoint} \subseteq Paths
    BY DEF Paths
  <2> QED BY <1>8, <2>1, <2>2, <2>3 DEF Plain, Sound
<1> QED BY <1>5, <1>6, <1>7, <1>9, <1>10 DEF Plain, e

-----------------------------------------------------------------------------
(* What Save writes.                                                       *)

LEMMA TopPath ==
  ASSUME NEW doc \in Seq(Lines), NEW i \in DOMAIN doc, doc[i].depth = 0
  PROVE  PathOf(doc, i) = <<doc[i].key>> /\ Section(doc, i) = doc[i].key
<1>1. i \in Nat /\ i \in 1..i /\ \A k \in i+1..i : doc[k].depth > 0
  BY DocumentType
<1>2. Above(doc, i, 0) = doc[i]
  BY <1>1, AboveIs
<1>3. PathOf(doc, i) = [n \in 1..1 |-> Above(doc, i, n - 1).key]
  BY DEF PathOf
<1>4. \A n \in 1..1 : Above(doc, i, n - 1).key = doc[i].key
  BY <1>2
<1> QED BY <1>2, <1>3, <1>4 DEF Section

LEMMA InnerPath ==
  ASSUME NEW doc \in Seq(Lines), NEW i \in DOMAIN doc, doc[i].depth = 1,
         NEW s \in 1..i, doc[s].depth = 0, \A k \in s+1..i : doc[k].depth > 0
  PROVE  PathOf(doc, i) = <<doc[s].key, doc[i].key>> /\ Section(doc, i) = doc[s].key
<1>1. i \in Nat /\ i \in 1..i /\ \A k \in i+1..i : doc[k].depth > 1
  BY DocumentType
<1>2. Above(doc, i, 0) = doc[s]
  <2>1. 0 \in Nat /\ doc[s].depth <= 0
    OBVIOUS
  <2> QED BY <2>1, AboveIs, Zenon
<1>3. Above(doc, i, 1) = doc[i]
  BY <1>1, AboveIs
<1>4. PathOf(doc, i) = [n \in 1..2 |-> Above(doc, i, n - 1).key]
  BY DEF PathOf
<1>5. \A n \in 1..2 : Above(doc, i, n - 1).key = <<doc[s].key, doc[i].key>>[n]
  BY <1>2, <1>3
<1> QED BY <1>2, <1>4, <1>5 DEF Section

LEMMA DeepPath ==
  ASSUME NEW doc \in Seq(Lines), NEW i \in DOMAIN doc, doc[i].depth = 2,
         NEW s \in 1..i, doc[s].depth = 0, \A k \in s+1..i : doc[k].depth > 0,
         NEW t \in 1..i, doc[t].depth = 1, \A k \in t+1..i : doc[k].depth > 1
  PROVE  /\ PathOf(doc, i) = <<doc[s].key, doc[t].key, doc[i].key>>
         /\ Section(doc, i) = doc[s].key
<1>1. i \in Nat /\ i \in 1..i /\ \A k \in i+1..i : doc[k].depth > 2
  BY DocumentType
<1>2. Above(doc, i, 0) = doc[s]
  <2>1. 0 \in Nat /\ doc[s].depth <= 0
    OBVIOUS
  <2> QED BY <2>1, AboveIs, Zenon
<1>3. Above(doc, i, 1) = doc[t]
  BY <1>1, AboveIs
<1>4. Above(doc, i, 2) = doc[i]
  BY <1>1, AboveIs
<1>5. PathOf(doc, i) = [n \in 1..3 |-> Above(doc, i, n - 1).key]
  BY DEF PathOf
<1>6. \A n \in 1..3 : Above(doc, i, n - 1).key = <<doc[s].key, doc[t].key, doc[i].key>>[n]
  BY <1>2, <1>3, <1>4
<1> QED BY <1>2, <1>5, <1>6 DEF Section

LEMMA PathParts ==
  /\ Rate[Len(Rate)] = "default_rx_mbps" /\ Zone[Len(Zone)] = "timezone"
  /\ Alerts[Len(Alerts)] = "enabled" /\ Api[Len(Api)] = "enabled"
  /\ Url[Len(Url)] = "url" /\ Endpoint[Len(Endpoint)] = "enabled"
  /\ Token[Len(Token)] = "auth_token"
  /\ Rate[1] = "bandwidth" /\ Alerts[1] = "webhook" /\ Api[1] = "api"
  /\ Rate[2] = "default_rx_mbps" /\ Alerts[2] = "enabled" /\ Api[2] = "enabled"
  /\ Token[2] = "auth_token" /\ Zone[1] = "timezone"
  /\ Url[3] = "url" /\ Endpoint[3] = "enabled"
  /\ Alerts # Api /\ Alerts # Endpoint /\ Api # Endpoint
<1>1. Len(Token) = 2
  BY DEF Token
<1>2. /\ Rate[1] = "bandwidth" /\ Alerts[1] = "webhook" /\ Api[1] = "api"
      /\ Rate[2] = "default_rx_mbps" /\ Alerts[2] = "enabled" /\ Api[2] = "enabled"
      /\ Token[2] = "auth_token" /\ Zone[1] = "timezone"
      /\ Url[3] = "url" /\ Endpoint[3] = "enabled"
  BY DEF Rate, Zone, Alerts, Api, Url, Endpoint, Token
<1>3. "webhook" # "api"
  OBVIOUS
<1>4. Alerts # Api /\ Alerts # Endpoint /\ Api # Endpoint
  BY <1>2, <1>3, Lengths, Zenon DEF Editable
<1> QED BY <1>1, <1>2, <1>4, Lengths, Zenon

Keys == UNION {{path[i] : i \in DOMAIN path} : path \in Paths}

LEMMA LineType ==
  ASSUME NEW depth \in 0..2, NEW key \in Keys, NEW value \in Values
  PROVE  /\ Line(depth, key, value) \in Lines
         /\ Line(depth, key, value).depth = depth
         /\ Line(depth, key, value).key = key
         /\ Line(depth, key, value).value = value
BY DEF Line, Lines, Keys

LEMMA KeysWritten ==
  /\ "bandwidth" \in Keys /\ Rate[2] \in Keys /\ "webhook" \in Keys
  /\ Alerts[2] \in Keys /\ "endpoints" \in Keys /\ Url[3] \in Keys
  /\ Endpoint[3] \in Keys /\ "api" \in Keys /\ Api[2] \in Keys
  /\ Token[2] \in Keys /\ Zone[1] \in Keys
<1>1. ASSUME NEW path \in Paths, NEW i \in DOMAIN path PROVE path[i] \in Keys
  <2>1. path[i] \in {path[j] : j \in DOMAIN path}
    OBVIOUS
  <2> QED BY <2>1 DEF Keys
<1>2. /\ Rate \in Paths /\ Zone \in Paths /\ Alerts \in Paths /\ Url \in Paths
      /\ Endpoint \in Paths /\ Api \in Paths /\ Token \in Paths
  BY DEF Paths
<1>3. /\ 1 \in DOMAIN Rate /\ 2 \in DOMAIN Rate /\ 1 \in DOMAIN Alerts /\ 2 \in DOMAIN Alerts
      /\ 2 \in DOMAIN Url /\ 3 \in DOMAIN Url /\ 3 \in DOMAIN Endpoint
      /\ 1 \in DOMAIN Api /\ 2 \in DOMAIN Api /\ 2 \in DOMAIN Token /\ 1 \in DOMAIN Zone
  BY DEF Rate, Alerts, Url, Endpoint, Api, Token, Zone
<1>4. Rate[1] = "bandwidth" /\ Alerts[1] = "webhook" /\ Url[2] = "endpoints" /\ Api[1] = "api"
  BY DEF Rate, Alerts, Url, Api
<1> QED BY <1>1, <1>2, <1>3, <1>4, Zenon

\* The parts of what Save writes.
Opening(c) ==
  <<Line(0, "bandwidth", ""), Line(1, Rate[2], c[Rate]),
    Line(0, "webhook", ""), Line(1, Alerts[2], c[Alerts]), Line(1, "endpoints", "")>>
Endpoints(c) ==
  IF c[Url] = "" THEN <<>> ELSE <<Line(2, Url[3], c[Url]), Line(2, Endpoint[3], c[Endpoint])>>
Closing(c) ==
  <<Line(0, "api", ""), Line(1, Api[2], c[Api]), Line(1, Token[2], c[Token]),
    Line(0, Zone[1], c[Zone])>>

Extra(c) == IF c[Url] = "" THEN 0 ELSE 2

LEMMA Two ==
  ASSUME NEW S, NEW p \in S, NEW q \in S
  PROVE  <<p, q>> \in Seq(S) /\ Len(<<p, q>>) = 2 /\ <<p, q>>[1] = p /\ <<p, q>>[2] = q
OBVIOUS

LEMMA Four ==
  ASSUME NEW S, NEW p \in S, NEW q \in S, NEW r \in S, NEW s \in S
  PROVE  /\ <<p, q, r, s>> \in Seq(S) /\ Len(<<p, q, r, s>>) = 4
         /\ <<p, q, r, s>>[1] = p /\ <<p, q, r, s>>[2] = q
         /\ <<p, q, r, s>>[3] = r /\ <<p, q, r, s>>[4] = s
OBVIOUS

LEMMA Five ==
  ASSUME NEW S, NEW p \in S, NEW q \in S, NEW r \in S, NEW s \in S, NEW t \in S
  PROVE  /\ <<p, q, r, s, t>> \in Seq(S) /\ Len(<<p, q, r, s, t>>) = 5
         /\ <<p, q, r, s, t>>[1] = p /\ <<p, q, r, s, t>>[2] = q
         /\ <<p, q, r, s, t>>[3] = r /\ <<p, q, r, s, t>>[4] = s
         /\ <<p, q, r, s, t>>[5] = t
OBVIOUS

LEMMA MarshalLines ==
  ASSUME NEW c \in [Paths -> Values]
  PROVE  /\ Marshal(c) \in Seq(Lines) /\ Len(Marshal(c)) = 9 + Extra(c)
         /\ Marshal(c)[1] = Line(0, "bandwidth", "")
         /\ Marshal(c)[2] = Line(1, Rate[2], c[Rate])
         /\ Marshal(c)[3] = Line(0, "webhook", "")
         /\ Marshal(c)[4] = Line(1, Alerts[2], c[Alerts])
         /\ Marshal(c)[5] = Line(1, "endpoints", "")
         /\ c[Url] # "" => /\ Marshal(c)[6] = Line(2, Url[3], c[Url])
                           /\ Marshal(c)[7] = Line(2, Endpoint[3], c[Endpoint])
         /\ Marshal(c)[6 + Extra(c)] = Line(0, "api", "")
         /\ Marshal(c)[7 + Extra(c)] = Line(1, Api[2], c[Api])
         /\ Marshal(c)[8 + Extra(c)] = Line(1, Token[2], c[Token])
         /\ Marshal(c)[9 + Extra(c)] = Line(0, Zone[1], c[Zone])
<1>1. /\ c[Rate] \in Values /\ c[Alerts] \in Values /\ c[Url] \in Values
      /\ c[Endpoint] \in Values /\ c[Api] \in Values /\ c[Token] \in Values
      /\ c[Zone] \in Values /\ "" \in Values
  BY DEF Paths, Values
<1>2. 0 \in 0..2 /\ 1 \in 0..2 /\ 2 \in 0..2
  OBVIOUS
<1>3. /\ Line(0, "bandwidth", "") \in Lines /\ Line(1, Rate[2], c[Rate]) \in Lines
      /\ Line(0, "webhook", "") \in Lines /\ Line(1, Alerts[2], c[Alerts]) \in Lines
      /\ Line(1, "endpoints", "") \in Lines
  BY <1>1, <1>2, KeysWritten, LineType, Zenon
<1>4. Line(2, Url[3], c[Url]) \in Lines /\ Line(2, Endpoint[3], c[Endpoint]) \in Lines
  BY <1>1, <1>2, KeysWritten, LineType, Zenon
<1>5. /\ Line(0, "api", "") \in Lines /\ Line(1, Api[2], c[Api]) \in Lines
      /\ Line(1, Token[2], c[Token]) \in Lines /\ Line(0, Zone[1], c[Zone]) \in Lines
  BY <1>1, <1>2, KeysWritten, LineType, Zenon
<1>6. /\ Opening(c) \in Seq(Lines) /\ Len(Opening(c)) = 5
      /\ Opening(c)[1] = Line(0, "bandwidth", "") /\ Opening(c)[2] = Line(1, Rate[2], c[Rate])
      /\ Opening(c)[3] = Line(0, "webhook", "") /\ Opening(c)[4] = Line(1, Alerts[2], c[Alerts])
      /\ Opening(c)[5] = Line(1, "endpoints", "")
  <2> DEFINE p == Line(0, "bandwidth", "")
             q == Line(1, Rate[2], c[Rate])
             r == Line(0, "webhook", "")
             s == Line(1, Alerts[2], c[Alerts])
             t == Line(1, "endpoints", "")
  <2>1. p \in Lines /\ q \in Lines /\ r \in Lines /\ s \in Lines /\ t \in Lines
    BY <1>3
  <2>2. Opening(c) = <<p, q, r, s, t>>
    BY DEF Opening
  <2> HIDE DEF p, q, r, s, t
  <2>3. /\ Opening(c) \in Seq(Lines) /\ Len(Opening(c)) = 5
        /\ Opening(c)[1] = p /\ Opening(c)[2] = q /\ Opening(c)[3] = r
        /\ Opening(c)[4] = s /\ Opening(c)[5] = t
    BY <2>1, <2>2, Five
  <2> QED BY <2>3 DEF p, q, r, s, t
<1>7. /\ Endpoints(c) \in Seq(Lines) /\ Len(Endpoints(c)) = Extra(c)
      /\ c[Url] # "" => /\ Endpoints(c)[1] = Line(2, Url[3], c[Url])
                        /\ Endpoints(c)[2] = Line(2, Endpoint[3], c[Endpoint])
  <2>1. CASE c[Url] = ""
    <3>1. Endpoints(c) = <<>> /\ Extra(c) = 0
      BY <2>1 DEF Endpoints, Extra
    <3>2. <<>> \in Seq(Lines) /\ Len(<<>>) = 0
      OBVIOUS
    <3> QED BY <2>1, <3>1, <3>2, Zenon
  <2>2. CASE c[Url] # ""
    <3>1. Endpoints(c) = <<Line(2, Url[3], c[Url]), Line(2, Endpoint[3], c[Endpoint])>>
      BY <2>2 DEF Endpoints
    <3>2. Extra(c) = 2
      BY <2>2 DEF Extra
    <3> DEFINE p == Line(2, Url[3], c[Url])
               q == Line(2, Endpoint[3], c[Endpoint])
    <3>3. p \in Lines /\ q \in Lines
      BY <1>4
    <3>4. Endpoints(c) = <<p, q>>
      BY <3>1
    <3> HIDE DEF p, q
    <3>5. /\ Endpoints(c) \in Seq(Lines) /\ Len(Endpoints(c)) = 2
          /\ Endpoints(c)[1] = p /\ Endpoints(c)[2] = q
      BY <3>3, <3>4, Two
    <3> QED BY <3>2, <3>5 DEF p, q
  <2> QED BY <2>1, <2>2
<1>8. /\ Closing(c) \in Seq(Lines) /\ Len(Closing(c)) = 4
      /\ Closing(c)[1] = Line(0, "api", "") /\ Closing(c)[2] = Line(1, Api[2], c[Api])
      /\ Closing(c)[3] = Line(1, Token[2], c[Token]) /\ Closing(c)[4] = Line(0, Zone[1], c[Zone])
  BY <1>5, Four, Zenon DEF Closing
<1>9. Marshal(c) = (Opening(c) \o Endpoints(c)) \o Closing(c)
  BY DEF Marshal, Opening, Endpoints, Closing
<1>10. Extra(c) \in {0, 2} /\ (c[Url] # "" => Extra(c) = 2)
  BY DEF Extra
<1> DEFINE f == Opening(c)
           g == Endpoints(c)
           h == Closing(c)
           e == Extra(c)
<1>11. f \in Seq(Lines) /\ g \in Seq(Lines) /\ h \in Seq(Lines)
       /\ Len(f) = 5 /\ Len(g) = e /\ Len(h) = 4 /\ e \in {0, 2}
  BY <1>6, <1>7, <1>8, <1>10
<1> HIDE DEF f, g, h, e
<1>12. /\ f \o g \in Seq(Lines) /\ Len(f \o g) = 5 + e
       /\ \A i \in 1..5 : (f \o g)[i] = f[i]
       /\ \A i \in 1..e : (f \o g)[5 + i] = g[i]
  <2>1. /\ f \o g \in Seq(Lines) /\ Len(f \o g) = Len(f) + Len(g)
        /\ \A i \in 1..Len(f) + Len(g) :
             (f \o g)[i] = IF i <= Len(f) THEN f[i] ELSE g[i - Len(f)]
    BY <1>11, ConcatProperties
  <2> QED BY <1>11, <2>1
<1> DEFINE fg == f \o g
           m == fg \o h
<1>13. fg \in Seq(Lines) /\ Len(fg) = 5 + e
  BY <1>12
<1> HIDE DEF fg
<1>14. /\ m \in Seq(Lines) /\ Len(m) = 9 + e
       /\ \A i \in 1..5 + e : m[i] = fg[i]
       /\ \A i \in 1..4 : m[5 + e + i] = h[i]
  <2>1. /\ m \in Seq(Lines) /\ Len(m) = Len(fg) + Len(h)
        /\ \A i \in 1..Len(fg) + Len(h) :
             m[i] = IF i <= Len(fg) THEN fg[i] ELSE h[i - Len(fg)]
    BY <1>11, <1>13, ConcatProperties
  <2> QED BY <1>11, <1>13, <2>1
<1>15. m = Marshal(c)
  BY <1>9 DEF fg, f, g, h
<1> HIDE DEF m
<1>16. /\ \A i \in 1..5 : m[i] = f[i]
       /\ e = 2 => m[6] = g[1] /\ m[7] = g[2]
       /\ m[6 + e] = h[1] /\ m[7 + e] = h[2] /\ m[8 + e] = h[3] /\ m[9 + e] = h[4]
  <2>1. \A i \in 1..5 : fg[i] = f[i]
    BY <1>12 DEF fg
  <2>2. e = 2 => fg[6] = g[1] /\ fg[7] = g[2]
    BY <1>12 DEF fg
  <2> QED BY <1>11, <1>14, <2>1, <2>2
<1>17. /\ m[1] = f[1] /\ m[2] = f[2] /\ m[3] = f[3] /\ m[4] = f[4] /\ m[5] = f[5]
  BY <1>16
<1> QED BY <1>6, <1>7, <1>8, <1>10, <1>14, <1>15, <1>16, <1>17, Zenon DEF f, g, h, e

\* The line i of m has this depth, key and value.
Has(m, i, depth, key, value) ==
  i \in DOMAIN m /\ m[i].depth = depth /\ m[i].key = key /\ m[i].value = value

\* The lines of what Save writes, with e of them for the endpoint.
Layout(m, c, e) ==
  /\ m \in Seq(Lines) /\ DOMAIN m = 1..9 + e
  /\ Has(m, 1, 0, "bandwidth", "") /\ Has(m, 2, 1, "default_rx_mbps", c[Rate])
  /\ Has(m, 3, 0, "webhook", "") /\ Has(m, 4, 1, "enabled", c[Alerts])
  /\ Has(m, 5, 1, "endpoints", "")
  /\ e = 2 => Has(m, 6, 2, "url", c[Url]) /\ Has(m, 7, 2, "enabled", c[Endpoint])
  /\ Has(m, 6 + e, 0, "api", "") /\ Has(m, 7 + e, 1, "enabled", c[Api])
  /\ Has(m, 8 + e, 1, "auth_token", c[Token]) /\ Has(m, 9 + e, 0, "timezone", c[Zone])

LEMMA Positions ==
  ASSUME NEW e \in Nat
  PROVE  /\ \A i \in 1..5 : i \in 1..9 + e
         /\ 6 + e \in 1..9 + e /\ 7 + e \in 1..9 + e /\ 8 + e \in 1..9 + e /\ 9 + e \in 1..9 + e
         /\ e = 2 => 6 \in 1..9 + e /\ 7 \in 1..9 + e
OBVIOUS

LEMMA MarshalLayout ==
  ASSUME NEW c \in [Paths -> Values]
  PROVE  Layout(Marshal(c), c, Extra(c))
<1>1. /\ c[Rate] \in Values /\ c[Alerts] \in Values /\ c[Url] \in Values
      /\ c[Endpoint] \in Values /\ c[Api] \in Values /\ c[Token] \in Values
      /\ c[Zone] \in Values /\ "" \in Values
  BY DEF Paths, Values
<1> DEFINE m == Marshal(c)
           e == Extra(c)
<1>2. m \in Seq(Lines) /\ Len(m) = 9 + e
  BY MarshalLines
<1>3. DOMAIN m = 1..9 + e
  BY <1>2, DocumentType
<1>4. e \in Nat /\ (e = 2 => c[Url] # "")
  <2>1. CASE c[Url] = ""
    <3>1. e = 0
      BY <2>1 DEF Extra
    <3> HIDE DEF e
    <3> QED BY <3>1
  <2>2. CASE c[Url] # ""
    <3>1. e = 2
      BY <2>2 DEF Extra
    <3> HIDE DEF e
    <3> QED BY <2>2, <3>1
  <2> QED BY <2>1, <2>2
<1>5. /\ 1 \in DOMAIN m /\ 2 \in DOMAIN m /\ 3 \in DOMAIN m /\ 4 \in DOMAIN m /\ 5 \in DOMAIN m
      /\ e = 2 => 6 \in DOMAIN m /\ 7 \in DOMAIN m
      /\ 6 + e \in DOMAIN m /\ 7 + e \in DOMAIN m /\ 8 + e \in DOMAIN m /\ 9 + e \in DOMAIN m
  <2>1. 1 \in 1..5 /\ 2 \in 1..5 /\ 3 \in 1..5 /\ 4 \in 1..5 /\ 5 \in 1..5
    OBVIOUS
  <2> HIDE DEF m, e
  <2> QED BY <1>3, <1>4, <2>1, Positions, Zenon
<1>6. 0 \in 0..2 /\ 1 \in 0..2 /\ 2 \in 0..2
  OBVIOUS
<1>7. /\ m[1] = Line(0, "bandwidth", "") /\ m[2] = Line(1, Rate[2], c[Rate])
      /\ m[3] = Line(0, "webhook", "") /\ m[4] = Line(1, Alerts[2], c[Alerts])
      /\ m[5] = Line(1, "endpoints", "")
      /\ e = 2 => /\ m[6] = Line(2, Url[3], c[Url])
                  /\ m[7] = Line(2, Endpoint[3], c[Endpoint])
      /\ m[6 + e] = Line(0, "api", "") /\ m[7 + e] = Line(1, Api[2], c[Api])
      /\ m[8 + e] = Line(1, Token[2], c[Token]) /\ m[9 + e] = Line(0, Zone[1], c[Zone])
  BY <1>4, MarshalLines, Zenon
<1> HIDE DEF m, e
<1>8. \A depth \in 0..2 : \A key \in Keys : \A value \in Values : \A i \in DOMAIN m :
        m[i] = Line(depth, key, value) => Has(m, i, depth, key, value)
  BY LineType DEF Has
<1>9. Has(m, 1, 0, "bandwidth", "") /\ Has(m, 3, 0, "webhook", "")
      /\ Has(m, 5, 1, "endpoints", "") /\ Has(m, 6 + e, 0, "api", "")
  BY <1>1, <1>5, <1>6, <1>7, <1>8, KeysWritten, Zenon
<1>10. /\ Has(m, 2, 1, Rate[2], c[Rate]) /\ Has(m, 4, 1, Alerts[2], c[Alerts])
       /\ Has(m, 7 + e, 1, Api[2], c[Api]) /\ Has(m, 8 + e, 1, Token[2], c[Token])
       /\ Has(m, 9 + e, 0, Zone[1], c[Zone])
  BY <1>1, <1>5, <1>6, <1>7, <1>8, KeysWritten, Zenon
<1>11. e = 2 => Has(m, 6, 2, Url[3], c[Url]) /\ Has(m, 7, 2, Endpoint[3], c[Endpoint])
  BY <1>1, <1>5, <1>6, <1>7, <1>8, KeysWritten, Zenon
<1>12. Layout(m, c, e)
  BY <1>2, <1>3, <1>9, <1>10, <1>11, PathParts, Zenon DEF Layout
<1> QED BY <1>12 DEF m, e

\* Every setting is at one line, of which the wizard finds the first.
LEMMA LayoutPaths ==
  ASSUME NEW c, NEW m, NEW e \in Nat, e \in {0, 2}, Layout(m, c, e)
  PROVE  /\ PathOf(m, 2) = Rate /\ PathOf(m, 4) = Alerts
         /\ PathOf(m, 7 + e) = Api /\ PathOf(m, 8 + e) = Token /\ PathOf(m, 9 + e) = Zone
         /\ e = 2 => PathOf(m, 6) = Url /\ PathOf(m, 7) = Endpoint
         /\ Section(m, 2) = "bandwidth" /\ Section(m, 4) = "webhook"
         /\ Section(m, 7 + e) = "api"
         /\ e = 2 => Section(m, 7) = "webhook"
<1>1. /\ m \in Seq(Lines) /\ DOMAIN m = 1..9 + e
      /\ Has(m, 1, 0, "bandwidth", "") /\ Has(m, 2, 1, "default_rx_mbps", c[Rate])
      /\ Has(m, 3, 0, "webhook", "") /\ Has(m, 4, 1, "enabled", c[Alerts])
      /\ Has(m, 5, 1, "endpoints", "")
      /\ e = 2 => Has(m, 6, 2, "url", c[Url]) /\ Has(m, 7, 2, "enabled", c[Endpoint])
      /\ Has(m, 6 + e, 0, "api", "") /\ Has(m, 7 + e, 1, "enabled", c[Api])
      /\ Has(m, 8 + e, 1, "auth_token", c[Token])
      /\ Has(m, 9 + e, 0, "timezone", c[Zone])
  BY Zenon DEF Layout
<1>0. /\ m[2].depth > 0 /\ m[4].depth > 0 /\ m[5].depth > 0
      /\ m[7 + e].depth > 0 /\ m[8 + e].depth > 0
      /\ e = 2 => m[6].depth > 0 /\ m[7].depth > 0 /\ m[6].depth > 1 /\ m[7].depth > 1
  <2>1. /\ m[2].depth = 1 /\ m[4].depth = 1 /\ m[5].depth = 1
        /\ m[7 + e].depth = 1 /\ m[8 + e].depth = 1
        /\ e = 2 => m[6].depth = 2 /\ m[7].depth = 2
    BY <1>1, Zenon DEF Has
  <2>2. 1 > 0 /\ 2 > 0 /\ 2 > 1
    OBVIOUS
  <2> QED BY <2>1, <2>2, Zenon
<1>2. PathOf(m, 9 + e) = <<"timezone">>
  BY <1>1, TopPath DEF Has
<1>3. PathOf(m, 2) = <<"bandwidth", "default_rx_mbps">> /\ Section(m, 2) = "bandwidth"
  <2>1. 1 \in 1..2 /\ \A k \in 1+1..2 : m[k].depth > 0
    <3>1. 1 \in 1..2 /\ \A k \in 1+1..2 : k = 2
      OBVIOUS
    <3> QED BY <1>0, <3>1, Zenon
  <2> QED BY <1>1, <2>1, InnerPath DEF Has
<1>4. PathOf(m, 4) = <<"webhook", "enabled">> /\ Section(m, 4) = "webhook"
  <2>1. 3 \in 1..4 /\ \A k \in 3+1..4 : m[k].depth > 0
    <3>1. 3 \in 1..4 /\ \A k \in 3+1..4 : k = 4
      OBVIOUS
    <3> QED BY <1>0, <3>1, Zenon
  <2> QED BY <1>1, <2>1, InnerPath DEF Has
<1>5. PathOf(m, 7 + e) = <<"api", "enabled">> /\ Section(m, 7 + e) = "api"
  <2>1. 6 + e \in 1..(7 + e) /\ \A k \in (6 + e)+1..(7 + e) : m[k].depth > 0
    <3>1. 6 + e \in 1..(7 + e) /\ \A k \in (6 + e)+1..(7 + e) : k = 7 + e
      OBVIOUS
    <3> QED BY <1>0, <3>1, Zenon
  <2> QED BY <1>1, <2>1, InnerPath DEF Has
<1>6. PathOf(m, 8 + e) = <<"api", "auth_token">>
  <2>1. 6 + e \in 1..(8 + e) /\ \A k \in (6 + e)+1..(8 + e) : m[k].depth > 0
    <3>1. 6 + e \in 1..(8 + e) /\ \A k \in (6 + e)+1..(8 + e) : k = 7 + e \/ k = 8 + e
      OBVIOUS
    <3> QED BY <1>0, <3>1, Zenon
  <2> QED BY <1>1, <2>1, InnerPath DEF Has
<1>7. e = 2 => PathOf(m, 6) = <<"webhook", "endpoints", "url">>
  <2> SUFFICES ASSUME e = 2 PROVE PathOf(m, 6) = <<"webhook", "endpoints", "url">>
    OBVIOUS
  <2>1. 3 \in 1..6 /\ \A k \in 3+1..6 : m[k].depth > 0
    <3>1. 3 \in 1..6 /\ \A k \in 3+1..6 : k = 4 \/ k = 5 \/ k = 6
      OBVIOUS
    <3> QED BY <1>0, <3>1, Zenon
  <2>2. 5 \in 1..6 /\ \A k \in 5+1..6 : m[k].depth > 1
    <3>1. 5 \in 1..6 /\ \A k \in 5+1..6 : k = 6
      OBVIOUS
    <3> QED BY <1>0, <3>1, Zenon
  <2>3. m[3].depth = 0 /\ m[3].key = "webhook" /\ m[5].depth = 1 /\ m[5].key = "endpoints"
        /\ m[6].depth = 2 /\ m[6].key = "url" /\ 6 \in DOMAIN m
    BY <1>1 DEF Has
  <2> QED BY <1>1, <2>1, <2>2, <2>3, DeepPath, Zenon
<1>8. e = 2 => PathOf(m, 7) = <<"webhook", "endpoints", "enabled">> /\ Section(m, 7) = "webhook"
  <2> SUFFICES ASSUME e = 2
               PROVE  PathOf(m, 7) = <<"webhook", "endpoints", "enabled">>
                      /\ Section(m, 7) = "webhook"
    OBVIOUS
  <2>1. 3 \in 1..7 /\ \A k \in 3+1..7 : m[k].depth > 0
    <3>1. 3 \in 1..7 /\ \A k \in 3+1..7 : k = 4 \/ k = 5 \/ k = 6 \/ k = 7
      OBVIOUS
    <3> QED BY <1>0, <3>1, Zenon
  <2>2. 5 \in 1..7 /\ \A k \in 5+1..7 : m[k].depth > 1
    <3>1. 5 \in 1..7 /\ \A k \in 5+1..7 : k = 6 \/ k = 7
      OBVIOUS
    <3> QED BY <1>0, <3>1, Zenon
  <2>3. m[3].depth = 0 /\ m[3].key = "webhook" /\ m[5].depth = 1 /\ m[5].key = "endpoints"
        /\ m[7].depth = 2 /\ m[7].key = "enabled" /\ 7 \in DOMAIN m
    BY <1>1 DEF Has
  <2> QED BY <1>1, <2>1, <2>2, <2>3, DeepPath, Zenon
<1> QED BY <1>2, <1>3, <1>4, <1>5, <1>6, <1>7, <1>8, Zenon
        DEF Rate, Zone, Alerts, Api, Token, Url, Endpoint

\* A setting with one line is at that line.
LEMMA HeldOnce ==
  ASSUME NEW doc \in Seq(Lines), NEW path \in Paths, NEW i \in DOMAIN doc,
         doc[i].key = path[Len(path)], PathOf(doc, i) = path,
         \A j \in DOMAIN doc : j # i => doc[j].key # path[Len(path)] \/ PathOf(doc, j) # path
  PROVE  /\ Held(doc, path) # {} /\ Min(Held(doc, path)) = i
         /\ Load(doc)[path] = doc[i].value
<1>1. Held(doc, path) = {i}
  BY DEF Held
<1>2. Min({i}) = i
  <2>1. i \in Nat /\ {i} \in SUBSET Nat /\ i \in {i} /\ \A j \in {i} : i <= j
    BY DocumentType
  <2> QED BY <2>1, LeastIs
<1> QED BY <1>1, <1>2 DEF Load

LEMMA HitsFirst ==
  ASSUME NEW doc \in Seq(Lines), NEW path, NEW i \in Hits(doc, path),
         \A j \in Hits(doc, path) : i <= j
  PROVE  Hits(doc, path) # {} /\ Min(Hits(doc, path)) = i
BY FoundType, LeastIs

\* Save writes a document that the wizard and YAML read alike, and that has
\* the settings it was given.
LEMMA MarshalPlain ==
  ASSUME NEW c, Sound(c)
  PROVE  Plain(Marshal(c)) /\ Load(Marshal(c)) = c
<1> DEFINE m == Marshal(c)
           e == Extra(c)
<1>1. c \in [Paths -> Values] /\ Layout(m, c, e)
  BY MarshalLayout DEF Sound
<1>2. (c[Url] = "" /\ e = 0) \/ (c[Url] # "" /\ e = 2)
  BY Zenon DEF Extra
<1>3. e \in Nat /\ e \in {0, 2}
  <2>1. 0 \in Nat /\ 2 \in Nat /\ 0 \in {0, 2} /\ 2 \in {0, 2}
    OBVIOUS
  <2> QED BY <1>2, <2>1, Zenon
<1> HIDE DEF m, e
<1>4. m \in Seq(Lines) /\ DOMAIN m = 1..9 + e /\ m[1].depth = 0 /\ 1 \in DOMAIN m
  BY <1>1, Zenon DEF Layout, Has
<1>5. m # Empty
  BY <1>4, EmptyFound, Zenon
<1>6. /\ m[1].key = "bandwidth" /\ m[2].key = "default_rx_mbps" /\ m[3].key = "webhook"
      /\ m[4].key = "enabled" /\ m[5].key = "endpoints"
      /\ e = 2 => m[6].key = "url" /\ m[7].key = "enabled"
      /\ m[6 + e].key = "api" /\ m[7 + e].key = "enabled" /\ m[8 + e].key = "auth_token"
      /\ m[9 + e].key = "timezone"
  BY <1>1, Zenon DEF Layout, Has
<1>7. /\ m[2].value = c[Rate] /\ m[4].value = c[Alerts]
      /\ e = 2 => m[6].value = c[Url] /\ m[7].value = c[Endpoint]
      /\ m[7 + e].value = c[Api] /\ m[8 + e].value = c[Token] /\ m[9 + e].value = c[Zone]
  BY <1>1, Zenon DEF Layout, Has
<1>8. /\ m[2].depth = 1 /\ m[4].depth = 1 /\ m[7 + e].depth = 1 /\ m[9 + e].depth = 0
      /\ 2 \in DOMAIN m /\ 4 \in DOMAIN m /\ 7 + e \in DOMAIN m /\ 8 + e \in DOMAIN m
      /\ 9 + e \in DOMAIN m
      /\ e = 2 => 6 \in DOMAIN m /\ 7 \in DOMAIN m
  BY <1>1, Zenon DEF Layout, Has
<1>9. \A i \in DOMAIN m :
        \/ i = 1 \/ i = 2 \/ i = 3 \/ i = 4 \/ i = 5 \/ (e = 2 /\ i = 6) \/ (e = 2 /\ i = 7)
        \/ i = 6 + e \/ i = 7 + e \/ i = 8 + e \/ i = 9 + e
  BY <1>3, <1>4
<1>10. /\ "bandwidth" # "default_rx_mbps" /\ "webhook" # "default_rx_mbps"
       /\ "enabled" # "default_rx_mbps" /\ "endpoints" # "default_rx_mbps"
       /\ "url" # "default_rx_mbps" /\ "api" # "default_rx_mbps"
       /\ "auth_token" # "default_rx_mbps" /\ "timezone" # "default_rx_mbps"
       /\ "bandwidth" # "enabled" /\ "webhook" # "enabled" /\ "endpoints" # "enabled"
       /\ "url" # "enabled" /\ "api" # "enabled" /\ "auth_token" # "enabled"
       /\ "timezone" # "enabled"
       /\ "bandwidth" # "timezone" /\ "webhook" # "timezone" /\ "endpoints" # "timezone"
       /\ "url" # "timezone" /\ "api" # "timezone" /\ "auth_token" # "timezone"
       /\ "bandwidth" # "auth_token" /\ "webhook" # "auth_token" /\ "endpoints" # "auth_token"
       /\ "url" # "auth_token" /\ "api" # "auth_token"
       /\ "bandwidth" # "url" /\ "webhook" # "url" /\ "endpoints" # "url" /\ "api" # "url"
       /\ "webhook" # "api"
  OBVIOUS
<1>11. /\ PathOf(m, 2) = Rate /\ PathOf(m, 4) = Alerts
       /\ PathOf(m, 7 + e) = Api /\ PathOf(m, 8 + e) = Token /\ PathOf(m, 9 + e) = Zone
       /\ e = 2 => PathOf(m, 6) = Url /\ PathOf(m, 7) = Endpoint
       /\ Section(m, 2) = "bandwidth" /\ Section(m, 4) = "webhook"
       /\ Section(m, 7 + e) = "api"
       /\ e = 2 => Section(m, 7) = "webhook"
  BY <1>1, <1>3, LayoutPaths
<1>12. /\ Rate \in Paths /\ Zone \in Paths /\ Alerts \in Paths /\ Url \in Paths
       /\ Endpoint \in Paths /\ Api \in Paths /\ Token \in Paths
  BY Zenon DEF Paths
<1>13. \A j \in DOMAIN m :
         m[j].key = "enabled" => j = 4 \/ (e = 2 /\ j = 7) \/ j = 7 + e
  BY <1>6, <1>9, <1>10, Zenon
<1>14. Held(m, Rate) # {} /\ Min(Held(m, Rate)) = 2 /\ Load(m)[Rate] = c[Rate]
  <2>1. \A j \in DOMAIN m : j # 2 => m[j].key # Rate[Len(Rate)]
    BY <1>6, <1>9, <1>10, PathParts, Zenon
  <2>2. m[2].key = Rate[Len(Rate)]
    BY <1>6, PathParts, Zenon
  <2> QED BY <1>4, <1>7, <1>8, <1>11, <1>12, <2>1, <2>2, HeldOnce, Zenon
<1>15. Held(m, Zone) # {} /\ Min(Held(m, Zone)) = 9 + e /\ Load(m)[Zone] = c[Zone]
  <2>1. \A j \in DOMAIN m : j # 9 + e => m[j].key # Zone[Len(Zone)]
    BY <1>6, <1>9, <1>10, PathParts, Zenon
  <2>2. m[9 + e].key = Zone[Len(Zone)]
    BY <1>6, PathParts, Zenon
  <2> QED BY <1>4, <1>7, <1>8, <1>11, <1>12, <2>1, <2>2, HeldOnce, Zenon
<1>16. Load(m)[Token] = c[Token]
  <2>1. \A j \in DOMAIN m : j # 8 + e => m[j].key # Token[Len(Token)]
    BY <1>6, <1>9, <1>10, PathParts, Zenon
  <2>2. m[8 + e].key = Token[Len(Token)]
    BY <1>6, PathParts, Zenon
  <2> QED BY <1>4, <1>7, <1>8, <1>11, <1>12, <2>1, <2>2, HeldOnce, Zenon
<1>17. Held(m, Alerts) # {} /\ Min(Held(m, Alerts)) = 4 /\ Load(m)[Alerts] = c[Alerts]
  <2>1. \A j \in DOMAIN m :
          j # 4 => m[j].key # Alerts[Len(Alerts)] \/ PathOf(m, j) # Alerts
    BY <1>11, <1>13, PathParts, Zenon
  <2>2. m[4].key = Alerts[Len(Alerts)]
    BY <1>6, PathParts, Zenon
  <2> QED BY <1>4, <1>7, <1>8, <1>11, <1>12, <2>1, <2>2, HeldOnce, Zenon
<1>18. Held(m, Api) # {} /\ Min(Held(m, Api)) = 7 + e /\ Load(m)[Api] = c[Api]
  <2>1. \A j \in DOMAIN m : j # 7 + e => m[j].key # Api[Len(Api)] \/ PathOf(m, j) # Api
    BY <1>11, <1>13, PathParts, Zenon
  <2>2. m[7 + e].key = Api[Len(Api)]
    BY <1>6, PathParts, Zenon
  <2> QED BY <1>4, <1>7, <1>8, <1>11, <1>12, <2>1, <2>2, HeldOnce, Zenon
<1>19. Load(m)[Url] = c[Url] /\ Load(m)[Endpoint] = c[Endpoint]
  <2>1. CASE e = 2
    <3>1. \A j \in DOMAIN m : j # 6 => m[j].key # Url[Len(Url)]
      BY <1>6, <1>9, <1>10, <2>1, PathParts, Zenon
    <3>2. \A j \in DOMAIN m :
            j # 7 => m[j].key # Endpoint[Len(Endpoint)] \/ PathOf(m, j) # Endpoint
      BY <1>11, <1>13, PathParts, Zenon
    <3>3. m[6].key = Url[Len(Url)] /\ m[7].key = Endpoint[Len(Endpoint)]
      BY <1>6, <2>1, PathParts, Zenon
    <3>4. Load(m)[Url] = c[Url]
      BY <1>4, <1>7, <1>8, <1>11, <1>12, <2>1, <3>1, <3>3, HeldOnce, Zenon
    <3>5. Load(m)[Endpoint] = c[Endpoint]
      BY <1>4, <1>7, <1>8, <1>11, <1>12, <2>1, <3>2, <3>3, HeldOnce, Zenon
    <3> QED BY <3>4, <3>5
  <2>2. CASE e # 2
    <3>1. c[Url] = ""
      BY <1>2, <2>2
    <3>2. \A j \in DOMAIN m : m[j].key # Url[Len(Url)]
      BY <1>6, <1>9, <1>10, <2>2, PathParts, Zenon
    <3>3. \A j \in DOMAIN m : m[j].key # Endpoint[Len(Endpoint)] \/ PathOf(m, j) # Endpoint
      BY <1>6, <1>9, <1>10, <1>11, <2>2, PathParts, Zenon
    <3>4. Held(m, Url) = {} /\ Held(m, Endpoint) = {}
      BY <3>2, <3>3 DEF Held
    <3>5. Load(m)[Url] = Default[Url] /\ Load(m)[Endpoint] = Default[Endpoint]
      BY <1>12, <3>4, Zenon DEF Load
    <3>6. Default[Url] = ""
      BY DEF Default, Paths, Rate, Zone, Url
    <3> QED BY <3>1, <3>5, <3>6, Zenon DEF Sound
  <2> QED BY <2>1, <2>2
<1>20. Load(m) = c
  <2>1. \A path \in Paths : Load(m)[path] = c[path]
    BY <1>14, <1>15, <1>16, <1>17, <1>18, <1>19, Zenon DEF Paths
  <2> QED BY <1>1, <2>1 DEF Load
<1>21. Hits(m, Rate) # {} /\ Min(Hits(m, Rate)) = 2
  <2>1. 2 \in Hits(m, Rate)
    BY <1>6, <1>8, <1>11, PathParts, Lengths DEF Hits
  <2>2. \A j \in Hits(m, Rate) : m[j].key = "default_rx_mbps" /\ j \in DOMAIN m
    BY PathParts, Lengths DEF Hits
  <2>3. \A j \in Hits(m, Rate) : j = 2
    BY <1>6, <1>9, <1>10, <2>2, Zenon
  <2>4. \A j \in Hits(m, Rate) : 2 <= j
    BY <2>3
  <2> QED BY <1>4, <2>1, <2>4, HitsFirst, Zenon
<1>22. Hits(m, Zone) # {} /\ Min(Hits(m, Zone)) = 9 + e
  <2>1. 9 + e \in Hits(m, Zone)
    BY <1>6, <1>8, <1>11, PathParts, Lengths DEF Hits
  <2>2. \A j \in Hits(m, Zone) : m[j].key = "timezone" /\ j \in DOMAIN m
    BY PathParts, Lengths DEF Hits
  <2>3. \A j \in Hits(m, Zone) : j = 9 + e
    BY <1>6, <1>9, <1>10, <2>2, Zenon
  <2>4. \A j \in Hits(m, Zone) : 9 + e <= j
    BY <1>3, <2>3
  <2> QED BY <1>4, <2>1, <2>4, HitsFirst, Zenon
<1>23. Hits(m, Alerts) # {} /\ Min(Hits(m, Alerts)) = 4
  <2>1. 4 \in Hits(m, Alerts)
    BY <1>6, <1>8, <1>11, PathParts, Lengths DEF Hits
  <2>2. \A j \in Hits(m, Alerts) : m[j].key = "enabled" /\ j \in DOMAIN m
    BY PathParts, Lengths DEF Hits
  <2>3. \A j \in Hits(m, Alerts) : j = 4 \/ j = 7 \/ j = 7 + e
    BY <1>6, <1>9, <1>10, <2>2, Zenon
  <2>4. \A j \in Hits(m, Alerts) : 4 <= j
    BY <1>3, <2>3
  <2> QED BY <1>4, <2>1, <2>4, HitsFirst, Zenon
<1>24. Hits(m, Api) # {} /\ Min(Hits(m, Api)) = 7 + e
  <2>1. 7 + e \in Hits(m, Api)
    BY <1>6, <1>8, <1>11, PathParts, Lengths DEF Hits
  <2>2. \A j \in Hits(m, Api) :
          m[j].key = "enabled" /\ Section(m, j) = "api" /\ j \in DOMAIN m
    BY PathParts, Lengths DEF Hits
  <2>3. \A j \in Hits(m, Api) : j = 7 + e
    BY <1>6, <1>9, <1>10, <1>11, <2>2, Zenon
  <2>4. \A j \in Hits(m, Api) : 7 + e <= j
    BY <1>3, <2>3
  <2> QED BY <1>4, <2>1, <2>4, HitsFirst, Zenon
<1>25. Plain(m)
  BY <1>4, <1>5, <1>14, <1>15, <1>17, <1>18, <1>20, <1>21, <1>22, <1>23, <1>24, Zenon
     DEF Plain, Editable
<1> QED BY <1>20, <1>25 DEF m

-----------------------------------------------------------------------------
(* Types.                                                                  *)

LEMMA ConfigFacts ==
  /\ Tokens \subseteq Values /\ Rates \subseteq Values /\ Zones \subseteq Values
  /\ Urls \subseteq Values /\ "" \in Values /\ "true" \in Values /\ "false" \in Values
  /\ "" \notin Tokens /\ "" \notin Rates /\ "" \notin Zones
  /\ "" # "true" /\ "" # "false"
  /\ Empty \in Seq(Lines) /\ Documents \subseteq Seq(Lines)
  /\ Default \in [Paths -> Values] /\ Kept \in [Paths -> Values]
  /\ Rate \in Paths /\ Zone \in Paths /\ Alerts \in Paths /\ Url \in Paths
  /\ Endpoint \in Paths /\ Api \in Paths /\ Token \in Paths
<1>1. "" \in Values /\ "true" \in Values /\ "false" \in Values
      /\ Tokens \subseteq Values /\ Rates \subseteq Values /\ Zones \subseteq Values
      /\ Urls \subseteq Values
  BY DEF Values
<1>2. Kept \in [Paths -> Values]
  BY <1>1 DEF Kept
<1>3. Default \in [Paths -> Values]
  BY DefaultSound DEF Sound
<1>4. "" \notin Tokens /\ "" \notin Rates /\ "" \notin Zones /\ Documents \subseteq Seq(Lines)
  BY ConfigAssumption DEF ConfigAssumption
<1>5. /\ Rate \in Paths /\ Zone \in Paths /\ Alerts \in Paths /\ Url \in Paths
      /\ Endpoint \in Paths /\ Api \in Paths /\ Token \in Paths
  BY Zenon DEF Paths
<1>6. "" # "true" /\ "" # "false"
  OBVIOUS
<1> QED BY <1>1, <1>2, <1>3, <1>4, <1>5, <1>6, EmptyFound, Zenon

\* What the prompts ask for.
LEMMA Questions ==
  /\ Len(Prompts) = 2 /\ Prompts[1] = Rate /\ Prompts[2] = Zone
  /\ 0 \in 0..Len(Prompts) /\ 0 < Len(Prompts)
  /\ \A i \in 0..Len(Prompts) : i < Len(Prompts) =>
       /\ i + 1 \in 0..Len(Prompts)
       /\ i + 1 # Len(Prompts) => i + 1 < Len(Prompts)
       /\ Prompts[i + 1] \in {Rate, Zone} /\ Prompts[i + 1] \in Editable
       /\ Inputs(Prompts[i + 1]) \subseteq Values \ {""}
<1>1. Len(Prompts) = 2 /\ Prompts[1] = Rate /\ Prompts[2] = Zone
  BY DEF Prompts
<1>2. Rate \in Editable /\ Zone \in Editable
  BY DEF Editable
<1>3. \A path : Inputs(path) \subseteq Values \ {""}
  BY ConfigFacts DEF Inputs
<1>4. ASSUME NEW i \in 0..2, i < 2 
      PROVE  /\ i + 1 \in 0..2 /\ (i + 1 = 1 \/ i + 1 = 2)
             /\ (i + 1 # 2 => i + 1 < 2)
  BY <1>4
<1>5. 0 \in 0..2 /\ 0 < 2
  OBVIOUS
<1> QED BY <1>1, <1>2, <1>3, <1>4, <1>5, Zenon

LEMMA EditedType ==
  ASSUME draft \in Seq(Lines), answered \in [Paths -> Values],
         NEW path \in Paths, NEW v \in Values, Edited(path, v)
  PROVE  draft' \in Seq(Lines) /\ answered' \in [Paths -> Values]
BY ReplaceType DEF Edited

LEMMA LeavesType ==
  ASSUME Leaves
  PROVE  /\ stage' \in Stages /\ stage' # "prompt" /\ asked' \in 0..Len(Prompts)
         /\ base' \in Seq(Lines) /\ draft' \in Seq(Lines) /\ answered' \in [Paths -> Values]
<1>1. stage' = "away" /\ asked' = 0 /\ base' = Empty /\ draft' = Empty /\ answered' = Kept
  BY DEF Leaves
<1>2. stage' \in Stages /\ stage' # "prompt"
  BY <1>1 DEF Stages
<1> QED BY <1>1, <1>2, ConfigFacts, Questions, Zenon

LEMMA TypeStep ==
  ASSUME TypeOK, [Next]_vars
  PROVE  TypeOK'
<1> USE DEF daemon, wizard
<1>1. /\ file \in Seq(Lines) /\ read \in Seq(Lines) /\ base \in Seq(Lines)
      /\ draft \in Seq(Lines) /\ service \in Services /\ stage \in Stages
      /\ cfg \in [Paths -> Values] /\ meant \in [Paths -> Values] \cup {Unknown}
      /\ answered \in [Paths -> Values] /\ token \in Values /\ issued \subseteq Tokens
      /\ asked \in 0..Len(Prompts) /\ (stage = "prompt" => asked < Len(Prompts))
  BY DEF TypeOK
<1>2. SUFFICES
      /\ file' \in Seq(Lines) /\ read' \in Seq(Lines) /\ base' \in Seq(Lines)
      /\ draft' \in Seq(Lines) /\ service' \in Services /\ stage' \in Stages
      /\ cfg' \in [Paths -> Values] /\ meant' \in [Paths -> Values] \cup {Unknown}
      /\ answered' \in [Paths -> Values] /\ token' \in Values /\ issued' \subseteq Tokens
      /\ asked' \in 0..Len(Prompts) /\ (stage' = "prompt" => asked' < Len(Prompts))
  BY DEF TypeOK
<1>3. \A wrong \in BOOLEAN : MeantUnless(wrong) => meant' \in [Paths -> Values] \cup {Unknown}
  BY <1>1 DEF MeantUnless
<1>4. CASE Start
  <2>1. Load(file) \in [Paths -> Values]
    BY <1>1, LoadType
  <2> QED BY <1>1, <1>3, <1>4, <2>1, ConfigFacts DEF Start, Services
<1>5. CASE StartRefused
  BY <1>1, <1>5 DEF StartRefused, Services
<1>6. CASE New
  <2>1. /\ UNCHANGED wizard /\ read' = Empty
        /\ \/ service' = "up" /\ cfg' = Default /\ UNCHANGED <<file, token, issued, meant>>
           \/ /\ token' \in Tokens \ issued /\ issued' = issued \cup {token'}
              /\ \/ service' = "up" /\ cfg' = Default /\ UNCHANGED <<file, meant>>
                 \/ /\ service' = "saving" /\ file' = Empty
                    /\ cfg' = [cfg EXCEPT ![Token] = token']
                    /\ MeantUnless(file # read)
    BY <1>6 DEF New
  <2> QED BY <1>1, <1>3, <2>1, ConfigFacts DEF Services
<1>7. CASE Save
  <2>1. Marshal(cfg) \in Seq(Lines)
    BY <1>1, MarshalLines
  <2>2. meant # Unknown => [meant EXCEPT ![Token] = token] \in [Paths -> Values]
    BY <1>1
  <2> QED BY <1>1, <1>3, <1>7, <2>1, <2>2, ConfigFacts DEF Save, Services
<1>8. CASE Crash
  BY <1>1, <1>3, <1>8, ConfigFacts DEF Crash, Stopped, Services
<1>9. CASE Begin
  <2>1. asked' \in 0..Len(Prompts) /\ asked' < Len(Prompts)
    BY <1>9, Questions, Zenon DEF Begin
  <2> QED BY <1>1, <1>3, <1>9, <2>1, ConfigFacts DEF Begin, Stages
<1>10. CASE Prompt
  <2>1. /\ stage = "prompt" /\ UNCHANGED <<file, daemon, base, meant>>
        /\ asked' = asked + 1
        /\ stage' = IF asked' = Len(Prompts) THEN "alerts" ELSE "prompt"
    BY <1>10 DEF Prompt
  <2>2. draft' \in Seq(Lines) /\ answered' \in [Paths -> Values]
    <3>1. CASE UNCHANGED <<draft, answered>>
      BY <1>1, <3>1
    <3>2. CASE \E input \in Inputs(Prompts[asked + 1]) : Edited(Prompts[asked + 1], input)
      <4>1. Prompts[asked + 1] \in Paths /\ Inputs(Prompts[asked + 1]) \subseteq Values
        BY <1>1, <2>1, Questions DEF Editable, Paths
      <4> QED BY <1>1, <3>2, <4>1, EditedType
    <3> QED BY <1>10, <3>1, <3>2 DEF Prompt
  <2>3. asked' \in 0..Len(Prompts) /\ (asked' # Len(Prompts) => asked' < Len(Prompts))
    BY <1>1, <2>1, Questions, Zenon
  <2> QED BY <1>1, <2>1, <2>2, <2>3 DEF Stages
<1>11. CASE AlertChoice
  <2>1. draft' \in Seq(Lines) /\ answered' \in [Paths -> Values]
    BY <1>1, <1>11, ConfigFacts, EditedType DEF AlertChoice
  <2> QED BY <1>1, <1>11, <2>1 DEF AlertChoice, Stages
<1>12. CASE WebhookUrl
  <2>1. draft' \in Seq(Lines) /\ answered' \in [Paths -> Values]
    <3>1. CASE UNCHANGED <<draft, answered>>
      BY <1>1, <3>1
    <3>2. ASSUME NEW url \in Urls, draft' = Replace(Replace(draft, Url, url), Alerts, "true"),
                 answered' = [answered EXCEPT ![Url] = url, ![Alerts] = "true"]
          PROVE  draft' \in Seq(Lines) /\ answered' \in [Paths -> Values]
      BY <1>1, <3>2, ConfigFacts, ReplaceType
    <3> QED BY <1>12, <3>1, <3>2 DEF WebhookUrl
  <2> QED BY <1>1, <1>12, <2>1 DEF WebhookUrl, Stages
<1>13. CASE ApiChoice
  <2>1. draft' \in Seq(Lines) /\ answered' \in [Paths -> Values]
    BY <1>1, <1>13, ConfigFacts, EditedType DEF ApiChoice
  <2> QED BY <1>1, <1>13, <2>1 DEF ApiChoice, Stages
<1>14. CASE SaveChoice
  BY <1>1, <1>3, <1>14, ConfigFacts, LeavesType DEF SaveChoice, Stages
<1>15. CASE WriteDraft
  <2>1. CASE Leaves /\ MeantUnless(TRUE) /\ UNCHANGED file /\ UNCHANGED daemon
    BY <1>1, <1>3, <2>1, LeavesType
  <2>2. CASE /\ stage' = "saved" /\ file' = draft
             /\ meant' = IF meant = Unknown THEN meant
                         ELSE [path \in Paths |-> IF answered[path] = "" THEN meant[path]
                                                  ELSE answered[path]]
             /\ UNCHANGED <<asked, base, draft, answered>> /\ UNCHANGED daemon
    <3>1. meant' \in [Paths -> Values] \cup {Unknown}
      BY <1>1, <2>2
    <3> QED BY <1>1, <2>2, <3>1 DEF Stages
  <2> QED BY <1>15, <2>1, <2>2 DEF WriteDraft
<1>16. CASE Restart
  BY <1>1, <1>3, <1>16, ConfigFacts, LeavesType DEF Restart, Stopped, Services
<1>17. CASE Quit
  BY <1>1, <1>3, <1>17, LeavesType DEF Quit
<1>18. CASE UNCHANGED vars
  BY <1>1, <1>18 DEF vars
<1> QED BY <1>4, <1>5, <1>6, <1>7, <1>8, <1>9, <1>10, <1>11, <1>12, <1>13, <1>14, <1>15,
           <1>16, <1>17, <1>18 DEF Next, DaemonStep

LEMMA ConfigTypeInit == Init => TypeOK
<1> SUFFICES ASSUME Init PROVE TypeOK
  OBVIOUS
<1>1. file \in Seq(Lines) /\ Load(file) \in [Paths -> Values]
  BY ConfigFacts, LoadType DEF Init
<1>2. asked \in 0..Len(Prompts)
  BY Questions, Zenon DEF Init
<1> QED BY <1>1, <1>2, ConfigFacts DEF Init, TypeOK, Services, Stages

\* Whatever the documents look like, the daemon and the wizard only ever
\* write documents, and settings that have values.
THEOREM ConfigTypeCorrect == Spec => []TypeOK
<1>1. TypeOK /\ [Next]_vars => TypeOK'
  BY TypeStep
<1> QED BY <1>1, ConfigTypeInit, PTL DEF Spec

-----------------------------------------------------------------------------
(* The two writers.                                                        *)

\* Every copy of the file is whole, and a draft is empty only if the file was.
Docs ==
  /\ Whole(file) /\ Whole(read) /\ Whole(base) /\ Whole(draft)
  /\ Sound(cfg)
  /\ base = Empty <=> draft = Empty
  /\ stage = "away" => base = Empty

LEMMA WholeSound ==
  ASSUME NEW doc, Whole(doc)
  PROVE  Sound(Load(doc)) /\ doc \in Seq(Lines)
BY DefaultSound, EmptyFound DEF Whole, Plain

LEMMA ReplaceWhole ==
  ASSUME NEW doc, Whole(doc), NEW path \in Editable, NEW v \in Values \ {""}
  PROVE  /\ Whole(Replace(doc, path, v))
         /\ Replace(doc, path, v) = Empty <=> doc = Empty
         /\ doc # Empty =>
              Load(Replace(doc, path, v)) = [Load(doc) EXCEPT ![path] = v]
<1>1. CASE doc = Empty
  <2>1. Replace(doc, path, v) = Empty
    BY <1>1, EmptyFound DEF Replace
  <2> QED BY <1>1, <2>1 DEF Whole
<1>2. CASE doc # Empty
  <2>1. Plain(doc)
    BY <1>2 DEF Whole
  <2>2. /\ Plain(Replace(doc, path, v))
        /\ Load(Replace(doc, path, v)) = [Load(doc) EXCEPT ![path] = v]
    BY <2>1, ReplacePlain
  <2>3. Replace(doc, path, v) # Empty
    BY <2>2 DEF Plain
  <2> QED BY <1>2, <2>2, <2>3 DEF Whole
<1> QED BY <1>1, <1>2

LEMMA UrlNotFound ==
  ASSUME NEW doc, NEW v
  PROVE  Replace(doc, Url, v) = doc
<1>1. Hits(doc, Url) = {}
  BY Lengths DEF Hits
<1> QED BY <1>1 DEF Replace

LEMMA TokenSound ==
  ASSUME NEW c, Sound(c), NEW v \in Values
  PROVE  Sound([c EXCEPT ![Token] = v])
<1>1. Token # Rate /\ Token # Zone /\ Token # Url /\ Token # Endpoint
  <2>1. Len(Token) = 2 /\ Token[2] = "auth_token" /\ Rate[2] = "default_rx_mbps"
    BY DEF Token, Rate
  <2>2. "auth_token" # "default_rx_mbps" /\ 2 # 3 /\ 2 # 1
    OBVIOUS
  <2> QED BY <2>1, <2>2, Lengths, Zenon
<1>2. [c EXCEPT ![Token] = v] \in [Paths -> Values]
  BY DEF Sound
<1>3. \A path \in Paths : path # Token => [c EXCEPT ![Token] = v][path] = c[path]
  BY DEF Sound
<1> HIDE DEF Sound
<1>4. /\ [c EXCEPT ![Token] = v][Rate] = c[Rate] /\ [c EXCEPT ![Token] = v][Zone] = c[Zone]
      /\ [c EXCEPT ![Token] = v][Url] = c[Url]
      /\ [c EXCEPT ![Token] = v][Endpoint] = c[Endpoint]
  BY <1>1, <1>3, ConfigFacts, Zenon
<1> QED BY <1>2, <1>4, Zenon DEF Sound

\* What the answer to a question does to the draft.
LEMMA EditedWhole ==
  ASSUME Docs, NEW path \in Editable, NEW v \in Values \ {""}, Edited(path, v)
  PROVE  Whole(draft') /\ (draft' = Empty <=> draft = Empty)
BY ReplaceWhole DEF Docs, Edited

\* The draft of an answer to one of the prompts.
LEMMA PromptWhole ==
  ASSUME TypeOK, Docs, Prompt
  PROVE  Whole(draft') /\ (draft' = Empty <=> draft = Empty)
<1>1. stage = "prompt" /\ asked \in 0..Len(Prompts) /\ asked < Len(Prompts)
  BY DEF TypeOK, Prompt
<1>2. Prompts[asked + 1] \in Editable /\ Inputs(Prompts[asked + 1]) \subseteq Values \ {""}
  BY <1>1, Questions
<1>3. CASE UNCHANGED <<draft, answered>>
  BY <1>3 DEF Docs
<1>4. CASE \E input \in Inputs(Prompts[asked + 1]) : Edited(Prompts[asked + 1], input)
  BY <1>2, <1>4, EditedWhole
<1> QED BY <1>3, <1>4 DEF Prompt

LEMMA WebhookWhole ==
  ASSUME Docs, WebhookUrl
  PROVE  Whole(draft') /\ (draft' = Empty <=> draft = Empty)
<1>1. CASE UNCHANGED <<draft, answered>>
  BY <1>1 DEF Docs
<1>2. ASSUME NEW url \in Urls, draft' = Replace(Replace(draft, Url, url), Alerts, "true")
      PROVE  Whole(draft') /\ (draft' = Empty <=> draft = Empty)
  <2>1. draft' = Replace(draft, Alerts, "true")
    BY <1>2, UrlNotFound
  <2>2. Alerts \in Editable /\ "true" \in Values \ {""}
    BY ConfigFacts DEF Editable
  <2> QED BY <2>1, <2>2, ReplaceWhole DEF Docs
<1> QED BY <1>1, <1>2 DEF WebhookUrl

LEMMA DocsStep ==
  ASSUME TypeOK, Docs, [Next]_vars
  PROVE  Docs'
<1> USE DEF daemon, wizard
<1>1. /\ Whole(file) /\ Whole(read) /\ Whole(base) /\ Whole(draft) /\ Sound(cfg)
      /\ base = Empty <=> draft = Empty
      /\ stage = "away" => base = Empty
  BY DEF Docs
<1>2. SUFFICES
      /\ Whole(file') /\ Whole(read') /\ Whole(base') /\ Whole(draft') /\ Sound(cfg')
      /\ base' = Empty <=> draft' = Empty
      /\ stage' = "away" => base' = Empty
  BY DEF Docs
<1>3. Whole(Empty) /\ Sound(Default)
  BY DefaultSound DEF Whole
<1>4. Leaves => /\ Whole(base') /\ Whole(draft')
                /\ base' = Empty /\ draft' = Empty
  BY <1>3 DEF Leaves
<1>5. CASE Start
  BY <1>1, <1>5, WholeSound DEF Start
<1>6. CASE StartRefused
  BY <1>1, <1>6 DEF StartRefused
<1>7. CASE New
  <2>1. /\ UNCHANGED wizard /\ read' = Empty
        /\ \/ cfg' = Default /\ UNCHANGED file
           \/ token' \in Tokens /\ file' = Empty /\ cfg' = [cfg EXCEPT ![Token] = token']
    BY <1>7 DEF New
  <2>2. Sound(cfg') /\ Whole(file')
    <3>1. CASE cfg' = Default /\ UNCHANGED file
      BY <1>1, <1>3, <3>1
    <3>2. CASE token' \in Tokens /\ file' = Empty /\ cfg' = [cfg EXCEPT ![Token] = token']
      <4>1. Sound([cfg EXCEPT ![Token] = token'])
        BY <1>1, <3>2, ConfigFacts, TokenSound
      <4> QED BY <1>3, <3>2, <4>1
    <3> QED BY <2>1, <3>1, <3>2
  <2> QED BY <1>1, <1>3, <2>1, <2>2
<1>8. CASE Save
  <2>1. Whole(Marshal(cfg))
    BY <1>1, MarshalPlain DEF Whole
  <2> QED BY <1>1, <1>3, <1>8, <2>1 DEF Save
<1>9. CASE Crash
  BY <1>1, <1>3, <1>9 DEF Crash, Stopped
<1>10. CASE Begin
  BY <1>1, <1>10 DEF Begin
<1>11. CASE Prompt
  <2>1. stage' # "away" /\ stage # "away"
    BY <1>11 DEF Prompt
  <2> QED BY <1>1, <1>11, <2>1, PromptWhole DEF Prompt
<1>12. CASE AlertChoice
  <2>1. Whole(draft') /\ (draft' = Empty <=> draft = Empty)
    <3>1. Alerts \in Editable /\ "true" \in Values \ {""} /\ "false" \in Values \ {""}
      BY ConfigFacts DEF Editable
    <3>2. CASE UNCHANGED <<draft, answered>>
      BY <1>1, <3>2
    <3>3. CASE Edited(Alerts, "false") \/ Edited(Alerts, "true")
      BY <3>1, <3>3, EditedWhole
    <3> QED BY <1>12, <3>2, <3>3 DEF AlertChoice
  <2> QED BY <1>1, <1>12, <2>1 DEF AlertChoice
<1>13. CASE WebhookUrl
  BY <1>1, <1>13, WebhookWhole DEF WebhookUrl
<1>14. CASE ApiChoice
  <2>1. Whole(draft') /\ (draft' = Empty <=> draft = Empty)
    <3>1. Api \in Editable /\ "true" \in Values \ {""} /\ "false" \in Values \ {""}
      BY ConfigFacts DEF Editable
    <3>2. PICK yes \in {"true", "false"} : Edited(Api, yes)
      BY <1>14 DEF ApiChoice
    <3>3. yes \in Values \ {""}
      BY <3>1
    <3> QED BY <3>1, <3>2, <3>3, EditedWhole
  <2> QED BY <1>1, <1>14, <2>1 DEF ApiChoice
<1>15. CASE SaveChoice
  BY <1>1, <1>3, <1>4, <1>15 DEF SaveChoice
<1>16. CASE WriteDraft
  BY <1>1, <1>4, <1>16 DEF WriteDraft
<1>17. CASE Restart
  BY <1>1, <1>3, <1>4, <1>17 DEF Restart, Stopped
<1>18. CASE Quit
  BY <1>1, <1>4, <1>18 DEF Quit
<1>19. CASE UNCHANGED vars
  BY <1>1, <1>19 DEF vars
<1> QED BY <1>5, <1>6, <1>7, <1>8, <1>9, <1>10, <1>11, <1>12, <1>13, <1>14, <1>15, <1>16,
           <1>17, <1>18, <1>19 DEF Next, DaemonStep

LEMMA DocsInit ==
  ASSUME Straight, Init
  PROVE  Docs /\ Plain(file)
<1>1. Plain(file) /\ read = Empty /\ base = Empty /\ draft = Empty /\ cfg = Default
  BY DEF Init, Straight
<1> QED BY <1>1, DefaultSound DEF Docs, Whole

LEMMA PromptShows ==
  ASSUME TypeOK, Docs
  PROVE  ShownIsInForce
<1> SUFFICES ASSUME stage = "prompt",
                    NEW path, path = Prompts[asked + 1]
             PROVE  Shown(draft, path) = Load(draft)[path]
  BY Zenon DEF ShownIsInForce
<1>1. path \in Editable /\ path \in Paths
  BY Questions DEF TypeOK, Editable, Paths
<1>2. CASE draft = Empty
  BY <1>1, <1>2, EmptyFound DEF Shown, Load
<1>3. CASE Plain(draft)
  <2>1. /\ Hits(draft, path) # {} /\ Held(draft, path) # {}
        /\ Min(Hits(draft, path)) = Min(Held(draft, path))
    BY <1>1, <1>3 DEF Plain
  <2>2. Load(draft)[path] = draft[Min(Hits(draft, path))].value
    BY <1>1, <2>1 DEF Load
  <2>3. Load(draft)[path] # ""
    <3>1. path = Rate \/ path = Zone
      <4>1. path \in {Rate, Zone}
        BY Questions DEF TypeOK
      <4> QED BY <4>1
    <3> QED BY <1>3, <3>1 DEF Plain, Sound
  <2> QED BY <2>1, <2>2, <2>3 DEF Shown
<1> QED BY <1>2, <1>3 DEF Docs, Whole

\* Started from plain files, the wizard, which looks for a line, shows in
\* every prompt the value that the daemon, which parses, would have: Save and
\* the wizard itself write nothing but plain files.
THEOREM PromptsShowTheConfig ==
  ASSUME Straight
  PROVE  Spec => []ShownIsInForce
<1>1. Init => TypeOK /\ Docs
  <2>1. Init => TypeOK
    BY ConfigTypeInit
  <2> QED BY <2>1, DocsInit
<1>2. TypeOK /\ Docs /\ [Next]_vars => (TypeOK /\ Docs)'
  BY TypeStep, DocsStep
<1>3. TypeOK /\ Docs => ShownIsInForce
  BY PromptShows
<1> QED BY <1>1, <1>2, <1>3, PTL DEF Spec

-----------------------------------------------------------------------------
(* The settings that the file is meant to have.                            *)

With(config, answers) ==
  [path \in Paths |-> IF answers[path] = "" THEN config[path] ELSE answers[path]]

\* The draft is what the wizard has read, with the answers so far.
Answers == base # Empty => Load(draft) = With(Load(base), answered)

\* Between two writes the file has the settings it is meant to have.  While
\* one of the two writes, it alone holds the file, and what it is about to
\* write is what it has read with what it changes.
Ready ==
  meant # Unknown =>
    /\ service # "saving" /\ stage # "writing" => file # Empty /\ Load(file) = meant
    /\ service = "new" => read # Empty /\ cfg = Load(read)
    /\ service = "saving" => /\ file = Empty /\ stage # "writing"
                             /\ cfg = [meant EXCEPT ![Token] = token]
    /\ stage = "writing" => file = Empty /\ Load(base) = meant
    /\ stage # "away" => base # Empty

LEMMA KeepsAll ==
  ASSUME NEW config \in [Paths -> Values]
  PROVE  With(config, Kept) = config
BY DEF With, Kept

LEMMA EditedAnswers ==
  ASSUME TypeOK, Docs, Answers, NEW path \in Editable, NEW v \in Values \ {""},
         Edited(path, v), UNCHANGED base
  PROVE  Answers'
<1> SUFFICES ASSUME base # Empty PROVE Load(draft') = With(Load(base), answered')
  BY DEF Answers
<1>1. draft # Empty /\ Whole(draft) /\ Load(draft) = With(Load(base), answered)
  BY DEF Docs, Answers
<1>2. Load(draft') = [Load(draft) EXCEPT ![path] = v]
  BY <1>1, ReplaceWhole DEF Edited
<1>3. path \in Paths /\ answered \in [Paths -> Values] /\ Load(base) \in [Paths -> Values]
  BY LoadType DEF TypeOK, Editable, Paths
<1>4. answered' = [answered EXCEPT ![path] = v]
  BY DEF Edited
<1>5. \A p \in Paths : answered'[p] = IF p = path THEN v ELSE answered[p]
  BY <1>3, <1>4
<1>6. \A p \in Paths : Load(draft')[p] = IF p = path THEN v ELSE Load(draft)[p]
  <2>1. Load(draft) \in [Paths -> Values]
    BY LoadType DEF TypeOK
  <2> QED BY <1>2, <2>1
<1>7. \A p \in Paths : Load(draft')[p] = With(Load(base), answered')[p]
  BY <1>1, <1>5, <1>6 DEF With
<1>8. Load(draft') = [p \in Paths |-> Load(draft')[p]]
  BY DEF Load
<1>9. With(Load(base), answered') = [p \in Paths |-> With(Load(base), answered')[p]]
  BY DEF With
<1> QED BY <1>7, <1>8, <1>9

LEMMA AnswersStep ==
  ASSUME Urls = {}, TypeOK, Docs, Answers, [Next]_vars
  PROVE  Answers'
<1> USE DEF daemon, wizard
<1>1. /\ Alerts \in Editable /\ Api \in Editable
      /\ "true" \in Values \ {""} /\ "false" \in Values \ {""}
  BY ConfigFacts DEF Editable
<1>2. CASE UNCHANGED <<base, draft, answered>>
  BY <1>2 DEF Answers
<1>3. CASE Leaves
  BY <1>3 DEF Leaves, Answers
<1>4. CASE Begin
  <2>1. Load(file) \in [Paths -> Values]
    BY LoadType DEF TypeOK
  <2>2. With(Load(file), Kept) = Load(file)
    BY <2>1, KeepsAll
  <2> QED BY <1>4, <2>2 DEF Begin, Answers
<1>5. CASE Prompt
  <2>1. stage = "prompt" /\ asked \in 0..Len(Prompts) /\ asked < Len(Prompts)
    BY <1>5 DEF TypeOK, Prompt
  <2>2. Prompts[asked + 1] \in Editable /\ Inputs(Prompts[asked + 1]) \subseteq Values \ {""}
    BY <2>1, Questions
  <2>3. CASE \E input \in Inputs(Prompts[asked + 1]) : Edited(Prompts[asked + 1], input)
    BY <1>5, <2>2, <2>3, EditedAnswers DEF Prompt
  <2> QED BY <1>2, <1>5, <2>3 DEF Prompt
<1>6. CASE AlertChoice
  <2>1. CASE Edited(Alerts, "false") \/ Edited(Alerts, "true")
    BY <1>1, <1>6, <2>1, EditedAnswers DEF AlertChoice
  <2> QED BY <1>2, <1>6, <2>1 DEF AlertChoice
<1>7. CASE WebhookUrl
  BY <1>2, <1>7 DEF WebhookUrl
<1>8. CASE ApiChoice
  <2>1. PICK yes \in {"true", "false"} : Edited(Api, yes)
    BY <1>8 DEF ApiChoice
  <2>2. yes \in Values \ {""}
    BY <1>1
  <2> QED BY <1>1, <1>8, <2>1, <2>2, EditedAnswers DEF ApiChoice
<1>9. CASE SaveChoice \/ WriteDraft \/ Restart \/ Quit
  BY <1>2, <1>3, <1>9 DEF SaveChoice, WriteDraft, Restart, Quit
<1>10. CASE DaemonStep \/ Crash \/ UNCHANGED vars
  BY <1>2, <1>10 DEF DaemonStep, Start, StartRefused, New, Save, Crash, vars
<1> QED BY <1>4, <1>5, <1>6, <1>7, <1>8, <1>9, <1>10 DEF Next

LEMMA ReadyStep ==
  ASSUME TypeOK, Docs, Answers, Ready, [Next]_vars
  PROVE  Ready'
<1> USE DEF daemon, wizard
<1> SUFFICES ASSUME meant' # Unknown
    PROVE  /\ service' # "saving" /\ stage' # "writing" =>
                file' # Empty /\ Load(file') = meant'
           /\ service' = "new" => read' # Empty /\ cfg' = Load(read')
           /\ service' = "saving" => /\ file' = Empty /\ stage' # "writing"
                                     /\ cfg' = [meant' EXCEPT ![Token] = token']
           /\ stage' = "writing" => file' = Empty /\ Load(base') = meant'
           /\ stage' # "away" => base' # Empty
  BY DEF Ready
<1>1. \A wrong \in BOOLEAN : MeantUnless(wrong) => ~wrong /\ meant' = meant
  BY DEF MeantUnless
<1>2. meant # Unknown =>
      /\ service # "saving" /\ stage # "writing" => file # Empty /\ Load(file) = meant
      /\ service = "new" => read # Empty /\ cfg = Load(read)
      /\ service = "saving" => /\ file = Empty /\ stage # "writing"
                               /\ cfg = [meant EXCEPT ![Token] = token]
      /\ stage = "writing" => file = Empty /\ Load(base) = meant
      /\ stage # "away" => base # Empty
  BY DEF Ready
<1>3. Leaves => stage' = "away" /\ stage' # "writing"
  BY DEF Leaves
<1>4. CASE Start
  BY <1>1, <1>2, <1>4 DEF Start
<1>5. CASE StartRefused
  BY <1>1, <1>2, <1>5 DEF StartRefused
<1>6. CASE New
  <2>1. service = "new" /\ UNCHANGED wizard
    BY <1>6 DEF New
  <2>2. CASE service' = "up" /\ UNCHANGED <<file, meant>>
    BY <1>2, <2>1, <2>2
  <2>3. CASE /\ service' = "saving" /\ file' = Empty /\ cfg' = [cfg EXCEPT ![Token] = token']
             /\ MeantUnless(file # read)
    BY <1>1, <1>2, <2>1, <2>3
  <2> QED BY <1>6, <2>2, <2>3 DEF New
<1>7. CASE Save
  <2>1. service = "saving" /\ service' = "up" /\ UNCHANGED wizard /\ token' = token
    BY <1>7 DEF Save
  <2>2. /\ file' = Marshal(cfg) /\ meant # Unknown
        /\ meant' = [meant EXCEPT ![Token] = token]
    BY <1>1, <1>7 DEF Save
  <2>3. Plain(Marshal(cfg)) /\ Load(Marshal(cfg)) = cfg
    BY MarshalPlain DEF Docs
  <2>4. Marshal(cfg) # Empty
    BY <2>3 DEF Plain
  <2> QED BY <1>2, <2>1, <2>2, <2>3, <2>4
<1>8. CASE Crash
  BY <1>1, <1>2, <1>8 DEF Crash, Stopped
<1>9. CASE Begin
  BY <1>1, <1>2, <1>9 DEF Begin
<1>10. CASE Prompt
  BY <1>2, <1>10 DEF Prompt
<1>11. CASE AlertChoice
  BY <1>2, <1>11 DEF AlertChoice
<1>12. CASE WebhookUrl
  BY <1>2, <1>12 DEF WebhookUrl
<1>13. CASE ApiChoice
  BY <1>2, <1>13 DEF ApiChoice
<1>14. CASE SaveChoice
  BY <1>1, <1>2, <1>3, <1>14 DEF SaveChoice
<1>15. CASE WriteDraft
  <2>1. /\ stage = "writing" /\ stage' = "saved" /\ file' = draft /\ meant # Unknown
        /\ meant' = With(meant, answered)
        /\ UNCHANGED <<base, draft, answered>> /\ UNCHANGED daemon
    BY <1>1, <1>15 DEF WriteDraft, With
  <2>2. base # Empty /\ Load(base) = meant /\ service # "saving"
    BY <1>2, <2>1
  <2>3. draft # Empty /\ Load(draft) = With(Load(base), answered)
    BY <2>2 DEF Docs, Answers
  <2> QED BY <1>2, <2>1, <2>2, <2>3
<1>16. CASE Restart
  BY <1>1, <1>2, <1>3, <1>16 DEF Restart, Stopped
<1>17. CASE Quit
  BY <1>1, <1>2, <1>3, <1>17 DEF Quit
<1>18. CASE UNCHANGED vars
  BY <1>2, <1>18 DEF vars
<1> QED BY <1>4, <1>5, <1>6, <1>7, <1>8, <1>9, <1>10, <1>11, <1>12, <1>13, <1>14, <1>15,
           <1>16, <1>17, <1>18 DEF Next, DaemonStep

ConfigInv == TypeOK /\ Docs /\ Answers /\ Ready

LEMMA StartReads ==
  ASSUME ConfigInv, [Next]_vars, service = "down", service' = "new", meant' # Unknown
  PROVE  cfg' = meant
<1>1. Start
  BY DEF Next, DaemonStep, New, Save, StartRefused, Crash, Stopped, Begin, Prompt, AlertChoice,
         WebhookUrl, ApiChoice, SaveChoice, WriteDraft, Restart, Quit, vars, daemon
<1>2. cfg' = Load(file) /\ meant' = meant /\ file # Empty
  BY <1>1 DEF Start, MeantUnless
<1> QED BY <1>2 DEF ConfigInv, Ready

\* Started from plain files, and without the URL that the wizard asks for and
\* does not write, every start of the daemon has the settings of the
\* installation with all answers of all wizards and the last token saved,
\* unless two writers overlapped or a write was cut short.
THEOREM NothingElseIsChanged ==
  ASSUME Straight, Urls = {}
  PROVE  Spec => StartsAsMeant
<1>1. Init => ConfigInv
  <2> SUFFICES ASSUME Init PROVE ConfigInv
    OBVIOUS
  <2>1. TypeOK /\ Docs /\ file # Empty
    BY ConfigTypeInit, DocsInit DEF Plain
  <2>2. Answers
    BY DEF Init, Answers
  <2>3. Ready
    BY <2>1 DEF Init, Ready
  <2> QED BY <2>1, <2>2, <2>3 DEF ConfigInv
<1>2. ConfigInv /\ [Next]_vars => ConfigInv'
  BY TypeStep, DocsStep, AnswersStep, ReadyStep DEF ConfigInv
<1>3. ConfigInv /\ [Next]_vars =>
        [service = "down" /\ service' = "new" /\ meant' # Unknown => cfg' = meant]_vars
  BY StartReads
<1> QED BY <1>1, <1>2, <1>3, PTL DEF Spec, StartsAsMeant

-----------------------------------------------------------------------------
(* The files of the log, read one after the other.                         *)

\* What FlattenSeq computes: f[i] is the first i sequences as one.
Flattens(f, s, n) ==
  f = [i \in 1..n |-> IF i = 1 THEN s[i] ELSE f[i-1] \o s[i]]

Joins(f, s, n) == \A i \in 1..n : f[i] = IF i = 1 THEN s[i] ELSE f[i-1] \o s[i]

LEMMA FlattensStep ==
  ASSUME NEW n, NEW s, NEW f, Flattens(f, s, n)
  PROVE  Joins(f, s, n)
<1> DEFINE g == [i \in 1..n |-> IF i = 1 THEN s[i] ELSE f[i-1] \o s[i]]
<1>1. f = g
  BY Zenon DEF Flattens
<1>2. \A i \in 1..n : g[i] = IF i = 1 THEN s[i] ELSE f[i-1] \o s[i]
  OBVIOUS
<1> HIDE DEF g
<1> QED BY <1>1, <1>2, Zenon DEF Joins

LEMMA FlattensExtended ==
  ASSUME NEW n \in Nat \ {0}, NEW s, NEW f, n # 1 => Flattens(f, s, n - 1)
  PROVE  \E g : Flattens(g, s, n)
<1>1. CASE n = 1
  <2> DEFINE g == [i \in 1..n |-> s[i]]
  <2>1. g = [i \in 1..n |-> IF i = 1 THEN s[i] ELSE g[i-1] \o s[i]]
    BY <1>1
  <2> QED BY <2>1 DEF Flattens
<1>2. CASE n # 1
  <2> DEFINE g == [i \in 1..n |-> IF i = n THEN f[n-1] \o s[n] ELSE f[i]]
  <2>1. n - 1 \in Nat
    OBVIOUS
  <2>2. \A i \in 1..n-1 : f[i] = IF i = 1 THEN s[i] ELSE f[i-1] \o s[i]
    <3>1. Joins(f, s, n - 1)
      BY <1>2, FlattensStep
    <3> QED BY <3>1 DEF Joins
  <2>3. \A i \in 1..n-1 : g[i] = f[i]
    OBVIOUS
  <2>4. g[n] = f[n-1] \o s[n]
    <3>1. n \in 1..n
      OBVIOUS
    <3> QED BY <3>1, Zenon
  <2>5. g = [i \in 1..n |-> g[i]]
    OBVIOUS
  <2> HIDE DEF g
  <2>6. ASSUME NEW i \in 1..n
        PROVE  g[i] = IF i = 1 THEN s[i] ELSE g[i-1] \o s[i]
    <3>1. CASE i = n
      <4>1. n - 1 \in 1..n-1
        BY <1>2
      <4> QED BY <1>2, <2>3, <2>4, <3>1, <4>1
    <3>2. CASE i # n
      <4>1. i \in 1..n-1 /\ (i # 1 => i - 1 \in 1..n-1)
        BY <3>2
      <4> QED BY <2>2, <2>3, <4>1
    <3> QED BY <3>1, <3>2
  <2>7. Flattens(g, s, n)
    BY <2>5, <2>6 DEF Flattens
  <2> QED BY <2>7
<1> QED BY <1>1, <1>2

LEMMA FlattensExists ==
  ASSUME NEW n \in Nat \ {0}, NEW s
  PROVE  \E f : Flattens(f, s, n)
<1> DEFINE Bad == {m \in Nat \ {0} : ~ \E f : Flattens(f, s, m)}
<1> SUFFICES Bad = {}
  OBVIOUS
<1> SUFFICES ASSUME Bad # {} PROVE FALSE
  OBVIOUS
<1>1. Bad \in SUBSET Nat
  OBVIOUS
<1>2. PICK m \in Bad : \A j \in Bad : m <= j
  <2> HIDE DEF Bad
  <2> QED BY <1>1, LeastIn
<1>3. m \in Nat \ {0} /\ ~ \E f : Flattens(f, s, m)
  OBVIOUS
<1>4. CASE m = 1
  BY <1>3, <1>4, FlattensExtended
<1>5. CASE m # 1
  <2>1. m - 1 \in Nat \ {0} /\ m - 1 \notin Bad
    <3> HIDE DEF Bad
    <3>1. m - 1 \in Nat \ {0} /\ ~ (m <= m - 1)
      BY <1>3, <1>5
    <3> QED BY <1>2, <3>1
  <2>2. PICK f : Flattens(f, s, m - 1)
    BY <2>1
  <2> QED BY <1>3, <2>2, FlattensExtended
<1> QED BY <1>4, <1>5

LEMMA FlattenSeqIs ==
  ASSUME NEW T, NEW n \in Nat \ {0}, NEW s \in [1..n -> T]
  PROVE  \E f : Flattens(f, s, n) /\ FlattenSeq(s) = f[n]
<1>1. Len(s) = n
  OBVIOUS
<1> DEFINE f == CHOOSE g : Flattens(g, s, n)
<1>2. Flattens(f, s, n)
  BY FlattensExists, Zenon
<1>3. f = CHOOSE g : g = [i \in 1..n |-> IF i = 1 THEN s[i] ELSE g[i-1] \o s[i]]
  BY Zenon DEF Flattens
<1>4. FlattenSeq(s) = f[n]
  BY <1>1, <1>3, Zenon DEF FlattenSeq
<1> QED BY <1>2, <1>4

\* A set of numbers that has no first has none.
LEMMA NoFirst ==
  ASSUME NEW n \in Nat, NEW Bad \in SUBSET (1..n),
         \A m \in Bad : m # 1 => m - 1 \in Bad,
         1 \notin Bad
  PROVE  Bad = {}
<1> SUFFICES ASSUME Bad # {} PROVE FALSE
  OBVIOUS
<1>1. Bad \in SUBSET Nat
  OBVIOUS
<1>2. PICK m \in Bad : \A j \in Bad : m <= j
  BY <1>1, LeastIn
<1>3. m - 1 \in Bad
  BY <1>2
<1>4. m \in Nat /\ m <= m - 1
  BY <1>1, <1>2, <1>3
<1> QED BY <1>4

LEMMA FlattenType ==
  ASSUME NEW T, NEW n \in Nat \ {0}, NEW s \in [1..n -> Seq(T)], NEW f, Flattens(f, s, n)
  PROVE  \A i \in 1..n : f[i] \in Seq(T)
<1> DEFINE Bad == {i \in 1..n : f[i] \notin Seq(T)}
<1>1. \A i \in 1..n : f[i] = IF i = 1 THEN s[i] ELSE f[i-1] \o s[i]
  <2>1. Joins(f, s, n)
    BY FlattensStep
  <2> QED BY <2>1 DEF Joins
<1>2. 1 \notin Bad
  BY <1>1
<1>3. ASSUME NEW m \in Bad, m # 1 PROVE m - 1 \in Bad
  <2>1. m \in 1..n /\ m - 1 \in 1..n /\ f[m] \notin Seq(T) /\ s[m] \in Seq(T)
    BY <1>3
  <2>2. f[m] = f[m-1] \o s[m]
    BY <1>1, <1>3, <2>1
  <2>3. f[m-1] \notin Seq(T)
    BY <2>1, <2>2, ConcatProperties
  <2> QED BY <2>1, <2>3
<1>4. Bad \in SUBSET (1..n)
  OBVIOUS
<1> HIDE DEF Bad
<1>5. Bad = {}
  BY <1>2, <1>3, <1>4, NoFirst
<1> QED BY <1>5 DEF Bad

LEMMA FlattenNothing ==
  ASSUME NEW n \in Nat \ {0}, NEW s, s = [i \in 1..n |-> <<>>]
  PROVE  FlattenSeq(s) = <<>>
<1>1. s \in [1..n -> {<<>>}] /\ \A i \in 1..n : s[i] = <<>>
  OBVIOUS
<1>2. PICK f : Flattens(f, s, n) /\ FlattenSeq(s) = f[n]
  BY <1>1, FlattenSeqIs
<1> DEFINE Bad == {i \in 1..n : f[i] # <<>>}
<1>3. \A i \in 1..n : f[i] = IF i = 1 THEN s[i] ELSE f[i-1] \o s[i]
  <2>1. Joins(f, s, n)
    BY <1>2, FlattensStep
  <2> QED BY <2>1 DEF Joins
<1>4. 1 \notin Bad
  BY <1>1, <1>3
<1>5. ASSUME NEW m \in Bad, m # 1 PROVE m - 1 \in Bad
  <2>1. m \in 1..n /\ m - 1 \in 1..n /\ f[m] # <<>> /\ s[m] = <<>>
    BY <1>1, <1>5
  <2>2. f[m] = f[m-1] \o <<>>
    BY <1>3, <1>5, <2>1
  <2>3. f[m-1] # <<>>
    BY <2>1, <2>2
  <2> QED BY <2>1, <2>3
<1>6. Bad \in SUBSET (1..n)
  OBVIOUS
<1> HIDE DEF Bad
<1>7. Bad = {}
  BY <1>4, <1>5, <1>6, NoFirst
<1>8. n \in 1..n
  OBVIOUS
<1> QED BY <1>2, <1>7, <1>8 DEF Bad

\* r is s with x where nothing was, and nothing is after.
PutLast(T, n, s, k, x, r) ==
  /\ n \in Nat \ {0} /\ s \in [1..n -> Seq(T)] /\ k \in 1..n /\ x \in Seq(T)
  /\ \A i \in k..n : s[i] = <<>>
  /\ r \in [1..n -> Seq(T)] /\ \A i \in 1..n : r[i] = IF i = k THEN x ELSE s[i]

LEMMA FlattenGrows ==
  ASSUME NEW T, NEW n, NEW s, NEW k, NEW x, NEW r, PutLast(T, n, s, k, x, r)
  PROVE  FlattenSeq(r) = FlattenSeq(s) \o x
<1>1. /\ n \in Nat \ {0} /\ s \in [1..n -> Seq(T)] /\ k \in 1..n /\ x \in Seq(T)
      /\ \A i \in k..n : s[i] = <<>>
      /\ r \in [1..n -> Seq(T)] /\ \A i \in 1..n : r[i] = IF i = k THEN x ELSE s[i]
  BY Zenon DEF PutLast
<1>2. PICK f : Flattens(f, s, n) /\ FlattenSeq(s) = f[n]
  BY <1>1, FlattenSeqIs
<1>3. PICK g : Flattens(g, r, n) /\ FlattenSeq(r) = g[n]
  BY <1>1, FlattenSeqIs
<1>4. \A i \in 1..n : f[i] = IF i = 1 THEN s[i] ELSE f[i-1] \o s[i]
  <2>1. Joins(f, s, n)
    BY <1>2, FlattensStep
  <2> QED BY <2>1 DEF Joins
<1>5. \A i \in 1..n : g[i] = IF i = 1 THEN r[i] ELSE g[i-1] \o r[i]
  <2>1. Joins(g, r, n)
    BY <1>3, FlattensStep
  <2> QED BY <2>1 DEF Joins
<1>6. \A i \in 1..n : f[i] \in Seq(T) /\ g[i] \in Seq(T)
  BY <1>1, <1>2, <1>3, FlattenType
<1> DEFINE Good(i) == /\ i < k => g[i] = f[i]
                      /\ i >= k => g[i] = f[i] \o x
           Bad == {i \in 1..n : ~ Good(i)}
<1>7. 1 \notin Bad
  <2>1. CASE k = 1
    <3>1. f[1] = <<>> /\ g[1] = x
      BY <1>1, <1>4, <1>5, <2>1
    <3>2. <<>> \o x = x
      BY <1>1, ConcatEmptySeq
    <3>3. g[1] = f[1] \o x
      BY <3>1, <3>2
    <3>4. Good(1)
      BY <1>1, <2>1, <3>3
    <3> QED BY <3>4, Zenon
  <2>2. CASE k # 1
    <3>1. g[1] = f[1]
      BY <1>1, <1>4, <1>5, <2>2
    <3> QED BY <1>1, <2>2, <3>1
  <2> QED BY <2>1, <2>2
<1>8. ASSUME NEW m \in Bad, m # 1 PROVE m - 1 \in Bad
  <2>1. m \in 1..n /\ m - 1 \in 1..n
    BY <1>1, <1>8
  <2> SUFFICES ASSUME Good(m - 1) PROVE Good(m)
    BY <2>1
  <2>2. f[m] = f[m-1] \o s[m] /\ g[m] = g[m-1] \o r[m] /\ f[m-1] \in Seq(T) /\ s[m] \in Seq(T)
    BY <1>1, <1>4, <1>5, <1>6, <1>8, <2>1
  <2>3. CASE m < k
    <3>1. g[m-1] = f[m-1] /\ r[m] = s[m]
      BY <1>1, <2>1, <2>3
    <3> QED BY <1>1, <2>1, <2>2, <2>3, <3>1
  <2>4. CASE m = k
    <3>1. g[m-1] = f[m-1] /\ r[m] = x /\ s[m] = <<>>
      BY <1>1, <2>1, <2>4
    <3>2. f[m-1] \o <<>> = f[m-1]
      BY <2>2, ConcatEmptySeq
    <3>3. g[m] = f[m] \o x
      BY <2>2, <3>1, <3>2
    <3> QED BY <1>1, <2>4, <3>3
  <2>5. CASE m > k
    <3>0. m - 1 >= k /\ m \in k..n /\ m # k
      BY <1>1, <2>1, <2>5
    <3>1. g[m-1] = f[m-1] \o x /\ r[m] = <<>> /\ s[m] = <<>>
      BY <1>1, <2>1, <3>0
    <3>2. f[m-1] \o <<>> = f[m-1] /\ f[m-1] \o x \in Seq(T)
      BY <1>1, <2>2, ConcatEmptySeq, ConcatProperties
    <3>3. (f[m-1] \o x) \o <<>> = f[m-1] \o x
      BY <3>2, ConcatEmptySeq
    <3>4. g[m] = f[m] \o x
      BY <2>2, <3>1, <3>2, <3>3
    <3> QED BY <1>1, <2>1, <2>5, <3>4
  <2>6. m < k \/ m = k \/ m > k
    BY <1>1, <2>1
  <2> QED BY <2>3, <2>4, <2>5, <2>6, Zenon
<1>9. Bad \in SUBSET (1..n)
  OBVIOUS
<1>10. Bad = {}
  <2> HIDE DEF Bad
  <2> QED BY <1>1, <1>7, <1>8, <1>9, NoFirst
<1>11. n \in 1..n /\ n >= k
  BY <1>1
<1>12. g[n] = f[n] \o x /\ f[n] \in Seq(T)
  BY <1>6, <1>10, <1>11
<1> QED BY <1>2, <1>3, <1>12

-----------------------------------------------------------------------------
(* The log.                                                                *)

\* No file has a stamp that is still to come, and once there is one with the
\* stamp of this second, too few lines are left in the second for another.
NoSecondRotation ==
  /\ \A t \in now + 1..MaxTime : rotated[t] = <<>>
  /\ rotated[now] # <<>> => Len(current) < recent

LogInv == LoggerTypeOK /\ NoSecondRotation

LEMMA AppendedLine ==
  ASSUME LoggerTypeOK, lines < MaxLines
  PROVE  /\ lines + 1 \in 0..MaxLines /\ lines + 1 \in Numbers
         /\ Append(current, lines + 1) \in Seq(Numbers)
         /\ Len(Append(current, lines + 1)) = Len(current) + 1
         /\ Len(current) \in Nat
<1>1. lines + 1 \in 0..MaxLines /\ lines + 1 \in Numbers /\ current \in Seq(Numbers)
  BY LoggerAssumption DEF LoggerAssumption, LoggerTypeOK, Numbers
<1> QED BY <1>1, AppendProperties, LenProperties

\* A rotation finds no file with the stamp of this second.
LEMMA FullIsUnrotated ==
  ASSUME LogInv, recent < PerSecond, ~ (Len(current) + 1 < MaxSize)
  PROVE  rotated[now] = <<>>
<1>1. Len(current) \in Nat /\ recent \in Nat /\ MaxSize \in Nat /\ PerSecond \in Nat
      /\ PerSecond <= MaxSize
  BY LoggerAssumption, LenProperties DEF LoggerAssumption, LogInv, LoggerTypeOK
<1>2. ~ (Len(current) < recent)
  BY <1>1
<1> QED BY <1>2 DEF LogInv, NoSecondRotation

LEMMA RotateType ==
  ASSUME LogInv, NEW e \in Endings, Rotate(e), Logged, recent < PerSecond
  PROVE  LogInv'
<1>1. /\ lines \in 0..MaxLines /\ current \in Seq(Numbers) /\ now \in 1..MaxTime
      /\ rotated \in [1..MaxTime -> Seq(Numbers)] /\ recent \in 0..PerSecond
      /\ MaxTime \in Nat /\ MaxLines \in Nat /\ PerSecond \in Nat
  BY LoggerAssumption DEF LoggerAssumption, LogInv, LoggerTypeOK
<1>2. lines < MaxLines /\ lines' = lines + 1 /\ recent' = recent + 1 /\ now' = now
  BY DEF Logged
<1>3. lines + 1 \in 0..MaxLines /\ Append(current, lines + 1) \in Seq(Numbers)
      /\ Len(Append(current, lines + 1)) = Len(current) + 1 /\ Len(current) \in Nat
  BY <1>2, AppendedLine DEF LogInv
<1>4. handle' \in {"open", "shut", "down"}
  BY DEF Rotate, Endings
<1>5. recent + 1 \in 0..PerSecond
  BY <1>1
<1>6. NoSecondRotation
  BY DEF LogInv
<1>7. CASE e.renamed
  <2>1. /\ rotated' = [rotated EXCEPT ![now] = Append(current, lines + 1)]
        /\ current' = <<>>
    BY <1>7 DEF Rotate
  <2>2. LoggerTypeOK'
    BY <1>1, <1>2, <1>3, <1>4, <1>5, <2>1 DEF LoggerTypeOK
  <2>3. \A t \in now + 1..MaxTime : rotated'[t] = <<>>
    <3>1. \A t \in now + 1..MaxTime : t \in 1..MaxTime /\ t # now
      BY <1>1
    <3> QED BY <1>1, <1>6, <2>1, <3>1 DEF NoSecondRotation
  <2>4. Len(<<>>) < recent + 1
    BY <1>1
  <2> QED BY <1>2, <2>1, <2>2, <2>3, <2>4 DEF LogInv, NoSecondRotation
<1>8. CASE ~ e.renamed
  <2>1. rotated' = rotated /\ current' = Append(current, lines + 1)
    BY <1>8 DEF Rotate
  <2>2. LoggerTypeOK'
    BY <1>1, <1>2, <1>3, <1>4, <1>5, <2>1 DEF LoggerTypeOK
  <2>3. Len(current) < recent => Len(Append(current, lines + 1)) < recent + 1
    BY <1>1, <1>3
  <2> QED BY <1>2, <1>6, <2>1, <2>2, <2>3 DEF LogInv, NoSecondRotation
<1> QED BY <1>7, <1>8

LEMMA LogStep ==
  ASSUME LogInv, [LoggerNext]_logVars
  PROVE  LogInv'
<1>1. /\ lines \in 0..MaxLines /\ current \in Seq(Numbers) /\ now \in 1..MaxTime
      /\ rotated \in [1..MaxTime -> Seq(Numbers)] /\ recent \in 0..PerSecond
      /\ handle \in {"open", "shut", "down"}
      /\ MaxTime \in Nat /\ MaxLines \in Nat /\ PerSecond \in Nat
  BY LoggerAssumption DEF LoggerAssumption, LogInv, LoggerTypeOK
<1>2. NoSecondRotation /\ Len(current) \in Nat
  BY <1>1, LenProperties DEF LogInv
<1>3. Logged => /\ lines < MaxLines /\ recent < PerSecond
                /\ lines' = lines + 1 /\ recent' = recent + 1 /\ now' = now
                /\ lines + 1 \in 0..MaxLines /\ recent + 1 \in 0..PerSecond
                /\ Append(current, lines + 1) \in Seq(Numbers)
                /\ Len(Append(current, lines + 1)) = Len(current) + 1
  <2> SUFFICES ASSUME Logged
               PROVE  /\ lines < MaxLines /\ recent < PerSecond
                      /\ lines' = lines + 1 /\ recent' = recent + 1 /\ now' = now
                      /\ lines + 1 \in 0..MaxLines /\ recent + 1 \in 0..PerSecond
                      /\ Append(current, lines + 1) \in Seq(Numbers)
                      /\ Len(Append(current, lines + 1)) = Len(current) + 1
    OBVIOUS
  <2>1. /\ lines < MaxLines /\ recent < PerSecond
        /\ lines' = lines + 1 /\ recent' = recent + 1 /\ now' = now
    BY DEF Logged
  <2>2. recent + 1 \in 0..PerSecond
    BY <1>1, <2>1
  <2> QED BY <2>1, <2>2, AppendedLine DEF LogInv
<1>4. CASE Log
  <2>1. Logged
    BY <1>4 DEF Log
  <2>2. CASE /\ current' = Append(current, lines + 1) /\ UNCHANGED <<rotated, handle>>
    <3>1. LoggerTypeOK'
      BY <1>1, <1>3, <2>1, <2>2 DEF LoggerTypeOK
    <3>2. Len(current) < recent => Len(Append(current, lines + 1)) < recent + 1
      BY <1>1, <1>2, <1>3, <2>1
    <3> QED BY <1>2, <1>3, <2>1, <2>2, <3>1, <3>2 DEF LogInv, NoSecondRotation
  <2>3. CASE \E e \in Endings : Rotate(e)
    BY <1>3, <2>1, <2>3, RotateType
  <2> QED BY <1>4, <2>2, <2>3 DEF Log
<1>5. CASE LogShut
  <2>1. Logged /\ UNCHANGED <<current, rotated, handle>>
    BY <1>5 DEF LogShut
  <2>2. LoggerTypeOK'
    BY <1>1, <1>3, <2>1 DEF LoggerTypeOK
  <2>3. Len(current) < recent => Len(current) < recent + 1
    BY <1>1, <1>2
  <2> QED BY <1>2, <1>3, <2>1, <2>2, <2>3 DEF LogInv, NoSecondRotation
<1>6. CASE NewLogger \/ Close \/ Kill
  <2>1. UNCHANGED <<lines, current, rotated, now, recent>>
        /\ handle' \in {"open", "shut", "down"}
    BY <1>6 DEF NewLogger, Close, Kill
  <2> QED BY <1>1, <1>2, <2>1 DEF LogInv, LoggerTypeOK, NoSecondRotation
<1>7. CASE Second
  <2>1. now < MaxTime /\ now' = now + 1 /\ recent' = 0
        /\ UNCHANGED <<lines, current, rotated, handle>>
    BY <1>7 DEF Second
  <2>2. now + 1 \in 1..MaxTime /\ now + 1 \in now + 1..MaxTime /\ 0 \in 0..PerSecond
        /\ (now + 1) + 1..MaxTime \subseteq now + 1..MaxTime
    BY <1>1, <2>1
  <2>3. LoggerTypeOK'
    BY <1>1, <2>1, <2>2 DEF LoggerTypeOK
  <2>4. rotated[now + 1] = <<>> /\ \A t \in (now + 1) + 1..MaxTime : rotated[t] = <<>>
    BY <1>2, <2>2, Zenon DEF NoSecondRotation
  <2> QED BY <2>1, <2>3, <2>4 DEF LogInv, NoSecondRotation
<1>8. CASE UNCHANGED logVars
  BY <1>1, <1>2, <1>8 DEF logVars, LogInv, LoggerTypeOK, NoSecondRotation
<1> QED BY <1>4, <1>5, <1>6, <1>7, <1>8 DEF LoggerNext

LEMMA LogInitially == LoggerInit => LogInv
<1> SUFFICES ASSUME LoggerInit PROVE LogInv
  OBVIOUS
<1>1. /\ lines = 0 /\ current = <<>> /\ rotated = [t \in 1..MaxTime |-> <<>>]
      /\ handle = "open" /\ now = 1 /\ recent = 0
  BY DEF LoggerInit
<1>2. MaxLines \in Nat /\ MaxTime \in Nat \ {0} /\ PerSecond \in Nat
  BY LoggerAssumption DEF LoggerAssumption
<1>3. 0 \in 0..MaxLines /\ 1 \in 1..MaxTime /\ 0 \in 0..PerSecond
      /\ <<>> \in Seq(Numbers) /\ 1 + 1..MaxTime \subseteq 1..MaxTime
  BY <1>2
<1>4. rotated \in [1..MaxTime -> Seq(Numbers)] /\ \A t \in 1..MaxTime : rotated[t] = <<>>
  BY <1>1, <1>3
<1>5. LoggerTypeOK
  BY <1>1, <1>3, <1>4 DEF LoggerTypeOK
<1>6. NoSecondRotation
  BY <1>1, <1>3, <1>4 DEF NoSecondRotation
<1> QED BY <1>5, <1>6 DEF LogInv

\* Where a line is added at the end of the files as one reads them.
LEMMA ReadAsOne ==
  ASSUME LogInv
  PROVE  /\ FlattenSeq(rotated) \in Seq(Numbers) /\ current \in Seq(Numbers)
         /\ \A x \in Seq(Numbers) :
              rotated[now] = <<>> =>
                FlattenSeq([rotated EXCEPT ![now] = x]) = FlattenSeq(rotated) \o x
<1>1. /\ current \in Seq(Numbers) /\ now \in 1..MaxTime
      /\ rotated \in [1..MaxTime -> Seq(Numbers)] /\ MaxTime \in Nat \ {0}
  BY LoggerAssumption DEF LoggerAssumption, LogInv, LoggerTypeOK
<1>2. FlattenSeq(rotated) \in Seq(Numbers)
  <2>1. PICK f : Flattens(f, rotated, MaxTime) /\ FlattenSeq(rotated) = f[MaxTime]
    BY <1>1, FlattenSeqIs
  <2>2. MaxTime \in 1..MaxTime
    BY <1>1
  <2> QED BY <1>1, <2>1, <2>2, FlattenType
<1>3. ASSUME NEW x \in Seq(Numbers), rotated[now] = <<>>
      PROVE  FlattenSeq([rotated EXCEPT ![now] = x]) = FlattenSeq(rotated) \o x
  <2>1. \A t \in now..MaxTime : t = now \/ t \in now + 1..MaxTime
    BY <1>1
  <2>2. \A t \in now..MaxTime : rotated[t] = <<>>
    BY <1>3, <2>1 DEF LogInv, NoSecondRotation
  <2> DEFINE r == [rotated EXCEPT ![now] = x]
  <2>3. /\ r \in [1..MaxTime -> Seq(Numbers)]
        /\ \A t \in 1..MaxTime : r[t] = IF t = now THEN x ELSE rotated[t]
    BY <1>1
  <2> HIDE DEF r
  <2>4. PutLast(Numbers, MaxTime, rotated, now, x, r)
    BY <1>1, <2>2, <2>3, Zenon DEF PutLast
  <2>5. FlattenSeq(r) = FlattenSeq(rotated) \o x
    BY <2>4, FlattenGrows, SMTT(30)
  <2> QED BY <2>5 DEF r
<1> QED BY <1>1, <1>2, <1>3

LEMMA AddedLast ==
  ASSUME NEW S, NEW s \in Seq(S), NEW t \in Seq(S), NEW e \in S
  PROVE  s \o Append(t, e) = Append(s \o t, e)
<1>1. Append(t, e) = t \o <<e>> /\ <<e>> \in Seq(S)
  BY AppendIsConcat
<1>2. s \o t \in Seq(S)
  BY ConcatProperties
<1>3. Append(s \o t, e) = (s \o t) \o <<e>>
  BY <1>2, AppendIsConcat
<1> QED BY <1>1, <1>3, ConcatAssociative

\* What a Log step adds to the files as one reads them.
LEMMA LogAdds ==
  ASSUME LogInv, Log
  PROVE  FlattenSeq(rotated') \o current' = Append(FlattenSeq(rotated) \o current, lines + 1)
<1>1. Logged /\ lines < MaxLines /\ recent < PerSecond
  BY DEF Log, Logged
<1>2. lines + 1 \in Numbers /\ Append(current, lines + 1) \in Seq(Numbers)
  BY <1>1, AppendedLine DEF LogInv
<1>3. FlattenSeq(rotated) \in Seq(Numbers) /\ current \in Seq(Numbers)
  BY ReadAsOne
<1>4. FlattenSeq(rotated) \o Append(current, lines + 1) =
        Append(FlattenSeq(rotated) \o current, lines + 1)
  BY <1>2, <1>3, AddedLast
<1>5. CASE rotated' = rotated /\ current' = Append(current, lines + 1)
  BY <1>4, <1>5
<1>6. CASE /\ ~ (Len(current) + 1 < MaxSize)
           /\ rotated' = [rotated EXCEPT ![now] = Append(current, lines + 1)]
           /\ current' = <<>>
  <2>1. rotated[now] = <<>>
    BY <1>1, <1>6, FullIsUnrotated
  <2>2. FlattenSeq([rotated EXCEPT ![now] = Append(current, lines + 1)]) =
          FlattenSeq(rotated) \o Append(current, lines + 1)
    BY <1>2, <2>1, ReadAsOne
  <2>3. FlattenSeq(rotated) \o Append(current, lines + 1) \in Seq(Numbers)
    BY <1>2, <1>3, ConcatProperties
  <2>4. (FlattenSeq(rotated) \o Append(current, lines + 1)) \o <<>> =
          FlattenSeq(rotated) \o Append(current, lines + 1)
    BY <2>3, ConcatEmptySeq
  <2> QED BY <1>4, <1>6, <2>2, <2>4
<1> QED BY <1>5, <1>6 DEF Log, Rotate

\* Read in the order of their stamps and then the current one, the files are
\* one log to which lines are only added, whatever the limits are: in Log the
\* line and the rotation lose, repeat and move nothing, also if the rename or
\* the reopening fails, because no second holds two rotations.
THEOREM FilesAreOneLog == LoggerSpec => ImplementsAppendLog
<1>1. LoggerInit => Abstract!Init
  <2> SUFFICES ASSUME LoggerInit PROVE Abstract!Init
    OBVIOUS
  <2>1. FlattenSeq(rotated) = <<>>
    BY LoggerAssumption, FlattenNothing DEF LoggerInit, LoggerAssumption
  <2>2. FlattenSeq(rotated) \o current = <<>>
    <3>1. <<>> \in Seq(Numbers) /\ current = <<>>
      BY DEF LoggerInit
    <3> QED BY <2>1, <3>1, ConcatEmptySeq
  <2> QED BY <2>2 DEF LoggerInit, Abstract!Init
<1>2. LogInv /\ [LoggerNext]_logVars => [Abstract!Next]_(Abstract!visible)
  <2> SUFFICES ASSUME LogInv, [LoggerNext]_logVars
               PROVE  Abstract!Next \/ UNCHANGED Abstract!visible
    OBVIOUS
  <2>1. CASE Log
    <3>1. FlattenSeq(rotated') \o current' =
            Append(FlattenSeq(rotated) \o current, lines + 1)
      BY <2>1, LogAdds
    <3>2. handle = "open" /\ lines' = lines + 1 /\ (handle' = "open") \in BOOLEAN
      BY <2>1 DEF Log, Logged
    <3>3. Abstract!Line
      BY <3>1, <3>2 DEF Abstract!Line
    <3> QED BY <3>3 DEF Abstract!Next
  <2>2. CASE LogShut
    <3>1. handle # "open" /\ lines' = lines + 1 /\ UNCHANGED <<current, rotated, handle>>
      BY <2>2 DEF LogShut, Logged
    <3>2. Abstract!Lost
      BY <3>1 DEF Abstract!Lost
    <3> QED BY <3>2 DEF Abstract!Next
  <2>3. CASE NewLogger \/ Close \/ Kill
    <3>1. UNCHANGED <<lines, current, rotated>> /\ (handle' = "open") \in BOOLEAN
      BY <2>3 DEF NewLogger, Close, Kill
    <3>2. Abstract!Switch
      BY <3>1 DEF Abstract!Switch
    <3> QED BY <3>2 DEF Abstract!Next
  <2>4. CASE Second
    <3>1. UNCHANGED <<lines, current, rotated, handle>>
      BY <2>4 DEF Second
    <3> QED BY <3>1 DEF Abstract!visible
  <2>5. CASE UNCHANGED logVars
    BY <2>5 DEF logVars, Abstract!visible
  <2> QED BY <2>1, <2>2, <2>3, <2>4, <2>5 DEF LoggerNext
<1> QED BY <1>1, <1>2, LogInitially, LogStep, PTL
        DEF LoggerSpec, ImplementsAppendLog, Abstract!Spec

\* Lines, files and seconds stay within their types and bounds.
THEOREM LoggerTypeCorrect == LoggerSpec => []LoggerTypeOK
<1>1. LogInv => LoggerTypeOK
  BY DEF LogInv
<1> QED BY <1>1, LogInitially, LogStep, PTL DEF LoggerSpec

=============================================================================
