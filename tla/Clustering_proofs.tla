-------------------------- MODULE Clustering_proofs --------------------------
(***************************************************************************)
(* Proofs about Clustering for any outlets, entries and limits: stories    *)
(* are sound at every step of a session, no listing that a tag vouches for *)
(* hides an entry, and ingestion is the one EnrichmentPipeline assumes.    *)
(***************************************************************************)
EXTENDS Clustering, FiniteSetTheorems, TLAPS

Database == [story: [Article -> Id \cup {0}], row: [Id -> ClusterRow], index: [Id -> SUBSET Word]]
Tag == [tag: BOOLEAN, of: SUBSET Article]

-----------------------------------------------------------------------------
(* Members, outlets and words of stories.                                  *)

LEMMA FiniteMembers ==
    ASSUME NEW d, NEW c
    PROVE  /\ IsFiniteSet(Members(d, c)) /\ IsFiniteSet(OutletsOf(d, c))
           /\ OutletsOf(d, c) \subseteq Source
<1>1. Members(d, c) \subseteq Article
  BY DEF Members
<1>2. OutletsOf(d, c) \subseteq Source
  BY <1>1, ClusteringAssumption DEF OutletsOf
<1> QED
  BY <1>1, <1>2, FS_Subset, ClusteringAssumption

LEMMA OverlapCommutes ==
    ASSUME NEW x, NEW y
    PROVE  Overlap(x, y) = Overlap(y, x)
<1>1. x \cap y = y \cap x
  OBVIOUS
<1> QED
  BY <1>1 DEF Overlap

LEMMA WordsAreWords ==
    ASSUME NEW a \in Article
    PROVE  Words[a] \subseteq Word
  BY DEF Word

LEMMA DatesAreHours ==
    ASSUME NEW a \in Article, now \in Int
    PROVE  DateOf(a) \in Int
  BY ClusteringAssumption DEF DateOf

LEMMA EmptyIsSound ==
    /\ Empty \in Database /\ NoRow \in ClusterRow
    /\ SoundIn(Empty)
    /\ \A a \in Article : ~Stored(Empty, a)
    /\ \A c \in Id : Members(Empty, c) = {} /\ OutletsOf(Empty, c) = {}
<1>1. NoRow \in ClusterRow
  BY DEF NoRow, ClusterRow
<1>2. Empty \in Database
  BY <1>1 DEF Empty, Database
<1>3. \A a \in Article : Empty.story[a] = 0
  BY DEF Empty
<1>4. \A c \in Id : Members(Empty, c) = {} /\ OutletsOf(Empty, c) = {}
  BY <1>3 DEF Members, OutletsOf, Id
<1>5. \A c \in Id : Empty.row[c] = NoRow /\ Empty.index[c] = {}
  BY DEF Empty
<1>6. Cardinality({}) = 0
  BY FS_EmptySet
<1>7. Counted(Empty)
  <2>1. NoRow.articles = 0 /\ NoRow.outlets = 0 /\ ~NoRow.multi
    BY DEF NoRow
  <2>2. ~(0 >= MinOutlets)
    BY ClusteringAssumption
  <2> QED
    BY <1>4, <1>5, <1>6, <2>1, <2>2 DEF Counted
<1>8. Indexed(Empty) /\ Contrasted(Empty) /\ Unique(Empty)
  BY <1>3, <1>4, <1>5 DEF Indexed, Contrasted, Unique, Stored
<1> QED
  BY <1>1, <1>2, <1>3, <1>4, <1>7, <1>8 DEF SoundIn, Stored

(* An article joins story c of the database d, which becomes e.            *)
Joins(d, e, a, c) ==
    /\ a \in Article /\ c \in Id /\ ~Stored(d, a)
    /\ e.story = [d.story EXCEPT ![a] = c]

LEMMA JoiningMembers ==
    ASSUME NEW d \in Database, NEW e, NEW a, NEW c, Joins(d, e, a, c)
    PROVE  /\ a \notin Members(d, c) /\ Members(e, c) = Members(d, c) \cup {a}
           /\ OutletsOf(e, c) = OutletsOf(d, c) \cup {SourceOf[a]}
           /\ Cardinality(Members(e, c)) = Cardinality(Members(d, c)) + 1
           /\ Cardinality(OutletsOf(e, c)) =
                 IF SourceOf[a] \in OutletsOf(d, c) THEN Cardinality(OutletsOf(d, c))
                                                    ELSE Cardinality(OutletsOf(d, c)) + 1
           /\ \A b \in Id \ {c} : Members(e, b) = Members(d, b) /\ OutletsOf(e, b) = OutletsOf(d, b)
           /\ \A b \in Article : Stored(e, b) <=> Stored(d, b) \/ b = a
           /\ \A b \in Article : Stored(d, b) => e.story[b] = d.story[b]
<1>1. /\ d.story \in [Article -> Id \cup {0}] /\ 0 \notin Id
      /\ a \in Article /\ c \in Id /\ d.story[a] = 0 /\ e.story = [d.story EXCEPT ![a] = c]
  BY DEF Database, Joins, Stored, Id
<1>2. \A b \in Article : e.story[b] = IF b = a THEN c ELSE d.story[b]
  BY <1>1
<1>3. a \notin Members(d, c) /\ Members(e, c) = Members(d, c) \cup {a}
  BY <1>1, <1>2 DEF Members
<1>4. \A b \in Id \ {c} : Members(e, b) = Members(d, b)
  BY <1>1, <1>2 DEF Members
<1>5. OutletsOf(e, c) = OutletsOf(d, c) \cup {SourceOf[a]}
  BY <1>3 DEF OutletsOf
<1>6. \A b \in Id \ {c} : OutletsOf(e, b) = OutletsOf(d, b)
  BY <1>4 DEF OutletsOf
<1>7. /\ Cardinality(Members(e, c)) = Cardinality(Members(d, c)) + 1
      /\ Cardinality(OutletsOf(e, c)) =
            IF SourceOf[a] \in OutletsOf(d, c) THEN Cardinality(OutletsOf(d, c))
                                               ELSE Cardinality(OutletsOf(d, c)) + 1
  BY <1>3, <1>5, FiniteMembers, FS_AddElement
<1>8. \A b \in Article : Stored(e, b) <=> Stored(d, b) \/ b = a
  BY <1>1, <1>2 DEF Stored
<1>9. \A b \in Article : Stored(d, b) => e.story[b] = d.story[b]
  BY <1>1, <1>2 DEF Stored
<1> QED
  BY <1>3, <1>4, <1>5, <1>6, <1>7, <1>8, <1>9

(* A database stays sound when an article without a twin joins a story     *)
(* that is empty or that confirmed it, and is counted and indexed there.   *)
LEMMA JoiningIsSound ==
    ASSUME NEW d \in Database, NEW e \in Database, NEW a, NEW c, Joins(d, e, a, c),
           SoundIn(d),
           \A b \in Article : Stored(d, b) => ~SameUrl(a, b),
           \/ Members(d, c) = {}
           \/ \E b \in Members(d, c) : /\ SourceOf[b] # SourceOf[a]
                                       /\ Overlap(Words[a], Words[b]) >= MinShared,
           NEW r \in ClusterRow, e.row = [d.row EXCEPT ![c] = r],
           e.index = [d.index EXCEPT ![c] = @ \cup Words[a]],
           r.articles = d.row[c].articles + 1,
           r.outlets = IF SourceOf[a] \in OutletsOf(d, c) THEN d.row[c].outlets
                                                          ELSE d.row[c].outlets + 1,
           r.multi <=> r.outlets >= MinOutlets
    PROVE  SoundIn(e)
<1>1. a \in Article /\ c \in Id /\ d.row \in [Id -> ClusterRow] /\ d.index \in [Id -> SUBSET Word]
  BY DEF Joins, Database
<1>2. /\ e.row[c] = r /\ \A b \in Id \ {c} : e.row[b] = d.row[b]
      /\ e.index[c] = d.index[c] \cup Words[a] /\ \A b \in Id \ {c} : e.index[b] = d.index[b]
  BY <1>1
<1>3. Counted(e)
  <2>1. /\ e.row[c].articles = Cardinality(Members(e, c))
        /\ e.row[c].outlets = Cardinality(OutletsOf(e, c))
        /\ e.row[c].multi <=> e.row[c].outlets >= MinOutlets
    BY <1>1, <1>2, JoiningMembers DEF SoundIn, Counted
  <2>2. ASSUME NEW b \in Id \ {c}
        PROVE  /\ e.row[b].articles = Cardinality(Members(e, b))
               /\ e.row[b].outlets = Cardinality(OutletsOf(e, b))
               /\ e.row[b].multi <=> e.row[b].outlets >= MinOutlets
    BY <1>2, JoiningMembers DEF SoundIn, Counted
  <2> QED
    BY <2>1, <2>2 DEF Counted
<1>4. Indexed(e)
  <2>1. e.index[c] = UNION {Words[b] : b \in Members(e, c)}
    <3>1. d.index[c] = UNION {Words[b] : b \in Members(d, c)}
      BY <1>1 DEF SoundIn, Indexed
    <3>2. Members(e, c) = Members(d, c) \cup {a}
      BY JoiningMembers
    <3> QED
      BY <1>2, <3>1, <3>2
  <2>2. ASSUME NEW b \in Id \ {c}
        PROVE  e.index[b] = UNION {Words[x] : x \in Members(e, b)}
    <3>1. Members(e, b) = Members(d, b)
      BY JoiningMembers
    <3> QED
      BY <1>2, <3>1 DEF SoundIn, Indexed
  <2> QED
    BY <2>1, <2>2 DEF Indexed
<1>5. Contrasted(e)
  <2> SUFFICES ASSUME NEW b \in Id, NEW x \in Members(e, b), Members(e, b) # {x}
               PROVE  \E y \in Members(e, b) :
                          SourceOf[y] # SourceOf[x] /\ Overlap(Words[x], Words[y]) >= MinShared
    BY DEF Contrasted
  <2>1. CASE b # c
    BY <2>1, JoiningMembers DEF SoundIn, Contrasted
  <2>2. CASE b = c
    <3>1. Members(e, c) = Members(d, c) \cup {a} /\ Members(d, c) # {}
      BY <2>2, JoiningMembers
    <3>2. PICK y \in Members(d, c) : SourceOf[y] # SourceOf[a] /\ Overlap(Words[a], Words[y]) >= MinShared
      BY <3>1
    <3>3. CASE x = a
      BY <2>2, <3>1, <3>2, <3>3
    <3>4. CASE x # a /\ Members(d, c) = {x}
      BY <2>2, <3>1, <3>2, <3>4, OverlapCommutes
    <3>5. CASE x # a /\ Members(d, c) # {x}
      BY <2>2, <3>1, <3>5 DEF SoundIn, Contrasted
    <3> QED
      BY <3>3, <3>4, <3>5
  <2> QED
    BY <2>1, <2>2
<1>6. Unique(e)
  <2>1. \A b \in Article : Stored(e, b) <=> Stored(d, b) \/ b = a
    BY JoiningMembers
  <2> QED
    BY <1>1, <2>1 DEF Unique, SoundIn, SameUrl
<1> QED
  BY <1>3, <1>4, <1>5, <1>6 DEF SoundIn

(* What a session is made of.                                              *)
Session == [by: Source \cup {Nobody}, tag: Tag, todo: SUBSET Article, tx: Database,
            seen: [Id -> ClusterRow], known: [Id -> SUBSET Source]]

(* What an article that finds its story, and one that starts it, writes.   *)
LEMMA PlacedFields ==
    ASSUME NEW d \in Database, NEW a \in Article, NEW c \in Id, NEW r \in ClusterRow
    PROVE  /\ Placed(d, a, c, r) \in Database
           /\ Placed(d, a, c, r).story = [d.story EXCEPT ![a] = c]
           /\ Placed(d, a, c, r).row = [d.row EXCEPT ![c] = r]
           /\ Placed(d, a, c, r).index = [d.index EXCEPT ![c] = @ \cup Words[a]]
  BY WordsAreWords DEF Placed, Database

LEMMA TypesOfParts ==
    ClusterTypeOK <=> /\ now \in 0 .. LastHour
                      /\ listing \in [Source -> SUBSET Article] /\ etag \in [Source -> Tag]
                      /\ db \in Database /\ session \in Session /\ crossed \subseteq Id
  BY DEF ClusterTypeOK, Session, Database, Tag

LEMMA SessionFields ==
    ASSUME NEW x \in Session
    PROVE  /\ x.by \in Source \cup {Nobody} /\ x.tag \in Tag /\ x.todo \subseteq Article
           /\ x.tx \in Database /\ x.seen \in [Id -> ClusterRow] /\ x.known \in [Id -> SUBSET Source]
           /\ x.tx.story \in [Article -> Id \cup {0}]
           /\ x.tx.row \in [Id -> ClusterRow] /\ x.tx.index \in [Id -> SUBSET Word]
  BY DEF Session, Database

LEMMA RowFields ==
    ASSUME NEW r \in ClusterRow
    PROVE  /\ r.articles \in Nat /\ r.outlets \in Nat /\ r.multi \in BOOLEAN
           /\ r.first \in Int /\ r.last \in Int
  BY DEF ClusterRow

(* The rows that an article of s writes, which joins a story of outlets k, *)
(* and that an article of hour h writes, which starts one.                 *)
LEMMA JoinedRows ==
    ASSUME now \in Int, NEW r \in ClusterRow, NEW s, NEW k
    PROVE  /\ JoinedRow(r, s \notin k) \in ClusterRow
           /\ JoinedRow(r, s \notin k).articles = r.articles + 1
           /\ JoinedRow(r, s \notin k).outlets = IF s \in k THEN r.outlets ELSE r.outlets + 1
           /\ JoinedRow(r, s \notin k).multi <=> r.multi \/ (s \notin k /\ r.outlets + 1 >= MinOutlets)
           /\ JoinedRow(r, s \notin k).first = r.first
<1> DEFINE j == JoinedRow(r, s \notin k)
           n == IF s \notin k THEN r.outlets + 1 ELSE r.outlets
           m == r.multi \/ (s \notin k /\ n >= MinOutlets)
<1>1. n \in Nat /\ m \in BOOLEAN /\ r.articles + 1 \in Nat
  BY RowFields
<1>2. j = [r EXCEPT !.articles = @ + 1, !.last = now, !.outlets = n, !.multi = m]
  BY DEF JoinedRow, ClusterRow
<1>3. /\ n = IF s \in k THEN r.outlets ELSE r.outlets + 1
      /\ m <=> r.multi \/ (s \notin k /\ r.outlets + 1 >= MinOutlets)
  OBVIOUS
<1> HIDE DEF n, m, j
<1>4. j \in ClusterRow /\ j.articles = r.articles + 1 /\ j.outlets = n /\ j.multi = m /\ j.first = r.first
  BY <1>1, <1>2 DEF ClusterRow
<1> QED
  BY <1>3, <1>4 DEF j

LEMMA NewRows ==
    ASSUME NEW h \in Int
    PROVE  LET new == [NoRow EXCEPT !.articles = 1, !.outlets = 1, !.first = h, !.last = h]
           IN  /\ new \in ClusterRow /\ new.articles = 1 /\ new.outlets = 1
               /\ ~new.multi /\ new.first = h
<1>1. NoRow \in ClusterRow /\ ~NoRow.multi
  BY EmptyIsSound DEF NoRow
<1>2. ASSUME NEW o \in ClusterRow
      PROVE  LET new == [o EXCEPT !.articles = 1, !.outlets = 1, !.first = h, !.last = h]
             IN  /\ new \in ClusterRow /\ new.articles = 1 /\ new.outlets = 1
                 /\ new.multi = o.multi /\ new.first = h
  BY DEF ClusterRow
<1> QED
  BY <1>1, <1>2

-----------------------------------------------------------------------------
(* The inductive invariant.                                                *)

\* A feed lists entries of its outlet.
ListingsAreTheirs == \A s \in Source : \A a \in listing[s] : SourceOf[a] = s

\* What is left to store is new, and of one link once.
TodoIsNew ==
    /\ \A a \in session.todo : /\ SourceOf[a] = session.by
                               /\ \A b \in Article : Stored(session.tx, b) => ~SameUrl(a, b)
    /\ \A a, b \in session.todo : SameUrl(a, b) => a = b

\* The session keeps every committed article where it is, and what it has
\* added is of its outlet.
TxExtends ==
    \A a \in Article : /\ Stored(db, a) => session.tx.story[a] = db.story[a]
                       /\ Stored(session.tx, a) /\ ~Stored(db, a) => SourceOf[a] = session.by

\* The rows a query sees lie between the committed and the pending ones.
SeenIsBetween ==
    \A c \in Id :
        /\ db.row[c].articles <= session.seen[c].articles
        /\ session.seen[c].articles <= session.tx.row[c].articles
        /\ db.row[c].articles > 0 => /\ session.seen[c].first = db.row[c].first
                                     /\ session.tx.row[c].first = db.row[c].first

\* The outlets kept for a story are those it has; without any the session
\* has not touched it.
KnownIsRight ==
    \A c \in Id :
        IF session.known[c] = {}
        THEN session.tx.row[c] = db.row[c] /\ Members(session.tx, c) = Members(db, c)
        ELSE /\ session.known[c] = OutletsOf(session.tx, c)
             /\ session.known[c] = OutletsOf(db, c) \cup {session.by}

\* What the tag of the session will vouch for is stored, or will be.
CoveredBy(d, a) ==
    \/ \E b \in Article : Stored(d, b) /\ SameUrl(a, b)
    \/ \E b \in Article : Stored(d, b) /\ SourceOf[b] = SourceOf[a] /\ Title[b] = Title[a]
    \/ \E b \in Article : SourceOf[b] = SourceOf[a] /\ SameUrl(a, b) /\ TooOld(b)
TagIsCovered ==
    session.tag.tag => \A a \in session.tag.of :
        CoveredBy(session.tx, a) \/ \E b \in session.todo : SameUrl(a, b)

InSession == /\ session.by \in Source
             /\ TodoIsNew /\ TxExtends /\ SeenIsBetween /\ KnownIsRight /\ TagIsCovered

ClusterInv ==
    /\ ClusterTypeOK /\ ListingsAreTheirs
    /\ SoundIn(db) /\ SoundIn(session.tx)
    /\ session # NoSession => InSession
    /\ NothingIsSkipped

LEMMA AccountedIsCovered ==
    ASSUME NEW a \in Article
    PROVE  Accounted(a) <=> CoveredBy(db, a)
  BY DEF Accounted, CoveredBy, Unknown, Alike

(* A tag keeps vouching while time passes and stories only grow.           *)
LEMMA CoveredStays ==
    ASSUME NEW d, NEW e, NEW a \in Article, CoveredBy(d, a),
           \A b \in Article : Stored(d, b) => Stored(e, b)
    PROVE  CoveredBy(e, a)
  BY DEF CoveredBy

LEMMA OldStaysOld ==
    ASSUME now \in Nat, now' \in Nat, now' >= now, NEW a \in Article, TooOld(a)
    PROVE  TooOld(a)'
  BY ClusteringAssumption DEF TooOld, DateOf

LEMMA CoveredLater ==
    ASSUME now \in Nat, now' \in Nat, now' >= now, NEW d, NEW a \in Article, CoveredBy(d, a)
    PROVE  CoveredBy(d, a)'
<1> USE DEF CoveredBy
<1>1. CASE \/ \E b \in Article : Stored(d, b) /\ SameUrl(a, b)
           \/ \E b \in Article : Stored(d, b) /\ SourceOf[b] = SourceOf[a] /\ Title[b] = Title[a]
  BY <1>1 DEF Stored, SameUrl
<1>2. CASE \E b \in Article : SourceOf[b] = SourceOf[a] /\ SameUrl(a, b) /\ TooOld(b)
  <2>1. PICK b \in Article : SourceOf[b] = SourceOf[a] /\ SameUrl(a, b) /\ TooOld(b)
    BY <1>2
  <2>2. TooOld(b)'
    BY <2>1, OldStaysOld
  <2> QED
    BY <2>1, <2>2 DEF SameUrl
<1> QED
  BY <1>1, <1>2

LEMMA InitClusterInv == ClusterInit => ClusterInv
<1> SUFFICES ASSUME ClusterInit PROVE ClusterInv
  OBVIOUS
<1>1. /\ NoTag \in Tag /\ ~NoTag.tag /\ NoSession.tx = Empty
      /\ NoSession \in Session
  <2>1. NoTag \in Tag /\ ~NoTag.tag
    BY DEF NoTag, Tag
  <2>2. NoSession.tx = Empty
    BY DEF NoSession
  <2> QED
    BY <2>1, <2>2, EmptyIsSound DEF NoSession, Session
<1>2. ClusterTypeOK
  BY <1>1, EmptyIsSound, TypesOfParts, ClusteringAssumption DEF ClusterInit
<1>3. ListingsAreTheirs /\ NothingIsSkipped
  BY <1>1 DEF ClusterInit, ListingsAreTheirs, NothingIsSkipped
<1> QED
  BY <1>1, <1>2, <1>3, EmptyIsSound DEF ClusterInit, ClusterInv

(* A step that touches neither the stories nor the session.                *)
LEMMA FeedsMove ==
    ASSUME ClusterInv, ClusterTypeOK', ListingsAreTheirs', UNCHANGED <<etag, db, session>>, now' >= now
    PROVE  ClusterInv'
<1>1. now \in Nat /\ now' \in Nat
  BY ClusteringAssumption DEF ClusterInv, ClusterTypeOK
<1>2. SoundIn(db)' /\ SoundIn(session.tx)'
  BY DEF ClusterInv
<1>3. NothingIsSkipped'
  <2> SUFFICES ASSUME NEW s \in Source, etag[s].tag, NEW a \in etag[s].of
               PROVE  Accounted(a)'
    BY DEF NothingIsSkipped
  <2>1. a \in Article
    BY DEF ClusterInv, ClusterTypeOK
  <2>2. PICK d : d = db
    OBVIOUS
  <2>3. CoveredBy(d, a)
    BY <2>1, <2>2, AccountedIsCovered DEF ClusterInv, NothingIsSkipped
  <2>4. CoveredBy(d, a)'
    BY <1>1, <2>1, <2>3, CoveredLater
  <2> QED
    BY <2>1, <2>2, <2>4 DEF CoveredBy, Accounted, Unknown, Alike
<1>4. session # NoSession => InSession'
  <2> SUFFICES ASSUME session # NoSession PROVE InSession'
    OBVIOUS
  <2>1. InSession
    BY DEF ClusterInv
  <2>2. session'.by \in Source /\ TodoIsNew' /\ TxExtends' /\ SeenIsBetween' /\ KnownIsRight'
    BY <2>1 DEF InSession, TodoIsNew, TxExtends, SeenIsBetween, KnownIsRight, Stored, SameUrl,
       Members, OutletsOf
  <2>3. TagIsCovered'
    <3> SUFFICES ASSUME session.tag.tag, NEW a \in session.tag.of
                 PROVE  CoveredBy(session.tx, a)' \/ \E b \in session.todo : SameUrl(a, b)
      BY DEF TagIsCovered, SameUrl
    <3>1. a \in Article
      BY TypesOfParts, SessionFields DEF ClusterInv, Tag
    <3>2. PICK d : d = session.tx
      OBVIOUS
    <3>3. CoveredBy(d, a) \/ \E b \in session.todo : SameUrl(a, b)
      BY <2>1, <3>2 DEF InSession, TagIsCovered
    <3>4. CoveredBy(d, a) => CoveredBy(d, a)'
      BY <1>1, <3>1, CoveredLater
    <3> QED
      BY <3>2, <3>3, <3>4 DEF CoveredBy
  <2> QED
    BY <2>2, <2>3 DEF InSession
<1> QED
  BY <1>2, <1>3, <1>4 DEF ClusterInv

(* A feed is fetched: what it lists is stored, like something stored, or   *)
(* too old, or it is left to store.                                        *)
LEMMA FetchingKeeps ==
    ASSUME ClusterInv, NEW s \in Source, NEW tagged \in BOOLEAN, NEW t \in SUBSET listing[s],
           Fetch(s, t, tagged)
    PROVE  ClusterInv'
<1> DEFINE tag == IF tagged THEN [tag |-> TRUE, of |-> listing[s]] ELSE etag[s]
           todo == {a \in t : ~TooOld(a)}
<1>1. /\ listing[s] \subseteq Article /\ t \subseteq Article /\ db \in Database
      /\ db.row \in [Id -> ClusterRow] /\ tag \in Tag
      /\ \A a \in listing[s] : SourceOf[a] = s
  BY TypesOfParts DEF ClusterInv, ListingsAreTheirs, Database, Tag
<1>2. /\ session' = [NoSession EXCEPT !.by = s, !.todo = todo, !.tx = db, !.seen = db.row, !.tag = tag]
      /\ UNCHANGED <<now, listing, etag, db, crossed>> /\ t \in Picks(listing[s])
  BY DEF Fetch
<1> HIDE DEF tag
<1>3. /\ session'.by = s /\ session'.todo = todo /\ session'.tx = db /\ session'.seen = db.row
      /\ session'.tag = tag /\ session'.known = [c \in Id |-> {}] /\ session' \in Session
  BY <1>1, <1>2 DEF NoSession, Session
<1>4. ClusterTypeOK'
  <2>1. /\ now' \in 0 .. LastHour /\ listing' \in [Source -> SUBSET Article]
        /\ etag' \in [Source -> Tag] /\ db' \in Database /\ crossed' \subseteq Id
    BY <1>2, TypesOfParts DEF ClusterInv
  <2> QED
    BY <1>3, <2>1 DEF ClusterTypeOK, Session, Database, Tag
<1>5. SoundIn(db)' /\ SoundIn(session.tx)'
  BY <1>2, <1>3 DEF ClusterInv
<1>6. InSession'
  <2>1. TodoIsNew'
    <3>1. \A a \in t : Unknown(a) /\ a \in Article /\ SourceOf[a] = s
      BY <1>1, <1>2 DEF Picks, Kept
    <3>2. \A a, b \in t : SameUrl(a, b) => a = b
      <4> SUFFICES ASSUME NEW a \in t, NEW b \in t, SameUrl(a, b) PROVE a = b
        OBVIOUS
      <4>1. a \in Kept(listing[s])
        BY <1>2 DEF Picks
      <4>2. PICK x \in t : {y \in t : SameUrl(a, y)} = {x}
        BY <1>2, <4>1 DEF Picks
      <4>3. SameUrl(a, a)
        BY DEF SameUrl
      <4> QED
        BY <4>2, <4>3
    <3> QED
      BY <1>3, <3>1, <3>2 DEF TodoIsNew, Unknown, SameUrl
  <2>2. TxExtends'
    BY <1>2, <1>3 DEF TxExtends
  <2>3. SeenIsBetween'
    <3>1. \A c \in Id : db.row[c].articles \in Nat
      BY <1>1, RowFields
    <3> QED
      BY <1>2, <1>3, <3>1 DEF SeenIsBetween
  <2>4. KnownIsRight'
    BY <1>2, <1>3 DEF KnownIsRight
  <2>5. TagIsCovered'
    <3> SUFFICES ASSUME tag.tag, NEW a \in tag.of
                 PROVE  CoveredBy(db, a) \/ \E b \in todo : SameUrl(a, b)
      BY <1>2, <1>3 DEF TagIsCovered, CoveredBy, SameUrl, Stored, TooOld, DateOf
    <3>1. CASE ~tagged
      BY <1>1, <3>1, AccountedIsCovered, TypesOfParts DEF ClusterInv, NothingIsSkipped, tag, Tag
    <3>2. CASE tagged
      <4>1. a \in listing[s] /\ a \in Article /\ SourceOf[a] = s
        BY <1>1, <3>2 DEF tag
      <4>2. CASE a \notin Kept(listing[s])
        BY <4>1, <4>2 DEF Kept, Unknown, Alike, CoveredBy
      <4>3. CASE a \in Kept(listing[s])
        <5>1. PICK b \in t : {x \in t : SameUrl(a, x)} = {b}
          BY <1>2, <4>3 DEF Picks
        <5>2. b \in Article /\ SourceOf[b] = s /\ SameUrl(a, b)
          BY <1>1, <5>1
        <5>3. TooOld(b) \/ b \in todo
          OBVIOUS
        <5> QED
          BY <4>1, <5>2, <5>3 DEF CoveredBy
      <4> QED
        BY <4>2, <4>3
    <3> QED
      BY <3>1, <3>2
  <2> QED
    BY <1>3, <2>1, <2>2, <2>3, <2>4, <2>5 DEF InSession
<1>7. NothingIsSkipped' /\ ListingsAreTheirs'
  BY <1>2 DEF ClusterInv, NothingIsSkipped, ListingsAreTheirs, Accounted, Unknown, Alike, SameUrl,
     Stored, TooOld, DateOf
<1> QED
  BY <1>4, <1>5, <1>6, <1>7 DEF ClusterInv

(* What a story in reach is confirmed by.                                  *)
LEMMA MatchIsConfirmed ==
    ASSUME NEW a, NEW c, c \in Matches(a)
    PROVE  /\ c \in Id /\ session.seen[c].articles \in 1 .. MaxArticles - 1
           /\ session.seen[c].first >= now - MaxStoryAge
           /\ \E b \in Members(session.tx, c) : /\ SourceOf[b] # SourceOf[a]
                                                /\ Overlap(Words[a], Words[b]) >= MinShared
  BY DEF Matches, Tops, InReach, Confirmed, Agree, SharesTopic

(* A session goes on with one article less to store.                       *)
LEMMA SessionGoesOn ==
    ASSUME ClusterInv, InSession, NEW a \in session.todo, NEW c \in Id,
           session'.by = session.by, session'.tag = session.tag,
           session'.todo = session.todo \ {a},
           Joins(session.tx, session'.tx, a, c), session' \in Session,
           UNCHANGED <<now, listing, etag, db>>, crossed' \subseteq Id,
           SoundIn(session'.tx), SeenIsBetween', KnownIsRight'
    PROVE  ClusterInv'
<1>1. /\ session.tx \in Database /\ session'.tx \in Database /\ session.todo \subseteq Article
      /\ a \in Article /\ SourceOf[a] = session.by
      /\ session.tag.of \subseteq Article
  BY TypesOfParts, SessionFields DEF ClusterInv, InSession, TodoIsNew, Tag
<1>2. ClusterTypeOK'
  <2>1. /\ now' \in 0 .. LastHour /\ listing' \in [Source -> SUBSET Article]
        /\ etag' \in [Source -> Tag] /\ db' \in Database
    BY TypesOfParts DEF ClusterInv
  <2> QED
    BY <2>1 DEF ClusterTypeOK, Session, Database, Tag
<1>3. /\ \A b \in Article : Stored(session'.tx, b) <=> Stored(session.tx, b) \/ b = a
      /\ \A b \in Article : Stored(session.tx, b) => session'.tx.story[b] = session.tx.story[b]
  BY <1>1, JoiningMembers
<1>4. TodoIsNew'
  <2>1. \A b \in session.todo \ {a} : ~SameUrl(b, a)
    BY DEF InSession, TodoIsNew
  <2>2. \A b \in session.todo \ {a} : \A x \in Article : Stored(session'.tx, x) => ~SameUrl(b, x)
    BY <1>3, <2>1 DEF InSession, TodoIsNew
  <2> QED
    BY <2>2 DEF InSession, TodoIsNew, SameUrl
<1>5. TxExtends'
  <2> SUFFICES ASSUME NEW b \in Article
               PROVE  /\ Stored(db, b) => session'.tx.story[b] = db.story[b]
                      /\ Stored(session'.tx, b) /\ ~Stored(db, b) => SourceOf[b] = session.by
    BY DEF TxExtends, Stored
  <2>1. Stored(db, b) => session.tx.story[b] = db.story[b] /\ Stored(session.tx, b)
    BY DEF InSession, TxExtends, Stored
  <2> QED
    BY <1>1, <1>3, <2>1 DEF InSession, TxExtends
<1>6. TagIsCovered'
  <2> SUFFICES ASSUME session.tag.tag, NEW b \in session.tag.of
               PROVE  CoveredBy(session'.tx, b) \/ \E x \in session.todo \ {a} : SameUrl(b, x)
    BY DEF TagIsCovered, CoveredBy, SameUrl, Stored, TooOld, DateOf
  <2>1. b \in Article
    BY <1>1
  <2>2. CASE CoveredBy(session.tx, b)
    BY <1>3, <2>1, <2>2, CoveredStays
  <2>3. CASE \E x \in session.todo : SameUrl(b, x)
    <3>1. PICK x \in session.todo : SameUrl(b, x)
      BY <2>3
    <3>2. CASE x = a
      BY <1>1, <1>3, <3>1, <3>2 DEF CoveredBy
    <3> QED
      BY <3>1, <3>2
  <2> QED
    BY <2>2, <2>3 DEF InSession, TagIsCovered
<1>7. NothingIsSkipped' /\ ListingsAreTheirs' /\ SoundIn(db)'
  BY DEF ClusterInv, NothingIsSkipped, ListingsAreTheirs, Accounted, Unknown, Alike, SameUrl,
     Stored, TooOld, DateOf
<1>8. InSession'
  BY <1>4, <1>5, <1>6 DEF InSession
<1>9. SoundIn(session.tx)'
  OBVIOUS
<1> QED
  BY <1>2, <1>7, <1>8, <1>9 DEF ClusterInv

(* The outlets that a session knows of a story are those it has.           *)
LEMMA KnownOutlets ==
    ASSUME ClusterInv, InSession, NEW c \in Id
    PROVE  /\ KnownOf(c) = OutletsOf(session.tx, c)
           /\ session.known[c] = {} => KnownOf(c) = OutletsOf(db, c)
           /\ session.known[c] # {} => KnownOf(c) = OutletsOf(db, c) \cup {session.by}
  BY DEF InSession, KnownIsRight, KnownOf, OutletsOf

LEMMA MatchingKeeps ==
    ASSUME ClusterInv, InSession, NEW a \in Article, NEW c \in Id, Match(a, c)
    PROVE  /\ ClusterInv' /\ Joins(session.tx, session'.tx, a, c) /\ session' \in Session
<1> DEFINE k == OutletsOf(session.tx, c)
           r == JoinedRow(session.tx.row[c], session.by \notin k)
<1>1. /\ now \in Int /\ session \in Session /\ session.tx \in Database /\ db \in Database
      /\ session.tx.row \in [Id -> ClusterRow] /\ db.row \in [Id -> ClusterRow]
      /\ session.seen \in [Id -> ClusterRow] /\ session.known \in [Id -> SUBSET Source]
      /\ session.tx.story \in [Article -> Id \cup {0}] /\ session.tx.index \in [Id -> SUBSET Word]
  BY TypesOfParts, SessionFields, ClusteringAssumption DEF ClusterInv, Database
<1>2. /\ a \in session.todo /\ c \in Matches(a) /\ session.by \in Source
      /\ SourceOf[a] = session.by /\ \A b \in Article : Stored(session.tx, b) => ~SameUrl(a, b)
  BY DEF Match, InSession, TodoIsNew
<1>3. KnownOf(c) = k
  BY KnownOutlets
<1>4. /\ r \in ClusterRow /\ r.articles = session.tx.row[c].articles + 1
      /\ r.outlets = IF session.by \in k THEN session.tx.row[c].outlets
                                         ELSE session.tx.row[c].outlets + 1
      /\ r.multi <=> session.tx.row[c].multi
                     \/ (session.by \notin k /\ session.tx.row[c].outlets + 1 >= MinOutlets)
      /\ r.first = session.tx.row[c].first
  <2>1. PICK x, s, q : x \in ClusterRow /\ x = session.tx.row[c] /\ s = session.by /\ q = k
    BY <1>1
  <2>2. x \in ClusterRow
    BY <2>1
  <2>3. /\ JoinedRow(x, s \notin q) \in ClusterRow
        /\ JoinedRow(x, s \notin q).articles = x.articles + 1
        /\ JoinedRow(x, s \notin q).outlets = IF s \in q THEN x.outlets ELSE x.outlets + 1
        /\ JoinedRow(x, s \notin q).multi <=> x.multi \/ (s \notin q /\ x.outlets + 1 >= MinOutlets)
        /\ JoinedRow(x, s \notin q).first = x.first
    BY <1>1, <2>2, JoinedRows
  <2> HIDE DEF k
  <2> QED
    BY <2>1, <2>3
<1> HIDE DEF r
<1>5. r.multi <=> r.outlets >= MinOutlets
  <2>1. session.tx.row[c].multi <=> session.tx.row[c].outlets >= MinOutlets
    BY DEF ClusterInv, SoundIn, Counted
  <2>2. session.tx.row[c].outlets \in Nat /\ MinOutlets \in Nat
    BY <1>1, RowFields, ClusteringAssumption
  <2> QED
    BY <1>4, <2>1, <2>2
<1>6. k \subseteq Source
  BY FiniteMembers
<1> HIDE DEF k
<1>7. /\ session' \in Session /\ session'.tx \in Database
      /\ session'.by = session.by /\ session'.tag = session.tag
      /\ session'.todo = session.todo \ {a} /\ session'.seen = session.seen
      /\ session'.known = [session.known EXCEPT ![c] = k \cup {session.by}]
      /\ session'.tx.story = [session.tx.story EXCEPT ![a] = c]
      /\ session'.tx.row = [session.tx.row EXCEPT ![c] = r]
      /\ session'.tx.index = [session.tx.index EXCEPT ![c] = @ \cup Words[a]]
      /\ UNCHANGED <<now, listing, etag, db>> /\ crossed' \subseteq Id
  <2> DEFINE tx == Placed(session.tx, a, c, r)
             known == [session.known EXCEPT ![c] = k \cup {session.by}]
  <2>1. session' = [session EXCEPT !.todo = @ \ {a}, !.tx = tx, !.known = known]
    BY <1>3 DEF Match, r, k
  <2>2. known \in [Id -> SUBSET Source]
    BY <1>1, <1>2, <1>6
  <2>3. tx \in Database
    BY <1>1, <1>4, PlacedFields
  <2>4. UNCHANGED <<now, listing, etag, db>> /\ crossed' \subseteq Id
    BY DEF Match, ClusterInv, ClusterTypeOK
  <2> HIDE DEF tx, known
  <2>5. /\ session' \in Session /\ session'.by = session.by /\ session'.tag = session.tag
        /\ session'.todo = session.todo \ {a} /\ session'.tx = tx
        /\ session'.seen = session.seen /\ session'.known = known
    BY <1>1, <2>1, <2>2, <2>3 DEF Session
  <2>6. /\ tx.story = [session.tx.story EXCEPT ![a] = c]
        /\ tx.row = [session.tx.row EXCEPT ![c] = r]
        /\ tx.index = [session.tx.index EXCEPT ![c] = @ \cup Words[a]]
    BY DEF tx, Placed
  <2> QED
    BY <2>3, <2>4, <2>5, <2>6 DEF known
<1>8. Joins(session.tx, session'.tx, a, c)
  <2>1. ~Stored(session.tx, a)
    BY <1>2 DEF SameUrl
  <2> QED
    BY <1>7, <2>1 DEF Joins
<1>9. PICK d \in Database, e \in Database : d = session.tx /\ e = session'.tx
  BY <1>1, <1>7
<1>10. SoundIn(session'.tx)
  <2>1. /\ Joins(d, e, a, c) /\ SoundIn(d)
        /\ \A b \in Article : Stored(d, b) => ~SameUrl(a, b)
        /\ e.row = [d.row EXCEPT ![c] = r] /\ e.index = [d.index EXCEPT ![c] = @ \cup Words[a]]
    BY <1>2, <1>7, <1>8, <1>9 DEF ClusterInv
  <2>2. \E b \in Members(d, c) : SourceOf[b] # SourceOf[a] /\ Overlap(Words[a], Words[b]) >= MinShared
    BY <1>2, <1>9, MatchIsConfirmed
  <2>3. /\ r.articles = d.row[c].articles + 1
        /\ r.outlets = IF SourceOf[a] \in OutletsOf(d, c) THEN d.row[c].outlets ELSE d.row[c].outlets + 1
    BY <1>2, <1>4, <1>9 DEF k
  <2>4. SoundIn(e)
    BY <1>4, <1>5, <2>1, <2>2, <2>3, JoiningIsSound
  <2> QED
    BY <1>9, <2>4
<1>11. SeenIsBetween'
  <2> SUFFICES ASSUME NEW b \in Id
               PROVE  /\ db.row[b].articles <= session.seen[b].articles
                      /\ session.seen[b].articles <= session'.tx.row[b].articles
                      /\ db.row[b].articles > 0 => /\ session.seen[b].first = db.row[b].first
                                                   /\ session'.tx.row[b].first = db.row[b].first
    BY <1>7 DEF SeenIsBetween
  <2>1. /\ session'.tx.row[b] = IF b = c THEN r ELSE session.tx.row[b]
        /\ session.tx.row[b].articles \in Nat /\ session.seen[b].articles \in Nat
        /\ session.tx.row[c].articles \in Nat
    BY <1>1, <1>7, RowFields
  <2> QED
    BY <1>4, <2>1 DEF InSession, SeenIsBetween
<1>12. KnownIsRight'
  <2> SUFFICES ASSUME NEW b \in Id
               PROVE  IF session'.known[b] = {}
                      THEN session'.tx.row[b] = db.row[b] /\ Members(session'.tx, b) = Members(db, b)
                      ELSE /\ session'.known[b] = OutletsOf(session'.tx, b)
                           /\ session'.known[b] = OutletsOf(db, b) \cup {session.by}
    BY <1>7 DEF KnownIsRight, Members, OutletsOf
  <2>1. CASE b # c
    <3>1. session'.known[b] = session.known[b] /\ session'.tx.row[b] = session.tx.row[b]
      BY <1>1, <1>7, <2>1
    <3>2. Members(e, b) = Members(d, b) /\ OutletsOf(e, b) = OutletsOf(d, b)
      BY <1>8, <1>9, <2>1, JoiningMembers
    <3> QED
      BY <1>9, <3>1, <3>2 DEF InSession, KnownIsRight
  <2>2. CASE b = c
    <3>1. session'.known[b] = k \cup {session.by}
      BY <1>1, <1>7, <2>2
    <3>2. OutletsOf(e, c) = OutletsOf(d, c) \cup {SourceOf[a]}
      BY <1>8, <1>9, JoiningMembers
    <3>3. k \cup {session.by} = OutletsOf(db, c) \cup {session.by}
      BY <1>3, KnownOutlets
    <3> QED
      BY <1>2, <1>9, <2>2, <3>1, <3>2, <3>3 DEF k
  <2> QED
    BY <2>1, <2>2
<1>13. ClusterInv'
  BY <1>2, <1>7, <1>8, <1>10, <1>11, <1>12, SessionGoesOn
<1> QED
  BY <1>7, <1>8, <1>13

LEMMA StartingKeeps ==
    ASSUME ClusterInv, InSession, NEW a \in Article, NEW c \in Id, StartStory(a, c)
    PROVE  /\ ClusterInv' /\ Joins(session.tx, session'.tx, a, c) /\ session' \in Session
           /\ Members(session.tx, c) = {} /\ Members(db, c) = {}
<1> DEFINE r == [NoRow EXCEPT !.articles = 1, !.outlets = 1, !.first = DateOf(a), !.last = DateOf(a)]
<1>1. /\ now \in Int /\ session \in Session /\ session.tx \in Database /\ db \in Database
      /\ session.tx.row \in [Id -> ClusterRow] /\ db.row \in [Id -> ClusterRow]
      /\ session.seen \in [Id -> ClusterRow] /\ session.known \in [Id -> SUBSET Source]
      /\ session.tx.story \in [Article -> Id \cup {0}] /\ session.tx.index \in [Id -> SUBSET Word]
  BY TypesOfParts, SessionFields, ClusteringAssumption DEF ClusterInv, Database
<1>2. /\ a \in session.todo /\ session.by \in Source /\ session.tx.row[c] = NoRow
      /\ SourceOf[a] = session.by /\ \A b \in Article : Stored(session.tx, b) => ~SameUrl(a, b)
  BY DEF StartStory, InSession, TodoIsNew
<1>3. r \in ClusterRow /\ r.articles = 1 /\ r.outlets = 1 /\ ~r.multi
  BY <1>1, NewRows, DatesAreHours
<1> HIDE DEF r
<1>4. NoRow.articles = 0 /\ NoRow.outlets = 0
  BY DEF NoRow
<1>5. Members(session.tx, c) = {} /\ OutletsOf(session.tx, c) = {}
  <2>1. Cardinality(Members(session.tx, c)) = 0
    BY <1>2, <1>4 DEF ClusterInv, SoundIn, Counted
  <2> QED
    BY <2>1, FiniteMembers, FS_EmptySet DEF OutletsOf
<1>6. Members(db, c) = {} /\ OutletsOf(db, c) = {}
  <2>1. db.row[c].articles = 0
    <3>1. /\ db.row[c].articles <= session.seen[c].articles
          /\ session.seen[c].articles <= session.tx.row[c].articles
      BY DEF InSession, SeenIsBetween
    <3>2. db.row[c].articles \in Nat /\ session.seen[c].articles \in Nat
      BY <1>1, RowFields
    <3> QED
      BY <1>2, <1>4, <3>1, <3>2
  <2>2. Cardinality(Members(db, c)) = 0
    BY <2>1 DEF ClusterInv, SoundIn, Counted
  <2> QED
    BY <2>2, FiniteMembers, FS_EmptySet DEF OutletsOf
<1>7. /\ session' \in Session /\ session'.tx \in Database
      /\ session'.by = session.by /\ session'.tag = session.tag
      /\ session'.todo = session.todo \ {a} /\ session'.seen = session'.tx.row
      /\ session'.known = [session.known EXCEPT ![c] = {session.by}]
      /\ session'.tx.story = [session.tx.story EXCEPT ![a] = c]
      /\ session'.tx.row = [session.tx.row EXCEPT ![c] = r]
      /\ session'.tx.index = [session.tx.index EXCEPT ![c] = @ \cup Words[a]]
      /\ UNCHANGED <<now, listing, etag, db, crossed>>
  <2> DEFINE tx == Placed(session.tx, a, c, r)
             known == [session.known EXCEPT ![c] = {session.by}]
  <2>1. /\ session' = [session EXCEPT !.todo = @ \ {a}, !.tx = tx, !.seen = tx.row, !.known = known]
        /\ UNCHANGED <<now, listing, etag, db, crossed>>
    BY DEF StartStory, r
  <2>2. known \in [Id -> SUBSET Source]
    BY <1>1, <1>2
  <2>3. /\ tx \in Database /\ tx.row \in [Id -> ClusterRow]
    <3>1. tx \in Database
      BY <1>1, <1>3, PlacedFields
    <3> QED
      BY <3>1 DEF Database
  <2>4. /\ tx.story = [session.tx.story EXCEPT ![a] = c]
        /\ tx.row = [session.tx.row EXCEPT ![c] = r]
        /\ tx.index = [session.tx.index EXCEPT ![c] = @ \cup Words[a]]
    BY DEF tx, Placed
  <2> HIDE DEF tx, known
  <2>5. /\ session' \in Session /\ session'.by = session.by /\ session'.tag = session.tag
        /\ session'.todo = session.todo \ {a} /\ session'.tx = tx
        /\ session'.seen = tx.row /\ session'.known = known
    BY <1>1, <2>1, <2>2, <2>3 DEF Session
  <2> QED
    BY <2>1, <2>3, <2>4, <2>5 DEF known
<1>8. Joins(session.tx, session'.tx, a, c)
  <2>1. ~Stored(session.tx, a)
    BY <1>2 DEF SameUrl
  <2> QED
    BY <1>7, <2>1 DEF Joins
<1>9. PICK d \in Database, e \in Database : d = session.tx /\ e = session'.tx
  BY <1>1, <1>7
<1>10. SoundIn(session'.tx)
  <2>1. /\ Joins(d, e, a, c) /\ SoundIn(d) /\ Members(d, c) = {} /\ OutletsOf(d, c) = {}
        /\ \A b \in Article : Stored(d, b) => ~SameUrl(a, b)
        /\ e.row = [d.row EXCEPT ![c] = r] /\ e.index = [d.index EXCEPT ![c] = @ \cup Words[a]]
    BY <1>2, <1>5, <1>7, <1>8, <1>9 DEF ClusterInv
  <2>2. /\ r.articles = d.row[c].articles + 1
        /\ r.outlets = IF SourceOf[a] \in OutletsOf(d, c) THEN d.row[c].outlets ELSE d.row[c].outlets + 1
        /\ r.multi <=> r.outlets >= MinOutlets
    BY <1>2, <1>3, <1>4, <1>9, <2>1, ClusteringAssumption
  <2>3. PICK w \in ClusterRow : w = r
    BY <1>3
  <2>4. SoundIn(e)
    <3>1. /\ e.row = [d.row EXCEPT ![c] = w] /\ w.articles = d.row[c].articles + 1
          /\ w.outlets = IF SourceOf[a] \in OutletsOf(d, c) THEN d.row[c].outlets ELSE d.row[c].outlets + 1
          /\ w.multi <=> w.outlets >= MinOutlets
      BY <2>1, <2>2, <2>3
    <3> QED
      BY ONLY <2>1, <3>1, JoiningIsSound
  <2> QED
    BY <1>9, <2>4
<1>11. SeenIsBetween'
  <2> SUFFICES ASSUME NEW b \in Id
               PROVE  /\ db.row[b].articles <= session'.tx.row[b].articles
                      /\ session'.tx.row[b].articles <= session'.tx.row[b].articles
                      /\ db.row[b].articles > 0 => session'.tx.row[b].first = db.row[b].first
    BY <1>7 DEF SeenIsBetween
  <2>1. /\ session'.tx.row[b] = IF b = c THEN r ELSE session.tx.row[b]
        /\ session.tx.row[b].articles \in Nat /\ session.seen[b].articles \in Nat
        /\ db.row[b].articles \in Nat
    BY <1>1, <1>7, RowFields
  <2>2. CASE b = c
    <3>1. db.row[c].articles = 0
      BY <1>6, FS_EmptySet DEF ClusterInv, SoundIn, Counted
    <3> QED
      BY <1>3, <2>1, <2>2, <3>1
  <2>3. CASE b # c
    <3>1. db.row[b].articles > 0 => session.tx.row[b].first = db.row[b].first
      BY DEF InSession, SeenIsBetween
    <3> QED
      BY <2>1, <2>3, <3>1 DEF InSession, SeenIsBetween
  <2> QED
    BY <2>2, <2>3
<1>12. KnownIsRight'
  <2> SUFFICES ASSUME NEW b \in Id
               PROVE  IF session'.known[b] = {}
                      THEN session'.tx.row[b] = db.row[b] /\ Members(session'.tx, b) = Members(db, b)
                      ELSE /\ session'.known[b] = OutletsOf(session'.tx, b)
                           /\ session'.known[b] = OutletsOf(db, b) \cup {session.by}
    BY <1>7 DEF KnownIsRight, Members, OutletsOf
  <2>1. CASE b # c
    <3>1. session'.known[b] = session.known[b] /\ session'.tx.row[b] = session.tx.row[b]
      BY <1>1, <1>7, <2>1
    <3>2. Members(e, b) = Members(d, b) /\ OutletsOf(e, b) = OutletsOf(d, b)
      BY <1>8, <1>9, <2>1, JoiningMembers
    <3> QED
      BY <1>9, <3>1, <3>2 DEF InSession, KnownIsRight
  <2>2. CASE b = c
    <3>1. session'.known[b] = {session.by}
      BY <1>1, <1>7, <2>2
    <3>2. OutletsOf(e, c) = OutletsOf(d, c) \cup {SourceOf[a]}
      BY <1>8, <1>9, JoiningMembers
    <3> QED
      BY <1>2, <1>5, <1>6, <1>9, <2>2, <3>1, <3>2
  <2> QED
    BY <2>1, <2>2
<1>13. ClusterInv'
  BY <1>2, <1>7, <1>8, <1>10, <1>11, <1>12, SessionGoesOn DEF ClusterInv, ClusterTypeOK
<1> QED
  BY <1>5, <1>6, <1>7, <1>8, <1>13

LEMMA NoSessionFields ==
    /\ NoSession \in Session /\ NoSession.tx = Empty /\ NoSession.todo = {} /\ NoSession.by = Nobody
    /\ NoSession.known = [c \in Id |-> {}]
<1>1. NoTag \in Tag
  BY DEF NoTag, Tag
<1>2. NoSession.tx = Empty /\ NoSession.todo = {} /\ NoSession.by = Nobody
      /\ NoSession.known = [c \in Id |-> {}]
  BY DEF NoSession
<1> QED
  BY <1>1, <1>2, EmptyIsSound DEF NoSession, Session

LEMMA CommittingKeeps ==
    ASSUME ClusterInv, Commit
    PROVE  ClusterInv'
<1>1. session # NoSession /\ InSession
  BY NoSessionFields DEF Commit, ClusterInv
<1>2. /\ db' = session.tx /\ session' = NoSession /\ etag' = [etag EXCEPT ![session.by] = session.tag]
      /\ UNCHANGED <<now, listing, crossed>> /\ session.todo = {} /\ session.by \in Source
  BY <1>1 DEF Commit, InSession
<1>3. /\ session.tag \in Tag /\ session.tx \in Database /\ etag \in [Source -> Tag] /\ db \in Database
  BY TypesOfParts, SessionFields DEF ClusterInv
<1>4. ClusterTypeOK'
  <2>1. /\ now' \in 0 .. LastHour /\ listing' \in [Source -> SUBSET Article]
        /\ etag' \in [Source -> Tag] /\ db' \in Database /\ crossed' \subseteq Id /\ session' \in Session
    BY <1>2, <1>3, TypesOfParts, NoSessionFields DEF ClusterInv
  <2> QED
    BY <2>1 DEF ClusterTypeOK, Session, Database, Tag
<1>5. SoundIn(db)' /\ SoundIn(session.tx)'
  <2>1. SoundIn(session.tx) /\ SoundIn(NoSession.tx)
    BY NoSessionFields, EmptyIsSound DEF ClusterInv
  <2> QED
    BY <1>2, <2>1
<1>6. NothingIsSkipped'
  <2> SUFFICES ASSUME NEW s \in Source, etag'[s].tag, NEW a \in etag'[s].of
               PROVE  Accounted(a)'
    BY DEF NothingIsSkipped
  <2>1. a \in Article
    BY <1>2, <1>3 DEF Tag
  <2>2. CoveredBy(session.tx, a)
    <3>1. CASE s = session.by
      BY <1>1, <1>2, <1>3, <3>1 DEF InSession, TagIsCovered
    <3>2. CASE s # session.by
      <4>1. CoveredBy(db, a)
        BY <1>2, <1>3, <2>1, <3>2, AccountedIsCovered DEF ClusterInv, NothingIsSkipped
      <4>2. \A b \in Article : Stored(db, b) => Stored(session.tx, b)
        BY <1>1 DEF InSession, TxExtends, Stored
      <4> QED
        BY <2>1, <4>1, <4>2, CoveredStays
    <3> QED
      BY <3>1, <3>2
  <2> QED
    BY <1>2, <2>1, <2>2 DEF CoveredBy, Accounted, Unknown, Alike, Stored, SameUrl, TooOld, DateOf
<1>7. ListingsAreTheirs'
  BY <1>2 DEF ClusterInv, ListingsAreTheirs
<1> QED
  BY <1>2, <1>4, <1>5, <1>6, <1>7 DEF ClusterInv

LEMMA EndingKeeps ==
    ASSUME ClusterInv, Fail \/ EndCycle \/ UNCHANGED cvars
    PROVE  ClusterInv'
<1>1. /\ UNCHANGED <<now, listing, etag, db>> /\ crossed' \subseteq Id
      /\ session' = session \/ session' = NoSession
  BY DEF Fail, EndCycle, cvars, ClusterInv, ClusterTypeOK
<1>2. ClusterTypeOK'
  <2>1. /\ now' \in 0 .. LastHour /\ listing' \in [Source -> SUBSET Article]
        /\ etag' \in [Source -> Tag] /\ db' \in Database /\ session' \in Session
    BY <1>1, TypesOfParts, NoSessionFields DEF ClusterInv
  <2> QED
    BY <1>1, <2>1 DEF ClusterTypeOK, Session, Database, Tag
<1>3. SoundIn(db)' /\ SoundIn(session.tx)'
  <2>1. SoundIn(session.tx) /\ SoundIn(NoSession.tx)
    BY NoSessionFields, EmptyIsSound DEF ClusterInv
  <2> QED
    BY <1>1, <2>1 DEF ClusterInv
<1>4. ListingsAreTheirs' /\ NothingIsSkipped'
  BY <1>1 DEF ClusterInv, NothingIsSkipped, ListingsAreTheirs, Accounted, Unknown, Alike, SameUrl,
     Stored, TooOld, DateOf
<1>5. session' # NoSession => InSession'
  <2> SUFFICES ASSUME session' # NoSession PROVE InSession'
    OBVIOUS
  <2>1. session' = session /\ InSession
    BY <1>1 DEF ClusterInv
  <2> QED
    BY <1>1, <2>1 DEF InSession, TodoIsNew, TxExtends, SeenIsBetween, KnownIsRight, TagIsCovered,
       CoveredBy, Stored, SameUrl, TooOld, DateOf, Members, OutletsOf
<1> QED
  BY <1>2, <1>3, <1>4, <1>5 DEF ClusterInv

LEMMA TimeKeeps ==
    ASSUME ClusterInv, (\E a \in Article : Publish(a)) \/ Tick
    PROVE  ClusterInv'
<1>1. now \in Nat /\ LastHour \in Nat /\ listing \in [Source -> SUBSET Article]
  BY ClusteringAssumption DEF ClusterInv, ClusterTypeOK
<1>2. CASE Tick
  <2>1. now' \in 0 .. LastHour /\ now' >= now /\ UNCHANGED <<listing, etag, db, session, crossed>>
    BY <1>1, <1>2 DEF Tick, ClusterInv, ClusterTypeOK
  <2>2. ClusterTypeOK' /\ ListingsAreTheirs'
    BY <2>1 DEF ClusterInv, ClusterTypeOK, ListingsAreTheirs
  <2> QED
    BY <2>1, <2>2, FeedsMove
<1>3. ASSUME NEW a \in Article, Publish(a)
      PROVE  ClusterInv'
  <2>1. /\ UNCHANGED <<now, etag, db, session, crossed>> /\ now' >= now /\ SourceOf[a] \in Source
        /\ listing' = [listing EXCEPT ![SourceOf[a]] = @ \cup {a}]
    BY <1>1, <1>3, ClusteringAssumption DEF Publish
  <2>2. listing' \in [Source -> SUBSET Article] /\ ListingsAreTheirs'
    BY <1>1, <2>1 DEF ClusterInv, ListingsAreTheirs
  <2>3. ClusterTypeOK'
    BY <2>1, <2>2 DEF ClusterInv, ClusterTypeOK
  <2> QED
    BY <2>1, <2>2, <2>3, FeedsMove
<1> QED
  BY <1>2, <1>3

LEMMA NextKeeps == ClusterInv /\ [ClusterNext]_cvars => ClusterInv'
<1> SUFFICES ASSUME ClusterInv, [ClusterNext]_cvars PROVE ClusterInv'
  OBVIOUS
<1>1. ASSUME NEW s \in Source, NEW tagged \in BOOLEAN, NEW t \in SUBSET listing[s], Fetch(s, t, tagged)
      PROVE  ClusterInv'
  BY <1>1, FetchingKeeps
<1>2. ASSUME NEW a \in Article, NEW c \in Id, Match(a, c) \/ StartStory(a, c)
      PROVE  ClusterInv'
  <2>1. InSession
    BY <1>2, NoSessionFields DEF Match, StartStory, ClusterInv
  <2> QED
    BY <1>2, <2>1, MatchingKeeps, StartingKeeps
<1>3. ASSUME NEW s \in Source, NotFetched(s)
      PROVE  ClusterInv'
  BY <1>3, EndingKeeps DEF NotFetched
<1> QED
  BY <1>1, <1>2, <1>3, CommittingKeeps, EndingKeeps, TimeKeeps DEF ClusterNext, IngestFeed

LEMMA ClusterInvariance == ClusterSpec => []ClusterInv
<1>1. ClusterInit => ClusterInv
  BY InitClusterInv
<1>2. ClusterInv /\ [ClusterNext]_cvars => ClusterInv'
  BY NextKeeps
<1> QED
  BY <1>1, <1>2, PTL DEF ClusterSpec

-----------------------------------------------------------------------------
(* A story that is closed is out of reach of the queries of a session.     *)
LEMMA ClosedIsOutOfReach ==
    ASSUME ClusterInv, InSession, NEW a \in Article, NEW c \in Id, Closed(c)
    PROVE  ~Match(a, c) /\ ~StartStory(a, c)
<1>1. /\ db.row[c].articles \in Nat /\ session.seen[c].articles \in Nat
      /\ session.tx.row[c].articles \in Nat /\ db.row[c].first \in Int /\ now \in Int
      /\ MaxArticles \in Nat \ {0} /\ MaxStoryAge \in Nat
  BY TypesOfParts, SessionFields, RowFields, ClusteringAssumption DEF ClusterInv, Database
<1>2. /\ db.row[c].articles > 0 /\ db.row[c].articles <= session.seen[c].articles
      /\ session.seen[c].articles <= session.tx.row[c].articles
      /\ session.seen[c].first = db.row[c].first
  BY <1>1 DEF Closed, InSession, SeenIsBetween
<1>3. ~Match(a, c)
  <2> SUFFICES ASSUME c \in Matches(a) PROVE FALSE
    BY DEF Match
  <2>1. session.seen[c].articles < MaxArticles /\ session.seen[c].first >= now - MaxStoryAge
    BY <1>1, MatchIsConfirmed
  <2> QED
    BY <1>1, <1>2, <2>1 DEF Closed
<1>4. ~StartStory(a, c)
  <2>1. session.tx.row[c] # NoRow
    BY <1>1, <1>2 DEF NoRow
  <2> QED
    BY <2>1 DEF StartStory
<1> QED
  BY <1>3, <1>4

LEMMA ClosedStays ==
    ClusterInv /\ [ClusterNext]_cvars =>
        [session # NoSession /\ session' # NoSession =>
             \A c \in Id : Closed(c) => Members(session'.tx, c) = Members(session.tx, c)]_cvars
<1> SUFFICES ASSUME ClusterInv, [ClusterNext]_cvars, session # NoSession, session' # NoSession,
                    NEW c \in Id, Closed(c)
             PROVE  Members(session'.tx, c) = Members(session.tx, c)
  OBVIOUS
<1>1. InSession
  BY DEF ClusterInv
<1>2. CASE session' = session
  BY <1>2
<1>3. ASSUME NEW a \in Article, NEW e \in Id, Match(a, e) \/ StartStory(a, e)
      PROVE  Members(session'.tx, c) = Members(session.tx, c)
  <2>1. c # e
    BY <1>1, <1>3, ClosedIsOutOfReach
  <2>2. Joins(session.tx, session'.tx, a, e) /\ session.tx \in Database
    BY <1>1, <1>3, MatchingKeeps, StartingKeeps, TypesOfParts, SessionFields DEF ClusterInv
  <2> QED
    BY <2>1, <2>2, JoiningMembers
<1> QED
  BY <1>2, <1>3 DEF ClusterNext, IngestFeed, NotFetched, Fetch, Commit, Fail, EndCycle, Publish, Tick, cvars

(* TypeCorrect: feeds, rows, index and session have their types.           *)
THEOREM TypeCorrect == ClusterSpec => []ClusterTypeOK
  BY ClusterInvariance, PTL DEF ClusterInv

(* NoEntrySkipped: no entry is hidden by a 304 for good: what a stored tag *)
(* vouches for is stored, like something stored, or too old.               *)
THEOREM NoEntrySkipped == ClusterSpec => []NothingIsSkipped
  BY ClusterInvariance, PTL DEF ClusterInv

(* StoriesStaySound: the counters of every story are those of its          *)
(* articles, its index holds their words, no outlet's articles confirm     *)
(* each other, and no link is stored twice, in the middle of an ingestion  *)
(* too; a story that is full or too old takes no further article.          *)
THEOREM StoriesStaySound == ClusterSpec => StoriesAreSound
<1> DEFINE Stays == session # NoSession /\ session' # NoSession =>
                        \A c \in Id : Closed(c) => Members(session'.tx, c) = Members(session.tx, c)
<1>1. ClusterInv /\ [ClusterNext]_cvars => [Stays]_cvars
  BY ClosedStays
<1>2. ClusterInv => SoundIn(db) /\ (session # NoSession => SoundIn(session.tx))
  BY DEF ClusterInv
<1> HIDE DEF Stays
<1>3. ClusterSpec => [](SoundIn(db) /\ (session # NoSession => SoundIn(session.tx)))
  BY <1>2, ClusterInvariance, PTL
<1>4. ClusterSpec => [][Stays]_cvars
  BY <1>1, ClusterInvariance, PTL DEF ClusterSpec
<1> QED
  BY <1>3, <1>4 DEF StoriesAreSound, ClosedStaysClosed, Stays

-----------------------------------------------------------------------------
(* Ingestion is the one that EnrichmentPipeline assumes.  FeedSeen is what *)
(* that module takes for its feed, OutletsSeen and RowsSeen for the rest.  *)
FeedSeen == [at |-> IF session = NoSession THEN "idle" ELSE "ingest",
             source |-> IF session = NoSession THEN "none" ELSE session.by,
             staged |-> [c \in Id |-> Staged(c)], crossed |-> crossed]
OutletsSeen == [c \in Id |-> OutletsOf(db, c)]
RowsSeen == [c \in Id |-> Seen(db.row[c])]

LEMMA BlankIsSeen ==
    /\ Pipeline!Blank = Seen(NoRow)
    /\ Pipeline!NotLoaded = [loaded |-> Seen(NoRow), object |-> Seen(NoRow), known |-> {}]
  BY DEF Pipeline!Blank, Pipeline!NotLoaded, Seen, NoRow

LEMMA NothingStaged ==
    ASSUME NEW c \in Id, session.known[c] = {}
    PROVE  Staged(c) = Pipeline!NotLoaded
  BY BlankIsSeen DEF Staged

LEMMA SeenFields ==
    ASSUME NEW r
    PROVE  /\ Seen(r).count = r.outlets /\ Seen(r).multi = r.multi /\ ~Seen(r).ai
           /\ \A w : w.outlets = r.outlets /\ w.multi = r.multi => Seen(w) = Seen(r)
  BY DEF Seen

(* What a further article of outlet s makes of a story known as k.         *)
LEMMA JoinedIsSeen ==
    ASSUME NEW l, NEW r \in ClusterRow, NEW k, NEW s, now \in Int
    PROVE  Pipeline!Joined([loaded |-> l, object |-> Seen(r), known |-> k], s)
             = [loaded |-> l, object |-> Seen(JoinedRow(r, s \notin k)), known |-> k \cup {s}]
<1>1. /\ JoinedRow(r, s \notin k).outlets = IF s \in k THEN r.outlets ELSE r.outlets + 1
      /\ JoinedRow(r, s \notin k).multi <=> r.multi \/ (s \notin k /\ r.outlets + 1 >= MinOutlets)
      /\ JoinedRow(r, s \notin k) \in ClusterRow
  BY JoinedRows
<1>2. CASE s \in k
  <2>1. k \cup {s} = k
    BY <1>2
  <2>2. Seen(JoinedRow(r, s \notin k)) = Seen(r)
    <3>1. JoinedRow(r, s \notin k).multi = r.multi
      BY <1>1, <1>2, RowFields
    <3> QED
      BY <1>1, <1>2, <3>1, SeenFields
  <2> QED
    BY <1>2, <2>1, <2>2 DEF Pipeline!Joined
<1>3. CASE s \notin k
  <2>1. PICK w \in ClusterRow : /\ w = JoinedRow(r, s \notin k) /\ w.outlets = r.outlets + 1
                                /\ w.multi = (r.multi \/ r.outlets + 1 >= MinOutlets)
    BY <1>1, <1>3, RowFields
  <2>2. Pipeline!Joined([loaded |-> l, object |-> Seen(r), known |-> k], s)
          = [loaded |-> l, object |-> Seen(w), known |-> k \cup {s}]
    BY <1>3, <2>1, ZenonT(60) DEF Pipeline!Joined, Seen
  <2> QED
    BY <2>1, <2>2
<1> QED
  BY <1>2, <1>3

(* The unit of work writes what the session made of the row.               *)
LEMMA FlushIsSeen ==
    ASSUME NEW u, NEW w, NEW k
    PROVE  Pipeline!Flush([loaded |-> Seen(u), object |-> Seen(w), known |-> k], Seen(u)) = Seen(w)
<1>1. /\ DOMAIN Seen(u) = DOMAIN Seen(w)
      /\ Seen(w) = [f \in DOMAIN Seen(w) |-> Seen(w)[f]]
  BY DEF Seen
<1>2. Pipeline!Flush([loaded |-> Seen(u), object |-> Seen(w), known |-> k], Seen(u))
        = [f \in DOMAIN Seen(u) |-> IF Seen(w)[f] = Seen(u)[f] THEN Seen(u)[f] ELSE Seen(w)[f]]
  BY DEF Pipeline!Flush
<1>3. \A f \in DOMAIN Seen(u) :
         (IF Seen(w)[f] = Seen(u)[f] THEN Seen(u)[f] ELSE Seen(w)[f]) = Seen(w)[f]
  OBVIOUS
<1> QED
  BY <1>1, <1>2, <1>3

LEMMA StartsAsThePipeline == ClusterInit => Pipeline!PipelineInit
<1> SUFFICES ASSUME ClusterInit PROVE Pipeline!PipelineInit
  OBVIOUS
<1>1. /\ \A c \in Id : OutletsOf(db, c) = {} /\ db.row[c] = NoRow /\ session.known[c] = {}
      /\ session = NoSession /\ crossed = {}
  BY EmptyIsSound, NoSessionFields DEF ClusterInit, Empty
<1>2. OutletsSeen = [c \in Id |-> {}] /\ RowsSeen = [c \in Id |-> Pipeline!Blank]
  BY <1>1, BlankIsSeen DEF OutletsSeen, RowsSeen
<1>3. FeedSeen = Pipeline!Idle
  <2>1. \A c \in Id : Staged(c) = Pipeline!NotLoaded
    BY <1>1, NothingStaged
  <2> QED
    BY <1>1, <2>1 DEF FeedSeen, Pipeline!Idle, Pipeline!None
<1>4. NoRunOfIt = Pipeline!NoJob
  BY DEF NoRunOfIt, Pipeline!NoJob, Pipeline!None
<1> QED
  BY <1>2, <1>3, <1>4, BlankIsSeen DEF Pipeline!PipelineInit, OutletsSeen, RowsSeen, FeedSeen, Pipeline!NoHand,
     Pipeline!NoAnswer

(* Two updates of a feed, written out.                                     *)
LEMMA FeedBegins ==
    ASSUME NEW S, NEW X, NEW s, NEW f, f = [at |-> "idle", source |-> "none", staged |-> S, crossed |-> X],
           NEW g, g = [f EXCEPT !.at = "ingest", !.source = s]
    PROVE  g = [at |-> "ingest", source |-> s, staged |-> S, crossed |-> X]
  OBVIOUS

LEMMA FeedMatches ==
    ASSUME NEW S, NEW X, NEW s, NEW Y, NEW T,
           NEW f, f = [at |-> "ingest", source |-> s, staged |-> S, crossed |-> X],
           NEW g, g = [f EXCEPT !.staged = T, !.crossed = Y]
    PROVE  g = [at |-> "ingest", source |-> s, staged |-> T, crossed |-> Y]
  OBVIOUS

(* What the pipeline sees of a session.                                    *)
LEMMA SessionSeen ==
    ASSUME session # NoSession
    PROVE  /\ FeedSeen.at = "ingest" /\ FeedSeen.source = session.by /\ FeedSeen.crossed = crossed
           /\ FeedSeen.staged = [c \in Id |-> Staged(c)]
  BY DEF FeedSeen

LEMMA StagedIsLoaded ==
    ASSUME NEW c \in Id
    PROVE  /\ (session.known[c] = {}) <=> (Staged(c) = Pipeline!NotLoaded)
           /\ session.known[c] # {} =>
                 Staged(c) = [loaded |-> Seen(db.row[c]), object |-> Seen(session.tx.row[c]),
                              known |-> session.known[c]]
  BY BlankIsSeen DEF Staged

LEMMA FetchIsBegin ==
    ASSUME NEW s \in Source, NEW tagged \in BOOLEAN, NEW t \in SUBSET listing[s], Fetch(s, t, tagged)
    PROVE  UNCHANGED cvars \/ Pipeline!BeginSource(s)
<1>1. /\ session = NoSession /\ UNCHANGED <<now, listing, etag, db, crossed>>
      /\ session'.by = s /\ session'.known = [c \in Id |-> {}]
  BY DEF Fetch, NoSession
<1>2. CASE session' = NoSession
  BY <1>1, <1>2 DEF cvars
<1>3. CASE session' # NoSession
  <2>1. \A c \in Id : session.known[c] = {} /\ session'.known[c] = {}
    BY <1>1, NoSessionFields
  <2>2. \A c \in Id : Staged(c)' = Staged(c)
    BY <1>1, <2>1 DEF Staged
  <2>3. FeedSeen' = [FeedSeen EXCEPT !.at = "ingest", !.source = s]
    <3>1. [c \in Id |-> Staged(c)]' = [c \in Id |-> Staged(c)]
      BY <2>2
    <3>2. /\ FeedSeen = [at |-> "idle", source |-> "none", staged |-> [c \in Id |-> Staged(c)],
                         crossed |-> crossed]
          /\ FeedSeen' = [at |-> "ingest", source |-> s, staged |-> [c \in Id |-> Staged(c)]',
                          crossed |-> crossed]
      BY <1>1, <1>3 DEF FeedSeen
    <3>3. PICK S, X, f, g : /\ S = [c \in Id |-> Staged(c)] /\ X = crossed /\ f = FeedSeen
                            /\ g = [FeedSeen EXCEPT !.at = "ingest", !.source = s]
      OBVIOUS
    <3>4. g = [at |-> "ingest", source |-> s, staged |-> S, crossed |-> X]
      <4>1. f = [at |-> "idle", source |-> "none", staged |-> S, crossed |-> X]
        BY <3>2, <3>3
      <4>2. g = [f EXCEPT !.at = "ingest", !.source = s]
        BY <3>3
      <4> QED
        BY ONLY <4>1, <4>2, FeedBegins
    <3> QED
      BY <3>1, <3>2, <3>3, <3>4
  <2>4. FeedSeen.at = "idle" /\ OutletsSeen' = OutletsSeen /\ RowsSeen' = RowsSeen
    BY <1>1 DEF FeedSeen, OutletsSeen, RowsSeen, OutletsOf, Members
  <2> QED
    BY <2>3, <2>4 DEF Pipeline!BeginSource, FeedSeen, OutletsSeen, RowsSeen, NoRunOfIt
<1> QED
  BY <1>2, <1>3

LEMMA MatchIsMatch ==
    ASSUME ClusterInv, session # NoSession, InSession, NEW a \in Article, NEW c \in Id, Match(a, c)
    PROVE  Pipeline!MatchArticle(c)
<1> DEFINE k == KnownOf(c)
           r == session.tx.row[c]
           j == JoinedRow(r, session.by \notin k)
           o == [loaded |-> Seen(db.row[c]), object |-> Seen(r), known |-> k]
           n == [loaded |-> Seen(db.row[c]), object |-> Seen(j), known |-> k \cup {session.by}]
<1>1. /\ now \in Int /\ r \in ClusterRow /\ session.known \in [Id -> SUBSET Source]
      /\ session.tx.row \in [Id -> ClusterRow] /\ session.tx \in Database
  BY TypesOfParts, SessionFields, ClusteringAssumption DEF ClusterInv
<1>2. /\ session' # NoSession /\ session'.by = session.by
      /\ session'.known = [session.known EXCEPT ![c] = k \cup {session.by}]
      /\ session'.tx.row = [session.tx.row EXCEPT ![c] = j]
      /\ crossed' = IF j.multi # r.multi THEN crossed \cup {c} ELSE crossed
      /\ UNCHANGED <<now, listing, etag, db>>
  <2>1. session \in Session
    BY TypesOfParts DEF ClusterInv
  <2>2. session' = [session EXCEPT !.todo = @ \ {a}, !.tx = Placed(session.tx, a, c, j),
                      !.known = [session.known EXCEPT ![c] = k \cup {session.by}]]
    BY DEF Match
  <2>3. session'.tx = Placed(session.tx, a, c, j) /\ session'.by = session.by
        /\ session'.known = [session.known EXCEPT ![c] = k \cup {session.by}]
    BY <2>1, <2>2 DEF Session
  <2>4. session' # NoSession
    <3>1. session'.known[c] # {}
      BY <1>1, <2>3
    <3> QED
      BY <3>1, NoSessionFields
  <2> QED
    BY <2>3, <2>4 DEF Match, Placed
<1>3. /\ k = IF session.known[c] = {} THEN OutletsOf(db, c) ELSE session.known[c]
      /\ session.known[c] = {} => r = db.row[c]
  BY KnownOutlets DEF InSession, KnownIsRight, KnownOf
<1>4. OutletsOf(db, c) \ {session.by} # {}
  <2>1. PICK b \in Members(session.tx, c) : SourceOf[b] # SourceOf[a]
    BY MatchIsConfirmed DEF Match
  <2>2. SourceOf[a] = session.by
    BY DEF Match, InSession, TodoIsNew
  <2>3. b \in Article /\ Stored(session.tx, b)
    BY <2>1 DEF Members, Stored, Id
  <2>4. Stored(db, b) /\ session.tx.story[b] = db.story[b]
    BY <2>1, <2>2, <2>3 DEF InSession, TxExtends
  <2> QED
    BY <2>1, <2>2, <2>4 DEF OutletsOf, Members
<1>5. Pipeline!Joined(o, session.by) = n
  BY <1>1, JoinedIsSeen
<1>6. o = IF Staged(c) # Pipeline!NotLoaded THEN Staged(c)
          ELSE [loaded |-> Seen(db.row[c]), object |-> Seen(db.row[c]), known |-> OutletsOf(db, c)]
  BY <1>3, StagedIsLoaded
<1>7. Staged(c)' = n /\ \A b \in Id \ {c} : Staged(b)' = Staged(b)
  <2>1. session'.known[c] = k \cup {session.by} /\ session'.tx.row[c] = j
    BY <1>1, <1>2
  <2>2. \A b \in Id \ {c} : session'.known[b] = session.known[b] /\ session'.tx.row[b] = session.tx.row[b]
    BY <1>1, <1>2
  <2>3. session'.known[c] # {}
    BY <2>1
  <2> HIDE DEF j, k
  <2> QED
    BY <1>2, <2>1, <2>2, <2>3 DEF Staged
<1>8. n.object.multi # o.object.multi <=> j.multi # r.multi
  BY SeenFields
<1> HIDE DEF n, o, j, r, k
<1>9. FeedSeen' = [FeedSeen EXCEPT !.staged = [@ EXCEPT ![c] = n],
                     !.crossed = IF n.object.multi # o.object.multi THEN @ \cup {c} ELSE @]
  <2>1. [b \in Id |-> Staged(b)]' = [[b \in Id |-> Staged(b)] EXCEPT ![c] = n]
    BY <1>7
  <2>2. PICK S, X, Y, s, f, T, g :
           /\ S = [b \in Id |-> Staged(b)] /\ X = crossed /\ Y = crossed' /\ s = session.by /\ f = FeedSeen
           /\ T = [f.staged EXCEPT ![c] = n] /\ g = [f EXCEPT !.staged = T, !.crossed = Y]
    OBVIOUS
  <2>3. f = [at |-> "ingest", source |-> s, staged |-> S, crossed |-> X]
    BY <2>2 DEF FeedSeen
  <2>4. FeedSeen' = [at |-> "ingest", source |-> s, staged |-> [S EXCEPT ![c] = n], crossed |-> Y]
    BY <1>2, <2>1, <2>2 DEF FeedSeen
  <2>5. g = [at |-> "ingest", source |-> s, staged |-> [S EXCEPT ![c] = n], crossed |-> Y]
    <3>1. g = [at |-> "ingest", source |-> s, staged |-> T, crossed |-> Y]
      <4>1. g = [f EXCEPT !.staged = T, !.crossed = Y]
        BY <2>2
      <4> QED
        BY ONLY <2>3, <4>1, FeedMatches
    <3>2. T = [S EXCEPT ![c] = n]
      BY <2>2, <2>3
    <3> QED
      BY <3>1, <3>2
  <2>6. Y = IF n.object.multi # o.object.multi THEN f.crossed \cup {c} ELSE f.crossed
    BY <1>2, <1>8, <2>2, <2>3
  <2> QED
    BY <2>2, <2>4, <2>5, <2>6
<1>10. FeedSeen.at = "ingest" /\ FeedSeen.source = session.by /\ FeedSeen.staged[c] = Staged(c)
  BY SessionSeen
<1>11. /\ OutletsSeen[c] = OutletsOf(db, c) /\ RowsSeen[c] = Seen(db.row[c])
       /\ OutletsSeen' = OutletsSeen /\ RowsSeen' = RowsSeen
  BY <1>2 DEF OutletsSeen, RowsSeen, OutletsOf, Members
<1> QED
  <2>1. FeedSeen.at = "ingest" /\ OutletsSeen[c] \ {FeedSeen.source} # {}
    BY <1>4, <1>10, <1>11
  <2>2. o = IF FeedSeen.staged[c] # Pipeline!NotLoaded THEN FeedSeen.staged[c]
            ELSE [loaded |-> RowsSeen[c], object |-> RowsSeen[c], known |-> OutletsSeen[c]]
    BY <1>6, <1>10, <1>11
  <2>3. n = Pipeline!Joined(o, FeedSeen.source)
    BY <1>5, <1>10
  <2> QED
    BY <1>9, <1>11, <2>1, <2>2, <2>3 DEF Pipeline!MatchArticle, Pipeline!Candidate, Pipeline!Loaded,
       FeedSeen, OutletsSeen, RowsSeen, NoRunOfIt

LEMMA StartIsNew ==
    ASSUME ClusterInv, session # NoSession, InSession, NEW a \in Article, NEW c \in Id, StartStory(a, c)
    PROVE  Pipeline!NewCluster(c)
<1> DEFINE r == [NoRow EXCEPT !.articles = 1, !.outlets = 1, !.first = DateOf(a), !.last = DateOf(a)]
<1>1. /\ session.known \in [Id -> SUBSET Source] /\ session.tx.row \in [Id -> ClusterRow]
      /\ session \in Session /\ now \in Int
  BY TypesOfParts, SessionFields, ClusteringAssumption DEF ClusterInv
<1>2. r \in ClusterRow /\ r.outlets = 1 /\ ~r.multi
  BY <1>1, NewRows, DatesAreHours
<1> HIDE DEF r
<1>3. /\ session' # NoSession /\ session'.by = session.by
      /\ session'.known = [session.known EXCEPT ![c] = {session.by}]
      /\ session'.tx.row = [session.tx.row EXCEPT ![c] = r]
      /\ UNCHANGED <<now, listing, etag, db, crossed>>
  <2>1. /\ session' = [session EXCEPT !.todo = @ \ {a}, !.tx = Placed(session.tx, a, c, r),
                         !.seen = Placed(session.tx, a, c, r).row,
                         !.known = [session.known EXCEPT ![c] = {session.by}]]
        /\ UNCHANGED <<now, listing, etag, db, crossed>>
    BY DEF StartStory, r
  <2>2. session'.tx = Placed(session.tx, a, c, r) /\ session'.by = session.by
        /\ session'.known = [session.known EXCEPT ![c] = {session.by}]
    BY <1>1, <2>1 DEF Session
  <2>3. session' # NoSession
    <3>1. session'.known[c] # {}
      BY <1>1, <2>2
    <3> QED
      BY <3>1, NoSessionFields
  <2> QED
    BY <2>1, <2>2, <2>3 DEF Placed
<1>4. /\ OutletsOf(db, c) = {} /\ session.known[c] = {}
      /\ Seen(db.row[c]) = Pipeline!Blank
  <2>1. Members(session.tx, c) = {} /\ Members(db, c) = {}
    BY StartingKeeps
  <2>2. OutletsOf(db, c) = {} /\ OutletsOf(session.tx, c) = {}
    BY <2>1 DEF OutletsOf
  <2>3. session.known[c] = {}
    BY <2>2 DEF InSession, KnownIsRight
  <2>4. db.row[c].outlets = 0 /\ ~db.row[c].multi
    <3>1. db.row[c].outlets = Cardinality({}) /\ (db.row[c].multi <=> db.row[c].outlets >= MinOutlets)
      BY <2>2 DEF ClusterInv, SoundIn, Counted
    <3>2. Cardinality({}) = 0 /\ ~(0 >= MinOutlets)
      BY FS_EmptySet, ClusteringAssumption
    <3> QED
      BY <3>1, <3>2
  <2>5. db.row[c].multi \in BOOLEAN
    BY TypesOfParts, RowFields DEF ClusterInv, Database
  <2>6. NoRow.outlets = 0 /\ NoRow.multi = FALSE
    BY DEF NoRow
  <2>7. Seen(db.row[c]) = Seen(NoRow)
    BY <2>4, <2>5, <2>6, SeenFields
  <2> QED
    BY <2>2, <2>3, <2>7, BlankIsSeen
<1>5. PICK n, b : /\ b = [Pipeline!Blank EXCEPT !.count = 1]
                  /\ n = [loaded |-> Pipeline!Blank, object |-> b, known |-> {session.by}]
  OBVIOUS
<1>6. b = Seen(r)
  <2>1. r.multi = FALSE
    BY <1>2, RowFields
  <2> QED
    BY <1>2, <1>5, <2>1 DEF Pipeline!Blank, Seen
<1>7. Staged(c)' = n /\ \A e \in Id \ {c} : Staged(e)' = Staged(e)
  <2>1. session'.known[c] = {session.by} /\ session'.tx.row[c] = r
    BY <1>1, <1>3
  <2>2. \A e \in Id \ {c} : session'.known[e] = session.known[e] /\ session'.tx.row[e] = session.tx.row[e]
    BY <1>1, <1>3
  <2> QED
    BY <1>3, <1>4, <1>5, <1>6, <2>1, <2>2 DEF Staged
<1>8. FeedSeen' = [FeedSeen EXCEPT !.staged = [@ EXCEPT ![c] = n]]
  <2>1. [e \in Id |-> Staged(e)]' = [[e \in Id |-> Staged(e)] EXCEPT ![c] = n]
    BY <1>7
  <2>2. PICK S, X, s, f, T, g :
           /\ S = [e \in Id |-> Staged(e)] /\ X = crossed /\ s = session.by /\ f = FeedSeen
           /\ T = [f.staged EXCEPT ![c] = n] /\ g = [f EXCEPT !.staged = T]
    OBVIOUS
  <2>3. f = [at |-> "ingest", source |-> s, staged |-> S, crossed |-> X]
    BY <2>2 DEF FeedSeen
  <2>4. FeedSeen' = [at |-> "ingest", source |-> s, staged |-> [S EXCEPT ![c] = n], crossed |-> X]
    BY <1>3, <2>1, <2>2 DEF FeedSeen
  <2>5. g = [at |-> "ingest", source |-> s, staged |-> T, crossed |-> X]
    <3>1. g = [f EXCEPT !.staged = T]
      BY <2>2
    <3> QED
      BY ONLY <2>3, <3>1
  <2>6. T = [S EXCEPT ![c] = n]
    BY <2>2, <2>3
  <2> QED
    BY <2>2, <2>4, <2>5, <2>6
<1>9. FeedSeen.at = "ingest" /\ FeedSeen.source = session.by /\ FeedSeen.staged[c] = Pipeline!NotLoaded
  BY <1>4, SessionSeen, NothingStaged
<1>10. /\ OutletsSeen[c] = {} /\ OutletsSeen' = OutletsSeen /\ RowsSeen' = RowsSeen
  BY <1>3, <1>4 DEF OutletsSeen, RowsSeen, OutletsOf, Members
<1> QED
  <2>1. n = [loaded |-> Pipeline!Blank, object |-> [Pipeline!Blank EXCEPT !.count = 1],
             known |-> {FeedSeen.source}]
    BY <1>5, <1>9
  <2> QED
    BY <1>8, <1>9, <1>10, <2>1 DEF Pipeline!NewCluster, Pipeline!Exists, Pipeline!Loaded,
       FeedSeen, OutletsSeen, RowsSeen, NoRunOfIt

(* What is left of a session that ended, whichever way.                    *)
LEMMA EndedIsIdle ==
    ASSUME session' = NoSession, crossed' = crossed
    PROVE  FeedSeen' = [Pipeline!Idle EXCEPT !.crossed = FeedSeen.crossed]
<1>1. \A c \in Id : Staged(c)' = Pipeline!NotLoaded
  BY NoSessionFields, BlankIsSeen DEF Staged
<1>2. FeedSeen' = [at |-> "idle", source |-> "none", staged |-> [c \in Id |-> Pipeline!NotLoaded],
                   crossed |-> crossed]
  BY <1>1 DEF FeedSeen
<1>3. PICK f, g, X : f = Pipeline!Idle /\ X = FeedSeen.crossed /\ g = [f EXCEPT !.crossed = X]
  OBVIOUS
<1>4. f = [at |-> "idle", source |-> "none", staged |-> [c \in Id |-> Pipeline!NotLoaded], crossed |-> {}]
  BY <1>3 DEF Pipeline!Idle, Pipeline!None
<1>5. g = [at |-> "idle", source |-> "none", staged |-> [c \in Id |-> Pipeline!NotLoaded], crossed |-> X]
  <2>1. g = [f EXCEPT !.crossed = X]
    BY <1>3
  <2> QED
    BY ONLY <1>4, <2>1
<1>6. X = crossed
  BY <1>3 DEF FeedSeen
<1> QED
  BY <1>2, <1>3, <1>5, <1>6

LEMMA FailIsFail ==
    ASSUME Fail
    PROVE  Pipeline!FailSource
<1>1. /\ session # NoSession /\ session' = NoSession /\ UNCHANGED <<now, listing, etag, db, crossed>>
  BY DEF Fail
<1>2. FeedSeen' = [Pipeline!Idle EXCEPT !.crossed = FeedSeen.crossed] /\ FeedSeen.at = "ingest"
  BY <1>1, EndedIsIdle, SessionSeen
<1>3. OutletsSeen' = OutletsSeen /\ RowsSeen' = RowsSeen
  BY <1>1 DEF OutletsSeen, RowsSeen, OutletsOf, Members
<1> QED
  BY <1>2, <1>3 DEF Pipeline!FailSource, FeedSeen, OutletsSeen, RowsSeen, NoRunOfIt

LEMMA CommitIsCommit ==
    ASSUME ClusterInv, Commit
    PROVE  Pipeline!CommitSource
<1>1. /\ session # NoSession /\ InSession /\ session' = NoSession /\ db' = session.tx
      /\ UNCHANGED <<now, listing, crossed>>
  BY NoSessionFields DEF Commit, ClusterInv
<1>2. /\ FeedSeen' = [Pipeline!Idle EXCEPT !.crossed = FeedSeen.crossed]
      /\ FeedSeen.at = "ingest" /\ FeedSeen.source = session.by
      /\ FeedSeen.staged = [c \in Id |-> Staged(c)]
  BY <1>1, EndedIsIdle, SessionSeen
<1>3. ASSUME NEW c \in Id
      PROVE  /\ OutletsSeen'[c] = IF FeedSeen.staged[c] # Pipeline!NotLoaded
                                  THEN OutletsSeen[c] \cup {FeedSeen.source} ELSE OutletsSeen[c]
             /\ RowsSeen'[c] = IF FeedSeen.staged[c] # Pipeline!NotLoaded
                               THEN Pipeline!Flush(FeedSeen.staged[c], RowsSeen[c]) ELSE RowsSeen[c]
  <2>1. /\ OutletsSeen'[c] = OutletsOf(session.tx, c) /\ RowsSeen'[c] = Seen(session.tx.row[c])
        /\ OutletsSeen[c] = OutletsOf(db, c) /\ RowsSeen[c] = Seen(db.row[c])
        /\ FeedSeen.staged[c] = Staged(c)
    BY <1>1, <1>2 DEF OutletsSeen, RowsSeen, OutletsOf, Members
  <2>2. CASE session.known[c] = {}
    <3>1. session.tx.row[c] = db.row[c] /\ OutletsOf(session.tx, c) = OutletsOf(db, c)
      BY <1>1, <2>2 DEF InSession, KnownIsRight, OutletsOf
    <3> QED
      BY <2>1, <2>2, <3>1, StagedIsLoaded
  <2>3. CASE session.known[c] # {}
    <3>1. OutletsOf(session.tx, c) = OutletsOf(db, c) \cup {session.by}
      BY <1>1, <2>3 DEF InSession, KnownIsRight
    <3>2. Pipeline!Flush(Staged(c), Seen(db.row[c])) = Seen(session.tx.row[c])
      BY <2>3, StagedIsLoaded, FlushIsSeen
    <3> QED
      BY <1>2, <2>1, <2>3, <3>1, <3>2, StagedIsLoaded
  <2> QED
    BY <2>2, <2>3
<1>4. /\ OutletsSeen' = [c \in Id |-> IF FeedSeen.staged[c] # Pipeline!NotLoaded
                                      THEN OutletsSeen[c] \cup {FeedSeen.source} ELSE OutletsSeen[c]]
      /\ RowsSeen' = [c \in Id |-> IF FeedSeen.staged[c] # Pipeline!NotLoaded
                                   THEN Pipeline!Flush(FeedSeen.staged[c], RowsSeen[c]) ELSE RowsSeen[c]]
  BY <1>3 DEF OutletsSeen, RowsSeen
<1>5. \A c \in Id : RowsSeen[c].ai = FALSE /\ 0 # c
  BY DEF RowsSeen, Seen, Id
<1> QED
  BY <1>2, <1>4, <1>5 DEF Pipeline!CommitSource, Pipeline!Loaded, Pipeline!AnswerDue, Pipeline!Exists,
     FeedSeen, OutletsSeen, RowsSeen, NoRunOfIt

LEMMA StepsAsThePipeline ==
    ClusterInv /\ [ClusterNext]_cvars =>
        [UNCHANGED cvars \/ EndCycle \/ Pipeline!Ingest]_(Pipeline!pipeVars)
<1> SUFFICES ASSUME ClusterInv, ClusterNext, ~UNCHANGED cvars, ~EndCycle
             PROVE  Pipeline!Ingest \/ UNCHANGED Pipeline!pipeVars
  OBVIOUS
<1>1. ASSUME NEW s \in Source, NEW tagged \in BOOLEAN, NEW t \in SUBSET listing[s], Fetch(s, t, tagged)
      PROVE  Pipeline!Ingest
  BY <1>1, FetchIsBegin DEF Pipeline!Ingest
<1>2. ASSUME NEW a \in Article, NEW c \in Id, Match(a, c) \/ StartStory(a, c)
      PROVE  Pipeline!Ingest
  <2>1. session # NoSession /\ InSession
    BY <1>2, NoSessionFields DEF Match, StartStory, ClusterInv
  <2> QED
    BY <1>2, <2>1, MatchIsMatch, StartIsNew DEF Pipeline!Ingest
<1>3. ASSUME Commit \/ Fail
      PROVE  Pipeline!Ingest
  BY <1>3, CommitIsCommit, FailIsFail DEF Pipeline!Ingest
<1>4. ASSUME (\E a \in Article : Publish(a)) \/ Tick
      PROVE  UNCHANGED Pipeline!pipeVars
  <2>1. UNCHANGED <<db, session, crossed>>
    BY <1>4 DEF Publish, Tick
  <2>2. UNCHANGED <<OutletsSeen, RowsSeen, FeedSeen>>
    BY <2>1 DEF OutletsSeen, RowsSeen, FeedSeen, OutletsOf, Members, Staged
  <2> QED
    BY <2>2 DEF Pipeline!pipeVars, OutletsSeen, RowsSeen, FeedSeen, NoRunOfIt
<1> QED
  BY <1>1, <1>2, <1>3, <1>4 DEF ClusterNext, IngestFeed, NotFetched

(* IngestionIsThePipelines: what the ingestion of feeds does to outlets    *)
(* and counters is what the enrichment's module takes it to do: every step *)
(* of ingest_source, with its queries, its index and its caches, is the    *)
(* step of the same name there or is not seen, whatever the feeds list.    *)
THEOREM IngestionIsThePipelines == ClusterSpec => IngestsAsThePipeline
<1> DEFINE Step == UNCHANGED cvars \/ EndCycle \/ Pipeline!Ingest
<1>1. ClusterInit => Pipeline!PipelineInit
  BY StartsAsThePipeline
<1>2. ClusterInv /\ [ClusterNext]_cvars => [Step]_(Pipeline!pipeVars)
  BY StepsAsThePipeline
<1> HIDE DEF Step
<1>3. ClusterSpec => Pipeline!PipelineInit /\ [][Step]_(Pipeline!pipeVars)
  BY <1>1, <1>2, ClusterInvariance, PTL DEF ClusterSpec
<1> QED
  BY <1>3 DEF IngestsAsThePipeline, Step
=============================================================================
