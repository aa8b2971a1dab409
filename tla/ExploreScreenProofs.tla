------------------------- MODULE ExploreScreenProofs -------------------------
(***************************************************************************)
(* Proofs about ExploreScreen, for any number of articles, categories and  *)
(* revisions, any size of a page and any number of writes, faults, taps    *)
(* and further pages.                                                      *)
(*                                                                         *)
(* What the screen holds is judged by two sets of the server's state.      *)
(* Facts are the contents that an article can have been seen with at a     *)
(* revision; nothing but more of them become true.  Wholes are the pages   *)
(* that have no hole, and a step of the server lets none of them go, for   *)
(* it records what it moves.  Everything on the screen is then a matter of *)
(* which request may still be heard (Sound).                               *)
(***************************************************************************)
EXTENDS ExploreScreen, TLAPS, FiniteSetTheorems

Facts ==
    {f \in Articles \X Nat \X Contents :
        Exists(f[1]) =>
          /\ f[2] <= row[f[1]].revision
          /\ f[2] = row[f[1]].revision => f[3] = row[f[1]].content}

Wholes ==
    {w \in Pages \X Filters \X (Articles \cup {0}) :
        /\ w[1].cursor # -1
        /\ w[3] # 0 => w[1].cursor < w[3]
        /\ \A a \in Articles \ moved :
              (\E i \in w[1].items : i.id = a)
                <=> /\ InFilter(a, w[2]) /\ a >= w[1].cursor
                    /\ w[3] # 0 => a < w[3]}

ItemFact(i) == <<i.id, i.row.revision, i.row.content>>
EditFact(e) == <<e.article, e.revision, e.seen>>

(* What the screen shows, and is told, of the articles was true.           *)
KnownPage(p, facts) == \A i \in p.items : ItemFact(i) \in facts
ItemsKnown(u, facts) ==
    /\ KnownPage(u.page, facts)
    /\ \A l \in u.loads : KnownPage(l.page, facts)
    /\ \A m \in u.mores : KnownPage(m.page, facts)

(* So was what an edit is about, and the one that is open is the one that  *)
(* is being saved.                                                         *)
EditKnown(e, facts) == EditFact(e) \in facts /\ e.draft \in Contents
EditsKnown(u, facts) ==
    /\ u.editor # NoEditor => EditFact(u.editor) \in facts
    /\ u.work.kind = "none" => u.work = NoWork
    /\ u.work.kind # "none" => u.work.edit.article \in Articles
    /\ u.work.kind = "save" =>
          /\ EditKnown(u.work.edit, facts)
          /\ u.editor # NoEditor => u.editor = u.work.edit

(* Answers that will be heard are of the list that is shown.               *)
LoadsFit(u, wholes) ==
    \A l \in u.loads :
        l.fresh => /\ l.filter = u.filter
                   /\ l.on = "ok" => <<l.page, u.filter, 0>> \in wholes

MoresFit(u, wholes) ==
    /\ \A m \in u.mores :
          m.fresh => /\ u.paged /\ u.moreBusy /\ u.page # NoPage
                     /\ m.filter = u.filter /\ m.cursor = u.page.cursor
                     /\ m.on = "ok" => <<m.page, u.filter, m.cursor>> \in wholes
    /\ \A m, n \in u.mores : m.fresh /\ n.fresh => m = n

PageFits(u, wholes) ==
    u.page # NoPage => <<u.page, u.filter, 0>> \in wholes

PollFits(u) ==
    u.active /\ u.scanning /\ ~u.paged
    => u.timer \/ Loading(u) \/ u.error \/ u.work.fresh

Sound(u, facts, wholes) ==
    /\ ItemsKnown(u, facts) /\ EditsKnown(u, facts)
    /\ LoadsFit(u, wholes) /\ MoresFit(u, wholes) /\ PageFits(u, wholes)
    /\ PollFits(u)

StraysKnown == \A e \in strays : EditKnown(e, Facts)

IInv == TypeOK /\ Sound(ui, Facts, Wholes) /\ StraysKnown

-----------------------------------------------------------------------------
(* The parts of a typed screen.                                            *)
LEMMA Parts ==
    ASSUME NEW u \in Screens
    PROVE  /\ u.filter \in Filters /\ u.page \in Pages /\ u.editor \in Edits
           /\ u.loads \subseteq Loads /\ u.mores \subseteq Mores
           /\ u.work \in Works
           /\ u.active \in BOOLEAN /\ u.error \in BOOLEAN /\ u.scanning \in BOOLEAN
           /\ u.paged \in BOOLEAN /\ u.moreBusy \in BOOLEAN /\ u.timer \in BOOLEAN
  BY DEF Screens

LEMMA Defaults ==
    /\ NoPage \in Pages /\ NoEditor \in Edits /\ NoWork \in Works
    /\ Unclassified \in Contents /\ Contents \subseteq Drafts
    /\ FirstFilter \in Filters
    /\ \A p \in Pages : p.cursor = -1 => p = NoPage
    /\ \A p \in Pages : p # NoPage => p.cursor \in Articles \cup {0}
    /\ \A p \in Pages : p.items \subseteq Items
<1>1. Unclassified \in Contents /\ Contents \subseteq Drafts
  BY DEF Unclassified, Contents, Drafts, Complete, Kinds
<1>2. NoEditor \in Edits
  BY <1>1 DEF NoEditor, Edits
<1>3. NoWork \in Works
  BY <1>2 DEF NoWork, Works
<1>4. NoPage \in Pages /\ FirstFilter \in Filters
  BY DEF Pages, FirstFilter, Filters, Kinds
<1>5. \A a \in Articles : a \in Nat /\ a # 0
  BY ExploreAssumption
<1>6. ASSUME NEW p \in Pages
      PROVE  /\ p.cursor = -1 => p = NoPage
             /\ p # NoPage => p.cursor \in Articles \cup {0}
             /\ p.items \subseteq Items
  <2>1. CASE p = NoPage
    BY <2>1 DEF NoPage
  <2>2. CASE p \in [items : SUBSET Items, cursor : Articles \cup {0}]
    BY <1>5, <2>2
  <2>3. QED BY <1>6, <2>1, <2>2 DEF Pages
<1>7. QED BY <1>1, <1>2, <1>3, <1>4, <1>6

LEMMA ArticlesAreNumbers ==
    /\ \A a \in Articles : a \in Nat /\ a # 0 /\ a > 0
    /\ IsFiniteSet(Articles) /\ PageSize \in Nat \ {0}
  BY ExploreAssumption

-----------------------------------------------------------------------------
(* What list answers.                                                      *)

Above(found, a) == {b \in found : b > a}

LEMMA CountAbove ==
    ASSUME NEW found \in SUBSET Articles, NEW a \in Articles
    PROVE  Cardinality(Above(found, a)) \in Nat
<1>1. IsFiniteSet(found)
  BY ArticlesAreNumbers, FS_Subset
<1>2. QED BY <1>1, FS_Subset, FS_CardinalityType DEF Above

(* Fewer articles are newer than a newer one.                              *)
LEMMA FewerAbove ==
    ASSUME NEW found \in SUBSET Articles, NEW a \in found, NEW b \in found, a < b
    PROVE  Cardinality(Above(found, b)) < Cardinality(Above(found, a))
<1>1. /\ IsFiniteSet(found) /\ IsFiniteSet(Above(found, a))
      /\ Cardinality(Above(found, a)) \in Nat /\ Cardinality(Above(found, b)) \in Nat
  BY ArticlesAreNumbers, CountAbove, FS_Subset DEF Above
<1>2. Above(found, b) \subseteq Above(found, a)
  BY ArticlesAreNumbers DEF Above
<1>3. b \in Above(found, a) /\ b \notin Above(found, b)
  BY ArticlesAreNumbers DEF Above
<1>4. QED BY <1>1, <1>2, <1>3, FS_Subset

(* Of some sets of articles one contains no other one.                     *)
LEMMA HasSmallest ==
    ASSUME NEW T \in SUBSET (SUBSET Articles), T # {}
    PROVE  \E x \in T : \A y \in T : y \subseteq x => y = x
<1>1. FiniteSubsetsOf(Articles) = SUBSET Articles
  BY ArticlesAreNumbers, FS_FiniteSubsetsOfFinite
<1>2. IsWellFoundedOn(StrictSubsetOrdering(Articles), SUBSET Articles)
  BY <1>1, FS_StrictSubsetOrderingWellFounded
<1>3. \E x \in T : \A y \in T : ~(<<y, x>> \in StrictSubsetOrdering(Articles))
  BY <1>2, WFMin
<1>4. QED BY <1>3 DEF StrictSubsetOrdering

(* A set of articles that is not empty has a newest and an oldest one.     *)
LEMMA HasNewest ==
    ASSUME NEW found \in SUBSET Articles, found # {}
    PROVE  \E a \in found : Above(found, a) = {}
<1> DEFINE sets == {Above(found, a) : a \in found}
<1>1. sets \in SUBSET (SUBSET Articles) /\ sets # {}
  BY DEF Above
<1>2. PICK x \in sets : \A y \in sets : y \subseteq x => y = x
  BY <1>1, HasSmallest
<1>3. PICK a \in found : x = Above(found, a)
  BY <1>2
<1>4. ASSUME NEW b \in Above(found, a) PROVE FALSE
  <2>1. b \in found /\ Above(found, b) \in sets
    BY <1>4 DEF Above
  <2>2. Above(found, b) \subseteq Above(found, a) /\ b \notin Above(found, b)
    BY <1>4, ArticlesAreNumbers DEF Above
  <2>3. Above(found, b) = Above(found, a)
    BY <1>2, <1>3, <2>1, <2>2
  <2>4. QED BY <1>4, <2>2, <2>3
<1>5. QED BY <1>4

LEMMA HasOldest ==
    ASSUME NEW found \in SUBSET Articles, found # {}
    PROVE  \E a \in found : \A b \in found : a <= b
<1> DEFINE Below(a) == {b \in found : b < a}
           sets == {Below(a) : a \in found}
<1>1. sets \in SUBSET (SUBSET Articles) /\ sets # {}
  OBVIOUS
<1>2. PICK x \in sets : \A y \in sets : y \subseteq x => y = x
  BY <1>1, HasSmallest
<1>3. PICK a \in found : x = Below(a)
  BY <1>2
<1>4. ASSUME NEW b \in found, ~(a <= b) PROVE FALSE
  <2>1. b \in Below(a) /\ b \notin Below(b)
    BY <1>4, ArticlesAreNumbers
  <2>2. Below(b) \subseteq Below(a)
    BY <1>4, ArticlesAreNumbers
  <2>3. Below(b) = Below(a)
    BY <1>2, <1>3, <1>4, <2>2
  <2>4. QED BY <2>1, <2>3
<1>5. QED BY <1>4

LEMMA NewestAreAbove ==
    ASSUME NEW found \in SUBSET Articles
    PROVE  /\ Newest(found) \subseteq found
           /\ found # {} => Newest(found) # {}
           /\ Cardinality(found) <= PageSize => Newest(found) = found
           /\ \A a \in Newest(found), b \in found : a <= b => b \in Newest(found)
<1>1. /\ IsFiniteSet(found) /\ Cardinality(found) \in Nat
      /\ PageSize \in Nat /\ 0 < PageSize
  BY ArticlesAreNumbers, FS_Subset, FS_CardinalityType
<1>2. Newest(found) = {a \in found : Cardinality(Above(found, a)) < PageSize}
  BY DEF Newest, Above
<1>3. found # {} => Newest(found) # {}
  <2>1. SUFFICES ASSUME found # {} PROVE Newest(found) # {}
    OBVIOUS
  <2>2. PICK a \in found : Above(found, a) = {}
    BY <2>1, HasNewest
  <2>3. Cardinality(Above(found, a)) = 0
    BY <2>2, FS_EmptySet
  <2>4. QED BY <1>1, <1>2, <2>3
<1>4. ASSUME Cardinality(found) <= PageSize, NEW a \in found
      PROVE  a \in Newest(found)
  <2>1. Above(found, a) \subseteq found /\ a \notin Above(found, a)
    BY ArticlesAreNumbers DEF Above
  <2>2. Cardinality(Above(found, a)) < Cardinality(found)
    BY <1>1, <2>1, FS_Subset, CountAbove
  <2>3. QED BY <1>1, <1>2, <1>4, <2>2, CountAbove
<1>5. ASSUME NEW a \in Newest(found), NEW b \in found, a <= b
      PROVE  b \in Newest(found)
  <2>1. a \in found /\ Cardinality(Above(found, a)) < PageSize
    BY <1>2, <1>5
  <2>2. a = b \/ a < b
    BY <1>5, <2>1, ArticlesAreNumbers
  <2>3. CASE a < b
    BY <1>1, <1>2, <2>1, <2>3, FewerAbove, CountAbove
  <2>4. QED BY <1>5, <2>2, <2>3
<1>6. QED BY <1>2, <1>3, <1>4, <1>5

LEMMA OldestOfPage ==
    ASSUME NEW found \in SUBSET Articles, found # {},
           NEW c, c = CHOOSE a \in Newest(found) : \A b \in Newest(found) : a <= b
    PROVE  c \in Newest(found) /\ \A b \in Newest(found) : c <= b
<1>1. Newest(found) \in SUBSET Articles /\ Newest(found) # {}
  BY NewestAreAbove
<1>2. \E a \in Newest(found) : \A b \in Newest(found) : a <= b
  BY <1>1, HasOldest
<1>3. QED BY <1>2

(* A page that is served has no hole, and what it says is true.            *)
LEMMA PageServed ==
    ASSUME TypeOK, NEW f \in Filters, NEW c \in Articles \cup {0}
    PROVE  /\ PageOf(f, c) \in Pages
           /\ <<PageOf(f, c), f, c>> \in Wholes
           /\ KnownPage(PageOf(f, c), Facts)
<1> DEFINE found == Found(f, c)
           oldest == CHOOSE a \in Newest(found) : \A b \in Newest(found) : a <= b
           p == PageOf(f, c)
<1>1. found \in SUBSET Articles
  BY DEF Found
<1>2. /\ Newest(found) \subseteq found
      /\ found # {} => Newest(found) # {}
      /\ Cardinality(found) <= PageSize => Newest(found) = found
      /\ \A a \in Newest(found), b \in found : a <= b => b \in Newest(found)
  BY <1>1, NewestAreAbove
<1>3. /\ p.items = {Item(a) : a \in Newest(found)}
      /\ p.cursor = IF Cardinality(found) > PageSize THEN oldest ELSE 0
      /\ p = [items |-> p.items, cursor |-> p.cursor]
  BY DEF PageOf
<1>4. /\ \A a \in Articles : Item(a) \in Items /\ Item(a).id = a
      /\ \A a \in Articles : Item(a).row = row[a]
  BY DEF Item, Items, TypeOK
<1>5. Cardinality(found) > PageSize => found # {}
  <2>1. Cardinality({}) = 0 /\ PageSize \in Nat
    BY FS_EmptySet, ArticlesAreNumbers
  <2>2. QED BY <2>1
<1>6. Cardinality(found) > PageSize =>
        oldest \in Newest(found) /\ \A b \in Newest(found) : oldest <= b
  BY <1>1, <1>5, OldestOfPage
<1>7. Cardinality(found) \in Nat /\ PageSize \in Nat
  BY <1>1, ArticlesAreNumbers, FS_Subset, FS_CardinalityType
<1> HIDE DEF oldest, p, found
<1>8. /\ p.cursor \in Articles \cup {0} /\ p.cursor # -1
      /\ \A a \in Articles : a \in Newest(found) <=> a \in found /\ a >= p.cursor
      /\ p.cursor # 0 => p.cursor \in found
  <2>1. CASE Cardinality(found) > PageSize
    <3>1. p.cursor = oldest /\ oldest \in Articles
      BY <1>1, <1>2, <1>3, <1>6, <2>1
    <3>2. QED BY <1>1, <1>2, <1>6, <2>1, <3>1, ArticlesAreNumbers
  <2>2. CASE Cardinality(found) <= PageSize
    BY <1>1, <1>2, <1>3, <1>7, <2>2, ArticlesAreNumbers
  <2>3. QED BY <1>7, <2>1, <2>2
<1>9. p \in Pages
  <2>1. p.items \subseteq Items
    BY <1>1, <1>2, <1>3, <1>4
  <2>2. p \in [items : SUBSET Items, cursor : Articles \cup {0}]
    BY <1>3, <1>8, <2>1
  <2>3. QED BY <2>2 DEF Pages
<1>10. <<p, f, c>> \in Wholes
  <2>1. \A a \in found : InFilter(a, f) /\ (c # 0 => a < c)
    BY DEF found, Found
  <2>2. \A a \in Articles : InFilter(a, f) /\ (c # 0 => a < c) => a \in found
    BY DEF found, Found
  <2>3. \A a \in Articles : (\E i \in p.items : i.id = a) <=> a \in Newest(found)
    BY <1>1, <1>2, <1>3, <1>4
  <2>4. c # 0 => p.cursor < c
    BY <1>8, <2>1, ArticlesAreNumbers
  <2>5. <<p, f, c>> \in Pages \X Filters \X (Articles \cup {0})
    BY <1>9
  <2>6. \A a \in Articles \ moved :
          (\E i \in p.items : i.id = a)
            <=> InFilter(a, f) /\ a >= p.cursor /\ (c # 0 => a < c)
    BY <1>8, <2>1, <2>2, <2>3
  <2>7. QED BY <1>8, <2>4, <2>5, <2>6, SMT DEF Wholes
<1>11. KnownPage(p, Facts)
  <2>1. SUFFICES ASSUME NEW i \in p.items PROVE ItemFact(i) \in Facts
    BY DEF KnownPage
  <2>2. PICK a \in Articles : i = Item(a)
    BY <1>1, <1>2, <1>3
  <2>3. ItemFact(i) = <<a, row[a].revision, row[a].content>>
    BY <1>4, <2>2 DEF ItemFact
  <2>4. row[a].revision \in Nat /\ row[a].content \in Contents
    BY DEF TypeOK, Row
  <2>5. QED BY <2>3, <2>4 DEF Facts
<1>12. QED BY <1>9, <1>10, <1>11 DEF p

(* A further page from the cursor on leaves no hole.                       *)
LEMMA PageAppended ==
    ASSUME NEW f \in Filters, NEW p \in Pages, NEW q \in Pages,
           p # NoPage, p.cursor # 0,
           <<p, f, 0>> \in Wholes, <<q, f, p.cursor>> \in Wholes
    PROVE  /\ Appended(p, q) \in Pages /\ Appended(p, q) # NoPage
           /\ <<Appended(p, q), f, 0>> \in Wholes
<1> DEFINE r == Appended(p, q)
<1>1. /\ p.cursor \in Articles /\ p.items \subseteq Items
      /\ q.cursor # -1 /\ q.cursor < p.cursor /\ q.items \subseteq Items
  BY Defaults DEF Wholes
<1>2. q.cursor \in Articles \cup {0}
  BY <1>1, Defaults DEF NoPage
<1>3. /\ r.items = p.items \cup {i \in q.items : \A k \in p.items : k.id # i.id}
      /\ r.cursor = q.cursor
      /\ r = [items |-> r.items, cursor |-> r.cursor]
  BY DEF Appended
<1>4. \A a : (\E i \in r.items : i.id = a)
               <=> (\E i \in p.items : i.id = a) \/ (\E i \in q.items : i.id = a)
  BY <1>3
<1>5. \A a \in Articles \ moved :
         /\ (\E i \in p.items : i.id = a) <=> InFilter(a, f) /\ a >= p.cursor
         /\ (\E i \in q.items : i.id = a)
               <=> InFilter(a, f) /\ a >= q.cursor /\ a < p.cursor
  BY <1>1 DEF Wholes
<1> HIDE DEF r
<1>6. r \in Pages /\ r # NoPage
  <2>1. r.items \subseteq Items
    BY <1>1, <1>3
  <2>2. r \in [items : SUBSET Items, cursor : Articles \cup {0}]
    BY <1>2, <1>3, <2>1
  <2>3. r.cursor # -1
    BY <1>1, <1>3
  <2>4. QED BY <2>2, <2>3 DEF Pages, NoPage
<1>7. \A a \in Articles \ moved :
        (\E i \in r.items : i.id = a) <=> InFilter(a, f) /\ a >= r.cursor
  <2>1. TAKE a \in Articles \ moved
  <2>2. a \in Int /\ p.cursor \in Int /\ q.cursor \in Int
    BY <1>1, <1>2, ArticlesAreNumbers
  <2>3. QED BY <1>1, <1>3, <1>4, <1>5, <2>2
<1>8. r.cursor # -1
  BY <1>1, <1>3
<1>9. <<r, f, 0>> \in Pages \X Filters \X (Articles \cup {0})
  BY <1>6
<1>10. QED BY <1>6, <1>7, <1>8, <1>9 DEF r, Wholes

-----------------------------------------------------------------------------
(* What the server does.                                                   *)

(* The server's step: what was true of articles is true, and what is       *)
(* listed differently is recorded.                                         *)
ServerMoves ==
    /\ moved \subseteq moved'
    /\ \A a \in Articles :
          /\ Exists(a)' => /\ Exists(a)
                           /\ row[a].revision <= row'[a].revision
                           /\ row'[a].revision = row[a].revision =>
                                row'[a].content = row[a].content
          /\ a \notin moved' => /\ Exists(a)' <=> Exists(a)
                                /\ row'[a].content = row[a].content

LEMMA TruthStays ==
    ASSUME TypeOK, TypeOK', ServerMoves
    PROVE  Facts \subseteq Facts' /\ Wholes \subseteq Wholes'
<1>1. ASSUME NEW e \in Facts PROVE e \in Facts'
  <2>1. e[1] \in Articles /\ e[2] \in Nat /\ e \in Articles \X Nat \X Contents
    BY <1>1 DEF Facts
  <2>2. row[e[1]] \in Row /\ row'[e[1]] \in Row
    BY <2>1 DEF TypeOK
  <2>3. row[e[1]].revision \in Nat /\ row'[e[1]].revision \in Nat
    BY <2>2 DEF Row
  <2>4. Exists(e[1])' =>
          /\ e[2] <= row'[e[1]].revision
          /\ e[2] = row'[e[1]].revision => e[3] = row'[e[1]].content
    BY <1>1, <2>1, <2>3 DEF Facts, ServerMoves
  <2>5. QED BY <2>1, <2>4 DEF Facts
<1>2. ASSUME NEW a \in Articles \ moved', NEW f \in Filters
      PROVE  /\ InFilter(a, f)' <=> InFilter(a, f)
             /\ a \in Articles \ moved
  BY <1>2 DEF ServerMoves, InFilter
<1>3. ASSUME NEW w \in Wholes PROVE w \in Wholes'
  <2>1. w \in Pages \X Filters \X (Articles \cup {0}) /\ w[2] \in Filters
    BY <1>3 DEF Wholes
  <2>2. /\ w[1].cursor # -1
        /\ w[3] # 0 => w[1].cursor < w[3]
        /\ \A a \in Articles \ moved :
             (\E i \in w[1].items : i.id = a)
               <=> InFilter(a, w[2]) /\ a >= w[1].cursor /\ (w[3] # 0 => a < w[3])
    BY <1>3 DEF Wholes
  <2>3. \A a \in Articles \ moved' : 
           /\ a \in Articles \ moved
           /\ InFilter(a, w[2])' <=> InFilter(a, w[2])
    BY <1>2, <2>1
  <2>4. \A a \in Articles \ moved' :
             (\E i \in w[1].items : i.id = a)
               <=> InFilter(a, w[2])' /\ a >= w[1].cursor /\ (w[3] # 0 => a < w[3])
    BY <2>2, <2>3
  <2>5. QED BY <2>1, <2>2, <2>4 DEF Wholes
<1>4. QED BY <1>1, <1>3

LEMMA TruthUnchanged ==
    ASSUME UNCHANGED server
    PROVE  Facts' = Facts /\ Wholes' = Wholes
  BY DEF server, Facts, Wholes, InFilter, Exists

LEMMA RowsWritten ==
    ASSUME TypeOK, NEW a \in Articles, NEW new \in Row, Write(a, new),
           UNCHANGED phase, Exists(a),
           \/ new.revision = row[a].revision + 1
           \/ new.revision = row[a].revision /\ new.content = row[a].content
    PROVE  /\ ServerMoves
           /\ row' \in [Articles -> Row] /\ moved' \subseteq Articles
<1>1. /\ row' = [row EXCEPT ![a] = new]
      /\ moved' = IF new.content = row[a].content THEN moved ELSE moved \cup {a}
  BY DEF Write
<1>2. row \in [Articles -> Row] /\ moved \subseteq Articles
  BY DEF TypeOK
<1>3. \A b \in Articles : row[b].revision \in Nat
  BY <1>2 DEF Row
<1>4. row'[a] = new /\ \A b \in Articles : b # a => row'[b] = row[b]
  BY <1>1, <1>2
<1>5. \A b \in Articles : Exists(b)' <=> Exists(b)
  BY DEF Exists
<1>6. QED BY <1>1, <1>2, <1>3, <1>4, <1>5 DEF ServerMoves

-----------------------------------------------------------------------------
(* What the screen does, whatever the facts and the pages without a hole.  *)

LEMMA SoundOfMore ==
    ASSUME NEW u, NEW F, NEW W, NEW F2, NEW W2,
           Sound(u, F, W), F \subseteq F2, W \subseteq W2
    PROVE  Sound(u, F2, W2)
<1>1. ItemsKnown(u, F2)
  BY DEF Sound, ItemsKnown, KnownPage
<1>2. EditsKnown(u, F2)
  BY DEF Sound, EditsKnown, EditKnown
<1>3. LoadsFit(u, W2) /\ MoresFit(u, W2) /\ PageFits(u, W2)
  BY DEF Sound, LoadsFit, MoresFit, PageFits
<1>4. QED BY <1>1, <1>2, <1>3 DEF Sound

(* A step that leaves the list and its requests alone.                     *)
SameList(u, v) ==
    /\ v.page = u.page /\ v.filter = u.filter /\ v.loads = u.loads
    /\ v.mores = u.mores /\ v.paged = u.paged /\ v.moreBusy = u.moreBusy

LEMMA SoundList ==
    ASSUME NEW u, NEW v, NEW F, NEW W, Sound(u, F, W), SameList(u, v),
           EditsKnown(v, F), PollFits(v)
    PROVE  Sound(v, F, W)
  BY DEF Sound, SameList, ItemsKnown, LoadsFit, MoresFit, PageFits

(* An answer to a task is on its way.                                      *)
LEMMA SoundAnswered ==
    ASSUME NEW u \in Screens, NEW F, NEW W, Sound(u, F, W),
           NEW how \in {"ok", "failed"}, u.work.kind # "none"
    PROVE  LET v == [u EXCEPT !.work.on = how]
           IN  v \in Screens /\ Sound(v, F, W)
<1> DEFINE v == [u EXCEPT !.work.on = how]
<1>1. v.work = [u.work EXCEPT !.on = how] /\ u.work \in Works
  BY Parts DEF Screens
<1>2. v.work \in Works
  BY <1>1 DEF Works
<1>3. v \in Screens
  BY <1>2 DEF Screens
<1>4. /\ SameList(u, v)
      /\ v.editor = u.editor /\ v.active = u.active /\ v.scanning = u.scanning
      /\ v.timer = u.timer /\ v.error = u.error
  BY DEF Screens, SameList
<1>5. v.work.kind = u.work.kind /\ v.work.fresh = u.work.fresh /\ v.work.edit = u.work.edit
  BY <1>1 DEF Works
<1> HIDE DEF v
<1>6. EditsKnown(v, F)
  BY <1>4, <1>5 DEF Sound, EditsKnown
<1>7. PollFits(v)
  BY <1>4, <1>5 DEF Sound, PollFits, SameList, Loading
<1>8. QED BY <1>3, <1>4, <1>6, <1>7, SoundList DEF v

(* The effect's cleanup.                                                   *)
LEMMA Stopped ==
    ASSUME NEW u \in Screens
    PROVE  LET v == Stop(u)
           IN  /\ v \in Screens
               /\ v.active = u.active /\ v.filter = u.filter /\ v.page = u.page
               /\ v.error = u.error /\ v.scanning = u.scanning
               /\ v.editor = u.editor /\ v.paged = u.paged
               /\ v.moreBusy = u.moreBusy /\ v.timer = FALSE
               /\ \A l \in v.loads : ~l.fresh /\ \E k \in u.loads : l.page = k.page
               /\ \A m \in v.mores : ~m.fresh /\ \E k \in u.mores : m.page = k.page
               /\ v.work = [u.work EXCEPT !.fresh = FALSE]
<1> DEFINE v == Stop(u)
           ended == {[l EXCEPT !.fresh = FALSE] :
                       l \in {k \in u.loads : k.on \in {"ok", "failed"}}}
           late == {[m EXCEPT !.fresh = FALSE] : m \in u.mores}
           work == [u.work EXCEPT !.fresh = FALSE]
<1>1. v = [u EXCEPT !.timer = FALSE, !.loads = ended, !.mores = late, !.work = work]
  BY DEF Stop, Screens
<1>2. \A l \in u.loads : l \in Loads
  BY Parts
<1>3. /\ ended \in SUBSET Loads
      /\ \A l \in ended : ~l.fresh /\ \E k \in u.loads : l.page = k.page
  BY <1>2 DEF Loads
<1>4. \A m \in u.mores : m \in Mores
  BY Parts
<1>5. /\ late \in SUBSET Mores
      /\ \A m \in late : ~m.fresh /\ \E k \in u.mores : m.page = k.page
  BY <1>4 DEF Mores
<1>6. work \in Works
  BY Parts DEF Works
<1> HIDE DEF ended, late, work, v
<1>7. v \in Screens
  BY <1>1, <1>3, <1>5, <1>6 DEF Screens
<1>8. /\ v.active = u.active /\ v.filter = u.filter /\ v.page = u.page
      /\ v.error = u.error /\ v.scanning = u.scanning
      /\ v.editor = u.editor /\ v.paged = u.paged
      /\ v.moreBusy = u.moreBusy /\ v.timer = FALSE
      /\ v.loads = ended /\ v.mores = late /\ v.work = work
  BY <1>1 DEF Screens
<1>9. QED BY <1>3, <1>5, <1>7, <1>8 DEF v, work

(* load, up to its first await.                                            *)
LEMMA Started ==
    ASSUME NEW u \in Screens, NEW editing \in BOOLEAN
    PROVE  LET v == Start(u, editing)
           IN  /\ v \in Screens
               /\ v.active = u.active /\ v.filter = u.filter /\ v.page = u.page
               /\ v.error = u.error /\ v.scanning = u.scanning
               /\ v.editor = u.editor /\ v.paged = u.paged
               /\ v.moreBusy = u.moreBusy /\ v.mores = u.mores /\ v.work = u.work
               /\ u.loads \subseteq v.loads
               /\ v.loads \subseteq u.loads \cup {NewLoad(u.filter)}
               /\ u.timer => v.timer
               /\ ~u.paged => v.timer \/ NewLoad(u.filter) \in v.loads
<1>1. NewLoad(u.filter) \in Loads
  BY Parts, Defaults DEF NewLoad, Loads
<1>2. CASE u.paged
  BY <1>2 DEF Start
<1>3. CASE ~u.paged /\ editing
  <2>1. Start(u, editing) = [u EXCEPT !.timer = TRUE]
    BY <1>3 DEF Start
  <2>2. QED BY <1>3, <2>1 DEF Screens
<1>4. CASE ~u.paged /\ ~editing
  <2>1. Start(u, editing) = [u EXCEPT !.loads = @ \cup {NewLoad(u.filter)}]
    BY <1>4 DEF Start
  <2>2. QED BY <1>1, <1>4, <2>1 DEF Screens
<1>5. QED BY <1>2, <1>3, <1>4, Parts

NewLoadFields == \A f : /\ NewLoad(f).fresh = TRUE /\ NewLoad(f).filter = f
                        /\ NewLoad(f).on = "scan" /\ NewLoad(f).page = NoPage
                        /\ NewLoad(f).pending = FALSE

LEMMA NewLoadIs == NewLoadFields
  BY DEF NewLoadFields, NewLoad

LEMMA NothingKnown ==
    ASSUME NEW F
    PROVE  KnownPage(NoPage, F)
  BY DEF KnownPage, NoPage

LEMMA StoppedNoWork == [NoWork EXCEPT !.fresh = FALSE] = NoWork
<1>1. \A w \in Works : w.fresh = FALSE => [w EXCEPT !.fresh = FALSE] = w
  BY DEF Works
<1>2. NoWork \in Works /\ NoWork.fresh = FALSE
  BY Defaults DEF NoWork
<1>3. QED BY <1>1, <1>2

(* The effect: nothing that was asked before will be heard.                *)
LEMMA SoundRestart ==
    ASSUME NEW u \in Screens, NEW f \in Filters, NEW F, NEW W,
           ItemsKnown(u, F), EditsKnown(u, F), NEW W2
    PROVE  Restart(u, f) \in Screens /\ Sound(Restart(u, f), F, W2)
<1> DEFINE s == Stop(u)
           t == [s EXCEPT !.active = TRUE, !.filter = f, !.page = NoPage,
                          !.error = FALSE, !.editor = NoEditor,
                          !.paged = FALSE, !.moreBusy = FALSE]
           editing == u.editor # NoEditor
           v == Start(t, editing)
<1>1. /\ s \in Screens /\ s.timer = FALSE /\ s.scanning = u.scanning
      /\ \A l \in s.loads : ~l.fresh /\ \E k \in u.loads : l.page = k.page
      /\ \A m \in s.mores : ~m.fresh /\ \E k \in u.mores : m.page = k.page
      /\ s.work = [u.work EXCEPT !.fresh = FALSE]
  BY Stopped
<1> HIDE DEF s
<1>2. t \in Screens
  BY <1>1, Defaults DEF Screens
<1>3. /\ t.active = TRUE /\ t.filter = f /\ t.page = NoPage /\ t.error = FALSE
      /\ t.editor = NoEditor /\ t.paged = FALSE /\ t.moreBusy = FALSE
      /\ t.loads = s.loads /\ t.mores = s.mores /\ t.work = s.work
  BY <1>1 DEF Screens
<1> HIDE DEF t
<1>4. editing \in BOOLEAN
  OBVIOUS
<1> HIDE DEF editing
<1>5. /\ v \in Screens
      /\ v.filter = f /\ v.page = NoPage /\ v.editor = NoEditor
      /\ v.mores = s.mores /\ v.work = s.work
      /\ v.loads \subseteq s.loads \cup {NewLoad(f)}
      /\ v.timer \/ NewLoad(f) \in v.loads
  BY <1>2, <1>3, <1>4, Started
<1>6. Restart(u, f) = v
  BY DEF Restart, v, t, s, editing
<1> HIDE DEF v
<1>7. ItemsKnown(v, F)
  <2>1. KnownPage(v.page, F)
    BY <1>5, NothingKnown
  <2>2. ASSUME NEW l \in v.loads PROVE KnownPage(l.page, F)
    <3>1. CASE l \in s.loads
      BY <1>1, <3>1 DEF ItemsKnown
    <3>2. CASE l = NewLoad(f)
      BY <3>2, NothingKnown, NewLoadIs DEF NewLoadFields
    <3>3. QED BY <1>5, <3>1, <3>2
  <2>3. ASSUME NEW m \in v.mores PROVE KnownPage(m.page, F)
    BY <1>1, <1>5 DEF ItemsKnown
  <2>4. QED BY <2>1, <2>2, <2>3 DEF ItemsKnown
<1>8. EditsKnown(v, F)
  <2>1. u.work \in Works
    BY Parts
  <2>2. v.work.kind = u.work.kind /\ v.work.edit = u.work.edit
    BY <1>1, <1>5, <2>1 DEF Works
  <2>3. u.work = NoWork => v.work = NoWork
    BY <1>1, <1>5, StoppedNoWork
  <2>4. QED BY <1>5, <2>2, <2>3 DEF EditsKnown
<1>9. LoadsFit(v, W2)
  BY <1>1, <1>5, NewLoadIs DEF LoadsFit, NewLoadFields
<1>10. MoresFit(v, W2)
  BY <1>1, <1>5 DEF MoresFit
<1>11. PageFits(v, W2)
  BY <1>5 DEF PageFits
<1>12. PollFits(v)
  BY <1>5, NewLoadIs DEF PollFits, Loading, NewLoadFields
<1>13. QED BY <1>5, <1>6, <1>7, <1>8, <1>9, <1>10, <1>11, <1>12 DEF Sound

(* The screen is left: it shows what it showed, and hears nothing.         *)
LEMMA SoundLeave ==
    ASSUME NEW u \in Screens, NEW F, NEW W, Sound(u, F, W)
    PROVE  Leave(u) \in Screens /\ Sound(Leave(u), F, W)
<1> DEFINE s == Stop(u)
           v == [s EXCEPT !.active = FALSE]
<1>1. /\ s \in Screens /\ s.page = u.page /\ s.filter = u.filter
      /\ s.editor = u.editor
      /\ \A l \in s.loads : ~l.fresh /\ \E k \in u.loads : l.page = k.page
      /\ \A m \in s.mores : ~m.fresh /\ \E k \in u.mores : m.page = k.page
      /\ s.work = [u.work EXCEPT !.fresh = FALSE]
  BY Stopped
<1> HIDE DEF s
<1>2. /\ v \in Screens /\ v.active = FALSE /\ v.page = u.page
      /\ v.filter = u.filter /\ v.editor = u.editor
      /\ v.loads = s.loads /\ v.mores = s.mores /\ v.work = s.work
  BY <1>1 DEF Screens
<1> HIDE DEF v
<1>3. ItemsKnown(v, F)
  BY <1>1, <1>2 DEF Sound, ItemsKnown
<1>4. EditsKnown(v, F)
  <2>1. u.work \in Works
    BY Parts
  <2>2. v.work.kind = u.work.kind /\ v.work.edit = u.work.edit
    BY <1>1, <1>2, <2>1 DEF Works
  <2>3. u.work = NoWork => v.work = NoWork
    BY <1>1, <1>2, StoppedNoWork
  <2>4. QED BY <1>2, <2>2, <2>3 DEF Sound, EditsKnown
<1>5. LoadsFit(v, W) /\ MoresFit(v, W) /\ PageFits(v, W) /\ PollFits(v)
  BY <1>1, <1>2 DEF Sound, LoadsFit, MoresFit, PageFits, PollFits
<1>6. Leave(u) = v
  BY DEF Leave, v, s
<1>7. QED BY <1>2, <1>3, <1>4, <1>5, <1>6 DEF Sound

LEMMA SoundFresh ==
    ASSUME NEW F, NEW W
    PROVE  Fresh \in Screens /\ Sound(Fresh, F, W)
<1>1. NewLoad(FirstFilter) \in Loads
  BY Defaults DEF NewLoad, Loads
<1>2. Fresh \in Screens
  BY <1>1, Defaults DEF Fresh, Screens
<1>3. /\ Fresh.page = NoPage /\ Fresh.filter = FirstFilter
      /\ Fresh.loads = {NewLoad(FirstFilter)} /\ Fresh.mores = {}
      /\ Fresh.editor = NoEditor /\ Fresh.work = NoWork /\ Fresh.scanning = FALSE
  BY DEF Fresh
<1>4. ItemsKnown(Fresh, F)
  BY <1>3, NothingKnown, NewLoadIs DEF ItemsKnown, NewLoadFields
<1>5. EditsKnown(Fresh, F)
  BY <1>3 DEF EditsKnown, NoWork
<1>6. LoadsFit(Fresh, W) /\ MoresFit(Fresh, W) /\ PageFits(Fresh, W) /\ PollFits(Fresh)
  BY <1>3, NewLoadIs DEF LoadsFit, MoresFit, PageFits, PollFits, NewLoadFields
<1>7. QED BY <1>2, <1>4, <1>5, <1>6 DEF Sound

(* Requests of load whose answers are on their way or awaited.             *)
LEMMA SoundLoads ==
    ASSUME NEW u \in Screens, NEW F, NEW W, Sound(u, F, W),
           NEW l \in u.loads, NEW k \in Loads,
           k.fresh = l.fresh, k.filter = l.filter, KnownPage(k.page, F),
           k.on = "ok" /\ k.fresh => <<k.page, k.filter, 0>> \in W,
           NEW error \in BOOLEAN, u.error => error
    PROVE  LET v == [u EXCEPT !.error = error, !.loads = (@ \ {l}) \cup {k}]
           IN  v \in Screens /\ Sound(v, F, W)
<1> DEFINE v == [u EXCEPT !.error = error, !.loads = (@ \ {l}) \cup {k}]
<1>1. /\ v \in Screens /\ v.loads = (u.loads \ {l}) \cup {k} /\ v.error = error
      /\ v.page = u.page /\ v.filter = u.filter /\ v.mores = u.mores
      /\ v.paged = u.paged /\ v.moreBusy = u.moreBusy
      /\ v.editor = u.editor /\ v.work = u.work
      /\ v.active = u.active /\ v.scanning = u.scanning /\ v.timer = u.timer
  BY DEF Screens
<1> HIDE DEF v
<1>2. ItemsKnown(v, F)
  BY <1>1 DEF Sound, ItemsKnown
<1>3. EditsKnown(v, F)
  BY <1>1 DEF Sound, EditsKnown
<1>4. LoadsFit(v, W)
  BY <1>1 DEF Sound, LoadsFit
<1>5. MoresFit(v, W) /\ PageFits(v, W)
  BY <1>1 DEF Sound, MoresFit, PageFits
<1>6. Loading(u) => Loading(v)
  BY <1>1 DEF Loading
<1>7. PollFits(v)
  BY <1>1, <1>6 DEF Sound, PollFits
<1>8. QED BY <1>1, <1>2, <1>3, <1>4, <1>5, <1>7 DEF Sound, v

(* The 8 seconds are over.                                                 *)
LEMMA SoundTimer ==
    ASSUME NEW u \in Screens, NEW F, NEW W, Sound(u, F, W),
           NEW editing \in BOOLEAN
    PROVE  LET v == Start([u EXCEPT !.timer = FALSE], editing)
           IN  v \in Screens /\ Sound(v, F, W)
<1> DEFINE t == [u EXCEPT !.timer = FALSE]
           v == Start(t, editing)
<1>1. /\ t \in Screens /\ t.loads = u.loads /\ t.error = u.error
      /\ t.page = u.page /\ t.filter = u.filter /\ t.mores = u.mores
      /\ t.paged = u.paged /\ t.moreBusy = u.moreBusy
      /\ t.editor = u.editor /\ t.work = u.work
      /\ t.active = u.active /\ t.scanning = u.scanning
  BY DEF Screens
<1> HIDE DEF t
<1>2. /\ v \in Screens /\ v.error = u.error
      /\ v.page = u.page /\ v.filter = u.filter /\ v.mores = u.mores
      /\ v.paged = u.paged /\ v.moreBusy = u.moreBusy
      /\ v.editor = u.editor /\ v.work = u.work
      /\ v.active = u.active /\ v.scanning = u.scanning
      /\ v.loads \subseteq u.loads \cup {NewLoad(u.filter)}
      /\ ~u.paged => v.timer \/ NewLoad(u.filter) \in v.loads
  BY <1>1, Started
<1> HIDE DEF v
<1>3. ItemsKnown(v, F)
  BY <1>2, NewLoadIs, NothingKnown DEF Sound, ItemsKnown, NewLoadFields
<1>4. EditsKnown(v, F)
  BY <1>2 DEF Sound, EditsKnown
<1>5. LoadsFit(v, W)
  BY <1>2, NewLoadIs DEF Sound, LoadsFit, NewLoadFields
<1>6. MoresFit(v, W) /\ PageFits(v, W)
  BY <1>2 DEF Sound, MoresFit, PageFits
<1>7. PollFits(v)
  BY <1>2, NewLoadIs DEF PollFits, Loading, NewLoadFields
<1>8. QED BY <1>2, <1>3, <1>4, <1>5, <1>6, <1>7 DEF Sound, v, t

(* The end of a load: ListAnswer of a screen u.                            *)
LEMMA SoundListAnswer ==
    ASSUME NEW F, NEW W, ui \in Screens, Sound(ui, F, W),
           NEW l \in ui.loads, l.on \in {"ok", "failed"}
    PROVE  ListAnswer(l) \in Screens /\ Sound(ListAnswer(l), F, W)
<1> DEFINE rest == [ui EXCEPT !.loads = @ \ {l}]
           pending == l.pending \/ \E i \in l.page.items : InProgress(i)
           shown == [rest EXCEPT !.page = l.page, !.scanning = pending,
                                 !.timer = @ \/ pending]
<1>1. /\ l \in Loads /\ l.page \in Pages /\ l.fresh \in BOOLEAN /\ l.pending \in BOOLEAN
  BY Parts DEF Loads
<1>2. /\ rest \in Screens /\ rest.loads = ui.loads \ {l} /\ rest.error = ui.error
      /\ rest.page = ui.page /\ rest.filter = ui.filter /\ rest.mores = ui.mores
      /\ rest.paged = ui.paged /\ rest.moreBusy = ui.moreBusy
      /\ rest.editor = ui.editor /\ rest.work = ui.work
      /\ rest.active = ui.active /\ rest.scanning = ui.scanning
      /\ rest.timer = ui.timer
  BY DEF Screens
<1>3. pending \in BOOLEAN
  BY <1>1
<1> HIDE DEF rest, pending
<1>4. /\ ItemsKnown(rest, F) /\ EditsKnown(rest, F) /\ LoadsFit(rest, W)
      /\ MoresFit(rest, W) /\ PageFits(rest, W)
  BY <1>2 DEF Sound, ItemsKnown, EditsKnown, LoadsFit, MoresFit, PageFits
<1>5. ~l.fresh => Loading(ui) = Loading(rest)
  BY <1>2 DEF Loading
<1>6. CASE ~l.fresh
  <2>1. PollFits(rest)
    BY <1>2, <1>5, <1>6 DEF Sound, PollFits
  <2>2. ListAnswer(l) = rest
    BY <1>6 DEF ListAnswer, rest
  <2>3. QED BY <1>2, <1>4, <2>1, <2>2 DEF Sound
<1>7. CASE l.fresh /\ l.on = "failed"
  <2> DEFINE v == [rest EXCEPT !.error = TRUE]
  <2>1. /\ v \in Screens /\ v.error /\ SameList(rest, v)
        /\ v.editor = rest.editor /\ v.work = rest.work
    BY <1>2 DEF Screens, SameList
  <2>2. ListAnswer(l) = v
    BY <1>7 DEF ListAnswer, rest
  <2> HIDE DEF v
  <2>3. PollFits(v) /\ EditsKnown(v, F)
    BY <1>4, <2>1 DEF PollFits, EditsKnown
  <2>4. ItemsKnown(v, F) /\ LoadsFit(v, W) /\ MoresFit(v, W) /\ PageFits(v, W)
    BY <1>4, <2>1 DEF SameList, ItemsKnown, LoadsFit, MoresFit, PageFits
  <2>5. QED BY <2>1, <2>2, <2>3, <2>4 DEF Sound
<1>8. CASE l.fresh /\ l.on = "ok" /\ ui.paged
  <2>1. PollFits(rest)
    BY <1>2, <1>8 DEF PollFits
  <2>2. ListAnswer(l) = rest
    BY <1>8 DEF ListAnswer, rest
  <2>3. QED BY <1>2, <1>4, <2>1, <2>2 DEF Sound
<1>9. CASE l.fresh /\ l.on = "ok" /\ ~ui.paged
  <2>1. /\ shown \in Screens /\ shown.page = l.page /\ shown.scanning = pending
        /\ shown.timer = (ui.timer \/ pending)
        /\ shown.filter = ui.filter /\ shown.loads = rest.loads
        /\ shown.mores = ui.mores /\ shown.paged = FALSE
        /\ shown.editor = ui.editor /\ shown.work = ui.work
    BY <1>1, <1>2, <1>3, <1>9, Parts DEF Screens
  <2>2. ListAnswer(l) = shown
    BY <1>9 DEF ListAnswer, rest, pending
  <2> HIDE DEF shown
  <2>3. ItemsKnown(shown, F)
    BY <1>2, <2>1 DEF Sound, ItemsKnown
  <2>4. EditsKnown(shown, F)
    BY <2>1 DEF Sound, EditsKnown
  <2>5. LoadsFit(shown, W)
    BY <1>2, <2>1 DEF Sound, LoadsFit
  <2>6. MoresFit(shown, W)
    BY <1>9, <2>1 DEF Sound, MoresFit
  <2>7. PageFits(shown, W)
    BY <1>9, <2>1 DEF Sound, LoadsFit, PageFits
  <2>8. PollFits(shown)
    BY <2>1 DEF PollFits
  <2>9. QED BY <2>1, <2>2, <2>3, <2>4, <2>5, <2>6, <2>7, <2>8 DEF Sound
<1>10. QED BY <1>1, <1>6, <1>7, <1>8, <1>9, Parts

(* Further pages.                                                          *)
LEMMA SoundMores ==
    ASSUME NEW u \in Screens, NEW F, NEW W, Sound(u, F, W),
           NEW m \in u.mores, NEW k \in Mores,
           k.fresh = m.fresh, k.filter = m.filter, k.cursor = m.cursor,
           KnownPage(k.page, F),
           k.on = "ok" /\ k.fresh => <<k.page, k.filter, k.cursor>> \in W
    PROVE  LET v == [u EXCEPT !.mores = (@ \ {m}) \cup {k}]
           IN  v \in Screens /\ Sound(v, F, W)
<1> DEFINE v == [u EXCEPT !.mores = (@ \ {m}) \cup {k}]
<1>1. /\ v \in Screens /\ v.mores = (u.mores \ {m}) \cup {k} /\ v.error = u.error
      /\ v.page = u.page /\ v.filter = u.filter /\ v.loads = u.loads
      /\ v.paged = u.paged /\ v.moreBusy = u.moreBusy
      /\ v.editor = u.editor /\ v.work = u.work
      /\ v.active = u.active /\ v.scanning = u.scanning /\ v.timer = u.timer
  BY DEF Screens
<1> HIDE DEF v
<1>2. ItemsKnown(v, F)
  BY <1>1 DEF Sound, ItemsKnown
<1>3. EditsKnown(v, F) /\ LoadsFit(v, W) /\ PageFits(v, W) /\ PollFits(v)
  BY <1>1 DEF Sound, EditsKnown, LoadsFit, PageFits, PollFits, Loading
<1>4. MoresFit(v, W)
  BY <1>1 DEF Sound, MoresFit
<1>5. QED BY <1>1, <1>2, <1>3, <1>4 DEF Sound, v

LEMMA SoundMoreAnswer ==
    ASSUME TypeOK, Sound(ui, Facts, Wholes),
           NEW m \in ui.mores, m.on # "sent"
    PROVE  MoreAnswer(m) \in Screens /\ Sound(MoreAnswer(m), Facts, Wholes)
<1> DEFINE rest == [ui EXCEPT !.mores = @ \ {m}]
           ended == [ui EXCEPT !.mores = @ \ {m}, !.moreBusy = FALSE]
<1>1. /\ ui \in Screens /\ m \in Mores /\ m.page \in Pages /\ m.fresh \in BOOLEAN
      /\ m.on \in {"ok", "failed"}
  BY Parts DEF TypeOK, Mores
<1>2. CASE ~m.fresh
  <2>1. /\ rest \in Screens /\ rest.mores = ui.mores \ {m} /\ rest.error = ui.error
        /\ rest.page = ui.page /\ rest.filter = ui.filter /\ rest.loads = ui.loads
        /\ rest.paged = ui.paged /\ rest.moreBusy = ui.moreBusy
        /\ rest.editor = ui.editor /\ rest.work = ui.work
        /\ rest.active = ui.active /\ rest.scanning = ui.scanning
        /\ rest.timer = ui.timer
    BY <1>1 DEF Screens
  <2>2. MoreAnswer(m) = rest
    BY <1>2 DEF MoreAnswer
  <2> HIDE DEF rest
  <2>3. /\ ItemsKnown(rest, Facts) /\ EditsKnown(rest, Facts)
        /\ LoadsFit(rest, Wholes) /\ MoresFit(rest, Wholes)
        /\ PageFits(rest, Wholes) /\ PollFits(rest)
    BY <2>1 DEF Sound, ItemsKnown, EditsKnown, LoadsFit, MoresFit, PageFits,
                PollFits, Loading
  <2>4. QED BY <2>1, <2>2, <2>3 DEF Sound
<1>3. ASSUME m.fresh
      PROVE  /\ ended \in Screens /\ ended.mores = ui.mores \ {m}
             /\ ended.page = ui.page /\ ended.filter = ui.filter
             /\ ended.loads = ui.loads /\ ended.paged = TRUE
             /\ ended.editor = ui.editor /\ ended.work = ui.work
             /\ \A n \in ended.mores : ~n.fresh
  <2>1. /\ ended \in Screens /\ ended.mores = ui.mores \ {m}
        /\ ended.page = ui.page /\ ended.filter = ui.filter
        /\ ended.loads = ui.loads /\ ended.paged = ui.paged
        /\ ended.editor = ui.editor /\ ended.work = ui.work
    BY <1>1 DEF Screens
  <2>2. ui.paged = TRUE
    BY <1>1, <1>3, Parts DEF Sound, MoresFit
  <2>3. \A n \in ended.mores : ~n.fresh
    BY <1>3, <2>1 DEF Sound, MoresFit
  <2>4. QED BY <2>1, <2>2, <2>3
<1> HIDE DEF ended
<1>4. CASE m.fresh /\ m.on = "failed"
  <2> DEFINE v == [ended EXCEPT !.error = TRUE]
  <2>1. /\ v \in Screens /\ v.mores = ended.mores
        /\ v.page = ui.page /\ v.filter = ui.filter /\ v.loads = ui.loads
        /\ v.paged = TRUE /\ v.editor = ui.editor /\ v.work = ui.work
    BY <1>3, <1>4 DEF Screens
  <2>2. MoreAnswer(m) = v
    BY <1>4 DEF MoreAnswer, ended
  <2> HIDE DEF v
  <2>3. /\ ItemsKnown(v, Facts) /\ EditsKnown(v, Facts)
        /\ LoadsFit(v, Wholes) /\ PageFits(v, Wholes) /\ PollFits(v)
    BY <1>3, <1>4, <2>1
       DEF Sound, ItemsKnown, EditsKnown, LoadsFit, PageFits, PollFits
  <2>4. MoresFit(v, Wholes)
    BY <1>3, <1>4, <2>1 DEF MoresFit
  <2>5. QED BY <2>1, <2>2, <2>3, <2>4 DEF Sound
<1>5. CASE m.fresh /\ m.on = "ok"
  <2> DEFINE page == Appended(ui.page, m.page)
             v == [ended EXCEPT !.page = page]
  <2>1. /\ ui.page # NoPage /\ m.cursor = ui.page.cursor
        /\ <<m.page, ui.filter, m.cursor>> \in Wholes
        /\ <<ui.page, ui.filter, 0>> \in Wholes
    BY <1>5 DEF Sound, MoresFit, PageFits
  <2>2. ui.page.cursor # 0
    BY <1>1, <2>1, ArticlesAreNumbers DEF Mores
  <2>3. /\ page \in Pages /\ page # NoPage
        /\ <<page, ui.filter, 0>> \in Wholes
    BY <1>1, <2>1, <2>2, Parts, PageAppended
  <2>4. page.items \subseteq ui.page.items \cup m.page.items
    BY DEF Appended
  <2> HIDE DEF page
  <2>5. /\ v \in Screens /\ v.mores = ended.mores
        /\ v.page = page /\ v.filter = ui.filter /\ v.loads = ui.loads
        /\ v.paged = TRUE /\ v.editor = ui.editor /\ v.work = ui.work
    BY <1>3, <1>5, <2>3 DEF Screens
  <2>6. MoreAnswer(m) = v
    <3>1. MoreAnswer(m) = [ended EXCEPT !.page = Appended(@, m.page)]
      BY <1>5 DEF MoreAnswer, ended
    <3>2. QED BY <1>3, <1>5, <3>1 DEF page, Screens
  <2> HIDE DEF v
  <2>7. ItemsKnown(v, Facts)
    <3>1. KnownPage(page, Facts)
      BY <2>4 DEF Sound, ItemsKnown, KnownPage
    <3>2. QED BY <1>3, <1>5, <2>5, <3>1 DEF Sound, ItemsKnown
  <2>8. /\ EditsKnown(v, Facts) /\ LoadsFit(v, Wholes) /\ PollFits(v)
        /\ PageFits(v, Wholes)
    BY <2>3, <2>5 DEF Sound, EditsKnown, LoadsFit, PollFits, PageFits
  <2>9. MoresFit(v, Wholes)
    BY <1>3, <1>5, <2>5 DEF MoresFit
  <2>10. QED BY <2>5, <2>6, <2>7, <2>8, <2>9 DEF Sound
<1>6. QED BY <1>1, <1>2, <1>4, <1>5

-----------------------------------------------------------------------------
(* Every step.                                                             *)

LEMMA InitSound == Init => IInv
<1> SUFFICES ASSUME Init PROVE IInv
  OBVIOUS
<1>1. ui = Fresh /\ strays = {} /\ moved = {}
  BY DEF Init
<1>2. row \in [Articles -> Row] /\ phase \in [Articles -> Phases] /\ left \in [Uses -> Nat]
  BY ExploreAssumption DEF Init
<1>3. TypeOK
  BY <1>1, <1>2, SoundFresh DEF TypeOK
<1>4. QED BY <1>1, <1>3, SoundFresh DEF IInv, StraysKnown

LEMMA Spent ==
    ASSUME TypeOK, NEW use \in Uses, Spend(use)
    PROVE  left' \in [Uses -> Nat]
<1>1. left \in [Uses -> Nat] /\ left[use] \in Nat /\ left[use] > 0
  BY DEF TypeOK, Spend
<1>2. left' = [left EXCEPT ![use] = left[use] - 1] /\ left[use] - 1 \in Nat
  BY <1>1 DEF Spend
<1>3. QED BY <1>1, <1>2

USE DEF Uses

(* An edit that is being saved may be left behind.                         *)
LEMMA StraysLeft ==
    ASSUME IInv,
           \/ strays' = strays
           \/ ui.work.kind = "save" /\ strays' = strays \cup {ui.work.edit}
    PROVE  strays' \subseteq Edits /\ \A e \in strays' : EditKnown(e, Facts)
<1>1. ui.work \in Works /\ strays \subseteq Edits
  BY Parts DEF IInv, TypeOK
<1>2. ui.work.edit \in Edits
  BY <1>1 DEF Works
<1>3. \A e \in strays : EditKnown(e, Facts)
  BY DEF IInv, StraysKnown
<1>4. ui.work.kind = "save" => EditKnown(ui.work.edit, Facts)
  BY DEF IInv, Sound, EditsKnown
<1>5. QED BY <1>1, <1>2, <1>3, <1>4

(* A step of the screen, which may leave an edit behind: the server is as  *)
(* it was.                                                                 *)
LEMMA ScreenStep ==
    ASSUME IInv, UNCHANGED server, left' \in [Uses -> Nat],
           \/ strays' = strays
           \/ ui.work.kind = "save" /\ strays' = strays \cup {ui.work.edit},
           ui' \in Screens, Sound(ui', Facts, Wholes)
    PROVE  IInv'
<1>1. Facts' = Facts /\ Wholes' = Wholes
  BY TruthUnchanged
<1>2. strays' \subseteq Edits /\ \A e \in strays' : EditKnown(e, Facts)
  BY StraysLeft
<1>3. TypeOK'
  BY <1>2 DEF IInv, TypeOK, server
<1>4. StraysKnown'
  BY <1>1, <1>2 DEF StraysKnown
<1>5. QED BY <1>1, <1>3, <1>4 DEF IInv

(* A step of the server: the screen may be answered.                       *)
LEMMA ServerStep ==
    ASSUME IInv, ServerMoves, left' \in [Uses -> Nat], strays' \subseteq strays,
           row' \in [Articles -> Row], phase' \in [Articles -> Phases],
           moved' \subseteq Articles,
           \/ ui' = ui
           \/ /\ ui.work.kind # "none"
              /\ \E how \in {"ok", "failed"} : ui' = [ui EXCEPT !.work.on = how]
    PROVE  IInv'
<1>1. ui \in Screens /\ Sound(ui, Facts, Wholes)
  BY DEF IInv, TypeOK
<1>2. ui' \in Screens /\ Sound(ui', Facts, Wholes)
  <2>1. CASE ui' = ui
    BY <1>1, <2>1
  <2>2. ASSUME ui.work.kind # "none", NEW how \in {"ok", "failed"},
               ui' = [ui EXCEPT !.work.on = how]
        PROVE  ui' \in Screens /\ Sound(ui', Facts, Wholes)
    BY <1>1, <2>2, SoundAnswered
  <2>3. QED BY <2>1, <2>2
<1>3. TypeOK'
  BY <1>2 DEF IInv, TypeOK
<1>4. Facts \subseteq Facts' /\ Wholes \subseteq Wholes'
  BY <1>3, TruthStays DEF IInv
<1>5. Sound(ui', Facts', Wholes')
  BY <1>2, <1>4, SoundOfMore
<1>6. StraysKnown'
  BY <1>4 DEF IInv, StraysKnown, EditKnown
<1>7. QED BY <1>3, <1>5, <1>6 DEF IInv

(* A step that begins the list anew.                                       *)
LEMMA RestartStep ==
    ASSUME IInv, UNCHANGED <<row, phase>>, strays' = strays,
           left' \in [Uses -> Nat], moved' = {},
           NEW u \in Screens, NEW f \in Filters,
           ItemsKnown(u, Facts), EditsKnown(u, Facts), ui' = Restart(u, f)
    PROVE  IInv'
<1>1. Facts' = Facts
  BY DEF Facts, Exists
<1>2. ui' \in Screens /\ Sound(ui', Facts', Wholes')
  BY <1>1, SoundRestart
<1>3. TypeOK' /\ StraysKnown'
  BY <1>1, <1>2 DEF IInv, TypeOK, StraysKnown
<1>4. QED BY <1>2, <1>3 DEF IInv

LEMMA NothingMoves ==
    ASSUME TypeOK, UNCHANGED server
    PROVE  /\ ServerMoves /\ row' \in [Articles -> Row]
           /\ phase' \in [Articles -> Phases] /\ moved' \subseteq Articles
<1>1. \A a \in Articles : row[a].revision \in Nat
  BY DEF TypeOK, Row
<1>2. QED BY <1>1 DEF TypeOK, server, ServerMoves, Exists

-----------------------------------------------------------------------------
(* Steps of the server.                                                    *)

LEMMA ClassifySound ==
    ASSUME IInv, NEW a \in Articles, Classify(a)
    PROVE  IInv'
<1>1. TypeOK /\ left' \in [Uses -> Nat]
  BY Spent DEF IInv, Classify
<1>2. row[a] \in Row /\ row[a].revision \in Nat
  BY <1>1 DEF TypeOK, Row
<1>3. PICK new \in NextRows(a) : Write(a, new)
  BY DEF Classify
<1> DEFINE next == row[a].revision + 1
<1>4. next \in Nat
  BY <1>2
<1>5. /\ new \in Row
      /\ \/ new.revision = next
         \/ new.revision = row[a].revision /\ new.content = row[a].content
  <2>1. CASE new = [revision |-> next, content |-> Unclassified,
                    state |-> "PENDING", edited |-> FALSE]
    BY <1>4, <2>1, Defaults DEF Row, States
  <2>2. CASE new = [row[a] EXCEPT !.state = "RUNNING"]
    BY <1>2, <2>2 DEF Row, States
  <2>3. CASE new = [row[a] EXCEPT !.state = "FAILED", !.revision = next]
    BY <1>2, <1>4, <2>3 DEF Row, States
  <2>4. CASE new \in [revision : {next}, content : Contents,
                      state : {"SUCCEEDED"}, edited : BOOLEAN]
    BY <1>4, <2>4 DEF Row, States
  <2> HIDE DEF next
  <2>5. QED BY <1>3, <2>1, <2>2, <2>3, <2>4 DEF NextRows, next
<1>6. ServerMoves /\ row' \in [Articles -> Row] /\ moved' \subseteq Articles
  BY <1>1, <1>3, <1>5, RowsWritten DEF Classify
<1>7. QED BY <1>1, <1>6, ServerStep DEF Classify, IInv, TypeOK

LEMMA SummarizeSound ==
    ASSUME IInv, NEW a \in Articles, Summarize(a)
    PROVE  IInv'
<1>1. TypeOK /\ left' \in [Uses -> Nat]
  BY Spent DEF IInv, Summarize
<1>2. PICK p \in {"done", "failed"} : phase' = [phase EXCEPT ![a] = p]
  BY DEF Summarize
<1>3. phase' \in [Articles -> Phases] /\ phase[a] = "summarizing"
  BY <1>1, <1>2 DEF TypeOK, Phases, Summarize
<1>4. \A b \in Articles : Exists(b)' <=> Exists(b)
  BY <1>1, <1>2, <1>3 DEF Exists, TypeOK
<1>5. \A b \in Articles : row[b].revision \in Nat
  BY <1>1 DEF TypeOK, Row
<1>6. ServerMoves
  BY <1>4, <1>5 DEF ServerMoves, Summarize
<1>7. QED BY <1>1, <1>3, <1>6, ServerStep DEF Summarize, IInv, TypeOK

LEMMA RemoveSound ==
    ASSUME IInv, NEW a \in Articles, Remove(a)
    PROVE  IInv'
<1>1. TypeOK /\ left' \in [Uses -> Nat]
  BY Spent DEF IInv, Remove
<1>2. NoRow \in Row
  BY Defaults DEF NoRow, Row, States
<1>3. /\ phase' = [phase EXCEPT ![a] = "removed"] /\ row' = [row EXCEPT ![a] = NoRow]
      /\ moved' = moved \cup {a}
  BY DEF Remove
<1>4. row' \in [Articles -> Row] /\ phase' \in [Articles -> Phases] /\ moved' \subseteq Articles
  BY <1>1, <1>2, <1>3 DEF TypeOK, Phases
<1>5. /\ ~Exists(a)'
      /\ \A b \in Articles : b # a => Exists(b)' = Exists(b) /\ row'[b] = row[b]
  BY <1>1, <1>3 DEF Exists, TypeOK
<1>6. \A b \in Articles : row[b].revision \in Nat
  BY <1>1 DEF TypeOK, Row
<1>7. ServerMoves
  BY <1>3, <1>5, <1>6 DEF ServerMoves
<1>8. QED BY <1>1, <1>4, <1>7, ServerStep DEF Remove

LEMMA EditSaved ==
    ASSUME TypeOK, NEW e, e \in Edits, EditKnown(e, Facts),
           Accepts(e), Write(e.article, EditedRow(e)), UNCHANGED phase
    PROVE  /\ ServerMoves
           /\ row' \in [Articles -> Row] /\ moved' \subseteq Articles
<1>1. e.article \in Articles /\ e.revision \in Nat /\ e.draft \in Contents
  BY DEF EditKnown, EditFact, Facts
<1>2. /\ EditedRow(e) \in Row /\ EditedRow(e).revision = row[e.article].revision + 1
  BY <1>1 DEF EditedRow, Row, States, Accepts
<1>3. QED BY <1>1, <1>2, RowsWritten DEF Accepts

LEMMA ServeEditSound ==
    ASSUME IInv, ServeEdit
    PROVE  IInv'
<1>1. TypeOK /\ ui \in Screens /\ ui.work \in Works /\ left' \in [Uses -> Nat]
  BY Parts DEF IInv, TypeOK, ServeEdit
<1>2. EditKnown(ui.work.edit, Facts) /\ ui.work.edit \in Edits
  BY <1>1 DEF IInv, Sound, EditsKnown, ServeEdit, Works
<1>3. /\ ServerMoves
      /\ row' \in [Articles -> Row] /\ moved' \subseteq Articles
  <2>1. CASE Accepts(ui.work.edit) /\ Write(ui.work.edit.article, EditedRow(ui.work.edit))
    BY <1>1, <1>2, <2>1, EditSaved DEF ServeEdit
  <2>2. CASE UNCHANGED <<row, moved>>
    BY <1>1, <2>2, NothingMoves DEF ServeEdit, server
  <2>3. QED BY <2>1, <2>2 DEF ServeEdit
<1>4. ui.work.kind # "none" /\ \E how \in {"ok", "failed"} : ui' = [ui EXCEPT !.work.on = how]
  BY DEF ServeEdit, Answered
<1>5. QED BY <1>1, <1>3, <1>4, ServerStep DEF ServeEdit, IInv, TypeOK

LEMMA ServeRetrySound ==
    ASSUME IInv, ServeRetry
    PROVE  IInv'
<1> DEFINE a == ui.work.edit.article
           new == [revision |-> row[a].revision + 1, edited |-> FALSE,
                   content |-> Unclassified, state |-> "PENDING"]
<1>1. TypeOK /\ left' \in [Uses -> Nat]
  BY DEF IInv, TypeOK, ServeRetry
<1>2. a \in Articles
  BY DEF IInv, Sound, EditsKnown, ServeRetry
<1>3. row[a].revision \in Nat
  BY <1>1, <1>2 DEF TypeOK, Row
<1>4. new \in Row /\ new.revision = row[a].revision + 1
  BY <1>3, Defaults DEF Row, States
<1>5. \/ Exists(a) /\ Write(a, new)
      \/ UNCHANGED <<row, moved>>
  BY DEF ServeRetry
<1>6. phase' = phase /\ strays' = strays
  BY DEF ServeRetry
<1>7. ui.work.kind # "none" /\ \E how \in {"ok", "failed"} : ui' = [ui EXCEPT !.work.on = how]
  BY DEF ServeRetry, Answered
<1> HIDE DEF new, a
<1>8. /\ ServerMoves
      /\ row' \in [Articles -> Row] /\ moved' \subseteq Articles
  BY <1>1, <1>2, <1>4, <1>5, <1>6, RowsWritten, NothingMoves DEF server
<1>9. QED BY <1>1, <1>6, <1>7, <1>8, ServerStep DEF IInv, TypeOK

LEMMA ServeOpenSound ==
    ASSUME IInv, ServeOpen
    PROVE  IInv'
<1>1. TypeOK /\ left' \in [Uses -> Nat] /\ UNCHANGED server /\ strays' = strays
  BY DEF IInv, TypeOK, ServeOpen
<1>2. ui.work.kind # "none" /\ \E how \in {"ok", "failed"} : ui' = [ui EXCEPT !.work.on = how]
  BY DEF ServeOpen, Answered
<1>3. QED BY <1>1, <1>2, NothingMoves, ServerStep

LEMMA ServeStraySound ==
    ASSUME IInv, ServeStray
    PROVE  IInv'
<1>1. TypeOK /\ left' \in [Uses -> Nat] /\ phase' = phase /\ ui' = ui
  BY DEF IInv, TypeOK, ServeStray
<1>2. PICK e \in strays : /\ strays' = strays \ {e}
                          /\ \/ Accepts(e) /\ Write(e.article, EditedRow(e))
                             \/ UNCHANGED <<row, moved>>
  BY DEF ServeStray
<1>3. e \in Edits /\ EditKnown(e, Facts)
  BY <1>1, <1>2 DEF TypeOK, IInv, StraysKnown
<1>4. /\ ServerMoves
      /\ row' \in [Articles -> Row] /\ moved' \subseteq Articles
  BY <1>1, <1>2, <1>3, EditSaved, NothingMoves DEF server
<1>5. QED BY <1>1, <1>2, <1>4, ServerStep DEF IInv, TypeOK

-----------------------------------------------------------------------------
(* Steps of load and loadMore.                                             *)

LEMMA Given ==
    ASSUME IInv
    PROVE  /\ TypeOK /\ ui \in Screens /\ Sound(ui, Facts, Wholes)
           /\ left \in [Uses -> Nat]
           /\ ItemsKnown(ui, Facts) /\ EditsKnown(ui, Facts)
           /\ \A l \in ui.loads : l \in Loads /\ KnownPage(l.page, Facts)
           /\ \A m \in ui.mores : m \in Mores /\ KnownPage(m.page, Facts)
           /\ ui.error \in BOOLEAN /\ ui.work \in Works /\ ui.editor \in Edits
           /\ \A i \in ui.page.items : i \in Items /\ ItemFact(i) \in Facts
<1>1. TypeOK /\ ui \in Screens /\ Sound(ui, Facts, Wholes) /\ left \in [Uses -> Nat]
  BY DEF IInv, TypeOK
<1>2. QED BY <1>1, Parts, Defaults DEF Sound, ItemsKnown, KnownPage

LEMMA TimerSound ==
    ASSUME IInv, TimerFires
    PROVE  IInv'
<1> DEFINE editing == ui.editor # NoEditor
<1>1. /\ ui' = Start([ui EXCEPT !.timer = FALSE], editing)
      /\ UNCHANGED server /\ strays' = strays /\ left' = left
  BY DEF TimerFires
<1>2. editing \in BOOLEAN
  OBVIOUS
<1> HIDE DEF editing
<1>3. ui' \in Screens /\ Sound(ui', Facts, Wholes)
  BY <1>1, <1>2, Given, SoundTimer
<1>4. QED BY <1>1, <1>3, Given, ScreenStep

(* A request of load goes on.                                              *)
LEMMA LoadGoesOn ==
    ASSUME IInv, NEW l \in ui.loads, NEW k \in Loads,
           k.fresh = l.fresh, k.filter = l.filter, KnownPage(k.page, Facts),
           k.on = "ok" => <<k.page, k.filter, 0>> \in Wholes,
           \/ ui' = [ui EXCEPT !.loads = (@ \ {l}) \cup {k}]
           \/ ui' = [ui EXCEPT !.error = TRUE, !.loads = (@ \ {l}) \cup {k}],
           UNCHANGED server, strays' = strays, left' \in [Uses -> Nat]
    PROVE  IInv'
<1>1. CASE ui' = [ui EXCEPT !.loads = (@ \ {l}) \cup {k}]
  <2>1. ui' = [ui EXCEPT !.error = ui.error, !.loads = (@ \ {l}) \cup {k}]
    BY <1>1, Given DEF Screens
  <2>2. ui' \in Screens /\ Sound(ui', Facts, Wholes)
    BY <2>1, Given, SoundLoads
  <2>3. QED BY <2>2, ScreenStep
<1>2. CASE ui' = [ui EXCEPT !.error = TRUE, !.loads = (@ \ {l}) \cup {k}]
  <2>1. ui' \in Screens /\ Sound(ui', Facts, Wholes)
    BY <1>2, Given, SoundLoads
  <2>2. QED BY <2>1, ScreenStep
<1>3. QED BY <1>1, <1>2

LEMMA LoadSound ==
    ASSUME IInv, HearScan \/ LoseScan \/ ServeList \/ LoseList
    PROVE  IInv'
<1>1. ASSUME NEW l \in ui.loads, NEW pending \in BOOLEAN,
             ui' = [ui EXCEPT !.loads = (@ \ {l}) \cup
                       {[l EXCEPT !.on = "list", !.pending = pending]}],
             UNCHANGED server, strays' = strays, left' = left
      PROVE  IInv'
  <2> DEFINE k == [l EXCEPT !.on = "list", !.pending = pending]
  <2>1. /\ k \in Loads /\ k.fresh = l.fresh /\ k.filter = l.filter
        /\ k.page = l.page /\ k.on = "list"
    BY Given DEF Loads
  <2>2. ui' = [ui EXCEPT !.loads = (@ \ {l}) \cup {k}]
    BY <1>1
  <2> HIDE DEF k
  <2>3. QED BY <1>1, <2>1, <2>2, Given, LoadGoesOn
<1>2. ASSUME NEW l \in ui.loads, Spend("fault"),
             ui' = [ui EXCEPT !.error = TRUE,
                              !.loads = (@ \ {l}) \cup {[l EXCEPT !.on = "list"]}],
             UNCHANGED server, strays' = strays
      PROVE  IInv'
  <2> DEFINE k == [l EXCEPT !.on = "list"]
  <2>1. /\ k \in Loads /\ k.fresh = l.fresh /\ k.filter = l.filter
        /\ k.page = l.page /\ k.on = "list"
    BY Given DEF Loads
  <2>2. ui' = [ui EXCEPT !.error = TRUE, !.loads = (@ \ {l}) \cup {k}]
    BY <1>2
  <2>3. left' \in [Uses -> Nat]
    BY <1>2, Given, Spent
  <2> HIDE DEF k
  <2>4. QED BY <1>2, <2>1, <2>2, <2>3, Given, LoadGoesOn
<1>3. ASSUME NEW l \in ui.loads,
             ui' = [ui EXCEPT !.loads = (@ \ {l}) \cup
                       {[l EXCEPT !.on = "ok", !.page = PageOf(l.filter, 0)]}],
             UNCHANGED server, strays' = strays, left' = left
      PROVE  IInv'
  <2> DEFINE p == PageOf(l.filter, 0)
             k == [l EXCEPT !.on = "ok", !.page = p]
  <2>1. l \in Loads /\ l.filter \in Filters
    BY Given DEF Loads
  <2>2. p \in Pages /\ <<p, l.filter, 0>> \in Wholes /\ KnownPage(p, Facts)
    BY <2>1, Given, PageServed
  <2> HIDE DEF p
  <2>3. /\ k \in Loads /\ k.fresh = l.fresh /\ k.filter = l.filter
        /\ k.page = p /\ k.on = "ok"
    BY <2>1, <2>2 DEF Loads
  <2>4. ui' = [ui EXCEPT !.loads = (@ \ {l}) \cup {k}]
    BY <1>3 DEF p
  <2> HIDE DEF k
  <2>5. QED BY <1>3, <2>2, <2>3, <2>4, Given, LoadGoesOn
<1>4. ASSUME NEW l \in ui.loads, Spend("fault"),
             ui' = [ui EXCEPT !.loads = (@ \ {l}) \cup {[l EXCEPT !.on = "failed"]}],
             UNCHANGED server, strays' = strays
      PROVE  IInv'
  <2> DEFINE k == [l EXCEPT !.on = "failed"]
  <2>1. /\ k \in Loads /\ k.fresh = l.fresh /\ k.filter = l.filter
        /\ k.page = l.page /\ k.on = "failed"
    BY Given DEF Loads
  <2>2. ui' = [ui EXCEPT !.loads = (@ \ {l}) \cup {k}]
    BY <1>4
  <2>3. left' \in [Uses -> Nat]
    BY <1>4, Given, Spent
  <2> HIDE DEF k
  <2>4. QED BY <1>4, <2>1, <2>2, <2>3, Given, LoadGoesOn
<1>5. CASE HearScan
  BY <1>1, <1>5 DEF HearScan
<1>6. CASE LoseScan
  BY <1>2, <1>6 DEF LoseScan
<1>7. CASE ServeList
  BY <1>3, <1>7 DEF ServeList
<1>8. CASE LoseList
  BY <1>4, <1>8 DEF LoseList
<1>9. QED BY <1>5, <1>6, <1>7, <1>8

LEMMA HearListSound ==
    ASSUME IInv, HearList
    PROVE  IInv'
<1>1. PICK l \in ui.loads : l.on \in {"ok", "failed"} /\ ui' = ListAnswer(l)
  BY DEF HearList
<1>2. ui' \in Screens /\ Sound(ui', Facts, Wholes)
  BY <1>1, Given, SoundListAnswer
<1>3. QED BY <1>2, Given, ScreenStep DEF HearList

LEMMA LoadMoreSound ==
    ASSUME IInv, LoadMore
    PROVE  IInv'
<1> DEFINE m == [fresh |-> TRUE, filter |-> ui.filter, cursor |-> ui.page.cursor,
                 on |-> "sent", page |-> NoPage]
           v == [ui EXCEPT !.paged = TRUE, !.moreBusy = TRUE, !.mores = @ \cup {m}]
<1>1. /\ UNCHANGED server /\ strays' = strays /\ ui' = v
      /\ ui.page # NoPage /\ ui.page.cursor # 0 /\ ~ui.moreBusy
      /\ left' \in [Uses -> Nat]
  BY Given, Spent DEF LoadMore
<1>2. ui.page \in Pages /\ ui.filter \in Filters /\ ui.page.cursor \in Articles
  BY <1>1, Given, Parts, Defaults
<1>3. m \in Mores /\ m.page = NoPage
  BY <1>2, Defaults DEF Mores
<1>4. m.filter = ui.filter /\ m.cursor = ui.page.cursor /\ m.on = "sent"
  OBVIOUS
<1> HIDE DEF m
<1>5. /\ v \in Screens /\ v.mores = ui.mores \cup {m} /\ v.paged = TRUE
      /\ v.moreBusy = TRUE
      /\ v.page = ui.page /\ v.filter = ui.filter /\ v.loads = ui.loads
      /\ v.editor = ui.editor /\ v.work = ui.work
  BY <1>3, Given DEF Screens
<1> HIDE DEF v
<1>6. ItemsKnown(v, Facts)
  BY <1>3, <1>5, Given, NothingKnown DEF ItemsKnown
<1>7. /\ EditsKnown(v, Facts) /\ LoadsFit(v, Wholes) /\ PageFits(v, Wholes)
      /\ PollFits(v)
  BY <1>5, Given DEF Sound, EditsKnown, LoadsFit, PageFits, PollFits
<1>8. \A n \in ui.mores : ~n.fresh
  BY <1>1, Given DEF Sound, MoresFit
<1>9. MoresFit(v, Wholes)
  BY <1>1, <1>4, <1>5, <1>8 DEF MoresFit
<1>10. QED BY <1>1, <1>5, <1>6, <1>7, <1>9, ScreenStep DEF Sound

(* A request of loadMore ends.                                             *)
LEMMA MoreEnds ==
    ASSUME IInv, NEW m \in ui.mores, NEW k \in Mores,
           k.fresh = m.fresh, k.filter = m.filter, k.cursor = m.cursor,
           KnownPage(k.page, Facts),
           k.on = "ok" => <<k.page, k.filter, k.cursor>> \in Wholes,
           ui' = [ui EXCEPT !.mores = (@ \ {m}) \cup {k}],
           UNCHANGED server, strays' = strays, left' \in [Uses -> Nat]
    PROVE  IInv'
<1>1. ui' \in Screens /\ Sound(ui', Facts, Wholes)
  BY Given, SoundMores
<1>2. QED BY <1>1, ScreenStep

LEMMA MoreSound ==
    ASSUME IInv, ServeMore \/ LoseMore
    PROVE  IInv'
<1>1. ASSUME NEW m \in ui.mores, left' \in [Uses -> Nat],
             ui' = [ui EXCEPT !.mores = (@ \ {m}) \cup {[m EXCEPT !.on = "failed"]}],
             UNCHANGED server, strays' = strays
      PROVE  IInv'
  <2> DEFINE k == [m EXCEPT !.on = "failed"]
  <2>1. /\ k \in Mores /\ k.fresh = m.fresh /\ k.filter = m.filter
        /\ k.cursor = m.cursor /\ k.page = m.page /\ k.on = "failed"
    BY Given DEF Mores
  <2>2. ui' = [ui EXCEPT !.mores = (@ \ {m}) \cup {k}]
    BY <1>1
  <2> HIDE DEF k
  <2>3. QED BY <1>1, <2>1, <2>2, Given, MoreEnds
<1>2. ASSUME NEW m \in ui.mores, left' \in [Uses -> Nat],
             ui' = [ui EXCEPT !.mores = (@ \ {m}) \cup
                      {[m EXCEPT !.on = "ok", !.page = PageOf(m.filter, m.cursor)]}],
             UNCHANGED server, strays' = strays
      PROVE  IInv'
  <2> DEFINE p == PageOf(m.filter, m.cursor)
             k == [m EXCEPT !.on = "ok", !.page = p]
  <2>1. m \in Mores /\ m.filter \in Filters /\ m.cursor \in Articles
    BY Given DEF Mores
  <2>2. p \in Pages /\ <<p, m.filter, m.cursor>> \in Wholes /\ KnownPage(p, Facts)
    BY <2>1, Given, PageServed
  <2> HIDE DEF p
  <2>3. /\ k \in Mores /\ k.fresh = m.fresh /\ k.filter = m.filter
        /\ k.cursor = m.cursor /\ k.page = p /\ k.on = "ok"
    BY <2>1, <2>2 DEF Mores
  <2>4. ui' = [ui EXCEPT !.mores = (@ \ {m}) \cup {k}]
    BY <1>2 DEF p
  <2> HIDE DEF k
  <2>5. QED BY <1>2, <2>2, <2>3, <2>4, Given, MoreEnds
<1>3. CASE ServeMore
  <2>1. PICK m \in ui.mores :
          ui' = [ui EXCEPT !.mores = (@ \ {m}) \cup
                     {IF Exists(m.cursor)
                      THEN [m EXCEPT !.on = "ok",
                                     !.page = PageOf(m.filter, m.cursor)]
                      ELSE [m EXCEPT !.on = "failed"]}]
    BY <1>3 DEF ServeMore
  <2>2. UNCHANGED server /\ strays' = strays /\ left' \in [Uses -> Nat]
    BY <1>3, Given DEF ServeMore
  <2>3. CASE Exists(m.cursor)
    BY <1>2, <2>1, <2>2, <2>3
  <2>4. CASE ~Exists(m.cursor)
    BY <1>1, <2>1, <2>2, <2>4
  <2>5. QED BY <2>3, <2>4
<1>4. CASE LoseMore
  <2>1. left' \in [Uses -> Nat] /\ UNCHANGED server /\ strays' = strays
    BY <1>4, Given, Spent DEF LoseMore
  <2>2. QED BY <1>1, <1>4, <2>1 DEF LoseMore
<1>5. QED BY <1>3, <1>4

LEMMA HearMoreSound ==
    ASSUME IInv, HearMore
    PROVE  IInv'
<1>1. PICK m \in ui.mores : m.on # "sent" /\ ui' = MoreAnswer(m)
  BY DEF HearMore
<1>2. ui' \in Screens /\ Sound(ui', Facts, Wholes)
  BY <1>1, Given, SoundMoreAnswer
<1>3. QED BY <1>2, Given, ScreenStep DEF HearMore

-----------------------------------------------------------------------------
(* Tasks.                                                                  *)

LEMMA RunSound ==
    ASSUME IInv, NEW kind \in {"open", "retry", "save"}, NEW edit \in Edits,
           edit.article \in Articles, Run(kind, edit),
           kind = "save" => EditKnown(edit, Facts) /\ edit = ui.editor,
           UNCHANGED server, strays' = strays, left' \in [Uses -> Nat]
    PROVE  IInv'
<1> DEFINE w == [kind |-> kind, fresh |-> TRUE, on |-> "sent", edit |-> edit]
           v == [ui EXCEPT !.error = FALSE, !.work = w]
<1>1. w \in Works /\ w.kind = kind /\ w.edit = edit /\ w.fresh = TRUE
  BY DEF Works
<1>2. ui' = v
  BY DEF Run
<1> HIDE DEF w
<1>3. v \in Screens /\ v.work = w /\ v.editor = ui.editor /\ SameList(ui, v)
  BY <1>1, Given DEF Screens, SameList
<1> HIDE DEF v
<1>4. EditsKnown(v, Facts)
  BY <1>1, <1>3, Given DEF EditsKnown
<1>5. PollFits(v)
  BY <1>1, <1>3 DEF PollFits
<1>6. Sound(v, Facts, Wholes)
  BY <1>3, <1>4, <1>5, Given, SoundList
<1>7. QED BY <1>2, <1>3, <1>6, ScreenStep

LEMMA TasksSound ==
    ASSUME IInv, OpenArticle \/ RetryArticle \/ SaveEdit
    PROVE  IInv'
<1>1. UNCHANGED server /\ strays' = strays /\ left' \in [Uses -> Nat]
  BY Given, Spent DEF OpenArticle, RetryArticle, SaveEdit
<1>2. ASSUME NEW i \in ui.page.items, NEW kind \in {"open", "retry"},
             Run(kind, [NoEditor EXCEPT !.article = i.id])
      PROVE  IInv'
  <2>1. i.id \in Articles
    BY Given DEF Items
  <2> DEFINE edit == [NoEditor EXCEPT !.article = i.id]
  <2>2. edit \in Edits /\ edit.article = i.id
    BY <2>1, Defaults DEF Edits
  <2> HIDE DEF edit
  <2>3. Run(kind, edit)
    BY <1>2 DEF edit
  <2>4. QED BY <1>1, <2>1, <2>2, <2>3, RunSound
<1>3. CASE SaveEdit
  <2>1. /\ ui.editor # NoEditor /\ Complete(ui.editor.draft)
        /\ Run("save", ui.editor)
    BY <1>3 DEF SaveEdit
  <2>2. ui.editor \in Edits /\ EditFact(ui.editor) \in Facts
    BY <2>1, Given DEF EditsKnown
  <2>3. ui.editor.draft \in Contents
    BY <2>1, <2>2 DEF Edits, Contents
  <2>4. ui.editor.article \in Articles
    BY <2>2 DEF EditFact, Facts
  <2>5. QED BY <1>1, <2>1, <2>2, <2>3, <2>4, RunSound DEF EditKnown
<1>4. QED BY <1>2, <1>3 DEF OpenArticle, RetryArticle

LEMMA LoseWorkSound ==
    ASSUME IInv, LoseWork
    PROVE  IInv'
<1>1. UNCHANGED server /\ left' \in [Uses -> Nat]
  BY Given, Spent DEF LoseWork
<1>2. ui.work.kind # "none"
  BY Given DEF LoseWork, EditsKnown, NoWork
<1>3. ui' = [ui EXCEPT !.work.on = "failed"]
  BY DEF LoseWork, Answered
<1>4. ui' \in Screens /\ Sound(ui', Facts, Wholes)
  BY <1>2, <1>3, Given, SoundAnswered
<1>5. \/ strays' = strays
      \/ ui.work.kind = "save" /\ strays' = strays \cup {ui.work.edit}
  BY DEF LoseWork
<1>6. QED BY <1>1, <1>4, <1>5, ScreenStep

(* A task has ended.  An answer that is late for its screen leaves         *)
(* something that looks again, as it was without the task.                 *)
LEMMA HearWorkSound ==
    ASSUME IInv, HearWork
    PROVE  IInv'
<1> DEFINE w == ui.work
           rest == [ui EXCEPT !.work = NoWork]
           closed == IF w.kind = "save" THEN [rest EXCEPT !.editor = NoEditor]
                     ELSE rest
           failed == [rest EXCEPT !.error = ui.error \/ w.fresh]
<1>1. /\ UNCHANGED <<row, phase>> /\ strays' = strays /\ left' \in [Uses -> Nat]
      /\ w \in Works /\ w.fresh \in BOOLEAN
  BY Given DEF HearWork, Works
<1>2. /\ rest \in Screens /\ SameList(ui, rest) /\ rest.work = NoWork
      /\ rest.editor = ui.editor /\ rest.active = ui.active /\ rest.error = ui.error
      /\ rest.scanning = ui.scanning /\ rest.timer = ui.timer
  BY Given, Defaults DEF Screens, SameList
<1>3. /\ NoWork.kind = "none" /\ NoWork.fresh = FALSE
  BY DEF NoWork
<1>4. failed = [rest EXCEPT !.error = @ \/ w.fresh]
  BY <1>2
<1>5. /\ failed \in Screens /\ SameList(ui, failed) /\ failed.work = NoWork
      /\ failed.editor = ui.editor /\ failed.active = ui.active
      /\ failed.error = (ui.error \/ w.fresh)
      /\ failed.scanning = ui.scanning /\ failed.timer = ui.timer
  BY <1>1, <1>2, Given DEF Screens, SameList
<1>6. /\ closed \in Screens /\ SameList(ui, closed) /\ closed.work = NoWork
      /\ closed.editor \in {ui.editor, NoEditor} /\ closed.active = ui.active
  <2>1. CASE w.kind = "save"
    BY <1>2, <2>1, Defaults DEF Screens, SameList
  <2>2. CASE w.kind # "save"
    BY <1>2, <2>2
  <2>3. QED BY <2>1, <2>2
<1>7. \/ w.on = "failed" /\ ui' = failed /\ UNCHANGED moved
      \/ w.kind = "open" /\ ui' = (IF w.fresh THEN Leave(rest) ELSE rest) /\ UNCHANGED moved
      \/ ui.active /\ ui' = Restart(closed, ui.filter) /\ moved' = {}
      \/ ~ui.active /\ ui' = closed /\ UNCHANGED moved
  BY <1>1, <1>4, Given, Parts DEF HearWork
<1> HIDE DEF rest, closed, failed
<1>8. EditsKnown(rest, Facts) /\ EditsKnown(failed, Facts) /\ EditsKnown(closed, Facts)
  BY <1>2, <1>3, <1>5, <1>6, Given DEF EditsKnown
<1>9. CASE w.on = "failed" /\ ui' = failed /\ UNCHANGED moved
  <2>1. PollFits(failed)
    BY <1>5, Given DEF Sound, PollFits, SameList, Loading
  <2>2. Sound(failed, Facts, Wholes)
    BY <1>5, <1>8, <2>1, Given, SoundList
  <2>3. QED BY <1>1, <1>5, <1>9, <2>2, ScreenStep DEF server
<1>10. CASE w.kind = "open" /\ ui' = (IF w.fresh THEN Leave(rest) ELSE rest) /\ UNCHANGED moved
  <2>1. CASE w.fresh
    <3>1. Sound([rest EXCEPT !.active = FALSE], Facts, Wholes)
          /\ [rest EXCEPT !.active = FALSE] \in Screens
      <4> DEFINE v == [rest EXCEPT !.active = FALSE]
      <4>1. /\ v \in Screens /\ SameList(ui, v) /\ v.work = NoWork
            /\ v.editor = ui.editor /\ v.active = FALSE
        BY <1>2 DEF Screens, SameList
      <4> HIDE DEF v
      <4>2. EditsKnown(v, Facts) /\ PollFits(v)
        BY <1>3, <4>1, Given DEF EditsKnown, PollFits
      <4>3. Sound(v, Facts, Wholes)
        BY <4>1, <4>2, Given, SoundList
      <4>4. QED BY <4>1, <4>3 DEF v
    <3>2. Leave([rest EXCEPT !.active = FALSE]) = Leave(rest)
      BY <1>2 DEF Leave, Stop, Screens
    <3>3. ui' \in Screens /\ Sound(ui', Facts, Wholes)
      BY <1>10, <2>1, <3>1, <3>2, SoundLeave
    <3>4. QED BY <1>1, <1>10, <3>3, ScreenStep DEF server
  <2>2. CASE ~w.fresh
    <3>1. PollFits(rest)
      BY <1>2, <2>2, Given DEF Sound, PollFits, SameList, Loading
    <3>2. Sound(rest, Facts, Wholes)
      BY <1>2, <1>8, <3>1, Given, SoundList
    <3>3. QED BY <1>1, <1>2, <1>10, <2>2, <3>2, ScreenStep DEF server
  <2>3. QED BY <2>1, <2>2
<1>11. CASE ui.active /\ ui' = Restart(closed, ui.filter) /\ moved' = {}
  <2>1. ItemsKnown(closed, Facts)
    BY <1>6, Given DEF ItemsKnown, SameList
  <2>2. ui.filter \in Filters
    BY Given, Parts
  <2>3. QED BY <1>1, <1>6, <1>8, <1>11, <2>1, <2>2, RestartStep
<1>12. CASE ~ui.active /\ ui' = closed /\ UNCHANGED moved
  <2>1. PollFits(closed)
    BY <1>6, <1>12 DEF PollFits
  <2>2. Sound(closed, Facts, Wholes)
    BY <1>6, <1>8, <2>1, Given, SoundList
  <2>3. QED BY <1>1, <1>6, <1>12, <2>2, ScreenStep DEF server
<1>13. QED BY <1>7, <1>9, <1>10, <1>11, <1>12

-----------------------------------------------------------------------------
(* The editor, and the list begun anew.                                    *)

(* A step of the editor while no task is under way.                        *)
LEMMA EditorStep ==
    ASSUME IInv, NEW e \in Edits, e # NoEditor => EditFact(e) \in Facts,
           Idle, ui' = [ui EXCEPT !.editor = e],
           UNCHANGED server, strays' = strays, left' \in [Uses -> Nat]
    PROVE  IInv'
<1> DEFINE v == [ui EXCEPT !.editor = e]
<1>1. /\ v \in Screens /\ SameList(ui, v) /\ v.work = ui.work /\ v.editor = e
      /\ v.active = ui.active /\ v.error = ui.error
      /\ v.scanning = ui.scanning /\ v.timer = ui.timer
  BY Given DEF Screens, SameList
<1> HIDE DEF v
<1>2. EditsKnown(v, Facts)
  BY <1>1, Given DEF EditsKnown, Idle, NoWork
<1>3. PollFits(v)
  BY <1>1, Given DEF Sound, PollFits, SameList, Loading
<1>4. ui' \in Screens /\ Sound(ui', Facts, Wholes)
  BY <1>1, <1>2, <1>3, Given, SoundList DEF v
<1>5. QED BY <1>4, ScreenStep

LEMMA EditorSound ==
    ASSUME IInv, OpenEditor \/ ChooseKind \/ ToggleCategory \/ CancelEdit
    PROVE  IInv'
<1>1. UNCHANGED server /\ strays' = strays /\ left' \in [Uses -> Nat] /\ Idle
  BY Given, Spent DEF OpenEditor, ChooseKind, ToggleCategory, CancelEdit, Editable, Editing
<1>2. CASE OpenEditor
  <2>1. PICK i \in ui.page.items :
          ui' = [ui EXCEPT !.editor =
                    [article |-> i.id, revision |-> i.row.revision,
                     seen |-> i.row.content, draft |-> i.row.content]]
    BY <1>2 DEF OpenEditor
  <2> DEFINE e == [article |-> i.id, revision |-> i.row.revision,
                   seen |-> i.row.content, draft |-> i.row.content]
  <2>2. i \in Items /\ ItemFact(i) \in Facts
    BY Given
  <2>3. e \in Edits
    BY <2>2, Defaults DEF Items, Row, Edits
  <2>4. EditFact(e) = ItemFact(i)
    BY DEF EditFact, ItemFact
  <2> HIDE DEF e
  <2>5. ui' = [ui EXCEPT !.editor = e]
    BY <2>1 DEF e
  <2>6. QED BY <1>1, <2>2, <2>3, <2>4, <2>5, EditorStep
<1>3. ASSUME ui.editor # NoEditor, NEW draft \in Drafts,
             ui' = [ui EXCEPT !.editor.draft = draft]
      PROVE  IInv'
  <2> DEFINE e == [ui.editor EXCEPT !.draft = draft]
  <2>1. /\ e \in Edits /\ e.article = ui.editor.article
        /\ e.revision = ui.editor.revision /\ e.seen = ui.editor.seen
    BY <1>3, Given DEF Edits
  <2>2. ui' = [ui EXCEPT !.editor = e]
    BY <1>3, Given DEF Screens
  <2> HIDE DEF e
  <2>3. EditFact(e) \in Facts
    BY <1>3, <2>1, Given DEF EditsKnown, EditFact
  <2>4. QED BY <1>1, <2>1, <2>2, <2>3, EditorStep
<1>4. CASE ChooseKind
  <2>1. PICK kind \in Kinds :
          ui' = [ui EXCEPT !.editor.draft = [kind |-> kind, categories |-> {}]]
    BY <1>4 DEF ChooseKind
  <2>2. [kind |-> kind, categories |-> {}] \in Drafts
    BY DEF Drafts
  <2>3. ui.editor # NoEditor
    BY <1>4 DEF ChooseKind, Editing
  <2>4. QED BY <1>3, <2>1, <2>2, <2>3
<1>5. CASE ToggleCategory
  <2>1. PICK c \in Categories :
          ui' = [ui EXCEPT !.editor.draft.categories =
                    IF c \in @ THEN @ \ {c} ELSE @ \cup {c}]
    BY <1>5 DEF ToggleCategory
  <2> DEFINE was == ui.editor.draft.categories
             chosen == IF c \in was THEN was \ {c} ELSE was \cup {c}
             draft == [ui.editor.draft EXCEPT !.categories = chosen]
  <2>2. ui.editor \in Edits /\ ui.editor.draft \in Drafts
    BY Given DEF Edits
  <2>3. was \in SUBSET Categories
    BY <2>2 DEF Drafts
  <2>4. chosen \in SUBSET Categories
    BY <2>3
  <2>5. ui' = [ui EXCEPT !.editor.draft.categories = chosen]
    BY <2>1
  <2> HIDE DEF chosen
  <2>6. draft \in Drafts
    BY <2>2, <2>4 DEF Drafts
  <2>7. ui' = [ui EXCEPT !.editor.draft = draft]
    BY <2>2, <2>5, Given DEF Screens, Edits
  <2>8. ui.editor # NoEditor
    BY <1>5 DEF ToggleCategory, Editing
  <2> HIDE DEF draft
  <2>9. QED BY <1>3, <2>6, <2>7, <2>8
<1>6. CASE CancelEdit
  BY <1>1, <1>6, Defaults, EditorStep DEF CancelEdit
<1>7. QED BY <1>2, <1>4, <1>5, <1>6

LEMMA BeginSound ==
    ASSUME IInv, ChooseFilter \/ Reload \/ Show
    PROVE  IInv'
<1>1. /\ UNCHANGED <<row, phase>> /\ strays' = strays /\ moved' = {}
      /\ left' \in [Uses -> Nat]
  BY Given, Spent DEF ChooseFilter, Reload, Show, Restarts
<1>2. PICK filter \in Filters : ui' = Restart(ui, filter)
  BY Given, Parts DEF ChooseFilter, Reload, Show, Restarts
<1>3. QED BY <1>1, <1>2, Given, RestartStep

LEMMA HideSound ==
    ASSUME IInv, Hide
    PROVE  IInv'
<1>1. UNCHANGED server /\ strays' = strays /\ left' \in [Uses -> Nat]
  BY Given, Spent DEF Hide
<1>2. ui' \in Screens /\ Sound(ui', Facts, Wholes)
  BY Given, SoundLeave DEF Hide
<1>3. QED BY <1>1, <1>2, ScreenStep

LEMMA RemountSound ==
    ASSUME IInv, Remount
    PROVE  IInv'
<1>1. ui' = Fresh /\ moved' = {} /\ UNCHANGED <<row, phase>> /\ left' \in [Uses -> Nat]
  BY Given, Spent DEF Remount
<1>2. Facts' = Facts
  BY <1>1 DEF Facts, Exists
<1>3. strays' \subseteq Edits /\ \A e \in strays' : EditKnown(e, Facts)
  BY StraysLeft DEF Remount
<1>4. TypeOK' /\ StraysKnown'
  BY <1>1, <1>2, <1>3, Given, SoundFresh DEF TypeOK, StraysKnown
<1>5. Sound(ui', Facts', Wholes')
  BY <1>1, SoundFresh
<1>6. QED BY <1>4, <1>5 DEF IInv

-----------------------------------------------------------------------------
LEMMA NextSound == IInv /\ [Next]_vars => IInv'
<1> SUFFICES ASSUME IInv, [Next]_vars PROVE IInv'
  OBVIOUS
<1>1. CASE \E a \in Articles : Classify(a) \/ Summarize(a) \/ Remove(a)
  BY <1>1, ClassifySound, SummarizeSound, RemoveSound
<1>2. CASE System
  BY <1>2, TimerSound, LoadSound, HearListSound, MoreSound, HearMoreSound,
     ServeEditSound, ServeRetrySound, ServeOpenSound, HearWorkSound DEF System
<1>3. CASE LoseScan \/ LoseList \/ LoseMore \/ LoseWork \/ ServeStray
  BY <1>3, LoadSound, MoreSound, LoseWorkSound, ServeStraySound
<1>4. CASE LoadMore \/ OpenArticle \/ RetryArticle \/ SaveEdit
  BY <1>4, LoadMoreSound, TasksSound
<1>5. CASE OpenEditor \/ ChooseKind \/ ToggleCategory \/ CancelEdit
  BY <1>5, EditorSound
<1>6. CASE ChooseFilter \/ Reload \/ Hide \/ Show \/ Remount
  BY <1>6, BeginSound, HideSound, RemountSound
<1>7. CASE UNCHANGED vars
  <2>1. UNCHANGED server /\ strays' = strays /\ ui' = ui /\ left' = left
    BY <1>7 DEF vars, server
  <2>2. QED BY <2>1, Given, ScreenStep
<1>8. QED BY <1>1, <1>2, <1>3, <1>4, <1>5, <1>6, <1>7 DEF Next

(* The invariant that carries the others, for every value of the           *)
(* constants.                                                              *)
THEOREM ScreenInductive == Spec => []IInv
<1>1. QED BY InitSound, NextSound, PTL DEF Spec

(* The rows and what the screen holds keep their types.                    *)
THEOREM ScreenTyped == Spec => []TypeOK
<1>1. IInv => TypeOK
  BY DEF IInv
<1>2. QED BY <1>1, ScreenInductive, PTL

(* Whatever polls, further pages and answers come in which order, the list *)
(* of load and loadMore has no hole down to its cursor and nothing of      *)
(* another filter.                                                         *)
THEOREM PagesWhole == Spec => []PageIsWhole
<1>1. ASSUME IInv PROVE PageIsWhole
  <2>1. SUFFICES ASSUME ui.page # NoPage, NEW a \in Articles \ moved
                 PROVE  (\E i \in ui.page.items : i.id = a)
                          <=> InFilter(a, ui.filter) /\ a >= ui.page.cursor
    BY DEF PageIsWhole
  <2>2. <<ui.page, ui.filter, 0>> \in Wholes
    BY <1>1, <2>1, Given DEF Sound, PageFits
  <2>3. QED BY <2>1, <2>2 DEF Wholes
<1>2. QED BY <1>1, ScreenInductive, PTL

-----------------------------------------------------------------------------
(* The safety half of LooksAgain.                                          *)

(* Something stands for the look that is owed.                             *)
LookIsDue == LookOwed => ui.timer \/ Loading(ui) \/ ui.work.fresh
(* An armed timer is given up for a call only, and makes one when it fires.*)
LookIsKept ==
    [][/\ LookOwed /\ LookOwed' /\ ui.timer => ui'.timer \/ Loading(ui')
       /\ LookOwed /\ TimerFires => Loading(ui')]_vars

LEMMA StartLoads ==
    ASSUME NEW u \in Screens, ~u.paged
    PROVE  Loading(Start(u, FALSE))
<1>1. Start(u, FALSE) = [u EXCEPT !.loads = @ \cup {NewLoad(u.filter)}]
  BY DEF Start
<1>2. NewLoad(u.filter) \in Start(u, FALSE).loads
  BY <1>1 DEF Screens
<1>3. QED BY <1>2, NewLoadIs DEF Loading, NewLoadFields

LEMMA RestartLoads ==
    ASSUME NEW u \in Screens, NEW f \in Filters, u.editor = NoEditor
    PROVE  Loading(Restart(u, f))
<1> DEFINE s == Stop(u)
           t == [s EXCEPT !.active = TRUE, !.filter = f, !.page = NoPage,
                          !.error = FALSE, !.editor = NoEditor,
                          !.paged = FALSE, !.moreBusy = FALSE]
<1>1. s \in Screens
  BY Stopped
<1> HIDE DEF s
<1>2. t \in Screens /\ t.paged = FALSE
  BY <1>1, Defaults DEF Screens
<1>3. Restart(u, f) = Start(t, FALSE)
  BY DEF Restart, t, s
<1> HIDE DEF t
<1>4. QED BY <1>2, <1>3, StartLoads

LEMMA TimerLoads ==
    ASSUME IInv, LookOwed, TimerFires
    PROVE  Loading(ui')
<1> DEFINE t == [ui EXCEPT !.timer = FALSE]
<1>1. t \in Screens /\ ~t.paged
  BY Given DEF LookOwed, Screens
<1>2. ui' = Start(t, FALSE)
  BY DEF TimerFires, LookOwed
<1> HIDE DEF t
<1>3. QED BY <1>1, <1>2, StartLoads

LEMMA HearWorkKeeps ==
    ASSUME IInv, LookOwed, LookOwed', HearWork, ui.timer
    PROVE  ui'.timer \/ Loading(ui')
<1> DEFINE rest == [ui EXCEPT !.work = NoWork]
           closed == [rest EXCEPT !.editor = NoEditor]
<1>1. /\ rest \in Screens /\ rest.timer = ui.timer /\ rest.editor = NoEditor
  BY Given, Defaults DEF LookOwed, Screens
<1>2. closed \in Screens /\ closed.timer = ui.timer /\ closed.editor = NoEditor
  BY <1>1, Defaults DEF Screens
<1>3. ui.active /\ ui.filter \in Filters
  BY Given, Parts DEF LookOwed
<1> HIDE DEF rest, closed
<1>4. \/ ui' = [rest EXCEPT !.error = @ \/ ui.work.fresh]
      \/ ui' = Leave(rest) \/ ui' = rest
      \/ ui' = Restart(closed, ui.filter) \/ ui' = Restart(rest, ui.filter)
  BY <1>3 DEF HearWork, rest, closed
<1>5. CASE ui' = [rest EXCEPT !.error = @ \/ ui.work.fresh] \/ ui' = rest
  BY <1>1, <1>5 DEF Screens
<1>6. CASE ui' = Leave(rest)
  <2>1. Stop(rest) \in Screens
    BY <1>1, Stopped
  <2>2. ui'.active = FALSE
    BY <1>6, <2>1 DEF Leave, Screens
  <2>3. QED BY <2>2 DEF LookOwed
<1>7. CASE ui' = Restart(closed, ui.filter) \/ ui' = Restart(rest, ui.filter)
  BY <1>1, <1>2, <1>3, <1>7, RestartLoads
<1>8. QED BY <1>4, <1>5, <1>6, <1>7

LEMMA TimerKept ==
    ASSUME IInv, [Next]_vars, LookOwed, LookOwed', ui.timer
    PROVE  ui'.timer \/ Loading(ui')
<1>1. ui \in Screens /\ ui.active /\ ~ui.paged /\ ui.editor = NoEditor
  BY Given DEF LookOwed
<1>2. CASE \E a \in Articles : Classify(a) \/ Summarize(a) \/ Remove(a)
  BY <1>2 DEF Classify, Summarize, Remove
<1>3. CASE TimerFires
  BY <1>3, TimerLoads
<1>4. CASE HearScan \/ LoseScan \/ ServeList \/ LoseList
  BY <1>1, <1>4 DEF HearScan, LoseScan, ServeList, LoseList, Screens
<1>5. CASE HearList
  <2>1. PICK l \in ui.loads : ui' = ListAnswer(l)
    BY <1>5 DEF HearList
  <2>2. QED BY <1>1, <2>1 DEF ListAnswer, Screens
<1>6. CASE ServeMore \/ LoseMore
  BY <1>1, <1>6 DEF ServeMore, LoseMore, Screens
<1>7. CASE HearMore
  <2>1. PICK m \in ui.mores : ui' = MoreAnswer(m)
    BY <1>7 DEF HearMore
  <2>2. QED BY <1>1, <2>1 DEF MoreAnswer, Screens
<1>8. CASE LoadMore
  <2>1. ui'.paged
    BY <1>1, <1>8 DEF LoadMore, Screens
  <2>2. QED BY <2>1 DEF LookOwed
<1>9. CASE ServeEdit \/ ServeRetry \/ ServeOpen \/ LoseWork
  <2>1. PICK how : ui' = [ui EXCEPT !.work.on = how]
    BY <1>9 DEF ServeEdit, ServeRetry, ServeOpen, LoseWork, Answered
  <2>2. QED BY <1>1, <2>1 DEF Screens
<1>10. CASE HearWork
  BY <1>10, HearWorkKeeps
<1>11. CASE OpenArticle \/ RetryArticle \/ SaveEdit
  <2>1. PICK kind, edit : Run(kind, edit)
    BY <1>11 DEF OpenArticle, RetryArticle, SaveEdit
  <2>2. QED BY <1>1, <2>1 DEF Run, Screens
<1>12. CASE OpenEditor \/ ChooseKind \/ ToggleCategory \/ CancelEdit
  BY <1>1, <1>12 DEF OpenEditor, ChooseKind, ToggleCategory, CancelEdit, Screens
<1>13. CASE ChooseFilter \/ Reload \/ Show
  <2>1. PICK f \in Filters : ui' = Restart(ui, f)
    BY <1>13, Given, Parts DEF ChooseFilter, Reload, Show, Restarts
  <2>2. QED BY <1>1, <2>1, RestartLoads
<1>14. CASE Hide
  <2>1. Stop(ui) \in Screens /\ ui' = Leave(ui)
    BY <1>1, <1>14, Stopped DEF Hide
  <2>2. ui'.active = FALSE
    BY <2>1 DEF Leave, Screens
  <2>3. QED BY <2>2 DEF LookOwed
<1>15. CASE Remount
  <2>1. ui'.scanning = FALSE
    BY <1>15 DEF Remount, Fresh
  <2>2. QED BY <2>1 DEF LookOwed
<1>16. CASE ServeStray \/ UNCHANGED vars
  BY <1>16 DEF ServeStray, vars
<1>17. QED BY <1>2, <1>3, <1>4, <1>5, <1>6, <1>7, <1>8, <1>9, <1>10, <1>11,
              <1>12, <1>13, <1>14, <1>15, <1>16 DEF Next, System

(* While the screen says that articles are being classified and nothing is *)
(* being edited, load has a timer, a call or a task that begins the list   *)
(* anew before it; no order of steps of other callbacks takes an armed     *)
(* timer away without a call, and when it fires it makes one.  What        *)
(* LooksAgain adds is that timers fire and tasks end.                      *)
THEOREM LooksPrepared == Spec => []LookIsDue /\ LookIsKept
<1>1. ASSUME IInv PROVE LookIsDue
  BY <1>1, Given DEF Sound, PollFits, LookIsDue, LookOwed
<1>2. ASSUME IInv, [Next]_vars
      PROVE  [/\ LookOwed /\ LookOwed' /\ ui.timer => ui'.timer \/ Loading(ui')
              /\ LookOwed /\ TimerFires => Loading(ui')]_vars
  BY <1>2, TimerKept, TimerLoads
<1>3. QED BY <1>1, <1>2, ScreenInductive, PTL DEF Spec, LookIsKept

(* An edit that the server accepts replaces what its author was shown, and *)
(* the answer to a save closes no other editor.                            *)
THEOREM EditorsSafe == Spec => []EditorIsSafe
<1>1. ASSUME IInv PROVE EditorIsSafe
  <2>1. ASSUME NEW e, EditFact(e) \in Facts, e.article \in Articles, Accepts(e)
        PROVE  e.seen = row[e.article].content
    BY <2>1 DEF EditFact, Facts, Accepts
  <2>2. \A e \in strays : EditFact(e) \in Facts
    BY <1>1 DEF IInv, StraysKnown, EditKnown
  <2>3. /\ ui.editor # NoEditor => EditFact(ui.editor) \in Facts
        /\ ui.work.kind = "save" =>
             /\ EditFact(ui.work.edit) \in Facts
             /\ ui.editor # NoEditor => ui.editor = ui.work.edit
    BY <1>1, Given DEF EditsKnown, EditKnown
  <2>4. QED BY <2>1, <2>2, <2>3 DEF EditorIsSafe
<1>2. QED BY <1>1, ScreenInductive, PTL
=============================================================================
